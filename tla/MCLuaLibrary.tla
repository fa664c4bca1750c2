---------------------------- MODULE MCLuaLibrary ----------------------------
(***************************************************************************)
(* The functions of the Lua library and of sha1 that are algorithms of     *)
(* their own, called once each on every input of the sets below.  They     *)
(* are pure: a state is a call and whether it has returned, and what it    *)
(* returned is a function of the call, compared with what it should be in  *)
(* the step in which it returns.                                           *)
(***************************************************************************)
EXTENDS Integers, Sequences, FiniteSets, SequencesExt

CONSTANTS MAXCCALLS, LUA_MAXCAPTURES,
          NB, SZINT, SizeOfInt, MAXINTSIZE, MAXALIGN,
          LUA_MAXINTEGER, INT_MAX, WIDTH,
          BLOCK, COUNT, WORD, BYTE,
          SIZE_MAX, MAXSIZE, UCHAR_MAX, OCTET,
          ItemsBound,     \* items of a pattern
          OptionsBound,   \* options of a pack format
          ArrayBound,     \* length of an array to sort
          BytesBound,     \* length of a string of utf8
          ChunkBound      \* length of one update of a digest

Pat == INSTANCE LuaPattern
Ref == INSTANCE PatternReference
Pck == INSTANCE LuaPack
Tab == INSTANCE LuaTabLib
Lex == INSTANCE LuaLex
Utf == INSTANCE LuaUtf8
Sha == INSTANCE Sha1 WITH W <- WORD
Str == INSTANCE LuaString
Adr == INSTANCE XPAddress

VARIABLES call, returned
vars == <<call, returned>>

\* Every lua_Integer.
Window == Tab!lua_Integers
SeqsUpTo(S, n) == UNION {[1..m -> S] : m \in 0..n}

-----------------------------------------------------------------------------
\* Patterns: every kind of item, on sources in which several ways compete.
Chars == {"a", "b", "(", ")"}
PatternItems ==
    {Ref!Item(<<"a">>, "set", {"a"}, ""), Ref!Item(<<"a", "*">>, "set", {"a"}, "*"),
     Ref!Item(<<".", "-">>, "set", Chars, "-"),
     Ref!Item(<<"[", "^", "a", "]", "+">>, "set", Chars \ {"a"}, "+"),
     Ref!Item(<<"[", "a", "-", "b", "]", "?">>, "set", {"a", "b"}, "?"),
     Ref!Item(<<"%", "p", "*">>, "set", {"(", ")"}, "*"),
     Ref!Item(<<"(">>, "open", {}, ""), Ref!Item(<<")">>, "close", {}, ""),
     Ref!Item(<<"(", ")">>, "position", {}, ""), Ref!Item(<<"%", "1">>, "back", {}, ""),
     Ref!Item(<<"$">>, "end", {}, ""), Ref!Item(<<"%", "b", "(", ")">>, "balance", {}, ""),
     Ref!Item(<<"%", "f", "[", "%", "a", "]">>, "frontier", {"a", "b"}, "")}
Sources == {<<>>, <<"a">>, <<"a", "b">>, <<"b", "a", "a">>, <<"a", "b", "a", "b">>,
            <<"(", "a", ")", "b">>, <<"(", "(", ")", "a", ")">>}
Patterns == {p \in SeqsUpTo(PatternItems, ItemsBound) : Ref!WellFormed(p)}
FindCall == \E src \in Sources, p \in Patterns : call = [op |-> "find", src |-> src, items |-> p]

\* string.find, string.gmatch and string.gsub with the same pattern.
FindResult ==
    LET pat == Ref!Text(call.items)
    IN  [find |-> Pat!str_find_aux(call.src, pat, 1, FALSE, FALSE),
         all |-> Pat!gmatch_aux(call.src, 1, pat),
         gsub |-> Pat!str_gsub(call.src, pat, <<"%0">>, Len(call.src) + 1)]

-----------------------------------------------------------------------------
\* Short strings with every pair of positions, repeated every number of times;
\* and a search for one string in another from every position.
StringCall ==
    \/ \E s \in SeqsUpTo({0, UCHAR_MAX}, 3), i, j \in Window :
          call = [op |-> "string", f |-> "slice", s |-> s, i |-> i, j |-> j]
    \/ \E s \in SeqsUpTo({1}, 3), sep \in SeqsUpTo({2}, 2), n \in Window :
          call = [op |-> "string", f |-> "rep", s |-> s, sep |-> sep, n |-> n]
    \/ \E s \in SeqsUpTo({"a", "b"}, 4), p \in SeqsUpTo({"a", "b"}, 2), i \in Window :
          call = [op |-> "string", f |-> "search", s |-> s, p |-> p, i |-> i]

StringResult ==
    CASE call.f = "slice" ->
           LET b == Str!str_byte(call.s, call.i, call.j, INT_MAX, INT_MAX + 1)
           IN  [sub |-> Str!str_sub(call.s, call.i, call.j), bytes |-> b,
                back |-> IF b.k = "ok" THEN Str!str_char(b.v) ELSE b,
                reversed |-> Str!str_reverse(call.s)]
      [] call.f = "rep" -> Str!str_rep(call.s, call.n, call.sep)
      [] call.f = "search" -> Pat!str_find_aux(call.s, call.p, call.i, TRUE, TRUE)

-----------------------------------------------------------------------------
\* Addresses of every number of components, with and without a port, digits
\* enough for every octet and for a number that does not fit.
Component == {<<>>, <<0>>, <<7>>, <<1, 0>>, <<1, 1>>, <<2, 0, 7, 3, 5>>}
Host(cs) == FlattenSeq([i \in 1..Len(cs) |-> IF i = 1 THEN cs[i] ELSE <<Adr!Dot>> \o cs[i]])
AddressCall ==
    \/ \E cs \in SeqsUpTo(Component, 4), p \in {<<>>, <<Adr!Colon>>, <<Adr!Colon, 8, 0>>} :
          /\ cs # <<>> => Last(cs) # <<>>
          /\ call = [op |-> "address", f |-> "text", cs |-> cs, text |-> Host(cs) \o p,
                     port |-> IF Len(p) > 1 THEN 80 ELSE 0]
    \/ \E a \in [1..4 -> {0, 9, 10, OCTET - 1}], p \in {0, 80, OCTET^2 - 1} :
          call = [op |-> "address", f |-> "printed", addr |-> a, text |-> Adr!xpsocket_getXname(a, p),
                  port |-> p]

\* The address read, and read again after it was printed.
AddressResult ==
    LET a == Adr!addrFromString(call.text)
    IN  [a |-> a,
         again |-> IF a.k = "ok" THEN Adr!addrFromString(Adr!xpsocket_getXname(a.addr, a.port)) ELSE a]

-----------------------------------------------------------------------------
\* Formats: every option, alone and before another, in both orders and aligned.
Headers == {<<>>, <<<<">", 0>>>>, <<<<"!", 2>>>>, <<<<"!", 0>>, <<"x", 0>>>>}
Options == {<<"b", 0>>, <<"B", 0>>, <<"j", 0>>, <<"J", 0>>, <<"i", 0>>, <<"i", 2>>, <<"i", 3>>,
            <<"I", 3>>, <<"s", 1>>, <<"s", 2>>, <<"s", 3>>, <<"c", 2>>, <<"z", 0>>, <<"x", 0>>, <<"X", 0>>}
Ints == {-8, -3, -2, -1, 0, 1, 2, 3, 7}
Strings == {<<>>, <<1>>, <<1, 2>>, <<3, 0>>}

\* The options that take an argument: not those for padding, and not the one
\* after an X.
Valued(fmt) ==
    SelectSeq([i \in 1..Len(fmt) |-> IF i > 1 /\ fmt[i - 1][1] = "X" THEN <<"x", 0>> ELSE fmt[i]],
              LAMBDA o : o[1] \notin {"x", "X", "!", "<", ">"})
RECURSIVE Arguments(_)
Arguments(options) ==
    IF options = <<>> THEN {<<>>}
    ELSE {<<v>> \o a : v \in IF options[1][1] \in {"s", "c", "z"} THEN Strings ELSE Ints,
                       a \in Arguments(Tail(options))}
PackCall ==
    \E h \in Headers, f \in SeqsUpTo(Options, OptionsBound) :
        \E a \in Arguments(Valued(h \o f)) : call = [op |-> "pack", fmt |-> h \o f, args |-> a]

\* string.pack, string.packsize and string.unpack of what was packed.
PackResult ==
    LET p == Pck!str_pack(call.fmt, call.args)
    IN  [packed |-> p, size |-> Pck!str_packsize(call.fmt),
         unpacked |-> IF p.k = "ok" THEN Pck!str_unpack(call.fmt, p.bytes) ELSE p]

-----------------------------------------------------------------------------
\* Arrays under every relation on two values, under the strict weak orders of
\* three, and a few arrays under every relation on three.
Relations(S) == SUBSET (S \X S)
StrictWeakOrder(lt, S) ==
    /\ \A a \in S : <<a, a>> \notin lt
    /\ \A a, b, c \in S : (<<a, b>> \in lt /\ <<b, c>> \in lt) => <<a, c>> \in lt
    /\ \A a, b, c \in S : <<a, c>> \in lt => (<<a, b>> \in lt \/ <<b, c>> \in lt)
Orders == {lt \in Relations(1..3) : StrictWeakOrder(lt, 1..3)}
SomeArrays == {<<1, 2, 3, 1>>, <<3, 1, 2, 2, 1>>, <<1, 2, 3, 1, 2, 3>>, <<2, 1, 1, 3, 1, 2, 3>>}
SortCall ==
    \E a \in SeqsUpTo(1..3, ArrayBound) \cup SomeArrays, lt \in Relations(1..3) :
        /\ \/ a \in SomeArrays
           \/ a \in SeqsUpTo(1..2, ArrayBound) /\ lt \in Relations(1..2)
           \/ lt \in Orders
        /\ call = [op |-> "sort", a |-> a, lt |-> lt]

SortResult == Tab!sort(call.a, call.lt)

\* A table of a few elements with nil around them; every range of the small
\* integers moved within it or to another table; insertions and removals at
\* every position.
LastElement == LUA_MAXINTEGER - 2
Elements == [i \in Window |-> IF i \in 1..LastElement THEN i ELSE Tab!nil]
Others == [i \in Window |-> 50 + i]
Positions == {<<>>} \cup {<<p>> : p \in 0..(LastElement + 2)}
TableCall ==
    \/ \E f, e, t \in Window, same \in BOOLEAN :
          call = [op |-> "table", f |-> "move", args |-> <<f, e, t>>, same |-> same]
    \/ \E f \in {"insert", "remove"}, p \in Positions, len \in 0..LastElement :
          call = [op |-> "table", f |-> f, pos |-> p, len |-> len]
    \/ \E i, e \in Window, room \in 0..3 :
          call = [op |-> "table", f |-> "range", i |-> i, e |-> e, room |-> room]

Truncated(len) == [i \in Window |-> IF i \in 1..len THEN Elements[i] ELSE Tab!nil]
TableResult ==
    CASE call.f = "move" ->
           Tab!tmove(Elements, IF call.same THEN Elements ELSE Others, call.same,
                     call.args[1], call.args[2], call.args[3])
      [] call.f = "insert" -> Tab!tinsert(Truncated(call.len), call.len, call.pos, 9)
      [] call.f = "remove" -> Tab!tremove(Truncated(call.len), call.len, call.pos)
      [] call.f = "range" ->
           [unpacked |-> Tab!unpack(Elements, call.i, call.e, call.room),
            joined |-> Tab!tconcat(Elements, <<0>>, call.i, call.e)]

-----------------------------------------------------------------------------
\* Texts: two lexemes with something between and after them.  breaks is the
\* number of line breaks in the text.
Lexemes ==
    {[text |-> <<105, 102, 120>>, token |-> Lex!Name(<<105, 102, 120>>), breaks |-> 0],
     [text |-> <<105, 102>>, token |-> [k |-> "reserved", v |-> <<105, 102>>], breaks |-> 0],
     [text |-> <<60, 61>>, token |-> Lex!Token("<="), breaks |-> 0],
     [text |-> <<60, 60>>, token |-> Lex!Token("<<"), breaks |-> 0],
     [text |-> <<60>>, token |-> Lex!Symbol(60), breaks |-> 0],
     [text |-> <<45>>, token |-> Lex!Symbol(45), breaks |-> 0],
     [text |-> <<58, 58>>, token |-> Lex!Token("::"), breaks |-> 0],
     [text |-> <<46, 46, 46>>, token |-> Lex!Token("..."), breaks |-> 0],
     [text |-> <<46, 46>>, token |-> Lex!Token(".."), breaks |-> 0],
     [text |-> <<46>>, token |-> Lex!Symbol(46), breaks |-> 0],
     [text |-> <<91>>, token |-> Lex!Symbol(91), breaks |-> 0],
     \* 30, 0xfe, 255, .5e-2 and 3.e1 with integers of eight bits
     [text |-> <<51, 48>>, token |-> Lex!Integer(30), breaks |-> 0],
     [text |-> <<48, 120, 102, 101>>, token |-> Lex!Integer(-2), breaks |-> 0],
     [text |-> <<50, 53, 53>>, token |-> Lex!Integer(-1), breaks |-> 0],
     [text |-> <<46, 53, 101, 45, 50>>, token |-> [k |-> "<number>", v |-> <<5, -3>>], breaks |-> 0],
     [text |-> <<51, 46, 101, 49>>, token |-> [k |-> "<number>", v |-> <<3, 1>>], breaks |-> 0],
     \* strings with the escapes \65 \x4a \u{20AC} \0652 \z, line breaks and \n \\ \'
     [text |-> <<39, 97, 34, 92, 54, 53, 92, 120, 52, 97, 39>>, token |-> Lex!String(<<97, 34, 65, 74>>),
      breaks |-> 0],
     [text |-> <<34, 92, 117, 123, 50, 48, 65, 67, 125, 92, 48, 54, 53, 50, 34>>,
      token |-> Lex!String(<<226, 130, 172, 65, 50>>), breaks |-> 0],
     [text |-> <<34, 92, 122, 32, 13, 10, 32, 97, 92, 13, 10, 98, 34>>, token |-> Lex!String(<<97, 10, 98>>),
      breaks |-> 2],
     [text |-> <<39, 92, 110, 92, 92, 92, 39, 39>>, token |-> Lex!String(<<10, 92, 39>>), breaks |-> 0],
     \* long strings of levels 0 and 1 with brackets and line breaks in them
     [text |-> <<91, 91, 13, 10, 120, 93, 61, 93, 13, 10, 93, 93>>, token |-> Lex!String(<<120, 93, 61, 93, 10>>),
      breaks |-> 2],
     [text |-> <<91, 61, 91, 93, 93, 93, 61, 93>>, token |-> Lex!String(<<93, 93>>), breaks |-> 0],
     [text |-> <<91, 61, 91, 10, 10, 93, 93, 61, 93>>, token |-> Lex!String(<<10, 93>>), breaks |-> 2],
     \* what is refused: an unfinished string, a bad escape, a malformed number
     [text |-> <<39, 97, 10, 39>>, token |-> Lex!Bad, breaks |-> 0],
     [text |-> <<91, 61, 120>>, token |-> Lex!Bad, breaks |-> 0],
     [text |-> <<34, 92, 51, 48, 48, 34>>, token |-> Lex!Bad, breaks |-> 0],
     [text |-> <<39, 92, 120, 103, 39>>, token |-> Lex!Bad, breaks |-> 0],
     [text |-> <<34, 92, 117, 123, 49, 49, 48, 48, 48, 48, 125, 34>>, token |-> Lex!Bad, breaks |-> 0],
     [text |-> <<48, 120>>, token |-> Lex!Bad, breaks |-> 0],
     [text |-> <<49, 101>>, token |-> Lex!Bad, breaks |-> 0],
     [text |-> <<51, 46, 46, 50>>, token |-> Lex!Bad, breaks |-> 0]}
\* Spaces, the four line breaks, and comments that end with the line or with
\* the right long bracket.
Trivia ==
    {[text |-> <<32>>, breaks |-> 0], [text |-> <<10>>, breaks |-> 1],
     [text |-> <<13, 10>>, breaks |-> 1], [text |-> <<10, 13>>, breaks |-> 1],
     [text |-> <<10, 10>>, breaks |-> 2],
     [text |-> <<45, 45, 91, 61, 61, 120, 10>>, breaks |-> 1],
     [text |-> <<45, 45, 32, 97, 13, 10>>, breaks |-> 1],
     [text |-> <<45, 45, 91, 91, 32, 45, 45, 10, 93, 93>>, breaks |-> 1],
     [text |-> <<45, 45, 91, 61, 91, 13, 93, 93, 10, 13, 93, 61, 93>>, breaks |-> 2]}
LexCall ==
    \E a, b \in Lexemes, g, h \in Trivia, ahead \in BOOLEAN :
        /\ a.token # Lex!Bad
        /\ a.text = <<45>> => g.text[1] # 45
        /\ b.text = <<45>> => h.text[1] # 45
        /\ call = [op |-> "lex", a |-> a, g |-> g, b |-> b, h |-> h, ahead |-> ahead]

\* Three times luaX_next, with luaX_lookahead after the first if ahead.
LexerResult ==
    LET s0 == Lex!luaX_setinput(call.a.text \o call.g.text \o call.b.text \o call.h.text)
        s1 == Lex!luaX_next(s0)
        s2 == Lex!luaX_next(IF call.ahead THEN Lex!luaX_lookahead(s1) ELSE s1)
        s3 == Lex!luaX_next(s2)
    IN  [tokens |-> <<s1.t, s2.t, s3.t>>,
         lines |-> <<s1.linenumber, s2.linenumber, s3.linenumber>>, last |-> s3.lastline]

-----------------------------------------------------------------------------
\* Bytes of every class, and code points at the ends of the four lengths.
Bytes == {65, 128, 144, 160, 191, 192, 194, 224, 237, 240, 244, 255}
CodePoints == {0, 65, 127, 128, 2047, 2048, 4096, 55295, 65535, 65536, 262143, 1048576, 1114111}
Utf8Call ==
    \/ \E s \in SeqsUpTo(Bytes, BytesBound) : call = [op |-> "utf8", s |-> s]
    \/ \E x, y \in CodePoints : call = [op |-> "utf8", s |-> Utf!luaO_utf8esc(x) \o Utf!luaO_utf8esc(y)]

Utf8Result ==
    [codes |-> Utf!iter_codes(call.s, 0, <<>>),
     len |-> Utf!utflen(call.s, 1, -1), points |-> Utf!codepoint(call.s, 1, -1)]

-----------------------------------------------------------------------------
\* A message in three updates.
Lengths == 0..ChunkBound
Bytes3(a, b, c) == [i \in 1..(a + b + c) |-> <<"byte", i>>]
DigestCall == \E a, b, c \in Lengths : call = [op |-> "digest", lens |-> <<a, b, c>>]

DigestResult ==
    LET m == Bytes3(call.lens[1], call.lens[2], call.lens[3])
        u1 == Sha!SHA1_Update(Sha!SHA1_Init, SubSeq(m, 1, call.lens[1]))
        u2 == Sha!SHA1_Update(u1.ctx, SubSeq(m, call.lens[1] + 1, call.lens[1] + call.lens[2]))
        u3 == Sha!SHA1_Update(u2.ctx, SubSeq(m, call.lens[1] + call.lens[2] + 1, Len(m)))
    IN  [digest |-> Sha!SHA1_Final(u3.ctx)]

-----------------------------------------------------------------------------
Init ==
    /\ FindCall \/ StringCall \/ AddressCall \/ PackCall \/ SortCall \/ TableCall \/ LexCall \/ Utf8Call \/ DigestCall
    /\ returned = FALSE

Return == ~returned /\ returned' = TRUE /\ UNCHANGED call
Next == Return

Spec == Init /\ [][Next]_vars

-----------------------------------------------------------------------------
\* The backtracking matcher of lstrlib.c gives the first of all the ways in
\* which the items of a pattern can match, with its captures, although it
\* leaves the captures of failed attempts behind in the match state; and gsub
\* replaces exactly the matches that gmatch gives, copying the rest.
PatternsAgree ==
    call.op = "find" =>
        LET result == FindResult IN
        /\ result.find = Ref!Match(call.items, call.src, 1, FALSE)
        /\ result.gsub.b = call.src /\ result.gsub.n = Len(result.all)

\* string.sub and string.byte agree on a range given from either end, char
\* undoes byte, a plain search finds the first occurrence, and rep either
\* refuses or fills exactly the buffer it allocated.
FromEnd(p, len) == IF p < 0 THEN len + p + 1 ELSE p
SlicesAgree ==
    call.op = "string" =>
        LET result == StringResult IN
    CASE call.f = "slice" ->
           LET l == Len(call.s)
               lo == FromEnd(call.i, l)
               hi == FromEnd(call.j, l)
               range == SelectSeq([n \in 1..l |-> n], LAMBDA n : n \in lo..hi)
           IN  /\ result.sub = [n \in 1..Len(range) |-> call.s[range[n]]]
               /\ result.bytes.k = "ok" <=> Len(range) <= INT_MAX
               /\ result.bytes.k = "ok" => result.bytes.v = result.sub /\ result.back.v = result.sub
               /\ \A n \in 1..l : result.reversed[n] = call.s[l + 1 - n]
      [] call.f = "rep" ->
           LET l == Len(call.s) + Len(call.sep)
           IN  IF call.n > 0 /\ call.n * l > MAXSIZE THEN result.k = "error"
               ELSE /\ result.k = "ok"
                    /\ call.n > 0 => /\ result.size = Len(result.v)
                                     /\ Len(result.v) = call.n * l - Len(call.sep)
      [] call.f = "search" ->
           LET start == IF FromEnd(call.i, Len(call.s)) < 1 THEN 1 ELSE FromEnd(call.i, Len(call.s))
               at == {n \in start..(Len(call.s) - Len(call.p) + 1) : SubSeq(call.s, n, n + Len(call.p) - 1) = call.p}
           IN  IF at = {} THEN result.k = "nil"
               ELSE result.s \in at /\ \A n \in at : result.s <= n

\* An address reads as xpio.md describes it: four components of one octet
\* each, a last component that stands for all the octets left, an empty
\* host or port as 0; and what getsockname prints reads back as the same.
AddressRead ==
    call.op = "address" =>
        LET result == AddressResult IN
        /\ result.a.k = "ok" /\ result.a.port = call.port /\ result.again = result.a
        /\ call.f = "printed" => result.a.addr = call.addr
        /\ call.f = "text" =>
              LET n == Len(call.cs)
                  Value(i) == FoldLeft(LAMBDA x, d : 10 * x + d, 0, call.cs[i])
                  Part(i) == CASE i < n -> Value(i) [] i >= n /\ i < 4 -> 0
                               [] OTHER -> IF n = 0 THEN 0 ELSE Value(n)
              IN  /\ (\A i \in 1..n : Value(i) < OCTET) => result.a.addr = [i \in 1..4 |-> Part(i)]
                  /\ (n = 1 /\ Value(1) = OCTET^4 - 1) => result.a.addr = [i \in 1..4 |-> OCTET - 1]

\* What string.pack writes, string.unpack reads back, whatever the sizes,
\* the byte order and the alignment; packsize tells the length beforehand.
PackRoundTrips ==
    call.op = "pack" =>
        LET result == PackResult IN
        result.packed.k = "ok" =>
        /\ result.unpacked = [k |-> "ok", next |-> Len(result.packed.bytes) + 1,
                              values |-> call.args]
        /\ result.size.k = "ok" => result.size.size = Len(result.packed.bytes)

Count(a, v) == Cardinality({i \in 1..Len(a) : a[i] = v})

\* table.sort with any order function at all keeps the elements, and with a
\* strict weak order it sorts them and raises no error.
SortSorts ==
    call.op = "sort" =>
        LET result == SortResult IN
        /\ \A v \in 1..3 : Count(result.a, v) = Count(call.a, v)
        /\ StrictWeakOrder(call.lt, 1..3) =>
              /\ result.k = "ok"
              /\ \A i, j \in 1..Len(call.a) : i < j => <<result.a[j], result.a[i]>> \notin call.lt

\* table.move copies as if it read everything before it wrote anything, and
\* refuses what does not fit the integers; insert and remove shift what is
\* behind the position; unpack and concat give every element of the range.
Moved(f, e, t, to) ==
    [i \in Window |-> IF i - t \in 0..(e - f) THEN Elements[f + i - t] ELSE to[i]]
ElementsMoved ==
    call.op = "table" =>
        LET result == TableResult IN
    CASE call.f = "move" ->
           LET f == call.args[1]  e == call.args[2]  t == call.args[3]
               to == IF call.same THEN Elements ELSE Others
               fits == e < f \/ (e - f + 1 <= LUA_MAXINTEGER /\ t + e - f <= LUA_MAXINTEGER)
           IN  result = IF fits THEN [k |-> "ok", t |-> Moved(f, e, t, to), v |-> Tab!nil]
                          ELSE [k |-> "error", t |-> to]
      [] call.f = "insert" ->
           LET p == IF call.pos = <<>> THEN call.len + 1 ELSE call.pos[1]
               s == SubSeq([i \in 1..LastElement |-> i], 1, call.len)
           IN  IF p \in 1..(call.len + 1)
               THEN [i \in 1..(call.len + 1) |-> result.t[i]] = InsertAt(s, p, 9)
               ELSE result.k = "error"
      [] call.f = "remove" ->
           LET p == IF call.pos = <<>> THEN call.len ELSE call.pos[1]
               s == SubSeq([i \in 1..LastElement |-> i], 1, call.len)
           IN  p \in 1..call.len =>
                  /\ [i \in 1..(call.len - 1) |-> result.t[i]] = RemoveAt(s, p)
                  /\ result.t[call.len] = Tab!nil /\ result.v = p
      [] call.f = "range" ->
           LET n == call.e - call.i + 1
           IN  /\ result.unpacked.k = "error" <=> n > 0 /\ (n > INT_MAX \/ n > call.room)
               /\ result.unpacked.k = "ok" =>
                     result.unpacked.s = [j \in 1..(IF n > 0 THEN n ELSE 0) |-> Elements[call.i + j - 1]]
               /\ result.joined.k = "ok" =>
                     SelectSeq(result.joined.s, LAMBDA v : v # 0)
                       = [j \in 1..(IF n > 0 THEN n ELSE 0) |-> Elements[call.i + j - 1]]

\* The lexer reads the lexemes a text was put together from, whatever stands
\* between them, decodes strings and numerals, counts every line break once,
\* and looking ahead changes nothing.
TokensRead ==
    call.op = "lex" =>
        LET result == LexerResult IN
        LET a == call.a  b == call.b
            line == 1 + a.breaks + call.g.breaks + b.breaks
        IN  /\ result.tokens[1] = a.token /\ result.tokens[2] = b.token
            /\ b.token # Lex!Bad =>
                  /\ result.tokens[3] = Lex!TK_EOS
                  /\ result.lines[2] = line
                  /\ result.lines[3] = line + call.h.breaks /\ result.last = line

\* The encoding of a code point by the standard's table.
Encoding(x) ==
    LET C(n) == 128 + ((x \div 64^n) % 64)
    IN  CASE x < 128 -> <<x>>
          [] x \in 128..2047 -> <<192 + x \div 64, C(0)>>
          [] x \in 2048..65535 -> <<224 + x \div 64^2, C(1), C(0)>>
          [] OTHER -> <<240 + x \div 64^3, C(2), C(1), C(0)>>

\* The functions of the utf8 library agree with each other and with the
\* standard: what codes iterates over is the only decoding of the string,
\* len counts it, codepoint lists it, char gives the string back and offset
\* finds every character from either end and from the middle.
Utf8Agrees ==
    call.op = "utf8" =>
        LET result == Utf8Result IN
        LET c == result.codes
            At(k) == c.v[k][1]
        IN  /\ result.len.k = "ok" <=> c.k = "ok"
            /\ result.points.k = "ok" <=> c.k = "ok"
            /\ c.k = "ok" =>
                  /\ FlattenSeq([k \in 1..Len(c.v) |-> Encoding(c.v[k][2])]) = call.s
                  /\ result.len.v = Len(c.v)
                  /\ result.points.v = [k \in 1..Len(c.v) |-> c.v[k][2]]
                  /\ Utf!utfchar(result.points.v) = [k |-> "ok", v |-> call.s]
                  /\ \A k \in 1..Len(c.v) :
                        /\ Utf!byteoffset(call.s, k, 1) = [k |-> "ok", v |-> At(k)]
                        /\ Utf!byteoffset(call.s, k - Len(c.v) - 1, Len(call.s) + 1) = [k |-> "ok", v |-> At(k)]
                        /\ \A i \in At(k)..Len(call.s) :
                              (k < Len(c.v) => i < At(k + 1)) =>
                                 Utf!byteoffset(call.s, 0, i) = [k |-> "ok", v |-> At(k)]

\* The message padded by the standard, cut into blocks.
PaddedMessage(m) ==
    LET bits == Len(m) * BYTE
        k == (BLOCK - COUNT - 1 - Len(m)) % BLOCK
    IN  m \o <<Sha!One>> \o [i \in 1..k |-> Sha!Zero] \o Sha!CountBytes(<<bits % 2^WORD, bits \div 2^WORD>>)

\* The digest absorbs exactly the blocks of the padded message, however the
\* message was cut into updates and also when the low word of the count wraps.
DigestIsStandard ==
    call.op = "digest" =>
        LET result == DigestResult IN
        LET p == PaddedMessage(Bytes3(call.lens[1], call.lens[2], call.lens[3]))
        IN  result.digest = [i \in 1..(Len(p) \div BLOCK) |-> SubSeq(p, (i - 1) * BLOCK + 1, i * BLOCK)]
=============================================================================
