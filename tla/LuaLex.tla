------------------------------- MODULE LuaLex -------------------------------
(***************************************************************************)
(* The lexical analyser (llex.c) with the conversion of numerals           *)
(* (lobject.c).  A character is its ASCII code and the text a sequence of  *)
(* them; a lexer state holds what is left of the text (its head is         *)
(* ls->current), the buffer of the lexeme being read, the line numbers and *)
(* the two token places.  A Lua integer has WIDTH bits.                    *)
(***************************************************************************)
EXTENDS Integers, Sequences, SequencesExt, LuaUtf8

CONSTANT WIDTH

EOZ == -1
LF == 10
CR == 13
Space == {32, 12, 9, 11, LF, CR}
Dot == 46
Minus == 45
Equal == 61
Open == 91       \* [
Close == 93      \* ]
Backslash == 92
Quotes == {34, 39}

lisdigit(c) == c \in 48..57
lisxdigit(c) == lisdigit(c) \/ c \in 65..70 \/ c \in 97..102
lislalpha(c) == c \in 65..90 \/ c \in 97..122 \/ c = 95
lislalnum(c) == lislalpha(c) \/ lisdigit(c)
luaO_hexavalue(c) == IF lisdigit(c) THEN c - 48 ELSE IF c < 97 THEN c - 55 ELSE c - 87

Token(k) == [k |-> k, v |-> <<>>]
TK_EOS == Token("<eof>")
String(s) == [k |-> "<string>", v |-> s]
Name(s) == [k |-> "<name>", v |-> s]
Integer(i) == [k |-> "<integer>", v |-> <<i>>]
Symbol(c) == [k |-> "symbol", v |-> <<c>>]
Bad == Token("error")

\* Three of the reserved words stand for all: those whose spelling is given.
Reserved == {<<105, 102>>, <<105, 110>>, <<111, 114>>}   \* if, in, or

luaX_setinput(text) ==
    [z |-> text, buff |-> <<>>, linenumber |-> 1, lastline |-> 1,
     t |-> TK_EOS, lookahead |-> TK_EOS]

current(ls) == IF ls.z = <<>> THEN EOZ ELSE ls.z[1]
next(ls) == [ls EXCEPT !.z = IF @ = <<>> THEN @ ELSE Tail(@)]
save(ls, c) == [ls EXCEPT !.buff = Append(@, c)]
save_and_next(ls) == next(save(ls, current(ls)))
luaZ_buffremove(ls, n) == [ls EXCEPT !.buff = SubSeq(@, 1, Len(@) - n)]
luaZ_resetbuffer(ls) == [ls EXCEPT !.buff = <<>>]
currIsNewline(ls) == current(ls) \in {LF, CR}

RECURSIVE While(_, _, _)
While(Holds(_), Step(_), ls) ==
    IF Holds(current(ls)) THEN While(Holds, Step, Step(ls)) ELSE ls

\* A line break is any of LF, CR, LF CR and CR LF.
inclinenumber(ls) ==
    LET n == next(ls)
        pair == currIsNewline(n) /\ current(n) # current(ls)
    IN  [(IF pair THEN next(n) ELSE n) EXCEPT !.linenumber = @ + 1]

check_next2(ls, set) == IF current(ls) \in set THEN save_and_next(ls) ELSE ls

-----------------------------------------------------------------------------
\* Numerals.  An integer wraps around; what is not an integer is left to
\* strtod, whose answer is here the digits and the power of ten (numerals
\* such as 0x1p4, which strtod takes too, are left out).
Modulus == 2^WIDTH
Wrapped(a) == LET u == a % Modulus IN IF u >= Modulus \div 2 THEN u - Modulus ELSE u

Hex(s) == Len(s) >= 2 /\ s[1] = 48 /\ s[2] \in {120, 88}
Amount(s, base) == FoldLeft(LAMBDA a, c : a * base + luaO_hexavalue(c), 0, s)
l_str2int(s) ==
    LET digits == IF Hex(s) THEN SubSeq(s, 3, Len(s)) ELSE s
        fits == \A i \in 1..Len(digits) :
                    IF Hex(s) THEN lisxdigit(digits[i]) ELSE lisdigit(digits[i])
    IN  IF digits = <<>> \/ ~fits THEN Bad
        ELSE Integer(Wrapped(Amount(digits, IF Hex(s) THEN 16 ELSE 10)))

strtod(s) ==
    LET E == {i \in 1..Len(s) : s[i] \in {69, 101}}
        D == {i \in 1..Len(s) : s[i] = Dot}
        m == IF E = {} THEN Len(s) ELSE (CHOOSE i \in E : \A j \in E : i <= j) - 1
        mant == SelectSeq(SubSeq(s, 1, m), LAMBDA c : c # Dot)
        point == IF D = {} THEN 0 ELSE m - (CHOOSE i \in D : TRUE)
        after == SubSeq(s, m + 2, Len(s))
        neg == after # <<>> /\ after[1] = Minus
        expo == IF after # <<>> /\ after[1] \in {Minus, 43} THEN Tail(after) ELSE after
        Digits(q) == q # <<>> /\ \A i \in 1..Len(q) : lisdigit(q[i])
        e == IF E = {} THEN 0 ELSE IF neg THEN -Amount(expo, 10) ELSE Amount(expo, 10)
    IN  IF Digits(mant) /\ (E = {} \/ Digits(expo))
           /\ \A i, j \in D : i = j /\ i <= m
        THEN [k |-> "<number>", v |-> <<Amount(mant, 10), e - point>>]
        ELSE Bad

luaO_str2num(s) == LET i == l_str2int(s) IN IF i = Bad THEN strtod(s) ELSE i

\* The loop is liberal: the conversion refuses what is not a numeral.
RECURSIVE ReadNumeral(_, _)
ReadNumeral(ls, expo) ==
    LET p == current(ls) \in expo
        l == IF p THEN check_next2(save_and_next(ls), {Minus, 43}) ELSE ls
    IN  IF lisxdigit(current(l)) \/ current(l) = Dot
        THEN ReadNumeral(save_and_next(l), expo) ELSE l
read_numeral(ls) ==
    LET first == save_and_next(ls)
        hex == current(ls) = 48 /\ current(first) \in {120, 88}
        l == IF hex THEN ReadNumeral(save_and_next(first), {80, 112})
             ELSE ReadNumeral(first, {69, 101})
    IN  [ls |-> l, t |-> luaO_str2num(l.buff)]

-----------------------------------------------------------------------------
\* Long brackets: the number of = between the brackets, -1 for a single
\* bracket and less when the second is missing.
skip_sep(ls) ==
    LET l == While(LAMBDA c : c = Equal, save_and_next, save_and_next(ls))
        count == Len(l.buff) - Len(ls.buff) - 1
    IN  [ls |-> l, sep |-> IF current(l) = current(ls) THEN count ELSE -count - 1]

RECURSIVE LongBody(_, _, _)
LongBody(ls, sep, isString) ==
    LET c == current(ls)
        s == skip_sep(ls)
        n == inclinenumber(save(ls, LF))
    IN  CASE c = EOZ -> [ls |-> ls, ok |-> FALSE]
          [] c = Close -> IF s.sep = sep THEN [ls |-> save_and_next(s.ls), ok |-> TRUE]
                          ELSE LongBody(s.ls, sep, isString)
          [] c \in {LF, CR} -> LongBody(IF isString THEN n ELSE luaZ_resetbuffer(n), sep, isString)
          [] OTHER -> LongBody(IF isString THEN save_and_next(ls) ELSE next(ls), sep, isString)

\* The delimiters are in the buffer too and are cut off at the end.
read_long_string(ls, sep, isString) ==
    LET open == save_and_next(ls)
        r == LongBody(IF currIsNewline(open) THEN inclinenumber(open) ELSE open, sep, isString)
        b == r.ls.buff
    IN  CASE ~r.ok -> [ls |-> r.ls, t |-> Bad]
          [] r.ok /\ isString -> [ls |-> r.ls, t |-> String(SubSeq(b, 3 + sep, Len(b) - 2 - sep))]
          [] OTHER -> [ls |-> r.ls, t |-> TK_EOS]

-----------------------------------------------------------------------------
\* Escape sequences.  Each reader starts with the backslash in the buffer and
\* the character after it as the current one; what it saved for an error
\* message it removes again.  c is the character to add, or <<>> for none.
Escape(ls, ok, c) == [ls |-> ls, ok |-> ok, c |-> c]

gethexa(ls) == save_and_next(ls)
readhexaesc(ls) ==
    LET a == gethexa(ls)
        b == gethexa(a)
        r == luaO_hexavalue(current(a)) * 16 + luaO_hexavalue(current(b))
    IN  IF ~lisxdigit(current(a)) \/ ~lisxdigit(current(b)) THEN Escape(b, FALSE, <<>>)
        ELSE Escape(luaZ_buffremove(next(b), 3), TRUE, <<r>>)

RECURSIVE Utf8Digits(_, _, _)
Utf8Digits(ls, r, i) ==
    LET n == save_and_next(ls)
        r1 == r * 16 + luaO_hexavalue(current(n))
    IN  IF ~lisxdigit(current(n)) THEN [ls |-> n, r |-> r, i |-> i, ok |-> TRUE]
        ELSE IF r1 > MAXUNICODE THEN [ls |-> n, r |-> r, i |-> i, ok |-> FALSE]
             ELSE Utf8Digits(n, r1, i + 1)

\* The characters saved while \u{...} was read: \, u, { and the digits.
Saved(digits) == digits + 3
utf8esc(ls) ==
    LET brace == save_and_next(ls)
        first == gethexa(brace)
        d == Utf8Digits(first, luaO_hexavalue(current(first)), 1)
        l == luaZ_buffremove(next(d.ls), Saved(d.i))
    IN  IF current(brace) # 123 \/ ~lisxdigit(current(first)) \/ ~d.ok \/ current(d.ls) # 125
        THEN Escape(d.ls, FALSE, <<>>)
        ELSE Escape(l, TRUE, luaO_utf8esc(d.r))

RECURSIVE DecDigits(_, _, _)
DecDigits(ls, r, i) ==
    IF i < 3 /\ lisdigit(current(ls))
    THEN DecDigits(save_and_next(ls), 10 * r + current(ls) - 48, i + 1)
    ELSE [ls |-> ls, r |-> r, i |-> i]
readdecesc(ls) ==
    LET d == DecDigits(ls, 0, 0)
    IN  IF d.i = 0 \/ d.r > 255 THEN Escape(d.ls, FALSE, <<>>)
        ELSE Escape(luaZ_buffremove(d.ls, d.i + 1), TRUE, <<d.r>>)

\* \a \b \f \n \r \t \v and the characters that stand for themselves.
Simple == [c \in {97, 98, 102, 110, 114, 116, 118, Backslash} \cup Quotes |->
             CASE c = 97 -> 7 [] c = 98 -> 8 [] c = 102 -> 12 [] c = 110 -> LF
               [] c = 114 -> CR [] c = 116 -> 9 [] c = 118 -> 11 [] OTHER -> c]

ZapStep(ls) == IF currIsNewline(ls) THEN inclinenumber(ls) ELSE next(ls)

ReadEscape(ls) ==
    LET c == current(ls)
    IN  CASE c \in DOMAIN Simple -> Escape(luaZ_buffremove(next(ls), 1), TRUE, <<Simple[c]>>)
          [] c = 120 -> readhexaesc(ls)
          [] c = 117 -> utf8esc(ls)
          [] c \in {LF, CR} -> Escape(luaZ_buffremove(inclinenumber(ls), 1), TRUE, <<LF>>)
          [] c = EOZ -> Escape(ls, TRUE, <<>>)
          [] c = 122 -> Escape(While(LAMBDA x : x \in Space, ZapStep, next(luaZ_buffremove(ls, 1))),
                               TRUE, <<>>)
          [] OTHER -> readdecesc(ls)

RECURSIVE StringBody(_, _)
StringBody(ls, del) ==
    LET c == current(ls)
        e == ReadEscape(save_and_next(ls))
    IN  CASE c = del -> [ls |-> save_and_next(ls), ok |-> TRUE]
          [] c # del /\ c \in {EOZ, LF, CR} -> [ls |-> ls, ok |-> FALSE]
          [] c = Backslash -> IF e.ok THEN StringBody([e.ls EXCEPT !.buff = @ \o e.c], del)
                              ELSE [ls |-> e.ls, ok |-> FALSE]
          [] OTHER -> StringBody(save_and_next(ls), del)
read_string(ls) ==
    LET r == StringBody(save_and_next(ls), current(ls))
    IN  [ls |-> r.ls,
         t |-> IF r.ok THEN String(SubSeq(r.ls.buff, 2, Len(r.ls.buff) - 1)) ELSE Bad]

-----------------------------------------------------------------------------
\* The operators of two characters, by their first: = < > / ~ :
Doubles == [c \in {Equal, 60, 62, 47, 126, 58} |->
              CASE c = Equal -> (Equal :> "==") [] c = 60 -> (Equal :> "<=" @@ 60 :> "<<")
                [] c = 62 -> (Equal :> ">=" @@ 62 :> ">>") [] c = 47 -> (47 :> "//")
                [] c = 126 -> (Equal :> "~=") [] c = 58 -> (58 :> "::")]

\* A comment: -- and then a long bracket or the rest of the line.
RestOfLine(ls) == While(LAMBDA c : c \notin {LF, CR, EOZ}, next, ls)
Comment(ls) ==
    LET s == skip_sep(ls)
        l == read_long_string(luaZ_resetbuffer(s.ls), s.sep, FALSE)
    IN  CASE current(ls) # Open -> [ls |-> RestOfLine(ls), t |-> TK_EOS]
          [] current(ls) = Open /\ s.sep < 0 ->
                [ls |-> RestOfLine(luaZ_resetbuffer(s.ls)), t |-> TK_EOS]
          [] OTHER -> [ls |-> luaZ_resetbuffer(l.ls), t |-> l.t]

Dots(ls) ==
    LET one == save_and_next(ls)
        two == next(one)
    IN  CASE current(one) = Dot /\ current(two) = Dot -> [ls |-> next(two), t |-> Token("...")]
          [] current(one) = Dot /\ current(two) # Dot -> [ls |-> two, t |-> Token("..")]
          [] lisdigit(current(one)) -> read_numeral(one)
          [] OTHER -> [ls |-> one, t |-> Symbol(Dot)]

LongString(ls) ==
    LET s == skip_sep(ls)
    IN  CASE s.sep >= 0 -> read_long_string(s.ls, s.sep, TRUE)
          [] s.sep = -1 -> [ls |-> s.ls, t |-> Symbol(Open)]
          [] OTHER -> [ls |-> s.ls, t |-> Bad]

Word(ls) ==
    LET l == While(lislalnum, save_and_next, ls)
    IN  [ls |-> l, t |-> IF l.buff \in Reserved THEN [k |-> "reserved", v |-> l.buff] ELSE Name(l.buff)]

RECURSIVE Scan(_)
Scan(ls) ==
    LET c == current(ls)
        n == next(ls)
    IN  CASE c \in {LF, CR} -> Scan(inclinenumber(ls))
          [] c \in Space \ {LF, CR} -> Scan(n)
          [] c = Minus /\ current(n) # Minus -> [ls |-> n, t |-> Symbol(Minus)]
          [] c = Minus /\ current(n) = Minus ->
                LET r == Comment(next(n)) IN IF r.t = Bad THEN r ELSE Scan(r.ls)
          [] c = Open -> LongString(ls)
          [] c \in DOMAIN Doubles /\ current(n) \in DOMAIN Doubles[c] ->
                [ls |-> next(n), t |-> Token(Doubles[c][current(n)])]
          [] c \in DOMAIN Doubles /\ current(n) \notin DOMAIN Doubles[c] -> [ls |-> n, t |-> Symbol(c)]
          [] c \in Quotes -> read_string(ls)
          [] c = Dot -> Dots(ls)
          [] lisdigit(c) -> read_numeral(ls)
          [] c = EOZ -> [ls |-> ls, t |-> TK_EOS]
          [] lislalpha(c) -> Word(ls)
          [] OTHER -> [ls |-> n, t |-> Symbol(c)]
llex(ls) == Scan(luaZ_resetbuffer(ls))

luaX_next(ls) ==
    LET l == [ls EXCEPT !.lastline = ls.linenumber]
        r == llex(l)
    IN  IF ls.lookahead # TK_EOS THEN [l EXCEPT !.t = ls.lookahead, !.lookahead = TK_EOS]
        ELSE [r.ls EXCEPT !.t = r.t]
luaX_lookahead(ls) == LET r == llex(ls) IN [r.ls EXCEPT !.lookahead = r.t]
=============================================================================
