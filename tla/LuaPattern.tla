----------------------------- MODULE LuaPattern -----------------------------
(***************************************************************************)
(* Pattern matching of the string library (lstrlib.c): string.find, match, *)
(* gmatch and gsub.  A string is a sequence of characters; positions are   *)
(* counted from 1, and reading just behind the end gives NUL, as in C.     *)
(*                                                                         *)
(* The matcher backtracks over a MatchState that it changes in place, so   *)
(* every failed attempt has to undo what it did: ms is passed through all  *)
(* calls, the failing ones too.  A result is [s |-> position, ms |-> ms]   *)
(* where s is NULL for "no match" and Raised for a Lua error.              *)
(***************************************************************************)
EXTENDS LuaString, FiniteSets, TLC

CONSTANTS MAXCCALLS,        \* maximum recursion depth of match
          LUA_MAXCAPTURES   \* maximum number of captures

NULL == -1
Raised == -2
CAP_UNFINISHED == -1
CAP_POSITION == -2

At(s, i) == IF i \in 1..Len(s) THEN s[i] ELSE "NUL"

\* The order of the characters and the classes of ctype.h, for the characters
\* that occur here.
Ascii == <<"NUL", " ", "(", ")", "-", "1", "2", "A", "B", "a", "b", "c">>
Code(ch) == CHOOSE i \in 1..Len(Ascii) : Ascii[i] = ch
Upper == {"A", "B"}
Lower == {"a", "b", "c"}
Digit == {"1", "2"}
Class(cl) ==
    CASE cl = "a" -> Upper \union Lower
      [] cl = "d" -> Digit
      [] cl = "l" -> Lower
      [] cl = "u" -> Upper
      [] cl = "s" -> {" "}
      [] cl = "p" -> {"(", ")", "-"}
      [] cl = "w" -> Upper \union Lower \union Digit
      [] OTHER -> {}

\* The letters of the classes, and their complements written in upper case.
Classes == {"a", "d", "l", "u", "s", "p", "w"}
Complement == [x \in {"A", "D", "L", "U", "S", "P", "W"} |->
                  CASE x = "A" -> "a" [] x = "D" -> "d" [] x = "L" -> "l"
                    [] x = "U" -> "u" [] x = "S" -> "s" [] x = "P" -> "p" [] x = "W" -> "w"]

match_class(c, cl) ==
    CASE cl \in Classes -> c \in Class(cl)
      [] cl \in DOMAIN Complement -> c \notin Class(Complement[cl])
      [] OTHER -> cl = c

\* The end of the class that starts at p: the position after it, or Raised.
RECURSIVE ClassClose(_, _)
ClassClose(pat, p) ==
    IF p > Len(pat) THEN Raised
    ELSE LET q == IF pat[p] = "%" /\ p + 1 <= Len(pat) THEN p + 2 ELSE p + 1
         IN  IF At(pat, q) = "]" THEN q + 1 ELSE ClassClose(pat, q)

classend(pat, p) ==
    CASE pat[p] = "%" -> IF p + 1 > Len(pat) THEN Raised ELSE p + 2
      [] pat[p] = "[" -> ClassClose(pat, IF At(pat, p + 1) = "^" THEN p + 2 ELSE p + 1)
      [] OTHER -> p + 1

\* Does c belong to the set whose text is pat[p .. ec-1]?
RECURSIVE InSet(_, _, _, _)
InSet(c, pat, p, ec) ==
    CASE p >= ec -> FALSE
      [] p < ec /\ pat[p] = "%" -> match_class(c, At(pat, p + 1)) \/ InSet(c, pat, p + 2, ec)
      [] p < ec /\ pat[p] # "%" /\ pat[p + 1] = "-" /\ p + 2 < ec ->
            \/ Code(pat[p]) <= Code(c) /\ Code(c) <= Code(pat[p + 2])
            \/ InSet(c, pat, p + 3, ec)
      [] OTHER -> pat[p] = c \/ InSet(c, pat, p + 1, ec)

matchbracketclass(c, pat, p, ec) ==
    IF pat[p + 1] = "^" THEN ~InSet(c, pat, p + 2, ec) ELSE InSet(c, pat, p + 1, ec)

singlematch(src, s, pat, p, ep) ==
    /\ s <= Len(src)
    /\ CASE pat[p] = "." -> TRUE
         [] pat[p] = "%" -> match_class(src[s], pat[p + 1])
         [] pat[p] = "[" -> matchbracketclass(src[s], pat, p, ep - 1)
         [] OTHER -> pat[p] = src[s]

\* The position after the balanced string that starts at s; open counts the
\* brackets that are open before position i.
RECURSIVE Balanced(_, _, _, _, _)
Balanced(src, i, b, e, open) ==
    CASE i > Len(src) -> NULL
      [] i <= Len(src) /\ src[i] = e ->
            IF open = 1 THEN i + 1 ELSE Balanced(src, i + 1, b, e, open - 1)
      [] OTHER -> Balanced(src, i + 1, b, e, IF src[i] = b THEN open + 1 ELSE open)

matchbalance(src, s, pat, p) ==
    CASE p >= Len(pat) -> Raised
      [] p < Len(pat) /\ At(src, s) # pat[p] -> NULL
      [] OTHER -> Balanced(src, s + 1, pat[p], pat[p + 1], 1)

---------------------------------------------------------------------------
\* A MatchState: the captures, of which the first level are in use, and the
\* recursion depth that is left.
NewMatchState == [level |-> 0, capture |-> <<>>, matchdepth |-> MAXCCALLS]

Result(s, ms) == [s |-> s, ms |-> ms]

\* Captures beyond level are left over from attempts that failed.
SetCapture(ms, l, c) ==
    [ms EXCEPT !.capture = IF l <= Len(@) THEN [@ EXCEPT ![l] = c] ELSE Append(@, c)]

\* The last capture that is still open, 0 if there is none.
capture_to_close(ms) ==
    LET O == {l \in 1..ms.level : ms.capture[l].len = CAP_UNFINISHED}
    IN  IF O = {} THEN 0 ELSE CHOOSE l \in O : \A k \in O : k <= l

match_capture(src, s, ms, l) ==
    IF l \notin 1..ms.level \/ ms.capture[l].len = CAP_UNFINISHED THEN Raised
    ELSE LET c == ms.capture[l]
             len == IF c.len = CAP_POSITION THEN Len(src) + 1 ELSE c.len
         IN  IF /\ Len(src) - s + 1 >= len
                /\ SubSeq(src, c.init, c.init + len - 1) = SubSeq(src, s, s + len - 1)
             THEN s + len ELSE NULL

\* Wrong: a capture of an attempt that failed stays.
keepCapture(ms) == ms
undo_start(ms) == [ms EXCEPT !.level = @ - 1]

RECURSIVE match(_, _, _, _, _)
RECURSIVE do_match(_, _, _, _, _)
RECURSIVE TryDown(_, _, _, _, _, _)
RECURSIVE min_expand(_, _, _, _, _, _)

\* max_expand: i repetitions from s, then one fewer each time.
TryDown(ms, src, s, pat, ep, i) ==
    LET r == match(ms, src, s + i, pat, ep + 1)
    IN  IF r.s # NULL \/ i = 0 THEN r ELSE TryDown(r.ms, src, s, pat, ep, i - 1)

max_expand(ms, src, s, pat, p, ep) ==
    LET R == {i \in 0..(Len(src) - s + 1) :
                 \A j \in 0..(i - 1) : singlematch(src, s + j, pat, p, ep)}
    IN  TryDown(ms, src, s, pat, ep, CHOOSE i \in R : \A j \in R : j <= i)

min_expand(ms, src, s, pat, p, ep) ==
    LET r == match(ms, src, s, pat, ep + 1)
    IN  IF r.s = NULL /\ singlematch(src, s, pat, p, ep)
        THEN min_expand(r.ms, src, s + 1, pat, p, ep) ELSE r

start_capture(ms, src, s, pat, p, what) ==
    IF ms.level >= LUA_MAXCAPTURES THEN Result(Raised, ms)
    ELSE LET C == SetCapture(ms, ms.level + 1, [init |-> s, len |-> what])
             r == match([C EXCEPT !.level = @ + 1], src, s, pat, p)
         IN  IF r.s = NULL THEN Result(NULL, undo_start(r.ms)) ELSE r

end_capture(ms, src, s, pat, p) ==
    LET l == capture_to_close(ms)
    IN  IF l = 0 THEN Result(Raised, ms)
        ELSE LET r == match([ms EXCEPT !.capture[l].len = s - ms.capture[l].init], src, s, pat, p)
             IN  IF r.s = NULL THEN Result(NULL, [r.ms EXCEPT !.capture[l].len = CAP_UNFINISHED])
                 ELSE r

\* A class and its optional suffix.
Default(ms, src, s, pat, p) ==
    LET ep == classend(pat, p)
        suffix == At(pat, ep)
    IN  CASE ep = Raised -> Result(Raised, ms)
          [] ep # Raised /\ ~singlematch(src, s, pat, p, ep) ->
                IF suffix \in {"*", "?", "-"} THEN do_match(ms, src, s, pat, ep + 1)
                ELSE Result(NULL, ms)
          [] OTHER ->
                CASE suffix = "?" -> LET r == match(ms, src, s + 1, pat, ep + 1)
                                     IN  IF r.s # NULL THEN r
                                         ELSE do_match(r.ms, src, s, pat, ep + 1)
                  [] suffix = "+" -> max_expand(ms, src, s + 1, pat, p, ep)
                  [] suffix = "*" -> max_expand(ms, src, s, pat, p, ep)
                  [] suffix = "-" -> min_expand(ms, src, s, pat, p, ep)
                  [] OTHER -> do_match(ms, src, s + 1, pat, ep)

\* %f[set]: between a character outside the set and one inside.
Frontier(ms, src, s, pat, p) ==
    LET ep == classend(pat, p)
    IN  CASE At(pat, p) # "[" \/ ep = Raised -> Result(Raised, ms)
          [] /\ ~matchbracketclass(At(src, s - 1), pat, p, ep - 1)
             /\ matchbracketclass(At(src, s), pat, p, ep - 1) -> do_match(ms, src, s, pat, ep)
          [] OTHER -> Result(NULL, ms)

\* The body of match; the jumps to init are calls of do_match.
do_match(ms, src, s, pat, p) ==
    LET next == At(pat, p + 1)
        Go(r, q) == IF r \in {NULL, Raised} THEN Result(r, ms) ELSE do_match(ms, src, r, pat, q)
    IN  CASE p > Len(pat) -> Result(s, ms)
          [] p <= Len(pat) /\ pat[p] = "(" ->
                IF next = ")" THEN start_capture(ms, src, s, pat, p + 2, CAP_POSITION)
                ELSE start_capture(ms, src, s, pat, p + 1, CAP_UNFINISHED)
          [] p <= Len(pat) /\ pat[p] = ")" -> end_capture(ms, src, s, pat, p + 1)
          [] p = Len(pat) /\ pat[p] = "$" -> Result(IF s = Len(src) + 1 THEN s ELSE NULL, ms)
          [] p <= Len(pat) /\ pat[p] = "%" /\ next = "b" -> Go(matchbalance(src, s, pat, p + 2), p + 4)
          [] p <= Len(pat) /\ pat[p] = "%" /\ next = "f" -> Frontier(ms, src, s, pat, p + 2)
          [] p <= Len(pat) /\ pat[p] = "%" /\ next \in Digit ->
                Go(match_capture(src, s, ms, IF next = "1" THEN 1 ELSE 2), p + 2)
          [] OTHER -> Default(ms, src, s, pat, p)

match(ms, src, s, pat, p) ==
    IF ms.matchdepth = 0 THEN Result(Raised, ms)
    ELSE LET r == do_match([ms EXCEPT !.matchdepth = @ - 1], src, s, pat, p)
         IN  [r EXCEPT !.ms.matchdepth = @ + 1]
---------------------------------------------------------------------------
\* The value of capture i of a match of src[s .. e-1]: a piece of the string or
\* a position.
push_onecapture(ms, src, i, s, e) ==
    CASE i > ms.level -> IF i = 1 THEN <<"str", SubSeq(src, s, e - 1)>> ELSE <<"error">>
      [] i <= ms.level /\ ms.capture[i].len = CAP_UNFINISHED -> <<"error">>
      [] i <= ms.level /\ ms.capture[i].len = CAP_POSITION -> <<"pos", ms.capture[i].init>>
      [] OTHER -> <<"str", SubSeq(src, ms.capture[i].init,
                                  ms.capture[i].init + ms.capture[i].len - 1)>>

push_captures(ms, src, s, e, whole) ==
    [i \in 1..(IF ms.level = 0 /\ whole THEN 1 ELSE ms.level) |-> push_onecapture(ms, src, i, s, e)]

\* What a function of the library gives: nil, an error or values.
Nothing == [k |-> "nil"]
Failure == [k |-> "error"]
Found(s, e, captures) ==
    IF \E i \in 1..Len(captures) : captures[i] = <<"error">> THEN Failure
    ELSE [k |-> "found", s |-> s, e |-> e, captures |-> captures]

\* The first occurrence of pat in src[s..]: memchr for its first character among
\* the places where the rest still fits, then memcmp.
RECURSIVE lmemfind(_, _, _)
lmemfind(src, s, pat) ==
    LET P == {i \in s..(Len(src) - Len(pat) + 1) : src[i] = pat[1]}
        i == CHOOSE i \in P : \A j \in P : i <= j
    IN  CASE pat = <<>> -> s
          [] pat # <<>> /\ P = {} -> NULL
          [] OTHER -> IF SubSeq(src, i, i + Len(pat) - 1) = pat THEN i
                      ELSE lmemfind(src, i + 1, pat)

SPECIALS == {"^", "$", "*", "+", "?", ".", "(", "[", "%", "-"}
nospecials(pat) == \A i \in 1..Len(pat) : pat[i] \notin SPECIALS

Anchored(pat) == At(pat, 1) = "^"
Unanchored(pat) == IF Anchored(pat) THEN Tail(pat) ELSE pat

\* The first match at s or later (at s only, if once), with its start.
RECURSIVE Search(_, _, _, _, _)
Search(ms, src, s, pat, once) ==
    LET r == match([ms EXCEPT !.level = 0], src, s, pat, 1)
    IN  IF r.s # NULL \/ once \/ s > Len(src) THEN [at |-> s, end |-> r.s, ms |-> r.ms]
        ELSE Search(r.ms, src, s + 1, pat, once)

str_find_aux(src, pat, start, find, plain) ==
    LET rel == posrelat(start, Len(src))
        init == IF rel < 1 THEN 1 ELSE rel
    IN  CASE init > Len(src) + 1 -> Nothing
          [] init <= Len(src) + 1 /\ find /\ (plain \/ nospecials(pat)) ->
                LET i == lmemfind(src, init, pat)
                IN  IF i = NULL THEN Nothing ELSE Found(i, i + Len(pat), <<>>)
          [] OTHER ->
                LET r == Search(NewMatchState, src, init, Unanchored(pat), Anchored(pat))
                IN  CASE r.end = Raised -> Failure
                      [] r.end = NULL -> Nothing
                      [] OTHER -> Found(r.at, r.end, push_captures(r.ms, src, r.at, r.end, ~find))

\* All the matches gmatch gives from position s on; an empty one moves on by one.
RECURSIVE gmatch_aux(_, _, _)
gmatch_aux(src, s, pat) ==
    IF s > Len(src) + 1 THEN <<>>
    ELSE LET r == Search(NewMatchState, src, s, pat, FALSE)
         IN  CASE r.end = Raised -> <<Failure>>
               [] r.end = NULL -> <<>>
               [] OTHER -> <<Found(r.at, r.end, push_captures(r.ms, src, r.at, r.end, TRUE))>>
                           \o gmatch_aux(src, IF r.end = r.at THEN r.end + 1 ELSE r.end, pat)

\* The replacement string: a character stands for itself, %0 for the whole
\* match and %1 for the first capture, a position as a number.
addRaises(ms, src, s, e, news) ==
    \E i \in 1..Len(news) : news[i] = "%1" /\ push_onecapture(ms, src, 1, s, e) = <<"error">>
add_s(ms, src, s, e, news) ==
    LET Piece(x) == CASE x = "%0" -> SubSeq(src, s, e - 1)
                      [] x = "%1" -> LET v == push_onecapture(ms, src, 1, s, e)
                                     IN  IF v[1] = "str" THEN v[2] ELSE <<ToString(v[2])>>
                      [] OTHER -> <<x>>
    IN  FlattenSeq([i \in 1..Len(news) |-> Piece(news[i])])

\* gsub from position s with n replacements done and the result so far in b.
RECURSIVE Substitute(_, _, _, _, _, _, _, _)
Substitute(ms, src, s, pat, news, max_s, n, b) ==
    IF n >= max_s THEN [k |-> "gsub", b |-> b \o SubSeq(src, s, Len(src)), n |-> n]
    ELSE LET r == match([ms EXCEPT !.level = 0], src, s, Unanchored(pat), 1)
             hit == r.s # NULL
             added == IF hit THEN b \o add_s(r.ms, src, s, r.s, news) ELSE b
             on == hit /\ r.s > s
             c == IF on \/ s > Len(src) THEN added ELSE Append(added, src[s])
             t == IF on THEN r.s ELSE s + 1
             m == IF hit THEN n + 1 ELSE n
             bad == r.s = Raised \/ (hit /\ addRaises(r.ms, src, s, r.s, news))
         IN  CASE bad -> Failure
               [] ~bad /\ (Anchored(pat) \/ (~on /\ s > Len(src))) ->
                     [k |-> "gsub", b |-> c \o SubSeq(src, t, Len(src)), n |-> m]
               [] OTHER -> Substitute(r.ms, src, t, pat, news, max_s, m, c)

str_gsub(src, pat, news, max_s) == Substitute(NewMatchState, src, 1, pat, news, max_s, 0, <<>>)
============================================================================
