-------------------------- MODULE PatternReference --------------------------
(***************************************************************************)
(* What a pattern means, without a matcher: the list of all the ways in    *)
(* which its items can match from a position, best first.  An item knows   *)
(* its text in the pattern, the set of characters it accepts and how often *)
(* (the suffix).                                                           *)
(***************************************************************************)
EXTENDS Integers, Sequences, SequencesExt, FiniteSets

Item(text, k, set, q) == [text |-> text, k |-> k, set |-> set, q |-> q]

Text(items) == FlattenSeq([i \in 1..Len(items) |-> items[i].text])

\* How many characters from s on belong to the set.
Run(src, s, set) ==
    LET R == {n \in 0..(Len(src) - s + 1) : \A j \in 0..(n - 1) : src[s + j] \in set}
    IN  CHOOSE n \in R : \A m \in R : m <= n

\* The repetitions to try, in the order of preference.
Repetitions(n, q) ==
    CASE q = "*" -> [i \in 1..(n + 1) |-> n - i + 1]
      [] q = "+" -> [i \in 1..n |-> n - i + 1]
      [] q = "-" -> [i \in 1..(n + 1) |-> i - 1]
      [] q = "?" -> IF n > 0 THEN <<1, 0>> ELSE <<0>>
      [] OTHER -> IF n > 0 THEN <<1>> ELSE <<>>

\* The balanced text that starts at s: the shortest with as many closings.
BalancedEnds(src, s) ==
    {e \in s..Len(src) :
        LET Count(c) == Cardinality({i \in s..e : src[i] = c})
        IN  src[s] = "(" /\ Count("(") = Count(")")}

Previous(src, s) == IF s = 1 THEN {} ELSE {src[s - 1]}
Current(src, s) == IF s > Len(src) THEN {} ELSE {src[s]}

\* The places an item may lead to from s, best first; caps are the captures of
\* the items before it: <<init, end>>, with end 0 while open, -1 for a position.
Steps(item, src, s, caps) ==
    CASE item.k = "set" -> [i \in DOMAIN Repetitions(Run(src, s, item.set), item.q) |->
                              s + Repetitions(Run(src, s, item.set), item.q)[i]]
      [] item.k = "balance" ->
            LET E == BalancedEnds(src, s)
            IN  IF E = {} THEN <<>> ELSE <<1 + CHOOSE e \in E : \A f \in E : e <= f>>
      [] item.k = "frontier" ->
            IF Previous(src, s) \cap item.set = {} /\ Current(src, s) \cap item.set # {}
            THEN <<s>> ELSE <<>>
      [] item.k = "end" -> IF s = Len(src) + 1 THEN <<s>> ELSE <<>>
      [] item.k = "back" ->
            LET text == SubSeq(src, caps[1][1], caps[1][2] - 1)
            IN  IF caps[1][2] > 0 /\ SubSeq(src, s, s + Len(text) - 1) = text
                   /\ s + Len(text) <= Len(src) + 1
                THEN <<s + Len(text)>> ELSE <<>>
      [] OTHER -> <<s>>

Captured(item, caps, s) ==
    LET O == {i \in 1..Len(caps) : caps[i][2] = 0}
    IN  CASE item.k = "open" -> Append(caps, <<s, 0>>)
          [] item.k = "position" -> Append(caps, <<s, -1>>)
          [] item.k = "close" -> [caps EXCEPT ![CHOOSE i \in O : \A j \in O : j <= i] = <<@[1], s>>]
          [] OTHER -> caps

RECURSIVE Ways(_, _, _, _)
Ways(items, src, s, caps) ==
    IF items = <<>> THEN <<[e |-> s, caps |-> caps]>>
    ELSE LET next == Steps(Head(items), src, s, caps)
         IN  FlattenSeq([i \in 1..Len(next) |->
                Ways(Tail(items), src, next[i], Captured(Head(items), caps, s))])

\* The first place at or after s where the items match, and the best way there.
Match(items, src, s, once) ==
    LET P == {i \in s..(IF once THEN s ELSE Len(src) + 1) : Ways(items, src, i, <<>>) # <<>>}
        at == CHOOSE i \in P : \A j \in P : i <= j
        way == Ways(items, src, at, <<>>)[1]
        Value(c) == IF c[2] = -1 THEN <<"pos", c[1]>> ELSE <<"str", SubSeq(src, c[1], c[2] - 1)>>
    IN  IF P = {} THEN [k |-> "nil"]
        ELSE [k |-> "found", s |-> at, e |-> way.e,
              captures |-> IF way.caps = <<>> THEN <<<<"str", SubSeq(src, at, way.e - 1)>>>>
                           ELSE [i \in 1..Len(way.caps) |-> Value(way.caps[i])]]

\* Captures are closed in order and not empty, a back reference follows its
\* capture, and the end is at the end.
Depth(items, n) == Cardinality({i \in 1..n : items[i].k = "open"})
                   - Cardinality({i \in 1..n : items[i].k = "close"})
WellFormed(items) ==
    /\ \A n \in 1..Len(items) : Depth(items, n) >= 0
    /\ Depth(items, Len(items)) = 0
    /\ \A n \in 1..Len(items) : items[n].k = "back" =>
          \E m \in 1..(n - 1) : /\ items[m].k \in {"close", "position"}
                                /\ Depth(items, m) = 0
    /\ \A n \in 1..(Len(items) - 1) : /\ items[n].k # "end"
                                      /\ ~(items[n].k = "open" /\ items[n + 1].k = "close")
============================================================================
