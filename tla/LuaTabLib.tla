------------------------------ MODULE LuaTabLib ------------------------------
(***************************************************************************)
(* The table library (ltablib.c) on a table without metamethods: a table   *)
(* is a function from a window of integers to values, 0 standing for nil,  *)
(* and #t is given by the caller.  lua_Integer is MININTEGER..             *)
(* LUA_MAXINTEGER and an int is bounded by INT_MAX, both small, so that    *)
(* the ends of the ranges can be enumerated.                               *)
(***************************************************************************)
EXTENDS Integers, Sequences, FiniteSets, SequencesExt

CONSTANTS LUA_MAXINTEGER, INT_MAX

nil == 0
MININTEGER == -LUA_MAXINTEGER - 1
lua_Integers == MININTEGER..LUA_MAXINTEGER


Fails(t) == [k |-> "error", t |-> t]
Gives(t, v) == [k |-> "ok", t |-> t, v |-> v]

\* The loops that move elements: each copies t[From(i)] to t[To(i)] for the
\* i of a sequence, one at a time, seeing what the earlier ones wrote.
Copies(from, to, same, pairs) ==
    FoldLeft(LAMBDA u, p : [u EXCEPT ![p[2]] = IF same THEN u[p[1]] ELSE from[p[1]]], to, pairs)

Downwards(a, b) == [i \in 1..(IF a >= b THEN a - b + 1 ELSE 0) |-> a - i + 1]
Upwards(a, b) == [i \in 1..(IF b >= a THEN b - a + 1 ELSE 0) |-> a + i - 1]
Moves(is, f, t) == [k \in DOMAIN is |-> <<f + is[k], t + is[k]>>]

\* table.insert with two arguments (pos = "none") and with three.
tinsert(t, len, pos, v) ==
    LET e == len + 1
        p == IF pos = <<>> THEN e ELSE pos[1]
    IN  IF p \notin 1..e THEN Fails(t)
        ELSE LET u == Copies(t, t, TRUE, Moves(Downwards(e, p + 1), -1, 0))
             IN  Gives([u EXCEPT ![p] = v], nil)

\* table.remove: the position may also be #t + 1, and #t when #t is 0.
tremove(t, len, pos) ==
    LET p == IF pos = <<>> THEN len ELSE pos[1]
        end == IF p < len THEN len ELSE p
    IN  IF p # len /\ p \notin 1..(len + 1) THEN Fails(t)
        ELSE LET u == Copies(t, t, TRUE, Moves(Upwards(p, len - 1), 1, 0))
             IN  Gives([u EXCEPT ![end] = nil], t[p])

\* A wrong Order: always from the bottom.
alwaysUpwards(f, t, n) == Upwards(0, n - 1)

\* The order in which table.move copies: a table moved up over itself must
\* be copied from the top.
Order(f, t, n) == IF t > f THEN Downwards(n - 1, 0) ELSE Upwards(0, n - 1)
tmove(from, to, same, f, e, t) ==
    LET n == e - f + 1
    IN  CASE e < f -> Gives(to, nil)
          [] e >= f /\ ~(f > 0 \/ e < LUA_MAXINTEGER + f) -> Fails(to)
          [] e >= f /\ (f > 0 \/ e < LUA_MAXINTEGER + f) /\ t > LUA_MAXINTEGER - n + 1 -> Fails(to)
          [] OTHER -> Gives(Copies(from, to, same, Moves(Order(f, t, n), f, t)), nil)

\* table.concat: the fields i..last with the separator between two of them.
addfield(t, i) == IF t[i] = nil THEN [k |-> "error"] ELSE [k |-> "ok", s |-> <<t[i]>>]
tconcat(t, sep, i, last) ==
    IF \E j \in i..last : addfield(t, j).k = "error" THEN [k |-> "error"]
    ELSE [k |-> "ok",
          s |-> FoldLeft(LAMBDA b, j : b \o addfield(t, j).s \o (IF j < last THEN sep ELSE <<>>),
                         <<>>, Upwards(i, last))]

\* table.pack keeps the number of its arguments, whatever of them is nil.
pack(args) == [n |-> Len(args), t |-> args]

\* table.unpack pushes t[i..e] unless that is more than the stack can take;
\* the count is unsigned, so that e - i cannot overflow.
unpack(t, i, e, room) ==
    LET n == (e - i) % (2 * (LUA_MAXINTEGER + 1))
    IN  CASE i > e -> [k |-> "ok", s |-> <<>>]
          [] i <= e /\ (n >= INT_MAX \/ n + 1 > room) -> [k |-> "error"]
          [] OTHER -> [k |-> "ok", s |-> [j \in 1..(n + 1) |-> t[i + j - 1]]]

-----------------------------------------------------------------------------
(***************************************************************************)
(* table.sort.  An order function is the set lt of pairs <<a, b>> that it  *)
(* answers true for; nothing says that it is an order.                     *)
(***************************************************************************)
sort_comp(lt, a, b) == <<a, b>> \in lt
set2(a, i, j) == [a EXCEPT ![i] = a[j], ![j] = a[i]]

\* a[l], a[(l+u)/2] and a[u] put in order.
Ends(a, lt, l, u) == IF sort_comp(lt, a[u], a[l]) THEN set2(a, l, u) ELSE a
Median(a, lt, l, u) ==
    LET i == (l + u) \div 2
    IN  CASE sort_comp(lt, a[i], a[l]) -> set2(a, i, l)
          [] ~sort_comp(lt, a[i], a[l]) /\ sort_comp(lt, a[u], a[i]) -> set2(a, i, u)
          [] OTHER -> a

\* The two inner loops: the first index past i that is not below the pivot,
\* and the first before j that is not above it; 0 when the order function
\* leads them out of l..u, which is an error.
tooFar(i, u) == i >= u
RECURSIVE ScanUp(_, _, _, _, _)
ScanUp(a, lt, P, i, u) ==
    IF ~sort_comp(lt, a[i], P) THEN i
    ELSE IF tooFar(i, u) THEN 0 ELSE ScanUp(a, lt, P, i + 1, u)
RECURSIVE ScanDown(_, _, _, _, _)
ScanDown(a, lt, P, j, l) ==
    IF ~sort_comp(lt, P, a[j]) THEN j
    ELSE IF j <= l THEN 0 ELSE ScanDown(a, lt, P, j - 1, l)

\* The partition loop; i = 0 reports the error.
RECURSIVE Partition(_, _, _, _, _, _, _)
Partition(a, lt, P, i, j, l, u) ==
    LET i1 == ScanUp(a, lt, P, i + 1, u)
        j1 == ScanDown(a, lt, P, j - 1, l)
    IN  CASE i1 = 0 -> [a |-> a, i |-> 0]
          [] i1 # 0 /\ j1 = 0 -> [a |-> a, i |-> 0]
          [] i1 # 0 /\ j1 # 0 /\ j1 < i1 -> [a |-> a, i |-> i1]
          [] OTHER -> Partition(set2(a, i1, j1), lt, P, i1, j1, l, u)

Sorted(a) == [k |-> "ok", a |-> a]
Invalid(a) == [k |-> "error", a |-> a]

\* The smaller side of the pivot is sorted by the call, the larger by the
\* next turn of the loop.
RECURSIVE auxsort(_, _, _, _)
auxsort(a0, lt, l, u) ==
    IF l >= u THEN Sorted(a0)
    ELSE LET a1 == Ends(a0, lt, l, u)
         IN  IF u - l = 1 THEN Sorted(a1)
             ELSE LET a2 == Median(a1, lt, l, u)
                  IN  IF u - l = 2 THEN Sorted(a2)
                      ELSE LET m == (l + u) \div 2
                               p == Partition(set2(a2, m, u - 1), lt, a2[m], l, u - 1, l, u)
                               a3 == set2(p.a, u - 1, p.i)
                               small == IF p.i - l < u - p.i THEN <<l, p.i - 1>> ELSE <<p.i + 1, u>>
                               large == IF p.i - l < u - p.i THEN <<p.i + 1, u>> ELSE <<l, p.i - 1>>
                               s == auxsort(a3, lt, small[1], small[2])
                           IN  IF p.i = 0 THEN Invalid(p.a)
                               ELSE IF s.k = "error" THEN s
                                    ELSE auxsort(s.a, lt, large[1], large[2])

sort(a, lt) == auxsort(a, lt, 1, Len(a))
=============================================================================
