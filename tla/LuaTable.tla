------------------------------ MODULE LuaTable ------------------------------
(***************************************************************************)
(* ltable.c: a Lua table as an array part and a hash part with chained     *)
(* scatter and Brent's variation.                                          *)
(*                                                                         *)
(* t.array holds the values of the keys 1 .. Len(t.array).  t.node is the  *)
(* hash part, places counted from 0 as in the code, each with a key, a     *)
(* value and the distance next to the following node of its chain;         *)
(* t.lastfree is where the search for a free place goes on from.  A table  *)
(* without a hash part uses the one shared dummy node (t.dummy).  A key is *)
(* <<"int", i>>, <<"str", s>>, <<"nil">> or <<"dead", s>>: a string the    *)
(* collector has freed, still in its node.                                 *)
(***************************************************************************)
EXTENDS Integers, Sequences, SequencesExt, FiniteSets

CONSTANTS
    Ints,      \* integer keys
    Strs,      \* string keys
    Hash,      \* the hash of each string
    Values,    \* values other than nil
    Sizes      \* sizes a constructor may ask for

VARIABLES
    t,         \* the table
    key,       \* the key the traversal stands on, nil at its start
    visited,   \* keys it has returned
    travel     \* "on" during a traversal, "complete" after one that went to its end

vars == <<t, key, visited, travel>>

Nil == <<"nil">>
StrKeys == {<<"str", s>> : s \in Strs}
Keys == {<<"int", i>> : i \in Ints} \union StrKeys

sizearray(x) == Len(x.array)
sizenode(x) == Len(x.node)
gnode(x, n) == x.node[n + 1]
Nodes(x) == 0 .. (sizenode(x) - 1)

\* hashint and hashstr: the size is a power of two.
mainposition(x, k) == (IF k[1] = "int" THEN k[2] ELSE Hash[k[2]]) % sizenode(x)

\* The places of the chain that starts at n.
RECURSIVE Chain(_, _)
Chain(x, n) ==
    <<n>> \o (IF gnode(x, n).next = 0 THEN <<>> ELSE Chain(x, n + gnode(x, n).next))

InArray(x, k) == k[1] = "int" /\ 1 <= k[2] /\ k[2] <= sizearray(x)
\* The node of the key on the chain from n, -1 if it has none.
RECURSIVE FindNode(_, _, _)
FindNode(x, n, k) ==
    LET nd == gnode(x, n)
    IN  IF nd.key = k THEN n
        ELSE IF nd.next = 0 THEN -1 ELSE FindNode(x, n + nd.next, k)
NodeOf(x, k) == FindNode(x, mainposition(x, k), k)

luaH_get(x, k) ==
    IF InArray(x, k) THEN x.array[k[2]]
    ELSE LET n == NodeOf(x, k) IN IF n = -1 THEN Nil ELSE gnode(x, n).val

-----------------------------------------------------------------------------
(* Sizes.                                                                   *)

RECURSIVE ceillog2(_)
ceillog2(n) == IF n <= 1 THEN 0 ELSE 1 + ceillog2((n + 1) \div 2)

\* arrayindex and countint: the keys that could be in the array part.
Candidates(x, extra) ==
    {i \in 1 .. sizearray(x) : x.array[i] # Nil}
    \union {gnode(x, n).key[2] : n \in {m \in Nodes(x) : gnode(x, m).val # Nil /\ gnode(x, m).key[1] = "int"
                                                         /\ gnode(x, m).key[2] > 0}}
    \union (IF extra[1] = "int" /\ extra[2] > 0 THEN {extra[2]} ELSE {})
nums(ks, i) == Cardinality({k \in ks : ceillog2(k) = i})

\* computesizes: the largest power of two more than half in use.
RECURSIVE computesizes(_, _, _, _)
computesizes(ks, i, a, optimal) ==
    LET b == a + nums(ks, i)
    IN IF ~(Cardinality(ks) > (2 ^ i) \div 2) THEN optimal
       ELSE computesizes(ks, i + 1, b,
                         IF nums(ks, i) > 0 /\ b > (2 ^ i) \div 2 THEN 2 ^ i ELSE optimal)

FreshNodes(n) == [i \in 1 .. n |-> [key |-> Nil, val |-> Nil, next |-> 0]]
setnodevector(x, size) ==
    IF size = 0 THEN [x EXCEPT !.node = FreshNodes(1), !.dummy = TRUE, !.lastfree = 0]
    ELSE [x EXCEPT !.node = FreshNodes(2 ^ ceillog2(size)), !.dummy = FALSE, !.lastfree = 2 ^ ceillog2(size)]

-----------------------------------------------------------------------------
(* Insertion.                                                               *)

\* getfreepos: the next place from lastfree down that never held a key; -1 if
\* there is none.
FreePlaces(x) == {n \in 0 .. (x.lastfree - 1) : gnode(x, n).key = Nil}
getfreepos(x) == IF FreePlaces(x) = {} THEN -1 ELSE CHOOSE n \in FreePlaces(x) : \A m \in FreePlaces(x) : m <= n

SetNode(x, n, nd) == [x EXCEPT !.node[n + 1] = nd]

\* The node before mp in the chain from o.
Previous(x, o, mp) == CHOOSE n \in Range(Chain(x, o)) : n + gnode(x, n).next = mp /\ n # mp

\* The node at mp is not in its main position: it moves to the free place f.
MoveAway(x, mp, f) ==
    LET old == gnode(x, mp)
        prev == Previous(x, mainposition(x, old.key), mp)
        moved == [old EXCEPT !.next = IF old.next = 0 THEN 0 ELSE old.next + (mp - f)]
        rechained == SetNode(x, prev, [gnode(x, prev) EXCEPT !.next = f - prev])
    IN SetNode(SetNode(rechained, f, moved), mp, [key |-> Nil, val |-> Nil, next |-> 0])

RECURSIVE Put(_, _, _)
\* luaH_resize: a new hash part; what is no longer in the array part and what
\* was in the old hash part is inserted again, from the end.
Reinsert(x, entries) == FoldLeft(LAMBDA y, e : Put(y, e[1], e[2]), x, entries)
luaH_resize(x, nasize, nhsize) ==
    LET grown == [i \in 1 .. nasize |-> IF i <= sizearray(x) THEN x.array[i] ELSE Nil]
        slice == [i \in 1 .. sizearray(x) |-> << <<"int", i>>, IF i > nasize THEN x.array[i] ELSE Nil>>]
        nold == [j \in 1 .. sizenode(x) |->
                   <<x.node[sizenode(x) + 1 - j].key, x.node[sizenode(x) + 1 - j].val>>]
        used(s) == SelectSeq(s, LAMBDA e : e[2] # Nil)
        fresh == setnodevector([x EXCEPT !.array = grown], nhsize)
    IN Reinsert(Reinsert(fresh, used(slice)), used(nold))

rehash(x, ek) ==
    LET ks == Candidates(x, ek)
        asize == computesizes(ks, 0, 0, 0)
        na == Cardinality({k \in ks : k <= asize})
        totaluse == Cardinality({i \in 1 .. sizearray(x) : x.array[i] # Nil})
                    + Cardinality({n \in Nodes(x) : gnode(x, n).val # Nil}) + 1
    IN luaH_resize(x, asize, totaluse - na)

\* The node before is chained to f, which takes the place after mp.
ChainAfter(x, mp, f, nd) ==
    LET m == gnode(x, mp)
        next == IF m.next = 0 THEN gnode(x, f).next ELSE (mp + m.next) - f
    IN SetNode(SetNode(x, f, [nd EXCEPT !.next = next]), mp, [m EXCEPT !.next = f - mp])

\* luaH_newkey, then the value is stored.
luaH_newkey(x, k, v) ==
    LET mp == mainposition(x, k)
        f == getfreepos(x)
        y == [x EXCEPT !.lastfree = f]
        here(z) == SetNode(z, mp, [gnode(z, mp) EXCEPT !.key = k, !.val = v])
    IN IF gnode(x, mp).val = Nil /\ ~x.dummy THEN here(x)
       ELSE IF f = -1 THEN Put(rehash(x, k), k, v)
       ELSE IF mainposition(x, gnode(x, mp).key) # mp THEN here(MoveAway(y, mp, f))
       ELSE ChainAfter(y, mp, f, [key |-> k, val |-> v, next |-> 0])

\* luaH_set and luaH_setint with the assignment that follows.
Put(x, k, v) ==
    IF InArray(x, k) THEN [x EXCEPT !.array[k[2]] = v]
    ELSE LET n == NodeOf(x, k)
         IN  IF n = -1 THEN luaH_newkey(x, k, v) ELSE SetNode(x, n, [gnode(x, n) EXCEPT !.val = v])

luaH_new == setnodevector([array |-> <<>>, node |-> <<>>, dummy |-> TRUE, lastfree |-> 0], 0)

-----------------------------------------------------------------------------
(* Length.                                                                  *)

GetInt(x, i) == luaH_get(x, <<"int", i>>)
\* Binary search between i, present or 0, and j, absent.
RECURSIVE Bisect(_, _, _)
Bisect(x, i, j) ==
    LET m == (i + j) \div 2
    IN IF j - i <= 1 THEN i ELSE IF GetInt(x, m) = Nil THEN Bisect(x, i, m) ELSE Bisect(x, m, j)
RECURSIVE unbound_search(_, _, _)
unbound_search(x, i, j) ==
    IF GetInt(x, j) = Nil THEN Bisect(x, i, j) ELSE unbound_search(x, j, j * 2)

luaH_getn(x) ==
    LET j == sizearray(x)
    IN IF j > 0 /\ x.array[j] = Nil THEN Bisect(x, 0, j)
       ELSE IF x.dummy THEN j
       ELSE unbound_search(x, j, j + 1)

-----------------------------------------------------------------------------
(* Traversal.                                                               *)

\* Wrong: a key that the collector has freed is not found.
liveOnly(x, k) ==
    LET n == IF k = Nil \/ InArray(x, k) THEN -1 ELSE NodeOf(x, k)
    IN IF k = Nil THEN 0
       ELSE IF InArray(x, k) THEN k[2]
       ELSE IF n = -1 THEN -1 ELSE n + 1 + sizearray(x)

\* findindex: the place of the key, array places first; -1 for an invalid key.
\* A freed key still serves.
findindex(x, k) ==
    LET chain == Chain(x, mainposition(x, k))
        same(n) == gnode(x, n).key = k \/ (k[1] = "str" /\ gnode(x, n).key = <<"dead", k[2]>>)
        hits == {i \in DOMAIN chain : same(chain[i])}
    IN IF k = Nil THEN 0
       ELSE IF InArray(x, k) THEN k[2]
       ELSE IF hits = {} THEN -1
       ELSE chain[CHOOSE i \in hits : \A j \in hits : i <= j] + 1 + sizearray(x)

\* The place's key and value; places after the array part are nodes.
KeyAt(x, i) == IF i < sizearray(x) THEN <<"int", i + 1>> ELSE gnode(x, i - sizearray(x)).key
ValAt(x, i) == IF i < sizearray(x) THEN x.array[i + 1] ELSE gnode(x, i - sizearray(x)).val
\* luaH_next: the first used place from there on, -1 when there is none.
luaH_next(x, k) ==
    LET from == findindex(x, k)
        used == {i \in from .. (sizearray(x) + sizenode(x) - 1) : ValAt(x, i) # Nil}
    IN IF used = {} THEN -1 ELSE CHOOSE i \in used : \A j \in used : i <= j

-----------------------------------------------------------------------------
(* The operations.                                                          *)

Init ==
    /\ \E na, nh \in Sizes : t = luaH_resize(luaH_new, na, nh)
    /\ key = Nil /\ visited = {} /\ travel = "idle"

\* t[k] = v; during a traversal only of a field the program has found.
Set ==
    /\ \E k \in Keys, v \in Values \union {Nil} :
         /\ travel = "on" => luaH_get(t, k) # Nil
         /\ t' = Put(t, k, v)
    /\ UNCHANGED <<key, visited, travel>>

\* OP_SETLIST: room for all items first, then the last item down to the first.
SetList ==
    /\ travel # "on"
    /\ \E n \in {m \in Ints : 1 .. m \subseteq Ints} : \E vs \in [1 .. n -> Values] :
         LET x == IF n > sizearray(t) THEN luaH_resize(t, n, IF t.dummy THEN 0 ELSE sizenode(t)) ELSE t
         IN t' = Reinsert(x, [i \in 1 .. n |-> << <<"int", n + 1 - i>>, vs[n + 1 - i]>>])
    /\ UNCHANGED <<key, visited, travel>>

\* next: a key to go on with, nil at the end, an error for an invalid key.
NextField ==
    /\ LET i == luaH_next(t, key)
       IN CASE findindex(t, key) = -1 -> key' = Nil /\ visited' = {} /\ travel' = "error"
            [] findindex(t, key) # -1 /\ i = -1 -> key' = Nil /\ visited' = {} /\ travel' = "complete"
            [] OTHER -> key' = KeyAt(t, i) /\ visited' = visited \union {KeyAt(t, i)} /\ travel' = "on"
    /\ UNCHANGED t

\* The loop over the fields is left early.
Abandon ==
    /\ travel = "on" /\ key' = Nil /\ visited' = {} /\ travel' = "idle"
    /\ UNCHANGED t

\* removeentry: the collector frees the key of a field that was cleared.
CollectKey ==
    /\ \E n \in Nodes(t) :
         /\ gnode(t, n).val = Nil /\ gnode(t, n).key[1] = "str"
         /\ t' = SetNode(t, n, [gnode(t, n) EXCEPT !.key = <<"dead", gnode(t, n).key[2]>>])
    /\ UNCHANGED <<key, visited, travel>>

Next == Set \/ SetList \/ NextField \/ Abandon \/ CollectKey

Spec == Init /\ [][Next]_vars

-----------------------------------------------------------------------------
(* Properties.                                                              *)

\* What t[k] = v stored is read back, and the length is a border: 0 or the
\* index of a field, with none at the next index, whichever part of the table
\* the fields are in.
StoresAndLength ==
    /\ \A k \in Keys, v \in Values \union {Nil} :
          (travel = "on" => luaH_get(t, k) # Nil) => luaH_get(Put(t, k, v), k) = v
    /\ LET n == luaH_getn(t) IN (n = 0 \/ GetInt(t, n) # Nil) /\ GetInt(t, n + 1) = Nil

\* The table as its users see it, through luaH_get.
Map == INSTANCE LuaMap WITH map <- [k \in Keys |-> luaH_get(t, k)]
\* ltable.c implements the map: an assignment changes one field and no other
\* through any rehash or move of nodes, and a traversal meets every field once
\* and no other while fields are changed, cleared and their keys freed.
ImplementsMap == Map!Spec
=============================================================================
