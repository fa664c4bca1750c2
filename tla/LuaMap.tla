------------------------------- MODULE LuaMap -------------------------------
(***************************************************************************)
(* What a Lua table promises: a map from keys to values in which nil means *)
(* absent, and a traversal that visits every field once however the fields *)
(* are changed or cleared meanwhile.                                       *)
(***************************************************************************)
EXTENDS Integers

CONSTANTS Ints, Strs, Values

VARIABLES
    map,       \* key -> value or nil
    visited,   \* keys the traversal has returned
    travel     \* "on" during a traversal, "complete" after one that went to its end

vars == <<map, visited, travel>>

Nil == <<"nil">>
Keys == {<<"int", i>> : i \in Ints} \union {<<"str", s>> : s \in Strs}
Present == {k \in Keys : map[k] # Nil}

Init == map = [k \in Keys |-> Nil] /\ visited = {} /\ travel = "idle"

\* Field k is assigned and every other stays as it is.  During a traversal
\* only existing fields may be assigned.
Set(k) ==
    /\ UNCHANGED <<visited, travel>>
    /\ travel = "on" => map[k] # Nil
    /\ map'[k] \in Values \union {Nil}
    /\ \A o \in Keys \ {k} : map'[o] = map[o]

Visit(k) ==
    /\ visited' = visited \union {k} /\ travel' = "on"
    /\ map[k] # Nil /\ k \notin visited
    /\ UNCHANGED map

Finish ==
    /\ visited' = {} /\ travel' = "complete"
    /\ Present \subseteq visited
    /\ UNCHANGED map

Abandon == visited' = {} /\ travel' = "idle" /\ UNCHANGED map

\* Several items stored at once by a constructor.
SetList(vs) ==
    /\ UNCHANGED <<visited, travel>>
    /\ travel # "on"
    /\ \A k \in Keys : map'[k] = IF k[1] = "int" /\ k[2] \in DOMAIN vs THEN vs[k[2]] ELSE map[k]

Lists == UNION {[1 .. n -> Values] : n \in {m \in Ints : 1 .. m \subseteq Ints}}

Next ==
    \/ \E k \in Keys : Set(k)
    \/ \E k \in Keys : Visit(k)
    \/ \E vs \in Lists : SetList(vs)
    \/ Finish \/ Abandon

Spec == Init /\ [][Next]_vars
=============================================================================
