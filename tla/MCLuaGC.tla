------------------------------ MODULE MCLuaGC ------------------------------
(* Heaps of five objects for the collector of LuaGC. *)
EXTENDS LuaGC, TLC

CONSTANTS a, b, c, d, e, u1, n1

\* A heap: contents of the objects o (kind, body), the rest free.
Table == [Empty EXCEPT !.arr = Void]
NoUp == [x \in UpVal |-> [open |-> FALSE, th |-> Nil, val |-> Nil, ref |-> -1, touched |-> FALSE]]
Stack(x, y) == [Empty EXCEPT !.arr = x, !.val = y]
Meta(mode, gcm) == [Table EXCEPT !.decl = [mode |-> mode, gc |-> gcm, name |-> Nil]]

Heap(ks, bs, fins) ==
    LET used == DOMAIN ks
        plain == used \ ({Main} \cup Range(fins))
    IN [kind |-> [o \in Obj |-> IF o \in used THEN ks[o] ELSE "free"],
        body |-> [o \in Obj |-> IF o \in used THEN bs[o] ELSE Empty],
        upval |-> NoUp, gmt |-> Nil,
        allgc |-> SetToSeq(plain), finobj |-> fins]

T == "table"

\* A weak table (mode) of the registry with a collectable key and value.
WeakHeap(mode) ==
    Heap(Main :> "thread" @@ Registry :> T @@ a :> T @@ b :> T @@ c :> "udata",
         Main :> Stack(b, c) @@ Registry :> [Table EXCEPT !.arr = a]
             @@ a :> [Table EXCEPT !.meta = b, !.key = c, !.val = c]
             @@ b :> Meta(mode, TRUE) @@ c :> Empty,
         <<>>)

\* Two objects to be finalized, one of them garbage, that an all-weak table
\* names (its metatable got its __gc later, so the table has no finalizer).
FinHeap ==
    Heap(Main :> "thread" @@ Registry :> T @@ a :> T @@ b :> "udata" @@ c :> "udata" @@ d :> T,
         Main :> Stack(b, Nil) @@ Registry :> [Table EXCEPT !.arr = d]
             @@ a :> Meta("kv", TRUE) @@ b :> [Empty EXCEPT !.meta = a]
             @@ c :> [Empty EXCEPT !.meta = a, !.val = b]
             @@ d :> [Table EXCEPT !.meta = a, !.key = b, !.val = c],
         <<b, c>>)

\* An ephemeron table whose key is garbage with a finalizer and whose value
\* nothing else refers to: both come back when the finalizer is to run.
EphemeronHeap ==
    Heap(Main :> "thread" @@ Registry :> T @@ a :> T @@ b :> T @@ c :> "udata" @@ d :> T,
         Main :> Stack(Nil, Nil) @@ Registry :> [Table EXCEPT !.arr = a]
             @@ a :> [Table EXCEPT !.meta = b, !.key = c, !.val = d]
             @@ b :> Meta("k", TRUE) @@ c :> [Empty EXCEPT !.meta = b] @@ d :> Table,
         <<c>>)

\* A coroutine whose stack slot a closure has captured.
UpHeap ==
    LET h == Heap(Main :> "thread" @@ Registry :> T @@ a :> "thread" @@ b :> "closure" @@ c :> "proto" @@ d :> "closure",
                  Main :> Stack(a, b) @@ Registry :> [Table EXCEPT !.arr = d] @@ a :> Stack(Nil, Nil)
                      @@ b :> [Empty EXCEPT !.val = c, !.up = u1] @@ d :> [Empty EXCEPT !.val = c] @@ c :> [Empty EXCEPT !.key = b],
                  <<>>)
    IN [h EXCEPT !.upval = [@ EXCEPT ![u1] = [open |-> TRUE, th |-> a, val |-> Nil, ref |-> 1,
                                              touched |-> TRUE]]]

MCHeaps == {WeakHeap("v"), FinHeap, EphemeronHeap, UpHeap}
=============================================================================
