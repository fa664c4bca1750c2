------------------------------- MODULE LuaGC -------------------------------
(***************************************************************************)
(* The incremental collector of the Lua interpreter that flake embeds:     *)
(* lgc.c with the parts of lstring.c, lfunc.c, lvm.c, lapi.c and lmem.c    *)
(* that create objects, run its barriers or ask it for a collection.  The  *)
(* program's steps interleave with the collector's at every singlestep;    *)
(* the debt that paces the collector is left open, so it may run whenever  *)
(* it is allowed to.                                                       *)
(*                                                                         *)
(* A table has an array part of at most one slot and a hash part of one    *)
(* node; a thread's stack has one slot that closures may capture, the main *)
(* thread one more; a closure has one upvalue.  The gray lists are sets:   *)
(* any member may be visited next, in some fixed order where the program   *)
(* cannot interleave.  allgc, finobj and tobefnz are sequences because the *)
(* sweep's place in them matters.                                          *)
(***************************************************************************)
EXTENDS Integers, Sequences, SequencesExt, FiniteSets

CONSTANTS
    Obj,        \* slots of the heap
    Main,       \* g->mainthread: never in a list, never freed
    Registry,   \* g->l_registry
    UpVal,      \* slots for upvalues, which are counted and not collected
    Name,       \* contents of strings
    Nil,        \* nil, or a null pointer
    Num,        \* a value that is not collectable
    Dead,       \* a dead key
    Void,       \* no array part
    GCSWEEPMAX, \* objects swept in one step
    Heaps,      \* the heaps the program has built when the collector is paused
    CloseAt,    \* the collector's states in which the state may be closed
    MaxOps      \* bound on the program's steps

VARIABLES
    kind,       \* the type of the object in a slot, "free" when there is none
    body,       \* its contents
    upval,      \* the upvalues
    g,          \* colours and gray lists
    lists,      \* allgc, finobj, tobefnz
    fin,        \* objects with FINALIZEDBIT
    gc,         \* the collector's control state
    twups,      \* threads with open upvalues
    gmt,        \* g->mt: the metatable of a basic type
    finarg,     \* the object handed to the finalizer that is running
    ops

heap == <<kind, body, upval>>
vars == <<kind, body, upval, g, lists, fin, gc, twups, gmt, finarg, ops>>

Value == Obj \cup {Nil, Num}
\* The colours: the current white, the other white, gray and black.
Whites == {"white", "old"}
NoMode == [mode |-> "", gc |-> FALSE, name |-> Nil]

Empty == [meta |-> Nil, arr |-> Void, key |-> Nil, val |-> Nil, up |-> Nil, decl |-> NoMode]

ASSUME RootsAssumption == {Main, Registry} \subseteq Obj /\ Main # Registry
ASSUME ValuesAssumption == {Nil, Num, Dead, Void} \cap Obj = {}
ASSUME BoundsAssumption == MaxOps \in Nat /\ GCSWEEPMAX \in Nat \ {0}

Allocated == {o \in Obj : kind[o] # "free"}
keepinvariant == gc.state \in {"propagate", "atomic"}
issweepphase == gc.state \in {"swpallgc", "swpfinobj", "swptobefnz", "swpend"}

\* "k", "v", "kv" or "": the __mode field of h's metatable.
Mode(h) == IF body[h].meta = Nil THEN "" ELSE body[body[h].meta].decl.mode
\* The value an upvalue stands for: a stack slot while it is open.
UpValue(u) == IF upval[u].open THEN body[upval[u].th].arr ELSE upval[u].val
OpenOf(th) == {u \in UpVal : upval[u].ref >= 0 /\ upval[u].open /\ upval[u].th = th}

-----------------------------------------------------------------------------
(* Marking.  m is a record like g; an operator returns the record after it. *)

IsWhite(m, v) == v \in Obj /\ m.color[v] \in Whites
IsCleared(m, v) == IsWhite(m, v) /\ kind[v] # "string"
Paint(m, S, c) == [m EXCEPT !.color = [o \in Obj |-> IF o \in S THEN c ELSE @[o]]]

\* The white objects that marking those of S visits at once: a userdata goes
\* on to its user value, which may again be a userdata.
Chain(m, S) ==
    LET uv(T) == {body[u].val : u \in {o \in T : kind[o] = "udata"}}
        reach[n \in 0 .. Cardinality(Obj)] ==
            IF n = 0 THEN {v \in S : IsWhite(m, v)}
                     ELSE reach[n - 1] \cup {v \in uv(reach[n - 1]) : IsWhite(m, v)}
    IN reach[Cardinality(Obj)]

reallymarkobject(m, S) ==
    LET chain == Chain(m, S)
        black == {o \in chain : kind[o] \in {"udata", "string"}}
        metas == {v \in {body[u].meta : u \in {o \in chain : kind[o] = "udata"}} :
                    IsWhite(m, v)}
        gray == (chain \ black) \cup metas
    IN [Paint(Paint(m, black, "black"), gray, "gray") EXCEPT !.gray = @ \cup gray]

Mark(m, v) == reallymarkobject(m, {v})

\* A weak table stays gray and goes to the list that fits what it holds.
traverseweakvalue(m, h) ==
    LET live == body[h].val # Nil
        m1 == IF live THEN Mark(m, body[h].key) ELSE m
        array == body[h].arr # Void
        hasclears == array \/ (live /\ IsCleared(m1, body[h].val))
        m2 == IF live /\ ~array /\ ~IsCleared(m1, body[h].val)
                 /\ body[h].val \in Obj /\ kind[body[h].val] = "string"
              THEN Mark(m1, body[h].val) ELSE m1
    IN IF gc.state = "propagate" THEN [m2 EXCEPT !.grayagain = @ \cup {h}]
       ELSE IF hasclears THEN [m2 EXCEPT !.weak = @ \cup {h}] ELSE m2

\* An ephemeron's value is marked only once its key is.
traverseephemeron(m, h) ==
    LET m1 == Mark(m, body[h].arr)
        live == body[h].val # Nil
        hasclears == live /\ IsCleared(m1, body[h].key)
        m2 == IF live /\ ~hasclears THEN Mark(Mark(m1, body[h].key), body[h].val) ELSE m1
        hasww == hasclears /\ IsWhite(m2, body[h].val)
        marked == IsWhite(m, body[h].arr)
                  \/ (live /\ ~hasclears /\ IsWhite(m1, body[h].val))
        list == IF gc.state = "propagate" THEN [m2 EXCEPT !.grayagain = @ \cup {h}]
                ELSE IF hasww THEN [m2 EXCEPT !.ephemeron = @ \cup {h}]
                ELSE IF hasclears THEN [m2 EXCEPT !.allweak = @ \cup {h}] ELSE m2
    IN [m |-> list, marked |-> marked]

traversestrongtable(m, h) ==
    reallymarkobject(m, {body[h].arr}
        \cup (IF body[h].val = Nil THEN {} ELSE {body[h].key, body[h].val}))

traversetable(m, h) ==
    LET m1 == Mark(m, body[h].meta)
        gray == Paint(m1, {h}, "gray")
    IN CASE Mode(h) = "" -> traversestrongtable(m1, h)
         [] Mode(h) = "v" -> traverseweakvalue(gray, h)
         [] Mode(h) = "k" -> traverseephemeron(gray, h).m
         [] Mode(h) = "kv" -> [gray EXCEPT !.allweak = @ \cup {h}]

traverseproto(m, p) == Mark(m, body[p].val)

\* Outside the atomic phase an open upvalue is left to its thread.
traverseLclosure(m, cl) ==
    LET u == body[cl].up
    IN reallymarkobject(m, {body[cl].val}
           \cup (IF u \in UpVal /\ ~(upval[u].open /\ gc.state # "inside")
                 THEN {UpValue(u)} ELSE {}))

\* The stack of a thread; the running finalizer's argument is in the main one.
StackOf(th) == {body[th].arr, body[th].val} \cup (IF th = Main THEN {finarg} ELSE {})
\* A thread is always gray: it is visited again in the atomic phase.
traversethread(m, th) ==
    reallymarkobject([Paint(m, {th}, "gray") EXCEPT !.grayagain = @ \cup {th}],
                     StackOf(th))

\* What one visit of the gray object o does to the marks ...
propagatemark(m, o) ==
    LET m1 == [Paint(m, {o}, "black") EXCEPT !.gray = @ \ {o}]
    IN CASE kind[o] = "table" -> traversetable(m1, o)
         [] kind[o] = "closure" -> traverseLclosure(m1, o)
         [] kind[o] = "proto" -> traverseproto(m1, o)
         [] kind[o] = "thread" -> traversethread(m1, o)

\* ... to its contents (a dead key, a closure cache that may go) ...
removeentry(m, b) ==
    IF b.val = Nil /\ IsWhite(m, b.key) THEN [b EXCEPT !.key = Dead] ELSE b

Contents(m, o) ==
    CASE kind[o] = "table" /\ Mode(o) # "kv" -> removeentry(m, body[o])
      [] kind[o] = "proto" /\ IsWhite(g, body[o].key) -> [body[o] EXCEPT !.key = Nil]
      [] OTHER -> body[o]

\* ... and to upvalues and the list of threads that have some.
Touch(o) ==
    /\ upval' = IF kind[o] = "closure" /\ body[o].up \in UpVal /\ gc.state # "inside"
                THEN [upval EXCEPT ![body[o].up].touched = @ \/ upval[body[o].up].open]
                ELSE upval
    /\ twups' = IF kind[o] = "thread" /\ gc.state = "inside" /\ OpenOf(o) # {}
                THEN twups \cup {o} ELSE twups

Visit(o) ==
    /\ g' = propagatemark(g, o)
    /\ body' = [body EXCEPT ![o] = Contents(g', o)]
    /\ Touch(o)

-----------------------------------------------------------------------------
(* Sweeping.  sweep is Nil, the name of a list (its head) or an object (the *)
(* next field of that object).                                              *)

ListOf(p) ==
    IF p \in DOMAIN lists THEN p
    ELSE CHOOSE l \in DOMAIN lists : \E i \in 1 .. Len(lists[l]) : lists[l][i] = p

\* What is left to sweep from p on, and what lies before.
Before(p) ==
    IF p \in DOMAIN lists THEN <<>>
    ELSE LET s == lists[ListOf(p)] IN SubSeq(s, 1, CHOOSE i \in 1 .. Len(s) : s[i] = p)
After(p) ==
    LET s == lists[ListOf(p)] IN SubSeq(s, Len(Before(p)) + 1, Len(s))

isdead(o) == g.color[o] = "old"

\* The objects of S are freed: closures give their upvalues back, and a
\* thread closes those still open in its stack (freeobj, luaF_close).
Freed(S) ==
    LET drop(u) == Cardinality({o \in S : kind[o] = "closure" /\ body[o].up = u})
        closed(u) == upval[u].open /\ upval[u].th \in S
        after(u) ==
            IF upval[u].ref < 0 THEN upval[u]
            ELSE LET r == upval[u].ref - drop(u)
                     open == upval[u].open /\ ~closed(u)
                 IN IF r = 0 /\ ~open
                    THEN [open |-> FALSE, th |-> Nil, val |-> Nil, ref |-> -1, touched |-> FALSE]
                    ELSE IF closed(u)
                    THEN [open |-> FALSE, th |-> Nil, val |-> UpValue(u), ref |-> r, touched |-> FALSE]
                    ELSE [upval[u] EXCEPT !.ref = r]
    IN [kind  |-> [o \in Obj |-> IF o \in S THEN "free" ELSE kind[o]],
        body  |-> [o \in Obj |-> IF o \in S THEN Empty ELSE body[o]],
        upval |-> [u \in UpVal |-> after(u)]]

\* sweeplist: of at most count objects from p on the dead are freed and the
\* others made white; next is where the sweep goes on, Nil at the end.
sweeplist(p, count) ==
    LET s == After(p)
        n == IF count < Len(s) THEN count ELSE Len(s)
        seen == SubSeq(s, 1, n)
        live == SelectSeq(seen, LAMBDA o : ~isdead(o))
    IN [dead |-> {o \in Range(seen) : isdead(o)},
        white |-> Range(live),
        list |-> Before(p) \o live \o SubSeq(s, n + 1, Len(s)),
        next |-> IF n = Len(s) THEN Nil ELSE IF live = <<>> THEN p ELSE Last(live)]

\* sweeptolive: every dead object up to the first live one.
sweeptolive(p) ==
    LET s == After(p)
        live == {i \in 1 .. Len(s) : ~isdead(s[i])}
        n == IF live = {} THEN Len(s) + 1 ELSE CHOOSE i \in live : \A j \in live : i <= j
    IN [dead |-> {s[i] : i \in 1 .. (n - 1)},
        white |-> IF live = {} THEN {} ELSE {s[n]},
        list |-> Before(p) \o SubSeq(s, n, Len(s)),
        next |-> IF n >= Len(s) THEN Nil ELSE s[n]]

\* The heap after the sweep w of the list of p.
Swept(w, p) ==
    /\ kind' = Freed(w.dead).kind
    /\ upval' = Freed(w.dead).upval
    /\ body' = Freed(w.dead).body
    /\ lists' = [lists EXCEPT ![ListOf(p)] = w.list]

-----------------------------------------------------------------------------
(* The program.  It holds what is in the main thread's two stack slots and, *)
(* while a finalizer runs, that finalizer's argument.                       *)

Held == ({body[Main].arr, body[Main].val, finarg, Registry} \cap Obj)
Values == Held \cup {Nil, Num}
HeldOf(k) == {o \in Held : kind[o] = k}

\* The program runs unless the collector is inside a step or a full cycle.
Program ==
    /\ gc.state # "inside"
    /\ gc.full = "no" \/ (finarg # Nil /\ gc.state = "callfin" /\ gc.kind = "normal")
    /\ ~gc.closing \/ finarg # Nil
    /\ ops < MaxOps
    /\ ops' = ops + 1

Push(b, v) == [b EXCEPT ![Main].val = v]

\* Wrong: no barrier at all.
noBarrier(m, o, v) == m

\* luaC_barrier, luaC_objbarrier: the white object v is stored in o.
Barrier(m, o, v) ==
    IF m.color[o] = "black" /\ IsWhite(m, v)
    THEN IF keepinvariant THEN Mark(m, v) ELSE Paint(m, {o}, "white")
    ELSE m

\* luaC_barrierback: the table t is to be visited again.
Barrierback(m, t, v) ==
    IF m.color[t] = "black" /\ IsWhite(m, v)
    THEN [Paint(m, {t}, "gray") EXCEPT !.grayagain = @ \cup {t}]
    ELSE m

\* luaC_upvalbarrier
Upvalbarrier(m, v) == IF keepinvariant THEN Mark(m, v) ELSE m

\* luaC_newobj: the object is white and first in allgc; its creator pushes it.
Free == Obj \ Allocated
New(k, b) ==
    LET o == CHOOSE x \in Free : TRUE
    IN /\ Free # {}
       /\ kind' = [kind EXCEPT ![o] = k]
       /\ body' = Push([body EXCEPT ![o] = b], o)
       /\ g' = Paint(g, {o}, "white")
       /\ lists' = [lists EXCEPT !.allgc = <<o>> \o @]

NewObject(k) ==
    /\ Program
    /\ k \in {"table", "udata", "thread"}
    /\ New(k, IF k = "thread" THEN [Empty EXCEPT !.arr = Nil] ELSE Empty)
    /\ UNCHANGED <<upval, fin, gc, twups, gmt, finarg>>

\* internshrstr: a string that is dead but not yet swept is taken back.
Intern(n) ==
    /\ Program
    /\ LET known == {o \in Allocated : kind[o] = "string" /\ body[o].decl.name = n}
       IN \/ \E ts \in known :
               /\ g' = IF isdead(ts) THEN Paint(g, {ts}, "white") ELSE g
               /\ body' = Push(body, ts)
               /\ UNCHANGED <<kind, lists>>
          \/ known = {} /\ New("string", [Empty EXCEPT !.decl.name = n])
    /\ UNCHANGED <<upval, fin, gc, twups, gmt, finarg>>

\* Reading a field of a held object, a global metatable or an upvalue.
Fields(o) ==
    {body[o].meta, body[o].arr, body[o].val}
        \cup (IF kind[o] = "table" /\ body[o].val # Nil THEN {body[o].key} ELSE {})
        \cup (IF kind[o] = "closure" /\ body[o].up \in UpVal THEN {UpValue(body[o].up)} ELSE {})
Loadable ==
    {v \in UNION {Fields(o) : o \in Held} \cup {gmt, finarg, Nil} :
        v = Nil \/ (v \in Obj /\ kind[v] # "proto")}
Load(v) ==
    /\ Program
    /\ \/ body' = Push(body, v)
       \/ v = Nil /\ body' = [body EXCEPT ![Main].arr = v]
    /\ UNCHANGED <<kind, upval, g, lists, fin, gc, twups, gmt, finarg>>

\* lua_rawseti and OP_SETLIST: the array part.
SetArray(t, v) ==
    /\ Program
    /\ body' = [body EXCEPT ![t].arr = v]
    /\ g' = Barrierback(g, t, v)
    /\ UNCHANGED <<kind, upval, lists, fin, gc, twups, gmt, finarg>>

\* lua_rawset: a new key (luaH_newkey, which has a barrier of its own) takes
\* the node when it is empty.
SetEntry(t, k, v) ==
    /\ Program
    /\ body[t].key = k \/ (body[t].val = Nil /\ v # Nil)
    /\ body' = [body EXCEPT ![t].key = k, ![t].val = v]
    /\ g' = Barrierback(IF body[t].key = k THEN g ELSE Barrierback(g, t, k), t, v)
    /\ UNCHANGED <<kind, upval, lists, fin, gc, twups, gmt, finarg>>

\* luaC_checkfinalizer: o moves from allgc to finobj; a sweep that stands at
\* o's next field moves on first.
checkfinalizer(m, o, mt) ==
    IF o \in fin \/ ~body[mt].decl.gc
    THEN /\ g' = m /\ body' = [body EXCEPT ![o].meta = mt]
         /\ UNCHANGED <<kind, upval, lists, fin, gc>>
    ELSE LET move == issweepphase /\ gc.sweep = o
             w == sweeptolive(gc.sweep)
             m1 == IF issweepphase THEN Paint(m, {o}, "white") ELSE m
             all == IF move THEN w.list ELSE lists.allgc
         IN /\ g' = IF move THEN Paint(m1, w.white \cup w.dead, "white") ELSE m1
            /\ LET f == Freed(IF move THEN w.dead ELSE {})
               IN kind' = f.kind /\ upval' = f.upval /\ body' = [f.body EXCEPT ![o].meta = mt]
            /\ gc' = IF move THEN [gc EXCEPT !.sweep = w.next] ELSE gc
            /\ lists' = [lists EXCEPT !.allgc = SelectSeq(all, LAMBDA x : x # o),
                                      !.finobj = <<o>> \o @]
            /\ fin' = fin \cup {o}

\* lua_setmetatable on a table or a userdata.  A table does not change its
\* weakness while marks are propagated: the manual (2.5.2) lets such a change
\* take effect only in the next cycle.
SetMetatable(o, mt) ==
    /\ Program
    /\ o # Registry
    /\ keepinvariant /\ kind[o] = "table"
         => Mode(o) = (IF mt = Nil THEN "" ELSE body[mt].decl.mode)
    /\ \/ /\ mt # Nil /\ mt # o
          /\ checkfinalizer(Barrier(g, o, mt), o, mt)
       \/ /\ mt = Nil
          /\ body' = [body EXCEPT ![o].meta = Nil]
          /\ UNCHANGED <<kind, upval, g, lists, fin, gc>>
    /\ UNCHANGED <<twups, gmt, finarg>>

\* lua_setmetatable on a basic type: no barrier, the atomic phase marks it.
SetBasicMetatable(mt) ==
    /\ Program
    /\ gmt' = mt
    /\ UNCHANGED <<kind, body, upval, g, lists, fin, gc, twups, finarg>>

\* lua_setuservalue
SetUservalue(u, v) ==
    /\ Program
    /\ body' = [body EXCEPT ![u].val = v]
    /\ g' = Barrier(g, u, v)
    /\ UNCHANGED <<kind, upval, lists, fin, gc, twups, gmt, finarg>>

\* Storing in the stack of a held coroutine (lua_xmove): threads need no barrier.
SetStack(th, v) ==
    /\ Program
    /\ th # Main
    /\ body' = [body EXCEPT ![th].arr = v]
    /\ UNCHANGED <<kind, upval, g, lists, fin, gc, twups, gmt, finarg>>

\* The prototypes of the functions the program is running or holds.
Prototypes ==
    {p \in {body[cl].val : cl \in HeldOf("closure") \cup ({body[Registry].arr} \cap Obj)} \cap Obj :
        kind[p] = "proto"}

\* OP_CLOSURE in thread th: the cached closure of the prototype when it has
\* the same upvalue, else a new one, cached unless the prototype is black.
Closure(th, p) ==
    LET cache == body[p].key
        found == OpenOf(th)
        u == IF found # {} THEN CHOOSE x \in found : TRUE
                           ELSE CHOOSE x \in UpVal : upval[x].ref < 0
        o == CHOOSE x \in Free : TRUE
    IN /\ Program
       /\ \/ /\ cache \in Obj /\ body[cache].up \in found
             /\ body' = Push(body, cache)
             /\ UNCHANGED <<kind, upval, g, lists, twups>>
          \/ /\ ~(cache \in Obj /\ body[cache].up \in found)
             /\ found # {} \/ \E x \in UpVal : upval[x].ref < 0
             /\ Free # {}
             /\ kind' = [kind EXCEPT ![o] = "closure"]
             /\ body' = [Push([body EXCEPT ![o] = [Empty EXCEPT !.val = p, !.up = u]], o)
                          EXCEPT ![p].key = IF g.color[p] = "black" THEN @ ELSE o]
             /\ upval' = IF found # {} THEN [upval EXCEPT ![u].ref = @ + 1]
                         ELSE [upval EXCEPT ![u] = [open |-> TRUE, th |-> th, val |-> Nil,
                                                    ref |-> 1, touched |-> TRUE]]
             /\ twups' = IF found # {} THEN twups ELSE twups \cup {th}
             /\ g' = Paint(g, {o}, "white")
             /\ lists' = [lists EXCEPT !.allgc = <<o>> \o @]
       /\ UNCHANGED <<fin, gc, gmt, finarg>>

\* OP_SETUPVAL, lua_setupvalue
SetUpvalue(cl, v) ==
    LET u == body[cl].up
    IN /\ Program
       /\ u \in UpVal
       /\ IF upval[u].open
          THEN body' = [body EXCEPT ![upval[u].th].arr = v] /\ UNCHANGED <<upval, g>>
          ELSE upval' = [upval EXCEPT ![u].val = v] /\ g' = Upvalbarrier(g, v) /\ UNCHANGED body
       /\ UNCHANGED <<kind, lists, fin, gc, twups, gmt, finarg>>

\* luaF_close when the frame of thread th's slot is left.
CloseUpvalues(th) ==
    /\ Program
    /\ \E u \in OpenOf(th) :
         /\ upval' = [upval EXCEPT ![u] =
                        IF @.ref = 0
                        THEN [open |-> FALSE, th |-> Nil, val |-> Nil, ref |-> -1, touched |-> FALSE]
                        ELSE [open |-> FALSE, th |-> Nil, val |-> body[th].arr, ref |-> @.ref,
                              touched |-> FALSE]]
         /\ g' = IF upval[u].ref = 0 THEN g ELSE Upvalbarrier(g, body[th].arr)
    /\ body' = [body EXCEPT ![th].arr = Nil]
    /\ UNCHANGED <<kind, lists, fin, gc, twups, gmt, finarg>>

-----------------------------------------------------------------------------
(* The collector.                                                           *)

Collector == (gc.running \/ gc.full # "no") /\ ~gc.closing
Same == UNCHANGED <<gmt, finarg, ops>>

\* GCSpause: restartcollection.
Restart ==
    /\ Collector /\ gc.state = "pause" /\ gc.full # "ending"
    /\ g' = reallymarkobject([g EXCEPT !.gray = {}, !.grayagain = {}, !.weak = {},
                                       !.allweak = {}, !.ephemeron = {}],
                             {Main, Registry, gmt} \cup Range(lists.tobefnz))
    /\ gc' = [gc EXCEPT !.state = "propagate", !.full = IF @ = "no" THEN "no" ELSE "cycle"]
    /\ UNCHANGED <<heap, lists, fin, twups>> /\ Same

\* GCSpropagate: one gray object.
Propagate ==
    /\ Collector /\ gc.state = "propagate"
    /\ \E o \in g.gray :
         /\ Visit(o)
         /\ gc' = IF g'.gray = {} THEN [gc EXCEPT !.state = "atomic"] ELSE gc
    /\ UNCHANGED <<kind, lists, fin>> /\ Same

\* propagateall: gray objects are visited until none is left, inside one step.
PropagateAll ==
    /\ gc.state = "inside" \/ (gc.state = "atomic" /\ Collector)
    /\ g.gray # {}
    /\ Visit(CHOOSE o \in g.gray : TRUE)
    /\ UNCHANGED <<kind, lists, fin, gc>> /\ Same

\* atomic, first part.  From here to entersweep the program does not run.
\* remarkupvals: values in touched upvalues of threads that are not marked.
Gone == {th \in twups : g.color[th] # "gray" \/ OpenOf(th) = {}}
EnterAtomic ==
    /\ Collector /\ gc.state = "atomic" /\ g.gray = {}
    /\ LET touched == {u \in UNION {OpenOf(th) : th \in Gone} : upval[u].touched}
       IN /\ g' = reallymarkobject(g, {Main, Registry, gmt} \cup {UpValue(u) : u \in touched})
          /\ upval' = [u \in UpVal |-> IF u \in touched THEN [upval[u] EXCEPT !.touched = FALSE]
                                                        ELSE upval[u]]
    /\ twups' = twups \ Gone
    /\ gc' = [gc EXCEPT !.state = "inside", !.pc = "roots", !.saved = g.grayagain]
    /\ UNCHANGED <<kind, body, lists, fin>> /\ Same

\* Wrong: the saved list is forgotten.
forgetGrayagain ==
    /\ gc.state = "inside" /\ gc.pc = "roots" /\ g.gray = {}
    /\ gc' = [gc EXCEPT !.pc = "grayagain", !.saved = {}]
    /\ UNCHANGED <<heap, g, lists, fin, twups>> /\ Same

\* The saved grayagain list is the gray list next.
TraverseGrayagain ==
    /\ gc.state = "inside" /\ gc.pc = "roots" /\ g.gray = {}
    /\ g' = [g EXCEPT !.gray = gc.saved]
    /\ gc' = [gc EXCEPT !.pc = "grayagain", !.saved = {}]
    /\ UNCHANGED <<heap, lists, fin, twups>> /\ Same

\* convergeephemerons, for the second time when objects were resurrected.
StartConverge ==
    /\ gc.state = "inside" /\ gc.pc \in {"grayagain", "resurrect"} /\ g.gray = {}
    /\ gc' = [gc EXCEPT !.pc = IF @ = "grayagain" THEN "converge" ELSE "converge2",
                        !.todo = g.ephemeron, !.changed = FALSE]
    /\ g' = [g EXCEPT !.ephemeron = {}]
    /\ UNCHANGED <<heap, lists, fin, twups>> /\ Same

Converging == gc.state = "inside" /\ gc.pc \in {"converge", "converge2"} /\ g.gray = {}
Converge ==
    /\ Converging
    /\ gc.todo # {}
    /\ LET w == CHOOSE x \in gc.todo : TRUE
           t == traverseephemeron(g, w)
       IN /\ g' = t.m
          /\ body' = [body EXCEPT ![w] = removeentry(t.m, @)]
          /\ gc' = [gc EXCEPT !.todo = @ \ {w}, !.changed = @ \/ t.marked]
    /\ UNCHANGED <<kind, upval, lists, fin, twups>> /\ Same
ConvergeAgain ==
    /\ Converging /\ gc.todo = {} /\ gc.changed
    /\ gc' = [gc EXCEPT !.todo = g.ephemeron, !.changed = FALSE]
    /\ g' = [g EXCEPT !.ephemeron = {}]
    /\ UNCHANGED <<heap, lists, fin, twups>> /\ Same
Converged == Converging /\ gc.todo = {} /\ ~gc.changed

\* Strings are values: iscleared marks those it meets.
Strings(S) == {v \in S : v \in Obj /\ kind[v] = "string"}
clearvalues(m, b, L) ==
    [m |-> reallymarkobject(m, Strings(UNION {{b[h].arr, b[h].val} : h \in L})),
     b |-> [h \in Obj |->
              IF h \notin L THEN b[h]
              ELSE LET arr == IF IsCleared(m, b[h].arr) THEN Nil ELSE b[h].arr
                   IN IF IsCleared(m, b[h].val)
                      THEN removeentry(m, [b[h] EXCEPT !.arr = arr, !.val = Nil])
                      ELSE [b[h] EXCEPT !.arr = arr]]]
clearkeys(m, b, L) ==
    [m |-> reallymarkobject(m, Strings({b[h].key : h \in {x \in L : b[x].val # Nil}})),
     b |-> [h \in Obj |->
              IF h \in L /\ b[h].val # Nil /\ IsCleared(m, b[h].key)
              THEN removeentry(m, [b[h] EXCEPT !.val = Nil]) ELSE b[h]]]

\* Values go from weak tables before the objects to be finalized are set
\* apart (separatetobefnz) and marked.
Separate ==
    /\ gc.pc = "converge" /\ Converged
    /\ LET v == clearvalues(g, body, g.weak \cup g.allweak)
           white(o) == IsWhite(v.m, o)
           tobefnz == lists.tobefnz \o SelectSeq(lists.finobj, white)
       IN /\ body' = v.b
          /\ g' = reallymarkobject(v.m, Range(tobefnz))
          /\ lists' = [lists EXCEPT !.tobefnz = tobefnz,
                                    !.finobj = SelectSeq(@, LAMBDA o : ~white(o))]
    /\ gc' = [gc EXCEPT !.pc = "resurrect", !.orig = [weak |-> g.weak, all |-> g.allweak]]
    /\ UNCHANGED <<kind, upval, fin, twups>> /\ Same

\* Wrong: the whites stay as they are, and nothing is dead.
keepWhite(m) == m

\* The whites change places: what is white now is dead.
FlipWhite(m) ==
    [m EXCEPT !.color = [o \in Obj |-> CASE @[o] = "white" /\ o \in Allocated -> "old"
                                         [] @[o] = "old" -> "white"
                                         [] OTHER -> @[o]]]

\* The last part of atomic and entersweep: keys go, values go from the tables
\* resurrected since, the whites are exchanged and the sweep starts.
FinishAtomic ==
    /\ gc.pc = "converge2" /\ Converged
    /\ LET k == clearkeys(g, body, g.ephemeron \cup g.allweak)
           v == clearvalues(k.m, k.b, (g.weak \ gc.orig.weak) \cup (g.allweak \ gc.orig.all))
       IN g' = FlipWhite(v.m) /\ body' = v.b
    /\ gc' = [gc EXCEPT !.state = "entersweep", !.pc = "",
                        !.orig = [weak |-> {}, all |-> {}]]
    /\ UNCHANGED <<kind, upval, lists, fin, twups>> /\ Same

\* entersweep, at the end of atomic and at the start of a full collection.
EnterSweep ==
    /\ gc.state = "entersweep"
    /\ LET w == sweeptolive("allgc")
       IN /\ Swept(w, "allgc")
          /\ g' = Paint(g, w.white \cup w.dead, "white")
          /\ gc' = [gc EXCEPT !.state = "swpallgc", !.sweep = w.next]
    /\ UNCHANGED <<fin, twups>> /\ Same

NextSweep(s) ==
    CASE s = "swpallgc" -> [state |-> "swpfinobj", list |-> "finobj"]
      [] s = "swpfinobj" -> [state |-> "swptobefnz", list |-> "tobefnz"]
      [] s = "swptobefnz" -> [state |-> "swpend", list |-> Nil]

\* sweepstep, GCSWEEPMAX objects at a time; at the end of a list the next phase.
SweepStep ==
    /\ Collector /\ gc.state \in {"swpallgc", "swpfinobj", "swptobefnz"}
    /\ LET p == gc.sweep
           n == NextSweep(gc.state)
       IN \/ /\ p # Nil
             /\ LET w == sweeplist(p, GCSWEEPMAX)
                IN /\ Swept(w, p)
                   /\ g' = Paint(g, w.white \cup w.dead, "white")
                   /\ gc' = IF w.next # Nil THEN [gc EXCEPT !.sweep = w.next]
                            ELSE [gc EXCEPT !.state = n.state, !.sweep = n.list]
          \/ /\ p = Nil
             /\ gc' = [gc EXCEPT !.state = n.state, !.sweep = n.list]
             /\ UNCHANGED <<heap, lists, g>>
    /\ UNCHANGED <<fin, twups>> /\ Same

SweepEnd ==
    /\ Collector /\ gc.state = "swpend"
    /\ g' = Paint(g, {Main}, "white")
    /\ gc' = [gc EXCEPT !.state = "callfin"]
    /\ UNCHANGED <<heap, lists, fin, twups>> /\ Same

\* udata2finalize and GCTM: the object is normal again and its finalizer is
\* called, unless the metatable it has now names none.
udata2finalize ==
    LET o == Head(lists.tobefnz)
    IN /\ lists' = [lists EXCEPT !.tobefnz = Tail(@), !.allgc = <<o>> \o @]
       /\ fin' = fin \ {o}
       /\ g' = IF issweepphase THEN Paint(g, {o}, "white") ELSE g
       /\ IF body[o].meta # Nil /\ body[body[o].meta].decl.gc
          THEN finarg' = o /\ gc' = [gc EXCEPT !.running = FALSE]
          ELSE UNCHANGED <<finarg, gc>>
       /\ UNCHANGED <<heap, twups, gmt, ops>>

\* runafewfinalizers, from GCScallfin and from the end of luaC_step in any
\* other state but the pause.
RunFinalizer ==
    /\ lists.tobefnz # <<>> /\ finarg = Nil
    /\ \/ gc.closing
       \/ Collector /\ gc.state = "callfin" /\ gc.kind # "emergency"
       \/ Collector /\ gc.full = "no" /\ gc.state \notin {"pause", "inside", "entersweep"}
    /\ udata2finalize

\* The finalizer returns or fails; either way the collector may run again.
FinalizerReturns ==
    /\ finarg # Nil /\ (gc.full = "no" \/ gc.kind # "emergency")
    /\ gc.state \notin {"inside", "entersweep"}
    /\ finarg' = Nil
    /\ gc' = [gc EXCEPT !.running = TRUE]
    /\ UNCHANGED <<heap, g, lists, fin, twups, gmt, ops>>

EndCycle ==
    /\ Collector /\ gc.state = "callfin"
    /\ lists.tobefnz = <<>> \/ gc.kind = "emergency"
    /\ finarg = Nil \/ gc.kind = "emergency"
    /\ gc' = [gc EXCEPT !.state = "pause", !.full = IF @ = "cycle" THEN "ending" ELSE @]
    /\ UNCHANGED <<heap, g, lists, fin, twups>> /\ Same

\* luaC_fullgc: collectgarbage(), or an allocation that failed, which may also
\* happen in a finalizer.  A cycle under way is swept off without collecting.
FullGC(k) ==
    /\ gc.full = "no" /\ ~gc.closing /\ ops < MaxOps
    /\ gc.state \notin {"inside", "entersweep"}
    /\ finarg = Nil \/ k = "emergency"
    /\ gc' = [gc EXCEPT !.full = "finish", !.kind = k,
                        !.state = IF keepinvariant THEN "entersweep" ELSE @]
    /\ ops' = ops + 1
    /\ UNCHANGED <<heap, g, lists, fin, twups, gmt, finarg>>
FullGCReturns ==
    /\ gc.full = "ending"
    /\ gc' = [gc EXCEPT !.full = "no", !.kind = "normal"]
    /\ UNCHANGED <<heap, g, lists, fin, twups>> /\ Same

\* lua_close, luaC_freeallobjects: every finalizer still due is called, then
\* everything is freed; marks made by those finalizers have no effect.
CloseState ==
    /\ ~gc.closing /\ gc.full = "no" /\ finarg = Nil
    /\ gc.state \in CloseAt
    /\ lists' = [lists EXCEPT !.tobefnz = @ \o lists.finobj, !.finobj = <<>>]
    /\ gc' = [gc EXCEPT !.closing = TRUE]
    /\ UNCHANGED <<heap, g, fin, twups>> /\ Same
FreeAll ==
    /\ gc.closing /\ lists.tobefnz = <<>> /\ finarg = Nil /\ gc.state # "closed"
    /\ kind' = [o \in Obj |-> IF o = Main THEN "thread" ELSE "free"]
    /\ body' = [body EXCEPT ![Main] = [Empty EXCEPT !.arr = Nil]]
    /\ lists' = [l \in DOMAIN lists |-> <<>>]
    /\ gc' = [gc EXCEPT !.state = "closed"]
    /\ gmt' = Nil
    /\ UNCHANGED <<upval, g, fin, twups, finarg, ops>>

-----------------------------------------------------------------------------
NoOrig == [weak |-> {}, all |-> {}]
Init ==
    /\ \E h \in Heaps :
         /\ kind = h.kind /\ body = h.body /\ upval = h.upval /\ gmt = h.gmt
         /\ twups = {h.upval[u].th : u \in {x \in UpVal : h.upval[x].open}}
         /\ fin = Range(h.finobj)
         /\ lists = [allgc |-> h.allgc, finobj |-> h.finobj, tobefnz |-> <<>>]
    /\ g = [color |-> [o \in Obj |-> "white"], gray |-> {}, grayagain |-> {},
            weak |-> {}, allweak |-> {}, ephemeron |-> {}]
    /\ gc = [state |-> "pause", pc |-> "", sweep |-> Nil,
             running |-> TRUE, kind |-> "normal", full |-> "no", closing |-> FALSE,
             saved |-> {}, todo |-> {}, changed |-> FALSE, orig |-> NoOrig]
    /\ finarg = Nil
    /\ ops = 0

Mutate ==
    \/ \E k \in {"table", "udata", "thread"} : NewObject(k)
    \/ \E n \in Name : Intern(n)
    \/ \E v \in Loadable : Load(v)
    \/ \E t \in HeldOf("table"), v \in Values : SetArray(t, v)
    \/ \E t \in HeldOf("table"), k \in Values \ {Nil}, v \in Values : SetEntry(t, k, v)
    \/ \E o \in HeldOf("table") \cup HeldOf("udata"), mt \in HeldOf("table") \cup {Nil} :
         SetMetatable(o, mt)
    \/ \E mt \in HeldOf("table") : SetBasicMetatable(mt)
    \/ \E u \in HeldOf("udata"), v \in Values : SetUservalue(u, v)
    \/ \E th \in HeldOf("thread"), v \in Values : SetStack(th, v)
    \/ \E th \in HeldOf("thread") \cup {Main}, p \in Prototypes : Closure(th, p)
    \/ \E cl \in HeldOf("closure"), v \in Values : SetUpvalue(cl, v)
    \/ \E th \in HeldOf("thread") \cup {Main} : CloseUpvalues(th)

singlestep ==
    \/ Restart \/ Propagate \/ PropagateAll \/ EnterAtomic \/ TraverseGrayagain
    \/ StartConverge \/ Converge \/ ConvergeAgain \/ Separate \/ FinishAtomic
    \/ EnterSweep \/ SweepStep \/ SweepEnd \/ EndCycle

Next ==
    \/ Mutate \/ singlestep \/ RunFinalizer \/ FinalizerReturns
    \/ \E k \in {"normal", "emergency"} : FullGC(k)
    \/ FullGCReturns \/ CloseState \/ FreeAll

Spec == Init /\ [][Next]_vars

-----------------------------------------------------------------------------
(* Properties.                                                              *)

\* What the collector must keep when it keeps o; an ephemeron's value counts
\* once its key is kept.
Strong(o, kept) ==
    CASE kind[o] = "table" ->
           {body[o].meta}
           \cup (IF Mode(o) \in {"", "k"} THEN {body[o].arr} ELSE {})
           \cup (IF body[o].val = Nil THEN {}
                 ELSE CASE Mode(o) = "" -> {body[o].key, body[o].val}
                        [] Mode(o) = "v" -> {body[o].key}
                        [] Mode(o) = "k" ->
                             IF body[o].key \in kept \/ body[o].key \notin Obj
                                \/ kind[body[o].key] = "string"
                             THEN {body[o].val} ELSE {}
                        [] Mode(o) = "kv" -> {})
      [] kind[o] = "udata" -> {body[o].meta, body[o].val}
      [] kind[o] = "closure" -> {body[o].val} \cup {UpValue(u) : u \in {body[o].up} \cap UpVal}
      [] kind[o] = "thread" -> StackOf(o)
      [] kind[o] = "proto" -> {body[o].val}
      [] OTHER -> {}

Reach(from) ==
    LET grow(S) == S \cup (UNION {Strong(o, S) : o \in S} \cap Obj)
        r[n \in 0 .. Cardinality(Obj)] == IF n = 0 THEN from \cap Obj ELSE grow(r[n - 1])
    IN r[Cardinality(Obj)]

Roots == {Main, Registry, gmt, finarg}
ToFinalize == Range(lists.finobj) \cup Range(lists.tobefnz)

\* Every reference the program can follow is to an object: no step of the
\* collector frees what a reachable object, or one that is still to be
\* finalized, names in a field, an entry, a weak entry, a stack slot, an upvalue
\* (the one of a collected thread too) or a closure cache (freeobj).
NoDangling ==
    gc.state # "closed" =>
        \A o \in Reach(Roots \cup ToFinalize) :
            /\ kind[o] # "free"
            /\ ({body[o].meta, body[o].arr, body[o].val} \cap Obj) \subseteq Allocated
            /\ body[o].key \in Obj /\ (kind[o] = "proto" \/ body[o].val # Nil)
                 => body[o].key \in Allocated
            /\ kind[o] = "closure" => \A u \in {body[o].up} \cap UpVal : upval[u].ref > 0

\* The invariant of lgc.h: while marks are being propagated a black object
\* names no white one (an open upvalue is its thread's business), and every
\* gray object is in a list that is visited again.
TriColor ==
    gc.state \in {"propagate", "atomic"} =>
        /\ \A o \in Allocated :
             g.color[o] = "black" =>
                \A v \in Strong(o, Obj) :
                    IsWhite(g, v) =>
                        /\ kind[o] = "closure" /\ v # body[o].val
                        /\ \E u \in {body[o].up} \cap UpVal : upval[u].open /\ upval[u].touched
        /\ \A o \in Allocated :
             g.color[o] = "gray" =>
                o \in g.gray \cup g.grayagain \cup g.weak \cup g.allweak \cup g.ephemeron

\* The heap is sound between any two steps of the program and the collector:
\* nothing the program can reach is freed, and the marks are such that the
\* sweep to come frees nothing it can reach (luaC_barrier_, freeobj).
HeapSound == NoDangling /\ TriColor

\* separatetobefnz and udata2finalize: no object is taken to be finalized
\* while the program can still reach it, unless the state is being closed,
\* and none loses its finalizer without the call.
FinalizesGarbage ==
    [][/\ \A o \in Range(lists'.tobefnz) \ Range(lists.tobefnz) :
            gc'.closing \/ o \notin Reach(Roots)
       /\ \A o \in fin \ fin' : o = Head(lists.tobefnz)
       /\ gc'.closing \/ \A o \in fin : kind'[o] # "free"]_vars

\* luaC_fullgc leaves no garbage: when its sweep is over every object is
\* reachable or still to be finalized.
FullCycleCollectsAll ==
    gc.full = "cycle" /\ gc.state = "swpend" =>
        Allocated \subseteq Reach(Roots \cup ToFinalize)
=============================================================================
