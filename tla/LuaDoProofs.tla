---------------------------- MODULE LuaDoProofs ----------------------------
(***************************************************************************)
(* Spec => []StateRestored for every limit on C calls and any number of    *)
(* coroutines, provided that no coroutine resumes one that waits for it    *)
(* (~ResumesNormal).                                                       *)
(*                                                                         *)
(* The invariant is Good: every activation on the C stack stands on a      *)
(* number of frames of its thread, its level lev.  Pos says what holds of  *)
(* one activation, Adj of two neighbours, TopOK of the running thread and  *)
(* ThOK of all threads.  An activation looks only at what is below it      *)
(* (PosFrame, AdjFrame), so a step is one of a few moves: entering an      *)
(* activation on top (Pushed, PushedRun), going back to one below (Retop,  *)
(* BackFine), or landing in a luaD_rawrunprotected (ThrowError,            *)
(* ThrowYield).  Each function of ldo.c is shown to be such a move, from   *)
(* the innermost ones to the actions.                                      *)
(***************************************************************************)
EXTENDS LuaDo, SequenceLemmas


\* Frames are of the functions of the program, the host and message handlers.
Names == Functions \union {"host", "handler"}
\* The types of frames, threads and activations.
Info == [fn : Names, reentry : BOOLEAN, ypcall : BOOLEAN, k : BOOLEAN, olderr : Nat]

LuaState == [ci : Seq(Info), status : {"ok", "yield", "err", "errerr"}, fresh : BOOLEAN,
             nny : Nat, nCcalls : Nat, errfunc : Nat]

CAct == [f : {"C"}, th : Threads, at : {"start", "wait", "done"}]
ExecAct == [f : {"luaV_execute"}, th : Threads]
CallAct == [f : {"luaD_call"}, th : Threads, allowyield : BOOLEAN]
MsgAct == [f : {"luaG_errormsg"}, th : Threads]
RunAct == [f : {"run"}, th : Threads, of : {"pcall", "resume"},
           ci : Nat, nCcalls : Nat, nny : Nat, errfunc : Nat]
UnrollAct == [f : {"unroll"}, th : Threads, ud : {"yield", "err", "errerr"}]
Acts == CAct \cup ExecAct \cup CallAct \cup MsgAct \cup RunAct \cup UnrollAct

\* The protected calls.
Prot == {"host", "pcall", "xpcall"}

\* What the handler of a call made in frame n of the chain c is.
Handler(c, n) ==
    LET P == {i \in 1..n : c[i].fn \in Prot}
        i == CHOOSE i \in P : \A j \in P : j <= i
    IN  IF P # {} /\ c[i].fn = "xpcall" THEN i ELSE 0

\* A frame that unroll can complete: of Lua, or of C with a continuation.
Soft(r) == IsLua(r.fn) \/ (r.k /\ (r.fn \in Prot => r.ypcall))

\* What is always true of the frames of a thread: a frame to be recovered notes the
\* handler outside it and all below it can be completed, and a call that Lua made
\* is on top of a Lua function.
CiOK(c) ==
    \A j \in 1..Len(c) :
        /\ c[j].ypcall => /\ c[j].fn \in {"pcall", "xpcall"} /\ c[j].olderr = Handler(c, j - 1)
                          /\ \A i \in 1..j : Soft(c[i])
        /\ c[j].reentry => j >= 2 /\ IsLua(c[j].fn) /\ IsLua(c[j - 1].fn)

\* The counts that nCcalls and nny must agree with.
IsRun(a, of) == a.f = "run" /\ a.of = of
Nested(C, n) == {i \in 1..n : C[i].f = "luaD_call" \/ IsRun(C[i], "resume")}
Calls(C, n, t) == {i \in 1..n : C[i].th = t /\ C[i].f = "luaD_call" /\ ~C[i].allowyield}
One(b) == IF b THEN 1 ELSE 0
ActiveIn(C) == {C[i].th : i \in 1..Len(C)}

\* What holds of activation i, which stands on the first lev[i] frames of its thread.
Pos(T, C, lev, i) ==
    LET a == C[i]
        t == a.th
        c == T[t].ci
        n == lev[i]
    IN  /\ n <= Len(c)
        /\ a.f = "C" => n >= 1
        /\ a.f = "luaV_execute" => n >= 1 /\ IsLua(c[n].fn)
        /\ IsRun(a, "pcall") => /\ n >= 1 /\ c[n].fn \in Prot /\ a.ci = n
                                /\ a.errfunc = Handler(c, n - 1)
                                /\ a.nny = Cardinality(Calls(C, i, t)) + One(t = MainThread)
        /\ IsRun(a, "resume") => t # MainThread /\ n = 0 /\ a.nny = 1
        /\ a.f = "run" => a.nCcalls = Cardinality(Nested(C, i))
        /\ a.f = "unroll" => n = 0 /\ t # MainThread
        /\ t = MainThread \/ Calls(C, i, t) # {} \/ \A j \in 1..(n - 1) : Soft(c[j])
        /\ a.f \in {"C", "luaV_execute"} =>
              t = MainThread \/ Calls(C, i, t) # {} \/ \A j \in 1..i : C[j].th = t => ~IsRun(C[j], "pcall")

\* What holds of two neighbours on the C stack.
Adj(T, C, lev, i) ==
    LET a == C[i]
        b == C[i + 1]
        s == T[a.th]
        c == s.ci
        n == lev[i]
        m == lev[i + 1]
    IN  /\ IsRun(b, "resume") => /\ a.f = "C" /\ n = Len(c) /\ c[n].fn \notin Prot
                                 /\ s.nCcalls = Cardinality(Nested(C, i))
                                 /\ s.errfunc = Handler(c, n)
        /\ ~IsRun(b, "resume") => a.th = b.th
        /\ b.f = "C" => m = n + 1 /\ (a.f \in {"luaD_call", "luaV_execute"} \/ IsRun(a, "resume"))
        /\ b.f = "luaV_execute" =>
              /\ a.f \in {"luaD_call", "unroll"} \/ IsRun(a, "resume")
              /\ a.f # "unroll" => n < m /\ ~c[n + 1].reentry /\ \A j \in (n + 2)..m : c[j].reentry
        /\ b.f = "luaD_call" => /\ m = n /\ (a.f \in {"C", "luaG_errormsg"} \/ IsRun(a, "pcall"))
                                /\ a.f = "C" /\ c[n].fn \in Prot => c[n].ypcall
        /\ b.f = "luaG_errormsg" => m = n /\ a.f \in {"C", "luaV_execute", "luaD_call"}
        /\ IsRun(b, "pcall") => m = n /\ a.f = "C"
        /\ b.f = "unroll" => IsRun(a, "resume")
        /\ IsRun(a, "pcall") => b.f = "luaD_call"
        /\ a.f = "unroll" => a.ud = "yield" /\ b.f = "luaV_execute"

\* The activations of a thread stand on ever more frames, with no other thread
\* between them.
Order(C, lev) ==
    \A i, j \in 1..Len(C) :
        i < j /\ C[i].th = C[j].th =>
            /\ lev[i] <= lev[j] /\ ~IsRun(C[j], "resume")
            /\ \A l \in i..j : C[l].th = C[i].th

\* Whatever runs, but for the host, something can be thrown to.
Protected(C) ==
    \A i \in 2..Len(C) : \E j \in 2..i : C[j].f = "run" /\ C[j].th = C[i].th

\* The host is below everything.
Bottom(T, C, lev) ==
    C[1].f = "C" /\ C[1].th = MainThread /\ lev[1] = 1 /\ T[MainThread].ci[1].fn = "host"

\* A thread on the C stack runs and has nny from its calls; one that is not is new,
\* suspended or dead.
ThOK(T, C, t) ==
    /\ CiOK(T[t].ci)
    /\ t \in ActiveIn(C) =>
          /\ T[t].status = "ok"
          /\ T[t].nny = Cardinality(Calls(C, Len(C), t)) + One(t = MainThread)
    /\ t \notin ActiveIn(C) =>
          /\ T[t].nny = 1
          /\ T[t].status = "ok" => T[t].ci = <<>> /\ T[t].errfunc = 0
          /\ T[t].status = "yield" =>
                LET c == T[t].ci
                IN  /\ c # <<>> /\ c[Len(c)].fn \notin Prot
                    /\ \A j \in 1..(Len(c) - 1) : Soft(c[j])
                    /\ T[t].errfunc = Handler(c, Len(c))

\* What the running thread has: nCcalls from all nested calls, errfunc from the
\* innermost protected call of its frames.
TopOK(T, C, lev) ==
    LET L == Len(C)
        a == C[L]
        s == T[a.th]
        n == Len(s.ci)
    IN  /\ s.nCcalls = Cardinality(Nested(C, L))
        /\ a.f # "unroll" => lev[L] = n
        /\ a.f = "C" => s.errfunc = Handler(s.ci, IF s.ci[n].fn \in Prot THEN n - 1 ELSE n)
        /\ a.f \notin {"C", "unroll"} => s.errfunc = Handler(s.ci, n)
        /\ a.f = "unroll" =>
              /\ \A j \in 1..n : Soft(s.ci[j])
              /\ a.ud # "yield" => n >= 1 /\ s.ci[n].ypcall
              /\ s.errfunc = Handler(s.ci, IF a.ud = "yield" THEN n ELSE n - 1)

\* The invariant, for levels lev.
Core(T, C, lev) ==
    /\ \A i \in 1..Len(C) : Pos(T, C, lev, i)
    /\ \A i \in 1..(Len(C) - 1) : Adj(T, C, lev, i)
    /\ Order(C, lev) /\ Protected(C) /\ Bottom(T, C, lev)
    /\ \A t \in Threads : ThOK(T, C, t)

\* The types of its parts.
Typed(T, C, lev) ==
    /\ T \in [Threads -> LuaState]
    /\ C \in Seq(Acts) /\ C # <<>>
    /\ lev \in [1..Len(C) -> Nat]

\* The inductive invariant: there are levels for the activations.
Good(T, C) == \E lev : Typed(T, C, lev) /\ Core(T, C, lev) /\ TopOK(T, C, lev)

\* The states of the interpreter.
Sts == [th : [Threads -> LuaState], cs : Seq(Acts), res : {"ok", "err", "errerr"}]

\* A set of positions has a last one.
LEMMA Greatest ==
    ASSUME NEW n \in Nat, NEW S \in SUBSET (1..n), S # {}
    PROVE  \E m \in S : \A k \in S : k <= m
<1> DEFINE R == {n - k : k \in S}
<1>1. R \in SUBSET Nat /\ R # {}
  <2>1. \A k \in S : n - k \in Nat
    OBVIOUS
  <2>2. R # {}
    <3>1. PICK k \in S : TRUE
      OBVIOUS
    <3>2. n - k \in R
      OBVIOUS
    <3>3. QED
      BY <3>2
  <2>3. QED
    BY <2>1, <2>2
<1>2. PICK r \in R : \A q \in R : r <= q
  BY <1>1, Least
<1>3. PICK m \in S : r = n - m
  BY <1>2
<1>4. ASSUME NEW k \in S PROVE k <= m
  <2>1. n - k \in R
    OBVIOUS
  <2>2. n - m <= n - k
    BY <1>2, <1>3, <2>1
  <2>3. QED
    BY <2>2
<1>5. QED
  BY <1>3, <1>4

\* Where an error in frame n finds its handler: the innermost protected call.
LEMMA HandlerIs ==
    ASSUME NEW c, NEW n \in Nat
    PROVE  /\ Handler(c, n) \in Nat
           /\ n = 0 => Handler(c, n) = 0
           /\ n >= 1 => Handler(c, n) = IF c[n].fn = "xpcall" THEN n
                                        ELSE IF c[n].fn \in Prot THEN 0 ELSE Handler(c, n - 1)
<1> DEFINE P(m) == {i \in 1..m : c[i].fn \in Prot}
           last(m) == CHOOSE i \in P(m) : \A j \in P(m) : j <= i
<1>1. ASSUME NEW m \in Nat, P(m) # {}
      PROVE  last(m) \in P(m) /\ \A j \in P(m) : j <= last(m)
  <2>1. \E x \in P(m) : \A k \in P(m) : k <= x
    BY <1>1, Greatest
  <2>2. QED
    BY <2>1
<1>2. \A m : Handler(c, m) = IF P(m) # {} /\ c[last(m)].fn = "xpcall" THEN last(m) ELSE 0
  BY DEF Handler
<1>3. Handler(c, n) \in Nat
  <2>1. CASE P(n) # {}
    <3>1. last(n) \in Nat
      BY <1>1, <2>1
    <3> HIDE DEF last, P
    <3>2. QED
      BY <1>2, <3>1
  <2>2. CASE P(n) = {}
    BY <1>2, <2>2
  <2>3. QED
    BY <2>1, <2>2
<1>4. n = 0 => Handler(c, n) = 0
  <2>1. n = 0 => P(n) = {}
    OBVIOUS
  <2>2. QED
    BY <1>2, <2>1
<1>5. ASSUME n >= 1, c[n].fn \in Prot PROVE Handler(c, n) = IF c[n].fn = "xpcall" THEN n ELSE 0
  <2>1. n \in P(n) /\ \A j \in P(n) : j <= n
    BY <1>5
  <2>2. last(n) \in P(n) /\ n <= last(n)
    BY <1>1, <2>1
  <2>3. last(n) = n
    BY <2>1, <2>2
  <2>4. QED
    BY <1>2, <2>1, <2>3
<1>6. ASSUME n >= 1, c[n].fn \notin Prot PROVE Handler(c, n) = Handler(c, n - 1)
  <2>1. P(n) = P(n - 1)
    BY <1>6
  <2>2. last(n) = last(n - 1)
    BY <2>1
  <2> HIDE DEF last, P
  <2>3. QED
    BY <1>2, <2>1, <2>2
<1>7. "xpcall" \in Prot
  BY DEF Prot
<1>8. QED
  BY <1>3, <1>4, <1>5, <1>6, <1>7, Zenon

\* It is a matter of the functions in the frames up to n.
LEMMA HandlerSame ==
    ASSUME NEW c, NEW d, NEW n \in Nat, \A i \in 1..n : c[i].fn = d[i].fn
    PROVE  Handler(c, n) = Handler(d, n)
<1> DEFINE P(e) == {i \in 1..n : e[i].fn \in Prot}
           last(e) == CHOOSE i \in P(e) : \A j \in P(e) : j <= i
<1>1. P(c) = P(d)
  OBVIOUS
<1>2. last(c) = last(d)
  BY <1>1
<1>3. P(c) # {} => last(c) \in 1..n
  <2>1. P(c) \in SUBSET (1..n)
    OBVIOUS
  <2>2. P(c) # {} => \E x \in P(c) : \A k \in P(c) : k <= x
    BY <2>1, Greatest
  <2>3. QED
    BY <2>1, <2>2
<1>4. \A e : Handler(e, n) = IF P(e) # {} /\ e[last(e)].fn = "xpcall" THEN last(e) ELSE 0
  BY DEF Handler
<1>5. P(c) # {} => c[last(c)].fn = d[last(c)].fn
  BY <1>3
<1> HIDE DEF P, last
<1>6. QED
  BY <1>1, <1>2, <1>4, <1>5

\* The counts are those of a finite set, and one activation adds one or none.
LEMMA NestedStep ==
    ASSUME NEW C, NEW n \in Nat
    PROVE  /\ Cardinality(Nested(C, n)) \in Nat
           /\ Cardinality(Nested(C, n + 1)) =
                 IF C[n + 1].f = "luaD_call" \/ IsRun(C[n + 1], "resume")
                 THEN Cardinality(Nested(C, n)) + 1 ELSE Cardinality(Nested(C, n))
<1> DEFINE x == n + 1
           in == C[x].f = "luaD_call" \/ IsRun(C[x], "resume")
<1>1. IsFiniteSet(Nested(C, n)) /\ x \notin Nested(C, n)
  <2>1. IsFiniteSet(1..n)
    BY FS_Interval
  <2>2. Nested(C, n) \subseteq 1..n
    BY DEF Nested
  <2>3. QED
    BY <2>1, <2>2, FS_Subset
<1>2. Nested(C, x) = IF in THEN Nested(C, n) \cup {x} ELSE Nested(C, n)
  <2>1. 1..x = (1..n) \cup {x}
    OBVIOUS
  <2>2. QED
    BY <2>1 DEF Nested
<1>3. QED
  BY <1>1, <1>2, FS_AddElement, FS_CardinalityType

\* So does the set of calls of one thread that may not be interrupted.
LEMMA CallsStep ==
    ASSUME NEW C, NEW n \in Nat, NEW t
    PROVE  /\ Cardinality(Calls(C, n, t)) \in Nat
           /\ Cardinality(Calls(C, n, t)) = 0 <=> Calls(C, n, t) = {}
           /\ Cardinality(Calls(C, n + 1, t)) =
                 IF C[n + 1].th = t /\ C[n + 1].f = "luaD_call" /\ ~C[n + 1].allowyield
                 THEN Cardinality(Calls(C, n, t)) + 1 ELSE Cardinality(Calls(C, n, t))
           /\ Calls(C, n + 1, t) =
                 IF C[n + 1].th = t /\ C[n + 1].f = "luaD_call" /\ ~C[n + 1].allowyield
                 THEN Calls(C, n, t) \cup {n + 1} ELSE Calls(C, n, t)
<1> DEFINE x == n + 1
           in == C[x].th = t /\ C[x].f = "luaD_call" /\ ~C[x].allowyield
<1>1. IsFiniteSet(Calls(C, n, t)) /\ x \notin Calls(C, n, t)
  <2>1. IsFiniteSet(1..n)
    BY FS_Interval
  <2>2. Calls(C, n, t) \subseteq 1..n
    BY DEF Calls
  <2>3. QED
    BY <2>1, <2>2, FS_Subset
<1>2. Calls(C, x, t) = IF in THEN Calls(C, n, t) \cup {x} ELSE Calls(C, n, t)
  <2>1. 1..x = (1..n) \cup {x}
    OBVIOUS
  <2>2. QED
    BY <2>1 DEF Calls
<1>3. Cardinality(Calls(C, n, t)) = 0 <=> Calls(C, n, t) = {}
  BY <1>1, FS_EmptySet
<1>4. QED
  BY <1>1, <1>2, <1>3, FS_AddElement, FS_CardinalityType

\* Two activations that differ at most in what they will do next.
Alike(a, b) == a = b \/ (a.f = b.f /\ a.th = b.th /\ a.f \in {"C", "unroll"})

\* They are of the same thread and the same kind.
LEMMA AlikeFacts ==
    ASSUME NEW a, NEW b, Alike(a, b)
    PROVE  /\ a.f = b.f /\ a.th = b.th
           /\ \A of : IsRun(a, of) = IsRun(b, of)
           /\ a.f \notin {"C", "unroll"} => a = b
<1>1. CASE a = b
  BY <1>1
<1>2. CASE a # b
  <2>1. a.f = b.f /\ a.th = b.th /\ a.f \in {"C", "unroll"}
    BY <1>2 DEF Alike
  <2>2. a.f # "run" /\ b.f # "run"
    BY <2>1
  <2>3. QED
    BY <2>1, <2>2 DEF IsRun
<1>3. QED
  BY <1>1, <1>2

\* Both look at the activations up to n only.
LEMMA CountsSame ==
    ASSUME NEW C, NEW D, NEW n \in Nat, \A i \in 1..n : Alike(C[i], D[i])
    PROVE  Nested(C, n) = Nested(D, n) /\ \A t : Calls(C, n, t) = Calls(D, n, t)
<1>1. ASSUME NEW i \in 1..n
      PROVE  /\ C[i].f = D[i].f /\ C[i].th = D[i].th /\ IsRun(C[i], "resume") = IsRun(D[i], "resume")
             /\ C[i].f = "luaD_call" => C[i] = D[i]
  BY AlikeFacts, <1>1
<1>2. QED
  BY <1>1 DEF Nested, Calls

\* Any other activation counts for nothing.
LEMMA CountsKept ==
    ASSUME NEW C, NEW n \in Nat, C[n + 1].f # "luaD_call", ~IsRun(C[n + 1], "resume")
    PROVE  Nested(C, n + 1) = Nested(C, n) /\ \A t : Calls(C, n + 1, t) = Calls(C, n, t)
<1>1. \A i : i \in 1..(n + 1) <=> i \in 1..n \/ i = n + 1
  OBVIOUS
<1>2. QED
  BY <1>1 DEF Nested, Calls

\* The kinds of activations, told apart by the function.
LEMMA ActFields ==
    ASSUME NEW a \in Acts
    PROVE  /\ a.th \in Threads
           /\ a.f = "C" => a \in CAct
           /\ a.f = "luaV_execute" => a \in ExecAct
           /\ a.f = "luaD_call" => a \in CallAct
           /\ a.f = "luaG_errormsg" => a \in MsgAct
           /\ a.f = "run" => a \in RunAct
           /\ a.f = "unroll" => a \in UnrollAct
           /\ a.f \in {"C", "luaV_execute", "luaD_call", "luaG_errormsg", "run", "unroll"}
<1>1. CASE a \in CAct
  BY <1>1 DEF CAct
<1>2. CASE a \in ExecAct
  BY <1>2 DEF ExecAct
<1>3. CASE a \in CallAct
  BY <1>3 DEF CallAct
<1>4. CASE a \in MsgAct
  BY <1>4 DEF MsgAct
<1>5. CASE a \in RunAct
  BY <1>5 DEF RunAct
<1>6. CASE a \in UnrollAct
  BY <1>6 DEF UnrollAct
<1>7. QED
  BY <1>1, <1>2, <1>3, <1>4, <1>5, <1>6 DEF Acts

\* The fields of lua_State.
LEMMA StateFields ==
    ASSUME NEW s \in LuaState
    PROVE  /\ s.ci \in Seq(Info) /\ Len(s.ci) \in Nat /\ \A i \in 1..Len(s.ci) : s.ci[i] \in Info
           /\ s.status \in {"ok", "yield", "err", "errerr"} /\ s.fresh \in BOOLEAN
           /\ s.nny \in Nat /\ s.nCcalls \in Nat /\ s.errfunc \in Nat
<1>1. /\ s.ci \in Seq(Info)
      /\ s.status \in {"ok", "yield", "err", "errerr"} /\ s.fresh \in BOOLEAN
      /\ s.nny \in Nat /\ s.nCcalls \in Nat /\ s.errfunc \in Nat
  BY DEF LuaState
<1>2. QED
  BY <1>1

\* Activation i stands on the same frames and the same activations below it;
\* the frame of a C function and what it will do next may differ.
PosSame(T, C, lev, T2, C2, lev2, i) ==
    /\ i \in Nat \ {0} /\ lev[i] \in Nat /\ lev2[i] = lev[i]
    /\ \A j \in 1..i : Alike(C2[j], C[j])
    /\ lev[i] <= Len(T2[C[i].th].ci)
    /\ \A j \in 1..lev[i] : (C[i].f = "C" /\ j = lev[i]) \/ T2[C[i].th].ci[j] = T[C[i].th].ci[j]

\* The same for two neighbours.
AdjSame(T, C, lev, T2, C2, lev2, i) ==
    /\ i \in Nat \ {0} /\ lev[i] \in Nat /\ lev2[i] = lev[i]
    /\ lev[i + 1] \in Nat /\ lev2[i + 1] = lev[i + 1]
    /\ \A j \in 1..(i + 1) : Alike(C2[j], C[j])
    /\ C[i].f = "unroll" => C2[i] = C[i]
    /\ IsRun(C[i + 1], "resume") => T2[C[i].th] = T[C[i].th]
    /\ \/ C[i + 1].f = "C" \/ IsRun(C[i + 1], "resume")
       \/ \A j \in 1..(IF lev[i] <= lev[i + 1] THEN lev[i + 1] ELSE lev[i]) :
             T2[C[i].th].ci[j] = T[C[i].th].ci[j]
    /\ C[i].f = "C" => lev[i] >= 1

\* What is said of an activation stays true while those below it and the
\* frames it stands on are the same.
LEMMA PosFrame ==
    ASSUME NEW T, NEW C, NEW lev, NEW T2, NEW C2, NEW lev2, NEW i,
           PosSame(T, C, lev, T2, C2, lev2, i), Pos(T, C, lev, i)
    PROVE  Pos(T2, C2, lev2, i)
<1> i \in Nat \ {0}
  BY Zenon DEF PosSame
<1>0. /\ lev[i] \in Nat /\ lev2[i] = lev[i]
      /\ \A j \in 1..i : Alike(C2[j], C[j])
      /\ lev[i] <= Len(T2[C[i].th].ci)
      /\ \A j \in 1..lev[i] : (C[i].f = "C" /\ j = lev[i]) \/ T2[C[i].th].ci[j] = T[C[i].th].ci[j]
  BY Zenon DEF PosSame
<1> DEFINE a == C[i]
           n == lev[i]
           c == T[a.th].ci
           c2 == T2[a.th].ci
           b == C2[i]
<1>1. lev2[i] = n /\ Alike(b, a)
  BY <1>0
<1>1a. b.f = a.f /\ b.th = a.th /\ (a.f \notin {"C", "unroll"} => b = a)
  <2> HIDE DEF a, b
  <2>1. QED
    BY <1>1, AlikeFacts
<1>1b. \A of : IsRun(b, of) = IsRun(a, of)
  <2> HIDE DEF a, b
  <2>1. QED
    BY <1>1, AlikeFacts
<1>2. Nested(C2, i) = Nested(C, i) /\ Calls(C2, i, a.th) = Calls(C, i, a.th)
  <2>1. i \in Nat /\ \A j \in 1..i : Alike(C2[j], C[j])
    BY <1>0
  <2> HIDE DEF a
  <2>2. Nested(C2, i) = Nested(C, i) /\ \A u : Calls(C2, i, u) = Calls(C, i, u)
    BY <2>1, CountsSame
  <2>3. QED
    BY <2>2
<1>3. n >= 1 /\ a.f # "C" => c2[n] = c[n]
  BY <1>0
<1>4. n >= 1 => Handler(c2, n - 1) = Handler(c, n - 1)
  <2>1. SUFFICES ASSUME n >= 1 PROVE Handler(c2, n - 1) = Handler(c, n - 1)
    OBVIOUS
  <2>1a. n \in Nat /\ \A j \in 1..(n - 1) : c2[j] = c[j]
    BY <1>0
  <2> HIDE DEF n, c, c2
  <2>2. n - 1 \in Nat /\ \A j \in 1..(n - 1) : c2[j].fn = c[j].fn
    BY <2>1, <2>1a
  <2>3. QED
    BY <2>2, HandlerSame
<1>5. \A j \in 1..(n - 1) : c2[j] = c[j]
  BY <1>0
<1>6. \A j \in 1..i : C2[j].th = C[j].th /\ IsRun(C2[j], "pcall") = IsRun(C[j], "pcall")
  BY <1>0, AlikeFacts
<1>7. /\ n <= Len(c2)
      /\ a.f = "C" => n >= 1
      /\ a.f = "luaV_execute" => n >= 1 /\ IsLua(c[n].fn)
      /\ IsRun(a, "pcall") => /\ n >= 1 /\ c[n].fn \in Prot /\ a.ci = n
                              /\ a.errfunc = Handler(c, n - 1)
                              /\ a.nny = Cardinality(Calls(C, i, a.th)) + One(a.th = MainThread)
      /\ IsRun(a, "resume") => a.th # MainThread /\ n = 0 /\ a.nny = 1
      /\ a.f = "run" => a.nCcalls = Cardinality(Nested(C, i))
      /\ a.f = "unroll" => n = 0 /\ a.th # MainThread
      /\ a.th = MainThread \/ Calls(C, i, a.th) # {} \/ \A j \in 1..(n - 1) : Soft(c[j])
      /\ a.f \in {"C", "luaV_execute"} =>
            a.th = MainThread \/ Calls(C, i, a.th) # {} \/ \A j \in 1..i : C[j].th = a.th => ~IsRun(C[j], "pcall")
  BY <1>0, Zenon DEF Pos
<1> HIDE DEF a, b, n, c, c2
<1>7a. IsRun(b, "pcall") \/ IsRun(b, "resume") \/ b.f = "run" => b = a /\ a.f # "C"
  BY <1>1a DEF IsRun
<1>8. /\ n <= Len(c2)
      /\ b.f = "C" => n >= 1
      /\ b.f = "luaV_execute" => n >= 1 /\ IsLua(c2[n].fn)
      /\ IsRun(b, "pcall") => /\ n >= 1 /\ c2[n].fn \in Prot /\ b.ci = n
                              /\ b.errfunc = Handler(c2, n - 1)
                              /\ b.nny = Cardinality(Calls(C2, i, b.th)) + One(b.th = MainThread)
      /\ IsRun(b, "resume") => b.th # MainThread /\ n = 0 /\ b.nny = 1
      /\ b.f = "run" => b.nCcalls = Cardinality(Nested(C2, i))
      /\ b.f = "unroll" => n = 0 /\ b.th # MainThread
      /\ b.th = MainThread \/ Calls(C2, i, b.th) # {} \/ \A j \in 1..(n - 1) : Soft(c2[j])
      /\ b.f \in {"C", "luaV_execute"} =>
            b.th = MainThread \/ Calls(C2, i, b.th) # {} \/ \A j \in 1..i : C2[j].th = b.th => ~IsRun(C2[j], "pcall")
  <2>1. (\A j \in 1..(n - 1) : Soft(c[j])) => \A j \in 1..(n - 1) : Soft(c2[j])
    BY <1>5
  <2>2. (\A j \in 1..i : C[j].th = a.th => ~IsRun(C[j], "pcall")) =>
            \A j \in 1..i : C2[j].th = a.th => ~IsRun(C2[j], "pcall")
    BY <1>6
  <2>3. QED
    <3>1. n <= Len(c2)
          /\ (b.f = "C" => n >= 1)
          /\ (b.f = "luaV_execute" => n >= 1 /\ IsLua(c2[n].fn))
          /\ (b.f = "unroll" => n = 0 /\ b.th # MainThread)
          /\ (b.th = MainThread \/ Calls(C2, i, b.th) # {} \/ \A j \in 1..(n - 1) : Soft(c2[j]))
          /\ (b.f \in {"C", "luaV_execute"} =>
                 b.th = MainThread \/ Calls(C2, i, b.th) # {} \/ \A j \in 1..i : C2[j].th = b.th => ~IsRun(C2[j], "pcall"))
      BY <1>1a, <1>2, <1>3, <1>7, <2>1, <2>2
    <3>2. (IsRun(b, "resume") => b.th # MainThread /\ n = 0 /\ b.nny = 1)
          /\ (b.f = "run" => b.nCcalls = Cardinality(Nested(C2, i)))
      BY <1>1b, <1>2, <1>7, <1>7a
    <3>3. IsRun(b, "pcall") => /\ n >= 1 /\ c2[n].fn \in Prot /\ b.ci = n
                               /\ b.errfunc = Handler(c2, n - 1)
                               /\ b.nny = Cardinality(Calls(C2, i, b.th)) + One(b.th = MainThread)
      BY <1>1b, <1>2, <1>3, <1>4, <1>7, <1>7a
    <3>4. QED
      BY <3>1, <3>2, <3>3, Zenon
<1>9. QED
  <2>1. C2[i] = b /\ lev2[i] = n /\ T2[b.th].ci = c2
    BY <1>1, <1>1a DEF b, c2
  <2>2. QED
    BY <1>8, <2>1, Zenon DEF Pos

\* So does what is said of two neighbours.
LEMMA AdjFrame ==
    ASSUME NEW T, NEW C, NEW lev, NEW T2, NEW C2, NEW lev2, NEW i,
           AdjSame(T, C, lev, T2, C2, lev2, i), Adj(T, C, lev, i)
    PROVE  Adj(T2, C2, lev2, i)
<1> i \in Nat \ {0}
  BY Zenon DEF AdjSame
<1>0. /\ lev[i] \in Nat /\ lev2[i] = lev[i]
      /\ lev[i + 1] \in Nat /\ lev2[i + 1] = lev[i + 1]
      /\ \A j \in 1..(i + 1) : Alike(C2[j], C[j])
      /\ C[i].f = "unroll" => C2[i] = C[i]
      /\ IsRun(C[i + 1], "resume") => T2[C[i].th] = T[C[i].th]
      /\ \/ C[i + 1].f = "C" \/ IsRun(C[i + 1], "resume")
         \/ \A j \in 1..(IF lev[i] <= lev[i + 1] THEN lev[i + 1] ELSE lev[i]) :
               T2[C[i].th].ci[j] = T[C[i].th].ci[j]
      /\ C[i].f = "C" => lev[i] >= 1
  BY Zenon DEF AdjSame
<1> DEFINE a == C[i]
           b == C[i + 1]
           n == lev[i]
           m == lev[i + 1]
           s == T[a.th]
           s2 == T2[a.th]
           c == s.ci
           c2 == s2.ci
           a2 == C2[i]
           b2 == C2[i + 1]
<1>1. Alike(a2, a) /\ Alike(b2, b) /\ lev2[i] = n /\ lev2[i + 1] = m
      /\ (a.f = "unroll" => a2 = a)
  BY <1>0
<1>1a. /\ a2.f = a.f /\ a2.th = a.th /\ b2.f = b.f /\ b2.th = b.th
       /\ \A of : IsRun(a2, of) = IsRun(a, of) /\ IsRun(b2, of) = IsRun(b, of)
  <2> HIDE DEF a, b, a2, b2
  <2>1. QED
    BY <1>1, AlikeFacts
<1>2. Nested(C2, i) = Nested(C, i)
  <2>1. \A j \in 1..i : Alike(C2[j], C[j])
    BY <1>0
  <2>2. QED
    BY <2>1, CountsSame
<1>3. ~IsRun(b, "resume") /\ b.f # "C" => \A j \in 1..(IF n <= m THEN m ELSE n) : c2[j] = c[j]
  BY <1>0
<1>3a. IsRun(b, "resume") => s2 = s
  BY <1>0
<1>3b. n \in Nat /\ m \in Nat /\ (a.f = "C" => n >= 1)
  BY <1>0
<1>4. /\ IsRun(b, "resume") => /\ a.f = "C" /\ n = Len(c) /\ c[n].fn \notin Prot
                               /\ s.nCcalls = Cardinality(Nested(C, i))
                               /\ s.errfunc = Handler(c, n)
      /\ ~IsRun(b, "resume") => a.th = b.th
      /\ b.f = "C" => m = n + 1 /\ (a.f \in {"luaD_call", "luaV_execute"} \/ IsRun(a, "resume"))
      /\ b.f = "luaV_execute" =>
            /\ a.f \in {"luaD_call", "unroll"} \/ IsRun(a, "resume")
            /\ a.f # "unroll" => n < m /\ ~c[n + 1].reentry /\ \A j \in (n + 2)..m : c[j].reentry
      /\ b.f = "luaD_call" => /\ m = n /\ (a.f \in {"C", "luaG_errormsg"} \/ IsRun(a, "pcall"))
                              /\ a.f = "C" /\ c[n].fn \in Prot => c[n].ypcall
      /\ b.f = "luaG_errormsg" => m = n /\ a.f \in {"C", "luaV_execute", "luaD_call"}
      /\ IsRun(b, "pcall") => m = n /\ a.f = "C"
      /\ b.f = "unroll" => IsRun(a, "resume")
      /\ IsRun(a, "pcall") => b.f = "luaD_call"
      /\ a.f = "unroll" => a.ud = "yield" /\ b.f = "luaV_execute"
  BY Zenon DEF Adj
<1> HIDE DEF a, b, a2, b2, n, m, c, c2, s, s2
<1>5. c = s.ci /\ c2 = s2.ci
  BY DEF c, c2
<1>6. /\ IsRun(b, "resume") => /\ a.f = "C" /\ n = Len(c2) /\ c2[n].fn \notin Prot
                                 /\ s2.nCcalls = Cardinality(Nested(C, i))
                                 /\ s2.errfunc = Handler(c2, n)
  BY <1>3a, <1>4, <1>5
<1>7. b.f = "luaV_execute" /\ a.f # "unroll" =>
           n < m /\ ~c2[n + 1].reentry /\ \A j \in (n + 2)..m : c2[j].reentry
  <2>1. SUFFICES ASSUME b.f = "luaV_execute", a.f # "unroll"
                 PROVE n < m /\ ~c2[n + 1].reentry /\ \A j \in (n + 2)..m : c2[j].reentry
    BY <1>0
  <2>2. ~IsRun(b, "resume") /\ b.f # "C"
    BY <2>1 DEF IsRun
  <2>3. \A j \in 1..m : c2[j] = c[j]
    BY <1>3, <1>3b, <1>4, <2>1, <2>2
  <2>4. QED
    BY <1>3b, <1>4, <2>1, <2>3
<1>8. b.f = "luaD_call" /\ a.f = "C" /\ c2[n].fn \in Prot => c2[n].ypcall
  <2>1. SUFFICES ASSUME b.f = "luaD_call", a.f = "C", c2[n].fn \in Prot PROVE c2[n].ypcall
    OBVIOUS
  <2>2. ~IsRun(b, "resume") /\ b.f # "C"
    BY <2>1 DEF IsRun
  <2>3. c2[n] = c[n]
    BY <1>3, <1>3b, <1>4, <2>1, <2>2
  <2>4. c[n].fn \in Prot => c[n].ypcall
    BY <1>4, <2>1, Zenon
  <2>5. QED
    BY <2>1, <2>3, <2>4
<1>9. QED
  <2>1. C2[i] = a2 /\ C2[i + 1] = b2 /\ lev2[i] = n /\ lev2[i + 1] = m
        /\ Nested(C2, i) = Nested(C, i) /\ T2[a2.th] = s2 /\ s2.ci = c2
    BY <1>1, <1>1a, <1>2, <1>5 DEF s2, a2, b2
  <2>2. /\ IsRun(b2, "resume") => /\ a2.f = "C" /\ n = Len(c2) /\ c2[n].fn \notin Prot
                                  /\ s2.nCcalls = Cardinality(Nested(C, i))
                                  /\ s2.errfunc = Handler(c2, n)
        /\ ~IsRun(b2, "resume") => a2.th = b2.th
        /\ b2.f = "C" => m = n + 1 /\ (a2.f \in {"luaD_call", "luaV_execute"} \/ IsRun(a2, "resume"))
        /\ b2.f = "luaV_execute" =>
              /\ a2.f \in {"luaD_call", "unroll"} \/ IsRun(a2, "resume")
              /\ a2.f # "unroll" => n < m /\ ~c2[n + 1].reentry /\ \A j \in (n + 2)..m : c2[j].reentry
        /\ b2.f = "luaD_call" => /\ m = n /\ (a2.f \in {"C", "luaG_errormsg"} \/ IsRun(a2, "pcall"))
                                 /\ a2.f = "C" /\ c2[n].fn \in Prot => c2[n].ypcall
        /\ b2.f = "luaG_errormsg" => m = n /\ a2.f \in {"C", "luaV_execute", "luaD_call"}
        /\ IsRun(b2, "pcall") => m = n /\ a2.f = "C"
        /\ b2.f = "unroll" => IsRun(a2, "resume")
        /\ IsRun(a2, "pcall") => b2.f = "luaD_call"
    BY <1>1a, <1>4, <1>6, <1>7, <1>8
  <2>3. a2.f = "unroll" => a2.ud = "yield" /\ b2.f = "luaV_execute"
    BY <1>1, <1>1a, <1>4
  <2>4. QED
    BY <2>1, <2>2, <2>3, Zenon DEF Adj

\* The activations up to K are as they were, and one of the running thread t,
\* whose frames below them are too, comes next and last.
Rebuilds(T, C, lev, T2, C2, lev2, K) ==
    LET t == C[Len(C)].th
    IN  /\ K \in 0..Len(C) /\ Len(C2) = K + 1
        /\ \A u \in Threads \ {t} : T2[u] = T[u]
        /\ \A i \in 1..K : C2[i] = C[i] /\ lev2[i] = lev[i]
        /\ \A i \in 1..K : C[i].th = t =>
              /\ lev[i] <= Len(T2[t].ci) /\ lev[i] <= lev2[K + 1]
              /\ ~IsRun(C2[K + 1], "resume")
              /\ \A j \in 1..lev[i] : T2[t].ci[j] = T[t].ci[j]
        /\ \A i \in (K + 1)..Len(C) : C[i].th = t
        /\ C2[K + 1].th = t

\* What has to hold of that one.
NewTop(T, C, lev, m) ==
    LET t == C[m].th
    IN  /\ Pos(T, C, lev, m)
        /\ m > 1 => /\ Adj(T, C, lev, m - 1)
                    /\ \E j \in 2..m : C[j].f = "run" /\ C[j].th = t
        /\ m = 1 => Bottom(T, C, lev)
        /\ CiOK(T[t].ci) /\ T[t].status = "ok"
        /\ T[t].nny = Cardinality(Calls(C, m, t)) + One(t = MainThread)

\* What Typed says of the parts of the state.
LEMMA TypedFacts ==
    ASSUME NEW T, NEW C, NEW lev, Typed(T, C, lev)
    PROVE  /\ T \in [Threads -> LuaState] /\ C \in Seq(Acts) /\ C # <<>>
           /\ Len(C) \in Nat \ {0}
           /\ \A i \in 1..Len(C) : /\ C[i] \in Acts /\ lev[i] \in Nat
                                   /\ C[i].th \in Threads
           /\ \A u \in Threads : /\ T[u] \in LuaState
                                 /\ Len(T[u].ci) \in Nat
<1>1. T \in [Threads -> LuaState] /\ C \in Seq(Acts) /\ C # <<>> /\ lev \in [1..Len(C) -> Nat]
  BY DEF Typed
<1>2. Len(C) \in Nat \ {0} /\ \A i \in 1..Len(C) : C[i] \in Acts
  BY <1>1
<1>3. \A i \in 1..Len(C) : lev[i] \in Nat /\ C[i].th \in Threads
  BY <1>1, <1>2, ActFields
<1>4. \A u \in Threads : T[u] \in LuaState
  BY <1>1
<1>5. \A u \in Threads : Len(T[u].ci) \in Nat
  BY <1>4, StateFields
<1>6. QED
  BY <1>1, <1>2, <1>3, <1>4, <1>5

\* Then the invariant of all the activations is kept.
LEMMA Rebuild ==
    ASSUME NEW T, NEW C, NEW lev, NEW T2, NEW C2, NEW lev2, NEW K,
           Typed(T, C, lev), Core(T, C, lev), Typed(T2, C2, lev2),
           Rebuilds(T, C, lev, T2, C2, lev2, K),
           NewTop(T2, C2, lev2, K + 1)
    PROVE  Core(T2, C2, lev2)
<1>00. K \in Nat
  <2>1. Len(C) \in Nat
    BY TypedFacts
  <2>2. K \in 0..Len(C)
    BY Zenon DEF Rebuilds
  <2>3. QED
    BY <2>1, <2>2
<1>0. /\ Pos(T2, C2, lev2, K + 1)
      /\ K + 1 > 1 => /\ Adj(T2, C2, lev2, K + 1 - 1)
                      /\ \E j \in 2..(K + 1) : C2[j].f = "run" /\ C2[j].th = C2[K + 1].th
      /\ K + 1 = 1 => Bottom(T2, C2, lev2)
      /\ CiOK(T2[C2[K + 1].th].ci) /\ T2[C2[K + 1].th].status = "ok"
      /\ T2[C2[K + 1].th].nny = Cardinality(Calls(C2, K + 1, C2[K + 1].th))
                                + One(C2[K + 1].th = MainThread)
  BY <1>00 DEF NewTop
<1> DEFINE L == Len(C)
           t == C[L].th
<1>1. /\ K \in 0..L /\ Len(C2) = K + 1
      /\ \A u \in Threads \ {t} : T2[u] = T[u]
      /\ \A i \in 1..K : C2[i] = C[i] /\ lev2[i] = lev[i]
      /\ \A i \in 1..K : C[i].th = t =>
              /\ lev[i] <= Len(T2[t].ci) /\ lev[i] <= lev2[K + 1]
              /\ ~IsRun(C2[K + 1], "resume")
              /\ \A j \in 1..lev[i] : T2[t].ci[j] = T[t].ci[j]
      /\ \A i \in (K + 1)..L : C[i].th = t
      /\ C2[K + 1].th = t
  BY DEF Rebuilds
<1>2. /\ L \in Nat \ {0} /\ \A i \in 1..L : lev[i] \in Nat /\ C[i].th \in Threads
      /\ \A u \in Threads : Len(T[u].ci) \in Nat
  BY TypedFacts
<1>2a. t \in Threads
  BY <1>2
<1>3. /\ \A i \in 1..L : Pos(T, C, lev, i)
      /\ \A i \in 1..(L - 1) : Adj(T, C, lev, i)
      /\ Order(C, lev) /\ Protected(C) /\ Bottom(T, C, lev)
      /\ \A u \in Threads : ThOK(T, C, u)
  BY DEF Core
<1> HIDE DEF L, t
<1>4. \A i, j \in 1..L : i < j /\ C[i].th = C[j].th =>
            /\ lev[i] <= lev[j] /\ ~IsRun(C[j], "resume")
            /\ \A l \in i..j : C[l].th = C[i].th
  BY <1>3 DEF Order, L
<1>5. ASSUME NEW i \in 1..K PROVE Pos(T2, C2, lev2, i)
  <2>1. i \in 1..L /\ i \in Nat \ {0} /\ lev[i] \in Nat /\ lev2[i] = lev[i] /\ Pos(T, C, lev, i)
    BY <1>1, <1>2, <1>3
  <2>2. \A j \in 1..i : Alike(C2[j], C[j])
    BY <1>1, <1>2 DEF Alike
  <2>3. lev[i] <= Len(T2[C[i].th].ci) /\ \A j \in 1..lev[i] : T2[C[i].th].ci[j] = T[C[i].th].ci[j]
    <3>1. CASE C[i].th = t
      BY <1>1, <3>1
    <3>2. CASE C[i].th # t
      <4>1. T2[C[i].th] = T[C[i].th]
        BY <1>1, <1>2, <2>1, <3>2
      <4>2. lev[i] <= Len(T[C[i].th].ci)
        BY <2>1, Zenon DEF Pos
      <4>3. QED
        BY <4>1, <4>2
    <3>3. QED
      BY <3>1, <3>2
  <2>4. PosSame(T, C, lev, T2, C2, lev2, i)
    BY <2>1, <2>2, <2>3 DEF PosSame
  <2>5. QED
    BY <2>1, <2>4, PosFrame
<1>6. ASSUME NEW i \in 1..(K - 1) PROVE Adj(T2, C2, lev2, i)
  <2>1. /\ i \in 1..L /\ i + 1 \in 1..L /\ i + 1 \in 1..K /\ i \in Nat \ {0} /\ i < L /\ L \in 1..L
        /\ lev[i] \in Nat /\ lev2[i] = lev[i]
        /\ lev[i + 1] \in Nat /\ lev2[i + 1] = lev[i + 1] /\ Adj(T, C, lev, i) /\ Pos(T, C, lev, i)
    BY <1>1, <1>2, <1>3
  <2>2. (\A j \in 1..(i + 1) : Alike(C2[j], C[j])) /\ (C[i].f = "unroll" => C2[i] = C[i])
    BY <1>1, <1>2 DEF Alike
  <2>3. IsRun(C[i + 1], "resume") => T2[C[i].th] = T[C[i].th]
    <3>1. CASE C[i].th = t
      <4>1. \A l \in i..L : C[l].th = C[i].th
        BY <1>4, <2>1, <3>1 DEF t
      <4>2. C[i].th = C[i + 1].th
        BY <4>1, <2>1
      <4>3. ~IsRun(C[i + 1], "resume")
        BY <1>4, <2>1, <4>2
      <4>4. QED
        BY <4>3
    <3>2. CASE C[i].th # t
      BY <1>1, <1>2, <2>1, <3>2
    <3>3. QED
      BY <3>1, <3>2
  <2>4. ~IsRun(C[i + 1], "resume") =>
              \A j \in 1..(IF lev[i] <= lev[i + 1] THEN lev[i + 1] ELSE lev[i]) :
                 T2[C[i].th].ci[j] = T[C[i].th].ci[j]
    <3>1. CASE C[i].th = t
      <4>1. SUFFICES ASSUME ~IsRun(C[i + 1], "resume")
                     PROVE \A j \in 1..(IF lev[i] <= lev[i + 1] THEN lev[i + 1] ELSE lev[i]) :
                              T2[t].ci[j] = T[t].ci[j]
        BY <3>1
      <4>2. C[i].th = C[i + 1].th
        BY <2>1, <4>1, Zenon DEF Adj
      <4>3. (\A j \in 1..lev[i] : T2[t].ci[j] = T[t].ci[j])
            /\ (\A j \in 1..lev[i + 1] : T2[t].ci[j] = T[t].ci[j])
        BY <1>1, <2>1, <3>1, <4>2
      <4>4. QED
        BY <4>3
    <3>2. CASE C[i].th # t
      BY <1>1, <1>2, <2>1, <3>2
    <3>3. QED
      BY <3>1, <3>2
  <2>5. C[i].f = "C" => lev[i] >= 1
    BY <2>1, Zenon DEF Pos
  <2>6. AdjSame(T, C, lev, T2, C2, lev2, i)
    BY <2>1, <2>2, <2>3, <2>4, <2>5 DEF AdjSame
  <2>7. QED
    BY <2>1, <2>6, AdjFrame
<1>7. Order(C2, lev2)
  <2>1. SUFFICES ASSUME NEW i \in 1..(K + 1), NEW j \in 1..(K + 1), i < j, C2[i].th = C2[j].th
                 PROVE  /\ lev2[i] <= lev2[j] /\ ~IsRun(C2[j], "resume")
                        /\ \A l \in i..j : C2[l].th = C2[i].th
    BY <1>1 DEF Order
  <2>2. i \in 1..K /\ i \in 1..L /\ C2[i] = C[i] /\ lev2[i] = lev[i]
    BY <1>1, <1>2, <2>1
  <2>3. CASE j \in 1..K
    <3>1. j \in 1..L /\ C2[j] = C[j] /\ lev2[j] = lev[j] /\ \A l \in i..j : C2[l] = C[l]
      BY <1>1, <1>2, <2>3
    <3>2. QED
      BY <1>4, <2>1, <2>2, <3>1
  <2>4. CASE j = K + 1
    <3>1. C[i].th = t /\ C2[j].th = t
      BY <1>1, <2>1, <2>2, <2>4
    <3>2. lev2[i] <= lev2[j] /\ ~IsRun(C2[j], "resume")
      BY <1>1, <2>2, <2>4, <3>1
    <3>3. ASSUME NEW l \in i..j PROVE C2[l].th = t
      <4>1. CASE l = K + 1
        BY <1>1, <4>1
      <4>2. CASE l # K + 1
        <5>1. l \in 1..K /\ l \in i..L /\ C2[l] = C[l] /\ L \in 1..L
          BY <1>1, <1>2, <2>1, <2>4, <4>2
        <5>2. CASE i = L
          BY <5>1, <5>2, <3>1
        <5>3. CASE i # L
          <6>1. i < L
            BY <1>2, <2>2, <5>3
          <6>2. \A x \in i..L : C[x].th = C[i].th
            BY <1>4, <2>2, <5>1, <6>1, <3>1 DEF t
          <6>3. QED
            BY <5>1, <6>2, <3>1
        <5>4. QED
          BY <5>2, <5>3
      <4>3. QED
        BY <4>1, <4>2
    <3>4. QED
      BY <3>1, <3>2, <3>3, <2>2
  <2>5. QED
    BY <2>3, <2>4, <1>1
<1>8. Protected(C2)
  <2>1. SUFFICES ASSUME NEW i \in 2..(K + 1)
                 PROVE  \E j \in 2..i : C2[j].f = "run" /\ C2[j].th = C2[i].th
    BY <1>1 DEF Protected
  <2>2. CASE i = K + 1
    <3>1. K >= 1
      BY <1>1, <1>2, <2>1, <2>2
    <3>2. QED
      BY <1>0, <2>2, <3>1
  <2>3. CASE i # K + 1
    <3>1. i \in 2..L /\ i \in 1..K
      BY <1>1, <1>2, <2>3
    <3>2. PICK j \in 2..i : C[j].f = "run" /\ C[j].th = C[i].th
      BY <1>3, <3>1 DEF Protected, L
    <3>3. j \in 1..K
      BY <1>1, <1>2, <3>1
    <3>4. QED
      BY <1>1, <3>1, <3>2, <3>3
  <2>4. QED
    BY <2>2, <2>3
<1>9. Bottom(T2, C2, lev2)
  <2>1. CASE K = 0
    BY <1>0, <2>1
  <2>2. CASE K # 0
    <3>1. 1 \in 1..K
      BY <1>1, <1>2, <2>2
    <3>2. C2[1] = C[1] /\ lev2[1] = lev[1]
      BY <1>1, <3>1
    <3>3. C[1].f = "C" /\ C[1].th = MainThread /\ lev[1] = 1 /\ T[MainThread].ci[1].fn = "host"
      BY <1>3 DEF Bottom
    <3>4. T2[MainThread].ci[1] = T[MainThread].ci[1]
      <4>1. CASE MainThread = t
        BY <1>1, <3>1, <3>3, <4>1
      <4>2. CASE MainThread # t
        BY <1>1, <4>2 DEF Threads
      <4>3. QED
        BY <4>1, <4>2
    <3>5. QED
      BY <3>2, <3>3, <3>4 DEF Bottom
  <2>3. QED
    BY <2>1, <2>2
<1>10. ASSUME NEW u \in Threads PROVE ThOK(T2, C2, u)
  <2>1. CASE u = t
    <3>1. t \in ActiveIn(C2)
      <4>1. K + 1 \in 1..Len(C2)
        BY <1>1, <1>2
      <4>2. QED
        BY <1>1, <4>1, Zenon DEF ActiveIn
    <3>2. C2[K + 1].th = t /\ Len(C2) = K + 1
      BY <1>1
    <3>3. CiOK(T2[t].ci) /\ T2[t].status = "ok"
          /\ T2[t].nny = Cardinality(Calls(C2, Len(C2), t)) + One(t = MainThread)
      BY <1>0, <3>2
    <3>4. QED
      BY <2>1, <3>1, <3>3, Zenon DEF ThOK
  <2>2. CASE u # t
    <3>1. T2[u] = T[u] /\ ThOK(T, C, u)
      BY <1>1, <1>3, <2>2
    <3>2. u \in ActiveIn(C2) <=> u \in ActiveIn(C)
      <4>1. u \in ActiveIn(C2) <=> \E i \in 1..K : C[i].th = u
        <5>1. u \in ActiveIn(C2) <=> \E i \in 1..(K + 1) : C2[i].th = u
          BY <1>1 DEF ActiveIn
        <5>2. QED
          BY <1>1, <1>2, <2>2, <5>1
      <4>2. u \in ActiveIn(C) <=> \E i \in 1..L : C[i].th = u
        BY DEF ActiveIn, L
      <4>3. (\E i \in 1..L : C[i].th = u) <=> \E i \in 1..K : C[i].th = u
        BY <1>1, <1>2, <2>2
      <4>4. QED
        BY <4>1, <4>2, <4>3
    <3>3. Calls(C2, Len(C2), u) = Calls(C, Len(C), u)
      <4>1. Calls(C2, K + 1, u) = Calls(C, L, u)
        <5>1. \A i \in 1..K : i \in 1..L /\ C2[i] = C[i]
          BY <1>1, <1>2
        <5>2. \A i \in 1..L : C[i].th = u => i \in 1..K
          BY <1>1, <1>2, <2>2
        <5>3. \A i \in 1..(K + 1) : C2[i].th = u => i \in 1..K
          BY <1>1, <1>2, <2>2
        <5>4. \A i \in 1..K : i \in 1..(K + 1)
          BY <1>1
        <5>5. QED
          BY <5>1, <5>2, <5>3, <5>4 DEF Calls
      <4>2. QED
        BY <1>1, <4>1 DEF L
    <3>4. QED
      BY <3>1, <3>2, <3>3, Zenon DEF ThOK
  <2>3. QED
    BY <2>1, <2>2
<1>11. QED
  <2>1. \A i \in 1..Len(C2) : Pos(T2, C2, lev2, i)
    BY <1>0, <1>1, <1>2, <1>5
  <2>2. \A i \in 1..(Len(C2) - 1) : Adj(T2, C2, lev2, i)
    <3>1. \A i \in 1..K : i \in 1..(K - 1) \/ (i = K /\ K >= 1)
      BY <1>1, <1>2
    <3>2. Len(C2) - 1 = K /\ K + 1 - 1 = K /\ (K >= 1 => K + 1 > 1)
      BY <1>1, <1>2
    <3>3. QED
      BY <1>0, <1>6, <3>1, <3>2
  <2>3. QED
    BY <1>7, <1>8, <1>9, <1>10, <2>1, <2>2 DEF Core

\* The running thread is back in activation m, which may change in what it
\* will do next, and has the frames that the activations up to m stand on (the
\* one of a C function that is now on top may have changed).
Returns(T, C, lev, T2, C2, lev2, m) ==
    LET t == C[Len(C)].th
    IN  /\ m \in 1..Len(C) /\ Len(C2) = m
        /\ \A u \in Threads \ {t} : T2[u] = T[u]
        /\ \A i \in 1..(m - 1) : C2[i] = C[i]
        /\ Alike(C2[m], C[m])
        /\ \A i \in 1..m : lev2[i] = lev[i]
        /\ \A i \in m..Len(C) : C[i].th = t
        /\ lev[m] <= Len(T2[t].ci)
        /\ \A j \in 1..lev[m] : (C[m].f = "C" /\ j = lev[m]) \/ T2[t].ci[j] = T[t].ci[j]
        /\ m = 1 => T2[t].ci[1].fn = "host"
        /\ CiOK(T2[t].ci) /\ T2[t].status = "ok"
        /\ T2[t].nny = Cardinality(Calls(C2, m, t)) + One(t = MainThread)

\* A return to activation m keeps the invariant.
LEMMA Retop ==
    ASSUME NEW T, NEW C, NEW lev, NEW T2, NEW C2, NEW lev2, NEW m,
           Typed(T, C, lev), Core(T, C, lev), Typed(T2, C2, lev2),
           Returns(T, C, lev, T2, C2, lev2, m)
    PROVE  Core(T2, C2, lev2)
<1> m \in 1..Len(C)
  BY Zenon DEF Returns
<1> DEFINE t == C[Len(C)].th
<1>0. /\ Len(C2) = m
      /\ \A u \in Threads \ {t} : T2[u] = T[u]
      /\ \A i \in 1..(m - 1) : C2[i] = C[i]
      /\ Alike(C2[m], C[m])
      /\ \A i \in 1..m : lev2[i] = lev[i]
      /\ \A i \in m..Len(C) : C[i].th = t
      /\ lev[m] <= Len(T2[t].ci)
      /\ \A j \in 1..lev[m] : (C[m].f = "C" /\ j = lev[m]) \/ T2[t].ci[j] = T[t].ci[j]
      /\ m = 1 => T2[t].ci[1].fn = "host"
      /\ CiOK(T2[t].ci) /\ T2[t].status = "ok"
      /\ T2[t].nny = Cardinality(Calls(C2, m, t)) + One(t = MainThread)
  BY Zenon DEF Returns
<1>0a. t = C[Len(C)].th
  OBVIOUS
<1> HIDE DEF t
<1> DEFINE L == Len(C)
           K == m - 1
<1>1. /\ L \in Nat \ {0} /\ \A i \in 1..L : lev[i] \in Nat /\ C[i].th \in Threads
      /\ \A u \in Threads : Len(T[u].ci) \in Nat
  BY TypedFacts
<1>2. /\ \A i \in 1..L : Pos(T, C, lev, i)
      /\ \A i \in 1..(L - 1) : Adj(T, C, lev, i)
      /\ Order(C, lev) /\ Protected(C) /\ Bottom(T, C, lev)
  BY DEF Core
<1>3. m \in 1..L /\ K \in 0..L /\ K + 1 = m /\ C[m].th = t
  BY <1>0, <1>0a, <1>1
<1>4. \A i \in 1..m : Alike(C2[i], C[i])
  <2>1. \A i \in 1..m : i \in 1..(m - 1) \/ i = m
    BY <1>0, <1>0a, <1>1
  <2>2. QED
    BY <1>0, <1>0a, <2>1 DEF Alike
<1>5. C2[m].th = t /\ C2[m].f = C[m].f /\ \A of : IsRun(C2[m], of) = IsRun(C[m], of)
  BY <1>0, <1>3, AlikeFacts
<1>6. \A i, j \in 1..L : i < j /\ C[i].th = C[j].th =>
            /\ lev[i] <= lev[j] /\ ~IsRun(C[j], "resume")
            /\ \A l \in i..j : C[l].th = C[i].th
  BY <1>0, <1>0a, <1>2 DEF Order
<1>7. ASSUME NEW i \in 1..K, C[i].th = t
      PROVE  /\ lev[i] <= lev[m] /\ lev[i] <= Len(T2[t].ci) /\ ~IsRun(C2[m], "resume")
             /\ (C[m].f = "C" => lev[i] < lev[m])
             /\ \A j \in 1..lev[i] : T2[t].ci[j] = T[t].ci[j]
  <2>1. i \in 1..L /\ i < m /\ lev[i] \in Nat /\ lev[m] \in Nat /\ Len(T2[t].ci) \in Nat
    <3>1. t \in Threads
      BY <1>0, <1>0a, <1>1, <1>3
    <3>2. Len(T2[t].ci) \in Nat
      BY <3>1, TypedFacts
    <3>3. QED
      BY <1>0, <1>0a, <1>1, <1>3, <3>2
  <2>2. lev[i] <= lev[m] /\ ~IsRun(C[m], "resume")
    BY <1>0, <1>0a, <1>3, <1>6, <1>7, <2>1
  <2>3. C[m].f = "C" => lev[i] < lev[m]
    <3>1. SUFFICES ASSUME C[m].f = "C" PROVE lev[i] < lev[m]
      OBVIOUS
    <3>2. K \in 1..(L - 1) /\ K \in 1..L
      BY <1>0, <1>0a, <1>1, <1>3, <2>1
    <3>3. lev[K + 1] = lev[K] + 1
      <4>1. Adj(T, C, lev, K) /\ C[K + 1].f = "C"
        BY <1>0, <1>0a, <1>2, <1>3, <3>1, <3>2
      <4> HIDE DEF K
      <4>2. QED
        BY <4>1, Zenon DEF Adj
    <3>4. C[K].th = t
      <4>0. C[i].th = C[m].th
        BY <1>0, <1>0a, <1>3, <1>7
      <4>1. \A l \in i..m : C[l].th = C[i].th
        BY <1>0, <1>0a, <1>3, <1>6, <4>0, <2>1
      <4>2. K \in i..m
        BY <1>0, <1>0a, <1>1, <1>3
      <4>3. QED
        BY <1>0, <1>0a, <1>7, <4>1, <4>2
    <3>5. lev[i] <= lev[K]
      <4>1. CASE i = K
        BY <1>0, <1>0a, <1>1, <3>2, <4>1
      <4>2. CASE i # K
        <5>1. i < K
          BY <1>0, <1>0a, <1>3, <4>2
        <5>2. QED
          BY <1>0, <1>0a, <1>6, <1>7, <2>1, <3>2, <3>4, <5>1
      <4>3. QED
        BY <1>0, <1>0a, <4>1, <4>2
    <3>6. QED
      BY <1>0, <1>0a, <1>1, <1>3, <2>1, <3>2, <3>3, <3>5
  <2>4. \A j \in 1..lev[i] : T2[t].ci[j] = T[t].ci[j]
    BY <1>0, <1>0a, <2>1, <2>2, <2>3
  <2>5. QED
    BY <1>0, <1>0a, <1>5, <2>1, <2>2, <2>3, <2>4
<1>8. Rebuilds(T, C, lev, T2, C2, lev2, K)
  <2>1. \A i \in (K + 1)..L : C[i].th = t
    BY <1>0, <1>0a, <1>3
  <2>2. \A i \in 1..K : i \in 1..(m - 1) /\ i \in 1..m
    BY <1>0, <1>0a, <1>1
  <2>3. lev2[K + 1] = lev[m]
    BY <1>0, <1>0a, <1>1, <1>3
  <2> HIDE DEF K
  <2>4. QED
    BY <1>0, <1>0a, <1>3, <1>5, <1>7, <2>1, <2>2, <2>3 DEF Rebuilds
<1>9. Pos(T2, C2, lev2, m)
  <2>1. m \in Nat \ {0} /\ lev[m] \in Nat /\ lev2[m] = lev[m] /\ Pos(T, C, lev, m)
    BY <1>0, <1>0a, <1>1, <1>2
  <2>2. lev[m] <= Len(T2[C[m].th].ci)
        /\ \A j \in 1..lev[m] : (C[m].f = "C" /\ j = lev[m]) \/ T2[C[m].th].ci[j] = T[C[m].th].ci[j]
    BY <1>0, <1>0a, <1>3
  <2>3. PosSame(T, C, lev, T2, C2, lev2, m)
    BY <1>0, <1>0a, <1>4, <2>1, <2>2 DEF PosSame
  <2>4. QED
    BY <2>1, <2>3, PosFrame
<1>10. ASSUME K >= 1 PROVE Adj(T2, C2, lev2, K)
  <2>1. /\ K \in Nat \ {0} /\ K \in 1..L /\ K + 1 \in 1..L /\ K + 1 = m
        /\ lev[K] \in Nat /\ lev2[K] = lev[K] /\ lev[K + 1] \in Nat /\ lev2[K + 1] = lev[K + 1]
        /\ Adj(T, C, lev, K) /\ Pos(T, C, lev, K)
    BY <1>0, <1>0a, <1>1, <1>2, <1>3, <1>10
  <2>2. (\A j \in 1..(K + 1) : Alike(C2[j], C[j])) /\ (C[K].f = "unroll" => C2[K] = C[K])
    BY <1>0, <1>0a, <1>1, <1>4, <2>1
  <2>3. IsRun(C[K + 1], "resume") => T2[C[K].th] = T[C[K].th]
    <3>1. CASE C[K].th = t
      <4>1. K \in 1..K
        BY <1>0, <1>0a, <2>1
      <4>2. ~IsRun(C[m], "resume")
        BY <1>0, <1>0a, <1>5, <1>7, <3>1, <4>1
      <4>3. QED
        BY <1>0, <1>0a, <2>1, <4>2
    <3>2. CASE C[K].th # t
      BY <1>0, <1>0a, <1>1, <2>1, <3>2
    <3>3. QED
      BY <1>0, <1>0a, <3>1, <3>2
  <2>4. C[K + 1].f = "C" \/ IsRun(C[K + 1], "resume") \/
              \A j \in 1..(IF lev[K] <= lev[K + 1] THEN lev[K + 1] ELSE lev[K]) :
                 T2[C[K].th].ci[j] = T[C[K].th].ci[j]
    <3>1. SUFFICES ASSUME C[m].f # "C", ~IsRun(C[m], "resume")
                   PROVE \A j \in 1..(IF lev[K] <= lev[m] THEN lev[m] ELSE lev[K]) :
                            T2[C[K].th].ci[j] = T[C[K].th].ci[j]
      BY <1>0, <1>0a, <2>1
    <3>2. C[K].th = t
      <4>1. C[K].th = C[K + 1].th
        BY <2>1, <3>1, Zenon DEF Adj
      <4>2. QED
        BY <1>0, <1>0a, <1>3, <2>1, <4>1
    <3>3. lev[K] <= lev[m]
      <4>1. K \in 1..K
        BY <1>0, <1>0a, <2>1
      <4>2. QED
        BY <1>0, <1>0a, <1>7, <3>2, <4>1
    <3>4. \A j \in 1..lev[m] : T2[t].ci[j] = T[t].ci[j]
      BY <1>0, <1>0a, <3>1
    <3>5. QED
      BY <1>0, <1>0a, <3>2, <3>3, <3>4
  <2>5. C[K].f = "C" => lev[K] >= 1
    BY <2>1, Zenon DEF Pos
  <2> HIDE DEF K
  <2>6. AdjSame(T, C, lev, T2, C2, lev2, K)
    BY <1>0, <1>0a, <2>1, <2>2, <2>3, <2>4, <2>5 DEF AdjSame
  <2>7. QED
    BY <2>1, <2>6, AdjFrame
<1>11. ASSUME K >= 1 PROVE \E j \in 2..(K + 1) : C2[j].f = "run" /\ C2[j].th = C2[K + 1].th
  <2>1. m \in 2..L
    BY <1>0, <1>0a, <1>1, <1>11
  <2>2. PICK j \in 2..m : C[j].f = "run" /\ C[j].th = C[m].th
    BY <1>0, <1>0a, <1>2, <2>1 DEF Protected
  <2>3. C2[j].f = "run" /\ C2[j].th = C[j].th
    <3>1. j \in 1..m
      BY <1>0, <1>0a, <2>1
    <3>2. Alike(C2[j], C[j])
      BY <1>0, <1>0a, <1>4, <3>1
    <3>3. QED
      BY <2>2, <3>2, AlikeFacts
  <2>4. QED
    BY <1>0, <1>0a, <1>3, <1>5, <2>1, <2>2, <2>3
<1>12. ASSUME K = 0 PROVE Bottom(T2, C2, lev2)
  <2>1. m = 1
    BY <1>0, <1>0a, <1>3, <1>12
  <2>2. C[1].f = "C" /\ C[1].th = MainThread /\ lev[1] = 1
    BY <1>0, <1>0a, <1>2 DEF Bottom
  <2>3. QED
    BY <1>0, <1>0a, <1>3, <1>5, <2>1, <2>2 DEF Bottom
<1> HIDE DEF K, L
<1>13. C2[K + 1].th = t /\ K + 1 = m
  BY <1>0, <1>0a, <1>3, <1>5
<1>14. NewTop(T2, C2, lev2, m)
  <2>1. m > 1 => K >= 1 /\ m - 1 = K
    BY <1>0, <1>0a, <1>3
  <2>2. m = 1 => K = 0
    BY <1>0, <1>0a, <1>3
  <2>3. m > 1 => Adj(T2, C2, lev2, m - 1) /\ \E j \in 2..m : C2[j].f = "run" /\ C2[j].th = t
    BY <1>0, <1>0a, <1>10, <1>11, <1>13, <2>1
  <2>4. m = 1 => Bottom(T2, C2, lev2)
    BY <1>0, <1>0a, <1>12, <2>2
  <2>5. C2[m].th = t
    BY <1>0, <1>0a, <1>13
  <2>6. QED
    BY <1>0, <1>0a, <1>9, <2>3, <2>4, <2>5 DEF NewTop
<1>15. QED
  BY <1>8, <1>13, <1>14, Rebuild

\* The running thread enters the activation a, in frame m.
Enters(T, C, lev, T2, C2, lev2, a, m) ==
    LET t == C[Len(C)].th
        n == Len(C) + 1
    IN  /\ C2 = Append(C, a) /\ a \in Acts /\ a.th = t /\ m \in Nat
        /\ lev2 = [i \in 1..n |-> IF i = n THEN m ELSE lev[i]]
        /\ T2 \in [Threads -> LuaState] /\ \A u \in Threads \ {t} : T2[u] = T[u]
        /\ \A j \in 1..lev[Len(C)] : T2[t].ci[j] = T[t].ci[j]
        /\ lev[Len(C)] <= m /\ m <= Len(T2[t].ci) /\ ~IsRun(a, "resume")
        /\ Pos(T2, C2, lev2, n) /\ Adj(T2, C2, lev2, Len(C))
        /\ Len(C) > 1 \/ a.f = "run"
        /\ CiOK(T2[t].ci) /\ T2[t].status = "ok"
        /\ T2[t].nny = Cardinality(Calls(C2, n, t)) + One(t = MainThread)

\* Entering an activation keeps it, when that activation is as Pos and Adj ask.
LEMMA Pushed ==
    ASSUME NEW T, NEW C, NEW lev, NEW T2, NEW C2, NEW lev2, NEW m, NEW a,
           Typed(T, C, lev), Core(T, C, lev),
           Enters(T, C, lev, T2, C2, lev2, a, m)
    PROVE  Typed(T2, C2, lev2) /\ Core(T2, C2, lev2)
<1> DEFINE t == C[Len(C)].th
           LL == Len(C)
<1>0. /\ C2 = Append(C, a) /\ a \in Acts /\ a.th = t /\ m \in Nat
      /\ lev2 = [i \in 1..(LL + 1) |-> IF i = LL + 1 THEN m ELSE lev[i]]
      /\ T2 \in [Threads -> LuaState] /\ \A u \in Threads \ {t} : T2[u] = T[u]
      /\ \A j \in 1..lev[LL] : T2[t].ci[j] = T[t].ci[j]
      /\ lev[LL] <= m /\ m <= Len(T2[t].ci) /\ ~IsRun(a, "resume")
      /\ Pos(T2, C2, lev2, LL + 1) /\ Adj(T2, C2, lev2, LL)
      /\ LL > 1 \/ a.f = "run"
      /\ CiOK(T2[t].ci) /\ T2[t].status = "ok"
      /\ T2[t].nny = Cardinality(Calls(C2, LL + 1, t)) + One(t = MainThread)
  BY Zenon DEF Enters
<1>0a. t = C[Len(C)].th
  OBVIOUS
<1> HIDE DEF t
<1> DEFINE L == LL
<1>1. /\ L \in Nat \ {0} /\ (\A i \in 1..L : lev[i] \in Nat /\ C[i].th \in Threads) /\ C \in Seq(Acts)
      /\ \A u \in Threads : Len(T[u].ci) \in Nat
  BY TypedFacts
<1>2. /\ C2 \in Seq(Acts) /\ Len(C2) = L + 1 /\ (\A i \in 1..L : C2[i] = C[i]) /\ C2[L + 1] = a
  BY <1>0, <1>0a, <1>1
<1>3. lev2 \in [1..(L + 1) -> Nat] /\ (\A i \in 1..L : lev2[i] = lev[i]) /\ lev2[L + 1] = m
  <2> HIDE DEF L
  <2>1. lev2 = [i \in 1..(L + 1) |-> IF i = L + 1 THEN m ELSE lev[i]]
    BY <1>0, <1>0a DEF L
  <2>2. \A i \in 1..(L + 1) : i = L + 1 \/ i \in 1..L
    BY <1>0, <1>0a, <1>1
  <2>3. \A i \in 1..L : i # L + 1 /\ i \in 1..(L + 1)
    BY <1>0, <1>0a, <1>1
  <2>4. L + 1 \in 1..(L + 1)
    BY <1>0, <1>0a, <1>1
  <2>5. QED
    BY <1>0, <1>0a, <1>1, <2>1, <2>2, <2>3, <2>4
<1>4. Typed(T2, C2, lev2)
  BY <1>0, <1>0a, <1>1, <1>2, <1>3 DEF Typed
<1>5. Order(C, lev) /\ Protected(C)
  BY DEF Core
<1>6. ASSUME NEW i \in 1..L, C[i].th = t PROVE lev[i] <= lev[L]
  <2>1. CASE i = L
    BY <1>0, <1>0a, <1>1, <2>1
  <2>2. CASE i # L
    <3>1. i < L /\ L \in 1..L
      BY <1>0, <1>0a, <1>1, <2>2
    <3>2. QED
      BY <1>0, <1>0a, <1>5, <1>6, <3>1 DEF Order
  <2>3. QED
    BY <1>0, <1>0a, <2>1, <2>2
<1>7. Rebuilds(T, C, lev, T2, C2, lev2, L)
  <2>1. ASSUME NEW i \in 1..L, C[i].th = t
        PROVE  /\ lev[i] <= Len(T2[t].ci) /\ lev[i] <= lev2[L + 1]
               /\ ~IsRun(C2[L + 1], "resume")
               /\ \A j \in 1..lev[i] : T2[t].ci[j] = T[t].ci[j]
    <3>1. t \in Threads /\ L \in 1..L
      BY <1>0, <1>0a, <1>1
    <3>2. Len(T2[t].ci) \in Nat
      BY <1>4, <3>1, TypedFacts
    <3>3. lev[i] <= lev[L] /\ lev[i] \in Nat /\ lev[L] \in Nat
      BY <1>0, <1>0a, <1>1, <1>6, <2>1, <3>1
    <3>4. QED
      BY <1>0, <1>0a, <1>2, <1>3, <3>2, <3>3
  <2>2. \A i \in (L + 1)..L : C[i].th = t
    BY <1>0, <1>0a, <1>1
  <2> HIDE DEF L
  <2>3. t = C[L].th
    BY <1>0, <1>0a DEF L
  <2>4. L \in 0..L
    BY <1>0, <1>0a, <1>1
  <2>5. QED
    BY <1>0, <1>0a, <1>2, <1>3, <2>1, <2>2, <2>3, <2>4 DEF Rebuilds, L
<1>8. \E j \in 2..(L + 1) : C2[j].f = "run" /\ C2[j].th = C2[L + 1].th
  <2>1. CASE L > 1
    <3>1. L \in 2..L
      BY <1>0, <1>0a, <1>1, <2>1
    <3>2. PICK j \in 2..L : C[j].f = "run" /\ C[j].th = C[L].th
      BY <1>0, <1>0a, <1>5, <3>1 DEF Protected
    <3>3. C2[j] = C[j] /\ j \in 2..(L + 1)
      BY <1>0, <1>0a, <1>1, <1>2, <3>1
    <3>4. QED
      BY <1>0, <1>0a, <1>2, <3>2, <3>3
  <2>2. CASE a.f = "run"
    <3>1. L + 1 \in 2..(L + 1)
      BY <1>0, <1>0a, <1>1
    <3>2. QED
      BY <1>0, <1>0a, <1>2, <2>2, <3>1
  <2>3. QED
    BY <1>0, <1>0a, <2>1, <2>2
<1> HIDE DEF L
<1>9. NewTop(T2, C2, lev2, L + 1)
  <2>1. C2[L + 1].th = t /\ L + 1 # 1 /\ L + 1 > 1 /\ (L + 1) - 1 = L
    BY <1>0, <1>0a, <1>1, <1>2
  <2>2. Adj(T2, C2, lev2, (L + 1) - 1) /\ Pos(T2, C2, lev2, L + 1)
    BY <1>0, <1>0a, <2>1 DEF L
  <2>3. T2[t].nny = Cardinality(Calls(C2, L + 1, t)) + One(t = MainThread)
    BY <1>0, <1>0a DEF L
  <2>4. \E j \in 2..(L + 1) : C2[j].f = "run" /\ C2[j].th = t
    BY <1>0, <1>0a, <1>8, <2>1
  <2>5. QED
    BY <1>0, <1>0a, <2>1, <2>2, <2>3, <2>4 DEF NewTop
<1>10. Core(T2, C2, lev2)
  BY <1>4, <1>7, <1>9, Rebuild
<1>11. QED
  BY <1>0, <1>0a, <1>4, <1>10

\* The running coroutine t, whose lua_resume was entered at activation m + 1,
\* no longer runs: the C function that resumed it is on top again.
Resting(s) ==
    /\ CiOK(s.ci) /\ s.nny = 1
    /\ s.status = "ok" => s.ci = <<>> /\ s.errfunc = 0
    /\ s.status = "yield" =>
          LET c == s.ci
          IN  /\ c # <<>> /\ c[Len(c)].fn \notin Prot
              /\ \A j \in 1..(Len(c) - 1) : Soft(c[j])
              /\ s.errfunc = Handler(c, Len(c))

Suspends(T, C, T2, C2, m) ==
    LET t == C[Len(C)].th
    IN  /\ m \in 1..(Len(C) - 1) /\ C[m + 1].th = t /\ IsRun(C[m + 1], "resume")
        /\ T2 \in [Threads -> LuaState] /\ \A u \in Threads \ {t} : T2[u] = T[u]
        /\ C2 \in Seq(Acts) /\ Len(C2) = m /\ \A i \in 1..(m - 1) : C2[i] = C[i]
        /\ Alike(C2[m], C[m])
        /\ Resting(T2[t])

\* The end of lua_resume keeps the invariant.
LEMMA ResumeEnds ==
    ASSUME NEW T, NEW C, NEW lev, NEW T2, NEW C2, NEW m,
           Typed(T, C, lev), Core(T, C, lev), Suspends(T, C, T2, C2, m)
    PROVE  Good(T2, C2)
<1> DEFINE t == C[Len(C)].th
           lev2 == [i \in 1..m |-> lev[i]]
<1>0. /\ m \in 1..(Len(C) - 1) /\ C[m + 1].th = t /\ IsRun(C[m + 1], "resume")
      /\ T2 \in [Threads -> LuaState] /\ \A u \in Threads \ {t} : T2[u] = T[u]
      /\ C2 \in Seq(Acts) /\ Len(C2) = m /\ \A i \in 1..(m - 1) : C2[i] = C[i]
      /\ Alike(C2[m], C[m])
  BY Zenon DEF Suspends
<1>0a. t = C[Len(C)].th /\ lev2 = [i \in 1..m |-> lev[i]]
  OBVIOUS
<1>0b. Resting(T2[t])
  BY Zenon DEF Suspends
<1> HIDE DEF t, lev2
<1> DEFINE L == Len(C)
           s == C[m].th
<1>1. /\ L \in Nat \ {0} /\ (\A i \in 1..L : lev[i] \in Nat /\ C[i].th \in Threads) /\ C \in Seq(Acts)
      /\ \A u \in Threads : Len(T[u].ci) \in Nat
  BY TypedFacts
<1>2. /\ \A i \in 1..L : Pos(T, C, lev, i)
      /\ \A i \in 1..(L - 1) : Adj(T, C, lev, i)
      /\ Order(C, lev) /\ Protected(C) /\ Bottom(T, C, lev)
      /\ \A u \in Threads : ThOK(T, C, u)
  BY DEF Core
<1>3. m \in 1..L /\ m + 1 \in 1..L /\ m \in 1..(L - 1) /\ m \in Nat \ {0} /\ m < m + 1 /\ L \in 1..L
      /\ m + 1 <= L
  BY <1>0, <1>0a, <1>1
<1>4. \A i \in 1..m : lev2[i] = lev[i] /\ i \in 1..L
  BY <1>0, <1>0a, <1>1, <1>3
<1>5. \A i, j \in 1..L : i < j /\ C[i].th = C[j].th =>
            /\ lev[i] <= lev[j] /\ ~IsRun(C[j], "resume")
            /\ \A l \in i..j : C[l].th = C[i].th
  BY <1>0, <1>0a, <1>2 DEF Order
<1> HIDE DEF L
<1>6. \A i \in 1..m : C[i].th # t
  <2>1. SUFFICES ASSUME NEW i \in 1..m, C[i].th = t PROVE FALSE
    OBVIOUS
  <2>2. i < m + 1 /\ i \in 1..L /\ C[i].th = C[m + 1].th
    BY <1>0, <1>0a, <1>3, <2>1
  <2>3. QED
    BY <1>0, <1>0a, <1>3, <1>5, <2>2
<1>7. \A i \in (m + 1)..L : C[i].th = t
  <2>1. CASE m + 1 = L
    BY <1>0, <1>0a, <1>1, <2>1 DEF L
  <2>2. CASE m + 1 # L
    <3>1. m + 1 < L /\ C[m + 1].th = C[L].th
      BY <1>0, <1>0a, <1>1, <1>3, <2>2 DEF L
    <3>2. QED
      BY <1>0, <1>0a, <1>3, <1>5, <3>1
  <2>3. QED
    BY <1>0, <1>0a, <2>1, <2>2
<1>8. \A i \in 1..m : Alike(C2[i], C[i])
  <2>1. \A i \in 1..m : i \in 1..(m - 1) \/ i = m
    BY <1>0, <1>0a, <1>3
  <2>2. QED
    BY <1>0, <1>0a, <2>1 DEF Alike
<1>9. \A i \in 1..m : /\ C2[i].f = C[i].f /\ C2[i].th = C[i].th
                      /\ \A of : IsRun(C2[i], of) = IsRun(C[i], of)
  BY <1>8, AlikeFacts
<1>10. Typed(T2, C2, lev2)
  <2>1. lev2 \in [1..m -> Nat]
    BY <1>0, <1>0a, <1>1, <1>4
  <2>2. C2 # <<>>
    BY <1>0, <1>0a, <1>3
  <2>3. QED
    BY <1>0, <1>0a, <2>1, <2>2 DEF Typed
<1>11. ASSUME NEW i \in 1..m PROVE T2[C[i].th] = T[C[i].th] /\ C[i].th \in Threads
  BY <1>0, <1>0a, <1>1, <1>4, <1>6
<1>12. ASSUME NEW i \in 1..m PROVE Pos(T2, C2, lev2, i)
  <2>1. i \in Nat \ {0} /\ lev[i] \in Nat /\ lev2[i] = lev[i] /\ Pos(T, C, lev, i)
    BY <1>0, <1>0a, <1>1, <1>2, <1>3, <1>4
  <2>2. \A j \in 1..i : Alike(C2[j], C[j])
    BY <1>0, <1>0a, <1>3, <1>8
  <2>3. lev[i] <= Len(T2[C[i].th].ci)
    <3>1. lev[i] <= Len(T[C[i].th].ci)
      BY <2>1, Zenon DEF Pos
    <3>2. QED
      BY <1>0, <1>0a, <1>11, <3>1
  <2>4. \A j \in 1..lev[i] : (C[i].f = "C" /\ j = lev[i]) \/ T2[C[i].th].ci[j] = T[C[i].th].ci[j]
    BY <1>0, <1>0a, <1>11
  <2>5. PosSame(T, C, lev, T2, C2, lev2, i)
    BY <1>0, <1>0a, <2>1, <2>2, <2>3, <2>4 DEF PosSame
  <2>6. QED
    BY <2>1, <2>5, PosFrame
<1>13. C[m].f = "C" /\ lev[m] = Len(T[s].ci) /\ T[s].ci[lev[m]].fn \notin Prot
       /\ T[s].nCcalls = Cardinality(Nested(C, m)) /\ T[s].errfunc = Handler(T[s].ci, lev[m])
  <2>1. Adj(T, C, lev, m)
    BY <1>0, <1>0a, <1>2, <1>3
  <2>2. IsRun(C[m + 1], "resume")
    BY <1>0
  <2>3. /\ C[m].f = "C" /\ lev[m] = Len(T[C[m].th].ci) /\ T[C[m].th].ci[lev[m]].fn \notin Prot
        /\ T[C[m].th].nCcalls = Cardinality(Nested(C, m))
        /\ T[C[m].th].errfunc = Handler(T[C[m].th].ci, lev[m])
    BY <2>1, <2>2, Zenon DEF Adj
  <2>4. QED
    BY <2>3
<1>14. ASSUME NEW i \in 1..(m - 1) PROVE Adj(T2, C2, lev2, i)
  <2>1. /\ i \in Nat \ {0} /\ i \in 1..m /\ i + 1 \in 1..m /\ lev[i] \in Nat /\ lev2[i] = lev[i]
        /\ lev[i + 1] \in Nat /\ lev2[i + 1] = lev[i + 1]
        /\ Adj(T, C, lev, i) /\ Pos(T, C, lev, i)
    BY <1>0, <1>0a, <1>1, <1>2, <1>3, <1>4
  <2>2. \A j \in 1..(i + 1) : Alike(C2[j], C[j])
    BY <1>0, <1>0a, <1>3, <1>8
  <2>3. C[i].f = "unroll" => C2[i] = C[i]
    BY <1>0
  <2>4. T2[C[i].th] = T[C[i].th]
    BY <1>0, <1>0a, <1>11, <2>1
  <2>5. C[i].f = "C" => lev[i] >= 1
    BY <2>1, Zenon DEF Pos
  <2>6. AdjSame(T, C, lev, T2, C2, lev2, i)
    BY <1>0, <1>0a, <2>1, <2>2, <2>3, <2>4, <2>5 DEF AdjSame
  <2>7. QED
    BY <2>1, <2>6, AdjFrame
<1>15. Order(C2, lev2)
  <2>1. SUFFICES ASSUME NEW i \in 1..m, NEW j \in 1..m, i < j, C2[i].th = C2[j].th
                 PROVE  /\ lev2[i] <= lev2[j] /\ ~IsRun(C2[j], "resume")
                        /\ \A l \in i..j : C2[l].th = C2[i].th
    BY <1>0, <1>0a DEF Order
  <2>2. C[i].th = C[j].th /\ i \in 1..L /\ j \in 1..L /\ lev2[i] = lev[i] /\ lev2[j] = lev[j]
        /\ (IsRun(C2[j], "resume") = IsRun(C[j], "resume"))
    BY <1>0, <1>0a, <1>4, <1>9, <2>1
  <2>3. \A l \in i..j : l \in 1..m /\ C2[l].th = C[l].th
    BY <1>0, <1>0a, <1>3, <1>9
  <2>4. QED
    BY <1>0, <1>0a, <1>5, <1>9, <2>1, <2>2, <2>3
<1>16. Protected(C2)
  <2>1. SUFFICES ASSUME NEW i \in 2..m
                 PROVE  \E j \in 2..i : C2[j].f = "run" /\ C2[j].th = C2[i].th
    BY <1>0, <1>0a DEF Protected
  <2>2. i \in 2..L /\ i \in 1..m
    BY <1>0, <1>0a, <1>3
  <2>3. PICK j \in 2..i : C[j].f = "run" /\ C[j].th = C[i].th
    BY <1>0, <1>0a, <1>2, <2>2 DEF Protected, L
  <2>4. j \in 1..m
    BY <1>0, <1>0a, <1>3
  <2>5. QED
    BY <1>0, <1>0a, <1>9, <2>2, <2>3, <2>4
<1>17. Bottom(T2, C2, lev2)
  <2>1. 1 \in 1..m
    BY <1>0, <1>0a, <1>3
  <2>2. C[1].f = "C" /\ C[1].th = MainThread /\ lev[1] = 1 /\ T[MainThread].ci[1].fn = "host"
    BY <1>0, <1>0a, <1>2 DEF Bottom
  <2>3. QED
    BY <1>0, <1>0a, <1>4, <1>9, <1>11, <2>1, <2>2 DEF Bottom
<1>18. ASSUME NEW u \in Threads PROVE ThOK(T2, C2, u)
  <2>0. ActiveIn(C2) = {C[i].th : i \in 1..m}
    BY <1>0, <1>0a, <1>9 DEF ActiveIn
  <2>1. CASE u = t
    <3>1. t \notin ActiveIn(C2)
      BY <1>0, <1>0a, <1>6, <2>0
    <3>2. QED
      BY <1>0b, <2>1, <3>1, Zenon DEF ThOK, Resting
  <2>2. CASE u # t
    <3>1. T2[u] = T[u] /\ ThOK(T, C, u)
      BY <1>0, <1>0a, <1>2, <2>2
    <3>2. u \in ActiveIn(C2) <=> u \in ActiveIn(C)
      <4>1. u \in ActiveIn(C) <=> \E i \in 1..L : C[i].th = u
        BY <1>0, <1>0a DEF ActiveIn, L
      <4>2. (\E i \in 1..L : C[i].th = u) <=> \E i \in 1..m : C[i].th = u
        <5>1. \A i \in 1..L : i \in 1..m \/ i \in (m + 1)..L
          BY <1>0, <1>0a, <1>1, <1>3
        <5>2. QED
          BY <1>0, <1>0a, <1>3, <1>4, <1>7, <2>2, <5>1
      <4>3. QED
        BY <1>0, <1>0a, <2>0, <4>1, <4>2
    <3>3. Calls(C2, Len(C2), u) = Calls(C, Len(C), u)
      <4>1. Calls(C2, m, u) = Calls(C, m, u)
        <5>1. m \in Nat
          BY <1>0, <1>0a, <1>3
        <5>2. Nested(C2, m) = Nested(C, m) /\ \A x : Calls(C2, m, x) = Calls(C, m, x)
          BY <1>8, <5>1, CountsSame
        <5>3. QED
          BY <1>0, <1>0a, <5>2
      <4>2. Calls(C, m, u) = Calls(C, L, u)
        <5>1. \A i \in 1..L : C[i].th = u => i \in 1..m
          BY <1>0, <1>0a, <1>1, <1>3, <1>7, <2>2
        <5>2. QED
          BY <1>0, <1>0a, <1>4, <5>1 DEF Calls
      <4>3. QED
        BY <1>0, <1>0a, <4>1, <4>2 DEF L
    <3>4. QED
      BY <3>1, <3>2, <3>3, Zenon DEF ThOK
  <2>3. QED
    BY <1>0, <1>0a, <2>1, <2>2
<1>19. Core(T2, C2, lev2)
  BY <1>0, <1>12, <1>14, <1>15, <1>16, <1>17, <1>18 DEF Core
<1>20. TopOK(T2, C2, lev2)
  <2>1. m \in 1..m
    BY <1>0, <1>0a, <1>3
  <2>2. /\ C2[m].th = s /\ C2[m].f = "C" /\ lev2[m] = lev[m] /\ T2[s] = T[s]
    BY <1>0, <1>0a, <1>4, <1>9, <1>11, <1>13, <2>1
  <2>3. Nested(C2, m) = Nested(C, m)
    BY <1>3, <1>8, CountsSame
  <2>4. /\ T2[s].nCcalls = Cardinality(Nested(C2, m))
        /\ lev2[m] = Len(T2[s].ci) /\ T2[s].ci[Len(T2[s].ci)].fn \notin Prot
        /\ T2[s].errfunc = Handler(T2[s].ci, Len(T2[s].ci))
    BY <1>0, <1>0a, <1>13, <2>2, <2>3
  <2> HIDE DEF s
  <2>5. QED
    BY <1>0, <2>2, <2>4 DEF TopOK
<1>21. QED
  BY <1>10, <1>19, <1>20 DEF Good

\* Cutting a chain of frames off keeps what is said of its frames.
LEMMA CiPrefix ==
    ASSUME NEW c, NEW d, Len(c) \in Nat, Len(d) \in Nat, Len(d) <= Len(c),
           \A j \in 1..Len(d) : d[j] = c[j], CiOK(c)
    PROVE  CiOK(d)
<1>1. SUFFICES ASSUME NEW j \in 1..Len(d)
      PROVE /\ d[j].ypcall => /\ d[j].fn \in {"pcall", "xpcall"} /\ d[j].olderr = Handler(d, j - 1)
                              /\ \A i \in 1..j : Soft(d[i])
            /\ d[j].reentry => j >= 2 /\ IsLua(d[j].fn) /\ IsLua(d[j - 1].fn)
  BY DEF CiOK
<1>2. j \in 1..Len(c) /\ d[j] = c[j] /\ (j >= 2 => d[j - 1] = c[j - 1])
  OBVIOUS
<1>3. /\ c[j].ypcall => /\ c[j].fn \in {"pcall", "xpcall"} /\ c[j].olderr = Handler(c, j - 1)
                          /\ \A i \in 1..j : Soft(c[i])
      /\ c[j].reentry => j >= 2 /\ IsLua(c[j].fn) /\ IsLua(c[j - 1].fn)
  BY <1>2 DEF CiOK
<1>4. Handler(d, j - 1) = Handler(c, j - 1)
  <2>1. j - 1 \in Nat /\ \A i \in 1..(j - 1) : d[i].fn = c[i].fn
    OBVIOUS
  <2>2. QED
    BY <2>1, HandlerSame
<1>5. \A i \in 1..j : d[i] = c[i]
  OBVIOUS
<1>6. QED
  BY <1>2, <1>3, <1>4, <1>5

\* The activations of a state that luaD_throw may start from: something of the
\* running thread t can be thrown through.
Throwing(S, lev, t) ==
    /\ S \in Sts /\ Typed(S.th, S.cs, lev) /\ Core(S.th, S.cs, lev)
    /\ Len(S.cs) > 1 /\ t = S.cs[Len(S.cs)].th

\* An error or a yield lands in a run of the thread itself, and everything that
\* was entered since is the thread's.
LEMMA ErrorJmp ==
    ASSUME NEW S, NEW lev, NEW t, Throwing(S, lev, t)
    PROVE  /\ errorJmp(S, t) \in 2..Len(S.cs)
           /\ S.cs[errorJmp(S, t)].f = "run" /\ S.cs[errorJmp(S, t)].th = t
           /\ \A j \in errorJmp(S, t)..Len(S.cs) : S.cs[j].th = t
           /\ \A j \in (errorJmp(S, t) + 1)..Len(S.cs) : S.cs[j].f # "run"
<1> DEFINE C == S.cs
           L == Len(C)
           R == {i \in 1..L : C[i].f = "run" /\ C[i].th = t}
           i == errorJmp(S, t)
<1>0. Typed(S.th, C, lev) /\ Core(S.th, C, lev) /\ L > 1 /\ t = C[L].th
  BY DEF Throwing
<1>1. L \in Nat \ {0} /\ L \in 2..L
  BY <1>0, TypedFacts
<1>2. PICK r \in 2..L : C[r].f = "run" /\ C[r].th = t
  <2>1. Protected(C)
    BY <1>0 DEF Core
  <2>2. \A k \in 2..L : \E j \in 2..k : C[j].f = "run" /\ C[j].th = C[k].th
    BY <2>1 DEF Protected
  <2>3. QED
    BY <1>0, <1>1, <2>2
<1>3. r \in R /\ R \in SUBSET (1..L)
  BY <1>1, <1>2
<1>4. PICK g \in R : \A k \in R : k <= g
  BY <1>1, <1>3, Greatest
<1>5. i \in 1..L /\ C[i].f = "run" /\ C[i].th = t
      /\ \A j \in (i + 1)..L : ~(C[j].f = "run" /\ C[j].th = t)
  <2>1. g \in 1..L /\ C[g].f = "run" /\ C[g].th = t
    BY <1>4
  <2>2. \A j \in (g + 1)..L : ~(C[j].f = "run" /\ C[j].th = t)
    <3>1. SUFFICES ASSUME NEW j \in (g + 1)..L, C[j].f = "run" /\ C[j].th = t PROVE FALSE
      OBVIOUS
    <3>2. j \in R /\ g \in Nat /\ j \in Nat
      BY <1>1, <2>1, <3>1
    <3>3. j <= g
      BY <1>4, <3>2
    <3>4. QED
      BY <3>1, <3>2, <3>3
  <2>3. \E x \in 1..Len(S.cs) :
           /\ S.cs[x].f = "run" /\ S.cs[x].th = t
           /\ \A j \in (x + 1)..Len(S.cs) : ~(S.cs[j].f = "run" /\ S.cs[j].th = t)
    BY <2>1, <2>2
  <2>4. QED
    BY <2>3 DEF errorJmp
<1> HIDE DEF i
<1>6. r <= i
  <2>1. r \notin (i + 1)..L
    BY <1>2, <1>5
  <2>2. QED
    BY <1>1, <1>2, <1>5, <2>1
<1>7. \A j \in i..L : C[j].th = t
  <2>1. CASE i = L
    BY <1>0, <1>1, <1>5, <2>1
  <2>2. CASE i # L
    <3>1. i < L /\ L \in 1..L /\ C[i].th = C[L].th
      BY <1>0, <1>1, <1>5, <2>2
    <3>2. Order(C, lev)
      BY <1>0 DEF Core
    <3>3. \A l \in i..L : C[l].th = C[i].th
      BY <1>5, <3>1, <3>2 DEF Order
    <3>4. QED
      BY <1>5, <3>3
  <2>3. QED
    BY <2>1, <2>2
<1>8. \A j \in (i + 1)..L : C[j].f # "run"
  BY <1>1, <1>5, <1>7
<1>9. i \in 2..L
  BY <1>1, <1>2, <1>5, <1>6
<1>10. QED
  BY <1>5, <1>7, <1>8, <1>9 DEF i

\* The function of luaD_pcall, which was entered at activation i, has ended.
PcallEnded(T, C, T2, C2, i) ==
    LET t == C[Len(C)].th
    IN  /\ i \in 2..Len(C) /\ (\A j \in i..Len(C) : C[j].th = t) /\ IsRun(C[i], "pcall")
        /\ T2 \in [Threads -> LuaState] /\ \A u \in Threads \ {t} : T2[u] = T[u]
        /\ Len(T2[t].ci) = C[i].ci /\ \A j \in 1..C[i].ci : T2[t].ci[j] = T[t].ci[j]
        /\ T2[t].status = "ok" /\ T2[t].nny = C[i].nny /\ T2[t].errfunc = C[i].errfunc
        /\ T2[t].nCcalls = C[i].nCcalls
        /\ C2 \in Seq(Acts) /\ Len(C2) = i - 1 /\ \A j \in 1..(i - 2) : C2[j] = C[j]
        /\ C2[i - 1] = Body(t, "done")

\* The end of luaD_pcall keeps the invariant.
LEMMA PcallEnds ==
    ASSUME NEW T, NEW C, NEW lev, NEW T2, NEW C2, NEW i,
           Typed(T, C, lev), Core(T, C, lev), PcallEnded(T, C, T2, C2, i)
    PROVE  Good(T2, C2)
<1> SUFFICES ASSUME NEW t, t = C[Len(C)].th, i \in 2..Len(C),
           \A j \in i..Len(C) : C[j].th = t, IsRun(C[i], "pcall"),
           T2 \in [Threads -> LuaState], \A u \in Threads \ {t} : T2[u] = T[u],
           Len(T2[t].ci) = C[i].ci, \A j \in 1..C[i].ci : T2[t].ci[j] = T[t].ci[j],
           T2[t].status = "ok", T2[t].nny = C[i].nny, T2[t].errfunc = C[i].errfunc,
           T2[t].nCcalls = C[i].nCcalls, C2 \in Seq(Acts),
           Len(C2) = i - 1, \A j \in 1..(i - 2) : C2[j] = C[j], C2[i - 1] = Body(t, "done")
    PROVE  Good(T2, C2)
  BY Zenon DEF PcallEnded
<1> DEFINE m == i - 1
           n == lev[i]
           lev2 == [j \in 1..m |-> lev[j]]
<1>1. /\ Len(C) \in Nat \ {0} /\ \A j \in 1..Len(C) : lev[j] \in Nat /\ C[j].th \in Threads
      /\ \A u \in Threads : Len(T[u].ci) \in Nat
  BY TypedFacts
<1>2. /\ \A j \in 1..Len(C) : Pos(T, C, lev, j)
      /\ \A j \in 1..(Len(C) - 1) : Adj(T, C, lev, j)
      /\ Bottom(T, C, lev)
      /\ \A u \in Threads : ThOK(T, C, u)
  BY DEF Core
<1>3. /\ m \in 1..Len(C) /\ m \in Nat \ {0} /\ i \in 1..Len(C) /\ m \in 1..(Len(C) - 1) /\ m + 1 = i
      /\ Len(C) \in i..Len(C) /\ i \in i..Len(C)
      /\ m - 1 = i - 2
  BY <1>1
<1>4. t = C[Len(C)].th /\ C[i].th = t /\ t \in Threads
  BY <1>1, <1>3
<1> HIDE DEF m
<1>5. C[m].f = "C" /\ lev[m] = n /\ C[m].th = t
  <2>1. Adj(T, C, lev, m) /\ IsRun(C[m + 1], "pcall") /\ ~IsRun(C[m + 1], "resume")
    BY <1>2, <1>3 DEF IsRun
  <2>2. lev[m] = lev[m + 1] /\ C[m].f = "C" /\ C[m].th = C[m + 1].th
    BY <2>1, Zenon DEF Adj
  <2>3. QED
    BY <1>3, <1>4, <2>2
<1>6. /\ n >= 1 /\ n <= Len(T[t].ci) /\ T[t].ci[n].fn \in Prot /\ C[i].ci = n
      /\ C[i].errfunc = Handler(T[t].ci, n - 1)
      /\ C[i].nny = Cardinality(Calls(C, i, t)) + One(t = MainThread)
      /\ C[i].nCcalls = Cardinality(Nested(C, i)) /\ n \in Nat
  <2>1. Pos(T, C, lev, i) /\ C[i].f = "run"
    BY <1>2, <1>3 DEF IsRun
  <2>2. C[i].nCcalls = Cardinality(Nested(C, i)) /\ n <= Len(T[C[i].th].ci)
    BY <2>1, Zenon DEF Pos
  <2>3. /\ n >= 1 /\ T[C[i].th].ci[n].fn \in Prot /\ C[i].ci = n
        /\ C[i].errfunc = Handler(T[C[i].th].ci, n - 1)
        /\ C[i].nny = Cardinality(Calls(C, i, C[i].th)) + One(C[i].th = MainThread)
    BY <2>1 DEF Pos
  <2>4. QED
    BY <1>1, <1>3, <1>4, <2>2, <2>3
<1> DEFINE c == T2[t].ci
<1>7. Len(c) = n /\ \A j \in 1..n : c[j] = T[t].ci[j]
  BY <1>6
<1>8. \A j \in 1..m : Alike(C2[j], C[j])
  <2>1. \A j \in 1..m : j \in 1..(i - 2) \/ j = m
    BY <1>3
  <2>2. C2[m] = Body(t, "done")
    BY DEF m
  <2>3. Alike(C2[m], C[m])
    BY <1>5, <2>2 DEF Alike, Body
  <2>4. QED
    BY <2>1, <2>3 DEF Alike
<1>9. Nested(C2, m) = Nested(C, m) /\ Calls(C2, m, t) = Calls(C, m, t)
  <2>1. m \in Nat
    BY <1>3
  <2>2. Nested(C2, m) = Nested(C, m) /\ \A x : Calls(C2, m, x) = Calls(C, m, x)
    BY <1>8, <2>1, CountsSame
  <2>3. QED
    BY <2>2
<1>10. /\ Cardinality(Nested(C, i)) = Cardinality(Nested(C, m))
       /\ Calls(C, i, t) = Calls(C, m, t)
  <2>1. C[m + 1].f # "luaD_call" /\ ~IsRun(C[m + 1], "resume")
    BY <1>3 DEF IsRun
  <2>2. QED
    <3>1. m \in Nat
      BY <1>3
    <3>2. Nested(C, m + 1) = Nested(C, m) /\ \A x : Calls(C, m + 1, x) = Calls(C, m, x)
      BY <2>1, <3>1, CountsKept
    <3>3. QED
      BY <1>3, <3>2
<1>11. CiOK(c)
  <2>1. CiOK(T[t].ci) /\ Len(T[t].ci) \in Nat
    BY <1>1, <1>2, <1>4 DEF ThOK
  <2> HIDE DEF c, n
  <2>2. QED
    BY <1>6, <1>7, <2>1, CiPrefix
<1>12. lev2 \in [1..m -> Nat] /\ \A j \in 1..m : lev2[j] = lev[j]
  BY <1>1, <1>3
<1>13. Typed(T2, C2, lev2)
  <2>1. Len(C2) = m /\ C2 # <<>>
    BY <1>3 DEF m
  <2> HIDE DEF lev2
  <2>2. QED
    BY <1>12, <2>1 DEF Typed
<1>14. m = 1 => c[1].fn = "host"
  <2>1. SUFFICES ASSUME m = 1 PROVE c[1].fn = "host"
    OBVIOUS
  <2>2. C[1].th = MainThread /\ T[MainThread].ci[1].fn = "host"
    BY <1>2 DEF Bottom
  <2>3. t = MainThread /\ 1 \in 1..n
    BY <1>5, <1>6, <2>1, <2>2
  <2> HIDE DEF c
  <2>4. QED
    BY <1>7, <2>2, <2>3
<1> HIDE DEF lev2, n
<1>15. Core(T2, C2, lev2)
  <2>1. Len(C2) = m /\ \A j \in 1..(m - 1) : C2[j] = C[j]
    BY <1>3 DEF m
  <2>2. \A j \in m..Len(C) : C[j].th = t
    BY <1>1, <1>3, <1>5
  <2>3. Alike(C2[m], C[m]) /\ lev[m] <= Len(T2[t].ci)
    BY <1>3, <1>5, <1>6, <1>7, <1>8
  <2>4. \A j \in 1..lev[m] : (C[m].f = "C" /\ j = lev[m]) \/ T2[t].ci[j] = T[t].ci[j]
    BY <1>5, <1>7
  <2>5. T2[t].nny = Cardinality(Calls(C2, m, t)) + One(t = MainThread)
    BY <1>6, <1>9, <1>10
  <2>6. Returns(T, C, lev, T2, C2, lev2, m)
    BY <1>3, <1>4, <1>11, <1>12, <1>14, <2>1, <2>2, <2>3, <2>4, <2>5 DEF Returns
  <2>7. QED
    BY <1>13, <2>6, Retop
<1>16. TopOK(T2, C2, lev2)
  <2>1. Len(C2) = m /\ C2[m].f = "C" /\ C2[m].th = t /\ m \in 1..m
    BY <1>3 DEF m, Body
  <2>2. T2[t].nCcalls = Cardinality(Nested(C2, m)) /\ lev2[m] = n
    BY <1>5, <1>6, <1>9, <1>10, <1>12, <2>1
  <2>3. Handler(c, n - 1) = Handler(T[t].ci, n - 1)
    <3>1. n - 1 \in Nat /\ \A j \in 1..(n - 1) : c[j].fn = T[t].ci[j].fn
      BY <1>6, <1>7
    <3> HIDE DEF c
    <3>2. QED
      BY <3>1, HandlerSame
  <2>4. c[n].fn \in Prot
    BY <1>6, <1>7
  <2>5. T2[t].errfunc = Handler(c, n - 1)
    BY <1>6, <2>3
  <2>6. QED
    BY <1>7, <2>1, <2>2, <2>4, <2>5 DEF TopOK
<1>17. QED
  BY <1>13, <1>15, <1>16 DEF Good

\* An error that lands in the lua_resume at activation i goes on in frame j,
\* that of a pending pcall.
GoesOn(T, C, T2, C2, i, j, status) ==
    LET t == C[Len(C)].th
    IN  /\ i \in 2..Len(C) /\ (\A l \in i..Len(C) : C[l].th = t) /\ IsRun(C[i], "resume")
        /\ T2 \in [Threads -> LuaState] /\ \A u \in Threads \ {t} : T2[u] = T[u]
        /\ j \in 1..Len(T[t].ci) /\ T[t].ci[j].ypcall
        /\ Len(T2[t].ci) = j /\ \A l \in 1..j : T2[t].ci[l] = T[t].ci[l]
        /\ T2[t].status = "ok" /\ T2[t].nny = 0 /\ T2[t].errfunc = T[t].ci[j].olderr
        /\ T2[t].nCcalls = C[i].nCcalls
        /\ status \in {"err", "errerr"}
        /\ C2 = Append(SubSeq(C, 1, i), [f |-> "unroll", th |-> t, ud |-> status])

\* Going on there keeps the invariant.
LEMMA Recovers ==
    ASSUME NEW T, NEW C, NEW lev, NEW T2, NEW C2, NEW i, NEW j, NEW status,
           Typed(T, C, lev), Core(T, C, lev), GoesOn(T, C, T2, C2, i, j, status)
    PROVE  Good(T2, C2)
<1> DEFINE t == C[Len(C)].th
<1>0. /\ i \in 2..Len(C) /\ (\A l \in i..Len(C) : C[l].th = t) /\ IsRun(C[i], "resume")
      /\ T2 \in [Threads -> LuaState] /\ \A u \in Threads \ {t} : T2[u] = T[u]
      /\ j \in 1..Len(T[t].ci) /\ T[t].ci[j].ypcall
      /\ Len(T2[t].ci) = j /\ \A l \in 1..j : T2[t].ci[l] = T[t].ci[l]
      /\ T2[t].status = "ok" /\ T2[t].nny = 0 /\ T2[t].errfunc = T[t].ci[j].olderr
      /\ T2[t].nCcalls = C[i].nCcalls
      /\ status \in {"err", "errerr"}
      /\ C2 = Append(SubSeq(C, 1, i), [f |-> "unroll", th |-> t, ud |-> status])
  BY Zenon DEF GoesOn
<1>0a. t = C[Len(C)].th
  OBVIOUS
<1> HIDE DEF t
<1> DEFINE D == SubSeq(C, 1, i)
           a == [f |-> "unroll", th |-> t, ud |-> status]
           lev1 == [l \in 1..i |-> lev[l]]
           lev2 == [l \in 1..(i + 1) |-> IF l = i + 1 THEN 0 ELSE lev1[l]]
           c == T2[t].ci
<1>1. /\ Len(C) \in Nat \ {0} /\ \A l \in 1..Len(C) : lev[l] \in Nat /\ C[l].th \in Threads
      /\ \A u \in Threads : Len(T[u].ci) \in Nat
      /\ C \in Seq(Acts)
  BY TypedFacts
<1>2. /\ \A l \in 1..Len(C) : Pos(T, C, lev, l)
      /\ Order(C, lev)
      /\ \A u \in Threads : ThOK(T, C, u)
  BY DEF Core
<1>3. /\ i \in 1..Len(C) /\ i \in Nat \ {0, 1} /\ Len(C) \in i..Len(C) /\ i \in i..Len(C)
  BY <1>0, <1>0a, <1>1
<1>4. t = C[Len(C)].th /\ C[i].th = t /\ t \in Threads
  BY <1>0, <1>0a, <1>1, <1>3
<1>5. D \in Seq(Acts) /\ Len(D) = i /\ \A l \in 1..i : D[l] = C[l]
  BY <1>0, <1>0a, <1>1, <1>3
<1>6. a \in Acts /\ a.th = t /\ a.f = "unroll" /\ a.ud = status
  BY <1>0, <1>0a, <1>4 DEF Acts, UnrollAct
<1> HIDE DEF D, a
<1>7. /\ t # MainThread /\ lev[i] = 0 /\ C[i].nCcalls = Cardinality(Nested(C, i))
  <2>1. Pos(T, C, lev, i) /\ C[i].f = "run"
    BY <1>0, <1>0a, <1>2, <1>3 DEF IsRun
  <2>2. QED
    BY <1>0, <1>0a, <1>4, <2>1, Zenon DEF Pos
<1>8. Calls(C, i, t) = {}
  <2>1. SUFFICES ASSUME NEW l \in 1..i, C[l].th = t, C[l].f = "luaD_call" PROVE FALSE
    BY <1>0, <1>0a DEF Calls
  <2>2. l # i
    BY <1>0, <1>0a, <2>1 DEF IsRun
  <2>3. l < i /\ l \in 1..Len(C) /\ C[l].th = C[i].th
    BY <1>0, <1>0a, <1>3, <1>4, <2>1, <2>2
  <2>4. QED
    BY <1>0, <1>0a, <1>2, <1>3, <2>3 DEF Order
<1>9. Nested(D, i) = Nested(C, i) /\ Calls(D, i, t) = {}
  <2>1. \A l \in 1..i : Alike(D[l], C[l])
    BY <1>0, <1>0a, <1>5 DEF Alike
  <2>2. i \in Nat
    BY <1>0, <1>0a, <1>3
  <2>3. Nested(D, i) = Nested(C, i) /\ \A x : Calls(D, i, x) = Calls(C, i, x)
    BY <2>1, <2>2, CountsSame
  <2>4. QED
    BY <1>0, <1>0a, <1>8, <2>3
<1>10. /\ CiOK(T[t].ci) /\ Len(T[t].ci) \in Nat
  BY <1>0, <1>0a, <1>1, <1>2, <1>4 DEF ThOK
<1>11. CiOK(c)
  <2>1. Len(c) = j /\ j \in Nat /\ Len(c) \in Nat /\ Len(c) <= Len(T[t].ci) /\ \A l \in 1..Len(c) : c[l] = T[t].ci[l]
    BY <1>0, <1>0a, <1>10
  <2> HIDE DEF c
  <2>2. QED
    BY <1>10, <2>1, CiPrefix
<1>12. Typed(T2, D, lev1)
  <2>1. lev1 \in [1..i -> Nat] /\ D # <<>>
    BY <1>0, <1>0a, <1>1, <1>3, <1>5
  <2>2. QED
    BY <1>0, <1>0a, <1>5, <2>1 DEF Typed
<1>13. Core(T2, D, lev1)
  <2>1. Returns(T, C, lev, T2, D, lev1, i)
    <3>1. Alike(D[i], C[i]) /\ \A l \in 1..(i - 1) : D[l] = C[l]
      BY <1>0, <1>0a, <1>3, <1>5 DEF Alike
    <3>2. \A l \in 1..i : lev1[l] = lev[l]
      BY <1>0, <1>0a, <1>1, <1>3
    <3>3. lev[i] <= Len(T2[t].ci) /\ i # 1 /\ \A l \in 1..lev[i] : FALSE
      BY <1>0, <1>0a, <1>3, <1>7, <1>10
    <3>4. T2[t].nny = Cardinality(Calls(D, i, t)) + One(t = MainThread)
      BY <1>0, <1>0a, <1>7, <1>9, FS_EmptySet DEF One
    <3> HIDE DEF lev1
    <3>5. QED
      BY <1>0, <1>0a, <1>3, <1>4, <1>5, <1>11, <3>1, <3>2, <3>3, <3>4 DEF Returns
  <2>2. QED
    BY <1>12, <2>1, Retop
<1>14. /\ C2 = Append(D, a) /\ Len(C2) = i + 1 /\ C2[i + 1] = a /\ C2[i] = C[i]
       /\ \A l \in 1..i : C2[l] = D[l]
  BY <1>0, <1>0a, <1>3, <1>5, <1>6 DEF D, a
<1>15. lev2[i + 1] = 0 /\ lev2[i] = 0 /\ lev1[i] = 0
  BY <1>0, <1>0a, <1>1, <1>3, <1>7
<1>16. /\ Cardinality(Nested(C2, i + 1)) = Cardinality(Nested(C, i))
       /\ Calls(C2, i + 1, t) = {}
  <2>1. i \in Nat /\ \A l \in 1..i : Alike(C2[l], D[l])
    BY <1>0, <1>0a, <1>3, <1>14 DEF Alike
  <2>2. Nested(C2, i) = Nested(D, i) /\ \A x : Calls(C2, i, x) = Calls(D, i, x)
    BY <2>1, CountsSame
  <2>3. C2[i + 1].f # "luaD_call" /\ ~IsRun(C2[i + 1], "resume")
    BY <1>0, <1>0a, <1>6, <1>14 DEF IsRun
  <2>4. Cardinality(Nested(C2, i + 1)) = Cardinality(Nested(C2, i)) /\ Calls(C2, i + 1, t) = Calls(C2, i, t)
    <3>1. /\ Cardinality(Nested(C2, i + 1)) =
                IF C2[i + 1].f = "luaD_call" \/ IsRun(C2[i + 1], "resume")
                THEN Cardinality(Nested(C2, i)) + 1 ELSE Cardinality(Nested(C2, i))
          /\ Calls(C2, i + 1, t) =
                IF C2[i + 1].th = t /\ C2[i + 1].f = "luaD_call" /\ ~C2[i + 1].allowyield
                THEN Calls(C2, i, t) \cup {i + 1} ELSE Calls(C2, i, t)
      BY <2>1, NestedStep, CallsStep
    <3>2. QED
      BY <2>3, <3>1
  <2>5. QED
    BY <1>0, <1>0a, <1>9, <2>2, <2>4
<1> HIDE DEF lev1
<1>17. Typed(T2, C2, lev2) /\ Core(T2, C2, lev2)
  <2>1. Pos(T2, C2, lev2, i + 1)
    <3>1. ~IsRun(a, "pcall") /\ ~IsRun(a, "resume")
      BY <1>0, <1>0a, <1>6 DEF IsRun
    <3>2. 0 <= Len(c) /\ \A l \in 1..(0 - 1) : Soft(c[l])
      BY <1>0, <1>0a, <1>10
    <3> HIDE DEF c, lev2
    <3>3. T2[t].ci = c
      BY <1>0, <1>0a DEF c
    <3>4. QED
      BY <1>0, <1>0a, <1>6, <1>7, <1>14, <1>15, <3>1, <3>2, <3>3 DEF Pos
  <2>2. Adj(T2, C2, lev2, i)
    <3>1. ~IsRun(a, "pcall") /\ ~IsRun(a, "resume") /\ C[i].f = "run" /\ ~IsRun(C[i], "pcall")
      BY <1>0, <1>0a, <1>6 DEF IsRun
    <3> HIDE DEF c, lev2
    <3>2. QED
      BY <1>0, <1>0a, <1>4, <1>6, <1>14, <3>1 DEF Adj
  <2>3. Enters(T2, D, lev1, T2, C2, lev2, a, 0)
    <3>1. D[Len(D)].th = t /\ Len(D) = i /\ i > 1
      BY <1>0, <1>0a, <1>3, <1>4, <1>5
    <3>2. ~IsRun(a, "resume") /\ lev1[i] <= 0 /\ 0 <= Len(T2[t].ci)
      BY <1>0, <1>0a, <1>6, <1>10, <1>15 DEF IsRun
    <3>3. T2[t].nny = Cardinality(Calls(C2, i + 1, t)) + One(t = MainThread)
      <4>1. Cardinality(Calls(C2, i + 1, t)) = 0
        BY <1>0, <1>0a, <1>16, FS_EmptySet
      <4>2. One(t = MainThread) = 0
        BY <1>0, <1>0a, <1>7 DEF One
      <4>3. QED
        BY <1>0, <1>0a, <4>1, <4>2
    <3>4. lev2 = [l \in 1..(Len(D) + 1) |-> IF l = Len(D) + 1 THEN 0 ELSE lev1[l]]
      BY <1>0, <1>0a, <3>1
    <3> HIDE DEF lev2
    <3>5. QED
      BY <1>0, <1>0a, <1>6, <1>11, <1>14, <2>1, <2>2, <3>1, <3>2, <3>3, <3>4 DEF Enters
  <2> HIDE DEF lev2
  <2>4. QED
    BY <1>12, <1>13, <2>3, Pushed
<1>18. TopOK(T2, C2, lev2)
  <2>1. \A l \in 1..j : Soft(c[l])
    <3>1. \A l \in 1..j : Soft(T[t].ci[l])
      BY <1>0, <1>0a, <1>10 DEF CiOK
    <3>2. QED
      BY <1>0, <1>0a, <3>1
  <2>2. T2[t].errfunc = Handler(c, j - 1)
    <3>1. T2[t].errfunc = Handler(T[t].ci, j - 1)
      BY <1>0, <1>0a, <1>10 DEF CiOK
    <3>2. j - 1 \in Nat /\ \A l \in 1..(j - 1) : c[l].fn = T[t].ci[l].fn
      <4>1. \A l \in 1..j : c[l] = T[t].ci[l]
        BY <1>0
      <4>2. j \in Nat \ {0}
        BY <1>0, <1>10
      <4> HIDE DEF c
      <4>3. QED
        BY <4>1, <4>2
    <3> HIDE DEF c
    <3>3. Handler(c, j - 1) = Handler(T[t].ci, j - 1)
      BY <3>2, HandlerSame
    <3>4. QED
      BY <1>0, <1>0a, <3>1, <3>3
  <2>3. c[j].ypcall /\ j >= 1
    <3>1. c[j] = T[t].ci[j] /\ j >= 1
      BY <1>0, <1>0a, <1>10
    <3> HIDE DEF c
    <3>2. QED
      BY <1>0, <1>0a, <3>1
  <2>4. T2[t].nCcalls = Cardinality(Nested(C2, i + 1)) /\ T2[t].ci = c /\ Len(c) = j
    BY <1>0, <1>0a, <1>7, <1>16
  <2>5. /\ Len(C2) = i + 1 /\ C2[i + 1].th = t /\ C2[i + 1].f = "unroll" /\ C2[i + 1].ud = status
        /\ status # "yield"
    BY <1>0, <1>0a, <1>6, <1>14
  <2> HIDE DEF c, lev2
  <2>6. QED
    BY <2>1, <2>2, <2>3, <2>4, <2>5 DEF TopOK
<1>19. QED
  BY <1>0, <1>0a, <1>17, <1>18 DEF Good

\* A state of the interpreter whose invariant holds.
Fine(S) == S \in Sts /\ Good(S.th, S.cs)

\* findpcall returns a frame with a pending pcall, if any.
LEMMA FindPcall ==
    ASSUME NEW c, Len(c) \in Nat
    PROVE  findpcall(c) # 0 => findpcall(c) \in 1..Len(c) /\ c[findpcall(c)].ypcall
<1> DEFINE Y == {i \in 1..Len(c) : c[i].ypcall}
<1>1. SUFFICES ASSUME Y # {} PROVE findpcall(c) \in Y
  BY DEF findpcall
<1>2. Y \in SUBSET (1..Len(c))
  OBVIOUS
<1>3. \E m \in Y : \A k \in Y : k <= m
  BY <1>1, <1>2, Greatest
<1>4. QED
  BY <1>1, <1>3 DEF findpcall

\* What the longjmp to activation i leaves, and what the two callers of
\* luaD_rawrunprotected make of it.
LEMMA UnwindIs ==
    ASSUME NEW S \in Sts, NEW t \in Threads, NEW i \in 1..Len(S.cs), S.cs[i].nCcalls \in Nat
    PROVE  LET U == Unwind(S, t, i)
           IN  /\ U \in Sts /\ U.cs = SubSeq(S.cs, 1, i) /\ U.res = S.res
               /\ U.th = [S.th EXCEPT ![t] = [S.th[t] EXCEPT !.nCcalls = S.cs[i].nCcalls]]
<1> DEFINE U == Unwind(S, t, i)
<1>1. /\ U.cs = SubSeq(S.cs, 1, i) /\ U.res = S.res
      /\ U.th = [S.th EXCEPT ![t] = [S.th[t] EXCEPT !.nCcalls = S.cs[i].nCcalls]]
      /\ U = [th |-> U.th, cs |-> U.cs, res |-> U.res]
  <2>1. U = [S EXCEPT !.cs = SubSeq(S.cs, 1, i),
                      !.th = [S.th EXCEPT ![t] = [S.th[t] EXCEPT !.nCcalls = S.cs[i].nCcalls]]]
    BY Zenon DEF Unwind
  <2>2. S = [th |-> S.th, cs |-> S.cs, res |-> S.res]
    BY DEF Sts
  <2>3. U = [th |-> [S.th EXCEPT ![t] = [S.th[t] EXCEPT !.nCcalls = S.cs[i].nCcalls]],
             cs |-> SubSeq(S.cs, 1, i), res |-> S.res]
    BY <2>1, <2>2
  <2> HIDE DEF U
  <2>4. QED
    BY <2>3
<1>2. U.cs \in Seq(Acts)
  BY <1>1 DEF Sts
<1>3. S.th[t] \in LuaState /\ S.th \in [Threads -> LuaState]
  BY DEF Sts
<1>4. [S.th[t] EXCEPT !.nCcalls = S.cs[i].nCcalls] \in LuaState
  BY <1>3 DEF LuaState
<1>5. U.th \in [Threads -> LuaState]
  BY <1>1, <1>3, <1>4
<1> HIDE DEF U
<1>6. U \in Sts
  BY <1>1, <1>2, <1>5 DEF Sts
<1>7. QED
  BY <1>1, <1>6 DEF U

\* Two activations replaced by one.
LEMMA FrontFront ==
    ASSUME NEW s \in Seq(Acts), NEW i \in 2..Len(s), NEW a \in Acts
    PROVE  LET D == SubSeq(s, 1, i)
               E == Append(Front(Front(D)), a)
           IN  /\ Len(D) = i /\ D[i] = s[i]
               /\ Front(D) \in Seq(Acts) /\ Len(Front(D)) = i - 1 /\ Last(Front(D)) = s[i - 1]
               /\ E \in Seq(Acts) /\ Len(E) = i - 1 /\ E[i - 1] = a
               /\ \A j \in 1..(i - 2) : E[j] = s[j]
<1> DEFINE D == SubSeq(s, 1, i)
           F == Front(D)
           G == Front(F)
           E == Append(G, a)
<1>1. D \in Seq(Acts) /\ Len(D) = i /\ \A j \in 1..i : D[j] = s[j]
  OBVIOUS
<1> HIDE DEF D
<1>2. F = SubSeq(D, 1, i - 1)
  BY <1>1 DEF Front
<1>3. F \in Seq(Acts) /\ Len(F) = i - 1 /\ \A j \in 1..(i - 1) : F[j] = s[j]
  BY <1>1, <1>2
<1>4. Last(F) = s[i - 1]
  BY <1>3 DEF Last
<1> HIDE DEF F
<1>5. G = SubSeq(F, 1, i - 2)
  BY <1>3 DEF Front
<1>6. G \in Seq(Acts) /\ Len(G) = i - 2 /\ \A j \in 1..(i - 2) : G[j] = s[j]
  BY <1>3, <1>5
<1> HIDE DEF G
<1>7. E \in Seq(Acts) /\ Len(E) = i - 1 /\ E[i - 1] = a /\ \A j \in 1..(i - 2) : E[j] = s[j]
  BY <1>6
<1>8. QED
  BY <1>1, <1>3, <1>4, <1>7 DEF D, F, G

\* What luaD_pcall_fails leaves.
PcallFailed(U, t, run, R) ==
    LET s == R.th[t]
        c == U.th[t].ci
    IN  /\ R \in Sts /\ \A u \in Threads \ {t} : R.th[u] = U.th[u]
        /\ R.cs = Append(Front(Front(U.cs)), Body(t, "done"))
        /\ Len(s.ci) = run.ci /\ \A j \in 1..run.ci : s.ci[j] = c[j]
        /\ s.status = U.th[t].status /\ s.nCcalls = U.th[t].nCcalls
        /\ s.nny = run.nny /\ s.errfunc = run.errfunc

\* luaD_pcall_fails is that.
LEMMA PcallFails ==
    ASSUME NEW U \in Sts, NEW t \in Threads, NEW run \in RunAct, NEW status \in {"err", "errerr"},
           run.ci <= Len(U.th[t].ci), Front(Front(U.cs)) \in Seq(Acts)
    PROVE  PcallFailed(U, t, run, luaD_pcall_fails(U, t, run, status))
<1> DEFINE R == luaD_pcall_fails(U, t, run, status)
           c == U.th[t].ci
           s == [U.th[t] EXCEPT !.ci = SubSeq(c, 1, run.ci), !.nny = run.nny, !.errfunc = run.errfunc]
           F == Front(Front(U.cs))
<1>1. U.th[t] \in LuaState /\ U.th \in [Threads -> LuaState] /\ U = [th |-> U.th, cs |-> U.cs, res |-> U.res]
  BY DEF Sts
<1>2. c \in Seq(Info) /\ run.ci \in Nat /\ run.nny \in Nat /\ run.errfunc \in Nat
  BY <1>1, StateFields DEF RunAct
<1>3. SubSeq(c, 1, run.ci) \in Seq(Info) /\ Len(SubSeq(c, 1, run.ci)) = run.ci
      /\ \A j \in 1..run.ci : SubSeq(c, 1, run.ci)[j] = c[j]
  BY <1>2
<1>4. /\ s \in LuaState /\ s.ci = SubSeq(c, 1, run.ci) /\ s.nny = run.nny /\ s.errfunc = run.errfunc
      /\ s.status = U.th[t].status /\ s.nCcalls = U.th[t].nCcalls
  BY <1>1, <1>2, <1>3 DEF LuaState
<1>5. R = [th |-> [U.th EXCEPT ![t] = s], cs |-> Append(F, Body(t, "done")), res |-> status]
  <2>1. R = [U EXCEPT !.th = [U.th EXCEPT ![t] = s], !.cs = Append(F, Body(t, "done")), !.res = status]
    BY <1>1 DEF luaD_pcall_fails
  <2> HIDE DEF R, s, F
  <2>2. QED
    BY <1>1, <2>1
<1>6. Body(t, "done") \in Acts
  BY DEF Body, Acts, CAct
<1> HIDE DEF R, s, F
<1>7. Append(F, Body(t, "done")) \in Seq(Acts)
  BY <1>6 DEF F
<1>8. [U.th EXCEPT ![t] = s] \in [Threads -> LuaState]
  BY <1>1, <1>4
<1>9. R \in Sts
  BY <1>5, <1>7, <1>8 DEF Sts
<1>10. R.th = [U.th EXCEPT ![t] = s] /\ R.cs = Append(F, Body(t, "done"))
  BY <1>5
<1>11. R.th[t] = s /\ \A u \in Threads \ {t} : R.th[u] = U.th[u]
  BY <1>1, <1>10
<1>12. QED
  BY <1>3, <1>4, <1>9, <1>10, <1>11 DEF R, F, PcallFailed

\* What lua_resume_ends leaves.
ResumeEnded(S, t, run, R) ==
    LET s == R.th[t]
        a == [Last(Front(S.cs)) EXCEPT !.at = "done"]
    IN  /\ R \in Sts /\ \A u \in Threads \ {t} : R.th[u] = S.th[u]
        /\ R.cs = Append(Front(Front(S.cs)), a)
        /\ a \in Acts /\ a.f = "C" /\ a.th = Last(Front(S.cs)).th
        /\ s = [S.th[t] EXCEPT !.nny = run.nny, !.nCcalls = S.th[t].nCcalls - 1]
        /\ s.ci = S.th[t].ci /\ s.status = S.th[t].status /\ s.errfunc = S.th[t].errfunc
        /\ s.fresh = S.th[t].fresh /\ s.nny = run.nny

\* lua_resume_ends is that.
LEMMA ResumeEndsIs ==
    ASSUME NEW S \in Sts, NEW t \in Threads, NEW run \in RunAct, NEW out \in {"ok", "err", "errerr"},
           S.th[t].nCcalls >= 1, Front(Front(S.cs)) \in Seq(Acts), Last(Front(S.cs)) \in CAct
    PROVE  ResumeEnded(S, t, run, lua_resume_ends(S, t, run, out))
<1> DEFINE R == lua_resume_ends(S, t, run, out)
           s == [S.th[t] EXCEPT !.nny = run.nny, !.nCcalls = S.th[t].nCcalls - 1]
           F == Front(Front(S.cs))
           b == Last(Front(S.cs))
           a == [b EXCEPT !.at = "done"]
<1>1. S.th[t] \in LuaState /\ S.th \in [Threads -> LuaState] /\ S = [th |-> S.th, cs |-> S.cs, res |-> S.res]
  BY DEF Sts
<1>2. run.nny \in Nat /\ S.th[t].nCcalls - 1 \in Nat
  BY <1>1, StateFields DEF RunAct
<1>4. /\ s \in LuaState /\ s.ci = S.th[t].ci /\ s.nny = run.nny /\ s.errfunc = S.th[t].errfunc
      /\ s.status = S.th[t].status /\ s.nCcalls = S.th[t].nCcalls - 1 /\ s.fresh = S.th[t].fresh
  BY <1>1, <1>2 DEF LuaState
<1>5. R = [th |-> [S.th EXCEPT ![t] = s], cs |-> Append(F, a), res |-> out]
  <2>1. R = [S EXCEPT !.th = [S.th EXCEPT ![t] = s], !.cs = Append(F, a), !.res = out]
    BY <1>1 DEF lua_resume_ends
  <2> HIDE DEF R, s, F, a, b
  <2>2. QED
    BY <1>1, <2>1
<1> HIDE DEF b, F
<1>6. a \in Acts /\ a.f = "C" /\ a.th = b.th
  BY DEF Acts, CAct, b
<1> HIDE DEF R, s, a
<1>7. Append(F, a) \in Seq(Acts)
  BY <1>6 DEF F
<1>8. [S.th EXCEPT ![t] = s] \in [Threads -> LuaState]
  BY <1>1, <1>4
<1>9. R \in Sts
  BY <1>5, <1>7, <1>8 DEF Sts
<1>10. R.th = [S.th EXCEPT ![t] = s] /\ R.cs = Append(F, a)
  BY <1>5
<1>11. R.th[t] = s /\ \A u \in Threads \ {t} : R.th[u] = S.th[u]
  BY <1>1, <1>10
<1>12. QED
  BY <1>4, <1>6, <1>9, <1>10, <1>11 DEF R, F, s, a, b, ResumeEnded

\* What recover leaves.
Recovered(S, t, i, status, R) ==
    LET s == R.th[t]
        c == S.th[t].ci
    IN  /\ R \in Sts /\ \A u \in Threads \ {t} : R.th[u] = S.th[u]
        /\ R.cs = Append(S.cs, [f |-> "unroll", th |-> t, ud |-> status])
        /\ Len(s.ci) = i /\ \A j \in 1..i : s.ci[j] = c[j]
        /\ s.status = S.th[t].status /\ s.nCcalls = S.th[t].nCcalls
        /\ s.nny = 0 /\ s.errfunc = c[i].olderr

\* recover is that.
LEMMA RecoverIs ==
    ASSUME NEW S \in Sts, NEW t \in Threads, NEW status \in {"err", "errerr"},
           NEW i \in 1..Len(S.th[t].ci)
    PROVE  Recovered(S, t, i, status, recover(S, t, i, status))
<1> DEFINE R == recover(S, t, i, status)
           c == S.th[t].ci
           s == [S.th[t] EXCEPT !.ci = SubSeq(c, 1, i), !.nny = 0, !.errfunc = c[i].olderr]
           a == [f |-> "unroll", th |-> t, ud |-> status]
<1>1. S.th[t] \in LuaState /\ S.th \in [Threads -> LuaState] /\ S = [th |-> S.th, cs |-> S.cs, res |-> S.res]
      /\ S.cs \in Seq(Acts) /\ S.res \in {"ok", "err", "errerr"}
  BY DEF Sts
<1>2. c \in Seq(Info) /\ c[i] \in Info
  BY <1>1, StateFields
<1>2a. c[i].olderr \in Nat
  BY <1>2 DEF Info
<1>3. SubSeq(c, 1, i) \in Seq(Info) /\ Len(SubSeq(c, 1, i)) = i
      /\ \A j \in 1..i : SubSeq(c, 1, i)[j] = c[j]
  BY <1>2
<1>4. /\ s \in LuaState /\ s.ci = SubSeq(c, 1, i) /\ s.nny = 0 /\ s.errfunc = c[i].olderr
      /\ s.status = S.th[t].status /\ s.nCcalls = S.th[t].nCcalls
  BY <1>1, <1>2a, <1>3 DEF LuaState
<1>5. R = [th |-> [S.th EXCEPT ![t] = s], cs |-> Append(S.cs, a), res |-> S.res]
  <2>1. R = [S EXCEPT !.th = [S.th EXCEPT ![t] = s], !.cs = Append(S.cs, a)]
    BY <1>1 DEF recover
  <2> HIDE DEF R, s, a
  <2>2. QED
    BY <1>1, <2>1
<1>6. a \in Acts
  BY DEF Acts, UnrollAct
<1> HIDE DEF R, s
<1>7. Append(S.cs, a) \in Seq(Acts)
  BY <1>1, <1>6
<1>8. [S.th EXCEPT ![t] = s] \in [Threads -> LuaState]
  BY <1>1, <1>4
<1> HIDE DEF a
<1>9. R \in Sts
  BY <1>1, <1>5, <1>7, <1>8 DEF Sts
<1>10. R.th = [S.th EXCEPT ![t] = s] /\ R.cs = Append(S.cs, a)
  BY <1>5
<1>11. R.th[t] = s /\ \A u \in Threads \ {t} : R.th[u] = S.th[u]
  BY <1>1, <1>10
<1>12. QED
  BY <1>3, <1>4, <1>9, <1>10, <1>11 DEF R, a, Recovered

\* What the longjmp finds where it lands.
LEMMA Landing ==
    ASSUME NEW S, NEW lev, NEW t, Throwing(S, lev, t)
    PROVE  LET i == errorJmp(S, t)
               run == S.cs[i]
               U == Unwind(S, t, i)
               m == i - 1
           IN  /\ t \in Threads /\ i \in 2..Len(S.cs) /\ m \in 1..(Len(S.cs) - 1)
               /\ run \in RunAct /\ (IsRun(run, "pcall") \/ IsRun(run, "resume")) /\ run.th = t
               /\ \A j \in i..Len(S.cs) : S.cs[j].th = t
               /\ \A j \in (i + 1)..Len(S.cs) : S.cs[j].f # "run"
               /\ U \in Sts /\ U.cs = SubSeq(S.cs, 1, i) /\ U.th[t].nCcalls = run.nCcalls
               /\ U.th[t].ci = S.th[t].ci /\ U.th[t].status = S.th[t].status
               /\ U.th[t].errfunc = S.th[t].errfunc
               /\ \A u \in Threads \ {t} : U.th[u] = S.th[u]
               /\ Front(Front(U.cs)) \in Seq(Acts) /\ Last(Front(U.cs)) = S.cs[i - 1]
               /\ S.th[t].status = "ok" /\ CiOK(S.th[t].ci) /\ Len(S.th[t].ci) \in Nat
               /\ Pos(S.th, S.cs, lev, i) /\ Adj(S.th, S.cs, lev, m) /\ m + 1 = i
<1> DEFINE C == S.cs
           i == errorJmp(S, t)
           run == C[i]
           U == Unwind(S, t, i)
           m == i - 1
<1>1. S \in Sts /\ Typed(S.th, C, lev) /\ Core(S.th, C, lev) /\ Len(C) > 1 /\ t = C[Len(C)].th
  BY DEF Throwing
<1>2. /\ i \in 2..Len(C) /\ C[i].f = "run" /\ C[i].th = t
      /\ \A j \in i..Len(C) : C[j].th = t
      /\ \A j \in (i + 1)..Len(C) : C[j].f # "run"
  BY ErrorJmp
<1> HIDE DEF i
<1>3. /\ Len(C) \in Nat \ {0} /\ C \in Seq(Acts) /\ \A j \in 1..Len(C) : C[j] \in Acts /\ C[j].th \in Threads
      /\ \A u \in Threads : S.th[u] \in LuaState /\ Len(S.th[u].ci) \in Nat
      /\ S.th \in [Threads -> LuaState]
  BY <1>1, TypedFacts
<1>4. /\ i \in 1..Len(C) /\ t \in Threads /\ m \in 1..(Len(C) - 1) /\ m \in 1..Len(C) /\ i \in Nat
      /\ m + 1 = i /\ i - 1 = m /\ Len(C) \in 1..Len(C)
  BY <1>1, <1>2, <1>3
<1>5. run \in RunAct /\ run.f = "run"
  BY <1>2, <1>3, <1>4, ActFields
<1>6. run.of \in {"pcall", "resume"} /\ run.nCcalls \in Nat
  BY <1>5 DEF RunAct
<1>7. IsRun(run, "pcall") \/ IsRun(run, "resume")
  BY <1>5, <1>6 DEF IsRun
<1>8. /\ U \in Sts /\ U.cs = SubSeq(C, 1, i)
      /\ U.th = [S.th EXCEPT ![t] = [S.th[t] EXCEPT !.nCcalls = run.nCcalls]]
  BY <1>1, <1>4, <1>6, UnwindIs
<1> HIDE DEF U
<1>9. U.th[t] = [S.th[t] EXCEPT !.nCcalls = run.nCcalls] /\ \A u \in Threads \ {t} : U.th[u] = S.th[u]
  BY <1>3, <1>4, <1>8
<1>10. /\ U.th[t].nCcalls = run.nCcalls /\ U.th[t].ci = S.th[t].ci /\ U.th[t].status = S.th[t].status
       /\ U.th[t].errfunc = S.th[t].errfunc
  BY <1>3, <1>4, <1>9 DEF LuaState
<1>11. Front(Front(U.cs)) \in Seq(Acts) /\ Last(Front(U.cs)) = C[m]
  <2>0. run \in Acts
    BY <1>5 DEF Acts
  <2>0a. /\ Front(SubSeq(C, 1, i)) \in Seq(Acts) /\ Len(Front(SubSeq(C, 1, i))) = i - 1
         /\ Last(Front(SubSeq(C, 1, i))) = C[i - 1]
    BY <1>2, <1>3, <2>0, FrontFront
  <2>1. Front(U.cs) \in Seq(Acts) /\ Len(Front(U.cs)) = i - 1 /\ Last(Front(U.cs)) = C[i - 1]
    BY <1>8, <2>0a
  <2>2. Front(Front(U.cs)) = SubSeq(Front(U.cs), 1, i - 2)
    BY <1>4, <2>1 DEF Front
  <2>3. Front(Front(U.cs)) \in Seq(Acts)
    <3> DEFINE F == Front(U.cs)
    <3>1. F \in Seq(Acts) /\ Len(F) = i - 1 /\ Front(F) = SubSeq(F, 1, i - 2)
      BY <2>1, <2>2
    <3> HIDE DEF F
    <3>2. Front(F) \in Seq(Acts)
      BY <1>4, <3>1
    <3>3. QED
      BY <3>2 DEF F
  <2>4. QED
    BY <1>4, <2>1, <2>3
<1>12. S.th[t].status = "ok" /\ CiOK(S.th[t].ci)
  <2>1. ThOK(S.th, C, t)
    BY <1>1, <1>4 DEF Core
  <2>2. t \in ActiveIn(C)
    BY <1>1, <1>4 DEF ActiveIn
  <2>3. QED
    BY <2>1, <2>2 DEF ThOK
<1>13. Pos(S.th, C, lev, i) /\ Adj(S.th, C, lev, m)
  BY <1>1, <1>4 DEF Core
<1> HIDE DEF m
<1>14. QED
  BY <1>2, <1>3, <1>4, <1>5, <1>7, <1>8, <1>9, <1>10, <1>11, <1>12, <1>13 DEF i, U, m

\* An error of the running thread, whatever it interrupts.
LEMMA ThrowError ==
    ASSUME NEW S, NEW lev, NEW t, Throwing(S, lev, t), NEW status \in {"err", "errerr"}
    PROVE  Fine(luaD_throw(S, t, status))
<1> DEFINE T == S.th
           C == S.cs
           i == errorJmp(S, t)
           run == C[i]
           U == Unwind(S, t, i)
           m == i - 1
           R == luaD_throw(S, t, status)
<1>1. /\ t \in Threads /\ i \in 2..Len(C) /\ m \in 1..(Len(C) - 1)
      /\ run \in RunAct /\ (IsRun(run, "pcall") \/ IsRun(run, "resume")) /\ run.th = t
      /\ \A j \in i..Len(C) : C[j].th = t
      /\ U \in Sts /\ U.cs = SubSeq(C, 1, i) /\ U.th[t].nCcalls = run.nCcalls
      /\ U.th[t].ci = T[t].ci /\ U.th[t].status = T[t].status
      /\ \A u \in Threads \ {t} : U.th[u] = T[u]
      /\ Front(Front(U.cs)) \in Seq(Acts) /\ Last(Front(U.cs)) = C[i - 1]
      /\ T[t].status = "ok" /\ CiOK(T[t].ci) /\ Len(T[t].ci) \in Nat
      /\ Pos(T, C, lev, i) /\ Adj(T, C, lev, m) /\ m + 1 = i
  BY Landing
<1>2. Typed(T, C, lev) /\ Core(T, C, lev) /\ t = C[Len(C)].th /\ C \in Seq(Acts) /\ T \in [Threads -> LuaState]
  BY DEF Throwing, Sts
<1>3. R = CASE run.of = "pcall" -> luaD_pcall_fails(U, t, run, status)
            [] run.of = "resume" /\ status = "resume_error" -> lua_resume_ends(U, t, run, "err")
            [] run.of = "resume" /\ status = "yield" -> lua_resume_ends(U, t, run, "ok")
            [] OTHER -> resume_fails(U, t, run, status)
  BY DEF luaD_throw
<1>4. Len(C) \in Nat /\ i \in Nat /\ m \in 1..Len(C) /\ C[m] \in Acts /\ C[m].th \in Threads
  <2>1. Len(C) \in Nat
    BY <1>2
  <2>2. i \in Nat /\ m \in 1..Len(C)
    BY <1>1, <2>1
  <2>3. QED
    BY <1>2, <2>1, <2>2, TypedFacts
<1> HIDE DEF U, i, R, T, m, C, run
<1>5. CASE IsRun(run, "pcall")
  <2>1. R = luaD_pcall_fails(U, t, run, status)
    BY <1>3, <1>5 DEF IsRun
  <2>2. run.ci <= Len(U.th[t].ci)
    <3>1. run.ci = lev[i] /\ lev[i] <= Len(T[C[i].th].ci)
      BY <1>1, <1>5, Zenon DEF Pos, run
    <3>2. C[i].th = t
      BY <1>1 DEF run
    <3>3. U.th[t].ci = T[t].ci
      BY <1>1
    <3>4. QED
      BY <3>1, <3>2, <3>3
  <2>3. /\ R \in Sts /\ \A u \in Threads \ {t} : R.th[u] = U.th[u]
        /\ R.cs = Append(Front(Front(U.cs)), Body(t, "done"))
        /\ Len(R.th[t].ci) = run.ci /\ \A j \in 1..run.ci : R.th[t].ci[j] = U.th[t].ci[j]
        /\ R.th[t].status = U.th[t].status /\ R.th[t].nCcalls = U.th[t].nCcalls
        /\ R.th[t].nny = run.nny /\ R.th[t].errfunc = run.errfunc
    <3>1. U \in Sts /\ t \in Threads /\ run \in RunAct /\ Front(Front(U.cs)) \in Seq(Acts)
      BY <1>1
    <3>2. QED
      <4>1. PcallFailed(U, t, run, luaD_pcall_fails(U, t, run, status))
        BY <2>2, <3>1, PcallFails
      <4>2. PcallFailed(U, t, run, R)
        BY <2>1, <4>1
      <4>3. QED
        BY <4>2, Zenon DEF PcallFailed
  <2>4. Body(t, "done") \in Acts
    BY <1>1 DEF Body, Acts, CAct
  <2>5. /\ R.cs \in Seq(Acts) /\ Len(R.cs) = i - 1 /\ R.cs[i - 1] = Body(t, "done")
        /\ \A j \in 1..(i - 2) : R.cs[j] = C[j]
    <3>1. C \in Seq(Acts) /\ i \in 2..Len(C) /\ R.cs = Append(Front(Front(SubSeq(C, 1, i))), Body(t, "done"))
      BY <1>1, <1>2, <2>3
    <3>2. QED
      BY <2>4, <3>1, FrontFront
  <2>6. R.th \in [Threads -> LuaState] /\ \A u \in Threads \ {t} : R.th[u] = T[u]
    BY <1>1, <2>3 DEF Sts
  <2>7. Good(R.th, R.cs)
    <3>1. /\ \A j \in i..Len(C) : C[j].th = t
          /\ IsRun(C[i], "pcall") /\ i \in 2..Len(C)
          /\ Len(R.th[t].ci) = C[i].ci /\ \A j \in 1..C[i].ci : R.th[t].ci[j] = T[t].ci[j]
          /\ R.th[t].status = "ok" /\ R.th[t].nny = C[i].nny /\ R.th[t].errfunc = C[i].errfunc
          /\ R.th[t].nCcalls = C[i].nCcalls
      BY <1>1, <1>5, <2>3 DEF run
    <3>2. PcallEnded(T, C, R.th, R.cs, i)
      BY <1>2, <2>5, <2>6, <3>1 DEF PcallEnded
    <3>3. QED
      BY <1>2, <3>2, PcallEnds
  <2>8. QED
    BY <2>3, <2>7 DEF Fine, R
<1>6. CASE IsRun(run, "resume")
  <2>1. R = resume_fails(U, t, run, status)
    BY <1>3, <1>6 DEF IsRun
  <2> DEFINE j == findpcall(U.th[t].ci)
  <2>2. j # 0 => j \in 1..Len(T[t].ci) /\ T[t].ci[j].ypcall
    BY <1>1, FindPcall
  <2> HIDE DEF j
  <2>3. CASE j # 0
    <3>1. R = recover(U, t, j, status)
      BY <2>1, <2>3 DEF resume_fails, j
    <3>2. /\ R \in Sts /\ \A u \in Threads \ {t} : R.th[u] = U.th[u]
          /\ R.cs = Append(U.cs, [f |-> "unroll", th |-> t, ud |-> status])
          /\ Len(R.th[t].ci) = j /\ \A l \in 1..j : R.th[t].ci[l] = U.th[t].ci[l]
          /\ R.th[t].status = U.th[t].status /\ R.th[t].nCcalls = U.th[t].nCcalls
          /\ R.th[t].nny = 0 /\ R.th[t].errfunc = U.th[t].ci[j].olderr
      <4>1. U \in Sts /\ t \in Threads /\ j \in 1..Len(U.th[t].ci)
        BY <1>1, <2>2, <2>3
      <4>2. QED
        <5>1. Recovered(U, t, j, status, recover(U, t, j, status))
          BY <4>1, RecoverIs
        <5>2. Recovered(U, t, j, status, R)
          BY <3>1, <5>1
        <5>3. QED
          BY <5>2, Zenon DEF Recovered
    <3>3. R.th \in [Threads -> LuaState] /\ \A u \in Threads \ {t} : R.th[u] = T[u]
      BY <1>1, <3>2 DEF Sts
    <3>4. GoesOn(T, C, R.th, R.cs, i, j, status)
      <4>1. /\ i \in 2..Len(C) /\ (\A l \in i..Len(C) : C[l].th = t) /\ IsRun(C[i], "resume")
            /\ j \in 1..Len(T[t].ci) /\ T[t].ci[j].ypcall
            /\ Len(R.th[t].ci) = j /\ \A l \in 1..j : R.th[t].ci[l] = T[t].ci[l]
            /\ R.th[t].status = "ok" /\ R.th[t].nny = 0 /\ R.th[t].errfunc = T[t].ci[j].olderr
            /\ R.th[t].nCcalls = C[i].nCcalls
            /\ R.cs = Append(SubSeq(C, 1, i), [f |-> "unroll", th |-> t, ud |-> status])
        BY <1>1, <1>6, <2>2, <2>3, <3>2 DEF run
      <4>2. QED
        BY <1>2, <3>3, <4>1 DEF GoesOn
    <3>5. QED
      BY <1>2, <3>2, <3>4, Recovers DEF Fine, R
  <2>4. CASE j = 0
    <3> DEFINE V == [U EXCEPT !.th[t].status = status]
    <3>1. R = lua_resume_ends(V, t, run, status)
      BY <2>1, <2>4 DEF resume_fails, j
    <3>2. /\ V \in Sts /\ V.cs = U.cs /\ \A u \in Threads \ {t} : V.th[u] = U.th[u]
          /\ V.th[t].nCcalls = run.nCcalls /\ V.th[t].ci = T[t].ci /\ V.th[t].status = status
      <4>1. U.th[t] \in LuaState /\ U.th \in [Threads -> LuaState] /\ U = [th |-> U.th, cs |-> U.cs, res |-> U.res]
            /\ U.cs \in Seq(Acts) /\ U.res \in {"ok", "err", "errerr"}
        BY <1>1 DEF Sts
      <4> DEFINE s == [U.th[t] EXCEPT !.status = status]
      <4>2. s \in LuaState /\ s.nCcalls = run.nCcalls /\ s.ci = T[t].ci /\ s.status = status
        BY <1>1, <4>1 DEF LuaState
      <4>3. V = [th |-> [U.th EXCEPT ![t] = s], cs |-> U.cs, res |-> U.res]
        BY <4>1
      <4> HIDE DEF s, V
      <4>4. [U.th EXCEPT ![t] = s] \in [Threads -> LuaState]
        BY <4>1, <4>2
      <4>5. V.th = [U.th EXCEPT ![t] = s] /\ V.cs = U.cs
        BY <4>3
      <4>6. V \in Sts
        BY <4>1, <4>3, <4>4 DEF Sts
      <4>7. V.th[t] = s /\ \A u \in Threads \ {t} : V.th[u] = U.th[u]
        BY <1>1, <4>1, <4>5
      <4>8. QED
        BY <4>2, <4>5, <4>6, <4>7
    <3> HIDE DEF V
    <3>3. C[m].f = "C" /\ C[m].th # t /\ run.nny = 1 /\ run.nCcalls >= 1
      <4>1. C[m].f = "C"
        BY <1>1, <1>6, Zenon DEF Adj, run
      <4>2. run.nny = 1 /\ run.nCcalls = Cardinality(Nested(C, i))
        <5>1. run.f = "run"
          BY <1>6 DEF IsRun
        <5>2. QED
          BY <1>1, <1>6, <5>1, Zenon DEF Pos, run
      <4>3. Cardinality(Nested(C, m)) \in Nat /\ Cardinality(Nested(C, m + 1)) = Cardinality(Nested(C, m)) + 1
        <5>1. IsRun(C[m + 1], "resume") /\ m \in Nat
          BY <1>1, <1>4, <1>6 DEF run
        <5>2. QED
          BY <5>1, NestedStep
      <4>4. C[m].th # t
        <5>1. Order(C, lev)
          BY <1>2 DEF Core
        <5>2. m < i /\ i \in 1..Len(C)
          BY <1>1, <1>4
        <5>3. QED
          BY <1>1, <1>4, <1>6, <5>1, <5>2 DEF Order, run
      <4>5. QED
        BY <1>1, <4>1, <4>2, <4>3, <4>4
    <3>4. C[m] \in CAct /\ Last(Front(V.cs)) = C[m] /\ Front(Front(V.cs)) \in Seq(Acts)
      BY <1>1, <1>4, <3>2, <3>3, ActFields DEF m
    <3> DEFINE a == [C[m] EXCEPT !.at = "done"]
    <3>5. /\ R \in Sts /\ \A u \in Threads \ {t} : R.th[u] = V.th[u]
          /\ R.cs = Append(Front(Front(V.cs)), a)
          /\ a \in Acts /\ a.f = "C" /\ a.th = C[m].th
          /\ R.th[t].ci = V.th[t].ci /\ R.th[t].status = V.th[t].status
          /\ R.th[t].nny = run.nny
      <4>1. V.th[t].nCcalls >= 1
        BY <3>2, <3>3
      <4>2. QED
        <5>1. V \in Sts /\ t \in Threads /\ run \in RunAct /\ Front(Front(V.cs)) \in Seq(Acts)
              /\ Last(Front(V.cs)) \in CAct /\ Last(Front(V.cs)) = C[m]
          BY <1>1, <3>2, <3>4
        <5>2. QED
          <6>1. ResumeEnded(V, t, run, lua_resume_ends(V, t, run, status))
            BY <4>1, <5>1, ResumeEndsIs
          <6>2. ResumeEnded(V, t, run, R)
            BY <3>1, <6>1
          <6>3. QED
            BY <5>1, <6>2 DEF ResumeEnded
    <3> HIDE DEF a
    <3>6. /\ R.cs \in Seq(Acts) /\ Len(R.cs) = m /\ R.cs[m] = a
          /\ \A l \in 1..(m - 1) : R.cs[l] = C[l]
      <4>1. i - 1 = m /\ i - 2 = m - 1
        BY <1>1, <1>4 DEF m
      <4>2. /\ R.cs \in Seq(Acts) /\ Len(R.cs) = i - 1 /\ R.cs[i - 1] = a
            /\ \A l \in 1..(i - 2) : R.cs[l] = C[l]
        <5>1. R.cs = Append(Front(Front(SubSeq(C, 1, i))), a)
          BY <1>1, <3>2, <3>5
        <5>2. QED
          <6>1. C \in Seq(Acts) /\ i \in 2..Len(C) /\ a \in Acts
            BY <1>1, <1>2, <3>5
          <6>2. QED
            BY <5>1, <6>1, FrontFront
      <4>3. QED
        BY <4>1, <4>2
    <3>7. Resting(R.th[t])
      BY <1>1, <3>2, <3>3, <3>5 DEF Resting
    <3>8. R.th \in [Threads -> LuaState] /\ \A u \in Threads \ {t} : R.th[u] = T[u]
      BY <1>1, <3>2, <3>5 DEF Sts
    <3>9. Suspends(T, C, R.th, R.cs, m)
      <4>1. Alike(R.cs[m], C[m])
        BY <3>3, <3>5, <3>6 DEF Alike
      <4>2. C[m + 1].th = t /\ IsRun(C[m + 1], "resume")
        BY <1>1, <1>6 DEF run
      <4>3. QED
        BY <1>1, <1>2, <3>6, <3>7, <3>8, <4>1, <4>2 DEF Suspends
    <3>10. QED
      BY <1>2, <3>5, <3>9, ResumeEnds DEF Fine, R
  <2>5. QED
    BY <2>3, <2>4
<1>7. QED
  BY <1>1, <1>5, <1>6

\* The state of thread t changes in some of the fields that lua_State has.
SetTo(S, t, s, R) ==
    /\ R \in Sts /\ R.cs = S.cs /\ R.res = S.res
    /\ R.th = [S.th EXCEPT ![t] = s] /\ R.th[t] = s /\ \A u \in Threads \ {t} : R.th[u] = S.th[u]
    /\ R = [th |-> [S.th EXCEPT ![t] = s], cs |-> S.cs, res |-> S.res]

\* A state with another lua_State for one thread.
LEMMA Sets ==
    ASSUME NEW S \in Sts, NEW t \in Threads, NEW s \in LuaState
    PROVE  SetTo(S, t, s, [S EXCEPT !.th[t] = s])
<1> DEFINE R == [S EXCEPT !.th[t] = s]
<1>1. S.th \in [Threads -> LuaState] /\ S = [th |-> S.th, cs |-> S.cs, res |-> S.res]
      /\ S.cs \in Seq(Acts) /\ S.res \in {"ok", "err", "errerr"}
  BY DEF Sts
<1> DEFINE T == [S.th EXCEPT ![t] = s]
<1>2. R = [S EXCEPT !.th = T]
  OBVIOUS
<1> HIDE DEF R
<1>3. T \in [Threads -> LuaState] /\ T[t] = s /\ \A u \in Threads \ {t} : T[u] = S.th[u]
  BY <1>1
<1> HIDE DEF T
<1>4. R = [th |-> T, cs |-> S.cs, res |-> S.res]
  BY <1>1, <1>2
<1>5. R.th = T /\ R.cs = S.cs /\ R.res = S.res
  BY <1>4
<1>6. R \in Sts
  BY <1>1, <1>3, <1>4 DEF Sts
<1>7. QED
  BY <1>3, <1>4, <1>5, <1>6 DEF T, R, SetTo

\* A yield of a thread that may yield.
Yielding(S, lev, t) ==
    LET c == S.th[t].ci
        L == Len(S.cs)
    IN  /\ Throwing(S, lev, t) /\ S.cs[L].f = "C" /\ lev[L] = Len(c)
        /\ c[Len(c)].fn \notin Prot /\ S.th[t].errfunc = Handler(c, Len(c))
        /\ S.th[t].nny = 0

\* The longjmp of a yield suspends the thread.
LEMMA ThrowYield ==
    ASSUME NEW S, NEW lev, NEW t, Yielding(S, lev, t)
    PROVE  Fine(luaD_throw([S EXCEPT !.th[t].status = "yield"], t, "yield"))
<1> DEFINE Y == [S EXCEPT !.th[t].status = "yield"]
           T == S.th
           C == S.cs
           L == Len(C)
           c == T[t].ci
           i == errorJmp(S, t)
           run == C[i]
           U == Unwind(Y, t, i)
           m == i - 1
           R == luaD_throw(Y, t, "yield")
<1>0. /\ Throwing(S, lev, t) /\ C[L].f = "C" /\ lev[L] = Len(c)
      /\ c[Len(c)].fn \notin Prot /\ T[t].errfunc = Handler(c, Len(c))
      /\ T[t].nny = 0
  BY DEF Yielding
<1>1. /\ t \in Threads /\ i \in 2..L /\ m \in 1..(L - 1)
      /\ run \in RunAct /\ (IsRun(run, "pcall") \/ IsRun(run, "resume")) /\ run.th = t
      /\ \A j \in i..L : C[j].th = t
      /\ CiOK(c) /\ Len(c) \in Nat
      /\ Pos(T, C, lev, i) /\ Adj(T, C, lev, m) /\ m + 1 = i
  BY <1>0, Landing
<1>2. /\ Typed(T, C, lev) /\ Core(T, C, lev) /\ t = C[L].th /\ C \in Seq(Acts) /\ T \in [Threads -> LuaState]
      /\ S \in Sts
  BY <1>0 DEF Throwing, Sts
<1>3. /\ L \in Nat \ {0} /\ i \in 1..L /\ i \in Nat /\ m \in 1..L /\ m \in Nat /\ L \in 1..L
      /\ T[t] \in LuaState /\ C[m] \in Acts /\ C[m].th \in Threads
  <2>1. L \in Nat \ {0} /\ T[t] \in LuaState
    BY <1>1, <1>2, TypedFacts
  <2>2. i \in 1..L /\ i \in Nat /\ m \in 1..L /\ m \in Nat /\ L \in 1..L
    BY <1>1, <2>1
  <2>3. QED
    BY <1>2, <2>1, <2>2, TypedFacts
<1> DEFINE s == [T[t] EXCEPT !.status = "yield"]
<1>4. /\ s \in LuaState /\ s.ci = c /\ s.nny = 0 /\ s.errfunc = T[t].errfunc /\ s.status = "yield"
      /\ s.nCcalls = T[t].nCcalls
  BY <1>0, <1>3 DEF LuaState
<1>5. Y \in Sts /\ Y.cs = C /\ Y.th[t] = s /\ \A u \in Threads \ {t} : Y.th[u] = T[u]
  <2>1. Y = [S EXCEPT !.th[t] = s]
    OBVIOUS
  <2>2. SetTo(S, t, s, [S EXCEPT !.th[t] = s])
    BY <1>1, <1>2, <1>4, Sets
  <2> HIDE DEF Y, s
  <2>3. QED
    BY <2>1, <2>2 DEF SetTo
<1>6. errorJmp(Y, t) = i
  BY <1>5 DEF errorJmp
<1> HIDE DEF Y, s, T, i, m, L, c
<1>7. t # MainThread /\ IsRun(run, "resume") /\ \A j \in 1..(Len(c) - 1) : Soft(c[j])
  <2>1. Calls(C, L, t) = {} /\ t # MainThread
    <3>1. T[t].nny = Cardinality(Calls(C, L, t)) + One(t = MainThread)
      <4>1. ThOK(T, C, t) /\ t \in ActiveIn(C)
        BY <1>1, <1>2, <1>3 DEF Core, ActiveIn, L
      <4>2. QED
        BY <4>1 DEF ThOK, L
    <3>2. /\ Cardinality(Calls(C, L, t)) \in Nat
          /\ Cardinality(Calls(C, L, t)) = 0 <=> Calls(C, L, t) = {}
      <4>1. L \in Nat
        BY <1>3
      <4>2. QED
        BY <4>1, CallsStep
    <3>3. One(t = MainThread) = IF t = MainThread THEN 1 ELSE 0
      BY DEF One
    <3>4. QED
      BY <1>0, <3>1, <3>2, <3>3
  <2>2. Pos(T, C, lev, L) /\ C[L].th = t
    BY <1>2, <1>3 DEF Core, L
  <2>3. /\ \A j \in 1..(lev[L] - 1) : Soft(T[C[L].th].ci[j])
        /\ \A j \in 1..L : C[j].th = t => ~IsRun(C[j], "pcall")
    <3>1. C[L].f = "C"
      BY <1>0
    <3>2. Calls(C, L, C[L].th) = {} /\ C[L].th # MainThread
      BY <2>1, <2>2
    <3>3. /\ \A j \in 1..(lev[L] - 1) : Soft(T[C[L].th].ci[j])
          /\ \A j \in 1..L : C[j].th = C[L].th => ~IsRun(C[j], "pcall")
      BY <2>2, <3>1, <3>2 DEF Pos
    <3>4. QED
      BY <2>2, <3>3
  <2>4. QED
    BY <1>0, <1>1, <1>3, <2>1, <2>2, <2>3 DEF c
<1>8. C[m].f = "C" /\ C[m].th # t /\ run.nny = 1 /\ run.nCcalls >= 1 /\ run.nCcalls \in Nat
  <2>0. IsRun(C[m + 1], "resume") /\ m \in Nat /\ C[i].th = t
    BY <1>1, <1>3, <1>7
  <2>1. C[m].f = "C"
    BY <1>1, <2>0, Zenon DEF Adj
  <2>2. run.nny = 1 /\ run.nCcalls = Cardinality(Nested(C, i))
    <3>1. run.f = "run"
      BY <1>7 DEF IsRun
    <3>2. QED
      BY <1>1, <1>7, <3>1, Zenon DEF Pos
  <2>3. Cardinality(Nested(C, m)) \in Nat /\ Cardinality(Nested(C, m + 1)) = Cardinality(Nested(C, m)) + 1
    BY <2>0, NestedStep
  <2>4. C[m].th # t
    <3>1. Order(C, lev)
      BY <1>2 DEF Core
    <3>2. m < i /\ i \in 1..Len(C) /\ m \in 1..Len(C)
      BY <1>1, <1>3 DEF L
    <3>3. QED
      BY <1>1, <2>0, <3>1, <3>2 DEF Order
  <2>5. QED
    BY <1>1, <2>1, <2>2, <2>3, <2>4
<1> HIDE DEF C
<1>9. /\ U \in Sts /\ U.cs = SubSeq(C, 1, i) /\ \A u \in Threads \ {t} : U.th[u] = T[u]
      /\ U.th[t].ci = c /\ U.th[t].status = "yield" /\ U.th[t].errfunc = T[t].errfunc
      /\ U.th[t].nCcalls = run.nCcalls
  <2>1. U \in Sts /\ U.cs = SubSeq(Y.cs, 1, i)
        /\ U.th = [Y.th EXCEPT ![t] = [Y.th[t] EXCEPT !.nCcalls = Y.cs[i].nCcalls]]
    <3>1. i \in 1..Len(Y.cs) /\ Y.cs[i].nCcalls \in Nat
      BY <1>3, <1>5, <1>8 DEF L
    <3>2. Y \in Sts /\ t \in Threads
      BY <1>1, <1>5
    <3>3. QED
      BY <3>1, <3>2, UnwindIs
  <2>2. Y.th \in [Threads -> LuaState]
    BY <1>5 DEF Sts
  <2> HIDE DEF U
  <2>3. U.th[t] = [s EXCEPT !.nCcalls = run.nCcalls] /\ \A u \in Threads \ {t} : U.th[u] = T[u]
    BY <1>1, <1>5, <2>1, <2>2
  <2>4. QED
    BY <1>4, <1>5, <2>1, <2>3 DEF LuaState
<1>10. R = lua_resume_ends(U, t, run, "ok")
  <2>1. R = LET k == errorJmp(Y, t)
                r == Y.cs[k]
                V == Unwind(Y, t, k)
            IN  CASE r.of = "pcall" -> luaD_pcall_fails(V, t, r, "yield")
                  [] r.of = "resume" /\ "yield" = "resume_error" -> lua_resume_ends(V, t, r, "err")
                  [] r.of = "resume" /\ "yield" = "yield" -> lua_resume_ends(V, t, r, "ok")
                  [] OTHER -> resume_fails(V, t, r, "yield")
    BY DEF luaD_throw
  <2>2. run.of = "resume" /\ Y.cs[i] = run
    BY <1>5, <1>7 DEF IsRun
  <2> HIDE DEF R
  <2>3. QED
    BY <1>6, <2>1, <2>2
<1> HIDE DEF U, R, run
<1>11. /\ C[m] \in CAct /\ Last(Front(U.cs)) = C[m] /\ Front(Front(U.cs)) \in Seq(Acts)
  <2>1. C[m] \in CAct
    BY <1>3, <1>8, ActFields
  <2>2. errorJmp(S, t) = i
    BY DEF i
  <2>3. LET V == Unwind(S, t, errorJmp(S, t))
        IN  V.cs = SubSeq(C, 1, i) /\ Front(Front(V.cs)) \in Seq(Acts) /\ Last(Front(V.cs)) = C[i - 1]
    BY <1>0, Landing DEF C, i
  <2>4. QED
    BY <1>1, <1>9, <2>1, <2>3 DEF m
<1> DEFINE a == [C[m] EXCEPT !.at = "done"]
<1>12. /\ R \in Sts /\ \A u \in Threads \ {t} : R.th[u] = U.th[u]
       /\ R.cs = Append(Front(Front(U.cs)), a)
       /\ a \in Acts /\ a.f = "C" /\ a.th = C[m].th
       /\ R.th[t].ci = c /\ R.th[t].status = "yield" /\ R.th[t].errfunc = T[t].errfunc
       /\ R.th[t].nny = run.nny
  <2>1. ResumeEnded(U, t, run, lua_resume_ends(U, t, run, "ok"))
    <3>1. U.th[t].nCcalls >= 1 /\ "ok" \in {"ok", "err", "errerr"} /\ Last(Front(U.cs)) \in CAct
      BY <1>8, <1>9, <1>11
    <3>2. QED
      BY <1>1, <1>9, <1>11, <3>1, ResumeEndsIs
  <2>2. ResumeEnded(U, t, run, R)
    BY <1>10, <2>1
  <2>3. QED
    BY <1>9, <1>11, <2>2 DEF ResumeEnded
<1> HIDE DEF a
<1>13. /\ R.cs \in Seq(Acts) /\ Len(R.cs) = m /\ R.cs[m] = a
       /\ \A l \in 1..(m - 1) : R.cs[l] = C[l]
  <2>1. i - 1 = m /\ i - 2 = m - 1
    BY <1>1, <1>3 DEF m
  <2>2. /\ R.cs \in Seq(Acts) /\ Len(R.cs) = i - 1 /\ R.cs[i - 1] = a
        /\ \A l \in 1..(i - 2) : R.cs[l] = C[l]
    <3>1. C \in Seq(Acts) /\ i \in 2..Len(C) /\ a \in Acts
      BY <1>1, <1>2, <1>12 DEF L
    <3>2. R.cs = Append(Front(Front(SubSeq(C, 1, i))), a)
      BY <1>9, <1>12
    <3>3. QED
      BY <3>1, <3>2, FrontFront
  <2>3. QED
    BY <2>1, <2>2
<1>14. Resting(R.th[t])
  <2>1. c # <<>>
    <3>1. Pos(T, C, lev, L)
      BY <1>2, <1>3 DEF Core, L
    <3>2. lev[L] >= 1
      BY <1>0, <3>1, Zenon DEF Pos
    <3>3. QED
      BY <1>0, <3>2
  <2>2. QED
    BY <1>0, <1>1, <1>7, <1>8, <1>12, <2>1 DEF Resting
<1>15. R.th \in [Threads -> LuaState] /\ \A u \in Threads \ {t} : R.th[u] = T[u]
  BY <1>9, <1>12 DEF Sts
<1>16. Suspends(T, C, R.th, R.cs, m)
  <2>1. Alike(R.cs[m], C[m])
    BY <1>8, <1>12, <1>13 DEF Alike
  <2>2. C[m + 1].th = t /\ IsRun(C[m + 1], "resume")
    BY <1>1, <1>3, <1>7 DEF run, L
  <2>3. t = C[Len(C)].th /\ m \in 1..(Len(C) - 1)
    BY <1>1, <1>2 DEF L
  <2>4. QED
    BY <1>13, <1>14, <1>15, <2>1, <2>2, <2>3 DEF Suspends
<1>17. QED
  BY <1>2, <1>12, <1>16, ResumeEnds DEF Fine, R, Y

\* The stack C with one more activation, which stands on the frame m.
Grown(C, lev, C2, lev2, a, m) ==
    LET n == Len(C) + 1
    IN  /\ C2 = Append(C, a) /\ a \in Acts /\ a.th = C[Len(C)].th /\ m \in Nat
        /\ lev2 = [i \in 1..n |-> IF i = n THEN m ELSE lev[i]]

\* Such levels.
LevelsOf(C, lev, m) == [i \in 1..(Len(C) + 1) |-> IF i = Len(C) + 1 THEN m ELSE lev[i]]

\* Such a stack and its levels.
LEMMA Growing ==
    ASSUME NEW C \in Seq(Acts), NEW lev, NEW a \in Acts, NEW m \in Nat, a.th = C[Len(C)].th
    PROVE  Grown(C, lev, Append(C, a), LevelsOf(C, lev, m), a, m)
BY Zenon DEF Grown, LevelsOf

\* What it adds to the counts.
Grew(C, lev, C2, lev2, a, m) ==
    LET L == Len(C)
        t == C[L].th
    IN  /\ L \in Nat \ {0} /\ Len(C2) = L + 1 /\ C2[L + 1] = a /\ a.th = t /\ a \in Acts
        /\ C2 \in Seq(Acts) /\ C2 = Append(C, a)
        /\ \A i \in 1..L : C2[i] = C[i] /\ lev2[i] = lev[i]
        /\ C2[L] = C[L] /\ lev2[L] = lev[L] /\ lev2[L + 1] = m
        /\ Cardinality(Nested(C, L)) \in Nat
        /\ Cardinality(Nested(C2, L + 1)) =
              Cardinality(Nested(C, L)) + One(a.f = "luaD_call" \/ IsRun(a, "resume"))
        /\ Cardinality(Calls(C, L, t)) \in Nat
        /\ Cardinality(Calls(C2, L + 1, t)) =
              Cardinality(Calls(C, L, t)) + One(a.f = "luaD_call" /\ ~a.allowyield)
        /\ (Calls(C, L, t) # {} => Calls(C2, L + 1, t) # {})
        /\ (a.f = "luaD_call" /\ ~a.allowyield => Calls(C2, L + 1, t) # {})

\* Its counts, from those of the stack below.
LEMMA GrownFacts ==
    ASSUME NEW C \in Seq(Acts), C # <<>>, NEW lev, NEW C2, NEW lev2, NEW a, NEW m,
           Grown(C, lev, C2, lev2, a, m)
    PROVE  Grew(C, lev, C2, lev2, a, m)
<1> DEFINE L == Len(C)
           t == C[L].th
<1>0. /\ C2 = Append(C, a) /\ a \in Acts /\ a.th = t /\ m \in Nat
      /\ lev2 = [i \in 1..(L + 1) |-> IF i = L + 1 THEN m ELSE lev[i]]
  BY Zenon DEF Grown
<1>1. /\ L \in Nat \ {0} /\ Len(C2) = L + 1 /\ C2[L + 1] = a /\ C2 \in Seq(Acts)
      /\ \A i \in 1..L : C2[i] = C[i]
  BY <1>0
<1> HIDE DEF L
<1>2. lev2[L + 1] = m /\ \A i \in 1..L : lev2[i] = lev[i]
  <2>1. L + 1 \in 1..(L + 1) /\ \A i \in 1..L : i \in 1..(L + 1) /\ i # L + 1
    BY <1>1
  <2>2. QED
    BY <1>0, <2>1
<1>3. C2[L] = C[L] /\ lev2[L] = lev[L]
  BY <1>1, <1>2
<1>4. Nested(C2, L) = Nested(C, L) /\ \A x : Calls(C2, L, x) = Calls(C, L, x)
  <2>1. L \in Nat /\ \A i \in 1..L : Alike(C2[i], C[i])
    BY <1>1 DEF Alike
  <2>2. QED
    BY <2>1, CountsSame
<1>5. /\ Cardinality(Nested(C, L)) \in Nat
      /\ Cardinality(Nested(C2, L + 1)) =
            Cardinality(Nested(C, L)) + One(a.f = "luaD_call" \/ IsRun(a, "resume"))
  <2>1. L \in Nat
    BY <1>1
  <2>2. /\ Cardinality(Nested(C2, L)) \in Nat
        /\ Cardinality(Nested(C2, L + 1)) =
                 IF C2[L + 1].f = "luaD_call" \/ IsRun(C2[L + 1], "resume")
                 THEN Cardinality(Nested(C2, L)) + 1 ELSE Cardinality(Nested(C2, L))
    BY <2>1, NestedStep
  <2>3. QED
    BY <1>1, <1>4, <2>2 DEF One
<1> HIDE DEF t
<1>6. /\ Cardinality(Calls(C, L, t)) \in Nat
      /\ Cardinality(Calls(C2, L + 1, t)) =
            Cardinality(Calls(C, L, t)) + One(a.f = "luaD_call" /\ ~a.allowyield)
      /\ (Calls(C, L, t) # {} => Calls(C2, L + 1, t) # {})
      /\ (a.f = "luaD_call" /\ ~a.allowyield => Calls(C2, L + 1, t) # {})
  <2>1. L \in Nat
    BY <1>1
  <2>2. Cardinality(Calls(C2, L, t)) \in Nat
    BY <2>1, CallsStep
  <2>3. Cardinality(Calls(C2, L + 1, t)) =
                 IF C2[L + 1].th = t /\ C2[L + 1].f = "luaD_call" /\ ~C2[L + 1].allowyield
                 THEN Cardinality(Calls(C2, L, t)) + 1 ELSE Cardinality(Calls(C2, L, t))
    BY <2>1, CallsStep
  <2>4. Calls(C2, L + 1, t) =
                 IF C2[L + 1].th = t /\ C2[L + 1].f = "luaD_call" /\ ~C2[L + 1].allowyield
                 THEN Calls(C2, L, t) \cup {L + 1} ELSE Calls(C2, L, t)
    BY <2>1, CallsStep
  <2>5. Calls(C2, L, t) = Calls(C, L, t)
    BY <1>4
  <2>6. C2[L + 1] = a /\ a.th = t
    BY <1>0, <1>1
  <2> DEFINE P == a.f = "luaD_call" /\ ~a.allowyield
  <2>7. Cardinality(Calls(C2, L + 1, t)) =
           IF P THEN Cardinality(Calls(C, L, t)) + 1 ELSE Cardinality(Calls(C, L, t))
    BY <2>3, <2>5, <2>6
  <2>8. Calls(C2, L + 1, t) = IF P THEN Calls(C, L, t) \cup {L + 1} ELSE Calls(C, L, t)
    BY <2>4, <2>5, <2>6
  <2>9. Cardinality(Calls(C, L, t)) \in Nat
    BY <2>2, <2>5
  <2>10. One(P) = IF P THEN 1 ELSE 0
    BY DEF One
  <2> HIDE DEF P
  <2>11. /\ Cardinality(Calls(C2, L + 1, t)) = Cardinality(Calls(C, L, t)) + One(P)
         /\ (Calls(C, L, t) # {} => Calls(C2, L + 1, t) # {})
         /\ (P => Calls(C2, L + 1, t) # {})
    BY <2>7, <2>8, <2>9, <2>10
  <2>12. QED
    BY <2>9, <2>11 DEF P
<1>7. QED
  BY <1>0, <1>1, <1>2, <1>3, <1>5, <1>6 DEF L, t, Grew

\* The running thread has the frames c and may be interrupted n times less.
Moves(T, C, T2, c, n) ==
    LET t == C[Len(C)].th
    IN  /\ T2 \in [Threads -> LuaState] /\ \A u \in Threads \ {t} : T2[u] = T[u]
        /\ T2[t].ci = c /\ T2[t].status = "ok" /\ T2[t].nny = n

\* What is true of the running thread in every state that Core describes.
LEMMA RunningFacts ==
    ASSUME NEW T, NEW C, NEW lev, Typed(T, C, lev), Core(T, C, lev)
    PROVE  LET L == Len(C)
               t == C[L].th
           IN  /\ L \in Nat \ {0} /\ L \in 1..L /\ t \in Threads /\ C \in Seq(Acts) /\ C # <<>>
               /\ C[L] \in Acts
               /\ T \in [Threads -> LuaState] /\ T[t] \in LuaState
               /\ T[t].ci \in Seq(Info) /\ Len(T[t].ci) \in Nat
               /\ lev[L] \in Nat /\ lev[L] <= Len(T[t].ci)
               /\ T[t].status = "ok" /\ CiOK(T[t].ci)
               /\ T[t].nny = Cardinality(Calls(C, L, t)) + One(t = MainThread)
               /\ Pos(T, C, lev, L)
               /\ (L > 1 => Adj(T, C, lev, L - 1))
<1> DEFINE L == Len(C)
           t == C[L].th
<1>1. /\ L \in Nat \ {0} /\ L \in 1..L /\ C[L] \in Acts /\ C[L].th \in Threads /\ C \in Seq(Acts)
      /\ C # <<>> /\ T \in [Threads -> LuaState] /\ lev[L] \in Nat
  BY TypedFacts
<1>2. T[t] \in LuaState /\ T[t].ci \in Seq(Info) /\ Len(T[t].ci) \in Nat
  BY <1>1, StateFields
<1>3. Pos(T, C, lev, L) /\ ThOK(T, C, t) /\ (L > 1 => Adj(T, C, lev, L - 1))
  <2>1. L > 1 => L - 1 \in 1..(L - 1)
    BY <1>1
  <2>2. QED
    BY <1>1, <2>1 DEF Core
<1>4. lev[L] <= Len(T[t].ci)
  BY <1>3, Zenon DEF Pos
<1>5. t \in ActiveIn(C)
  BY <1>1 DEF ActiveIn
<1>6. CiOK(T[t].ci) /\ T[t].status = "ok"
      /\ T[t].nny = Cardinality(Calls(C, L, t)) + One(t = MainThread)
  BY <1>3, <1>5, Zenon DEF ThOK
<1>7. QED
  BY <1>1, <1>2, <1>3, <1>4, <1>6

\* Where the running thread may call a function from.
CallSite(T, C, lev, soft) ==
    LET L == Len(C)
        a == C[L]
        c == T[a.th].ci
    IN  /\ lev[L] = Len(c)
        /\ a.f \in {"C", "luaG_errormsg"} \/ IsRun(a, "pcall")
        /\ a.f = "C" /\ c[Len(c)].fn \in Prot => c[Len(c)].ypcall
        /\ soft => a.f = "C" /\ Soft(c[Len(c)])

\* Where the function that is called starts: in a C function or in luaV_execute.
Softly(T, C, c) ==
    LET L == Len(C)
        t == C[L].th
    IN  \/ t = MainThread \/ Calls(C, L, t) # {}
        \/ /\ \A j \in 1..Len(c) : Soft(c[j])
           /\ \A j \in 1..L : C[j].th = t => ~IsRun(C[j], "pcall")

\* luaD_call as an activation.
CallAt(t, soft) == [f |-> "luaD_call", th |-> t, allowyield |-> soft]

\* The running thread enters luaD_call.
Calling(T, C, lev, T2, C2, lev2, soft) ==
    LET t == C[Len(C)].th
    IN  /\ Typed(T, C, lev) /\ Core(T, C, lev) /\ Len(C) > 1 /\ CallSite(T, C, lev, FALSE)
        /\ soft \in BOOLEAN
        /\ Moves(T, C, T2, T[t].ci, NonYieldable(T[t].nny, soft))
        /\ Grown(C, lev, C2, lev2, CallAt(t, soft), Len(T[t].ci))

\* luaD_call keeps the invariant, and a function may start on top of it.
LEMMA PushCall ==
    ASSUME NEW T, NEW C, NEW lev, NEW T2, NEW C2, NEW lev2, NEW soft,
           Calling(T, C, lev, T2, C2, lev2, soft)
    PROVE  /\ Typed(T2, C2, lev2) /\ Core(T2, C2, lev2)
           /\ soft = TRUE /\ CallSite(T, C, lev, TRUE) => Softly(T2, C2, T[C[Len(C)].th].ci)
<1> SUFFICES ASSUME NEW t, t = C[Len(C)].th,
           Typed(T, C, lev), Core(T, C, lev), Len(C) > 1, CallSite(T, C, lev, FALSE), soft \in BOOLEAN,
           Moves(T, C, T2, T[t].ci, NonYieldable(T[t].nny, soft)),
           Grown(C, lev, C2, lev2, CallAt(t, soft), Len(T[t].ci))
    PROVE  /\ Typed(T2, C2, lev2) /\ Core(T2, C2, lev2)
           /\ soft /\ CallSite(T, C, lev, TRUE) => Softly(T2, C2, T[t].ci)
  BY Zenon DEF Calling
<1> DEFINE L == Len(C)
           c == T[t].ci
           n == Len(c)
           a == CallAt(t, soft)
<1>1. /\ L \in Nat \ {0} /\ L \in 1..L /\ t \in Threads /\ C \in Seq(Acts) /\ C # <<>>
      /\ n \in Nat /\ CiOK(c)
      /\ T[t].nny = Cardinality(Calls(C, L, t)) + One(t = MainThread)
      /\ Pos(T, C, lev, L) /\ C[L].th = t /\ L > 1
  BY RunningFacts
<1>2. /\ lev[L] = n
      /\ C[L].f \in {"C", "luaG_errormsg"} \/ IsRun(C[L], "pcall")
      /\ C[L].f = "C" /\ c[n].fn \in Prot => c[n].ypcall
  BY Zenon DEF CallSite
<1>3. /\ T2 \in [Threads -> LuaState] /\ \A u \in Threads \ {t} : T2[u] = T[u]
      /\ T2[t].ci = c /\ T2[t].status = "ok" /\ T2[t].nny = NonYieldable(T[t].nny, soft)
  BY Zenon DEF Moves
<1>4. /\ Len(C2) = L + 1 /\ C2[L + 1] = a /\ a.th = t /\ a \in Acts
      /\ C2 \in Seq(Acts) /\ C2 = Append(C, a)
      /\ \A i \in 1..L : C2[i] = C[i] /\ lev2[i] = lev[i]
      /\ C2[L] = C[L] /\ lev2[L] = lev[L] /\ lev2[L + 1] = n
      /\ Cardinality(Calls(C, L, t)) \in Nat
      /\ Cardinality(Calls(C2, L + 1, t)) =
            Cardinality(Calls(C, L, t)) + One(a.f = "luaD_call" /\ ~a.allowyield)
      /\ (Calls(C, L, t) # {} => Calls(C2, L + 1, t) # {})
      /\ (a.f = "luaD_call" /\ ~a.allowyield => Calls(C2, L + 1, t) # {})
  <2>1. Grew(C, lev, C2, lev2, a, n)
    BY <1>1, GrownFacts
  <2>2. QED
    BY <1>1, <2>1, Zenon DEF Grew
<1>5. a.f = "luaD_call" /\ a.allowyield = soft /\ ~IsRun(a, "pcall") /\ ~IsRun(a, "resume")
      /\ a.f \notin {"C", "luaV_execute", "run", "unroll", "luaG_errormsg"}
  BY DEF CallAt, IsRun
<1>6. lev2 = [i \in 1..(L + 1) |-> IF i = L + 1 THEN n ELSE lev[i]]
  BY Zenon DEF Grown
<1>7. T2[t].nny = Cardinality(Calls(C2, L + 1, t)) + One(t = MainThread)
  BY <1>1, <1>3, <1>4, <1>5 DEF NonYieldable, One
<1> HIDE DEF L, n, c, a
<1>8. t = MainThread \/ Calls(C, L, t) # {} \/ \A j \in 1..(n - 1) : Soft(c[j])
  <2>1. C[L].th = MainThread \/ Calls(C, L, C[L].th) # {} \/ \A j \in 1..(lev[L] - 1) : Soft(T[C[L].th].ci[j])
    BY <1>1, Zenon DEF Pos
  <2>2. QED
    BY <1>1, <1>2, <2>1 DEF c
<1>9. Pos(T2, C2, lev2, L + 1)
  BY <1>1, <1>3, <1>4, <1>5, <1>8 DEF Pos, n
<1>10. Adj(T2, C2, lev2, L)
  <2>1. ~IsRun(C[L], "resume") /\ C[L].f # "unroll"
    BY <1>2 DEF IsRun
  <2>2. QED
    BY <1>1, <1>2, <1>3, <1>4, <1>5, <2>1 DEF Adj
<1>11. Enters(T, C, lev, T2, C2, lev2, a, n)
  <2>1. /\ C2 = Append(C, a) /\ a \in Acts /\ a.th = C[Len(C)].th /\ n \in Nat
        /\ lev2 = [i \in 1..(Len(C) + 1) |-> IF i = Len(C) + 1 THEN n ELSE lev[i]]
        /\ C[Len(C)].th = t /\ Len(C) > 1
    BY <1>1, <1>4, <1>6 DEF L
  <2>2. /\ \A j \in 1..lev[Len(C)] : T2[t].ci[j] = T[t].ci[j]
        /\ lev[Len(C)] <= n /\ n <= Len(T2[t].ci) /\ ~IsRun(a, "resume")
    BY <1>1, <1>2, <1>3, <1>5 DEF L, c, n
  <2>3. /\ Pos(T2, C2, lev2, Len(C) + 1) /\ Adj(T2, C2, lev2, Len(C))
        /\ CiOK(T2[t].ci) /\ T2[t].status = "ok"
        /\ T2[t].nny = Cardinality(Calls(C2, Len(C) + 1, t)) + One(t = MainThread)
    BY <1>1, <1>3, <1>7, <1>9, <1>10 DEF L
  <2>4. QED
    BY <1>3, <2>1, <2>2, <2>3, Zenon DEF Enters
<1>12. Typed(T2, C2, lev2) /\ Core(T2, C2, lev2)
  BY <1>11, Pushed
<1>13. ASSUME soft, CallSite(T, C, lev, TRUE) PROVE Softly(T2, C2, c)
  <2>1. C[L].f = "C" /\ Soft(c[n])
    BY <1>1, <1>13 DEF CallSite, L, c, n
  <2>2. t = MainThread \/ Calls(C, L, t) # {} \/ \A j \in 1..L : C[j].th = t => ~IsRun(C[j], "pcall")
    <3>1. C[L].th = MainThread \/ Calls(C, L, C[L].th) # {}
             \/ \A j \in 1..L : C[j].th = C[L].th => ~IsRun(C[j], "pcall")
      BY <1>1, <2>1 DEF Pos
    <3>2. QED
      BY <1>1, <3>1
  <2>3. (\A j \in 1..(n - 1) : Soft(c[j])) => \A j \in 1..n : Soft(c[j])
    BY <1>1, <2>1 DEF n
  <2>4. (\A j \in 1..L : C[j].th = t => ~IsRun(C[j], "pcall"))
           => \A j \in 1..(L + 1) : C2[j].th = t => ~IsRun(C2[j], "pcall")
    <3>1. \A j \in 1..(L + 1) : j \in 1..L \/ j = L + 1
      BY <1>1 DEF L
    <3>2. QED
      BY <1>4, <1>5, <3>1
  <2>5. Len(C2) = L + 1 /\ C2[L + 1].th = t
    BY <1>4
  <2>6. QED
    BY <1>4, <1>8, <2>2, <2>3, <2>4, <2>5 DEF Softly, n
<1>14. QED
  BY <1>12, <1>13 DEF c

\* luaG_errormsg, or a protected call of its own, on top of the running thread.
Overlay(T, C, lev, a) ==
    LET L == Len(C)
        t == C[L].th
        c == T[t].ci
        n == Len(c)
    IN  /\ lev[L] = n /\ a.th = t /\ a \in Acts
        /\ \/ /\ a.f = "luaG_errormsg" /\ Len(C) > 1
              /\ C[L].f \in {"C", "luaV_execute", "luaD_call"}
           \/ /\ IsRun(a, "pcall") /\ C[L].f = "C" /\ c[n].fn \in Prot /\ a.ci = n
              /\ a.errfunc = Handler(c, n - 1) /\ a.nny = T[t].nny
              /\ a.nCcalls = Cardinality(Nested(C, L))

\* Either keeps the invariant.
LEMMA PushOver ==
    ASSUME NEW T, NEW C, NEW lev, NEW T2, NEW C2, NEW lev2, NEW a, NEW t,
           Typed(T, C, lev), Core(T, C, lev), Overlay(T, C, lev, a),
           t = C[Len(C)].th,
           Moves(T, C, T2, T[t].ci, T[t].nny),
           Grown(C, lev, C2, lev2, a, Len(T[t].ci))
    PROVE  Typed(T2, C2, lev2) /\ Core(T2, C2, lev2)
<1> DEFINE L == Len(C)
           c == T[t].ci
           n == Len(c)
<1>1. /\ L \in Nat \ {0} /\ L \in 1..L /\ t \in Threads /\ C \in Seq(Acts) /\ C # <<>>
      /\ n \in Nat /\ CiOK(c)
      /\ T[t].nny = Cardinality(Calls(C, L, t)) + One(t = MainThread)
      /\ Pos(T, C, lev, L) /\ C[L].th = t
  BY RunningFacts
<1>2. /\ lev[L] = n /\ a.th = t /\ a \in Acts
      /\ \/ /\ a.f = "luaG_errormsg" /\ L > 1
            /\ C[L].f \in {"C", "luaV_execute", "luaD_call"}
         \/ /\ IsRun(a, "pcall") /\ C[L].f = "C" /\ c[n].fn \in Prot /\ a.ci = n
            /\ a.errfunc = Handler(c, n - 1) /\ a.nny = T[t].nny
            /\ a.nCcalls = Cardinality(Nested(C, L))
  BY Zenon DEF Overlay
<1>3. /\ T2 \in [Threads -> LuaState] /\ \A u \in Threads \ {t} : T2[u] = T[u]
      /\ T2[t].ci = c /\ T2[t].status = "ok" /\ T2[t].nny = T[t].nny
  BY Zenon DEF Moves
<1>4. /\ Len(C2) = L + 1 /\ C2[L + 1] = a
      /\ C2 \in Seq(Acts) /\ C2 = Append(C, a)
      /\ \A i \in 1..L : C2[i] = C[i] /\ lev2[i] = lev[i]
      /\ C2[L] = C[L] /\ lev2[L] = lev[L] /\ lev2[L + 1] = n
      /\ Cardinality(Nested(C, L)) \in Nat
      /\ Cardinality(Nested(C2, L + 1)) =
              Cardinality(Nested(C, L)) + One(a.f = "luaD_call" \/ IsRun(a, "resume"))
      /\ Cardinality(Calls(C, L, t)) \in Nat
      /\ Cardinality(Calls(C2, L + 1, t)) =
            Cardinality(Calls(C, L, t)) + One(a.f = "luaD_call" /\ ~a.allowyield)
      /\ (Calls(C, L, t) # {} => Calls(C2, L + 1, t) # {})
  <2>1. Grew(C, lev, C2, lev2, a, n)
    BY <1>1, GrownFacts
  <2>2. QED
    BY <1>1, <2>1, Zenon DEF Grew
<1>5. /\ a.f # "luaD_call" /\ ~IsRun(a, "resume") /\ a.f \notin {"C", "luaV_execute", "unroll"}
      /\ a.f = "run" => IsRun(a, "pcall")
      /\ a.f = "luaG_errormsg" \/ a.f = "run"
  BY <1>2 DEF IsRun
<1>6. lev2 = [i \in 1..(L + 1) |-> IF i = L + 1 THEN n ELSE lev[i]]
  BY Zenon DEF Grown
<1>7. Cardinality(Calls(C2, L + 1, t)) = Cardinality(Calls(C, L, t))
      /\ Cardinality(Nested(C2, L + 1)) = Cardinality(Nested(C, L))
  BY <1>4, <1>5 DEF One
<1> HIDE DEF L, n, c
<1>8. t = MainThread \/ Calls(C, L, t) # {} \/ \A j \in 1..(n - 1) : Soft(c[j])
  <2>1. C[L].th = MainThread \/ Calls(C, L, C[L].th) # {} \/ \A j \in 1..(lev[L] - 1) : Soft(T[C[L].th].ci[j])
    BY <1>1, Zenon DEF Pos
  <2>2. QED
    BY <1>1, <1>2, <2>1 DEF c
<1>8a. C[L].f = "C" => n >= 1
  <2>1. C[L].f = "C" => lev[L] >= 1
    BY <1>1, Zenon DEF Pos
  <2>2. QED
    BY <1>2, <2>1
<1>9. Pos(T2, C2, lev2, L + 1)
  <2>1. IsRun(a, "pcall") =>
           /\ n >= 1 /\ c[n].fn \in Prot /\ a.ci = n /\ a.errfunc = Handler(c, n - 1)
           /\ a.nny = Cardinality(Calls(C2, L + 1, t)) + One(t = MainThread)
    <3>1. IsRun(a, "pcall") => a.f # "luaG_errormsg"
      BY DEF IsRun
    <3>2. QED
      BY <1>1, <1>2, <1>7, <1>8a, <3>1
  <2>2. a.f = "run" => a.nCcalls = Cardinality(Nested(C2, L + 1))
    BY <1>2, <1>5, <1>7
  <2>3. t = MainThread \/ Calls(C2, L + 1, t) # {} \/ \A j \in 1..(n - 1) : Soft(c[j])
    BY <1>4, <1>8
  <2>4. C2[L + 1] = a /\ a.th = t /\ T2[t].ci = c /\ lev2[L + 1] = n /\ n <= Len(c)
    BY <1>1, <1>2, <1>3, <1>4 DEF n
  <2>5. QED
    BY <1>5, <2>1, <2>2, <2>3, <2>4 DEF Pos
<1>10. Adj(T2, C2, lev2, L)
  <2>1. C[L].f # "unroll" /\ ~IsRun(C[L], "pcall") /\ C2[L] = C[L] /\ C[L].th = t
        /\ (IsRun(a, "pcall") => C[L].f = "C")
        /\ (a.f = "luaG_errormsg" => C[L].f \in {"C", "luaV_execute", "luaD_call"})
    BY <1>1, <1>2, <1>4, <1>5 DEF IsRun
  <2>2. C2[L + 1] = a /\ a.th = t /\ lev2[L] = n /\ lev2[L + 1] = n
    BY <1>2, <1>4
  <2>3. QED
    BY <1>5, <2>1, <2>2 DEF Adj
<1>11. Enters(T, C, lev, T2, C2, lev2, a, n)
  <2>1. /\ C2 = Append(C, a) /\ a \in Acts /\ a.th = C[Len(C)].th /\ n \in Nat
        /\ lev2 = [i \in 1..(Len(C) + 1) |-> IF i = Len(C) + 1 THEN n ELSE lev[i]]
        /\ C[Len(C)].th = t /\ (Len(C) > 1 \/ a.f = "run")
    <3>1. L > 1 \/ a.f = "run"
      BY <1>2, <1>5 DEF IsRun
    <3>2. QED
      BY <1>1, <1>2, <1>4, <1>6, <3>1 DEF L
  <2>2. /\ \A j \in 1..lev[Len(C)] : T2[t].ci[j] = T[t].ci[j]
        /\ lev[Len(C)] <= n /\ n <= Len(T2[t].ci) /\ ~IsRun(a, "resume")
    BY <1>1, <1>2, <1>3, <1>5 DEF L, c, n
  <2>3. /\ Pos(T2, C2, lev2, Len(C) + 1) /\ Adj(T2, C2, lev2, Len(C))
        /\ CiOK(T2[t].ci) /\ T2[t].status = "ok"
        /\ T2[t].nny = Cardinality(Calls(C2, Len(C) + 1, t)) + One(t = MainThread)
    BY <1>1, <1>3, <1>7, <1>9, <1>10 DEF L
  <2>4. QED
    BY <1>3, <2>1, <2>2, <2>3, Zenon DEF Enters
<1>12. QED
  BY <1>11, Pushed

\* The chain of frames of a thread that calls a function.
Called(c, r, d) ==
    LET n == Len(c)
    IN  /\ d \in Seq(Info) /\ n \in Nat /\ Len(d) = n + 1 /\ d[n + 1] = r /\ CiOK(d)
        /\ \A j \in 1..n : d[j] = c[j]
        /\ \A m \in 0..n : Handler(d, m) = Handler(c, m)
        /\ Handler(d, n + 1) = IF r.fn = "xpcall" THEN n + 1
                               ELSE IF r.fn \in Prot THEN 0 ELSE Handler(c, n)

\* A new frame keeps the chain right, and decides the handler above it.
LEMMA CiCall ==
    ASSUME NEW c \in Seq(Info), CiOK(c), NEW r \in Info, ~r.ypcall,
           r.reentry => Len(c) >= 1 /\ IsLua(r.fn) /\ IsLua(c[Len(c)].fn)
    PROVE  Called(c, r, Append(c, r))
<1> DEFINE d == Append(c, r)
           n == Len(c)
<1>1. d \in Seq(Info) /\ Len(d) = n + 1 /\ d[n + 1] = r /\ n \in Nat /\ \A j \in 1..n : d[j] = c[j]
  OBVIOUS
<1> HIDE DEF d, n
<1>2. ASSUME NEW m \in 0..n PROVE Handler(d, m) = Handler(c, m)
  <2>1. m \in Nat /\ \A j \in 1..m : d[j].fn = c[j].fn
    BY <1>1
  <2>2. QED
    BY <2>1, HandlerSame
<1>3. CiOK(d)
  <2>1. SUFFICES ASSUME NEW j \in 1..(n + 1)
                 PROVE /\ d[j].ypcall => /\ d[j].fn \in {"pcall", "xpcall"} /\ d[j].olderr = Handler(d, j - 1)
                                         /\ \A i \in 1..j : Soft(d[i])
                       /\ d[j].reentry => j >= 2 /\ IsLua(d[j].fn) /\ IsLua(d[j - 1].fn)
    BY <1>1 DEF CiOK
  <2>2. CASE j = n + 1
    <3>1. d[j] = r /\ j - 1 = n
      BY <1>1, <2>2
    <3>2. n >= 1 => d[n] = c[n] /\ j >= 2
      BY <1>1, <2>2
    <3>3. QED
      BY <3>1, <3>2 DEF n
  <2>3. CASE j # n + 1
    <3>1. j \in 1..n /\ d[j] = c[j] /\ (j >= 2 => d[j - 1] = c[j - 1]) /\ j - 1 \in 0..n
      BY <1>1, <2>3
    <3>2. /\ c[j].ypcall => /\ c[j].fn \in {"pcall", "xpcall"} /\ c[j].olderr = Handler(c, j - 1)
                            /\ \A i \in 1..j : Soft(c[i])
          /\ c[j].reentry => j >= 2 /\ IsLua(c[j].fn) /\ IsLua(c[j - 1].fn)
      BY <3>1 DEF CiOK, n
    <3>3. Handler(d, j - 1) = Handler(c, j - 1)
      BY <1>2, <3>1
    <3>4. \A i \in 1..j : d[i] = c[i]
      BY <1>1, <3>1
    <3>5. QED
      BY <3>1, <3>2, <3>3, <3>4
  <2>4. QED
    BY <2>2, <2>3
<1>4. Handler(d, n + 1) = IF r.fn = "xpcall" THEN n + 1 ELSE IF r.fn \in Prot THEN 0 ELSE Handler(c, n)
  <2>1. n + 1 \in Nat /\ n + 1 >= 1 /\ (n + 1) - 1 = n /\ n \in 0..n
    BY <1>1
  <2>2. Handler(d, n + 1) = IF d[n + 1].fn = "xpcall" THEN n + 1
                            ELSE IF d[n + 1].fn \in Prot THEN 0 ELSE Handler(d, (n + 1) - 1)
    BY <2>1, HandlerIs
  <2>3. QED
    BY <1>1, <1>2, <2>1, <2>2
<1>5. QED
  BY <1>1, <1>2, <1>3, <1>4 DEF d, n, Called

\* The function fn starts, as activation b, on top of the frames of the running
\* thread.
FrameSite(T, C, lev, b, fn) ==
    LET L == Len(C)
        t == C[L].th
        c == T[t].ci
        a == C[L]
    IN  /\ b = Body(t, "start") \/ (b = Exec(t) /\ IsLua(fn))
        /\ lev[L] = Len(c) /\ fn \in Names /\ Softly(T, C, c) /\ L > 1
        /\ \/ a.f = "luaD_call" \/ IsRun(a, "resume")
           \/ a.f = "luaV_execute" /\ b = Body(t, "start")

\* Then the invariant holds again.
LEMMA PushFrame ==
    ASSUME NEW T, NEW C, NEW lev, NEW T2, NEW C2, NEW lev2, NEW b, NEW fn, NEW t,
           Typed(T, C, lev), Core(T, C, lev), FrameSite(T, C, lev, b, fn),
           t = C[Len(C)].th,
           Moves(T, C, T2, Append(T[t].ci, CallInfo(fn)), T[t].nny),
           Grown(C, lev, C2, lev2, b, Len(T[t].ci) + 1),
           T2[t].nCcalls = Cardinality(Nested(C, Len(C))),
           T2[t].errfunc = Handler(T[t].ci, Len(T[t].ci))
    PROVE  Good(T2, C2)
<1> DEFINE L == Len(C)
           c == T[t].ci
           n == Len(c)
           r == CallInfo(fn)
           d == Append(c, r)
<1>1. /\ L \in Nat \ {0} /\ L \in 1..L /\ t \in Threads /\ C \in Seq(Acts) /\ C # <<>>
      /\ c \in Seq(Info) /\ n \in Nat /\ CiOK(c)
      /\ T[t].nny = Cardinality(Calls(C, L, t)) + One(t = MainThread)
      /\ Pos(T, C, lev, L) /\ C[L].th = t
  BY RunningFacts
<1>2. /\ b = Body(t, "start") \/ (b = Exec(t) /\ IsLua(fn))
      /\ lev[L] = n /\ fn \in Names /\ Softly(T, C, c) /\ L > 1
      /\ \/ C[L].f = "luaD_call" \/ IsRun(C[L], "resume")
         \/ C[L].f = "luaV_execute" /\ b = Body(t, "start")
  BY Zenon DEF FrameSite
<1>3. /\ T2 \in [Threads -> LuaState] /\ \A u \in Threads \ {t} : T2[u] = T[u]
      /\ T2[t].ci = d /\ T2[t].status = "ok" /\ T2[t].nny = T[t].nny
  BY Zenon DEF Moves
<1>4. /\ Len(C2) = L + 1 /\ C2[L + 1] = b /\ b.th = t /\ b \in Acts
      /\ C2 \in Seq(Acts) /\ C2 = Append(C, b)
      /\ \A i \in 1..L : C2[i] = C[i] /\ lev2[i] = lev[i]
      /\ C2[L] = C[L] /\ lev2[L] = lev[L] /\ lev2[L + 1] = n + 1
      /\ Cardinality(Nested(C, L)) \in Nat
      /\ Cardinality(Nested(C2, L + 1)) =
              Cardinality(Nested(C, L)) + One(b.f = "luaD_call" \/ IsRun(b, "resume"))
      /\ Cardinality(Calls(C, L, t)) \in Nat
      /\ Cardinality(Calls(C2, L + 1, t)) =
            Cardinality(Calls(C, L, t)) + One(b.f = "luaD_call" /\ ~b.allowyield)
      /\ (Calls(C, L, t) # {} => Calls(C2, L + 1, t) # {})
  <2>1. Grew(C, lev, C2, lev2, b, n + 1)
    BY <1>1, GrownFacts
  <2>2. QED
    BY <1>1, <2>1, Zenon DEF Grew
<1>5. /\ b.f \in {"C", "luaV_execute"} /\ \A of : ~IsRun(b, of)
      /\ b.f = "luaV_execute" => IsLua(fn) /\ (C[L].f = "luaD_call" \/ IsRun(C[L], "resume"))
      /\ b.f = "C" => C[L].f \in {"luaD_call", "luaV_execute"} \/ IsRun(C[L], "resume")
      /\ C[L].f # "unroll" /\ ~IsRun(C[L], "pcall")
  BY <1>2 DEF IsRun, Body, Exec
<1>6. lev2 = [i \in 1..(L + 1) |-> IF i = L + 1 THEN n + 1 ELSE lev[i]]
  BY Zenon DEF Grown
<1>7. Cardinality(Calls(C2, L + 1, t)) = Cardinality(Calls(C, L, t))
      /\ Cardinality(Nested(C2, L + 1)) = Cardinality(Nested(C, L))
  BY <1>4, <1>5 DEF One
<1>8. r \in Info /\ r.fn = fn /\ ~r.ypcall /\ ~r.reentry
  BY <1>2 DEF CallInfo, Info
<1>9. /\ Len(d) = n + 1 /\ d[n + 1] = r /\ CiOK(d) /\ \A j \in 1..n : d[j] = c[j]
      /\ Handler(d, n) = Handler(c, n)
      /\ Handler(d, n + 1) = IF r.fn = "xpcall" THEN n + 1
                             ELSE IF r.fn \in Prot THEN 0 ELSE Handler(c, n)
  <2>1. n \in 0..n
    BY <1>1
  <2>2. Called(c, r, d)
    BY <1>1, <1>8, CiCall
  <2>3. QED
    BY <2>1, <2>2, Zenon DEF Called
<1> HIDE DEF L, n, c, d, r
<1>10. Pos(T2, C2, lev2, L + 1)
  <2>1. C2[L + 1] = b /\ b.th = t /\ T2[t].ci = d /\ lev2[L + 1] = n + 1 /\ Len(d) = n + 1 /\ n + 1 >= 1
        /\ d[n + 1].fn = fn
    BY <1>1, <1>3, <1>4, <1>8, <1>9
  <2>2. t = MainThread \/ Calls(C2, L + 1, t) # {}
          \/ ((\A j \in 1..((n + 1) - 1) : Soft(d[j])) /\ \A j \in 1..(L + 1) : C2[j].th = t => ~IsRun(C2[j], "pcall"))
    <3>1. \/ t = MainThread \/ Calls(C, L, t) # {}
          \/ (\A j \in 1..n : Soft(c[j])) /\ \A j \in 1..L : C[j].th = t => ~IsRun(C[j], "pcall")
      BY <1>1, <1>2 DEF Softly, L, n
    <3>2. (\A j \in 1..n : Soft(c[j])) => \A j \in 1..((n + 1) - 1) : Soft(d[j])
      BY <1>1, <1>9
    <3>3. (\A j \in 1..L : C[j].th = t => ~IsRun(C[j], "pcall"))
             => \A j \in 1..(L + 1) : C2[j].th = t => ~IsRun(C2[j], "pcall")
      <4>1. \A j \in 1..(L + 1) : j \in 1..L \/ j = L + 1
        BY <1>1
      <4>2. QED
        BY <1>4, <1>5, <4>1
    <3>4. QED
      BY <1>4, <3>1, <3>2, <3>3
  <2>3. b.f # "run" /\ b.f # "unroll" /\ (b.f = "luaV_execute" => IsLua(fn))
    BY <1>5
  <2>4. QED
    BY <1>5, <2>1, <2>2, <2>3 DEF Pos
<1>11. Adj(T2, C2, lev2, L)
  <2>1. C2[L + 1] = b /\ b.th = t /\ C2[L] = C[L] /\ C[L].th = t /\ lev2[L] = n /\ lev2[L + 1] = n + 1
        /\ T2[t].ci = d /\ ~d[n + 1].reentry /\ n < n + 1
    BY <1>1, <1>2, <1>3, <1>4, <1>8, <1>9
  <2>2. \A j \in (n + 2)..(n + 1) : FALSE
    BY <1>1
  <2>3. QED
    BY <1>5, <2>1, <2>2 DEF Adj
<1>12. Enters(T, C, lev, T2, C2, lev2, b, n + 1)
  <2>1. /\ C2 = Append(C, b) /\ b \in Acts /\ b.th = C[Len(C)].th /\ n + 1 \in Nat
        /\ lev2 = [i \in 1..(Len(C) + 1) |-> IF i = Len(C) + 1 THEN n + 1 ELSE lev[i]]
        /\ C[Len(C)].th = t /\ Len(C) > 1
    BY <1>1, <1>2, <1>4, <1>6 DEF L
  <2>2. /\ \A j \in 1..lev[Len(C)] : T2[t].ci[j] = T[t].ci[j]
        /\ lev[Len(C)] <= n + 1 /\ n + 1 <= Len(T2[t].ci) /\ ~IsRun(b, "resume")
    BY <1>1, <1>2, <1>3, <1>5, <1>9 DEF L, c
  <2>3. /\ Pos(T2, C2, lev2, Len(C) + 1) /\ Adj(T2, C2, lev2, Len(C))
        /\ CiOK(T2[t].ci) /\ T2[t].status = "ok"
        /\ T2[t].nny = Cardinality(Calls(C2, Len(C) + 1, t)) + One(t = MainThread)
    BY <1>1, <1>3, <1>7, <1>9, <1>10, <1>11 DEF L
  <2>4. QED
    BY <1>3, <2>1, <2>2, <2>3, Zenon DEF Enters
<1>13. Typed(T2, C2, lev2) /\ Core(T2, C2, lev2)
  BY <1>12, Pushed
<1>14. TopOK(T2, C2, lev2)
  <2>1. Len(C2) = L + 1 /\ C2[L + 1] = b /\ b.th = t /\ T2[t].ci = d /\ Len(d) = n + 1 /\ lev2[L + 1] = n + 1
    BY <1>3, <1>4, <1>9
  <2>2. T2[t].nCcalls = Cardinality(Nested(C2, L + 1)) /\ T2[t].errfunc = Handler(c, n)
    BY <1>7 DEF L, c, n
  <2>3. b.f = "C" => Handler(c, n) = Handler(d, IF d[n + 1].fn \in Prot THEN (n + 1) - 1 ELSE n + 1)
    <3>1. (n + 1) - 1 = n /\ d[n + 1].fn = fn /\ r.fn = fn /\ (fn = "xpcall" => fn \in Prot)
      BY <1>1, <1>8, <1>9 DEF Prot
    <3>2. QED
      BY <1>9, <3>1
  <2>4. b.f = "luaV_execute" => Handler(c, n) = Handler(d, n + 1)
    <3>1. b.f = "luaV_execute" => fn # "xpcall" /\ fn \notin Prot
      BY <1>5 DEF IsLua, Prot
    <3>2. QED
      BY <1>8, <1>9, <3>1
  <2>5. QED
    BY <1>5, <2>1, <2>2, <2>3, <2>4 DEF TopOK
<1>15. QED
  BY <1>13, <1>14 DEF Good

\* Where a function starts, and the state in which it has.
StartOf(t, fn) == IF IsLua(fn) THEN Exec(t) ELSE Body(t, "start")

WithCallee(s, fn) == [s EXCEPT !.ci = Append(s.ci, CallInfo(fn))]

\* It differs from the old one in the frames only.
LEMMA CalleeIs ==
    ASSUME NEW s \in LuaState, NEW fn \in Names
    PROVE  /\ WithCallee(s, fn) \in LuaState
           /\ WithCallee(s, fn).ci = Append(s.ci, CallInfo(fn))
           /\ WithCallee(s, fn).status = s.status /\ WithCallee(s, fn).nny = s.nny
           /\ WithCallee(s, fn).nCcalls = s.nCcalls /\ WithCallee(s, fn).errfunc = s.errfunc
<1>1. CallInfo(fn) \in Info
  BY DEF CallInfo, Info
<1>2. Append(s.ci, CallInfo(fn)) \in Seq(Info)
  BY <1>1 DEF LuaState
<1>3. QED
  BY <1>2 DEF WithCallee, LuaState

\* luaD_precall, as a record.
LEMMA PrecallIs ==
    ASSUME NEW S \in Sts, NEW t \in Threads, NEW fn
    PROVE  luaD_precall(S, t, fn) =
             [th |-> [S.th EXCEPT ![t] = WithCallee(S.th[t], fn)],
              cs |-> IF IsLua(fn) THEN S.cs ELSE Append(S.cs, Body(t, "start")),
              res |-> S.res]
<1>1. S.th \in [Threads -> LuaState] /\ S = [th |-> S.th, cs |-> S.cs, res |-> S.res]
  BY DEF Sts
<1> DEFINE s == WithCallee(S.th[t], fn)
           K == IF IsLua(fn) THEN S.cs ELSE Append(S.cs, Body(t, "start"))
<1>2. luaD_precall(S, t, fn) = [S EXCEPT !.th = [S.th EXCEPT ![t] = s], !.cs = K]
  BY <1>1 DEF luaD_precall, WithCallee
<1> HIDE DEF s, K
<1>3. QED
  BY <1>1, <1>2 DEF s, K

\* Thread t may call a function; d of the C calls it counts are not on the stack.
CanCall(S, lev, t, soft, d) ==
    LET c == S.th[t].ci
    IN  /\ Throwing(S, lev, t) /\ CallSite(S.th, S.cs, lev, soft)
        /\ S.th[t].errfunc = Handler(c, Len(c))
        /\ S.th[t].nCcalls = Cardinality(Nested(S.cs, Len(S.cs))) + d

\* EnterCall keeps the invariant.
LEMMA EnterCalls ==
    ASSUME NEW S, NEW lev, NEW t, NEW soft \in BOOLEAN, CanCall(S, lev, t, soft, 1), NEW fn \in Names
    PROVE  Fine(EnterCall(S, t, fn, soft))
<1> DEFINE T == S.th
           C == S.cs
           c == T[t].ci
           n == Len(c)
           s1 == [T[t] EXCEPT !.nny = NonYieldable(T[t].nny, soft)]
           T1 == [T EXCEPT ![t] = s1]
           C1 == Append(C, CallAt(t, soft))
           lev1 == LevelsOf(C, lev, n)
           s2 == WithCallee(s1, fn)
           T2 == [T EXCEPT ![t] = s2]
           b == StartOf(t, fn)
           C2 == Append(C1, b)
           lev2 == LevelsOf(C1, lev1, n + 1)
           R == EnterCall(S, t, fn, soft)
<1>0. /\ Throwing(S, lev, t) /\ CallSite(T, C, lev, soft)
      /\ T[t].errfunc = Handler(c, n) /\ T[t].nCcalls = Cardinality(Nested(C, Len(C))) + 1
  BY DEF CanCall
<1>1. /\ S \in Sts /\ Typed(T, C, lev) /\ Core(T, C, lev) /\ Len(C) > 1 /\ t = C[Len(C)].th
      /\ T \in [Threads -> LuaState] /\ S.res \in {"ok", "err", "errerr"}
      /\ S = [th |-> T, cs |-> C, res |-> S.res]
  BY <1>0 DEF Throwing, Sts
<1>2. /\ t \in Threads /\ C \in Seq(Acts) /\ C # <<>> /\ T[t] \in LuaState /\ c \in Seq(Info) /\ n \in Nat
      /\ T[t].status = "ok" /\ T[t].nny \in Nat /\ Len(C) \in Nat \ {0}
  <2>1. T[t] \in LuaState /\ t \in Threads
    BY <1>1, RunningFacts
  <2>2. T[t].nny \in Nat
    BY <2>1, StateFields
  <2>3. QED
    BY <1>1, <2>1, <2>2, RunningFacts
<1>3. /\ s1 \in LuaState /\ s1.ci = c /\ s1.status = "ok" /\ s1.nny = NonYieldable(T[t].nny, soft)
      /\ s1.nCcalls = T[t].nCcalls /\ s1.errfunc = T[t].errfunc
  <2>1. NonYieldable(T[t].nny, soft) \in Nat
    BY <1>2 DEF NonYieldable
  <2>2. QED
    BY <1>2, <2>1 DEF LuaState
<1> HIDE DEF s1, T, C, c, n
<1>4. /\ s2 \in LuaState /\ s2.ci = Append(c, CallInfo(fn)) /\ s2.status = "ok" /\ s2.nny = s1.nny
      /\ s2.nCcalls = T[t].nCcalls /\ s2.errfunc = T[t].errfunc
  BY <1>3, CalleeIs
<1> HIDE DEF s2
<1>5. /\ T1 \in [Threads -> LuaState] /\ T1[t] = s1 /\ \A u \in Threads \ {t} : T1[u] = T[u]
      /\ T2 \in [Threads -> LuaState] /\ T2[t] = s2 /\ \A u \in Threads \ {t} : T2[u] = T[u] /\ T2[u] = T1[u]
      /\ [T1 EXCEPT ![t] = s2] = T2
  BY <1>1, <1>2, <1>3, <1>4
<1>6. R = [th |-> T2, cs |-> C2, res |-> S.res]
  <2> DEFINE V == [th |-> T1, cs |-> C1, res |-> S.res]
  <2>1. CallAt(t, soft) = [f |-> "luaD_call", th |-> t, allowyield |-> soft]
    BY DEF CallAt
  <2>2. Push([S EXCEPT !.th[t].nny = NonYieldable(@, soft)], CallAt(t, soft)) = V
    <3>1. [S EXCEPT !.th[t].nny = NonYieldable(@, soft)] = [S EXCEPT !.th = T1]
      BY DEF s1, T
    <3> HIDE DEF T1, C1
    <3>2. [S EXCEPT !.th = T1] = [th |-> T1, cs |-> C, res |-> S.res]
      BY <1>1
    <3>3. Push([th |-> T1, cs |-> C, res |-> S.res], CallAt(t, soft)) = V
      BY DEF Push, C1
    <3>4. QED
      BY <3>1, <3>2, <3>3
  <2>3. V \in Sts
    <3>1. CallAt(t, soft) \in Acts
      BY <1>2 DEF CallAt, Acts, CallAct
    <3>2. C1 \in Seq(Acts)
      BY <1>2, <3>1
    <3> HIDE DEF T1, C1
    <3>3. QED
      BY <1>1, <1>5, <3>2 DEF Sts
  <2> DEFINE P == luaD_precall(V, t, fn)
  <2>4. R = IF IsLua(fn) THEN Push(P, Exec(t)) ELSE P
    BY <2>1, <2>2 DEF EnterCall
  <2>5. P = [th |-> T2, cs |-> IF IsLua(fn) THEN C1 ELSE Append(C1, Body(t, "start")), res |-> S.res]
    <3>1. P = [th |-> [V.th EXCEPT ![t] = WithCallee(V.th[t], fn)],
               cs |-> IF IsLua(fn) THEN V.cs ELSE Append(V.cs, Body(t, "start")),
               res |-> V.res]
      <4> HIDE DEF V
      <4>1. QED
        BY <1>2, <2>3, PrecallIs
    <3>2. V.th = T1 /\ V.cs = C1 /\ V.res = S.res
      OBVIOUS
    <3>3. WithCallee(T1[t], fn) = s2
      BY <1>5 DEF s2
    <3> HIDE DEF V, P, T1, C1, T2
    <3>4. QED
      BY <1>5, <3>1, <3>2, <3>3
  <2> HIDE DEF P, T1, C1, T2, V, R
  <2>6. QED
    BY <2>4, <2>5 DEF Push, StartOf
<1> HIDE DEF T1, T2, R
<1>7. Grown(C, lev, C1, lev1, CallAt(t, soft), n)
  <2>1. CallAt(t, soft) \in Acts /\ CallAt(t, soft).th = C[Len(C)].th
    BY <1>1, <1>2 DEF CallAt, Acts, CallAct
  <2>2. QED
    BY <1>2, <2>1, Growing
<1> HIDE DEF C1, lev1
<1>8. Typed(T1, C1, lev1) /\ Core(T1, C1, lev1) /\ (soft => Softly(T1, C1, c))
  <2>1. Moves(T, C, T1, c, NonYieldable(T[t].nny, soft))
    BY <1>1, <1>3, <1>5 DEF Moves
  <2>2. /\ Moves(T, C, T1, T[t].ci, NonYieldable(T[t].nny, soft))
        /\ Grown(C, lev, C1, lev1, CallAt(t, soft), Len(T[t].ci))
    BY <1>7, <2>1 DEF c, n
  <2>3. Typed(T, C, lev) /\ Core(T, C, lev) /\ Len(C) > 1 /\ CallSite(T, C, lev, soft) /\ t = C[Len(C)].th
    BY <1>0, <1>1
  <2>4. CallSite(T, C, lev, FALSE)
    BY <2>3 DEF CallSite
  <2>5. Calling(T, C, lev, T1, C1, lev1, soft)
    BY <2>2, <2>3, <2>4, Zenon DEF Calling
  <2>6. /\ Typed(T1, C1, lev1) /\ Core(T1, C1, lev1)
        /\ soft = TRUE /\ CallSite(T, C, lev, TRUE) => Softly(T1, C1, T[C[Len(C)].th].ci)
    BY <2>5, PushCall
  <2>7. QED
    BY <2>3, <2>6 DEF c
<1>9. /\ Len(C1) = Len(C) + 1 /\ C1[Len(C) + 1] = CallAt(t, soft) /\ C1 \in Seq(Acts) /\ C1 # <<>>
      /\ lev1[Len(C) + 1] = n
      /\ Cardinality(Nested(C1, Len(C1))) = T[t].nCcalls
      /\ (~soft => Calls(C1, Len(C1), t) # {})
  <2>1. Grew(C, lev, C1, lev1, CallAt(t, soft), n)
    BY <1>2, <1>7, GrownFacts
  <2>2. CallAt(t, soft).f = "luaD_call" /\ CallAt(t, soft).allowyield = soft
    BY DEF CallAt
  <2>3. /\ Len(C1) = Len(C) + 1 /\ C1[Len(C) + 1] = CallAt(t, soft) /\ C1 \in Seq(Acts)
        /\ lev1[Len(C) + 1] = n
        /\ Cardinality(Nested(C1, Len(C) + 1)) =
              Cardinality(Nested(C, Len(C))) + One(CallAt(t, soft).f = "luaD_call" \/ IsRun(CallAt(t, soft), "resume"))
        /\ (CallAt(t, soft).f = "luaD_call" /\ ~CallAt(t, soft).allowyield => Calls(C1, Len(C) + 1, C[Len(C)].th) # {})
    BY <2>1, Zenon DEF Grew
  <2>4. One(CallAt(t, soft).f = "luaD_call" \/ IsRun(CallAt(t, soft), "resume")) = 1
    BY <2>2 DEF One
  <2>5. C1 # <<>>
    BY <1>2, <2>3
  <2>6. QED
    BY <1>0, <1>1, <2>2, <2>3, <2>4, <2>5
<1>10. /\ C1[Len(C1)].th = t /\ C1[Len(C1)].f = "luaD_call" /\ lev1[Len(C1)] = n
       /\ T1[t].ci = c /\ T1[t].nny = s1.nny
  BY <1>3, <1>5, <1>9 DEF CallAt
<1>11. FrameSite(T1, C1, lev1, b, fn)
  <2>1. b = Body(t, "start") \/ (b = Exec(t) /\ IsLua(fn))
    BY DEF StartOf, IsLua
  <2>2. Softly(T1, C1, c)
    BY <1>8, <1>9, <1>10 DEF Softly
  <2>3. Len(C1) > 1
    BY <1>1, <1>2, <1>9
  <2> HIDE DEF b
  <2>4. QED
    BY <1>10, <2>1, <2>2, <2>3, Zenon DEF FrameSite, n
<1>12. Moves(T1, C1, T2, Append(T1[t].ci, CallInfo(fn)), T1[t].nny)
  BY <1>4, <1>5, <1>10 DEF Moves
<1>13. Grown(C1, lev1, C2, lev2, b, n + 1)
  <2>1. b \in Acts /\ b.th = t /\ n + 1 \in Nat
    BY <1>2 DEF StartOf, Exec, Body, Acts, CAct, ExecAct
  <2> HIDE DEF b
  <2>2. QED
    BY <1>9, <1>10, <2>1, Growing
<1> HIDE DEF b, C2, lev2
<1>14. Good(T2, C2)
  <2>1. /\ T2[t].nCcalls = Cardinality(Nested(C1, Len(C1)))
        /\ T2[t].errfunc = Handler(T1[t].ci, Len(T1[t].ci))
    BY <1>0, <1>4, <1>5, <1>9, <1>10 DEF n
  <2>2. t = C1[Len(C1)].th /\ Len(T1[t].ci) = n
    BY <1>10 DEF n
  <2>3. Grown(C1, lev1, C2, lev2, b, Len(T1[t].ci) + 1)
    BY <1>13, <2>2
  <2>4. QED
    BY <1>8, <1>11, <1>12, <2>1, <2>2, <2>3, PushFrame
<1>15. C2 \in Seq(Acts)
  BY <1>14 DEF Good, Typed
<1>16. R \in Sts /\ R.th = T2 /\ R.cs = C2
  BY <1>1, <1>5, <1>6, <1>15 DEF Sts
<1>17. QED
  BY <1>14, <1>16 DEF Fine, R

\* The running thread changes, but for the frame of a C function on top none of
\* its frames, and what the activation on top will do next.
Touches(T, C, lev, T2, C2) ==
    LET L == Len(C)
        t == C[L].th
    IN  /\ C2 \in Seq(Acts) /\ Len(C2) = L /\ \A i \in 1..(L - 1) : C2[i] = C[i]
        /\ Alike(C2[L], C[L])
        /\ Moves(T, C, T2, T2[t].ci, T[t].nny)
        /\ CiOK(T2[t].ci) /\ lev[L] <= Len(T2[t].ci)
        /\ \A j \in 1..lev[L] : (C[L].f = "C" /\ j = lev[L]) \/ T2[t].ci[j] = T[t].ci[j]
        /\ L = 1 => T2[t].ci[1].fn = "host"

\* Such a change keeps the invariant.
LEMMA Retouch ==
    ASSUME NEW T, NEW C, NEW lev, NEW T2, NEW C2,
           Typed(T, C, lev), Core(T, C, lev), Touches(T, C, lev, T2, C2)
    PROVE  Typed(T2, C2, lev) /\ Core(T2, C2, lev)
<1> DEFINE L == Len(C)
           t == C[L].th
<1>1. /\ L \in Nat \ {0} /\ L \in 1..L /\ t \in Threads /\ C # <<>>
      /\ T[t].nny = Cardinality(Calls(C, L, t)) + One(t = MainThread)
  BY RunningFacts
<1>2. /\ C2 \in Seq(Acts) /\ Len(C2) = L /\ \A i \in 1..(L - 1) : C2[i] = C[i]
      /\ Alike(C2[L], C[L])
      /\ T2 \in [Threads -> LuaState] /\ \A u \in Threads \ {t} : T2[u] = T[u]
      /\ T2[t].status = "ok" /\ T2[t].nny = T[t].nny
      /\ CiOK(T2[t].ci) /\ lev[L] <= Len(T2[t].ci)
      /\ \A j \in 1..lev[L] : (C[L].f = "C" /\ j = lev[L]) \/ T2[t].ci[j] = T[t].ci[j]
      /\ L = 1 => T2[t].ci[1].fn = "host"
  BY Zenon DEF Touches, Moves
<1>3. Typed(T2, C2, lev)
  BY <1>1, <1>2 DEF Typed
<1>4. Calls(C2, L, t) = Calls(C, L, t)
  <2>1. L \in Nat /\ \A i \in 1..L : Alike(C2[i], C[i])
    <3>1. \A i \in 1..L : i \in 1..(L - 1) \/ i = L
      BY <1>1
    <3>2. QED
      BY <1>1, <1>2, <3>1 DEF Alike
  <2> HIDE DEF L, t
  <2>2. Nested(C2, L) = Nested(C, L) /\ \A x : Calls(C2, L, x) = Calls(C, L, x)
    BY <2>1, CountsSame
  <2>3. QED
    BY <2>2
<1>5. Returns(T, C, lev, T2, C2, lev, L)
  <2>1. \A i \in L..L : C[i].th = t
    BY <1>1
  <2>2. T2[t].nny = Cardinality(Calls(C2, L, t)) + One(t = MainThread)
    BY <1>1, <1>2, <1>4
  <2>3. QED
    BY <1>1, <1>2, <2>1, <2>2 DEF Returns
<1>6. QED
  BY <1>3, <1>5, Retop

\* A thread that counts one more C call.
Deeper(S, t) == [S EXCEPT !.th[t].nCcalls = @ + 1]

\* nCcalls is raised before luaD_call is on the stack.
LEMMA CountsOne ==
    ASSUME NEW S, NEW lev, NEW t, NEW soft, CanCall(S, lev, t, soft, 0)
    PROVE  /\ CanCall(Deeper(S, t), lev, t, soft, 1)
           /\ Deeper(S, t).th[t].errfunc = S.th[t].errfunc
<1> DEFINE T == S.th
           C == S.cs
           L == Len(C)
           s == [T[t] EXCEPT !.nCcalls = T[t].nCcalls + 1]
           R == Deeper(S, t)
<1>1. /\ Throwing(S, lev, t) /\ CallSite(T, C, lev, soft)
      /\ T[t].errfunc = Handler(T[t].ci, Len(T[t].ci)) /\ T[t].nCcalls = Cardinality(Nested(C, L)) + 0
  BY Zenon DEF CanCall
<1>2. S \in Sts /\ Typed(T, C, lev) /\ Core(T, C, lev) /\ L > 1 /\ t = C[L].th
  BY <1>1 DEF Throwing
<1>3. /\ L \in Nat \ {0} /\ L \in 1..L /\ t \in Threads /\ C \in Seq(Acts) /\ T[t] \in LuaState
      /\ lev[L] \in Nat /\ lev[L] <= Len(T[t].ci) /\ T[t].status = "ok" /\ CiOK(T[t].ci)
  BY <1>2, RunningFacts
<1>4. Cardinality(Nested(C, L)) \in Nat
  BY <1>3, NestedStep
<1>5. /\ s \in LuaState /\ s.ci = T[t].ci /\ s.status = T[t].status /\ s.nny = T[t].nny
      /\ s.errfunc = T[t].errfunc /\ s.nCcalls = Cardinality(Nested(C, L)) + 1
  BY <1>1, <1>3, <1>4 DEF LuaState
<1> HIDE DEF s
<1>6. SetTo(S, t, s, R)
  <2>1. R = [S EXCEPT !.th[t] = s]
    BY DEF Deeper, s
  <2>2. SetTo(S, t, s, [S EXCEPT !.th[t] = s])
    BY <1>2, <1>3, <1>5, Sets
  <2>3. QED
    BY <2>1, <2>2
<1> HIDE DEF R
<1>7. /\ R \in Sts /\ R.cs = C /\ R.th[t] = s /\ \A u \in Threads \ {t} : R.th[u] = T[u]
      /\ R.th \in [Threads -> LuaState]
  BY <1>6 DEF SetTo, Sts
<1>8. Touches(T, C, lev, R.th, C)
  <2>1. Moves(T, C, R.th, R.th[t].ci, T[t].nny)
    BY <1>2, <1>3, <1>5, <1>7 DEF Moves
  <2>2. Alike(C[L], C[L]) /\ L # 1
    BY <1>2, <1>3 DEF Alike
  <2>3. QED
    BY <1>2, <1>3, <1>5, <1>7, <2>1, <2>2 DEF Touches
<1>9. Typed(R.th, C, lev) /\ Core(R.th, C, lev)
  BY <1>2, <1>8, Retouch
<1>10. Throwing(R, lev, t)
  BY <1>2, <1>7, <1>9 DEF Throwing
<1>11. CallSite(R.th, C, lev, soft)
  <2>1. R.th[C[L].th].ci = T[C[L].th].ci
    BY <1>2, <1>5, <1>7
  <2>2. QED
    BY <1>1, <2>1 DEF CallSite
<1>12. QED
  BY <1>1, <1>5, <1>7, <1>10, <1>11 DEF CanCall, R

\* luaD_call, anywhere but at the limit.
LEMMA CallsPast ==
    ASSUME NEW S, NEW lev, NEW t, NEW soft \in BOOLEAN, CanCall(S, lev, t, soft, 0), NEW fn \in Names
    PROVE  Fine(CallPast(S, t, fn, soft))
<1> DEFINE C == Deeper(S, t)
<1>1. CanCall(C, lev, t, soft, 1)
  BY CountsOne
<1>2. CallPast(S, t, fn, soft) =
         IF C.th[t].nCcalls >= LUAI_MAXCCALLS + ErrorCCalls
         THEN luaD_throw(C, t, "errerr") ELSE EnterCall(C, t, fn, soft)
  BY DEF CallPast, Deeper
<1> HIDE DEF C
<1>3. Fine(EnterCall(C, t, fn, soft))
  BY <1>1, EnterCalls
<1>4. Throwing(C, lev, t)
  BY <1>1, Zenon DEF CanCall
<1>5. Fine(luaD_throw(C, t, "errerr"))
  <2>1. "errerr" \in {"err", "errerr"}
    OBVIOUS
  <2>2. QED
    BY <1>4, <2>1, ThrowError
<1>6. QED
  BY <1>2, <1>3, <1>5

\* One more activation on top.
LEMMA PushIs ==
    ASSUME NEW S \in Sts, NEW a \in Acts
    PROVE  /\ Push(S, a) \in Sts /\ Push(S, a).th = S.th /\ Push(S, a).cs = Append(S.cs, a)
           /\ Push(S, a).res = S.res
<1>1. S = [th |-> S.th, cs |-> S.cs, res |-> S.res] /\ Append(S.cs, a) \in Seq(Acts)
      /\ S.th \in [Threads -> LuaState] /\ S.res \in {"ok", "err", "errerr"}
  BY DEF Sts
<1>2. Push(S, a) = [th |-> S.th, cs |-> Append(S.cs, a), res |-> S.res]
  BY <1>1 DEF Push
<1>3. QED
  BY <1>1, <1>2 DEF Sts

\* luaG_errormsg as one.
MsgAt(t) == [f |-> "luaG_errormsg", th |-> t]

\* The running thread fails where it is.
Raising(S, lev, t) ==
    LET L == Len(S.cs)
        c == S.th[t].ci
    IN  /\ Throwing(S, lev, t) /\ lev[L] = Len(c) /\ S.cs[L].f \in {"C", "luaV_execute", "luaD_call"}
        /\ S.th[t].errfunc = Handler(c, Len(c))
        /\ S.th[t].nCcalls = Cardinality(Nested(S.cs, L))

\* It may call the message handler there.
LEMMA Handles ==
    ASSUME NEW S, NEW lev, NEW t, Raising(S, lev, t)
    PROVE  CanCall(Push(S, MsgAt(t)), LevelsOf(S.cs, lev, Len(S.th[t].ci)), t, FALSE, 0)
<1> DEFINE T == S.th
           C == S.cs
           L == Len(C)
           n == Len(T[t].ci)
           a == MsgAt(t)
           R == Push(S, a)
           lev2 == LevelsOf(C, lev, n)
<1>1. /\ S \in Sts /\ Typed(T, C, lev) /\ Core(T, C, lev) /\ L > 1 /\ t = C[L].th
      /\ lev[L] = n /\ C[L].f \in {"C", "luaV_execute", "luaD_call"}
      /\ T[t].errfunc = Handler(T[t].ci, n) /\ T[t].nCcalls = Cardinality(Nested(C, L))
  BY DEF Raising, Throwing
<1>2. /\ L \in Nat \ {0} /\ t \in Threads /\ C \in Seq(Acts) /\ C # <<>> /\ n \in Nat
      /\ T \in [Threads -> LuaState] /\ T[t].status = "ok"
  BY <1>1, RunningFacts
<1>3. a \in Acts /\ a.th = t /\ a.f = "luaG_errormsg" /\ ~IsRun(a, "resume")
  BY <1>2 DEF MsgAt, Acts, MsgAct, IsRun
<1> HIDE DEF a
<1>4. R \in Sts /\ R.th = T /\ R.cs = Append(C, a)
  BY <1>1, <1>3, PushIs
<1> HIDE DEF R
<1>5. Grown(C, lev, Append(C, a), lev2, a, n)
  BY <1>1, <1>2, <1>3, Growing
<1> HIDE DEF lev2
<1>6. Typed(T, Append(C, a), lev2) /\ Core(T, Append(C, a), lev2)
  <2>1. Overlay(T, C, lev, a)
    BY <1>1, <1>3 DEF Overlay
  <2>2. Moves(T, C, T, T[t].ci, T[t].nny)
    BY <1>1, <1>2 DEF Moves
  <2> HIDE DEF n
  <2>3. Grown(C, lev, Append(C, a), lev2, a, Len(T[t].ci))
    BY <1>5 DEF n
  <2>4. Typed(T, C, lev) /\ Core(T, C, lev) /\ t = C[Len(C)].th
    BY <1>1
  <2> HIDE DEF T, C, L
  <2>5. QED
    BY <2>1, <2>2, <2>3, <2>4, PushOver DEF L
<1>7. /\ Len(R.cs) = L + 1 /\ R.cs[L + 1] = a /\ lev2[L + 1] = n
      /\ Cardinality(Nested(R.cs, L + 1)) = Cardinality(Nested(C, L)) /\ Cardinality(Nested(C, L)) \in Nat
  <2>1. Grew(C, lev, Append(C, a), lev2, a, n)
    BY <1>2, <1>5, GrownFacts
  <2>2. /\ Len(Append(C, a)) = L + 1 /\ Append(C, a)[L + 1] = a /\ lev2[L + 1] = n
        /\ Cardinality(Nested(C, L)) \in Nat
        /\ Cardinality(Nested(Append(C, a), L + 1)) =
              Cardinality(Nested(C, L)) + One(a.f = "luaD_call" \/ IsRun(a, "resume"))
    BY <2>1, Zenon DEF Grew
  <2>3. One(a.f = "luaD_call" \/ IsRun(a, "resume")) = 0
    BY <1>3 DEF One
  <2>4. QED
    BY <1>4, <2>2, <2>3
<1>8. Throwing(R, lev2, t)
  BY <1>2, <1>3, <1>4, <1>6, <1>7 DEF Throwing
<1>9. CallSite(R.th, R.cs, lev2, FALSE)
  BY <1>3, <1>4, <1>7 DEF CallSite
<1>10. T[t].nCcalls = Cardinality(Nested(R.cs, Len(R.cs))) + 0
  BY <1>1, <1>7
<1>11. CanCall(R, lev2, t, FALSE, 0)
  BY <1>1, <1>4, <1>8, <1>9, <1>10 DEF CanCall
<1>12. QED
  BY <1>11 DEF R, a, lev2

\* luaD_call at the limit.
LEMMA Overflows ==
    ASSUME NEW S, NEW lev, NEW t, NEW soft, CanCall(S, lev, t, soft, 0)
    PROVE  Fine(StackOverflow(S, t))
<1> DEFINE D == Deeper(S, t)
           a == CallAt(t, TRUE)
           R == Push(D, a)
           T == D.th
           C == D.cs
           L == Len(C)
           n == Len(T[t].ci)
           lev2 == LevelsOf(C, lev, n)
<1>1. CanCall(D, lev, t, soft, 1) /\ T[t].errfunc = S.th[t].errfunc
  BY CountsOne
<1>2. /\ D \in Sts /\ Typed(T, C, lev) /\ Core(T, C, lev) /\ L > 1 /\ t = C[L].th
      /\ CallSite(T, C, lev, soft)
      /\ T[t].errfunc = Handler(T[t].ci, n) /\ T[t].nCcalls = Cardinality(Nested(C, L)) + 1
  <2>1. /\ Throwing(D, lev, t) /\ CallSite(T, C, lev, soft)
        /\ T[t].errfunc = Handler(T[t].ci, n) /\ T[t].nCcalls = Cardinality(Nested(C, L)) + 1
    BY <1>1, Zenon DEF CanCall
  <2>2. QED
    BY <2>1, Zenon DEF Throwing
<1> HIDE DEF D
<1>3. /\ L \in Nat \ {0} /\ t \in Threads /\ C \in Seq(Acts) /\ C # <<>> /\ n \in Nat
      /\ T \in [Threads -> LuaState] /\ T[t].status = "ok"
  BY <1>2, RunningFacts
<1>4. a \in Acts /\ a.th = t /\ a.f = "luaD_call" /\ a = [f |-> "luaD_call", th |-> t, allowyield |-> TRUE]
  BY <1>3 DEF CallAt, Acts, CallAct
<1> HIDE DEF a
<1>5. R \in Sts /\ R.th = T /\ R.cs = Append(C, a)
  BY <1>2, <1>4, PushIs
<1>6. StackOverflow(S, t) =
         IF S.th[t].errfunc # 0 THEN CallPast(Push(R, MsgAt(t)), t, "handler", FALSE)
         ELSE luaD_throw(R, t, "err")
  BY <1>4 DEF StackOverflow, Deeper, D, MsgAt
<1> HIDE DEF R
<1>7. Grown(C, lev, Append(C, a), lev2, a, n)
  BY <1>2, <1>3, <1>4, Growing
<1> HIDE DEF lev2
<1>8. Typed(T, Append(C, a), lev2) /\ Core(T, Append(C, a), lev2)
  <2>1. CallSite(T, C, lev, FALSE) /\ TRUE \in BOOLEAN
    BY <1>2 DEF CallSite
  <2>2. Moves(T, C, T, T[t].ci, NonYieldable(T[t].nny, TRUE))
    BY <1>2, <1>3 DEF Moves, NonYieldable
  <2>3. Calling(T, C, lev, T, Append(C, a), lev2, TRUE)
    BY <1>2, <1>7, <2>1, <2>2, Zenon DEF Calling, a
  <2>4. QED
    BY <2>3, PushCall
<1>9. /\ Len(R.cs) = L + 1 /\ R.cs[L + 1] = a /\ lev2[L + 1] = n
      /\ Cardinality(Nested(R.cs, L + 1)) = Cardinality(Nested(C, L)) + 1
  <2>1. Grew(C, lev, Append(C, a), lev2, a, n)
    BY <1>3, <1>7, GrownFacts
  <2>2. /\ Len(Append(C, a)) = L + 1 /\ Append(C, a)[L + 1] = a /\ lev2[L + 1] = n
        /\ Cardinality(Nested(Append(C, a), L + 1)) =
              Cardinality(Nested(C, L)) + One(a.f = "luaD_call" \/ IsRun(a, "resume"))
    BY <2>1, Zenon DEF Grew
  <2>3. One(a.f = "luaD_call" \/ IsRun(a, "resume")) = 1
    BY <1>4 DEF One
  <2>4. QED
    BY <1>5, <2>2, <2>3
<1>10. Throwing(R, lev2, t)
  BY <1>3, <1>4, <1>5, <1>8, <1>9 DEF Throwing
<1>11. Raising(R, lev2, t)
  BY <1>2, <1>4, <1>5, <1>9, <1>10 DEF Raising
<1>12. Fine(CallPast(Push(R, MsgAt(t)), t, "handler", FALSE))
  <2>1. CanCall(Push(R, MsgAt(t)), LevelsOf(R.cs, lev2, Len(R.th[t].ci)), t, FALSE, 0)
    BY <1>11, Handles
  <2>2. "handler" \in Names /\ FALSE \in BOOLEAN
    BY DEF Names
  <2>3. QED
    BY <2>1, <2>2, CallsPast
<1>13. Fine(luaD_throw(R, t, "err"))
  <2>1. "err" \in {"err", "errerr"}
    OBVIOUS
  <2>2. QED
    BY <1>10, <2>1, ThrowError
<1>14. QED
  BY <1>6, <1>12, <1>13

\* luaD_call, at any depth.
LEMMA CallsFn ==
    ASSUME NEW S, NEW lev, NEW t, NEW soft \in BOOLEAN, CanCall(S, lev, t, soft, 0), NEW fn \in Names
    PROVE  Fine(luaD_call(S, t, fn, soft))
BY CallsPast, Overflows DEF luaD_call

\* luaG_errormsg.
LEMMA Raises ==
    ASSUME NEW S, NEW lev, NEW t, Raising(S, lev, t)
    PROVE  Fine(luaG_errormsg(S, t))
<1>1. Fine(luaD_throw(S, t, "err"))
  <2>1. Throwing(S, lev, t) /\ "err" \in {"err", "errerr"}
    BY DEF Raising
  <2>2. QED
    BY <2>1, ThrowError
<1>2. Fine(luaD_call(Push(S, MsgAt(t)), t, "handler", FALSE))
  <2>1. CanCall(Push(S, MsgAt(t)), LevelsOf(S.cs, lev, Len(S.th[t].ci)), t, FALSE, 0)
    BY Handles
  <2>2. "handler" \in Names /\ FALSE \in BOOLEAN
    BY DEF Names
  <2>3. QED
    BY <2>1, <2>2, CallsFn
<1>3. QED
  BY <1>1, <1>2 DEF luaG_errormsg, MsgAt

\* A state whose invariant holds, in which thread t runs.
Stands(S, lev, t) ==
    /\ S \in Sts /\ Typed(S.th, S.cs, lev) /\ Core(S.th, S.cs, lev) /\ TopOK(S.th, S.cs, lev)
    /\ t = S.cs[Len(S.cs)].th

\* What that says of the running thread.
Standing(S, lev, t) ==
    LET T == S.th
        C == S.cs
        L == Len(C)
        c == T[t].ci
        n == Len(c)
    IN  /\ S \in Sts /\ Typed(T, C, lev) /\ Core(T, C, lev)
        /\ L \in Nat \ {0} /\ L \in 1..L /\ t \in Threads /\ C \in Seq(Acts) /\ C # <<>>
        /\ C[L] \in Acts /\ C[L].th = t /\ Last(C) = C[L]
        /\ T \in [Threads -> LuaState] /\ T[t] \in LuaState /\ c \in Seq(Info) /\ n \in Nat
        /\ lev[L] \in Nat /\ lev[L] <= n /\ T[t].status = "ok" /\ CiOK(c)
        /\ T[t].nny = Cardinality(Calls(C, L, t)) + One(t = MainThread)
        /\ T[t].nCcalls = Cardinality(Nested(C, L))
        /\ C[L].f # "unroll" => lev[L] = n
        /\ C[L].f = "C" => n >= 1
        /\ C[L].f = "C" => T[t].errfunc = Handler(c, IF c[n].fn \in Prot THEN n - 1 ELSE n)
        /\ C[L].f \notin {"C", "unroll"} => T[t].errfunc = Handler(c, n)
        /\ L = 1 => C[L].f = "C" /\ n = 1 /\ c[1].fn = "host"

\* What the invariant says of the running thread in such a state.
LEMMA StandingFacts ==
    ASSUME NEW S, NEW lev, NEW t, Stands(S, lev, t)
    PROVE  Standing(S, lev, t)
<1> DEFINE T == S.th
           C == S.cs
           L == Len(C)
           c == T[t].ci
           n == Len(c)
<1>1. S \in Sts /\ Typed(T, C, lev) /\ Core(T, C, lev) /\ TopOK(T, C, lev) /\ t = C[L].th
  BY DEF Stands
<1>2. /\ L \in Nat \ {0} /\ L \in 1..L /\ t \in Threads /\ C \in Seq(Acts) /\ C # <<>>
      /\ C[L] \in Acts /\ C[L].th = t
      /\ T \in [Threads -> LuaState] /\ T[t] \in LuaState /\ c \in Seq(Info) /\ n \in Nat
      /\ lev[L] \in Nat /\ lev[L] <= n /\ T[t].status = "ok" /\ CiOK(c)
      /\ T[t].nny = Cardinality(Calls(C, L, t)) + One(t = MainThread)
      /\ Pos(T, C, lev, L)
  BY <1>1, RunningFacts
<1>3. Last(C) = C[L]
  BY <1>2 DEF Last
<1>4. /\ T[t].nCcalls = Cardinality(Nested(C, L))
      /\ C[L].f # "unroll" => lev[L] = n
      /\ C[L].f = "C" => T[t].errfunc = Handler(c, IF c[n].fn \in Prot THEN n - 1 ELSE n)
      /\ C[L].f \notin {"C", "unroll"} => T[t].errfunc = Handler(c, n)
  <2>1. C[L].th = t
    BY <1>2
  <2>2. QED
    BY <1>1, <2>1, Zenon DEF TopOK
<1>5. C[L].f = "C" => n >= 1
  <2>1. C[L].f = "C" => lev[L] >= 1
    BY <1>2, Zenon DEF Pos
  <2>2. QED
    BY <1>2, <1>4, <2>1
<1>6. L = 1 => C[L].f = "C" /\ n = 1 /\ c[1].fn = "host"
  <2>1. C[1].f = "C" /\ C[1].th = MainThread /\ lev[1] = 1 /\ T[MainThread].ci[1].fn = "host"
    BY <1>1 DEF Core, Bottom
  <2>2. QED
    BY <1>1, <1>4, <2>1
<1>7. QED
  BY <1>1, <1>2, <1>3, <1>4, <1>5, <1>6 DEF Standing

\* A function that is not a protected call fails, or the interpreter does.
LEMMA ErrorKeeps ==
    ASSUME NEW S, NEW lev, NEW t, Stands(S, lev, t),
           \/ S.cs[Len(S.cs)].f = "C" /\ S.th[t].ci[Len(S.th[t].ci)].fn \notin Prot
           \/ S.cs[Len(S.cs)].f = "luaV_execute"
    PROVE  Raising(S, lev, t) /\ Fine(luaG_errormsg(S, t))
<1>1. Standing(S, lev, t)
  BY StandingFacts
<1> DEFINE C == S.cs
           L == Len(C)
           c == S.th[t].ci
           n == Len(c)
<1>2. /\ S \in Sts /\ Typed(S.th, C, lev) /\ Core(S.th, C, lev) /\ L \in Nat \ {0} /\ t = C[L].th
      /\ S.th[t].nCcalls = Cardinality(Nested(C, L))
      /\ C[L].f # "unroll" => lev[L] = n
      /\ C[L].f = "C" => S.th[t].errfunc = Handler(c, IF c[n].fn \in Prot THEN n - 1 ELSE n)
      /\ C[L].f \notin {"C", "unroll"} => S.th[t].errfunc = Handler(c, n)
      /\ L = 1 => C[L].f = "C" /\ n = 1 /\ c[1].fn = "host"
  BY <1>1 DEF Standing
<1>3. L > 1
  <2>1. L # 1
    BY <1>2 DEF Prot
  <2>2. L \in Nat \ {0}
    BY <1>2
  <2> HIDE DEF L
  <2>3. QED
    BY <2>1, <2>2
<1>4. Throwing(S, lev, t)
  BY <1>2, <1>3 DEF Throwing
<1>5. S.th[t].errfunc = Handler(c, n) /\ lev[L] = n /\ C[L].f \in {"C", "luaV_execute", "luaD_call"}
  BY <1>2
<1>6. Raising(S, lev, t)
  BY <1>2, <1>4, <1>5 DEF Raising
<1>7. QED
  BY <1>6, Raises

\* lua_yieldk, called by coroutine.yield.
LEMMA YieldKeeps ==
    ASSUME NEW S, NEW lev, NEW t, Stands(S, lev, t),
           S.cs[Len(S.cs)].f = "C", S.th[t].ci[Len(S.th[t].ci)].fn \notin Prot
    PROVE  Fine(lua_yieldk(S, t))
<1>1. Standing(S, lev, t)
  BY StandingFacts
<1>2. Raising(S, lev, t) /\ Fine(luaG_errormsg(S, t))
  BY ErrorKeeps
<1>3. CASE S.th[t].nny > 0
  BY <1>2, <1>3 DEF lua_yieldk
<1>4. CASE ~(S.th[t].nny > 0)
  <2>1. S.th[t].nny \in Nat
    <3>1. S.th[t] \in LuaState
      BY <1>1 DEF Standing
    <3>2. QED
      BY <3>1, StateFields
  <2>2. S.th[t].nny = 0
    BY <1>4, <2>1
  <2>3. Yielding(S, lev, t)
    BY <1>2, <2>2 DEF Raising, Yielding
  <2>4. Fine(luaD_throw([S EXCEPT !.th[t].status = "yield"], t, "yield"))
    BY <2>3, ThrowYield
  <2>5. QED
    BY <1>4, <2>4 DEF lua_yieldk
<1>5. QED
  BY <1>3, <1>4

\* The message handler has returned.
LEMMA HandlerKeeps ==
    ASSUME NEW S, NEW lev, NEW t, Stands(S, lev, t), S.cs[Len(S.cs)].f = "luaG_errormsg"
    PROVE  Fine(luaD_throw(S, t, "err"))
<1>1. Standing(S, lev, t)
  BY StandingFacts
<1>2. Len(S.cs) \in Nat \ {0} /\ (Len(S.cs) = 1 => S.cs[Len(S.cs)].f = "C")
  BY <1>1 DEF Standing
<1>3. Len(S.cs) > 1
  <2>1. Len(S.cs) # 1
    BY <1>2
  <2> DEFINE L == Len(S.cs)
  <2> HIDE DEF L
  <2>2. L \in Nat \ {0} /\ L # 1
    BY <1>2, <2>1 DEF L
  <2>3. L > 1
    BY <2>2
  <2>4. QED
    BY <2>3 DEF L
<1>4. Throwing(S, lev, t) /\ "err" \in {"err", "errerr"}
  BY <1>3 DEF Stands, Throwing
<1>5. QED
  BY <1>4, ThrowError

\* The frame of the C function on top changes in what its call of another
\* function records there.
Reframed(c, r, d) ==
    LET n == Len(c)
    IN  /\ d \in Seq(Info) /\ n \in Nat \ {0} /\ Len(d) = n /\ d[n] = r /\ r.fn = c[n].fn
        /\ CiOK(d) /\ (\A j \in 1..(n - 1) : d[j] = c[j])
        /\ \A m \in 0..n : Handler(d, m) = Handler(c, m)

\* A frame that may be recovered is noted with the handler outside it.
LEMMA CiTop ==
    ASSUME NEW c \in Seq(Info), CiOK(c), c # <<>>, NEW r \in Info,
           r.fn = c[Len(c)].fn, r.reentry = c[Len(c)].reentry,
           r.ypcall => /\ r.fn \in {"pcall", "xpcall"} /\ r.olderr = Handler(c, Len(c) - 1)
                       /\ Soft(r) /\ \A i \in 1..(Len(c) - 1) : Soft(c[i])
    PROVE  Reframed(c, r, [c EXCEPT ![Len(c)] = r])
<1> DEFINE n == Len(c)
           d == [c EXCEPT ![n] = r]
<1>1. d \in Seq(Info) /\ n \in Nat \ {0} /\ Len(d) = n /\ d[n] = r /\ \A j \in 1..(n - 1) : d[j] = c[j]
  OBVIOUS
<1> HIDE DEF d
<1>2. \A j \in 1..n : d[j].fn = c[j].fn
  <2>1. \A j \in 1..n : j = n \/ j \in 1..(n - 1)
    BY <1>1
  <2>2. QED
    BY <1>1, <2>1
<1>3. ASSUME NEW m \in 0..n PROVE Handler(d, m) = Handler(c, m)
  <2>1. m \in Nat /\ \A j \in 1..m : d[j].fn = c[j].fn
    BY <1>1, <1>2
  <2>2. QED
    BY <2>1, HandlerSame
<1>4. CiOK(d)
  <2>1. SUFFICES ASSUME NEW j \in 1..n
                 PROVE /\ d[j].ypcall => /\ d[j].fn \in {"pcall", "xpcall"} /\ d[j].olderr = Handler(d, j - 1)
                                         /\ \A i \in 1..j : Soft(d[i])
                       /\ d[j].reentry => j >= 2 /\ IsLua(d[j].fn) /\ IsLua(d[j - 1].fn)
    BY <1>1 DEF CiOK
  <2>2. /\ c[j].ypcall => /\ c[j].fn \in {"pcall", "xpcall"} /\ c[j].olderr = Handler(c, j - 1)
                          /\ \A i \in 1..j : Soft(c[i])
        /\ c[j].reentry => j >= 2 /\ IsLua(c[j].fn) /\ IsLua(c[j - 1].fn)
    BY DEF CiOK
  <2>3. j - 1 \in 0..n /\ Handler(d, j - 1) = Handler(c, j - 1)
    BY <1>1, <1>3
  <2>4. d[j].reentry => j >= 2 /\ IsLua(d[j].fn) /\ IsLua(d[j - 1].fn)
    <3>1. d[j].reentry = c[j].reentry
      <4>1. j = n \/ j \in 1..(n - 1)
        BY <1>1
      <4>2. QED
        BY <1>1, <4>1
    <3>2. j >= 2 => j - 1 \in 1..n
      BY <1>1
    <3>3. QED
      BY <1>2, <2>2, <3>1, <3>2
  <2>5. CASE j = n
    <3>1. d[j] = r /\ j - 1 = n - 1 /\ \A i \in 1..j : i = n \/ i \in 1..(n - 1)
      BY <1>1, <2>5
    <3>2. r.ypcall => \A i \in 1..j : Soft(d[i])
      BY <1>1, <3>1
    <3>3. QED
      BY <2>3, <2>4, <3>1, <3>2
  <2>6. CASE j # n
    <3>1. j \in 1..(n - 1) /\ d[j] = c[j] /\ \A i \in 1..j : d[i] = c[i]
      BY <1>1, <2>6
    <3>2. QED
      BY <2>2, <2>3, <2>4, <3>1
  <2>7. QED
    BY <2>5, <2>6
<1>5. QED
  BY <1>1, <1>3, <1>4 DEF d, Reframed

\* Such a change of the state s of the running thread and of its activation.
Retopped(S, t, s, r, C2) ==
    LET L == Len(S.cs)
    IN  /\ S.cs[L].f = "C" /\ s \in LuaState /\ Reframed(S.th[t].ci, r, s.ci)
        /\ s.status = "ok" /\ s.nny = S.th[t].nny
        /\ C2 \in Seq(Acts) /\ Len(C2) = L /\ \A i \in 1..(L - 1) : C2[i] = S.cs[i]
        /\ Alike(C2[L], S.cs[L])

\* The change keeps the invariant of the activations.
LEMMA FrameChanges ==
    ASSUME NEW S, NEW lev, NEW t, Stands(S, lev, t), NEW s, NEW r, NEW C2, Retopped(S, t, s, r, C2)
    PROVE  /\ Typed([S.th EXCEPT ![t] = s], C2, lev)
           /\ Core([S.th EXCEPT ![t] = s], C2, lev)
           /\ Nested(C2, Len(S.cs)) = Nested(S.cs, Len(S.cs))
<1> DEFINE T == S.th
           C == S.cs
           L == Len(C)
           c == T[t].ci
           n == Len(c)
           T2 == [T EXCEPT ![t] = s]
<1>1. Standing(S, lev, t)
  BY StandingFacts
<1>2. /\ Typed(T, C, lev) /\ Core(T, C, lev) /\ L \in Nat \ {0} /\ t \in Threads /\ t = C[L].th
      /\ T \in [Threads -> LuaState] /\ n \in Nat /\ lev[L] \in Nat
      /\ (C[L].f # "unroll" => lev[L] = n) /\ (L = 1 => n = 1 /\ c[1].fn = "host")
  BY <1>1 DEF Standing
<1>3. /\ C[L].f = "C" /\ s \in LuaState /\ Reframed(c, r, s.ci) /\ s.status = "ok" /\ s.nny = T[t].nny
      /\ C2 \in Seq(Acts) /\ Len(C2) = L /\ \A i \in 1..(L - 1) : C2[i] = C[i]
      /\ Alike(C2[L], C[L])
  BY DEF Retopped
<1>4. /\ Len(s.ci) = n /\ s.ci[n] = r /\ r.fn = c[n].fn /\ CiOK(s.ci) /\ \A j \in 1..(n - 1) : s.ci[j] = c[j]
  BY <1>3 DEF Reframed
<1> HIDE DEF T, C, L, c, n
<1>5. T2[t] = s /\ T2 \in [Threads -> LuaState] /\ \A u \in Threads \ {t} : T2[u] = T[u]
  BY <1>2, <1>3
<1> HIDE DEF T2
<1>6. Touches(T, C, lev, T2, C2)
  <2>1. Moves(T, C, T2, T2[t].ci, T[t].nny)
    BY <1>2, <1>3, <1>5 DEF Moves, L
  <2>2. lev[L] = n /\ lev[L] <= Len(T2[t].ci)
    BY <1>2, <1>3, <1>4, <1>5
  <2>3. \A j \in 1..lev[L] : (C[L].f = "C" /\ j = lev[L]) \/ T2[t].ci[j] = T[t].ci[j]
    <3>1. \A j \in 1..n : j = n \/ j \in 1..(n - 1)
      BY <1>2
    <3>2. QED
      BY <1>3, <1>4, <1>5, <2>2, <3>1 DEF c
  <2>4. L = 1 => T2[t].ci[1].fn = "host"
    BY <1>2, <1>4, <1>5
  <2>5. QED
    BY <1>2, <1>3, <1>4, <1>5, <2>1, <2>2, <2>3, <2>4 DEF Touches, L
<1>7. Typed(T2, C2, lev) /\ Core(T2, C2, lev)
  BY <1>2, <1>6, Retouch
<1>8. Nested(C2, L) = Nested(C, L)
  <2>1. L \in Nat /\ \A i \in 1..L : Alike(C2[i], C[i])
    <3>1. \A i \in 1..L : i \in 1..(L - 1) \/ i = L
      BY <1>2
    <3>2. QED
      BY <1>2, <1>3, <3>1 DEF Alike
  <2>2. QED
    BY <2>1, CountsSame
<1>9. QED
  BY <1>7, <1>8 DEF T2, T, C, L

\* The C function on top is marked as waiting or as done.
Marked(S, x) == [S EXCEPT !.cs[Len(S.cs)].at = x]

\* It is still a state whose invariant holds.
Marking(S, x, lev, t, R) ==
    /\ Stands(R, lev, t) /\ R.th = S.th /\ R.res = S.res
    /\ Len(R.cs) = Len(S.cs) /\ R.cs[Len(S.cs)].f = "C"
    /\ R = [th |-> S.th, cs |-> [S.cs EXCEPT ![Len(S.cs)] = [S.cs[Len(S.cs)] EXCEPT !.at = x]],
            res |-> S.res]

\* Marking it changes nothing else.
LEMMA MarkKeeps ==
    ASSUME NEW S, NEW lev, NEW t, Stands(S, lev, t), S.cs[Len(S.cs)].f = "C",
           NEW x \in {"start", "wait", "done"}
    PROVE  Marking(S, x, lev, t, Marked(S, x))
<1> DEFINE T == S.th
           C == S.cs
           L == Len(C)
           c == T[t].ci
           n == Len(c)
           a == [C[L] EXCEPT !.at = x]
           C2 == [C EXCEPT ![L] = a]
           R == Marked(S, x)
<1>1. Standing(S, lev, t)
  BY StandingFacts
<1>2. /\ S \in Sts /\ L \in Nat \ {0} /\ L \in 1..L /\ C \in Seq(Acts) /\ C[L] \in Acts /\ C[L].th = t
      /\ T \in [Threads -> LuaState] /\ T[t] \in LuaState /\ c \in Seq(Info) /\ n \in Nat
      /\ T[t].status = "ok" /\ CiOK(c) /\ C[L].f = "C" /\ t \in Threads
      /\ (C[L].f = "C" => n >= 1)
      /\ T[t].nCcalls = Cardinality(Nested(C, L))
      /\ C[L].f # "unroll" => lev[L] = n
      /\ C[L].f = "C" => T[t].errfunc = Handler(c, IF c[n].fn \in Prot THEN n - 1 ELSE n)
  BY <1>1 DEF Standing
<1>3. a \in Acts /\ a.f = "C" /\ a.th = t
  <2>1. C[L] \in CAct
    BY <1>2, ActFields
  <2> HIDE DEF C, L
  <2>2. a \in CAct /\ a.f = "C" /\ a.th = t
    BY <1>2, <2>1 DEF CAct
  <2>3. QED
    BY <2>2 DEF Acts
<1> HIDE DEF a
<1>4. C2 \in Seq(Acts) /\ Len(C2) = L /\ C2[L] = a /\ \A i \in 1..(L - 1) : C2[i] = C[i]
  BY <1>2, <1>3
<1>5. R = [th |-> T, cs |-> C2, res |-> S.res] /\ S.res \in {"ok", "err", "errerr"}
  <2>1. S = [th |-> T, cs |-> C, res |-> S.res] /\ S.res \in {"ok", "err", "errerr"}
    BY <1>2 DEF Sts
  <2>2. R = [S EXCEPT !.cs = C2]
    BY DEF Marked, a
  <2> HIDE DEF R, C2
  <2>3. QED
    BY <2>1, <2>2
<1> HIDE DEF C2, R
<1>6. R \in Sts /\ R.th = T /\ R.cs = C2 /\ R.res = S.res
  BY <1>2, <1>4, <1>5 DEF Sts
<1>7. Reframed(c, c[n], c)
  <2>1. \A m \in 0..n : Handler(c, m) = Handler(c, m)
    OBVIOUS
  <2>2. QED
    BY <1>2, <2>1 DEF Reframed
<1>8. Retopped(S, t, T[t], c[n], C2)
  <2>1. Alike(C2[L], C[L])
    BY <1>2, <1>3, <1>4 DEF Alike
  <2>2. QED
    BY <1>2, <1>4, <1>7, <2>1 DEF Retopped
<1>9. Typed(T, C2, lev) /\ Core(T, C2, lev) /\ Nested(C2, L) = Nested(C, L)
  <2>1. /\ Typed([T EXCEPT ![t] = T[t]], C2, lev) /\ Core([T EXCEPT ![t] = T[t]], C2, lev)
        /\ Nested(C2, L) = Nested(C, L)
    BY <1>8, FrameChanges
  <2>2. [T EXCEPT ![t] = T[t]] = T
    BY <1>2
  <2>3. QED
    BY <2>1, <2>2
<1>10. TopOK(T, C2, lev)
  <2>1. C2[L].th = t /\ C2[L].f = "C"
    BY <1>3, <1>4
  <2>2. QED
    BY <1>2, <1>4, <1>9, <2>1 DEF TopOK
<1>11. Stands(R, lev, t)
  BY <1>3, <1>4, <1>6, <1>9, <1>10 DEF Stands
<1>12. QED
  BY <1>3, <1>4, <1>5, <1>6, <1>11 DEF Marking, C2, a, R

\* The C function on top, with its frame changed, may call a function.
Recalls(S, lev, t, s, r, soft, R) ==
    /\ Stands(S, lev, t) /\ Len(S.cs) > 1 /\ Retopped(S, t, s, r, S.cs) /\ SetTo(S, t, s, R)
    /\ s.nCcalls = S.th[t].nCcalls /\ s.errfunc = Handler(s.ci, Len(s.ci))
    /\ r.fn \in Prot => r.ypcall
    /\ soft => Soft(r)

\* The function may then call from there.
LEMMA ReframedCall ==
    ASSUME NEW S, NEW lev, NEW t, NEW s, NEW r, NEW soft, NEW R, Recalls(S, lev, t, s, r, soft, R)
    PROVE  CanCall(R, lev, t, soft, 0)
<1> DEFINE T == S.th
           C == S.cs
           L == Len(C)
           n == Len(s.ci)
<1>1. /\ Stands(S, lev, t) /\ L > 1 /\ Retopped(S, t, s, r, C) /\ SetTo(S, t, s, R)
      /\ s.nCcalls = T[t].nCcalls /\ s.errfunc = Handler(s.ci, n)
      /\ (r.fn \in Prot => r.ypcall) /\ (soft => Soft(r))
  BY DEF Recalls
<1>2. Standing(S, lev, t)
  BY <1>1, StandingFacts
<1>3. /\ L \in Nat \ {0} /\ t \in Threads /\ C[L].th = t /\ T[t].nCcalls = Cardinality(Nested(C, L))
      /\ (C[L].f # "unroll" => lev[L] = Len(T[t].ci))
  BY <1>2 DEF Standing
<1>4. /\ C[L].f = "C" /\ s.ci[n] = r /\ n = Len(T[t].ci)
  <2>1. C[L].f = "C" /\ Reframed(T[t].ci, r, s.ci)
    BY <1>1 DEF Retopped
  <2>2. QED
    BY <2>1 DEF Reframed
<1>5. R \in Sts /\ R.cs = C /\ R.th = [T EXCEPT ![t] = s] /\ R.th[t] = s
  BY <1>1 DEF SetTo
<1>6. Typed(R.th, C, lev) /\ Core(R.th, C, lev)
  <2>1. Typed([T EXCEPT ![t] = s], C, lev) /\ Core([T EXCEPT ![t] = s], C, lev)
    BY <1>1, FrameChanges
  <2>2. QED
    BY <1>5, <2>1
<1> HIDE DEF T, C, L, n
<1>7. Throwing(R, lev, t)
  BY <1>1, <1>3, <1>5, <1>6 DEF Throwing, L
<1>8. CallSite(R.th, C, lev, soft)
  <2>1. lev[L] = n /\ R.th[C[L].th].ci = s.ci /\ C[L].f \in {"C", "luaG_errormsg"}
    BY <1>3, <1>4, <1>5
  <2>2. QED
    BY <1>1, <1>4, <2>1 DEF CallSite, L, n
<1>9. /\ R.th[t].errfunc = Handler(s.ci, n) /\ R.th[t].ci = s.ci
      /\ R.th[t].nCcalls = Cardinality(Nested(C, L)) + 0
  <2>1. Cardinality(Nested(C, L)) \in Nat
    BY <1>3, NestedStep
  <2>2. QED
    BY <1>1, <1>3, <1>5, <2>1
<1>10. QED
  BY <1>5, <1>7, <1>8, <1>9 DEF CanCall, L, n

\* Where a thread may yield, its frames below the running one can be resumed.
LEMMA MayYield ==
    ASSUME NEW S, NEW lev, NEW t, Stands(S, lev, t), S.th[t].nny = 0, lev[Len(S.cs)] = Len(S.th[t].ci)
    PROVE  \A i \in 1..(Len(S.th[t].ci) - 1) : Soft(S.th[t].ci[i])
<1> DEFINE T == S.th
           C == S.cs
           L == Len(C)
<1>1. Standing(S, lev, t)
  BY StandingFacts
<1>2. /\ T[t].nny = Cardinality(Calls(C, L, t)) + One(t = MainThread) /\ L \in Nat /\ C[L].th = t
      /\ L \in 1..L /\ Core(T, C, lev)
  BY <1>1 DEF Standing
<1>3. /\ Cardinality(Calls(C, L, t)) \in Nat
      /\ Cardinality(Calls(C, L, t)) = 0 <=> Calls(C, L, t) = {}
  BY <1>2, CallsStep
<1>4. One(t = MainThread) = IF t = MainThread THEN 1 ELSE 0
  BY DEF One
<1>5. Calls(C, L, t) = {} /\ t # MainThread
  BY <1>2, <1>3, <1>4
<1>6. Pos(T, C, lev, L)
  BY <1>2 DEF Core
<1>7. C[L].th = MainThread \/ Calls(C, L, C[L].th) # {} \/ \A j \in 1..(lev[L] - 1) : Soft(T[C[L].th].ci[j])
  BY <1>6, Zenon DEF Pos
<1>8. QED
  BY <1>2, <1>5, <1>7

\* lua_callk, called by sort and dofile.
LEMMA CallkKeeps ==
    ASSUME NEW S, NEW lev, NEW t, Stands(S, lev, t), S.cs[Len(S.cs)].f = "C",
           S.th[t].ci[Len(S.th[t].ci)].fn \notin Prot, NEW fn \in Names, NEW k
    PROVE  Fine(lua_callk(S, t, fn, k))
<1> DEFINE T == S.th
           C == S.cs
           L == Len(C)
           c == T[t].ci
           n == Len(c)
<1>1. Standing(S, lev, t) /\ Raising(S, lev, t)
  BY StandingFacts, ErrorKeeps
<1>2. /\ S \in Sts /\ Throwing(S, lev, t) /\ L \in Nat \ {0} /\ C[L].th = t /\ t \in Threads /\ C \in Seq(Acts)
      /\ T[t] \in LuaState /\ c \in Seq(Info) /\ n \in Nat /\ T[t].status = "ok" /\ CiOK(c)
      /\ T[t].errfunc = Handler(c, n) /\ T[t].nCcalls = Cardinality(Nested(C, L))
      /\ lev[L] = n /\ n >= 1 /\ C[L].f = "C" /\ c[n].fn \notin Prot
  <2>1. /\ S \in Sts /\ L \in Nat \ {0} /\ C[L].th = t /\ t \in Threads /\ C \in Seq(Acts)
        /\ T[t] \in LuaState /\ c \in Seq(Info) /\ n \in Nat /\ T[t].status = "ok" /\ CiOK(c)
        /\ T[t].nCcalls = Cardinality(Nested(C, L)) /\ (C[L].f = "C" => n >= 1)
    BY <1>1 DEF Standing
  <2>2. Throwing(S, lev, t) /\ T[t].errfunc = Handler(c, n) /\ lev[L] = n
    BY <1>1 DEF Raising
  <2>3. QED
    BY <2>1, <2>2
<1>3. L > 1
  BY <1>2 DEF Throwing
<1>4. CASE k /\ T[t].nny = 0
  <2> DEFINE r == [c[n] EXCEPT !.k = TRUE]
             s == [T[t] EXCEPT !.ci = [c EXCEPT ![n] = r]]
             R == [S EXCEPT !.th[t] = s]
  <2>1. lua_callk(S, t, fn, k) = luaD_call(R, t, fn, TRUE)
    BY <1>4 DEF lua_callk
  <2>2. c[n] \in Info
    BY <1>2
  <2>3. /\ r \in Info /\ r.fn = c[n].fn /\ r.reentry = c[n].reentry /\ r.ypcall = c[n].ypcall /\ r.k = TRUE
    BY <2>2 DEF Info
  <2>4. ~r.ypcall
    <3>1. c[n].ypcall => c[n].fn \in {"pcall", "xpcall"}
      BY <1>2 DEF CiOK
    <3>2. QED
      BY <1>2, <2>3, <3>1 DEF Prot
  <2>5. Soft(r)
    BY <1>2, <2>3 DEF Soft
  <2> HIDE DEF r
  <2>6. Reframed(c, r, [c EXCEPT ![n] = r])
    <3>1. c # <<>>
      BY <1>2
    <3>2. c \in Seq(Info) /\ CiOK(c) /\ r.fn = c[Len(c)].fn /\ r.reentry = c[Len(c)].reentry
      BY <1>2, <2>3
    <3> HIDE DEF c
    <3>3. Reframed(c, r, [c EXCEPT ![Len(c)] = r])
      BY <2>3, <2>4, <3>1, <3>2, CiTop
    <3>4. QED
      BY <3>3
  <2>7. [c EXCEPT ![n] = r] \in Seq(Info)
    BY <2>6 DEF Reframed
  <2>8. /\ s \in LuaState /\ s.ci = [c EXCEPT ![n] = r] /\ s.status = "ok" /\ s.nny = T[t].nny
        /\ s.nCcalls = T[t].nCcalls /\ s.errfunc = T[t].errfunc
    BY <1>2, <2>7 DEF LuaState
  <2>9. SetTo(S, t, s, R)
    <3> HIDE DEF s
    <3>1. QED
      BY <1>2, <2>8, Sets
  <2> HIDE DEF s, R
  <2>10. Retopped(S, t, s, r, C)
    <3>1. Alike(C[L], C[L])
      BY DEF Alike
    <3>2. QED
      BY <1>2, <2>6, <2>8, <3>1 DEF Retopped
  <2>11. s.errfunc = Handler(s.ci, Len(s.ci))
    <3>1. Len(s.ci) = n /\ Handler(s.ci, n) = Handler(c, n)
      BY <1>2, <2>6, <2>8 DEF Reframed
    <3>2. QED
      BY <1>2, <2>8, <3>1
  <2>12. Recalls(S, lev, t, s, r, TRUE, R)
    BY <1>2, <1>3, <2>3, <2>5, <2>8, <2>9, <2>10, <2>11 DEF Recalls
  <2>13. CanCall(R, lev, t, TRUE, 0) /\ TRUE \in BOOLEAN
    BY <2>12, ReframedCall
  <2>14. QED
    BY <2>1, <2>13, CallsFn
<1>5. CASE ~(k /\ T[t].nny = 0)
  <2>1. lua_callk(S, t, fn, k) = luaD_call(S, t, fn, FALSE)
    BY <1>5 DEF lua_callk
  <2>2. CallSite(T, C, lev, FALSE)
    BY <1>2 DEF CallSite
  <2>3. T[t].nCcalls = Cardinality(Nested(C, L)) + 0
    <3>1. Cardinality(Nested(C, L)) \in Nat
      BY <1>2, NestedStep
    <3>2. QED
      BY <1>2, <3>1
  <2>4. CanCall(S, lev, t, FALSE, 0) /\ FALSE \in BOOLEAN
    BY <1>2, <2>2, <2>3 DEF CanCall
  <2>5. QED
    BY <2>1, <2>4, CallsFn
<1>6. QED
  BY <1>4, <1>5

\* What a protected call of the function in frame n makes the handler.
NewHandler(c) == IF c[Len(c)].fn = "xpcall" THEN Len(c) ELSE 0

\* luaD_pcall, from the frame of a protected call that may not be interrupted.
LEMMA HardPcall ==
    ASSUME NEW S, NEW lev, NEW t, Stands(S, lev, t), S.cs[Len(S.cs)].f = "C",
           S.th[t].ci[Len(S.th[t].ci)].fn \in Prot, NEW fn \in Names, NEW func,
           func = NewHandler(S.th[t].ci)
    PROVE  Fine(luaD_call([luaD_rawrunprotected(S, t, "pcall") EXCEPT !.th[t].errfunc = func], t, fn, FALSE))
<1> DEFINE T == S.th
           C == S.cs
           L == Len(C)
           c == T[t].ci
           n == Len(c)
           a == [f |-> "run", th |-> t, of |-> "pcall", ci |-> n,
                 nCcalls |-> T[t].nCcalls, nny |-> T[t].nny, errfunc |-> T[t].errfunc]
           P == Push(S, a)
           s == [T[t] EXCEPT !.errfunc = func]
           R == [P EXCEPT !.th[t] = s]
           lev2 == LevelsOf(C, lev, n)
<1>1. Standing(S, lev, t)
  BY StandingFacts
<1>2. /\ S \in Sts /\ Typed(T, C, lev) /\ Core(T, C, lev)
      /\ L \in Nat \ {0} /\ C[L].th = t /\ t \in Threads /\ C \in Seq(Acts) /\ C # <<>>
      /\ T \in [Threads -> LuaState] /\ T[t] \in LuaState /\ c \in Seq(Info) /\ n \in Nat
      /\ T[t].status = "ok" /\ CiOK(c)
      /\ T[t].nCcalls = Cardinality(Nested(C, L))
      /\ lev[L] = n /\ n >= 1 /\ C[L].f = "C" /\ c[n].fn \in Prot
      /\ T[t].errfunc = Handler(c, n - 1)
  <2>1. /\ S \in Sts /\ Typed(T, C, lev) /\ Core(T, C, lev)
        /\ L \in Nat \ {0} /\ C[L].th = t /\ t \in Threads /\ C \in Seq(Acts) /\ C # <<>>
        /\ T \in [Threads -> LuaState] /\ T[t] \in LuaState /\ c \in Seq(Info) /\ n \in Nat
        /\ T[t].status = "ok" /\ CiOK(c)
        /\ T[t].nCcalls = Cardinality(Nested(C, L))
        /\ C[L].f # "unroll" => lev[L] = n
        /\ C[L].f = "C" => n >= 1
        /\ C[L].f = "C" => T[t].errfunc = Handler(c, IF c[n].fn \in Prot THEN n - 1 ELSE n)
    BY <1>1 DEF Standing
  <2>2. QED
    BY <2>1
<1>3. func \in Nat /\ func = Handler(c, n)
  <2>1. n >= 1 => Handler(c, n) = IF c[n].fn = "xpcall" THEN n
                                        ELSE IF c[n].fn \in Prot THEN 0 ELSE Handler(c, n - 1)
    BY <1>2, HandlerIs
  <2>2. QED
    BY <1>2, <2>1 DEF NewHandler
<1>4. [luaD_rawrunprotected(S, t, "pcall") EXCEPT !.th[t].errfunc = func] = R
  <2>1. luaD_rawrunprotected(S, t, "pcall") = P
    BY DEF luaD_rawrunprotected
  <2>2. P.th = T
    BY <1>2 DEF Push
  <2> HIDE DEF P
  <2>3. QED
    BY <2>1, <2>2
<1>5. a \in Acts /\ a.th = t /\ IsRun(a, "pcall") /\ ~IsRun(a, "resume") /\ a.f # "C" /\ a.f # "luaD_call"
      /\ a.ci = n /\ a.nCcalls = T[t].nCcalls /\ a.nny = T[t].nny /\ a.errfunc = T[t].errfunc
  <2>1. T[t].nCcalls \in Nat /\ T[t].nny \in Nat /\ T[t].errfunc \in Nat
    BY <1>2, StateFields
  <2>2. QED
    BY <1>2, <2>1 DEF Acts, RunAct, IsRun
<1> HIDE DEF a
<1>6. /\ s \in LuaState /\ s.ci = c /\ s.status = "ok" /\ s.nny = T[t].nny
      /\ s.nCcalls = T[t].nCcalls /\ s.errfunc = func
  BY <1>2, <1>3 DEF LuaState
<1> HIDE DEF s
<1>7. P \in Sts /\ P.th = T /\ P.cs = Append(C, a)
  BY <1>2, <1>5, PushIs
<1> HIDE DEF P
<1>8. /\ R \in Sts /\ R.cs = Append(C, a) /\ R.th[t] = s /\ \A u \in Threads \ {t} : R.th[u] = T[u]
      /\ R.th \in [Threads -> LuaState]
  <2>1. SetTo(P, t, s, R)
    BY <1>2, <1>6, <1>7, Sets
  <2>2. QED
    BY <1>7, <2>1 DEF SetTo, Sts
<1> HIDE DEF R
<1>9. Grown(C, lev, R.cs, lev2, a, n)
  BY <1>2, <1>5, <1>8, Growing
<1> HIDE DEF lev2
<1>10. Typed(R.th, R.cs, lev2) /\ Core(R.th, R.cs, lev2)
  <2>1. Overlay(T, C, lev, a)
    BY <1>2, <1>5 DEF Overlay
  <2>2. Moves(T, C, R.th, T[t].ci, T[t].nny)
    BY <1>2, <1>6, <1>8 DEF Moves
  <2>3. Typed(T, C, lev) /\ Core(T, C, lev) /\ t = C[Len(C)].th /\ Grown(C, lev, R.cs, lev2, a, Len(T[t].ci))
    BY <1>2, <1>9
  <2> DEFINE T2 == R.th
             C2 == R.cs
  <2>4. /\ Moves(T, C, T2, T[t].ci, T[t].nny) /\ Grown(C, lev, C2, lev2, a, Len(T[t].ci))
        /\ Overlay(T, C, lev, a)
    BY <2>1, <2>2, <2>3
  <2>5. Typed(T, C, lev) /\ Core(T, C, lev) /\ t = C[Len(C)].th
    BY <2>3
  <2> HIDE DEF T, C, L, n, c, T2, C2
  <2>6. Typed(T2, C2, lev2) /\ Core(T2, C2, lev2)
    BY <2>4, <2>5, PushOver
  <2>7. QED
    BY <2>6 DEF T2, C2
<1>11. /\ Len(R.cs) = L + 1 /\ R.cs[L + 1] = a /\ lev2[L + 1] = n
       /\ Cardinality(Nested(R.cs, L + 1)) = Cardinality(Nested(C, L)) /\ Cardinality(Nested(C, L)) \in Nat
  <2>1. Grew(C, lev, R.cs, lev2, a, n)
    BY <1>2, <1>9, GrownFacts
  <2>2. /\ Len(R.cs) = L + 1 /\ R.cs[L + 1] = a /\ lev2[L + 1] = n
        /\ Cardinality(Nested(C, L)) \in Nat
        /\ Cardinality(Nested(R.cs, L + 1)) =
              Cardinality(Nested(C, L)) + One(a.f = "luaD_call" \/ IsRun(a, "resume"))
    BY <2>1, Zenon DEF Grew
  <2>3. One(a.f = "luaD_call" \/ IsRun(a, "resume")) = 0
    BY <1>5 DEF One
  <2>4. QED
    BY <2>2, <2>3
<1>12. Throwing(R, lev2, t)
  <2>1. L + 1 > 1
    <3> HIDE DEF L
    <3>1. QED
      BY <1>2
  <2>2. QED
    BY <1>5, <1>8, <1>10, <1>11, <2>1 DEF Throwing
<1>13. CallSite(R.th, R.cs, lev2, FALSE)
  BY <1>5, <1>6, <1>8, <1>11 DEF CallSite
<1>14. CanCall(R, lev2, t, FALSE, 0)
  <2>1. R.th[t].nCcalls = Cardinality(Nested(R.cs, Len(R.cs))) + 0
    BY <1>2, <1>6, <1>8, <1>11
  <2>2. R.th[t].ci = c /\ R.th[t].errfunc = Handler(c, n)
    BY <1>3, <1>6, <1>8
  <2>3. QED
    BY <1>12, <1>13, <2>1, <2>2 DEF CanCall
<1>15. Fine(luaD_call(R, t, fn, FALSE))
  <2>1. FALSE \in BOOLEAN
    OBVIOUS
  <2>2. QED
    BY <1>14, <2>1, CallsFn
<1>16. QED
  BY <1>4, <1>15

\* What lua_pcallk records in its frame and its thread to be resumed there.
MarkedFrame(s) ==
    [s.ci[Len(s.ci)] EXCEPT !.k = TRUE, !.ypcall = TRUE, !.olderr = s.errfunc]

MarkedState(s, func) ==
    [s EXCEPT !.ci = [s.ci EXCEPT ![Len(s.ci)] = MarkedFrame(s)], !.errfunc = func]

\* The fields of both.
LEMMA MarkedFields ==
    ASSUME NEW s \in LuaState, s.ci # <<>>, NEW func \in Nat
    PROVE  /\ MarkedFrame(s) \in Info
           /\ MarkedFrame(s).fn = s.ci[Len(s.ci)].fn /\ MarkedFrame(s).reentry = s.ci[Len(s.ci)].reentry
           /\ MarkedFrame(s).k = TRUE /\ MarkedFrame(s).ypcall = TRUE /\ MarkedFrame(s).olderr = s.errfunc
           /\ MarkedState(s, func) \in LuaState
           /\ MarkedState(s, func).ci = [s.ci EXCEPT ![Len(s.ci)] = MarkedFrame(s)]
           /\ MarkedState(s, func).status = s.status /\ MarkedState(s, func).nny = s.nny
           /\ MarkedState(s, func).nCcalls = s.nCcalls /\ MarkedState(s, func).errfunc = func
<1> DEFINE c == s.ci
           n == Len(c)
           r == MarkedFrame(s)
<1>1. c \in Seq(Info) /\ s.errfunc \in Nat
  BY StateFields
<1>2. n \in 1..Len(c) /\ c[n] \in Info
  BY <1>1
<1>3. /\ r \in Info /\ r.fn = c[n].fn /\ r.reentry = c[n].reentry
      /\ r.k = TRUE /\ r.ypcall = TRUE /\ r.olderr = s.errfunc
  BY <1>1, <1>2 DEF Info, MarkedFrame
<1> HIDE DEF r
<1>4. [c EXCEPT ![n] = r] \in Seq(Info)
  BY <1>1, <1>2, <1>3
<1>5. MarkedState(s, func) = [s EXCEPT !.ci = [c EXCEPT ![n] = r], !.errfunc = func]
  BY DEF MarkedState, r
<1> HIDE DEF c, n
<1>6. /\ MarkedState(s, func) \in LuaState
      /\ MarkedState(s, func).ci = [c EXCEPT ![n] = r]
      /\ MarkedState(s, func).status = s.status /\ MarkedState(s, func).nny = s.nny
      /\ MarkedState(s, func).nCcalls = s.nCcalls /\ MarkedState(s, func).errfunc = func
  BY <1>4, <1>5 DEF LuaState
<1>7. QED
  BY <1>3, <1>6 DEF c, n, r

\* The assignments of lua_pcallk, as one.
LEMMA MarkedIs ==
    ASSUME NEW S \in Sts, NEW t \in Threads, S.th[t].ci # <<>>, NEW func \in Nat
    PROVE  SetTo(S, t, MarkedState(S.th[t], func),
                 [S EXCEPT !.th[t].ci[Len(S.th[t].ci)].k = TRUE,
                           !.th[t].ci[Len(S.th[t].ci)].ypcall = TRUE,
                           !.th[t].ci[Len(S.th[t].ci)].olderr = S.th[t].errfunc,
                           !.th[t].errfunc = func])
<1> DEFINE s == S.th[t]
           n == Len(s.ci)
           old == s.errfunc
           s1 == [s EXCEPT !.ci[n].k = TRUE]
           s2 == [s1 EXCEPT !.ci[n].ypcall = TRUE]
           s3 == [s2 EXCEPT !.ci[n].olderr = old]
           s4 == [s3 EXCEPT !.errfunc = func]
           R == [S EXCEPT !.th[t].ci[n].k = TRUE, !.th[t].ci[n].ypcall = TRUE,
                          !.th[t].ci[n].olderr = old, !.th[t].errfunc = func]
<1>1. s \in LuaState /\ S.th \in [Threads -> LuaState]
  BY DEF Sts
<1>2. s.ci \in Seq(Info) /\ n \in 1..Len(s.ci) /\ s.ci[n] \in Info
  BY <1>1, StateFields
<1>3. R = [S EXCEPT !.th[t] = s4]
  <2>1. [S EXCEPT !.th[t].ci[n].k = TRUE] = [S EXCEPT !.th = [S.th EXCEPT ![t] = s1]]
    OBVIOUS
  <2> DEFINE E1 == [S EXCEPT !.th = [S.th EXCEPT ![t] = s1]]
  <2>a. S = [th |-> S.th, cs |-> S.cs, res |-> S.res]
    BY DEF Sts
  <2> HIDE DEF s1
  <2>2. E1.th = [S.th EXCEPT ![t] = s1] /\ E1.th[t] = s1
    BY <1>1, <2>a
  <2> DEFINE E2 == [S EXCEPT !.th = [S.th EXCEPT ![t] = s2]]
             E3 == [S EXCEPT !.th = [S.th EXCEPT ![t] = s3]]
             E4 == [S EXCEPT !.th = [S.th EXCEPT ![t] = s4]]
  <2>3. [E1 EXCEPT !.th[t].ci[n].ypcall = TRUE] = E2
    <3>1. [E1 EXCEPT !.th[t].ci[n].ypcall = TRUE] = [E1 EXCEPT !.th = [E1.th EXCEPT ![t] = s2]]
      <4> HIDE DEF E1
      <4>1. QED
        BY <2>2
    <3> HIDE DEF s2
    <3>2. QED
      BY <1>1, <2>a, <3>1
  <2> HIDE DEF s2
  <2>4. [E2 EXCEPT !.th[t].ci[n].olderr = old] = E3
    <3>0. E2.th = [S.th EXCEPT ![t] = s2] /\ E2.th[t] = s2
      BY <1>1, <2>a
    <3>1. [E2 EXCEPT !.th[t].ci[n].olderr = old] = [E2 EXCEPT !.th = [E2.th EXCEPT ![t] = s3]]
      <4> HIDE DEF E2
      <4>1. QED
        BY <3>0
    <3> HIDE DEF s3
    <3>2. QED
      BY <1>1, <2>a, <3>1
  <2> HIDE DEF s3
  <2>5. [E3 EXCEPT !.th[t].errfunc = func] = E4
    <3>0. E3.th = [S.th EXCEPT ![t] = s3] /\ E3.th[t] = s3
      BY <1>1, <2>a
    <3>1. [E3 EXCEPT !.th[t].errfunc = func] = [E3 EXCEPT !.th = [E3.th EXCEPT ![t] = s4]]
      <4> HIDE DEF E3
      <4>1. QED
        BY <3>0
    <3> HIDE DEF s4
    <3>2. QED
      BY <1>1, <2>a, <3>1
  <2>6. R = [[[[S EXCEPT !.th[t].ci[n].k = TRUE] EXCEPT !.th[t].ci[n].ypcall = TRUE]
                EXCEPT !.th[t].ci[n].olderr = old] EXCEPT !.th[t].errfunc = func]
    OBVIOUS
  <2> HIDE DEF R, E2, E3
  <2>7. R = E4
    BY <2>1, <2>3, <2>4, <2>5, <2>6
  <2> HIDE DEF s4
  <2>8. QED
    BY <2>7
<1>4. s4 = MarkedState(s, func)
  <2> DEFINE c == s.ci
             r1 == [c[n] EXCEPT !.k = TRUE]
             r2 == [r1 EXCEPT !.ypcall = TRUE]
             r3 == [r2 EXCEPT !.olderr = old]
  <2>1. s1 = [s EXCEPT !.ci = [c EXCEPT ![n] = r1]]
    OBVIOUS
  <2>2. s2 = [s EXCEPT !.ci = [c EXCEPT ![n] = r2]]
    <3> HIDE DEF r1, s1
    <3>1. s1.ci = [c EXCEPT ![n] = r1] /\ s1.ci[n] = r1
      BY <1>1, <1>2, <2>1 DEF LuaState
    <3>2. s2 = [s1 EXCEPT !.ci = [s1.ci EXCEPT ![n] = r2]]
      BY <3>1
    <3> HIDE DEF r2
    <3>3. [s1.ci EXCEPT ![n] = r2] = [c EXCEPT ![n] = r2]
      BY <3>1
    <3>4. QED
      BY <2>1, <3>2, <3>3
  <2>3. s3 = [s EXCEPT !.ci = [c EXCEPT ![n] = r3]]
    <3> HIDE DEF r2, s2
    <3>1. s2.ci = [c EXCEPT ![n] = r2] /\ s2.ci[n] = r2
      BY <1>1, <1>2, <2>2 DEF LuaState
    <3>2. s3 = [s2 EXCEPT !.ci = [s2.ci EXCEPT ![n] = r3]]
      BY <3>1
    <3> HIDE DEF r3
    <3>3. [s2.ci EXCEPT ![n] = r3] = [c EXCEPT ![n] = r3]
      BY <3>1
    <3>4. QED
      BY <2>2, <3>2, <3>3
  <2>4. r3 = MarkedFrame(s)
    BY DEF MarkedFrame
  <2> HIDE DEF s3, r3
  <2>5. QED
    BY <2>3, <2>4 DEF MarkedState
<1> HIDE DEF R, s4
<1>5. SetTo(S, t, MarkedState(s, func), [S EXCEPT !.th[t] = MarkedState(s, func)])
  <2>1. MarkedState(s, func) \in LuaState
    BY <1>1, MarkedFields
  <2> DEFINE w == MarkedState(s, func)
  <2> HIDE DEF w
  <2>2. SetTo(S, t, w, [S EXCEPT !.th[t] = w])
    BY <2>1, Sets DEF w
  <2>3. QED
    BY <2>2 DEF w
<1>6. QED
  BY <1>3, <1>4, <1>5 DEF R

\* lua_pcallk, called by pcall and xpcall in a thread that may be interrupted.
LEMMA SoftPcall ==
    ASSUME NEW S, NEW lev, NEW t, Stands(S, lev, t), S.cs[Len(S.cs)].f = "C",
           S.th[t].ci[Len(S.th[t].ci)].fn \in {"pcall", "xpcall"}, S.th[t].nny = 0,
           NEW fn \in Names, NEW func, func = NewHandler(S.th[t].ci), NEW R,
           SetTo(S, t, MarkedState(S.th[t], func), R)
    PROVE  Fine(luaD_call(R, t, fn, TRUE))
<1> DEFINE T == S.th
           C == S.cs
           L == Len(C)
           c == T[t].ci
           n == Len(c)
           r == MarkedFrame(T[t])
           s == MarkedState(T[t], func)
<1>1. Standing(S, lev, t)
  BY StandingFacts
<1>2. /\ S \in Sts /\ L \in Nat \ {0} /\ C[L].th = t /\ t \in Threads /\ C \in Seq(Acts)
      /\ T[t] \in LuaState /\ c \in Seq(Info) /\ n \in Nat
      /\ T[t].status = "ok" /\ CiOK(c)
      /\ lev[L] = n /\ n >= 1 /\ C[L].f = "C" /\ c[n].fn \in {"pcall", "xpcall"}
      /\ T[t].errfunc = Handler(c, n - 1) /\ L # 1
  <2>1. /\ S \in Sts /\ L \in Nat \ {0} /\ C[L].th = t /\ t \in Threads /\ C \in Seq(Acts)
        /\ T[t] \in LuaState /\ c \in Seq(Info) /\ n \in Nat
        /\ T[t].status = "ok" /\ CiOK(c)
        /\ C[L].f # "unroll" => lev[L] = n
        /\ C[L].f = "C" => n >= 1
        /\ C[L].f = "C" => T[t].errfunc = Handler(c, IF c[n].fn \in Prot THEN n - 1 ELSE n)
        /\ L = 1 => C[L].f = "C" /\ n = 1 /\ c[1].fn = "host"
    BY <1>1 DEF Standing
  <2>2. QED
    BY <2>1 DEF Prot
<1>3. L > 1
  <2> HIDE DEF L
  <2>1. QED
    BY <1>2
<1>4. func \in Nat /\ func = Handler(c, n)
  <2>1. n >= 1 => Handler(c, n) = IF c[n].fn = "xpcall" THEN n
                                        ELSE IF c[n].fn \in Prot THEN 0 ELSE Handler(c, n - 1)
    BY <1>2, HandlerIs
  <2>2. QED
    BY <1>2, <2>1 DEF NewHandler, Prot
<1>5. c # <<>>
  BY <1>2
<1>6. /\ r \in Info /\ r.fn = c[n].fn /\ r.reentry = c[n].reentry
      /\ r.k = TRUE /\ r.ypcall = TRUE /\ r.olderr = T[t].errfunc
      /\ s \in LuaState /\ s.ci = [c EXCEPT ![n] = r] /\ s.status = "ok" /\ s.nny = T[t].nny
      /\ s.nCcalls = T[t].nCcalls /\ s.errfunc = func
  BY <1>2, <1>4, <1>5, MarkedFields
<1> HIDE DEF r, s
<1>7. Soft(r)
  BY <1>6 DEF Soft
<1>8. \A i \in 1..(n - 1) : Soft(c[i])
  BY <1>2, MayYield
<1>9. Reframed(c, r, s.ci)
  <2>1. /\ c \in Seq(Info) /\ CiOK(c) /\ c # <<>> /\ r \in Info
        /\ r.fn = c[Len(c)].fn /\ r.reentry = c[Len(c)].reentry
        /\ r.ypcall => /\ r.fn \in {"pcall", "xpcall"} /\ r.olderr = Handler(c, Len(c) - 1)
                       /\ Soft(r) /\ \A i \in 1..(Len(c) - 1) : Soft(c[i])
    BY <1>2, <1>5, <1>6, <1>7, <1>8
  <2> HIDE DEF c
  <2>2. Reframed(c, r, [c EXCEPT ![Len(c)] = r])
    BY <2>1, CiTop
  <2>3. QED
    BY <1>6, <2>2
<1>10. Retopped(S, t, s, r, C)
  <2>1. Alike(C[L], C[L])
    BY DEF Alike
  <2>2. QED
    BY <1>2, <1>6, <1>9, <2>1 DEF Retopped
<1>11. s.errfunc = Handler(s.ci, Len(s.ci))
  <2>1. Len(s.ci) = n /\ Handler(s.ci, n) = Handler(c, n)
    BY <1>2, <1>9 DEF Reframed
  <2>2. QED
    BY <1>4, <1>6, <2>1
<1>12. Recalls(S, lev, t, s, r, TRUE, R)
  <2>1. SetTo(S, t, s, R)
    BY DEF s
  <2>2. QED
    BY <1>3, <1>6, <1>7, <1>10, <1>11, <2>1 DEF Recalls
<1>13. CanCall(R, lev, t, TRUE, 0) /\ TRUE \in BOOLEAN
  BY <1>12, ReframedCall
<1>14. QED
  BY <1>13, CallsFn

\* lua_pcallk, called by a protected call.
LEMMA PcallkKeeps ==
    ASSUME NEW S, NEW lev, NEW t, Stands(S, lev, t), S.cs[Len(S.cs)].f = "C",
           S.th[t].ci[Len(S.th[t].ci)].fn \in Prot, NEW fn \in Names, NEW func, NEW k,
           func = NewHandler(S.th[t].ci),
           k = TRUE => S.th[t].ci[Len(S.th[t].ci)].fn # "host"
    PROVE  Fine(lua_pcallk(S, t, fn, func, k))
<1>1. CASE k = TRUE /\ ~(S.th[t].nny > 0)
  <2> DEFINE R == [S EXCEPT !.th[t].ci[Len(S.th[t].ci)].k = TRUE,
                            !.th[t].ci[Len(S.th[t].ci)].ypcall = TRUE,
                            !.th[t].ci[Len(S.th[t].ci)].olderr = S.th[t].errfunc,
                            !.th[t].errfunc = func]
  <2>1. lua_pcallk(S, t, fn, func, k) = luaD_call(R, t, fn, TRUE)
    BY <1>1 DEF lua_pcallk
  <2>2. Standing(S, lev, t)
    BY StandingFacts
  <2>3. S \in Sts /\ t \in Threads /\ S.th[t] \in LuaState /\ Len(S.th[t].ci) \in Nat
        /\ (S.cs[Len(S.cs)].f = "C" => Len(S.th[t].ci) >= 1)
    BY <2>2 DEF Standing
  <2>4. S.th[t].nny = 0
    <3>1. S.th[t].nny \in Nat
      BY <2>3, StateFields
    <3>2. QED
      BY <1>1, <3>1
  <2>5. S.th[t].ci # <<>>
    BY <2>3
  <2>6. func \in Nat
    BY <2>3 DEF NewHandler
  <2>7. SetTo(S, t, MarkedState(S.th[t], func), R)
    BY <2>3, <2>5, <2>6, MarkedIs
  <2>8. S.th[t].ci[Len(S.th[t].ci)].fn \in {"pcall", "xpcall"}
    BY <1>1 DEF Prot
  <2> HIDE DEF R
  <2>9. QED
    BY <2>1, <2>4, <2>7, <2>8, SoftPcall
<1>2. CASE ~(k = TRUE /\ ~(S.th[t].nny > 0))
  <2> DEFINE R == [luaD_rawrunprotected(S, t, "pcall") EXCEPT !.th[t].errfunc = func]
  <2>1. lua_pcallk(S, t, fn, func, k) = luaD_call(R, t, fn, FALSE)
    <3>1. ~k \/ S.th[t].nny > 0
      BY <1>2
    <3>2. QED
      BY <3>1 DEF lua_pcallk
  <2>2. Fine(luaD_call(R, t, fn, FALSE))
    BY HardPcall
  <2>3. QED
    BY <2>1, <2>2
<1>3. QED
  BY <1>1, <1>2

\* The state R in which thread t is back in activation m.
Back(S, lev, t, R, m) ==
    LET T == S.th
        C == S.cs
        s == R.th[t]
    IN  /\ R \in Sts /\ m \in 1..Len(C) /\ Len(R.cs) = m
        /\ (\A i \in 1..(m - 1) : R.cs[i] = C[i])
        /\ Alike(R.cs[m], C[m])
        /\ (\A i \in m..Len(C) : C[i].th = t)
        /\ (\A u \in Threads \ {t} : R.th[u] = T[u])
        /\ lev[m] <= Len(s.ci)
        /\ (\A j \in 1..lev[m] : (C[m].f = "C" /\ j = lev[m]) \/ s.ci[j] = T[t].ci[j])
        /\ m = 1 => s.ci[1].fn = "host"
        /\ CiOK(s.ci) /\ s.status = "ok"
        /\ s.nny = Cardinality(Calls(R.cs, m, t)) + One(t = MainThread)
        /\ TopOK(R.th, R.cs, lev)

\* The invariant holds in it.
LEMMA BackFine ==
    ASSUME NEW S, NEW lev, NEW t, Stands(S, lev, t), NEW R, NEW m, Back(S, lev, t, R, m)
    PROVE  Fine(R)
<1> DEFINE T == S.th
           C == S.cs
           T2 == R.th
           C2 == R.cs
           lev2 == [i \in 1..m |-> lev[i]]
<1>1. /\ R \in Sts /\ m \in 1..Len(C) /\ Len(C2) = m
      /\ (\A i \in 1..(m - 1) : C2[i] = C[i])
      /\ Alike(C2[m], C[m])
      /\ (\A i \in m..Len(C) : C[i].th = t)
      /\ (\A u \in Threads \ {t} : T2[u] = T[u])
      /\ lev[m] <= Len(T2[t].ci)
      /\ (\A j \in 1..lev[m] : (C[m].f = "C" /\ j = lev[m]) \/ T2[t].ci[j] = T[t].ci[j])
      /\ m = 1 => T2[t].ci[1].fn = "host"
      /\ CiOK(T2[t].ci) /\ T2[t].status = "ok"
      /\ T2[t].nny = Cardinality(Calls(C2, m, t)) + One(t = MainThread)
      /\ TopOK(T2, C2, lev)
  BY Zenon DEF Back
<1>2. Typed(T, C, lev) /\ Core(T, C, lev) /\ t = C[Len(C)].th
  BY DEF Stands
<1>3. Len(C) \in Nat \ {0} /\ lev \in [1..Len(C) -> Nat] /\ T2 \in [Threads -> LuaState] /\ C2 \in Seq(Acts)
  BY <1>1, <1>2, TypedFacts DEF Typed, Sts
<1> HIDE DEF T, C, T2, C2
<1>4. lev2 \in [1..m -> Nat] /\ m \in Nat \ {0} /\ \A i \in 1..m : lev2[i] = lev[i]
  BY <1>1, <1>3
<1> HIDE DEF lev2
<1>5. Typed(T2, C2, lev2)
  <2>1. C2 # <<>>
    BY <1>1, <1>3, <1>4
  <2>2. QED
    BY <1>1, <1>3, <1>4, <2>1 DEF Typed
<1>6. Returns(T, C, lev, T2, C2, lev2, m)
  BY <1>1, <1>2, <1>4, Zenon DEF Returns
<1>7. Core(T2, C2, lev2)
  BY <1>2, <1>5, <1>6, Retop
<1>8. TopOK(T2, C2, lev2)
  <2>1. lev2[Len(C2)] = lev[Len(C2)]
    BY <1>1, <1>4
  <2>2. QED
    BY <1>1, <2>1, Zenon DEF TopOK
<1>9. Good(T2, C2)
  BY <1>5, <1>7, <1>8 DEF Good
<1>10. QED
  BY <1>1, <1>9 DEF Fine, T2, C2

\* The chain of frames of a thread whose function returned.
Shorter(c, d) ==
    LET n == Len(c)
    IN  /\ n \in Nat \ {0} /\ n \in 1..n /\ d \in Seq(Info) /\ Len(d) = n - 1 /\ CiOK(d)
        /\ (\A j \in 1..(n - 1) : d[j] = c[j])
        /\ Handler(d, n - 1) = Handler(c, n - 1)
        /\ Handler(c, n) = IF c[n].fn = "xpcall" THEN n
                           ELSE IF c[n].fn \in Prot THEN 0 ELSE Handler(c, n - 1)

\* What luaD_poscall leaves is such a chain.
LEMMA CiFront ==
    ASSUME NEW c \in Seq(Info), c # <<>>, CiOK(c)
    PROVE  Shorter(c, Front(c))
<1> DEFINE n == Len(c)
           d == Front(c)
<1>1. n \in Nat \ {0}
  OBVIOUS
<1> HIDE DEF d
<1>2. d \in Seq(Info) /\ Len(d) = n - 1 /\ \A j \in 1..(n - 1) : d[j] = c[j]
  BY FrontProperties DEF d
<1>3. CiOK(d)
  <2>1. Len(c) \in Nat /\ Len(d) \in Nat /\ Len(d) <= Len(c) /\ \A j \in 1..Len(d) : d[j] = c[j]
    BY <1>1, <1>2
  <2>2. QED
    BY <2>1, CiPrefix
<1> HIDE DEF n
<1>4. Handler(d, n - 1) = Handler(c, n - 1)
  <2>1. n - 1 \in Nat /\ \A j \in 1..(n - 1) : d[j].fn = c[j].fn
    BY <1>1, <1>2
  <2>2. QED
    BY <2>1, HandlerSame
<1>5. Handler(c, n) = IF c[n].fn = "xpcall" THEN n
                      ELSE IF c[n].fn \in Prot THEN 0 ELSE Handler(c, n - 1)
  <2>1. n \in Nat /\ n >= 1
    BY <1>1
  <2>2. QED
    BY <2>1, HandlerIs
<1>6. n \in 1..n
  BY <1>1
<1>7. QED
  BY <1>1, <1>2, <1>3, <1>4, <1>5, <1>6 DEF n, d, Shorter

\* The innermost activation ends.
Popped(S, R) ==
    LET n == Len(S.cs)
    IN  /\ R \in Sts /\ R.th = S.th /\ R.res = S.res /\ R.cs = Front(S.cs)
        /\ R = [th |-> S.th, cs |-> Front(S.cs), res |-> S.res]
        /\ Len(R.cs) = n - 1 /\ \A i \in 1..(n - 1) : R.cs[i] = S.cs[i]

\* Pop is that.
LEMMA PopIs ==
    ASSUME NEW S \in Sts, S.cs # <<>>
    PROVE  Popped(S, Pop(S))
<1> DEFINE C == S.cs
           n == Len(C)
           D == Front(C)
<1>1. C \in Seq(Acts) /\ S.th \in [Threads -> LuaState] /\ S.res \in {"ok", "err", "errerr"}
      /\ S = [th |-> S.th, cs |-> C, res |-> S.res]
  BY DEF Sts
<1>3. D \in Seq(Acts) /\ Len(D) = n - 1 /\ \A i \in 1..(n - 1) : D[i] = C[i]
  BY <1>1, FrontProperties
<1>4. Pop(S) = [S EXCEPT !.cs = D]
  BY DEF Pop
<1> HIDE DEF D, C
<1>5. Pop(S) = [th |-> S.th, cs |-> D, res |-> S.res]
  BY <1>1, <1>4
<1>6. QED
  BY <1>1, <1>3, <1>5 DEF Sts, Popped, D, C

\* The state of a thread whose function returned.
WithoutCallee(s) == [s EXCEPT !.ci = Front(s.ci)]

\* luaD_poscall, as a state of the thread.
LEMMA PoscallIs ==
    ASSUME NEW S \in Sts, NEW t \in Threads, S.th[t].ci # <<>>, CiOK(S.th[t].ci)
    PROVE  LET s == S.th[t]
               w == WithoutCallee(s)
           IN  /\ SetTo(S, t, w, luaD_poscall(S, t)) /\ w \in LuaState /\ Shorter(s.ci, w.ci)
               /\ w.status = s.status /\ w.nny = s.nny /\ w.nCcalls = s.nCcalls /\ w.errfunc = s.errfunc
<1> DEFINE s == S.th[t]
           w == WithoutCallee(s)
<1>1. s \in LuaState /\ s.ci \in Seq(Info)
  BY StateFields DEF Sts
<1>2. Shorter(s.ci, Front(s.ci))
  BY <1>1, CiFront
<1>3. Front(s.ci) \in Seq(Info)
  BY <1>2 DEF Shorter
<1>4. /\ w \in LuaState /\ w.ci = Front(s.ci)
      /\ w.status = s.status /\ w.nny = s.nny /\ w.nCcalls = s.nCcalls /\ w.errfunc = s.errfunc
  <2> HIDE DEF s
  <2>1. QED
    BY <1>1, <1>3 DEF LuaState, WithoutCallee
<1>5. luaD_poscall(S, t) = [S EXCEPT !.th[t] = w]
  BY DEF luaD_poscall, WithoutCallee
<1> HIDE DEF w
<1>6. SetTo(S, t, w, luaD_poscall(S, t))
  BY <1>4, <1>5, Sets
<1>7. QED
  BY <1>2, <1>4, <1>6 DEF w

\* The activation below the innermost one, which is of the same thread unless
\* a resume separates them.
Under(S, lev, t) ==
    LET T == S.th
        C == S.cs
        L == Len(C)
        m == L - 1
        F == Front(C)
    IN  /\ m \in Nat \ {0} /\ m \in 1..L /\ m + 1 = L /\ L \in Nat \ {0}
        /\ C[m] \in Acts /\ C[m].th = t /\ (\A i \in m..L : C[i].th = t)
        /\ lev[m] \in Nat /\ lev[m] <= lev[L]
        /\ Adj(T, C, lev, m) /\ Pos(T, C, lev, m)
        /\ F \in Seq(Acts) /\ Len(F) = m /\ F[m] = C[m] /\ (\A i \in 1..m : F[i] = C[i])
        /\ Cardinality(Nested(C, m)) \in Nat /\ Cardinality(Calls(C, m, t)) \in Nat
        /\ Nested(F, m) = Nested(C, m) /\ Calls(F, m, t) = Calls(C, m, t)
        /\ Cardinality(Nested(C, L)) = Cardinality(Nested(C, m)) + One(C[L].f = "luaD_call")
        /\ Cardinality(Calls(C, L, t)) =
              Cardinality(Calls(C, m, t)) + One(C[L].f = "luaD_call" /\ ~C[L].allowyield)

\* What the invariant says of it.
LEMMA UnderFacts ==
    ASSUME NEW S, NEW lev, NEW t, Stands(S, lev, t), Len(S.cs) # 1,
           ~IsRun(S.cs[Len(S.cs)], "resume")
    PROVE  Under(S, lev, t)
<1> DEFINE T == S.th
           C == S.cs
           L == Len(C)
           m == L - 1
           F == Front(C)
<1>1. Standing(S, lev, t)
  BY StandingFacts
<1>2. /\ Typed(T, C, lev) /\ Core(T, C, lev) /\ L \in Nat \ {0} /\ L \in 1..L
      /\ t \in Threads /\ C \in Seq(Acts) /\ C # <<>> /\ C[L].th = t
  BY <1>1 DEF Standing
<1>3. F \in Seq(Acts) /\ Len(F) = m /\ \A i \in 1..m : F[i] = C[i]
  BY <1>2, FrontProperties
<1> HIDE DEF F
<1>4. m \in Nat \ {0} /\ m \in 1..L /\ m + 1 = L /\ m \in 1..m /\ m \in 1..(L - 1) /\ m < L
  <2> HIDE DEF L
  <2>1. L # 1
    BY DEF L
  <2>2. QED
    BY <1>2, <2>1
<1>5. C[m] \in Acts /\ lev[m] \in Nat /\ lev[L] \in Nat
  BY <1>2, <1>4, TypedFacts
<1>6. Adj(T, C, lev, m) /\ Pos(T, C, lev, m) /\ Order(C, lev)
  BY <1>4, <1>2 DEF Core
<1> HIDE DEF C, L
<1>6a. ~IsRun(C[L], "resume")
  BY DEF C, L
<1> HIDE DEF m
<1>7. C[m].th = t
  <2>1. ~IsRun(C[m + 1], "resume") => C[m].th = C[m + 1].th
    BY <1>6, Zenon DEF Adj
  <2>2. QED
    BY <1>2, <1>4, <1>6a, <2>1
<1>8. lev[m] <= lev[L] /\ \A i \in m..L : C[i].th = t
  <2>1. m \in 1..Len(C) /\ L \in 1..Len(C) /\ m < L /\ C[m].th = C[L].th
    BY <1>2, <1>4, <1>7 DEF L
  <2>2. lev[m] <= lev[L] /\ \A l \in m..L : C[l].th = C[m].th
    BY <1>6, <2>1 DEF Order
  <2>3. QED
    BY <1>7, <2>2
<1>9. Nested(F, m) = Nested(C, m) /\ Calls(F, m, t) = Calls(C, m, t)
  <2>1. m \in Nat /\ \A i \in 1..m : Alike(F[i], C[i])
    BY <1>3, <1>4 DEF Alike
  <2>2. Nested(F, m) = Nested(C, m) /\ \A x : Calls(F, m, x) = Calls(C, m, x)
    BY <2>1, CountsSame
  <2>3. QED
    BY <2>2
<1>10. /\ Cardinality(Nested(C, m)) \in Nat
       /\ Cardinality(Nested(C, L)) = Cardinality(Nested(C, m)) + One(C[L].f = "luaD_call")
  <2>1. m \in Nat
    BY <1>4
  <2>2. /\ Cardinality(Nested(C, m)) \in Nat
        /\ Cardinality(Nested(C, m + 1)) =
                 IF C[m + 1].f = "luaD_call" \/ IsRun(C[m + 1], "resume")
                 THEN Cardinality(Nested(C, m)) + 1 ELSE Cardinality(Nested(C, m))
    BY <2>1, NestedStep
  <2>3. QED
    BY <1>4, <1>6a, <2>2 DEF One
<1>11. /\ Cardinality(Calls(C, m, t)) \in Nat
       /\ Cardinality(Calls(C, L, t)) =
              Cardinality(Calls(C, m, t)) + One(C[L].f = "luaD_call" /\ ~C[L].allowyield)
  <2>1. m \in Nat
    BY <1>4
  <2>2. Cardinality(Calls(C, m, t)) \in Nat
    BY <2>1, CallsStep
  <2>3. Cardinality(Calls(C, m + 1, t)) =
           IF C[m + 1].th = t /\ C[m + 1].f = "luaD_call" /\ ~C[m + 1].allowyield
           THEN Cardinality(Calls(C, m, t)) + 1 ELSE Cardinality(Calls(C, m, t))
    BY <2>1, CallsStep
  <2> DEFINE P == C[L].f = "luaD_call" /\ ~C[L].allowyield
  <2>4. Cardinality(Calls(C, L, t)) =
           IF P THEN Cardinality(Calls(C, m, t)) + 1 ELSE Cardinality(Calls(C, m, t))
    BY <1>2, <1>4, <2>3
  <2> HIDE DEF P
  <2>5. Cardinality(Calls(C, L, t)) = Cardinality(Calls(C, m, t)) + One(P)
    BY <2>2, <2>4 DEF One
  <2>6. QED
    BY <2>2, <2>5 DEF P
<1>12. F[m] = C[m]
  BY <1>3, <1>4
<1>13. QED
  BY <1>2, <1>3, <1>4, <1>5, <1>6, <1>7, <1>8, <1>9, <1>10, <1>11, <1>12 DEF Under, m, L, C, F

\* The innermost activation of thread t, which is not a call, ends with the
\* frame of its function.
LEMMA FrameEnds ==
    ASSUME NEW S, NEW lev, NEW t, Stands(S, lev, t), Len(S.cs) # 1,
           S.cs[Len(S.cs)].f \in {"C", "luaV_execute"}, S.th[t].ci # <<>>,
           S.th[t].ci[Len(S.th[t].ci)].fn \notin Prot \/ S.cs[Len(S.cs)].f = "C",
           lev[Len(S.cs) - 1] = Len(S.th[t].ci) - 1,
           S.cs[Len(S.cs) - 1].f \in {"luaD_call", "luaV_execute"} \/ IsRun(S.cs[Len(S.cs) - 1], "resume"),
           NEW R, R.res \in {"ok", "err", "errerr"},
           R = [th |-> luaD_poscall(S, t).th, cs |-> Front(S.cs), res |-> R.res]
    PROVE  Fine(R)
<1> DEFINE T == S.th
           C == S.cs
           L == Len(C)
           m == L - 1
           s == T[t]
           c == s.ci
           n == Len(c)
           w == WithoutCallee(s)
           P == luaD_poscall(S, t)
<1>1. Standing(S, lev, t)
  BY StandingFacts
<1>2. ~IsRun(C[L], "resume") /\ C[L].f \in {"C", "luaV_execute"}
  BY DEF IsRun
<1>3. Under(S, lev, t)
  BY <1>2, UnderFacts
<1>4. /\ S \in Sts /\ t \in Threads /\ T \in [Threads -> LuaState] /\ CiOK(c) /\ s.status = "ok"
      /\ s.nny = Cardinality(Calls(C, L, t)) + One(t = MainThread)
      /\ s.nCcalls = Cardinality(Nested(C, L))
      /\ C[L].f = "C" => s.errfunc = Handler(c, IF c[n].fn \in Prot THEN n - 1 ELSE n)
      /\ C[L].f \notin {"C", "unroll"} => s.errfunc = Handler(c, n)
  BY <1>1 DEF Standing
<1>5. /\ m \in Nat \ {0} /\ m \in 1..L /\ m + 1 = L
      /\ C[m] \in Acts /\ C[m].th = t /\ (\A i \in m..L : C[i].th = t)
      /\ Front(C) \in Seq(Acts) /\ Len(Front(C)) = m /\ Front(C)[m] = C[m]
      /\ (\A i \in 1..m : Front(C)[i] = C[i])
      /\ Nested(Front(C), m) = Nested(C, m) /\ Calls(Front(C), m, t) = Calls(C, m, t)
      /\ Cardinality(Nested(C, m)) \in Nat /\ Cardinality(Calls(C, m, t)) \in Nat
      /\ Cardinality(Nested(C, L)) = Cardinality(Nested(C, m)) + One(C[L].f = "luaD_call")
      /\ Cardinality(Calls(C, L, t)) =
              Cardinality(Calls(C, m, t)) + One(C[L].f = "luaD_call" /\ ~C[L].allowyield)
  BY <1>3, Zenon DEF Under
<1>6. /\ SetTo(S, t, w, P) /\ w \in LuaState /\ Shorter(c, w.ci)
      /\ w.status = s.status /\ w.nny = s.nny /\ w.nCcalls = s.nCcalls /\ w.errfunc = s.errfunc
  BY <1>4, PoscallIs
<1> HIDE DEF w
<1>7. /\ R.th[t] = w /\ (\A u \in Threads \ {t} : R.th[u] = T[u]) /\ R.cs = Front(C) /\ R \in Sts
  <2>1. P \in Sts /\ P.th[t] = w /\ \A u \in Threads \ {t} : P.th[u] = T[u]
    BY <1>6 DEF SetTo
  <2>2. P.th \in [Threads -> LuaState]
    BY <2>1 DEF Sts
  <2> HIDE DEF P
  <2>3. R = [th |-> P.th, cs |-> Front(C), res |-> R.res]
    BY DEF P
  <2>4. R.th = P.th /\ R.cs = Front(C)
    BY <2>3
  <2>5. R \in Sts
    BY <1>5, <2>2, <2>3 DEF Sts
  <2>6. QED
    BY <2>1, <2>4, <2>5
<1>8. /\ n \in Nat \ {0} /\ Len(w.ci) = n - 1 /\ CiOK(w.ci)
      /\ (\A j \in 1..(n - 1) : w.ci[j] = c[j])
      /\ Handler(w.ci, n - 1) = Handler(c, n - 1)
      /\ Handler(c, n) = IF c[n].fn = "xpcall" THEN n
                           ELSE IF c[n].fn \in Prot THEN 0 ELSE Handler(c, n - 1)
  BY <1>6 DEF Shorter
<1>9. Nested(R.cs, m) = Nested(C, m) /\ Calls(R.cs, m, t) = Calls(C, m, t)
      /\ Cardinality(Nested(C, L)) = Cardinality(Nested(C, m))
      /\ Cardinality(Calls(C, L, t)) = Cardinality(Calls(C, m, t))
  BY <1>2, <1>5, <1>7 DEF One
<1>10. s.errfunc = Handler(c, n - 1)
  BY <1>2, <1>4, <1>8 DEF Prot
<1>11. lev[m] = n - 1 /\ (C[m].f \in {"luaD_call", "luaV_execute"} \/ IsRun(C[m], "resume")) /\ C[m].f \notin {"C", "unroll"}
  BY DEF IsRun
<1> HIDE DEF m, L, C, T, n, c, s
<1>12. TopOK(R.th, R.cs, lev)
  <2>1. Len(R.cs) = m /\ R.cs[m] = C[m] /\ C[m].th = t
    BY <1>5, <1>7
  <2>2. /\ R.th[t].nCcalls = Cardinality(Nested(R.cs, m)) /\ lev[m] = Len(R.th[t].ci)
        /\ R.th[t].errfunc = Handler(R.th[t].ci, Len(R.th[t].ci))
    BY <1>4, <1>6, <1>7, <1>8, <1>9, <1>10, <1>11
  <2>3. QED
    BY <1>11, <2>1, <2>2 DEF TopOK
<1>13. Back(S, lev, t, R, m)
  <2>1. /\ R \in Sts /\ m \in 1..L /\ Len(R.cs) = m /\ (\A i \in 1..(m - 1) : R.cs[i] = C[i])
        /\ Alike(R.cs[m], C[m]) /\ (\A i \in m..L : C[i].th = t)
        /\ (\A u \in Threads \ {t} : R.th[u] = T[u])
    BY <1>5, <1>7 DEF Alike
  <2>2. /\ lev[m] <= Len(R.th[t].ci)
        /\ (\A j \in 1..lev[m] : (C[m].f = "C" /\ j = lev[m]) \/ R.th[t].ci[j] = c[j])
    BY <1>7, <1>8, <1>11
  <2>3. m = 1 => FALSE
    <3>1. Bottom(T, C, lev)
      BY <1>1 DEF Standing, Core, T, C
    <3>2. QED
      BY <1>11, <3>1 DEF Bottom
  <2>4. /\ CiOK(R.th[t].ci) /\ R.th[t].status = "ok"
        /\ R.th[t].nny = Cardinality(Calls(R.cs, m, t)) + One(t = MainThread)
    BY <1>4, <1>6, <1>7, <1>8, <1>9
  <2>5. QED
    BY <1>12, <2>1, <2>2, <2>3, <2>4 DEF Back, T, C, L, c, s
<1>14. QED
  BY <1>13, BackFine

\* A C function returns.
LEMMA CReturns ==
    ASSUME NEW S, NEW lev, NEW t, Stands(S, lev, t), S.cs[Len(S.cs)].f = "C",
           S.th[t].ci[Len(S.th[t].ci)].fn # "host"
    PROVE  Fine([Pop(luaD_poscall(S, t)) EXCEPT !.res = "ok"])
<1> DEFINE C == S.cs
           L == Len(C)
           c == S.th[t].ci
           n == Len(c)
           P == luaD_poscall(S, t)
           R == [Pop(P) EXCEPT !.res = "ok"]
<1>1. Standing(S, lev, t)
  BY StandingFacts
<1>2. /\ S \in Sts /\ t \in Threads /\ n >= 1 /\ CiOK(c) /\ n \in Nat /\ L # 1 /\ C # <<>> /\ lev[L] = n
  <2>1. /\ S \in Sts /\ t \in Threads /\ CiOK(c) /\ n \in Nat /\ C # <<>>
        /\ C[L].f = "C" => n >= 1
        /\ L = 1 => C[L].f = "C" /\ n = 1 /\ c[1].fn = "host"
        /\ C[L].f # "unroll" => lev[L] = n
    BY <1>1 DEF Standing
  <2>2. QED
    BY <2>1
<1>3. c # <<>>
  BY <1>2
<1>4. P \in Sts /\ P.cs = C
  <2>1. SetTo(S, t, WithoutCallee(S.th[t]), P)
    BY <1>2, <1>3, PoscallIs
  <2>2. QED
    BY <2>1 DEF SetTo
<1> HIDE DEF P
<1>5. R = [th |-> P.th, cs |-> Front(C), res |-> "ok"] /\ R.res = "ok"
  <2>1. Popped(P, Pop(P))
    BY <1>2, <1>4, PopIs
  <2>2. Pop(P) = [th |-> P.th, cs |-> Front(C), res |-> P.res]
    BY <1>4, <2>1 DEF Popped
  <2>3. QED
    BY <2>2
<1>6. lev[L - 1] = n - 1
      /\ (C[L - 1].f \in {"luaD_call", "luaV_execute"} \/ IsRun(C[L - 1], "resume"))
  <2>1. ~IsRun(C[L], "resume")
    BY DEF IsRun
  <2>2. Under(S, lev, t)
    BY <1>2, <2>1, UnderFacts
  <2>3. /\ Adj(S.th, C, lev, L - 1) /\ L - 1 + 1 = L /\ lev[L - 1] \in Nat
    BY <2>2 DEF Under
  <2>4. C[L - 1 + 1].f = "C" =>
           /\ lev[L - 1 + 1] = lev[L - 1] + 1
           /\ (C[L - 1].f \in {"luaD_call", "luaV_execute"} \/ IsRun(C[L - 1], "resume"))
    BY <2>3, Zenon DEF Adj
  <2>5. lev[L] = lev[L - 1] + 1
        /\ (C[L - 1].f \in {"luaD_call", "luaV_execute"} \/ IsRun(C[L - 1], "resume"))
    BY <2>3, <2>4
  <2>6. QED
    BY <1>2, <2>3, <2>5
<1> HIDE DEF R
<1>7. /\ R.res \in {"ok", "err", "errerr"}
      /\ R = [th |-> luaD_poscall(S, t).th, cs |-> Front(S.cs), res |-> R.res]
  BY <1>5 DEF P
<1>8. Fine(R)
  BY <1>2, <1>3, <1>6, <1>7, FrameEnds
<1>9. QED
  BY <1>8 DEF R, P

\* The host starts over.
LEMMA HostAgain ==
    ASSUME NEW S, NEW lev, NEW t, Stands(S, lev, t), S.cs[Len(S.cs)].f = "C"
    PROVE  Fine([S EXCEPT !.cs[Len(S.cs)].at = "start", !.res = "ok"])
<1> DEFINE M == Marked(S, "start")
           R == [S EXCEPT !.cs[Len(S.cs)].at = "start", !.res = "ok"]
<1>1. Marking(S, "start", lev, t, M)
  BY MarkKeeps
<1>2. M \in Sts /\ Good(M.th, M.cs)
  BY <1>1 DEF Marking, Stands, Good
<1>3. R = [M EXCEPT !.res = "ok"]
  BY DEF Marked
<1> HIDE DEF M, R
<1>4. M = [th |-> M.th, cs |-> M.cs, res |-> M.res] /\ M.th \in [Threads -> LuaState] /\ M.cs \in Seq(Acts)
  BY <1>2 DEF Sts
<1>5. R = [th |-> M.th, cs |-> M.cs, res |-> "ok"]
  BY <1>3, <1>4
<1>6. Fine(R)
  BY <1>2, <1>4, <1>5 DEF Fine, Sts
<1>7. QED
  BY <1>6 DEF R

\* luaV_execute goes on in another frame of the thread.
Executes(T, C, lev, T2) ==
    LET L == Len(C)
        t == C[L].th
        c == T[t].ci
        d == T2[t].ci
        n == Len(d)
    IN  /\ T2 \in [Threads -> LuaState] /\ (\A u \in Threads \ {t} : T2[u] = T[u])
        /\ C[L].f = "luaV_execute" /\ L > 1 /\ CiOK(d) /\ n >= 1 /\ n \in Nat /\ IsLua(d[n].fn)
        /\ (\A j \in 1..(IF n <= Len(c) THEN n ELSE Len(c)) : d[j] = c[j])
        /\ (\A j \in (Len(c) + 1)..n : d[j].reentry)
        /\ n < Len(c) => n = Len(c) - 1 /\ c[Len(c)].reentry
        /\ (\A j \in (Len(c) + 1)..n : Soft(d[j]))
        /\ T2[t].status = "ok" /\ T2[t].nny = T[t].nny /\ T2[t].nCcalls = T[t].nCcalls
        /\ T2[t].errfunc = Handler(d, n)

\* Then the invariant holds again.
LEMMA ExecMoves ==
    ASSUME NEW S, NEW lev, NEW t, Stands(S, lev, t), NEW R, R \in Sts, R.cs = S.cs,
           Executes(S.th, S.cs, lev, R.th)
    PROVE  Fine(R)
<1> DEFINE T == S.th
           C == S.cs
           L == Len(C)
           m == L - 1
           c == T[t].ci
           k == Len(c)
           T2 == R.th
           d == T2[t].ci
           n == Len(d)
           lev2 == [i \in 1..L |-> IF i = L THEN n ELSE lev[i]]
<1>1. Standing(S, lev, t)
  BY StandingFacts
<1>2. /\ Typed(T, C, lev) /\ Core(T, C, lev) /\ L \in Nat \ {0} /\ L \in 1..L /\ t \in Threads
      /\ C \in Seq(Acts) /\ C # <<>> /\ C[L].th = t /\ C[L] \in Acts
      /\ T \in [Threads -> LuaState] /\ c \in Seq(Info) /\ k \in Nat /\ CiOK(c)
      /\ T[t].nny = Cardinality(Calls(C, L, t)) + One(t = MainThread)
      /\ T[t].nCcalls = Cardinality(Nested(C, L)) /\ (C[L].f # "unroll" => lev[L] = k)
  BY <1>1 DEF Standing
<1>3. /\ T2 \in [Threads -> LuaState] /\ (\A u \in Threads \ {t} : T2[u] = T[u])
      /\ C[L].f = "luaV_execute" /\ L > 1 /\ CiOK(d) /\ n >= 1 /\ n \in Nat /\ IsLua(d[n].fn)
      /\ (\A j \in 1..(IF n <= k THEN n ELSE k) : d[j] = c[j])
      /\ (\A j \in (k + 1)..n : d[j].reentry)
      /\ n < k => n = k - 1 /\ c[k].reentry
      /\ (\A j \in (k + 1)..n : Soft(d[j]))
      /\ T2[t].status = "ok" /\ T2[t].nny = T[t].nny /\ T2[t].nCcalls = T[t].nCcalls
      /\ T2[t].errfunc = Handler(d, n)
  BY <1>2 DEF Executes
<1>4. ~IsRun(C[L], "resume") /\ L # 1
  BY <1>3 DEF IsRun
<1>5. /\ m \in Nat \ {0} /\ m \in 1..L /\ m + 1 = L /\ C[m].th = t
      /\ lev[m] \in Nat /\ lev[m] <= lev[L] /\ Adj(T, C, lev, m)
  <2>1. Under(S, lev, t)
    BY <1>4, UnderFacts
  <2>2. QED
    BY <2>1, Zenon DEF Under
<1>6. lev[L] = k
  BY <1>2, <1>3
<1>6a. /\ t = MainThread \/ Calls(C, L, t) # {} \/ \A j \in 1..(k - 1) : Soft(c[j])
       /\ t = MainThread \/ Calls(C, L, t) # {} \/ \A j \in 1..L : C[j].th = t => ~IsRun(C[j], "pcall")
       /\ k >= 1 /\ IsLua(c[k].fn)
  <2>1. Pos(T, C, lev, L)
    BY <1>2 DEF Core
  <2>2. /\ C[L].th = MainThread \/ Calls(C, L, C[L].th) # {} \/ \A j \in 1..(lev[L] - 1) : Soft(T[C[L].th].ci[j])
        /\ C[L].f \in {"C", "luaV_execute"} =>
              C[L].th = MainThread \/ Calls(C, L, C[L].th) # {} \/ \A j \in 1..L : C[j].th = C[L].th => ~IsRun(C[j], "pcall")
        /\ C[L].f = "luaV_execute" => lev[L] >= 1 /\ IsLua(T[C[L].th].ci[lev[L]].fn)
    BY <2>1, Zenon DEF Pos
  <2>3. QED
    BY <1>2, <1>3, <1>6, <2>2
<1>7. lev2 \in [1..L -> Nat] /\ lev2[L] = n /\ \A i \in 1..m : lev2[i] = lev[i] /\ i \in 1..L /\ i # L
  <2>1. lev \in [1..L -> Nat]
    BY <1>2 DEF Typed
  <2>2. \A i \in 1..m : i \in 1..L /\ i # L
    BY <1>5
  <2>3. QED
    BY <1>2, <1>3, <2>1, <2>2
<1> HIDE DEF lev2, T, C, T2, k, c, d
<1>7b. n = Len(d)
  OBVIOUS
<1> HIDE DEF n, L, m
<1>8. Typed(T2, C, lev2)
  BY <1>2, <1>3, <1>7 DEF Typed, L
<1>9. C[m].f # "unroll" => lev[m] < n /\ (\A j \in 1..(lev[m] + 1) : j <= k => d[j] = c[j])
                           /\ ~d[lev[m] + 1].reentry /\ \A j \in (lev[m] + 2)..n : d[j].reentry
  <2>1. SUFFICES ASSUME C[m].f # "unroll"
                 PROVE lev[m] < n /\ (\A j \in 1..(lev[m] + 1) : j <= k => d[j] = c[j])
                       /\ ~d[lev[m] + 1].reentry /\ \A j \in (lev[m] + 2)..n : d[j].reentry
    OBVIOUS
  <2>2. lev[m] < k /\ ~c[lev[m] + 1].reentry /\ \A j \in (lev[m] + 2)..k : c[j].reentry
    <3>1. C[m].f # "unroll" => lev[m] < lev[m + 1] /\ ~T[C[m].th].ci[lev[m] + 1].reentry
                               /\ \A j \in (lev[m] + 2)..lev[m + 1] : T[C[m].th].ci[j].reentry
      <4>1. C[m + 1].f = "luaV_execute"
        BY <1>3, <1>5
      <4>2. QED
        BY <1>5, <4>1, Zenon DEF Adj
    <3>2. QED
      BY <1>5, <1>6, <2>1, <3>1 DEF c
  <2>3. lev[m] < n
    <3>1. n < k => lev[m] + 1 # k
      BY <1>3, <2>2
    <3>2. (n < k => n = k - 1) /\ k \in Nat /\ n \in Nat /\ lev[m] \in Nat /\ lev[m] < k
      BY <1>2, <1>3, <1>5, <2>2
    <3>3. QED
      BY <3>1, <3>2
  <2>4. \A j \in 1..(lev[m] + 1) : d[j] = c[j]
    BY <1>2, <1>3, <1>5, <2>2, <2>3
  <2>5. ASSUME NEW j \in (lev[m] + 2)..n PROVE d[j].reentry
    <3>1. CASE j <= k
      <4>1. k \in Nat /\ n \in Nat /\ lev[m] \in Nat
        BY <1>2, <1>3, <1>5
      <4>2. j \in 1..(IF n <= k THEN n ELSE k) /\ j \in (lev[m] + 2)..k
        BY <3>1, <4>1
      <4>3. d[j] = c[j] /\ c[j].reentry
        BY <1>3, <2>2, <4>2
      <4>4. QED
        BY <4>3
    <3>2. CASE ~(j <= k)
      BY <1>2, <1>3, <1>5, <3>2
    <3>3. QED
      BY <3>1, <3>2
  <2>6. QED
    BY <1>5, <2>2, <2>3, <2>4, <2>5
<1>10. Pos(T2, C, lev2, L)
  <2>1. t = MainThread \/ Calls(C, L, t) # {} \/ \A j \in 1..(n - 1) : Soft(d[j])
    <3>1. SUFFICES ASSUME \A j \in 1..(k - 1) : Soft(c[j]), NEW j \in 1..(n - 1) PROVE Soft(d[j])
      BY <1>6a
    <3>2. \A i \in 1..k : Soft(c[i])
      <4>1. Soft(c[k])
        BY <1>6a DEF Soft
      <4>2. QED
        BY <1>2, <3>1, <4>1
    <3>3. CASE j <= k
      BY <1>2, <1>3, <3>2, <3>3
    <3>4. CASE ~(j <= k)
      BY <1>2, <1>3, <3>4
    <3>5. QED
      BY <3>3, <3>4
  <2>2. C[L].th = t /\ T2[t].ci = d /\ lev2[L] = n /\ n <= Len(d) /\ C[L].f = "luaV_execute"
    BY <1>2, <1>3, <1>7, <1>7b DEF d
  <2>3. ~IsRun(C[L], "pcall") /\ ~IsRun(C[L], "resume")
    BY <1>3 DEF IsRun
  <2>4. QED
    BY <1>3, <1>6a, <2>1, <2>2, <2>3 DEF Pos
<1>11. Adj(T2, C, lev2, m)
  <2>1. C[m + 1].f = "luaV_execute" /\ ~IsRun(C[m + 1], "resume") /\ ~IsRun(C[m + 1], "pcall") /\ C[m].th = t
        /\ C[m].th = C[m + 1].th /\ T2[t].ci = d /\ lev2[m] = lev[m] /\ lev2[m + 1] = n
    <3>1. m \in 1..m
      BY <1>5
    <3>2. QED
      BY <1>2, <1>3, <1>5, <1>7, <3>1 DEF IsRun, d
  <2>2. /\ C[m].f \in {"luaD_call", "unroll"} \/ IsRun(C[m], "resume")
        /\ IsRun(C[m], "pcall") => C[m + 1].f = "luaD_call"
        /\ C[m].f = "unroll" => C[m].ud = "yield"
    BY <1>5, <2>1, Zenon DEF Adj
  <2>3. QED
    BY <1>9, <2>1, <2>2 DEF Adj
<1>12. Rebuilds(T, C, lev, T2, C, lev2, m)
  <2>1. /\ m \in 0..L /\ L = m + 1 /\ C[L].th = t /\ (\A u \in Threads \ {t} : T2[u] = T[u])
        /\ (\A i \in 1..m : lev2[i] = lev[i]) /\ \A i \in (m + 1)..L : C[i].th = t
    <3>1. \A i \in (m + 1)..L : i = L
      BY <1>2, <1>5
    <3>2. QED
      BY <1>2, <1>3, <1>5, <1>7, <3>1
  <2>2. ASSUME NEW i \in 1..m, C[i].th = t
        PROVE  /\ lev[i] <= n /\ ~IsRun(C[L], "resume") /\ \A j \in 1..lev[i] : d[j] = c[j]
    <3>1. lev[i] \in Nat /\ lev[i] <= lev[m]
      <4>1. Order(C, lev) /\ i \in 1..L /\ m \in 1..L
        BY <1>2, <1>5 DEF Core
      <4>2. i < m => lev[i] <= lev[m]
        BY <1>5, <2>2, <4>1 DEF Order, L
      <4>3. lev[i] \in Nat
        BY <1>2, <4>1 DEF Typed, L
      <4>4. QED
        BY <1>5, <4>2, <4>3
    <3>2. lev[i] <= n /\ lev[i] <= k
      <4>1. CASE C[m].f # "unroll"
        BY <1>2, <1>3, <1>5, <1>6, <1>9, <3>1, <4>1
      <4>2. CASE C[m].f = "unroll"
        <5>1. Pos(T, C, lev, m)
          <6>1. m \in 1..Len(C)
            BY <1>5 DEF L
          <6>2. QED
            BY <1>2, <6>1 DEF Core
        <5>2. lev[m] = 0
          BY <4>2, <5>1, Zenon DEF Pos
        <5>3. QED
          BY <1>2, <1>3, <3>1, <5>2
      <4>3. QED
        BY <4>1, <4>2
    <3>3. QED
      BY <1>2, <1>3, <1>4, <3>1, <3>2 DEF C, L
  <2>3. ~IsRun(C[m + 1], "resume")
    BY <1>4, <1>5 DEF C, L
  <2>4. QED
    BY <1>2, <1>5, <1>7, <1>7b, <2>1, <2>2, <2>3 DEF Rebuilds, L, c, d
<1>13. NewTop(T2, C, lev2, m + 1)
  <2>1. Adj(T2, C, lev2, m + 1 - 1) /\ m + 1 = L /\ L > 1 /\ C[L].th = t /\ T2[t].ci = d
    <3>1. m + 1 - 1 = m
      BY <1>5
    <3>2. QED
      BY <1>2, <1>3, <1>5, <1>11, <3>1 DEF d
  <2>2. \E j \in 2..L : C[j].f = "run" /\ C[j].th = t
    <3>1. L \in 2..Len(C)
      BY <1>2, <1>3 DEF L
    <3>2. Protected(C)
      BY <1>2 DEF Core
    <3>3. \E j \in 2..L : C[j].f = "run" /\ C[j].th = C[L].th
      BY <3>1, <3>2 DEF Protected
    <3>4. QED
      BY <1>2, <3>3
  <2>3. L # 1
    BY <1>4 DEF L, C
  <2>4. /\ CiOK(T2[t].ci) /\ T2[t].status = "ok"
        /\ T2[t].nny = Cardinality(Calls(C, L, t)) + One(t = MainThread)
    BY <1>2, <1>3 DEF d
  <2>5. Adj(T2, C, lev2, L - 1)
    BY <1>5, <1>11
  <2>6. NewTop(T2, C, lev2, L)
    BY <1>10, <2>1, <2>2, <2>3, <2>4, <2>5, Zenon DEF NewTop
  <2>7. QED
    BY <2>1, <2>6
<1>14. Core(T2, C, lev2)
  BY <1>2, <1>8, <1>12, <1>13, Rebuild
<1>15. TopOK(T2, C, lev2)
  BY <1>2, <1>3, <1>7, <1>7b DEF TopOK, L, d
<1>16. R \in Sts /\ R.cs = C /\ R.th = T2
  BY DEF T2, C
<1>17. QED
  BY <1>8, <1>14, <1>15, <1>16 DEF Fine, Good

\* What lua_resume runs in a coroutine that was suspended is below nothing but
\* the resume.
UnrollsAt(C, t, i) == i \in 1..Len(C) /\ C[i].f = "unroll" /\ C[i].th = t

Based(C, lev, t, i) ==
    /\ t # MainThread /\ i # 1 /\ IsRun(C[i - 1], "resume") /\ lev[i] = 0
    /\ Calls(C, i, t) = {} /\ \A j \in 1..i : C[j].th = t => ~IsRun(C[j], "pcall")

\* unroll is entered by lua_resume only.
LEMMA UnrollBase ==
    ASSUME NEW S, NEW lev, NEW t, Stands(S, lev, t), NEW i, UnrollsAt(S.cs, t, i)
    PROVE  Based(S.cs, lev, t, i)
<1> DEFINE T == S.th
           C == S.cs
           L == Len(C)
<1>0. i \in 1..L /\ C[i].f = "unroll" /\ C[i].th = t
  BY DEF UnrollsAt
<1>1. Standing(S, lev, t)
  BY StandingFacts
<1>2. Core(T, C, lev) /\ L \in Nat \ {0}
  BY <1>1 DEF Standing
<1>3. Pos(T, C, lev, i) /\ Bottom(T, C, lev) /\ Order(C, lev)
  BY <1>0, <1>2 DEF Core
<1>4. t # MainThread /\ lev[i] = 0
  BY <1>0, <1>3, Zenon DEF Pos
<1>5. i # 1
  BY <1>0, <1>3, <1>4 DEF Bottom
<1>6. i - 1 \in 1..(L - 1) /\ i - 1 \in 1..L /\ i - 1 + 1 = i /\ i \in Nat /\ i \in 1..L
  <2> HIDE DEF L
  <2>1. QED
    BY <1>0, <1>2, <1>5
<1>7. IsRun(C[i - 1], "resume")
  <2>1. Adj(T, C, lev, i - 1)
    BY <1>2, <1>6 DEF Core
  <2>2. C[i - 1 + 1].f = "unroll" => IsRun(C[i - 1], "resume")
    BY <2>1, Zenon DEF Adj
  <2>3. QED
    BY <1>0, <1>6, <2>2
<1>8. C[i - 1].th = t
  <2>1. Adj(T, C, lev, i - 1)
    BY <1>2, <1>6 DEF Core
  <2>2. ~IsRun(C[i - 1 + 1], "resume") => C[i - 1].th = C[i - 1 + 1].th
    BY <2>1, Zenon DEF Adj
  <2>3. ~IsRun(C[i], "resume")
    BY <1>0 DEF IsRun
  <2>4. QED
    BY <1>0, <1>6, <2>2, <2>3
<1>9. ASSUME NEW j \in 1..i, C[j].th = t PROVE j = i - 1 \/ j = i
  <2>1. j \in 1..L
    BY <1>6
  <2>2. j < i - 1 => ~IsRun(C[i - 1], "resume")
    BY <1>3, <1>6, <1>8, <1>9, <2>1 DEF Order
  <2>3. QED
    BY <1>6, <1>7, <2>2
<1>10. C[i - 1].f # "luaD_call" /\ C[i].f # "luaD_call" /\ ~IsRun(C[i - 1], "pcall") /\ ~IsRun(C[i], "pcall")
  BY <1>0, <1>7 DEF IsRun
<1>11. Calls(C, i, t) = {}
  BY <1>9, <1>10 DEF Calls
<1>12. \A j \in 1..i : C[j].th = t => ~IsRun(C[j], "pcall")
  BY <1>9, <1>10
<1>13. QED
  BY <1>4, <1>5, <1>7, <1>11, <1>12 DEF Based

\* OP_RETURN.
LEMMA OpReturns ==
    ASSUME NEW S, NEW lev, NEW t, Stands(S, lev, t), S.cs[Len(S.cs)].f = "luaV_execute"
    PROVE  /\ S.th[t].ci[Len(S.th[t].ci)].reentry => Fine(luaD_poscall(S, t))
           /\ ~S.th[t].ci[Len(S.th[t].ci)].reentry => Fine(Pop(luaD_poscall(S, t)))
<1> DEFINE T == S.th
           C == S.cs
           L == Len(C)
           m == L - 1
           s == T[t]
           c == s.ci
           n == Len(c)
           w == WithoutCallee(s)
           P == luaD_poscall(S, t)
           R == Pop(P)
<1>1. Standing(S, lev, t)
  BY StandingFacts
<1>2. /\ S \in Sts /\ Typed(T, C, lev) /\ Core(T, C, lev)
      /\ L \in Nat \ {0} /\ L \in 1..L /\ t \in Threads /\ C \in Seq(Acts) /\ C # <<>> /\ C[L].th = t
      /\ T \in [Threads -> LuaState] /\ CiOK(c) /\ n \in Nat /\ s.status = "ok"
      /\ s.nny = Cardinality(Calls(C, L, t)) + One(t = MainThread)
      /\ s.nCcalls = Cardinality(Nested(C, L)) /\ lev[L] = n /\ s.errfunc = Handler(c, n)
      /\ L # 1
  <2>1. /\ S \in Sts /\ Typed(T, C, lev) /\ Core(T, C, lev)
        /\ L \in Nat \ {0} /\ L \in 1..L /\ t \in Threads /\ C \in Seq(Acts) /\ C # <<>> /\ C[L].th = t
        /\ T \in [Threads -> LuaState] /\ CiOK(c) /\ n \in Nat /\ s.status = "ok"
        /\ s.nny = Cardinality(Calls(C, L, t)) + One(t = MainThread)
        /\ s.nCcalls = Cardinality(Nested(C, L))
        /\ C[L].f # "unroll" => lev[L] = n
        /\ C[L].f \notin {"C", "unroll"} => s.errfunc = Handler(c, n)
        /\ L = 1 => C[L].f = "C" /\ n = 1 /\ c[1].fn = "host"
    BY <1>1 DEF Standing
  <2>2. QED
    BY <2>1
<1>3. n >= 1 /\ IsLua(c[n].fn) /\ (t = MainThread \/ Calls(C, L, t) # {} \/ \A j \in 1..(n - 1) : Soft(c[j]))
  <2>1. Pos(T, C, lev, L)
    BY <1>2 DEF Core
  <2>2. /\ C[L].f = "luaV_execute" => lev[L] >= 1 /\ IsLua(T[C[L].th].ci[lev[L]].fn)
        /\ C[L].th = MainThread \/ Calls(C, L, C[L].th) # {} \/ \A j \in 1..(lev[L] - 1) : Soft(T[C[L].th].ci[j])
    BY <2>1, Zenon DEF Pos
  <2>3. QED
    BY <1>2, <2>2
<1>4. c # <<>> /\ c[n].fn \notin Prot /\ c[n].fn # "xpcall"
  BY <1>2, <1>3 DEF IsLua, Prot
<1>5. /\ SetTo(S, t, w, P) /\ w \in LuaState /\ Shorter(c, w.ci)
      /\ w.status = s.status /\ w.nny = s.nny /\ w.nCcalls = s.nCcalls /\ w.errfunc = s.errfunc
  BY <1>2, <1>4, PoscallIs
<1> HIDE DEF w
<1>6. /\ P \in Sts /\ P.cs = C /\ P.th[t] = w /\ (\A u \in Threads \ {t} : P.th[u] = T[u])
      /\ P.th \in [Threads -> LuaState]
  BY <1>5 DEF SetTo, Sts
<1>7. /\ Len(w.ci) = n - 1 /\ CiOK(w.ci)
      /\ (\A j \in 1..(n - 1) : w.ci[j] = c[j])
      /\ Handler(w.ci, n - 1) = Handler(c, n - 1) /\ Handler(c, n) = Handler(c, n - 1)
  BY <1>4, <1>5 DEF Shorter
<1> HIDE DEF P
<1>8. ASSUME c[n].reentry PROVE Fine(P)
  <2>1. n >= 2 /\ IsLua(c[n - 1].fn)
    BY <1>2, <1>3, <1>8 DEF CiOK
  <2>2. n - 1 >= 1 /\ IsLua(w.ci[n - 1].fn) /\ n - 1 \in Nat /\ n - 1 <= n
    <3>1. n - 1 \in 1..(n - 1)
      BY <1>2, <2>1
    <3>2. w.ci[n - 1] = c[n - 1]
      BY <1>7, <3>1
    <3> HIDE DEF n, c
    <3>3. n - 1 >= 1 /\ n - 1 \in Nat /\ n - 1 <= n
      BY <1>2, <2>1
    <3>4. QED
      BY <2>1, <3>2, <3>3
  <2>3. L > 1
    <3> HIDE DEF L
    <3>1. QED
      BY <1>2
  <2>4. /\ (\A j \in 1..(IF n - 1 <= n THEN n - 1 ELSE n) : w.ci[j] = c[j])
        /\ (\A j \in (n + 1)..(n - 1) : FALSE)
        /\ n - 1 < n => n - 1 = n - 1 /\ c[n].reentry
    BY <1>2, <1>7, <1>8
  <2>5. P.th[t].ci = w.ci /\ P.th[t].errfunc = Handler(w.ci, n - 1)
    BY <1>2, <1>5, <1>6, <1>7
  <2>6. Executes(T, C, lev, P.th)
    BY <1>2, <1>5, <1>6, <1>7, <2>2, <2>3, <2>4, <2>5 DEF Executes
  <2>7. QED
    BY <1>6, <2>6, ExecMoves
<1>9. ASSUME ~c[n].reentry PROVE Fine(R)
  <2>1. Popped(P, R)
    BY <1>2, <1>6, PopIs
  <2>2. /\ R \in Sts /\ R = [th |-> P.th, cs |-> Front(C), res |-> P.res] /\ R.th = P.th /\ R.cs = Front(C)
        /\ R.res = P.res /\ P.res \in {"ok", "err", "errerr"}
    BY <1>6, <2>1 DEF Popped, Sts
  <2> HIDE DEF R
  <2>3. ~IsRun(C[L], "resume")
    BY DEF IsRun
  <2>4. Under(S, lev, t)
    BY <1>2, <2>3, UnderFacts
  <2>5. /\ m \in Nat \ {0} /\ m \in 1..L /\ m + 1 = L
        /\ C[m] \in Acts /\ C[m].th = t /\ (\A i \in m..L : C[i].th = t)
        /\ lev[m] \in Nat /\ lev[m] <= lev[L] /\ Adj(T, C, lev, m)
        /\ Front(C) \in Seq(Acts) /\ Len(Front(C)) = m /\ Front(C)[m] = C[m]
        /\ (\A i \in 1..m : Front(C)[i] = C[i])
        /\ Nested(Front(C), m) = Nested(C, m) /\ Calls(Front(C), m, t) = Calls(C, m, t)
        /\ Cardinality(Nested(C, m)) \in Nat /\ Cardinality(Calls(C, m, t)) \in Nat
        /\ Cardinality(Nested(C, L)) = Cardinality(Nested(C, m)) + One(C[L].f = "luaD_call")
        /\ Cardinality(Calls(C, L, t)) =
                Cardinality(Calls(C, m, t)) + One(C[L].f = "luaD_call" /\ ~C[L].allowyield)
    BY <2>4, Zenon DEF Under
  <2>6. /\ C[m].f \in {"luaD_call", "unroll"} \/ IsRun(C[m], "resume")
        /\ C[m].f # "unroll" => lev[m] < n /\ \A j \in (lev[m] + 2)..n : c[j].reentry
        /\ C[m].f = "unroll" => C[m].ud = "yield"
    <3>1. /\ C[m + 1].f = "luaV_execute" =>
                /\ C[m].f \in {"luaD_call", "unroll"} \/ IsRun(C[m], "resume")
                /\ C[m].f # "unroll" => lev[m] < lev[m + 1] /\ \A j \in (lev[m] + 2)..lev[m + 1] : T[C[m].th].ci[j].reentry
          /\ C[m].f = "unroll" => C[m].ud = "yield"
      BY <2>5, Zenon DEF Adj
    <3>2. QED
      BY <1>2, <2>5, <3>1
  <2>7. CASE C[m].f # "unroll"
    <3>1. lev[m] = n - 1
      <4>1. n \notin (lev[m] + 2)..n
        BY <1>9, <2>6, <2>7
      <4>2. lev[m] < n
        BY <2>6, <2>7
      <4> HIDE DEF n, m
      <4>3. QED
        BY <1>2, <2>5, <4>1, <4>2
    <3>2. C[m].f \in {"luaD_call", "luaV_execute"} \/ IsRun(C[m], "resume")
      BY <2>6, <2>7
    <3>3. R.res \in {"ok", "err", "errerr"} /\ R = [th |-> luaD_poscall(S, t).th, cs |-> Front(S.cs), res |-> R.res]
      BY <2>2 DEF P
    <3>4. C[L].f \in {"C", "luaV_execute"}
      OBVIOUS
    <3>5. QED
      BY <1>2, <1>4, <3>1, <3>2, <3>3, <3>4, FrameEnds
  <2>8. CASE C[m].f = "unroll"
    <3>1. /\ t # MainThread /\ m # 1 /\ lev[m] = 0 /\ Calls(C, m, t) = {}
      <4>1. UnrollsAt(C, t, m)
        BY <2>5, <2>8 DEF UnrollsAt
      <4> HIDE DEF m
      <4>2. Based(C, lev, t, m)
        BY <4>1, UnrollBase
      <4>3. QED
        BY <4>2 DEF Based
    <3>2. Cardinality(Calls(C, L, t)) = Cardinality(Calls(C, m, t)) /\ Cardinality(Nested(C, L)) = Cardinality(Nested(C, m))
      BY <2>5 DEF One
    <3>3. \A j \in 1..(n - 1) : Soft(c[j])
      <4>1. /\ L \in Nat /\ m \in Nat /\ Cardinality(Calls(C, m, t)) = 0
        <5>1. m \in Nat
          BY <2>5
        <5>2. Cardinality(Calls(C, m, t)) = 0 <=> Calls(C, m, t) = {}
          BY <5>1, CallsStep
        <5>3. QED
          BY <1>2, <3>1, <5>1, <5>2
      <4>2. Cardinality(Calls(C, L, t)) = 0 <=> Calls(C, L, t) = {}
        BY <4>1, CallsStep
      <4>3. QED
        BY <1>3, <3>1, <3>2, <4>1, <4>2
    <3> HIDE DEF m, L, C, T, n, c, s
    <3>4. TopOK(R.th, R.cs, lev)
      <4>1. Len(R.cs) = m /\ R.cs[m] = C[m] /\ C[m].th = t /\ R.th[t] = w /\ Len(w.ci) = n - 1
        BY <1>6, <1>7, <2>2, <2>5
      <4>2. /\ w.nCcalls = Cardinality(Nested(R.cs, m))
            /\ w.errfunc = Handler(w.ci, n - 1) /\ C[m].ud = "yield"
        BY <1>2, <1>5, <1>7, <2>2, <2>5, <2>6, <2>8, <3>2
      <4>3. \A j \in 1..(n - 1) : Soft(w.ci[j])
        BY <1>7, <3>3
      <4>4. QED
        BY <2>8, <4>1, <4>2, <4>3 DEF TopOK
    <3>5. Back(S, lev, t, R, m)
      <4>1. /\ R \in Sts /\ m \in 1..L /\ Len(R.cs) = m /\ (\A i \in 1..(m - 1) : R.cs[i] = C[i])
            /\ Alike(R.cs[m], C[m]) /\ (\A i \in m..L : C[i].th = t)
            /\ (\A u \in Threads \ {t} : R.th[u] = T[u])
        BY <1>6, <2>2, <2>5 DEF Alike
      <4>2. /\ lev[m] <= Len(R.th[t].ci) /\ (\A j \in 1..lev[m] : FALSE) /\ m # 1
        BY <1>2, <1>3, <1>6, <1>7, <2>2, <3>1
      <4>3. /\ CiOK(R.th[t].ci) /\ R.th[t].status = "ok"
            /\ R.th[t].nny = Cardinality(Calls(R.cs, m, t)) + One(t = MainThread)
        BY <1>2, <1>5, <1>6, <1>7, <2>2, <2>5, <3>2
      <4>4. QED
        BY <3>4, <4>1, <4>2, <4>3 DEF Back, T, C, L, c, s
    <3>6. QED
      BY <3>5, BackFine
  <2>9. QED
    BY <2>7, <2>8
<1>10. QED
  BY <1>8, <1>9 DEF P, R

\* A sequence whose new last element is replaced.
LEMMA LastReplaced ==
    ASSUME NEW A, NEW c \in Seq(A), NEW x \in A, NEW y \in A
    PROVE  [Append(c, x) EXCEPT ![Len(c) + 1] = y] = Append(c, y)
<1> DEFINE n == Len(c) + 1
           d == Append(c, x)
           u == [d EXCEPT ![n] = y]
<1>1. Append(c, x) \in Seq(A) /\ Len(Append(c, x)) = n /\ n \in 1..n
  OBVIOUS
<1>2. Append(c, y) \in Seq(A) /\ Len(Append(c, y)) = n
  OBVIOUS
<1>3. u \in Seq(A) /\ Len(u) = n
  BY <1>1
<1>4. ASSUME NEW i \in 1..n PROVE u[i] = Append(c, y)[i]
  <2>1. CASE i = n
    <3>1. u[n] = y
      BY <1>1
    <3>2. Append(c, y)[n] = y
      OBVIOUS
    <3>3. QED
      BY <2>1, <3>1, <3>2
  <2>2. CASE i # n
    <3>1. u[i] = d[i]
      <4>1. d \in Seq(A) /\ Len(d) = n
        BY <1>1
      <4>2. DOMAIN d = 1..n
        BY <4>1
      <4> HIDE DEF n, d
      <4>3. QED
        BY <2>2, <4>2
    <3>2. i \in 1..Len(c)
      BY <2>2
    <3>3. Append(c, x)[i] = c[i] /\ Append(c, y)[i] = c[i]
      BY <3>2
    <3>4. QED
      BY <3>1, <3>3
  <2>3. QED
    BY <2>1, <2>2
<1> HIDE DEF u
<1>5. QED
  BY <1>2, <1>3, <1>4, SeqEqual DEF u

\* The frame of a function that luaV_execute calls.
NewFrame(fn) == [CallInfo(fn) EXCEPT !.reentry = IsLua(fn)]

\* What OP_CALL does.
OpCalled(S, t, fn) ==
    [luaD_precall(S, t, fn) EXCEPT
        !.th[t].ci[Len(luaD_precall(S, t, fn).th[t].ci)].reentry = IsLua(fn)]

\* The assignments of OP_CALL, as a record.
LEMMA OpCallIs ==
    ASSUME NEW S \in Sts, NEW t \in Threads, NEW fn \in Names
    PROVE  LET s == S.th[t]
               w == [s EXCEPT !.ci = Append(s.ci, NewFrame(fn))]
           IN  /\ NewFrame(fn) \in Info /\ NewFrame(fn).fn = fn /\ NewFrame(fn).ypcall = FALSE
               /\ NewFrame(fn).reentry = IsLua(fn)
               /\ w \in LuaState /\ w.ci = Append(s.ci, NewFrame(fn)) /\ w.status = s.status
               /\ w.nny = s.nny /\ w.nCcalls = s.nCcalls /\ w.errfunc = s.errfunc
               /\ OpCalled(S, t, fn) =
                    [th |-> [S.th EXCEPT ![t] = w],
                     cs |-> IF IsLua(fn) THEN S.cs ELSE Append(S.cs, Body(t, "start")),
                     res |-> S.res]
<1> DEFINE s == S.th[t]
           c == s.ci
           r == NewFrame(fn)
           w == [s EXCEPT !.ci = Append(c, r)]
           v == WithCallee(s, fn)
           P == luaD_precall(S, t, fn)
           K == IF IsLua(fn) THEN S.cs ELSE Append(S.cs, Body(t, "start"))
<1>1. S.th \in [Threads -> LuaState] /\ s \in LuaState /\ c \in Seq(Info)
  BY StateFields DEF Sts
<1>2. r \in Info /\ r.fn = fn /\ r.ypcall = FALSE /\ r.reentry = IsLua(fn)
  <2>1. IsLua(fn) \in BOOLEAN
    BY DEF IsLua
  <2>2. QED
    BY <2>1 DEF NewFrame, CallInfo, Info
<1> HIDE DEF r
<1>3. Append(c, r) \in Seq(Info) /\ Len(Append(c, r)) = Len(c) + 1
  BY <1>1, <1>2
<1>4. /\ w \in LuaState /\ w.ci = Append(c, r) /\ w.status = s.status
      /\ w.nny = s.nny /\ w.nCcalls = s.nCcalls /\ w.errfunc = s.errfunc
  <2> HIDE DEF s, c
  <2>1. Append(c, r) \in Seq(Info)
    BY <1>3
  <2>2. QED
    BY <1>1, <2>1 DEF LuaState
<1>5. P = [th |-> [S.th EXCEPT ![t] = v], cs |-> K, res |-> S.res]
  BY PrecallIs
<1>6. v \in LuaState /\ v.ci = Append(c, CallInfo(fn))
  BY <1>1, CalleeIs
<1> HIDE DEF P, K
<1>7. P.th = [S.th EXCEPT ![t] = v] /\ P.th[t] = v /\ P.th \in [Threads -> LuaState]
      /\ P = [th |-> P.th, cs |-> K, res |-> S.res]
  BY <1>1, <1>5, <1>6
<1> DEFINE n == Len(c) + 1
           u == [v EXCEPT !.ci[n].reentry = IsLua(fn)]
<1>8. CallInfo(fn) \in Info
  BY DEF CallInfo, Info
<1>9. Len(v.ci) = n /\ v.ci[n] = CallInfo(fn) /\ [v.ci EXCEPT ![n] = r] = Append(c, r)
  <2>1. Len(v.ci) = n /\ v.ci[n] = CallInfo(fn)
    BY <1>1, <1>6, <1>8
  <2>2. [Append(c, CallInfo(fn)) EXCEPT ![n] = r] = Append(c, r)
    <3>1. c \in Seq(Info) /\ r \in Info /\ CallInfo(fn) \in Info
      BY <1>1, <1>2, <1>8
    <3> HIDE DEF c, Info
    <3>2. QED
      BY <3>1, LastReplaced
  <2>3. QED
    BY <1>6, <2>1, <2>2
<1>10. u = w
  <2>1. u = [v EXCEPT !.ci = [v.ci EXCEPT ![n] = [v.ci[n] EXCEPT !.reentry = IsLua(fn)]]]
    OBVIOUS
  <2>2. [v.ci[n] EXCEPT !.reentry = IsLua(fn)] = r
    BY <1>9 DEF r, NewFrame
  <2> HIDE DEF u
  <2>3. u = [v EXCEPT !.ci = Append(c, r)]
    BY <1>9, <2>1, <2>2
  <2>4. v = [s EXCEPT !.ci = Append(c, CallInfo(fn))]
    BY DEF WithCallee
  <2> HIDE DEF v, s, c
  <2>5. QED
    BY <2>3, <2>4
<1>11. OpCalled(S, t, fn) = [P EXCEPT !.th = [P.th EXCEPT ![t] = u]]
  <2>1. OpCalled(S, t, fn) = [P EXCEPT !.th[t].ci[Len(P.th[t].ci)].reentry = IsLua(fn)]
    BY DEF OpCalled, P
  <2>2. Len(P.th[t].ci) = n
    BY <1>7, <1>9
  <2> HIDE DEF v
  <2>3. QED
    BY <1>7, <2>1, <2>2
<1> HIDE DEF u, v, w
<1>12. OpCalled(S, t, fn) = [th |-> [P.th EXCEPT ![t] = w], cs |-> K, res |-> S.res]
  BY <1>7, <1>10, <1>11
<1>13. [P.th EXCEPT ![t] = w] = [S.th EXCEPT ![t] = w]
  BY <1>1, <1>7
<1>14. QED
  BY <1>2, <1>4, <1>12, <1>13 DEF w, s, c, r, K

\* What luaV_execute stands on.
AtExec(S, lev, t) ==
    LET c == S.th[t].ci
        n == Len(c)
    IN  /\ n \in Nat /\ n >= 1 /\ IsLua(c[n].fn) /\ lev[Len(S.cs)] = n /\ Len(S.cs) > 1
        /\ Softly(S.th, S.cs, c) /\ S.th[t].errfunc = Handler(c, n)

\* The invariant says so.
LEMMA AtExecFacts ==
    ASSUME NEW S, NEW lev, NEW t, Stands(S, lev, t), S.cs[Len(S.cs)].f = "luaV_execute"
    PROVE  AtExec(S, lev, t)
<1> DEFINE T == S.th
           C == S.cs
           L == Len(C)
           c == T[t].ci
           n == Len(c)
<1>1. Standing(S, lev, t)
  BY StandingFacts
<1>2. /\ Core(T, C, lev) /\ L \in Nat \ {0} /\ L \in 1..L /\ C[L].th = t /\ n \in Nat
      /\ C[L].f # "unroll" => lev[L] = n
      /\ C[L].f \notin {"C", "unroll"} => T[t].errfunc = Handler(c, n)
      /\ L = 1 => C[L].f = "C"
  BY <1>1 DEF Standing
<1>3. L > 1
  <2>1. L # 1
    BY <1>2
  <2> HIDE DEF L
  <2>2. QED
    BY <1>2, <2>1
<1>4. Pos(T, C, lev, L)
  BY <1>2 DEF Core
<1>5. /\ C[L].f = "luaV_execute" => lev[L] >= 1 /\ IsLua(T[C[L].th].ci[lev[L]].fn)
      /\ C[L].th = MainThread \/ Calls(C, L, C[L].th) # {} \/ \A j \in 1..(lev[L] - 1) : Soft(T[C[L].th].ci[j])
      /\ C[L].f \in {"C", "luaV_execute"} =>
            C[L].th = MainThread \/ Calls(C, L, C[L].th) # {} \/ \A j \in 1..L : C[j].th = C[L].th => ~IsRun(C[j], "pcall")
  BY <1>4, Zenon DEF Pos
<1>6. n >= 1 /\ IsLua(c[n].fn) /\ lev[L] = n /\ T[t].errfunc = Handler(c, n)
  BY <1>2, <1>5
<1>7. (\A j \in 1..(n - 1) : Soft(c[j])) => \A j \in 1..n : Soft(c[j])
  <2>1. Soft(c[n])
    BY <1>6 DEF Soft
  <2>2. \A j \in 1..n : j \in 1..(n - 1) \/ j = n
    BY <1>2
  <2>3. QED
    BY <2>1, <2>2
<1>8. Softly(T, C, c)
  <2>1. \/ t = MainThread \/ Calls(C, L, t) # {}
        \/ /\ \A j \in 1..n : Soft(c[j])
           /\ \A j \in 1..L : C[j].th = t => ~IsRun(C[j], "pcall")
    BY <1>2, <1>5, <1>6, <1>7
  <2>2. QED
    BY <1>2, <2>1 DEF Softly
<1>9. QED
  BY <1>2, <1>3, <1>6, <1>8 DEF AtExec

\* OP_CALL.
LEMMA OpCalls ==
    ASSUME NEW S, NEW lev, NEW t, Stands(S, lev, t), S.cs[Len(S.cs)].f = "luaV_execute",
           NEW fn \in Names
    PROVE  Fine(OpCalled(S, t, fn))
<1> DEFINE T == S.th
           C == S.cs
           L == Len(C)
           s == T[t]
           c == s.ci
           n == Len(c)
           r == NewFrame(fn)
           d == Append(c, r)
           w == [s EXCEPT !.ci = d]
           R == OpCalled(S, t, fn)
           K == IF IsLua(fn) THEN C ELSE Append(C, Body(t, "start"))
<1>1. Standing(S, lev, t) /\ AtExec(S, lev, t)
  BY StandingFacts, AtExecFacts
<1>2. /\ S \in Sts /\ Typed(T, C, lev) /\ Core(T, C, lev) /\ t \in Threads /\ T \in [Threads -> LuaState]
      /\ C \in Seq(Acts) /\ C # <<>> /\ C[L].th = t /\ c \in Seq(Info) /\ s.status = "ok" /\ CiOK(c)
      /\ s.nCcalls = Cardinality(Nested(C, L)) /\ S.res \in {"ok", "err", "errerr"}
  BY <1>1 DEF Standing, Sts
<1>3. /\ n \in Nat /\ n >= 1 /\ IsLua(c[n].fn) /\ lev[L] = n /\ L > 1
      /\ Softly(T, C, c) /\ s.errfunc = Handler(c, n)
  BY <1>1 DEF AtExec
<1>4. /\ r \in Info /\ r.fn = fn /\ r.ypcall = FALSE /\ r.reentry = IsLua(fn)
      /\ w \in LuaState /\ w.ci = d /\ w.status = s.status
      /\ w.nny = s.nny /\ w.nCcalls = s.nCcalls /\ w.errfunc = s.errfunc
      /\ R = [th |-> [T EXCEPT ![t] = w], cs |-> K, res |-> S.res]
  <2>1. S \in Sts /\ t \in Threads
    BY <1>2
  <2>2. QED
    BY <2>1, OpCallIs, Zenon
<1> HIDE DEF r, w, R
<1> DEFINE T2 == [T EXCEPT ![t] = w]
<1>5. T2 \in [Threads -> LuaState] /\ T2[t] = w /\ \A u \in Threads \ {t} : T2[u] = T[u]
  BY <1>2, <1>4
<1> HIDE DEF T2
<1>6. CASE IsLua(fn)
  <2>1. Called(c, r, d)
    <3>1. ~r.ypcall /\ (r.reentry => Len(c) >= 1 /\ IsLua(r.fn) /\ IsLua(c[Len(c)].fn))
      BY <1>3, <1>4, <1>6
    <3>2. QED
      BY <1>2, <1>4, <3>1, CiCall
  <2>2. /\ Len(d) = n + 1 /\ d[n + 1] = r /\ CiOK(d) /\ (\A j \in 1..n : d[j] = c[j])
        /\ (\A m \in 0..n : Handler(d, m) = Handler(c, m))
        /\ Handler(d, n + 1) = IF r.fn = "xpcall" THEN n + 1
                               ELSE IF r.fn \in Prot THEN 0 ELSE Handler(c, n)
    BY <2>1 DEF Called
  <2>3. r.reentry /\ Soft(r) /\ Handler(d, n + 1) = Handler(c, n)
    BY <1>4, <1>6, <2>2 DEF Soft, IsLua, Prot
  <2> HIDE DEF n, d, c
  <2>4. \A j \in (n + 1)..(n + 1) : d[j] = r
    BY <1>3, <2>2
  <2>5. R = [th |-> T2, cs |-> C, res |-> S.res]
    BY <1>4, <1>6 DEF T2
  <2>6. R \in Sts /\ R.cs = C /\ R.th = T2
    BY <1>2, <1>5, <2>5 DEF Sts
  <2>7. /\ CiOK(d) /\ n + 1 >= 1 /\ n + 1 \in Nat /\ IsLua(d[n + 1].fn)
        /\ (\A j \in 1..(IF n + 1 <= n THEN n + 1 ELSE n) : d[j] = c[j])
        /\ (\A j \in (n + 1)..(n + 1) : d[j].reentry) /\ ~(n + 1 < n)
        /\ (\A j \in (n + 1)..(n + 1) : Soft(d[j]))
    BY <1>3, <1>4, <1>6, <2>2, <2>3, <2>4
  <2>8. /\ T2[t].ci = d /\ T2[t].status = "ok" /\ T2[t].nny = s.nny /\ T2[t].nCcalls = s.nCcalls
        /\ T2[t].errfunc = Handler(d, n + 1)
    BY <1>2, <1>3, <1>4, <1>5, <2>3
  <2>9. Executes(T, C, lev, R.th)
    BY <1>2, <1>3, <1>5, <2>2, <2>6, <2>7, <2>8 DEF Executes, n, c
  <2>10. Fine(R)
    BY <2>6, <2>9, ExecMoves
  <2>11. QED
    BY <2>10 DEF R
<1>7. CASE ~IsLua(fn)
  <2>1. r = CallInfo(fn)
    <3>1. IsLua(fn) = FALSE
      BY <1>7 DEF IsLua
    <3>2. [CallInfo(fn) EXCEPT !.reentry = FALSE] = CallInfo(fn)
      <4> DEFINE q == CallInfo(fn)
      <4>1. q \in Info /\ q.reentry = FALSE
        BY DEF CallInfo, Info
      <4> HIDE DEF q
      <4>2. [q EXCEPT !.reentry = FALSE] = q
        BY <4>1 DEF Info
      <4>3. QED
        BY <4>2 DEF q
    <3>3. QED
      BY <3>1, <3>2 DEF r, NewFrame
  <2> DEFINE b == Body(t, "start")
             C2 == Append(C, b)
             lev2 == LevelsOf(C, lev, n + 1)
  <2>2. b \in Acts /\ b.th = C[Len(C)].th /\ n + 1 \in Nat
    BY <1>2, <1>3 DEF Body, Acts, CAct
  <2>3. FrameSite(T, C, lev, b, fn)
    BY <1>2, <1>3 DEF FrameSite
  <2> HIDE DEF b
  <2>4. Grown(C, lev, C2, lev2, b, Len(T[t].ci) + 1)
    BY <1>2, <2>2, Growing
  <2>5. C2 \in Seq(Acts)
    BY <1>2, <2>2
  <2> HIDE DEF C2, lev2
  <2>6. Moves(T, C, T2, Append(T[t].ci, CallInfo(fn)), T[t].nny)
    BY <1>2, <1>4, <1>5, <2>1 DEF Moves
  <2>7. /\ T2[t].nCcalls = Cardinality(Nested(C, Len(C)))
        /\ T2[t].errfunc = Handler(T[t].ci, Len(T[t].ci)) /\ t = C[Len(C)].th
    BY <1>2, <1>3, <1>4, <1>5
  <2>8. Good(T2, C2)
    <3> HIDE DEF T, C, c, n
    <3>1. QED
      BY <1>2, <2>3, <2>4, <2>6, <2>7, PushFrame
  <2>9. R = [th |-> T2, cs |-> C2, res |-> S.res]
    BY <1>4, <1>7 DEF T2, C2, b
  <2>10. R \in Sts /\ R.th = T2 /\ R.cs = C2
    BY <1>2, <1>5, <2>5, <2>9 DEF Sts
  <2>11. Fine(R)
    BY <2>8, <2>10 DEF Fine
  <2>12. QED
    BY <2>11 DEF R
<1>8. QED
  BY <1>6, <1>7

\* luaD_call gives back what it took.
Lefts(s, soft) == [s EXCEPT !.nny = IF soft THEN s.nny ELSE s.nny - 1, !.nCcalls = s.nCcalls - 1]

CallLeft(S, t, soft) ==
    Pop([S EXCEPT !.th[t].nny = IF soft THEN @ ELSE @ - 1, !.th[t].nCcalls = @ - 1])

\* The state w of the thread, and all of it.
LeavesAs(S, t, soft, w, D) ==
    LET s == S.th[t]
    IN  /\ w \in LuaState /\ w.ci = s.ci /\ w.status = s.status /\ w.errfunc = s.errfunc
        /\ w.nCcalls = s.nCcalls - 1 /\ w.nny = IF soft THEN s.nny ELSE s.nny - 1
        /\ D = [th |-> [S.th EXCEPT ![t] = w], cs |-> Front(S.cs), res |-> S.res]
        /\ D \in Sts /\ D.th[t] = w /\ \A u \in Threads \ {t} : D.th[u] = S.th[u]

\* It takes one from nCcalls, and from nny unless the call might be interrupted.
LEMMA CallLeftIs ==
    ASSUME NEW S \in Sts, NEW t \in Threads, NEW soft \in BOOLEAN, S.cs # <<>>,
           S.th[t].nCcalls >= 1, soft \/ S.th[t].nny >= 1
    PROVE  LeavesAs(S, t, soft, Lefts(S.th[t], soft), CallLeft(S, t, soft))
<1> DEFINE s == S.th[t]
           w == Lefts(s, soft)
           T2 == [S.th EXCEPT ![t] = w]
           D == CallLeft(S, t, soft)
<1>1. s \in LuaState /\ S.th \in [Threads -> LuaState] /\ S = [th |-> S.th, cs |-> S.cs, res |-> S.res]
      /\ S.cs \in Seq(Acts) /\ S.res \in {"ok", "err", "errerr"}
  BY DEF Sts
<1>2. s.nCcalls - 1 \in Nat /\ (IF soft THEN s.nny ELSE s.nny - 1) \in Nat
  BY <1>1, StateFields
<1>3. /\ w \in LuaState /\ w.ci = s.ci /\ w.status = s.status /\ w.errfunc = s.errfunc
      /\ w.nCcalls = s.nCcalls - 1 /\ w.nny = IF soft THEN s.nny ELSE s.nny - 1
  <2> HIDE DEF s
  <2>1. QED
    BY <1>1, <1>2 DEF LuaState, Lefts
<1>4. D = [th |-> T2, cs |-> Front(S.cs), res |-> S.res]
  <2>1. D = Pop([S EXCEPT !.th = T2])
    BY <1>1 DEF CallLeft, Lefts
  <2> HIDE DEF T2, D
  <2>2. [S EXCEPT !.th = T2] = [th |-> T2, cs |-> S.cs, res |-> S.res]
    BY <1>1
  <2>3. Pop([th |-> T2, cs |-> S.cs, res |-> S.res]) = [th |-> T2, cs |-> Front(S.cs), res |-> S.res]
    BY DEF Pop
  <2>4. QED
    BY <2>1, <2>2, <2>3
<1> HIDE DEF w
<1>5. T2 \in [Threads -> LuaState] /\ T2[t] = w /\ \A u \in Threads \ {t} : T2[u] = S.th[u]
  BY <1>1, <1>3
<1> HIDE DEF T2, D
<1>7. Front(S.cs) \in Seq(Acts)
  BY <1>1, FrontProperties
<1>8. D \in Sts /\ D.th = T2
  BY <1>1, <1>4, <1>5, <1>7 DEF Sts
<1>9. QED
  BY <1>3, <1>4, <1>5, <1>8 DEF w, D, T2, LeavesAs

\* What lua_callk or lua_pcallk does when the call has returned.
UnmarkedFrame(s) == [s.ci[Len(s.ci)] EXCEPT !.ypcall = FALSE]

Unmarked(s) ==
    [s EXCEPT !.errfunc = IF s.ci[Len(s.ci)].ypcall THEN s.ci[Len(s.ci)].olderr ELSE s.errfunc,
              !.ci = [s.ci EXCEPT ![Len(s.ci)] = UnmarkedFrame(s)]]

\* The C function that made the call goes on.
CallDone(D, t, y, o, n) ==
    [D EXCEPT !.cs[Len(D.cs)].at = "done", !.res = "ok",
              !.th[t].errfunc = IF y THEN o ELSE @, !.th[t].ci[n].ypcall = FALSE]

UnmarkedAs(s, r, v) ==
    /\ r \in Info /\ r.fn = s.ci[Len(s.ci)].fn /\ r.reentry = s.ci[Len(s.ci)].reentry /\ r.ypcall = FALSE
    /\ v \in LuaState /\ v.ci = [s.ci EXCEPT ![Len(s.ci)] = r] /\ v.status = s.status
    /\ v.nny = s.nny /\ v.nCcalls = s.nCcalls
    /\ v.errfunc = IF s.ci[Len(s.ci)].ypcall THEN s.ci[Len(s.ci)].olderr ELSE s.errfunc

\* The fields of both.
LEMMA UnmarkedIs ==
    ASSUME NEW s \in LuaState, s.ci # <<>>
    PROVE  UnmarkedAs(s, UnmarkedFrame(s), Unmarked(s))
<1> DEFINE c == s.ci
           n == Len(c)
           r == UnmarkedFrame(s)
           e == IF c[n].ypcall THEN c[n].olderr ELSE s.errfunc
<1>1. c \in Seq(Info) /\ s.errfunc \in Nat
  BY StateFields
<1>2. n \in 1..Len(c) /\ c[n] \in Info
  BY <1>1
<1>3. r \in Info /\ r.fn = c[n].fn /\ r.reentry = c[n].reentry /\ r.ypcall = FALSE
  BY <1>2 DEF Info, UnmarkedFrame
<1>4. e \in Nat
  BY <1>1, <1>2 DEF Info
<1> HIDE DEF r, e
<1>5. [c EXCEPT ![n] = r] \in Seq(Info)
  BY <1>1, <1>2, <1>3
<1>6. Unmarked(s) = [s EXCEPT !.errfunc = e, !.ci = [c EXCEPT ![n] = r]]
  BY DEF Unmarked, r, e
<1> DEFINE d == [c EXCEPT ![n] = r]
<1> HIDE DEF c, n, d
<1>7. /\ Unmarked(s) \in LuaState /\ Unmarked(s).ci = d
      /\ Unmarked(s).status = s.status /\ Unmarked(s).nny = s.nny
      /\ Unmarked(s).nCcalls = s.nCcalls /\ Unmarked(s).errfunc = e
  BY <1>4, <1>5, <1>6 DEF LuaState, d
<1>8. QED
  BY <1>3, <1>7 DEF c, n, r, e, d, UnmarkedAs

DoneAs(D, t, a, R) ==
    /\ R = [th |-> [D.th EXCEPT ![t] = Unmarked(D.th[t])], cs |-> [D.cs EXCEPT ![Len(D.cs)] = a], res |-> "ok"]
    /\ a \in Acts /\ a.f = "C" /\ a.th = D.cs[Len(D.cs)].th /\ R \in Sts

\* The assignments at the end of lua_callk and lua_pcallk, as a record.
LEMMA CallDoneIs ==
    ASSUME NEW D \in Sts, NEW t \in Threads, D.th[t].ci # <<>>, D.cs # <<>>, D.cs[Len(D.cs)] \in CAct
    PROVE  LET s == D.th[t]
               n == Len(s.ci)
           IN  DoneAs(D, t, [D.cs[Len(D.cs)] EXCEPT !.at = "done"],
                      CallDone(D, t, s.ci[n].ypcall, s.ci[n].olderr, n))
<1> DEFINE s == D.th[t]
           n == Len(s.ci)
           y == s.ci[n].ypcall
           o == s.ci[n].olderr
           s1 == [s EXCEPT !.errfunc = IF y THEN o ELSE s.errfunc]
           s2 == [s1 EXCEPT !.ci[n].ypcall = FALSE]
           m == Len(D.cs)
           a == [D.cs[m] EXCEPT !.at = "done"]
           K == [D.cs EXCEPT ![m] = a]
           R == CallDone(D, t, y, o, n)
<1>1. s \in LuaState /\ D.th \in [Threads -> LuaState] /\ D = [th |-> D.th, cs |-> D.cs, res |-> D.res]
      /\ D.cs \in Seq(Acts)
  BY DEF Sts
<1>2. s2 = Unmarked(s)
  <2>1. s1 = [s EXCEPT !.errfunc = IF y THEN o ELSE s.errfunc] /\ s1.ci = s.ci
    BY <1>1 DEF LuaState
  <2>2. s2 = [s1 EXCEPT !.ci = [s1.ci EXCEPT ![n] = [s1.ci[n] EXCEPT !.ypcall = FALSE]]]
    OBVIOUS
  <2> HIDE DEF s1, s2
  <2>3. s2 = [s1 EXCEPT !.ci = [s.ci EXCEPT ![n] = UnmarkedFrame(s)]]
    BY <2>1, <2>2 DEF UnmarkedFrame
  <2>4. QED
    BY <2>1, <2>3 DEF Unmarked
<1>3. Unmarked(s) \in LuaState
  <2>1. UnmarkedAs(s, UnmarkedFrame(s), Unmarked(s))
    BY <1>1, UnmarkedIs
  <2>2. QED
    BY <2>1 DEF UnmarkedAs
<1>4. a \in CAct /\ a.th = D.cs[m].th
  BY DEF CAct
<1>5. a \in Acts /\ a.f = "C"
  BY <1>4 DEF Acts, CAct
<1>6. R = [th |-> [D.th EXCEPT ![t] = s2], cs |-> K, res |-> "ok"]
  <2> DEFINE E0 == [th |-> D.th, cs |-> K, res |-> "ok"]
             E1 == [E0 EXCEPT !.th[t].errfunc = IF y THEN o ELSE @]
             E2 == [E1 EXCEPT !.th[t].ci[n].ypcall = FALSE]
  <2>1. R = [[[D EXCEPT !.cs[m].at = "done", !.res = "ok"] EXCEPT !.th[t].errfunc = IF y THEN o ELSE @]
               EXCEPT !.th[t].ci[n].ypcall = FALSE]
    BY DEF CallDone
  <2>2. [D EXCEPT !.cs[m].at = "done", !.res = "ok"] = E0
    <3>1. [D EXCEPT !.cs[m].at = "done", !.res = "ok"] = [D EXCEPT !.cs = K, !.res = "ok"]
      OBVIOUS
    <3>2. D = [th |-> D.th, cs |-> D.cs, res |-> D.res]
      BY <1>1
    <3> HIDE DEF K, R, s2, s1, s
    <3>3. [D EXCEPT !.cs = K, !.res = "ok"] = [th |-> D.th, cs |-> K, res |-> "ok"]
      <4>1. [D EXCEPT !.cs = K] = [th |-> D.th, cs |-> K, res |-> D.res]
        BY <3>2
      <4>2. [D EXCEPT !.cs = K, !.res = "ok"] = [[D EXCEPT !.cs = K] EXCEPT !.res = "ok"]
        OBVIOUS
      <4>3. [[th |-> D.th, cs |-> K, res |-> D.res] EXCEPT !.res = "ok"] = [th |-> D.th, cs |-> K, res |-> "ok"]
        OBVIOUS
      <4>4. QED
        BY <4>1, <4>2, <4>3
    <3>4. QED
      BY <3>1, <3>3
  <2> HIDE DEF R, K
  <2>3. R = E2
    BY <2>1, <2>2
  <2>4. E1 = [th |-> [D.th EXCEPT ![t] = s1], cs |-> K, res |-> "ok"]
    BY <1>1
  <2> HIDE DEF s1, E0
  <2>5. E1.th = [D.th EXCEPT ![t] = s1] /\ E1.th[t] = s1 /\ E1.cs = K /\ E1.res = "ok"
        /\ E1 = [th |-> E1.th, cs |-> K, res |-> "ok"]
    BY <1>1, <2>4
  <2>6. E2 = [E1 EXCEPT !.th = [E1.th EXCEPT ![t] = s2]]
    <3> HIDE DEF E1
    <3>1. QED
      BY <2>5
  <2> HIDE DEF s2, E1, E2
  <2>7. [E1.th EXCEPT ![t] = s2] = [D.th EXCEPT ![t] = s2]
    BY <1>1, <2>5
  <2>8. E2 = [th |-> [D.th EXCEPT ![t] = s2], cs |-> K, res |-> "ok"]
    BY <2>5, <2>6, <2>7
  <2>9. QED
    BY <2>3, <2>8
<1>7. R \in Sts
  <2>1. K \in Seq(Acts)
    BY <1>1, <1>5
  <2>2. [D.th EXCEPT ![t] = s2] \in [Threads -> LuaState]
    <3>1. s2 \in LuaState
      BY <1>2, <1>3
    <3> HIDE DEF s2
    <3>2. QED
      BY <1>1, <3>1
  <2> HIDE DEF K, s2, R
  <2>3. QED
    BY <1>6, <2>1, <2>2 DEF Sts
<1> HIDE DEF R, s2
<1>8. QED
  BY <1>2, <1>4, <1>5, <1>6, <1>7 DEF R, DoneAs

\* CallReturns.
CallEnded(S, t) ==
    LET c == S.th[t].ci
        n == Len(c)
        D == CallLeft(S, t, S.cs[Len(S.cs)].allowyield)
    IN  IF Last(D.cs).f = "C" THEN CallDone(D, t, c[n].ypcall, c[n].olderr, n) ELSE D

\* The C function that called is on top again, or luaD_pcall or luaG_errormsg.
LEMMA CallEnds ==
    ASSUME NEW S, NEW lev, NEW t, Stands(S, lev, t), S.cs[Len(S.cs)].f = "luaD_call"
    PROVE  Fine(CallEnded(S, t))
<1> DEFINE T == S.th
           C == S.cs
           L == Len(C)
           m == L - 1
           s == T[t]
           c == s.ci
           n == Len(c)
           soft == C[L].allowyield
           w == Lefts(s, soft)
           D == CallLeft(S, t, soft)
           F == Front(C)
<1>1. Standing(S, lev, t)
  BY StandingFacts
<1>2. /\ S \in Sts /\ Typed(T, C, lev) /\ Core(T, C, lev)
      /\ L \in Nat \ {0} /\ L \in 1..L /\ t \in Threads /\ C \in Seq(Acts) /\ C # <<>>
      /\ C[L] \in Acts /\ C[L].th = t
      /\ T \in [Threads -> LuaState] /\ s \in LuaState /\ c \in Seq(Info) /\ n \in Nat
      /\ s.status = "ok" /\ CiOK(c)
      /\ s.nny = Cardinality(Calls(C, L, t)) + One(t = MainThread)
      /\ s.nCcalls = Cardinality(Nested(C, L))
      /\ (C[L].f # "unroll" => lev[L] = n)
      /\ (C[L].f \notin {"C", "unroll"} => s.errfunc = Handler(c, n))
      /\ (L = 1 => C[L].f = "C")
  BY <1>1 DEF Standing
<1>3. lev[L] = n /\ s.errfunc = Handler(c, n) /\ L # 1 /\ ~IsRun(C[L], "resume") /\ C[L] \in CallAct
  BY <1>2, ActFields DEF IsRun
<1>4. soft \in BOOLEAN
  BY <1>3 DEF CallAct
<1>5. Under(S, lev, t)
  BY <1>3, UnderFacts
<1>6. /\ m \in Nat \ {0} /\ m \in 1..L /\ m + 1 = L
      /\ C[m] \in Acts /\ C[m].th = t /\ (\A i \in m..L : C[i].th = t)
      /\ lev[m] \in Nat /\ Adj(T, C, lev, m)
      /\ F \in Seq(Acts) /\ Len(F) = m /\ F[m] = C[m] /\ (\A i \in 1..m : F[i] = C[i])
      /\ Cardinality(Nested(C, m)) \in Nat /\ Cardinality(Calls(C, m, t)) \in Nat
      /\ Nested(F, m) = Nested(C, m) /\ Calls(F, m, t) = Calls(C, m, t)
      /\ Cardinality(Nested(C, L)) = Cardinality(Nested(C, m)) + One(C[L].f = "luaD_call")
      /\ Cardinality(Calls(C, L, t)) =
              Cardinality(Calls(C, m, t)) + One(C[L].f = "luaD_call" /\ ~C[L].allowyield)
  BY <1>5, Zenon DEF Under
<1>7. /\ lev[m] = n
      /\ C[m].f \in {"C", "luaG_errormsg"} \/ IsRun(C[m], "pcall")
      /\ C[m].f = "C" /\ c[n].fn \in Prot => c[n].ypcall
  <2>1. C[m + 1].f = "luaD_call" =>
           /\ lev[m + 1] = lev[m] /\ (C[m].f \in {"C", "luaG_errormsg"} \/ IsRun(C[m], "pcall"))
           /\ C[m].f = "C" /\ T[C[m].th].ci[lev[m]].fn \in Prot => T[C[m].th].ci[lev[m]].ypcall
    BY <1>6, Zenon DEF Adj
  <2>2. QED
    BY <1>3, <1>6, <2>1
<1>8. /\ s.nCcalls = Cardinality(Nested(C, m)) + 1 /\ s.nny \in Nat
      /\ s.nny = Cardinality(Calls(C, m, t)) + One(~soft) + One(t = MainThread)
      /\ One(t = MainThread) \in Nat
  BY <1>2, <1>4, <1>6 DEF One
<1>9. LeavesAs(S, t, soft, w, D)
  <2>1. s.nCcalls >= 1 /\ (soft \/ s.nny >= 1)
    <3>1. One(~soft) = IF soft THEN 0 ELSE 1
      BY DEF One
    <3> HIDE DEF soft, m, s, C
    <3>2. QED
      BY <1>4, <1>6, <1>8, <3>1
  <2>2. QED
    BY <1>2, <1>4, <2>1, CallLeftIs
<1> HIDE DEF w, D
<1>10. /\ w \in LuaState /\ w.ci = c /\ w.status = "ok" /\ w.errfunc = Handler(c, n)
       /\ w.nCcalls = s.nCcalls - 1 /\ w.nny = IF soft THEN s.nny ELSE s.nny - 1
       /\ D = [th |-> [T EXCEPT ![t] = w], cs |-> F, res |-> S.res]
       /\ D \in Sts /\ D.th[t] = w /\ (\A u \in Threads \ {t} : D.th[u] = T[u]) /\ D.cs = F
  BY <1>2, <1>3, <1>9 DEF LeavesAs
<1>11. w.nCcalls = Cardinality(Nested(F, m)) /\ w.nny = Cardinality(Calls(F, m, t)) + One(t = MainThread)
  <2>1. One(~soft) = IF soft THEN 0 ELSE 1
    BY DEF One
  <2> HIDE DEF soft, m, s, C, F
  <2>2. QED
    BY <1>4, <1>6, <1>8, <1>10, <2>1
<1>12. m = 1 => C[m].f = "C" /\ n = 1 /\ c[1].fn = "host"
  <2>1. Bottom(T, C, lev)
    BY <1>2 DEF Core
  <2>2. /\ C[1].f = "C" /\ C[1].th = MainThread /\ lev[1] = 1 /\ T[MainThread].ci[1].fn = "host"
    BY <2>1 DEF Bottom
  <2>3. QED
    BY <1>6, <1>7, <2>2
<1>13. F # <<>> /\ Last(D.cs) = C[m]
  <2>1. F # <<>>
    BY <1>6
  <2>2. Last(F) = F[Len(F)]
    BY <2>1 DEF Last
  <2>3. QED
    BY <1>6, <1>10, <2>1, <2>2
<1>14. CASE C[m].f # "C"
  <2>1. /\ C[m].f \notin {"C", "unroll"}
    BY <1>7, <1>14 DEF IsRun
  <2> HIDE DEF m, F
  <2>2. TopOK(D.th, D.cs, lev)
    <3>1. Len(D.cs) = m /\ D.cs[m] = C[m] /\ C[m].th = t /\ D.th[t] = w /\ w.ci = c /\ Len(c) = n /\ lev[m] = n
      BY <1>6, <1>7, <1>10
    <3>2. w.nCcalls = Cardinality(Nested(D.cs, m)) /\ w.errfunc = Handler(c, n)
      BY <1>10, <1>11
    <3> HIDE DEF n, c, C, T, s
    <3>3. QED
      BY <2>1, <3>1, <3>2 DEF TopOK
  <2>3. Back(S, lev, t, D, m)
    <3>1. /\ D \in Sts /\ m \in 1..L /\ Len(D.cs) = m /\ (\A i \in 1..(m - 1) : D.cs[i] = C[i])
          /\ Alike(D.cs[m], C[m]) /\ (\A i \in m..L : C[i].th = t)
          /\ (\A u \in Threads \ {t} : D.th[u] = T[u])
      BY <1>6, <1>10 DEF Alike
    <3>2. lev[m] <= Len(D.th[t].ci) /\ (\A j \in 1..lev[m] : D.th[t].ci[j] = c[j])
      BY <1>2, <1>7, <1>10
    <3>3. m = 1 => D.th[t].ci[1].fn = "host"
      BY <1>10, <1>12
    <3>4. /\ CiOK(D.th[t].ci) /\ D.th[t].status = "ok"
          /\ D.th[t].nny = Cardinality(Calls(D.cs, m, t)) + One(t = MainThread)
      BY <1>2, <1>10, <1>11
    <3> HIDE DEF L, C, T, c, s, n
    <3>5. QED
      BY <2>2, <3>1, <3>2, <3>3, <3>4 DEF Back, L, C, T, c, s
  <2>4. Fine(D)
    BY <2>3, BackFine
  <2>5. QED
    BY <1>13, <1>14, <2>4 DEF CallEnded, D
<1>15. CASE C[m].f = "C"
  <2> DEFINE R == CallDone(D, t, c[n].ypcall, c[n].olderr, n)
             a == [D.cs[Len(D.cs)] EXCEPT !.at = "done"]
             r == UnmarkedFrame(w)
             v == Unmarked(w)
             d == v.ci
  <2>1. n \in 1..n /\ c # <<>> /\ n \in Nat \ {0}
    <3>1. Pos(T, C, lev, m)
      BY <1>5, Zenon DEF Under
    <3>2. C[m].f = "C" => lev[m] >= 1
      BY <3>1, Zenon DEF Pos
    <3>3. QED
      BY <1>2, <1>7, <1>15, <3>2
  <2>2. C[m] \in CAct
    BY <1>6, <1>15, ActFields
  <2>3. DoneAs(D, t, a, R)
    <3>1. D \in Sts /\ D.th[t].ci # <<>> /\ D.cs # <<>> /\ D.cs[Len(D.cs)] \in CAct /\ D.th[t].ci = c
      BY <1>6, <1>10, <1>13, <2>1, <2>2
    <3> HIDE DEF c, n
    <3>2. DoneAs(D, t, a, CallDone(D, t, D.th[t].ci[Len(D.th[t].ci)].ypcall, D.th[t].ci[Len(D.th[t].ci)].olderr,
                                   Len(D.th[t].ci)))
      BY <1>2, <3>1, CallDoneIs
    <3>3. QED
      BY <3>1, <3>2 DEF n
  <2> HIDE DEF a, r, v, R
  <2>4. UnmarkedAs(w, r, v)
    BY <1>10, <2>1, UnmarkedIs DEF r, v
  <2>5. /\ R = [th |-> [D.th EXCEPT ![t] = v], cs |-> [F EXCEPT ![m] = a], res |-> "ok"]
        /\ a \in Acts /\ a.f = "C" /\ a.th = t /\ R \in Sts
    BY <1>6, <1>10, <2>3 DEF DoneAs, v
  <2>6. /\ r \in Info /\ r.fn = c[n].fn /\ r.reentry = c[n].reentry /\ r.ypcall = FALSE
        /\ v \in LuaState /\ d = [c EXCEPT ![n] = r] /\ v.status = "ok"
        /\ v.nny = w.nny /\ v.nCcalls = w.nCcalls
        /\ v.errfunc = IF c[n].ypcall THEN c[n].olderr ELSE w.errfunc
    BY <1>10, <2>4 DEF UnmarkedAs
  <2>7. Reframed(c, r, d)
    <3>1. Reframed(c, r, [c EXCEPT ![Len(c)] = r])
      BY <1>2, <2>1, <2>6, CiTop
    <3>2. QED
      BY <2>6, <3>1
  <2> HIDE DEF d
  <2>8. /\ Len(d) = n /\ d[n] = r /\ CiOK(d) /\ (\A j \in 1..(n - 1) : d[j] = c[j])
        /\ Handler(d, n) = Handler(c, n) /\ Handler(d, n - 1) = Handler(c, n - 1)
    <3>1. n \in 0..n /\ n - 1 \in 0..n
      BY <2>1
    <3>2. QED
      BY <2>7, <3>1 DEF Reframed
  <2>9. v.errfunc = Handler(d, IF d[n].fn \in Prot THEN n - 1 ELSE n)
    <3>1. c[n].ypcall => c[n].fn \in Prot /\ c[n].olderr = Handler(c, n - 1)
      BY <1>2, <2>1 DEF CiOK, Prot
    <3>2. c[n].ypcall <=> c[n].fn \in Prot
      BY <1>7, <1>15, <3>1
    <3>3. d[n].fn = c[n].fn
      BY <2>6, <2>8
    <3> HIDE DEF n
    <3>4. QED
      BY <1>10, <2>6, <2>8, <3>1, <3>2, <3>3
  <2> HIDE DEF m, F
  <2>10. /\ R.cs = [F EXCEPT ![m] = a] /\ Len(R.cs) = m /\ R.cs[m] = a /\ (\A i \in 1..(m - 1) : R.cs[i] = C[i])
         /\ R.th[t] = v /\ \A u \in Threads \ {t} : R.th[u] = T[u]
    <3>1. R.cs = [F EXCEPT ![m] = a] /\ R.th = [D.th EXCEPT ![t] = v]
      BY <2>5
    <3>2. D.th \in [Threads -> LuaState]
      BY <1>10 DEF Sts
    <3>3. R.th[t] = v /\ \A u \in Threads \ {t} : R.th[u] = T[u]
      BY <1>2, <1>10, <3>1, <3>2
    <3>4. Len(R.cs) = m /\ R.cs[m] = a /\ \A i \in 1..(m - 1) : R.cs[i] = C[i]
      BY <1>6, <2>5, <3>1
    <3>5. QED
      BY <3>1, <3>3, <3>4
  <2>11. Nested(R.cs, m) = Nested(F, m) /\ Calls(R.cs, m, t) = Calls(F, m, t)
    <3>1. \A i \in 1..m : i \in 1..(m - 1) \/ i = m
      BY <1>6
    <3>2. m \in Nat /\ \A i \in 1..m : Alike(R.cs[i], F[i])
      BY <1>6, <1>15, <2>5, <2>10, <3>1 DEF Alike
    <3>3. Nested(R.cs, m) = Nested(F, m) /\ \A x : Calls(R.cs, m, x) = Calls(F, m, x)
      BY <3>2, CountsSame
    <3>4. QED
      BY <3>3
  <2>12. TopOK(R.th, R.cs, lev)
    <3>1. v.nCcalls = Cardinality(Nested(R.cs, m))
      BY <1>11, <2>6, <2>11
    <3>2. Len(R.cs) = m /\ R.cs[m] = a /\ a.th = t /\ a.f = "C" /\ R.th[t] = v /\ v.ci = d /\ Len(d) = n /\ lev[m] = n
      BY <1>7, <2>5, <2>8, <2>10 DEF d
    <3> HIDE DEF n
    <3>3. QED
      BY <2>9, <3>1, <3>2 DEF TopOK
  <2>13. Back(S, lev, t, R, m)
    <3>1. /\ R \in Sts /\ m \in 1..L /\ Len(R.cs) = m /\ (\A i \in 1..(m - 1) : R.cs[i] = C[i])
          /\ Alike(R.cs[m], C[m]) /\ (\A i \in m..L : C[i].th = t)
          /\ (\A u \in Threads \ {t} : R.th[u] = T[u])
      BY <1>6, <1>15, <2>5, <2>10 DEF Alike
    <3>2. /\ lev[m] <= Len(R.th[t].ci)
          /\ \A j \in 1..lev[m] : (C[m].f = "C" /\ j = lev[m]) \/ R.th[t].ci[j] = c[j]
      <4>1. \A j \in 1..n : j = n \/ j \in 1..(n - 1)
        BY <2>1
      <4>2. R.th[t].ci = d /\ n <= n
        BY <2>1, <2>10 DEF d
      <4>3. QED
        BY <1>7, <1>15, <2>8, <4>1, <4>2
    <3>3. m = 1 => R.th[t].ci[1].fn = "host"
      BY <1>12, <2>6, <2>8, <2>10 DEF d
    <3>4. /\ CiOK(R.th[t].ci) /\ R.th[t].status = "ok"
          /\ R.th[t].nny = Cardinality(Calls(R.cs, m, t)) + One(t = MainThread)
      BY <1>11, <2>6, <2>8, <2>10, <2>11 DEF d
    <3> HIDE DEF L, C, T, c, s, n
    <3>5. QED
      BY <2>12, <3>1, <3>2, <3>3, <3>4 DEF Back, L, C, T, c, s
  <2>14. Fine(R)
    BY <2>13, BackFine
  <2>15. QED
    BY <1>13, <1>15, <2>14 DEF CallEnded, D, R
<1>16. QED
  BY <1>14, <1>15

\* A sequence whose last two elements are replaced by one.
LEMMA FrontTwo ==
    ASSUME NEW C \in Seq(Acts), Len(C) > 1, NEW a \in Acts
    PROVE  /\ Front(Front(C)) \in Seq(Acts) /\ Last(Front(C)) = C[Len(C) - 1]
           /\ Append(Front(Front(C)), a) \in Seq(Acts) /\ Len(Append(Front(Front(C)), a)) = Len(C) - 1
           /\ Append(Front(Front(C)), a)[Len(C) - 1] = a
           /\ \A j \in 1..(Len(C) - 2) : Append(Front(Front(C)), a)[j] = C[j]
<1>1. Len(C) \in 2..Len(C)
  OBVIOUS
<1>2. SubSeq(C, 1, Len(C)) = C
  OBVIOUS
<1> DEFINE i == Len(C)
<1> HIDE DEF i
<1>3. LET D == SubSeq(C, 1, i)
          E == Append(Front(Front(D)), a)
      IN  /\ Front(D) \in Seq(Acts) /\ Len(Front(D)) = i - 1 /\ Last(Front(D)) = C[i - 1]
          /\ E \in Seq(Acts) /\ Len(E) = i - 1 /\ E[i - 1] = a
          /\ \A j \in 1..(i - 2) : E[j] = C[j]
  <2>1. i \in 2..Len(C)
    BY <1>1 DEF i
  <2>2. QED
    BY <2>1, FrontFront
<1>4. /\ Front(C) \in Seq(Acts) /\ Len(Front(C)) = Len(C) - 1 /\ Last(Front(C)) = C[Len(C) - 1]
      /\ Append(Front(Front(C)), a) \in Seq(Acts) /\ Len(Append(Front(Front(C)), a)) = Len(C) - 1
      /\ Append(Front(Front(C)), a)[Len(C) - 1] = a
      /\ \A j \in 1..(Len(C) - 2) : Append(Front(Front(C)), a)[j] = C[j]
  BY <1>2, <1>3 DEF i
<1>5. Front(C) # <<>>
  BY <1>4
<1>6. Front(Front(C)) \in Seq(Acts)
  BY <1>4, <1>5, FrontProperties
<1>7. QED
  BY <1>4, <1>6

\* luaD_pcall has ended without an error.
PcallDone(S, t, run) ==
    [S EXCEPT !.th[t].errfunc = run.errfunc, !.res = "ok",
              !.cs = Append(Front(Front(S.cs)), Body(t, "done"))]

DoneRun(S, t, run, C2, R) ==
    LET s == S.th[t]
        v == R.th[t]
    IN  /\ R \in Sts /\ R.cs = C2 /\ \A u \in Threads \ {t} : R.th[u] = S.th[u]
        /\ v.ci = s.ci /\ v.status = s.status /\ v.nny = s.nny /\ v.nCcalls = s.nCcalls
        /\ v.errfunc = run.errfunc

\* Only the handler of the thread changes.
LEMMA PcallDoneIs ==
    ASSUME NEW S \in Sts, NEW t \in Threads, NEW run \in RunAct,
           Append(Front(Front(S.cs)), Body(t, "done")) \in Seq(Acts)
    PROVE  DoneRun(S, t, run, Append(Front(Front(S.cs)), Body(t, "done")), PcallDone(S, t, run))
<1> DEFINE s == S.th[t]
           v == [s EXCEPT !.errfunc = run.errfunc]
           C2 == Append(Front(Front(S.cs)), Body(t, "done"))
           T2 == [S.th EXCEPT ![t] = v]
           R == PcallDone(S, t, run)
<1>1. s \in LuaState /\ S.th \in [Threads -> LuaState] /\ S = [th |-> S.th, cs |-> S.cs, res |-> S.res]
  BY DEF Sts
<1>2. /\ v \in LuaState /\ v.ci = s.ci /\ v.status = s.status /\ v.nny = s.nny /\ v.nCcalls = s.nCcalls
      /\ v.errfunc = run.errfunc
  <2>1. run.errfunc \in Nat
    BY DEF RunAct
  <2>2. QED
    BY <1>1, <2>1 DEF LuaState
<1>3. R = [S EXCEPT !.th = T2, !.res = "ok", !.cs = C2]
  BY DEF PcallDone
<1> HIDE DEF v, C2
<1>4. T2 \in [Threads -> LuaState] /\ T2[t] = v /\ \A u \in Threads \ {t} : T2[u] = S.th[u]
  BY <1>1, <1>2
<1> HIDE DEF T2, R
<1>5. R = [th |-> T2, cs |-> C2, res |-> "ok"]
  <2>1. S = [th |-> S.th, cs |-> S.cs, res |-> S.res]
    BY <1>1
  <2>2. [S EXCEPT !.th = T2] = [th |-> T2, cs |-> S.cs, res |-> S.res]
    BY <2>1
  <2>3. R = [[[S EXCEPT !.th = T2] EXCEPT !.res = "ok"] EXCEPT !.cs = C2]
    BY <1>3
  <2>4. [[th |-> T2, cs |-> S.cs, res |-> S.res] EXCEPT !.res = "ok"] = [th |-> T2, cs |-> S.cs, res |-> "ok"]
    OBVIOUS
  <2>5. [[th |-> T2, cs |-> S.cs, res |-> "ok"] EXCEPT !.cs = C2] = [th |-> T2, cs |-> C2, res |-> "ok"]
    OBVIOUS
  <2>6. QED
    BY <2>2, <2>3, <2>4, <2>5
<1>6. R \in Sts /\ R.th = T2 /\ R.cs = C2
  BY <1>4, <1>5 DEF Sts, C2
<1>7. QED
  BY <1>2, <1>4, <1>6 DEF DoneRun, R, C2

\* RunReturns.
RunEnded(S, t) ==
    LET run == S.cs[Len(S.cs)]
    IN  IF run.of = "pcall" THEN PcallDone(S, t, run) ELSE lua_resume_ends(S, t, run, "ok")

\* The end of luaD_rawrunprotected without an error.
LEMMA RunEnds ==
    ASSUME NEW S, NEW lev, NEW t, Stands(S, lev, t), S.cs[Len(S.cs)].f = "run"
    PROVE  Fine(RunEnded(S, t))
<1> DEFINE T == S.th
           C == S.cs
           L == Len(C)
           m == L - 1
           s == T[t]
           c == s.ci
           n == Len(c)
           run == C[L]
<1>1. Standing(S, lev, t)
  BY StandingFacts
<1>2. /\ S \in Sts /\ Typed(T, C, lev) /\ Core(T, C, lev)
      /\ L \in Nat \ {0} /\ L \in 1..L /\ t \in Threads /\ C \in Seq(Acts) /\ C # <<>>
      /\ C[L] \in Acts /\ C[L].th = t
      /\ T \in [Threads -> LuaState] /\ s \in LuaState /\ c \in Seq(Info) /\ n \in Nat
      /\ s.status = "ok" /\ CiOK(c)
      /\ s.nny = Cardinality(Calls(C, L, t)) + One(t = MainThread)
      /\ s.nCcalls = Cardinality(Nested(C, L))
      /\ (C[L].f # "unroll" => lev[L] = n)
      /\ (C[L].f \notin {"C", "unroll"} => s.errfunc = Handler(c, n))
      /\ (L = 1 => C[L].f = "C")
  BY <1>1 DEF Standing
<1>3. lev[L] = n /\ s.errfunc = Handler(c, n) /\ L # 1 /\ run \in RunAct
  BY <1>2, ActFields
<1>4. m \in 1..L /\ m \in 1..(L - 1) /\ m \in Nat \ {0} /\ m + 1 = L /\ L > 1 /\ L \in 2..L
  <2>1. L # 1
    BY <1>3
  <2> HIDE DEF L
  <2>2. QED
    BY <1>2, <2>1
<1>5. Pos(T, C, lev, L) /\ Adj(T, C, lev, m)
  BY <1>2, <1>4 DEF Core
<1>6. /\ IsRun(run, "pcall") => /\ n >= 1 /\ run.ci = n /\ run.errfunc = Handler(c, n - 1)
                                /\ run.nny = s.nny
      /\ IsRun(run, "resume") => t # MainThread /\ n = 0 /\ run.nny = 1
      /\ run.nCcalls = s.nCcalls
  <2>1. /\ IsRun(C[L], "pcall") =>
              /\ lev[L] >= 1 /\ C[L].ci = lev[L] /\ C[L].errfunc = Handler(T[C[L].th].ci, lev[L] - 1)
              /\ C[L].nny = Cardinality(Calls(C, L, C[L].th)) + One(C[L].th = MainThread)
        /\ IsRun(C[L], "resume") => C[L].th # MainThread /\ lev[L] = 0 /\ C[L].nny = 1
        /\ C[L].f = "run" => C[L].nCcalls = Cardinality(Nested(C, L))
    BY <1>5, Zenon DEF Pos
  <2>2. QED
    BY <1>2, <1>3, <2>1
<1>7. CASE run.of = "pcall"
  <2> DEFINE C2 == Append(Front(Front(C)), Body(t, "done"))
             R == PcallDone(S, t, run)
  <2>1. Body(t, "done") \in Acts /\ IsRun(run, "pcall")
    BY <1>2, <1>7 DEF Body, Acts, CAct, IsRun
  <2>2. C2 \in Seq(Acts) /\ Len(C2) = L - 1 /\ C2[L - 1] = Body(t, "done") /\ \A j \in 1..(L - 2) : C2[j] = C[j]
    <3> HIDE DEF C
    <3>1. QED
      BY <1>2, <1>4, <2>1, FrontTwo
  <2>3. DoneRun(S, t, run, C2, R)
    BY <1>2, <1>3, <2>2, PcallDoneIs
  <2> HIDE DEF R, C2
  <2>4. /\ R \in Sts /\ R.cs = C2 /\ R.th \in [Threads -> LuaState] /\ (\A u \in Threads \ {t} : R.th[u] = T[u])
        /\ R.th[t].ci = c /\ R.th[t].status = "ok" /\ R.th[t].nny = s.nny /\ R.th[t].nCcalls = s.nCcalls
        /\ R.th[t].errfunc = run.errfunc
    BY <1>2, <2>3 DEF DoneRun, Sts
  <2>5. PcallEnded(T, C, R.th, C2, L)
    <3>1. \A j \in L..L : C[j].th = t
      <4>1. \A j \in L..L : j = L
        BY <1>2
      <4>2. QED
        BY <1>2, <4>1
    <3>2. Len(R.th[t].ci) = C[L].ci /\ \A j \in 1..C[L].ci : R.th[t].ci[j] = c[j]
      BY <1>6, <2>1, <2>4
    <3>3. QED
      BY <1>2, <1>4, <1>6, <2>1, <2>2, <2>4, <3>1, <3>2 DEF PcallEnded
  <2>6. Good(R.th, R.cs)
    BY <1>2, <2>4, <2>5, PcallEnds
  <2>7. Fine(R)
    BY <2>4, <2>6 DEF Fine
  <2>8. QED
    BY <1>7, <2>7 DEF RunEnded, R
<1>8. CASE run.of # "pcall"
  <2> DEFINE R == lua_resume_ends(S, t, run, "ok")
  <2>1. IsRun(run, "resume")
    BY <1>3, <1>8 DEF RunAct, IsRun
  <2>2. C[m].f = "C" /\ C[m] \in CAct
    <3>1. IsRun(C[m + 1], "resume") => C[m].f = "C"
      BY <1>5, Zenon DEF Adj
    <3>2. C[m] \in Acts
      BY <1>2, <1>4
    <3>3. QED
      BY <1>4, <2>1, <3>1, <3>2, ActFields
  <2>3. s.nCcalls >= 1
    <3>1. Cardinality(Nested(C, m)) \in Nat /\ Cardinality(Nested(C, m + 1)) = Cardinality(Nested(C, m)) + 1
      <4>1. m \in Nat /\ IsRun(C[m + 1], "resume")
        BY <1>4, <2>1
      <4> HIDE DEF m
      <4>2. QED
        BY <4>1, NestedStep
    <3>2. QED
      BY <1>2, <1>4, <3>1
  <2>4. Last(Front(C)) = C[m] /\ Front(Front(C)) \in Seq(Acts)
        /\ \A a \in Acts : LET C2 == Append(Front(Front(C)), a)
                           IN C2 \in Seq(Acts) /\ Len(C2) = m /\ C2[m] = a /\ \A j \in 1..(m - 1) : C2[j] = C[j]
    <3>1. L - 2 = m - 1
      OBVIOUS
    <3>2. C[m] \in Acts
      BY <1>2, <1>4
    <3> HIDE DEF C
    <3>3. ASSUME NEW a \in Acts
          PROVE  LET C2 == Append(Front(Front(C)), a)
                 IN C2 \in Seq(Acts) /\ Len(C2) = m /\ C2[m] = a /\ \A j \in 1..(m - 1) : C2[j] = C[j]
      <4>1. Len(C) > 1
        BY <1>4
      <4> DEFINE C2 == Append(Front(Front(C)), a)
      <4>2. C2 \in Seq(Acts) /\ Len(C2) = L - 1 /\ C2[L - 1] = a /\ \A j \in 1..(L - 2) : C2[j] = C[j]
        BY <1>2, <4>1, FrontTwo
      <4> HIDE DEF C2
      <4>3. QED
        BY <3>1, <4>2 DEF C2
    <3>4. Last(Front(C)) = C[m] /\ Front(Front(C)) \in Seq(Acts)
      BY <1>2, <1>4, <3>2, FrontTwo
    <3>5. QED
      BY <3>3, <3>4
  <2>5. ResumeEnded(S, t, run, R)
    <3>1. Last(Front(C)) \in CAct /\ "ok" \in {"ok", "err", "errerr"}
      BY <2>2, <2>4
    <3>2. QED
      BY <1>2, <1>3, <2>3, <2>4, <3>1, ResumeEndsIs
  <2> DEFINE a == [Last(Front(S.cs)) EXCEPT !.at = "done"]
  <2> HIDE DEF R, a
  <2>6. /\ R \in Sts /\ (\A u \in Threads \ {t} : R.th[u] = T[u]) /\ R.th \in [Threads -> LuaState]
        /\ R.cs = Append(Front(Front(C)), a) /\ a \in Acts /\ a.f = "C" /\ a.th = C[m].th
        /\ R.th[t].ci = c /\ R.th[t].status = "ok" /\ R.th[t].errfunc = s.errfunc /\ R.th[t].nny = 1
    BY <1>2, <1>6, <2>1, <2>4, <2>5 DEF ResumeEnded, a, Sts
  <2>7. Handler(c, n) = 0 /\ c = <<>>
    <3>1. n = 0 /\ \A i : i \notin 1..n
      BY <1>6, <2>1
    <3>2. {i \in 1..n : c[i].fn \in Prot} = {}
      BY <3>1
    <3>3. QED
      BY <1>2, <3>1, <3>2 DEF Handler
  <2>8. Resting(R.th[t])
    BY <1>2, <1>3, <2>6, <2>7 DEF Resting
  <2>9. Suspends(T, C, R.th, R.cs, m)
    <3>1. R.cs \in Seq(Acts) /\ Len(R.cs) = m /\ R.cs[m] = a /\ \A j \in 1..(m - 1) : R.cs[j] = C[j]
      BY <2>4, <2>6
    <3>2. Alike(R.cs[m], C[m])
      BY <2>2, <2>6, <3>1 DEF Alike
    <3>3. QED
      BY <1>2, <1>4, <2>1, <2>6, <2>8, <3>1, <3>2 DEF Suspends
  <2>10. Good(R.th, R.cs)
    <3> HIDE DEF m, T, C
    <3>1. QED
      BY <1>2, <2>9, ResumeEnds
  <2>11. Fine(R)
    BY <2>6, <2>10 DEF Fine
  <2>12. QED
    BY <1>8, <2>11 DEF RunEnded, R
<1>9. QED
  BY <1>7, <1>8

\* What unroll stands on.
AtUnroll(S, lev, t) ==
    LET C == S.cs
        L == Len(C)
        c == S.th[t].ci
        n == Len(c)
    IN  /\ n \in Nat /\ L > 1 /\ L \in 1..L /\ t # MainThread /\ lev[L] = 0
        /\ IsRun(C[L - 1], "resume")
        /\ Calls(C, L, t) = {} /\ (\A j \in 1..L : C[j].th = t => ~IsRun(C[j], "pcall"))
        /\ C[L] \in UnrollAct /\ (\A j \in 1..n : Soft(c[j]))
        /\ C[L].ud # "yield" => n >= 1 /\ c[n].ypcall
        /\ S.th[t].errfunc = Handler(c, IF C[L].ud = "yield" THEN n ELSE n - 1)

\* The invariant says so.
LEMMA AtUnrollFacts ==
    ASSUME NEW S, NEW lev, NEW t, Stands(S, lev, t), S.cs[Len(S.cs)].f = "unroll"
    PROVE  AtUnroll(S, lev, t)
<1> DEFINE T == S.th
           C == S.cs
           L == Len(C)
           c == T[t].ci
           n == Len(c)
<1>1. Standing(S, lev, t)
  BY StandingFacts
<1>2. /\ L \in Nat \ {0} /\ L \in 1..L /\ C[L] \in Acts /\ C[L].th = t /\ n \in Nat
      /\ (L = 1 => C[L].f = "C")
  BY <1>1 DEF Standing
<1>3. C[L] \in UnrollAct
  BY <1>2, ActFields
<1>4. Based(C, lev, t, L)
  <2>1. UnrollsAt(C, t, L)
    BY <1>2 DEF UnrollsAt
  <2>2. QED
    BY <2>1, UnrollBase
<1>5. /\ \A j \in 1..n : Soft(c[j])
      /\ C[L].ud # "yield" => n >= 1 /\ c[n].ypcall
      /\ T[t].errfunc = Handler(c, IF C[L].ud = "yield" THEN n ELSE n - 1)
  <2>1. TopOK(T, C, lev)
    BY DEF Stands
  <2>2. C[L].f = "unroll" =>
              /\ \A j \in 1..Len(T[C[L].th].ci) : Soft(T[C[L].th].ci[j])
              /\ C[L].ud # "yield" => Len(T[C[L].th].ci) >= 1 /\ T[C[L].th].ci[Len(T[C[L].th].ci)].ypcall
              /\ T[C[L].th].errfunc =
                    Handler(T[C[L].th].ci, IF C[L].ud = "yield" THEN Len(T[C[L].th].ci) ELSE Len(T[C[L].th].ci) - 1)
    BY <2>1, Zenon DEF TopOK
  <2>3. QED
    BY <1>2, <2>2
<1>6. L > 1
  <2>1. L # 1
    BY <1>2
  <2> HIDE DEF L
  <2>2. QED
    BY <1>2, <2>1
<1>7. QED
  BY <1>2, <1>3, <1>4, <1>5, <1>6 DEF AtUnroll, Based

\* All frames of the coroutine have been completed.
LEMMA UnrollEnds ==
    ASSUME NEW S, NEW lev, NEW t, Stands(S, lev, t), S.cs[Len(S.cs)].f = "unroll", S.th[t].ci = <<>>
    PROVE  Fine(Pop(S))
<1> DEFINE T == S.th
           C == S.cs
           L == Len(C)
           m == L - 1
           s == T[t]
           F == Front(C)
           R == Pop(S)
<1>1. Standing(S, lev, t) /\ AtUnroll(S, lev, t)
  BY StandingFacts, AtUnrollFacts
<1>2. /\ S \in Sts /\ Typed(T, C, lev) /\ Core(T, C, lev) /\ C # <<>> /\ L \in Nat \ {0}
      /\ s.status = "ok" /\ CiOK(s.ci)
      /\ s.nny = Cardinality(Calls(C, L, t)) + One(t = MainThread)
      /\ s.nCcalls = Cardinality(Nested(C, L))
  BY <1>1 DEF Standing
<1>3. /\ L > 1 /\ t # MainThread /\ lev[L] = 0 /\ IsRun(C[m], "resume")
      /\ C[L].ud = "yield" /\ s.errfunc = Handler(s.ci, 0)
  <2>1. Len(s.ci) = 0
    OBVIOUS
  <2>2. QED
    BY <1>1, <2>1 DEF AtUnroll
<1>4. Popped(S, R)
  BY <1>2, PopIs
<1> HIDE DEF R
<1>5. R \in Sts /\ R.th = T /\ R.cs = F
  BY <1>4 DEF Popped
<1>6. Under(S, lev, t)
  <2>1. L # 1 /\ ~IsRun(C[L], "resume")
    BY <1>2, <1>3 DEF IsRun
  <2>2. QED
    BY <2>1, UnderFacts
<1>7. /\ m \in Nat \ {0} /\ m \in 1..L /\ m + 1 = L
      /\ C[m].th = t /\ (\A i \in m..L : C[i].th = t)
      /\ lev[m] \in Nat /\ lev[m] <= lev[L]
      /\ F \in Seq(Acts) /\ Len(F) = m /\ F[m] = C[m] /\ (\A i \in 1..m : F[i] = C[i])
      /\ Cardinality(Nested(C, m)) \in Nat /\ Cardinality(Calls(C, m, t)) \in Nat
      /\ Nested(F, m) = Nested(C, m) /\ Calls(F, m, t) = Calls(C, m, t)
      /\ Cardinality(Nested(C, L)) = Cardinality(Nested(C, m)) + One(C[L].f = "luaD_call")
      /\ Cardinality(Calls(C, L, t)) =
              Cardinality(Calls(C, m, t)) + One(C[L].f = "luaD_call" /\ ~C[L].allowyield)
  BY <1>6, Zenon DEF Under
<1>8. lev[m] = 0
  <2> HIDE DEF m
  <2>1. QED
    BY <1>3, <1>7
<1>9. /\ Cardinality(Nested(C, L)) = Cardinality(Nested(F, m))
      /\ Cardinality(Calls(C, L, t)) = Cardinality(Calls(F, m, t))
  <2>1. One(C[L].f = "luaD_call") = 0 /\ One(C[L].f = "luaD_call" /\ ~C[L].allowyield) = 0
    BY DEF One
  <2> HIDE DEF m
  <2>2. QED
    BY <1>7, <2>1
<1>10. m # 1
  <2>1. Bottom(T, C, lev)
    BY <1>2 DEF Core
  <2>2. C[1].th = MainThread
    BY <2>1 DEF Bottom
  <2>3. QED
    BY <1>3, <1>7, <2>2
<1> HIDE DEF m, F
<1>11. TopOK(R.th, R.cs, lev)
  <2>1. C[m].f = "run"
    BY <1>3 DEF IsRun
  <2>2. Len(R.cs) = m /\ R.cs[m] = C[m] /\ C[m].th = t /\ R.th[t] = s /\ Len(s.ci) = 0 /\ lev[m] = 0
    BY <1>5, <1>7, <1>8
  <2>3. s.nCcalls = Cardinality(Nested(R.cs, m)) /\ s.errfunc = Handler(s.ci, 0)
    BY <1>2, <1>3, <1>5, <1>9
  <2> HIDE DEF s, T, C
  <2>4. QED
    BY <2>1, <2>2, <2>3 DEF TopOK
<1>12. Back(S, lev, t, R, m)
  <2>1. /\ R \in Sts /\ m \in 1..L /\ Len(R.cs) = m /\ (\A i \in 1..(m - 1) : R.cs[i] = C[i])
        /\ Alike(R.cs[m], C[m]) /\ (\A i \in m..L : C[i].th = t)
        /\ (\A u \in Threads \ {t} : R.th[u] = T[u])
    BY <1>5, <1>7 DEF Alike
  <2>2. lev[m] <= Len(R.th[t].ci) /\ (\A j \in 1..lev[m] : FALSE)
    BY <1>5, <1>8
  <2>3. /\ CiOK(R.th[t].ci) /\ R.th[t].status = "ok"
        /\ R.th[t].nny = Cardinality(Calls(R.cs, m, t)) + One(t = MainThread)
    BY <1>2, <1>5, <1>9
  <2> HIDE DEF L, C, T, s
  <2>4. QED
    BY <1>10, <1>11, <2>1, <2>2, <2>3 DEF Back, L, C, T, s
<1>13. QED
  BY <1>12, BackFine DEF R

\* The Lua function that is on top goes on.
LEMMA UnrollExecs ==
    ASSUME NEW S, NEW lev, NEW t, Stands(S, lev, t), S.cs[Len(S.cs)].f = "unroll",
           S.th[t].ci # <<>>, IsLua(S.th[t].ci[Len(S.th[t].ci)].fn)
    PROVE  Fine(Push(S, Exec(t)))
<1> DEFINE T == S.th
           C == S.cs
           L == Len(C)
           s == T[t]
           c == s.ci
           n == Len(c)
           a == Exec(t)
           C2 == Append(C, a)
           lev2 == LevelsOf(C, lev, n)
<1>1. Standing(S, lev, t) /\ AtUnroll(S, lev, t)
  BY StandingFacts, AtUnrollFacts
<1>2. /\ S \in Sts /\ Typed(T, C, lev) /\ Core(T, C, lev) /\ C \in Seq(Acts) /\ C # <<>> /\ L \in Nat \ {0}
      /\ t \in Threads /\ C[L].th = t /\ T \in [Threads -> LuaState] /\ c \in Seq(Info)
      /\ s.status = "ok" /\ CiOK(c)
      /\ s.nny = Cardinality(Calls(C, L, t)) + One(t = MainThread)
      /\ s.nCcalls = Cardinality(Nested(C, L))
  BY <1>1 DEF Standing
<1>3. /\ n \in Nat /\ L > 1 /\ t # MainThread /\ lev[L] = 0
      /\ (\A j \in 1..L : C[j].th = t => ~IsRun(C[j], "pcall"))
      /\ (\A j \in 1..n : Soft(c[j]))
      /\ C[L].ud # "yield" => n >= 1 /\ c[n].ypcall
      /\ s.errfunc = Handler(c, IF C[L].ud = "yield" THEN n ELSE n - 1)
  BY <1>1 DEF AtUnroll
<1>4. n >= 1 /\ n \in 1..n
  BY <1>2
<1>5. ~c[n].ypcall /\ C[L].ud = "yield" /\ s.errfunc = Handler(c, n)
  <2>1. c[n].ypcall => c[n].fn \in {"pcall", "xpcall"}
    BY <1>2, <1>4 DEF CiOK
  <2>2. ~c[n].ypcall
    BY <2>1 DEF IsLua
  <2>3. QED
    BY <1>3, <2>2
<1>6. a \in Acts /\ a.th = t /\ a.f = "luaV_execute" /\ \A of : ~IsRun(a, of)
  BY <1>2 DEF Exec, Acts, ExecAct, IsRun
<1> HIDE DEF a
<1>7. Grown(C, lev, C2, lev2, a, n)
  BY <1>2, <1>3, <1>6, Growing
<1> HIDE DEF C2, lev2
<1>8. /\ Len(C2) = L + 1 /\ C2[L + 1] = a /\ C2 \in Seq(Acts) /\ C2 = Append(C, a)
      /\ (\A i \in 1..L : C2[i] = C[i] /\ lev2[i] = lev[i])
      /\ C2[L] = C[L] /\ lev2[L] = lev[L] /\ lev2[L + 1] = n
      /\ Cardinality(Nested(C, L)) \in Nat /\ Cardinality(Calls(C, L, t)) \in Nat
      /\ Cardinality(Nested(C2, L + 1)) =
              Cardinality(Nested(C, L)) + One(a.f = "luaD_call" \/ IsRun(a, "resume"))
      /\ Cardinality(Calls(C2, L + 1, t)) =
            Cardinality(Calls(C, L, t)) + One(a.f = "luaD_call" /\ ~a.allowyield)
  <2>1. Grew(C, lev, C2, lev2, a, n)
    BY <1>2, <1>7, GrownFacts
  <2>2. QED
    BY <1>2, <2>1, Zenon DEF Grew
<1>9. /\ Cardinality(Nested(C2, L + 1)) = Cardinality(Nested(C, L))
      /\ Cardinality(Calls(C2, L + 1, t)) = Cardinality(Calls(C, L, t))
  BY <1>6, <1>8 DEF One
<1>10. lev2 = [i \in 1..(L + 1) |-> IF i = L + 1 THEN n ELSE lev[i]]
  BY <1>7, Zenon DEF Grown
<1> HIDE DEF L, n, c, s, T
<1>11. Pos(T, C2, lev2, L + 1)
  <2>1. C2[L + 1] = a /\ a.th = t /\ T[t].ci = c /\ lev2[L + 1] = n /\ n <= Len(c) /\ n >= 1 /\ IsLua(c[n].fn)
    BY <1>3, <1>4, <1>6, <1>8 DEF n, c, s, T
  <2>2. \A j \in 1..(n - 1) : Soft(c[j])
    BY <1>3
  <2>3. \A j \in 1..(L + 1) : C2[j].th = t => ~IsRun(C2[j], "pcall")
    <3>1. \A j \in 1..(L + 1) : j \in 1..L \/ j = L + 1
      BY <1>2
    <3>2. QED
      BY <1>3, <1>6, <1>8, <3>1
  <2>4. QED
    BY <1>6, <2>1, <2>2, <2>3 DEF Pos
<1>12. Adj(T, C2, lev2, L)
  <2>1. C[L].f = "unroll" /\ ~IsRun(C[L], "pcall")
    BY DEF L, IsRun
  <2>2. C2[L] = C[L] /\ C[L].th = t /\ C2[L + 1] = a /\ a.th = t
    BY <1>2, <1>6, <1>8
  <2>3. QED
    BY <1>5, <1>6, <2>1, <2>2 DEF Adj
<1>13. Enters(T, C, lev, T, C2, lev2, a, n)
  <2>1. /\ C2 = Append(C, a) /\ a \in Acts /\ a.th = C[Len(C)].th /\ n \in Nat
        /\ lev2 = [i \in 1..(Len(C) + 1) |-> IF i = Len(C) + 1 THEN n ELSE lev[i]]
        /\ C[Len(C)].th = t /\ Len(C) > 1
    BY <1>2, <1>3, <1>6, <1>8, <1>10 DEF L
  <2>2. /\ \A j \in 1..lev[Len(C)] : T[t].ci[j] = T[t].ci[j]
        /\ lev[Len(C)] <= n /\ n <= Len(T[t].ci) /\ ~IsRun(a, "resume")
    BY <1>3, <1>6 DEF L, n, c, s
  <2>3. /\ Pos(T, C2, lev2, Len(C) + 1) /\ Adj(T, C2, lev2, Len(C))
        /\ CiOK(T[t].ci) /\ T[t].status = "ok"
        /\ T[t].nny = Cardinality(Calls(C2, Len(C) + 1, t)) + One(t = MainThread)
    BY <1>2, <1>9, <1>11, <1>12 DEF L, c, s
  <2>4. QED
    BY <1>2, <2>1, <2>2, <2>3, Zenon DEF Enters
<1>14. Typed(T, C2, lev2) /\ Core(T, C2, lev2)
  BY <1>2, <1>13, Pushed
<1>15. TopOK(T, C2, lev2)
  <2>1. Len(C2) = L + 1 /\ C2[L + 1] = a /\ a.th = t /\ T[t].ci = c /\ Len(c) = n /\ lev2[L + 1] = n
    BY <1>6, <1>8 DEF n, c, s, T
  <2>2. T[t].nCcalls = Cardinality(Nested(C2, L + 1)) /\ T[t].errfunc = Handler(c, n)
    BY <1>2, <1>5, <1>9 DEF s
  <2>3. QED
    BY <1>6, <2>1, <2>2 DEF TopOK
<1>16. Push(S, a) = [th |-> T, cs |-> C2, res |-> S.res] /\ S.res \in {"ok", "err", "errerr"}
  <2>1. S = [th |-> S.th, cs |-> S.cs, res |-> S.res] /\ S.res \in {"ok", "err", "errerr"}
    BY <1>2 DEF Sts
  <2>2. Push(S, a) = [S EXCEPT !.cs = C2]
    BY <1>8 DEF Push, C
  <2>3. QED
    BY <2>1, <2>2 DEF T
<1>17. Push(S, a) \in Sts /\ Push(S, a).th = T /\ Push(S, a).cs = C2
  BY <1>2, <1>8, <1>16 DEF Sts
<1>18. Fine(Push(S, a))
  BY <1>14, <1>15, <1>17 DEF Fine, Good
<1>19. QED
  BY <1>18 DEF a

\* finishCcall after unroll took note of the error that interrupted the function.
Finished(S, t) == finishCcall([S EXCEPT !.cs[Len(S.cs)].ud = "yield"], t)

\* What that makes of the thread.
FinishedState(s) ==
    [s EXCEPT !.errfunc = IF s.ci[Len(s.ci)].ypcall THEN s.ci[Len(s.ci)].olderr ELSE s.errfunc,
              !.ci = Front(s.ci)]

\* All of it.
FinishedAs(S, t, w, a, R) ==
    LET s == S.th[t]
        c == s.ci
    IN  /\ w \in LuaState /\ Shorter(c, w.ci) /\ w.status = s.status /\ w.nny = s.nny /\ w.nCcalls = s.nCcalls
        /\ w.errfunc = IF c[Len(c)].ypcall THEN c[Len(c)].olderr ELSE s.errfunc
        /\ a \in Acts /\ a.f = "unroll" /\ a.th = S.cs[Len(S.cs)].th /\ a.ud = "yield"
        /\ R = [th |-> [S.th EXCEPT ![t] = w], cs |-> [S.cs EXCEPT ![Len(S.cs)] = a], res |-> S.res]
        /\ R \in Sts /\ R.th[t] = w /\ \A u \in Threads \ {t} : R.th[u] = S.th[u]

\* The assignments of finishCcall, as a record.
LEMMA FinishedIs ==
    ASSUME NEW S \in Sts, NEW t \in Threads, S.cs # <<>>, S.cs[Len(S.cs)] \in UnrollAct,
           S.th[t].ci # <<>>, CiOK(S.th[t].ci)
    PROVE  FinishedAs(S, t, FinishedState(S.th[t]), [S.cs[Len(S.cs)] EXCEPT !.ud = "yield"], Finished(S, t))
<1> DEFINE s == S.th[t]
           c == s.ci
           n == Len(c)
           L == Len(S.cs)
           a == [S.cs[L] EXCEPT !.ud = "yield"]
           K == [S.cs EXCEPT ![L] = a]
           N == [S EXCEPT !.cs[L].ud = "yield"]
           w == FinishedState(s)
           e == IF c[n].ypcall THEN c[n].olderr ELSE s.errfunc
           T2 == [S.th EXCEPT ![t] = w]
           R == Finished(S, t)
<1>1. /\ s \in LuaState /\ S.th \in [Threads -> LuaState] /\ S = [th |-> S.th, cs |-> S.cs, res |-> S.res]
      /\ S.cs \in Seq(Acts) /\ S.res \in {"ok", "err", "errerr"}
  BY DEF Sts
<1>2. c \in Seq(Info) /\ n \in 1..n /\ c[n] \in Info /\ s.errfunc \in Nat
  <2>1. c \in Seq(Info) /\ s.errfunc \in Nat
    BY <1>1, StateFields
  <2>2. QED
    BY <2>1
<1>3. e \in Nat
  BY <1>2 DEF Info
<1>4. Shorter(c, Front(c)) /\ Front(c) \in Seq(Info)
  <2>1. Shorter(c, Front(c))
    BY <1>2, CiFront
  <2>2. QED
    BY <2>1 DEF Shorter
<1>5. /\ w \in LuaState /\ w.ci = Front(c) /\ w.status = s.status /\ w.nny = s.nny /\ w.nCcalls = s.nCcalls
      /\ w.errfunc = e
  <2>1. w = [s EXCEPT !.errfunc = e, !.ci = Front(c)]
    BY DEF FinishedState
  <2> HIDE DEF w, e, c
  <2>2. QED
    BY <1>1, <1>3, <1>4, <2>1 DEF LuaState
<1>6. a \in Acts /\ a.f = "unroll" /\ a.th = S.cs[L].th /\ a.ud = "yield"
  BY DEF Acts, UnrollAct
<1>7. K \in Seq(Acts)
  BY <1>1, <1>6
<1>8. N = [th |-> S.th, cs |-> K, res |-> S.res]
  <2>1. N = [S EXCEPT !.cs = K]
    OBVIOUS
  <2> HIDE DEF K, N
  <2>2. QED
    BY <1>1, <2>1
<1> HIDE DEF K, a, N
<1>9. N.th = S.th /\ N.cs = K /\ N.res = S.res
  BY <1>8
<1>10. T2 \in [Threads -> LuaState] /\ T2[t] = w /\ \A u \in Threads \ {t} : T2[u] = S.th[u]
  <2> HIDE DEF w
  <2>1. QED
    BY <1>1, <1>5
<1>11. R = [th |-> T2, cs |-> K, res |-> S.res]
  <2> DEFINE E == IF c[n].ypcall THEN [N EXCEPT !.th[t].errfunc = c[n].olderr] ELSE N
             s1 == [s EXCEPT !.errfunc = e]
  <2>1. R = luaD_poscall(E, t)
    BY <1>9 DEF Finished, finishCcall, N
  <2>2. s1 \in LuaState /\ s1.ci = c /\ w = [s1 EXCEPT !.ci = Front(c)]
    <3>1. s1 \in LuaState /\ s1.ci = c
      <4> HIDE DEF e, c
      <4>1. s1.ci = s.ci
        BY <1>1 DEF LuaState
      <4>2. QED
        BY <1>1, <1>3, <4>1 DEF LuaState, c
    <3>2. w = [s1 EXCEPT !.ci = Front(c)]
      BY DEF FinishedState
    <3>3. QED
      BY <3>1, <3>2
  <2>3. E = [th |-> [S.th EXCEPT ![t] = s1], cs |-> K, res |-> S.res]
    <3>1. CASE c[n].ypcall
      <4>1. E = [N EXCEPT !.th[t].errfunc = c[n].olderr]
        BY <3>1
      <4>2. s1 = [s EXCEPT !.errfunc = c[n].olderr]
        BY <3>1
      <4> DEFINE o == c[n].olderr
      <4> HIDE DEF s1, E, o
      <4>3. [N EXCEPT !.th[t].errfunc = o] = [N EXCEPT !.th = [N.th EXCEPT ![t] = [N.th[t] EXCEPT !.errfunc = o]]]
        OBVIOUS
      <4>4. [N.th EXCEPT ![t] = [N.th[t] EXCEPT !.errfunc = o]] = [S.th EXCEPT ![t] = s1]
        BY <1>9, <4>2 DEF o
      <4> DEFINE Z == [S.th EXCEPT ![t] = s1]
      <4>5. E = [N EXCEPT !.th = Z]
        BY <4>1, <4>3, <4>4 DEF o
      <4> HIDE DEF Z
      <4>6. E = [th |-> Z, cs |-> K, res |-> S.res]
        BY <1>8, <4>5
      <4>7. QED
        BY <4>6 DEF Z
    <3>2. CASE ~c[n].ypcall
      <4>1. E = N /\ e = s.errfunc
        BY <3>2
      <4>2. s1 = s
        <5> HIDE DEF e, s
        <5>1. QED
          BY <1>1, <4>1 DEF LuaState
      <4> HIDE DEF s1, E
      <4>3. [S.th EXCEPT ![t] = s1] = S.th
        BY <1>1, <4>2
      <4>4. QED
        BY <1>8, <4>1, <4>3
    <3>3. QED
      BY <3>1, <3>2
  <2> HIDE DEF s1, E, R, w
  <2>4. luaD_poscall(E, t) = [E EXCEPT !.th = [E.th EXCEPT ![t] = [E.th[t] EXCEPT !.ci = Front(E.th[t].ci)]]]
    BY DEF luaD_poscall
  <2>5. E.th = [S.th EXCEPT ![t] = s1] /\ E.th[t] = s1 /\ E = [th |-> E.th, cs |-> K, res |-> S.res]
    BY <1>1, <2>3
  <2>6. [E.th EXCEPT ![t] = [E.th[t] EXCEPT !.ci = Front(E.th[t].ci)]] = T2
    <3>1. [E.th[t] EXCEPT !.ci = Front(E.th[t].ci)] = w
      BY <2>2, <2>5
    <3>2. [E.th EXCEPT ![t] = w] = T2
      BY <1>1, <2>5
    <3>3. QED
      BY <3>1, <3>2
  <2>7. R = [E EXCEPT !.th = T2]
    BY <2>1, <2>4, <2>6
  <2> HIDE DEF T2
  <2>8. QED
    BY <2>5, <2>7
<1> HIDE DEF R, T2, w, e
<1>12. R \in Sts /\ R.th = T2
  BY <1>1, <1>7, <1>10, <1>11 DEF Sts
<1>13. QED
  BY <1>4, <1>5, <1>6, <1>10, <1>11, <1>12 DEF FinishedAs, w, e, R, T2, K, a

\* unroll completes a C function.
LEMMA UnrollFinishes ==
    ASSUME NEW S, NEW lev, NEW t, Stands(S, lev, t), S.cs[Len(S.cs)].f = "unroll",
           S.th[t].ci # <<>>, ~IsLua(S.th[t].ci[Len(S.th[t].ci)].fn)
    PROVE  Fine(Finished(S, t))
<1> DEFINE T == S.th
           C == S.cs
           L == Len(C)
           s == T[t]
           c == s.ci
           n == Len(c)
           w == FinishedState(s)
           d == w.ci
           a == [C[L] EXCEPT !.ud = "yield"]
           R == Finished(S, t)
<1>1. Standing(S, lev, t) /\ AtUnroll(S, lev, t)
  BY StandingFacts, AtUnrollFacts
<1>2. /\ S \in Sts /\ Typed(T, C, lev) /\ Core(T, C, lev) /\ C \in Seq(Acts) /\ C # <<>> /\ L \in Nat \ {0}
      /\ t \in Threads /\ C[L].th = t /\ T \in [Threads -> LuaState] /\ c \in Seq(Info) /\ L \in 1..L
      /\ s.status = "ok" /\ CiOK(c)
      /\ s.nny = Cardinality(Calls(C, L, t)) + One(t = MainThread)
      /\ s.nCcalls = Cardinality(Nested(C, L))
  BY <1>1 DEF Standing
<1>3. /\ n \in Nat /\ L > 1 /\ t # MainThread /\ lev[L] = 0
      /\ (\A j \in 1..n : Soft(c[j])) /\ C[L] \in UnrollAct
      /\ C[L].ud # "yield" => n >= 1 /\ c[n].ypcall
      /\ s.errfunc = Handler(c, IF C[L].ud = "yield" THEN n ELSE n - 1)
  BY <1>1 DEF AtUnroll
<1>4. n >= 1 /\ n \in 1..n
  BY <1>2
<1>5. FinishedAs(S, t, w, a, R)
  BY <1>2, <1>3, FinishedIs
<1> HIDE DEF w, a, R
<1>6. /\ w \in LuaState /\ Shorter(c, d) /\ w.status = "ok" /\ w.nny = s.nny /\ w.nCcalls = s.nCcalls
      /\ w.errfunc = IF c[n].ypcall THEN c[n].olderr ELSE s.errfunc
      /\ a \in Acts /\ a.f = "unroll" /\ a.th = t /\ a.ud = "yield"
      /\ R.cs = [C EXCEPT ![L] = a]
      /\ R \in Sts /\ R.th[t] = w /\ \A u \in Threads \ {t} : R.th[u] = T[u]
  BY <1>2, <1>5 DEF FinishedAs
<1> HIDE DEF d
<1>7. /\ d \in Seq(Info) /\ Len(d) = n - 1 /\ CiOK(d) /\ (\A j \in 1..(n - 1) : d[j] = c[j])
      /\ Handler(d, n - 1) = Handler(c, n - 1)
      /\ Handler(c, n) = IF c[n].fn = "xpcall" THEN n
                         ELSE IF c[n].fn \in Prot THEN 0 ELSE Handler(c, n - 1)
  BY <1>6 DEF Shorter
<1>8. w.errfunc = Handler(d, n - 1)
  <2>1. CASE c[n].ypcall
    <3>1. c[n].olderr = Handler(c, n - 1)
      BY <1>2, <1>4, <2>1 DEF CiOK
    <3>2. QED
      BY <1>6, <1>7, <2>1, <3>1
  <2>2. CASE ~c[n].ypcall
    <3>1. C[L].ud = "yield"
      BY <1>3, <2>2
    <3>2. c[n].fn \notin Prot /\ c[n].fn # "xpcall"
      BY <1>3, <1>4, <2>2 DEF Soft, Prot
    <3>3. QED
      BY <1>3, <1>6, <1>7, <2>2, <3>1, <3>2
  <2>3. QED
    BY <2>1, <2>2
<1> HIDE DEF L
<1>9. Len(R.cs) = L /\ R.cs[L] = a /\ \A i \in 1..(L - 1) : R.cs[i] = C[i]
  BY <1>2, <1>6 DEF L
<1>10. Alike(R.cs[L], C[L])
  BY <1>2, <1>6, <1>9 DEF Alike, L
<1>11. Nested(R.cs, L) = Nested(C, L) /\ Calls(R.cs, L, t) = Calls(C, L, t)
  <2>1. \A i \in 1..L : i \in 1..(L - 1) \/ i = L
    BY <1>2
  <2>2. L \in Nat /\ \A i \in 1..L : Alike(R.cs[i], C[i])
    BY <1>2, <1>9, <1>10, <2>1 DEF Alike
  <2>3. Nested(R.cs, L) = Nested(C, L) /\ \A x : Calls(R.cs, L, x) = Calls(C, L, x)
    BY <2>2, CountsSame
  <2>4. QED
    BY <2>3
<1> HIDE DEF n, C, s, c
<1>12. TopOK(R.th, R.cs, lev)
  <2>1. Len(R.cs) = L /\ R.cs[L] = a /\ a.th = t /\ R.th[t] = w /\ w.ci = d /\ Len(d) = n - 1
    BY <1>6, <1>7, <1>9 DEF d
  <2>2. w.nCcalls = Cardinality(Nested(R.cs, L))
    BY <1>2, <1>6, <1>11
  <2>3. \A j \in 1..(n - 1) : Soft(d[j])
    BY <1>3, <1>7
  <2>4. QED
    BY <1>6, <1>8, <2>1, <2>2, <2>3 DEF TopOK
<1>13. Back(S, lev, t, R, L)
  <2>1. /\ R \in Sts /\ L \in 1..L /\ Len(R.cs) = L /\ (\A i \in 1..(L - 1) : R.cs[i] = C[i])
        /\ (\A i \in L..L : C[i].th = t)
        /\ (\A u \in Threads \ {t} : R.th[u] = T[u]) /\ L # 1
    <3>1. \A i \in L..L : i = L
      BY <1>2
    <3>2. L # 1
      BY <1>3
    <3>3. QED
      BY <1>2, <1>6, <1>9, <3>1, <3>2
  <2>2. lev[L] <= Len(R.th[t].ci) /\ (\A j \in 1..lev[L] : FALSE)
    <3>1. R.th[t].ci = d
      BY <1>6 DEF d
    <3>2. QED
      BY <1>3, <1>4, <1>7, <3>1
  <2>3. /\ CiOK(R.th[t].ci) /\ R.th[t].status = "ok"
        /\ R.th[t].nny = Cardinality(Calls(R.cs, L, t)) + One(t = MainThread)
    BY <1>2, <1>6, <1>7, <1>11 DEF d
  <2> HIDE DEF T
  <2>4. QED
    BY <1>10, <1>12, <2>1, <2>2, <2>3 DEF Back, L, C, T, c, s
<1>14. QED
  BY <1>13, BackFine DEF R

\* The C function on top resumes t, a thread with no activations, which goes on
\* in the state s; r is the run of lua_resume.
Resumer(T, C, lev) ==
    LET L == Len(C)
        p == T[C[L].th]
    IN  /\ C[L].f = "C" /\ lev[L] = Len(p.ci) /\ p.ci[lev[L]].fn \notin Prot
        /\ p.nCcalls = Cardinality(Nested(C, L)) /\ p.errfunc = Handler(p.ci, lev[L])

Restarts(T, C, lev, t, s, r) ==
    /\ Resumer(T, C, lev)
    /\ t \in Threads \ ActiveIn(C) /\ t # MainThread
    /\ s \in LuaState /\ s.status = "ok" /\ s.nny = 0 /\ CiOK(s.ci)
    /\ r \in RunAct /\ IsRun(r, "resume") /\ r.th = t /\ r.nny = 1
    /\ r.nCcalls = Cardinality(Nested(C, Len(C))) + 1

\* The run of lua_resume is entered.
LEMMA PushedRun ==
    ASSUME NEW T, NEW C, NEW lev, Typed(T, C, lev), Core(T, C, lev),
           NEW t, NEW s, NEW r, Restarts(T, C, lev, t, s, r)
    PROVE  /\ Typed([T EXCEPT ![t] = s], Append(C, r), LevelsOf(C, lev, 0))
           /\ Core([T EXCEPT ![t] = s], Append(C, r), LevelsOf(C, lev, 0))
<1> DEFINE L == Len(C)
           p == C[L].th
           T2 == [T EXCEPT ![t] = s]
           C2 == Append(C, r)
           lev2 == LevelsOf(C, lev, 0)
<1>1. /\ Resumer(T, C, lev)
      /\ t \in Threads \ ActiveIn(C) /\ t # MainThread
      /\ s \in LuaState /\ s.status = "ok" /\ s.nny = 0 /\ CiOK(s.ci)
      /\ r \in RunAct /\ IsRun(r, "resume") /\ r.th = t /\ r.nny = 1
      /\ r.nCcalls = Cardinality(Nested(C, L)) + 1
  BY Zenon DEF Restarts
<1>2. /\ T \in [Threads -> LuaState] /\ C \in Seq(Acts) /\ C # <<>> /\ L \in Nat \ {0}
      /\ \A i \in 1..L : C[i] \in Acts /\ lev[i] \in Nat /\ C[i].th \in Threads
  BY TypedFacts
<1>3. /\ \A i \in 1..L : Pos(T, C, lev, i)
      /\ \A i \in 1..(L - 1) : Adj(T, C, lev, i)
      /\ Order(C, lev) /\ Protected(C) /\ Bottom(T, C, lev)
      /\ \A u \in Threads : ThOK(T, C, u)
  BY DEF Core
<1>4. T2 \in [Threads -> LuaState] /\ T2[t] = s /\ \A u \in Threads \ {t} : T2[u] = T[u]
  BY <1>1, <1>2
<1>5. r \in Acts /\ r.f = "run"
  BY <1>1 DEF Acts, IsRun
<1>6. C2 \in Seq(Acts) /\ C2 # <<>> /\ Len(C2) = L + 1 /\ C2[L + 1] = r /\ \A i \in 1..L : C2[i] = C[i]
  BY <1>2, <1>5
<1>7. \A i \in 1..L : C[i].th # t
  BY <1>1 DEF ActiveIn
<1>8. /\ lev2 \in [1..(L + 1) -> Nat] /\ lev2[L + 1] = 0 /\ \A i \in 1..L : lev2[i] = lev[i]
  <2> HIDE DEF L
  <2>1. lev2 = [i \in 1..(L + 1) |-> IF i = L + 1 THEN 0 ELSE lev[i]]
    BY DEF LevelsOf, L
  <2>2. /\ \A i \in 1..(L + 1) : i = L + 1 \/ i \in 1..L
        /\ \A i \in 1..L : i # L + 1 /\ i \in 1..(L + 1)
        /\ L + 1 \in 1..(L + 1)
    BY <1>2
  <2> HIDE DEF lev2
  <2>3. QED
    BY <1>2, <2>1, <2>2
<1> HIDE DEF T2, C2, lev2, L
<1>9. Typed(T2, C2, lev2)
  BY <1>4, <1>6, <1>8 DEF Typed
<1>10. ASSUME NEW i \in 1..L
       PROVE  /\ C[i].th \in Threads \ {t} /\ T2[C[i].th] = T[C[i].th]
              /\ i \in Nat \ {0} /\ lev[i] \in Nat /\ lev2[i] = lev[i] /\ Pos(T, C, lev, i)
              /\ \A j \in 1..i : Alike(C2[j], C[j])
              /\ lev[i] <= Len(T2[C[i].th].ci)
  <2>1. C[i].th \in Threads \ {t} /\ T2[C[i].th] = T[C[i].th] /\ Pos(T, C, lev, i)
    BY <1>2, <1>3, <1>4, <1>7
  <2>2. lev[i] <= Len(T[C[i].th].ci)
    BY <2>1, Zenon DEF Pos
  <2>3. \A j \in 1..i : j \in 1..L
    BY <1>2
  <2>4. \A j \in 1..i : Alike(C2[j], C[j])
    BY <1>6, <2>3 DEF Alike
  <2>5. QED
    BY <1>2, <1>8, <2>1, <2>2, <2>4
<1>11. ASSUME NEW i \in 1..L PROVE Pos(T2, C2, lev2, i)
  <2>1. Pos(T, C, lev, i) /\ PosSame(T, C, lev, T2, C2, lev2, i)
    BY <1>10 DEF PosSame
  <2>2. QED
    BY <2>1, PosFrame
<1>12. ASSUME NEW i \in 1..(L - 1) PROVE Adj(T2, C2, lev2, i)
  <2>1. i \in 1..L /\ i + 1 \in 1..L /\ Adj(T, C, lev, i)
    BY <1>2, <1>3
  <2>2. C[i].f = "unroll" => C2[i] = C[i]
    BY <1>6, <2>1
  <2>3. C[i].f = "C" => lev[i] >= 1
    <3>1. Pos(T, C, lev, i)
      BY <1>3, <2>1
    <3>2. QED
      BY <3>1, Zenon DEF Pos
  <2>4. AdjSame(T, C, lev, T2, C2, lev2, i)
    BY <1>10, <2>1, <2>2, <2>3 DEF AdjSame
  <2>5. QED
    BY <2>1, <2>4, AdjFrame
<1>13. Nested(C2, L) = Nested(C, L) /\ (\A x : Calls(C2, L, x) = Calls(C, L, x))
       /\ Cardinality(Nested(C2, L + 1)) = Cardinality(Nested(C, L)) + 1
       /\ Cardinality(Nested(C, L)) \in Nat
  <2>1. L \in Nat /\ L \in 1..L
    BY <1>2
  <2>2. \A i \in 1..L : Alike(C2[i], C[i])
    BY <1>6 DEF Alike
  <2>3. Nested(C2, L) = Nested(C, L) /\ (\A x : Calls(C2, L, x) = Calls(C, L, x))
    BY <2>1, <2>2, CountsSame
  <2>4. /\ Cardinality(Nested(C2, L)) \in Nat
        /\ Cardinality(Nested(C2, L + 1)) =
                 IF C2[L + 1].f = "luaD_call" \/ IsRun(C2[L + 1], "resume")
                 THEN Cardinality(Nested(C2, L)) + 1 ELSE Cardinality(Nested(C2, L))
    BY <2>1, NestedStep
  <2>5. QED
    BY <1>1, <1>6, <2>3, <2>4
<1>14. ~IsRun(r, "pcall") /\ r.f \notin {"C", "luaV_execute", "unroll", "luaD_call", "luaG_errormsg"}
  BY <1>1, <1>5 DEF IsRun
<1>15. Pos(T2, C2, lev2, L + 1)
  <2>1. C2[L + 1] = r /\ r.th = t /\ lev2[L + 1] = 0 /\ T2[t].ci = s.ci /\ 0 <= Len(s.ci)
    <3>1. Len(s.ci) \in Nat
      BY <1>1, StateFields
    <3>2. QED
      BY <1>1, <1>4, <1>6, <1>8, <3>1
  <2>2. \A j \in 1..(0 - 1) : Soft(s.ci[j])
    OBVIOUS
  <2>3. r.nCcalls = Cardinality(Nested(C2, L + 1))
    BY <1>1, <1>13 DEF L
  <2>4. QED
    BY <1>1, <1>14, <2>1, <2>2, <2>3 DEF Pos
<1>16. Adj(T2, C2, lev2, L)
  <2>1. L \in 1..L
    BY <1>2
  <2>2. C2[L + 1] = r /\ C2[L] = C[L] /\ lev2[L] = lev[L] /\ T2[p] = T[p] /\ C[L].th = p
    BY <1>6, <1>8, <1>10, <2>1 DEF p
  <2>3. /\ C[L].f = "C" /\ lev[L] = Len(T[p].ci) /\ T[p].ci[lev[L]].fn \notin Prot
        /\ T[p].nCcalls = Cardinality(Nested(C, L)) /\ T[p].errfunc = Handler(T[p].ci, lev[L])
    BY <1>1, Zenon DEF Resumer, L, p
  <2>4. ~IsRun(C[L], "pcall")
    BY <2>3 DEF IsRun
  <2> HIDE DEF p
  <2>5. QED
    BY <1>1, <1>13, <1>14, <2>2, <2>3, <2>4 DEF Adj
<1>17. Order(C2, lev2)
  <2>1. SUFFICES ASSUME NEW i \in 1..(L + 1), NEW j \in 1..(L + 1), i < j, C2[i].th = C2[j].th
                 PROVE  /\ lev2[i] <= lev2[j] /\ ~IsRun(C2[j], "resume")
                        /\ \A l \in i..j : C2[l].th = C2[i].th
    BY <1>6 DEF Order
  <2>2. i \in 1..L /\ C2[i] = C[i] /\ C2[i].th # t
    BY <1>2, <1>6, <1>7, <2>1
  <2>3. j \in 1..L
    <3>1. j # L + 1
      BY <1>1, <1>6, <2>1, <2>2
    <3>2. QED
      BY <1>2, <3>1
  <2>4. \A l \in i..j : l \in 1..L
    BY <1>2, <2>3
  <2>5. /\ lev[i] <= lev[j] /\ ~IsRun(C[j], "resume")
        /\ \A l \in i..j : C[l].th = C[i].th
    BY <1>3, <1>6, <2>1, <2>2, <2>3 DEF Order, L
  <2>6. QED
    BY <1>6, <1>8, <2>2, <2>3, <2>4, <2>5
<1>18. Protected(C2)
  <2>1. SUFFICES ASSUME NEW i \in 2..(L + 1)
                 PROVE  \E j \in 2..i : C2[j].f = "run" /\ C2[j].th = C2[i].th
    BY <1>6 DEF Protected
  <2>2. CASE i = L + 1
    BY <1>2, <1>5, <1>6, <2>2
  <2>3. CASE i # L + 1
    <3>1. i \in 2..L /\ i \in 1..L
      BY <1>2, <2>3
    <3>2. PICK j \in 2..i : C[j].f = "run" /\ C[j].th = C[i].th
      BY <1>3, <3>1 DEF Protected, L
    <3>3. j \in 1..L
      BY <1>2, <3>1
    <3>4. QED
      BY <1>6, <3>1, <3>2, <3>3
  <2>4. QED
    BY <2>2, <2>3
<1>19. Bottom(T2, C2, lev2)
  <2>1. 1 \in 1..L
    BY <1>2
  <2>2. C[1].f = "C" /\ C[1].th = MainThread /\ lev[1] = 1 /\ T[MainThread].ci[1].fn = "host"
    BY <1>3 DEF Bottom
  <2>3. C2[1] = C[1] /\ lev2[1] = lev[1] /\ T2[MainThread] = T[MainThread]
    BY <1>6, <1>8, <1>10, <2>1, <2>2
  <2>4. QED
    BY <2>2, <2>3 DEF Bottom
<1>20. ASSUME NEW u \in Threads PROVE ThOK(T2, C2, u)
  <2>1. Calls(C2, L + 1, u) = Calls(C2, L, u) /\ Calls(C2, L, u) = Calls(C, L, u)
    <3>1. L \in Nat /\ C2[L + 1].f # "luaD_call"
      BY <1>2, <1>6, <1>14
    <3>2. Calls(C2, L + 1, u) =
                 IF C2[L + 1].th = u /\ C2[L + 1].f = "luaD_call" /\ ~C2[L + 1].allowyield
                 THEN Calls(C2, L, u) \cup {L + 1} ELSE Calls(C2, L, u)
      BY <3>1, CallsStep
    <3>3. QED
      BY <1>13, <3>1, <3>2
  <2>2. CASE u = t
    <3>1. t \in ActiveIn(C2)
      <4>1. L + 1 \in 1..Len(C2) /\ C2[L + 1].th = t
        BY <1>1, <1>2, <1>6
      <4>2. QED
        BY <4>1 DEF ActiveIn
    <3>2. Calls(C2, Len(C2), t) = {}
      <4>1. Calls(C, L, t) = {}
        BY <1>7 DEF Calls
      <4>2. QED
        BY <1>6, <2>1, <2>2, <4>1
    <3>3. T2[t].nny = Cardinality(Calls(C2, Len(C2), t)) + One(t = MainThread)
      <4>1. Cardinality({}) = 0
        BY FS_EmptySet
      <4>2. One(t = MainThread) = 0
        BY <1>1 DEF One
      <4>3. QED
        BY <1>1, <1>4, <3>2, <4>1, <4>2
    <3>4. QED
      BY <1>1, <1>4, <2>2, <3>1, <3>3, Zenon DEF ThOK
  <2>3. CASE u # t
    <3>1. T2[u] = T[u] /\ ThOK(T, C, u)
      BY <1>3, <1>4, <2>3
    <3>2. u \in ActiveIn(C2) <=> u \in ActiveIn(C)
      <4>1. u \in ActiveIn(C2) <=> \E i \in 1..(L + 1) : C2[i].th = u
        BY <1>6 DEF ActiveIn
      <4>2. u \in ActiveIn(C) <=> \E i \in 1..L : C[i].th = u
        BY DEF ActiveIn, L
      <4>3. (\A i \in 1..(L + 1) : i \in 1..L \/ i = L + 1) /\ (\A i \in 1..L : i \in 1..(L + 1))
        BY <1>2
      <4>4. C2[L + 1].th # u
        BY <1>1, <1>6, <2>3
      <4>5. QED
        BY <1>6, <4>1, <4>2, <4>3, <4>4
    <3>3. Calls(C2, Len(C2), u) = Calls(C, Len(C), u)
      BY <1>6, <2>1 DEF L
    <3>4. QED
      BY <3>1, <3>2, <3>3, Zenon DEF ThOK
  <2>4. QED
    BY <2>2, <2>3
<1>21. Core(T2, C2, lev2)
  <2>1. \A i \in 1..Len(C2) : Pos(T2, C2, lev2, i)
    <3>1. \A i \in 1..(L + 1) : i \in 1..L \/ i = L + 1
      BY <1>2
    <3>2. QED
      BY <1>6, <1>11, <1>15, <3>1
  <2>2. \A i \in 1..(Len(C2) - 1) : Adj(T2, C2, lev2, i)
    <3>1. \A i \in 1..L : i \in 1..(L - 1) \/ i = L
      BY <1>2
    <3>2. Len(C2) - 1 = L
      BY <1>2, <1>6
    <3>3. QED
      BY <1>12, <1>16, <3>1, <3>2
  <2>3. QED
    BY <1>17, <1>18, <1>19, <1>20, <2>1, <2>2 DEF Core
<1>22. QED
  BY <1>9, <1>21 DEF T2, C2, lev2

\* A sequence whose last element is replaced.
LEMMA NewLast ==
    ASSUME NEW A, NEW c \in Seq(A), c # <<>>, NEW y \in A
    PROVE  /\ [c EXCEPT ![Len(c)] = y] = Append(Front(c), y)
           /\ Front(Append(c, y)) = c /\ Last(Append(c, y)) = y /\ Last(c) = c[Len(c)]
<1> DEFINE n == Len(c)
           u == [c EXCEPT ![n] = y]
           v == Append(Front(c), y)
           w == Append(c, y)
<1>1. n \in Nat \ {0} /\ Front(c) \in Seq(A) /\ Len(Front(c)) = n - 1
      /\ \A i \in 1..(n - 1) : Front(c)[i] = c[i]
  BY FrontProperties
<1>2. u \in Seq(A) /\ Len(u) = n /\ u[n] = y /\ \A i \in 1..n : i # n => u[i] = c[i]
  OBVIOUS
<1>3. v \in Seq(A) /\ Len(v) = n - 1 + 1 /\ v[n - 1 + 1] = y /\ \A i \in 1..(n - 1) : v[i] = Front(c)[i]
  BY <1>1
<1>4. n - 1 + 1 = n /\ \A i \in 1..n : i # n => i \in 1..(n - 1)
  BY <1>1
<1> HIDE DEF u, v
<1>5. Len(v) = n /\ \A i \in 1..n : u[i] = v[i]
  BY <1>1, <1>2, <1>3, <1>4
<1>6. u = v
  BY <1>2, <1>3, <1>5, SeqEqual
<1>7. w \in Seq(A) /\ Len(w) = n + 1 /\ w # <<>> /\ w[n + 1] = y /\ \A i \in 1..n : w[i] = c[i]
  OBVIOUS
<1> HIDE DEF w
<1>8. Front(w) \in Seq(A) /\ Len(Front(w)) = n + 1 - 1 /\ \A i \in 1..(n + 1 - 1) : Front(w)[i] = w[i]
  BY <1>7, FrontProperties
<1>9. Front(w) = c
  <2>1. n + 1 - 1 = n
    BY <1>1
  <2>2. QED
    BY <1>7, <1>8, <2>1, SeqEqual
<1>10. Last(w) = y /\ Last(c) = c[n]
  BY <1>7 DEF Last
<1>11. QED
  BY <1>6, <1>9, <1>10 DEF u, v, w

\* The call of resume has failed, or the coroutine was dead.
LEMMA NoResume ==
    ASSUME NEW S, NEW lev, NEW t, Stands(S, lev, t), S.cs[Len(S.cs)].f = "C"
    PROVE  Fine([S EXCEPT !.cs[Len(S.cs)].at = "done", !.res = "err"])
<1> DEFINE M == Marked(S, "done")
           R == [S EXCEPT !.cs[Len(S.cs)].at = "done", !.res = "err"]
<1>1. Marking(S, "done", lev, t, M)
  BY MarkKeeps
<1>2. M \in Sts /\ Good(M.th, M.cs)
  BY <1>1 DEF Marking, Stands, Good
<1>3. R = [M EXCEPT !.res = "err"]
  BY DEF Marked
<1> HIDE DEF M, R
<1>4. M = [th |-> M.th, cs |-> M.cs, res |-> M.res] /\ M.th \in [Threads -> LuaState] /\ M.cs \in Seq(Acts)
  BY <1>2 DEF Sts
<1>5. R = [th |-> M.th, cs |-> M.cs, res |-> "err"]
  BY <1>3, <1>4
<1>6. Fine(R)
  BY <1>2, <1>4, <1>5 DEF Fine, Sts
<1>7. QED
  BY <1>6 DEF R

\* A thread that has activations below those of the thread running is at a call
\* of resume, with that function's frame on top.
LEMMA Inactive ==
    ASSUME NEW S, NEW lev, NEW from, Stands(S, lev, from),
           NEW t, t # from, S.th[t].ci = <<>> \/ S.th[t].status # "ok"
    PROVE  t \notin ActiveIn(S.cs)
<1> DEFINE T == S.th
           C == S.cs
           L == Len(C)
           I == {i \in 1..L : C[i].th = t}
<1>1. Standing(S, lev, from)
  BY StandingFacts
<1>2. Typed(T, C, lev) /\ Core(T, C, lev) /\ L \in Nat \ {0} /\ L \in 1..L /\ C[L].th = from
  BY <1>1 DEF Standing
<1>3. SUFFICES ASSUME t \in ActiveIn(C) PROVE FALSE
  OBVIOUS
<1>4. I # {} /\ I \in SUBSET (1..L) /\ t \in Threads
  <2>1. PICK i \in 1..L : C[i].th = t
    BY <1>3 DEF ActiveIn
  <2>2. C[i].th \in Threads
    BY <1>2, TypedFacts
  <2>3. QED
    BY <2>1, <2>2
<1>5. ThOK(T, C, t) /\ T[t].status = "ok"
  <2>1. ThOK(T, C, t)
    BY <1>2, <1>4 DEF Core
  <2>2. QED
    BY <1>3, <2>1, Zenon DEF ThOK
<1>6. PICK m \in I : \A k \in I : k <= m
  <2>1. L \in Nat
    BY <1>2
  <2> HIDE DEF I, L
  <2>2. QED
    BY <1>4, <2>1, Greatest DEF L
<1>7. m \in 1..L /\ C[m].th = t /\ m # L
  BY <1>2, <1>6
<1> HIDE DEF L
<1>8. m \in 1..(L - 1) /\ m + 1 \in 1..L
  BY <1>2, <1>7
<1>9. C[m + 1].th # t
  <2>1. ~(m + 1 <= m)
    BY <1>8
  <2>2. m + 1 \notin I
    BY <1>6, <2>1
  <2>3. QED
    BY <1>8, <2>2
<1>10. Adj(T, C, lev, m) /\ Pos(T, C, lev, m)
  BY <1>2, <1>7, <1>8 DEF Core, L
<1>11. C[m].f = "C" /\ lev[m] = Len(T[C[m].th].ci)
  BY <1>7, <1>9, <1>10, Zenon DEF Adj
<1>12. lev[m] >= 1
  BY <1>10, <1>11, Zenon DEF Pos
<1>13. T[t].ci # <<>>
  <2>1. Len(T[t].ci) >= 1
    BY <1>7, <1>11, <1>12
  <2>2. Len(<<>>) = 0
    OBVIOUS
  <2>3. QED
    BY <2>1, <2>2
<1>14. QED
  BY <1>5, <1>13

\* The depth that a thread without activations noted does not matter.
LEMMA IdleKeeps ==
    ASSUME NEW S, NEW lev, NEW from, Stands(S, lev, from),
           NEW t \in Threads, t \notin ActiveIn(S.cs), NEW k \in Nat
    PROVE  Stands([S EXCEPT !.th[t].nCcalls = k], lev, from)
<1> DEFINE T == S.th
           C == S.cs
           L == Len(C)
           s == [T[t] EXCEPT !.nCcalls = k]
           T2 == [T EXCEPT ![t] = s]
           R == [S EXCEPT !.th[t].nCcalls = k]
<1>1. Standing(S, lev, from)
  BY StandingFacts
<1>2. /\ S \in Sts /\ Typed(T, C, lev) /\ Core(T, C, lev) /\ L \in Nat \ {0} /\ L \in 1..L /\ C[L].th = from
      /\ TopOK(T, C, lev) /\ from = C[L].th
  BY <1>1 DEF Standing, Stands
<1>3. T \in [Threads -> LuaState] /\ T[t] \in LuaState /\ S = [th |-> T, cs |-> C, res |-> S.res]
  BY <1>2 DEF Sts
<1>4. s \in LuaState /\ s.ci = T[t].ci /\ s.status = T[t].status /\ s.nny = T[t].nny /\ s.errfunc = T[t].errfunc
  BY <1>3 DEF LuaState
<1>5. T2 \in [Threads -> LuaState] /\ T2[t] = s /\ \A u \in Threads \ {t} : T2[u] = T[u]
  BY <1>3, <1>4
<1>6. R = [th |-> T2, cs |-> C, res |-> S.res]
  <2>1. R = [S EXCEPT !.th = T2]
    OBVIOUS
  <2> HIDE DEF R, T2, T, C
  <2>2. QED
    BY <1>3, <2>1
<1> HIDE DEF T2, s, L, R
<1>7. ASSUME NEW i \in 1..L PROVE T2[C[i].th] = T[C[i].th]
  <2>1. C[i].th # t
    BY DEF ActiveIn, L
  <2>2. C[i].th \in Threads
    BY <1>2, TypedFacts DEF L
  <2>3. QED
    BY <1>5, <2>1, <2>2
<1>8. Typed(T2, C, lev)
  BY <1>2, <1>5 DEF Typed
<1>9. ASSUME NEW i \in 1..L PROVE Pos(T2, C, lev, i)
  <2>1. Pos(T, C, lev, i) /\ T2[C[i].th] = T[C[i].th]
    BY <1>2, <1>7 DEF Core, L
  <2>2. QED
    BY <2>1, Zenon DEF Pos
<1>10. ASSUME NEW i \in 1..(L - 1) PROVE Adj(T2, C, lev, i)
  <2>1. i \in 1..L
    BY <1>2
  <2>2. Adj(T, C, lev, i) /\ T2[C[i].th] = T[C[i].th]
    BY <1>2, <1>7, <2>1 DEF Core, L
  <2>3. QED
    BY <2>2, Zenon DEF Adj
<1>11. Bottom(T2, C, lev)
  <2>1. Bottom(T, C, lev) /\ 1 \in 1..L
    BY <1>2 DEF Core
  <2>2. T2[C[1].th] = T[C[1].th]
    BY <1>7, <2>1
  <2>3. QED
    BY <2>1, <2>2 DEF Bottom
<1>12. ASSUME NEW u \in Threads PROVE ThOK(T2, C, u)
  <2>1. ThOK(T, C, u)
    BY <1>2 DEF Core
  <2>2. CASE u = t
    <3>1. u \notin ActiveIn(C)
      BY <2>2
    <3>2. /\ T2[u].ci = T[u].ci /\ T2[u].status = T[u].status
          /\ T2[u].nny = T[u].nny /\ T2[u].errfunc = T[u].errfunc
      BY <1>4, <1>5, <2>2
    <3>3. QED
      BY <2>1, <3>1, <3>2, Zenon DEF ThOK
  <2>3. CASE u # t
    <3>1. T2[u] = T[u]
      BY <1>5, <2>3
    <3>2. QED
      BY <2>1, <3>1, Zenon DEF ThOK
  <2>4. QED
    BY <2>2, <2>3
<1>13. Core(T2, C, lev)
  BY <1>2, <1>9, <1>10, <1>11, <1>12 DEF Core, L
<1>14. TopOK(T2, C, lev)
  <2>1. T2[C[L].th] = T[C[L].th]
    BY <1>2, <1>7
  <2>2. QED
    BY <1>2, <2>1, Zenon DEF TopOK, L
<1>15. R \in Sts /\ R.th = T2 /\ R.cs = C
  BY <1>2, <1>3, <1>5, <1>6 DEF Sts
<1>16. QED
  BY <1>2, <1>8, <1>13, <1>14, <1>15 DEF Stands, R, L

\* lua_resume up to the work that is done in protected mode.
RunOf(S, from, t) ==
    [f |-> "run", th |-> t, of |-> "resume", ci |-> Len(S.th[t].ci),
     nCcalls |-> S.th[from].nCcalls + 1, nny |-> S.th[t].nny, errfunc |-> S.th[t].errfunc]

Resumed(S, from, t) ==
    [S.th[t] EXCEPT !.nCcalls = S.th[from].nCcalls + 1, !.nny = 0]

Entered(S, from, t) ==
    [luaD_rawrunprotected(S, t, "resume") EXCEPT
        !.th[t].nCcalls = S.th[from].nCcalls + 1,
        !.th[t].nny = 0,
        !.cs[Len(luaD_rawrunprotected(S, t, "resume").cs)].nCcalls = S.th[from].nCcalls + 1]

EnteredAs(S, from, t, r, s, X) ==
    /\ r \in RunAct /\ IsRun(r, "resume") /\ r.th = t /\ r.f = "run" /\ r.of = "resume"
    /\ r.nny = S.th[t].nny /\ r.nCcalls = S.th[from].nCcalls + 1
    /\ s \in LuaState /\ s.ci = S.th[t].ci /\ s.status = S.th[t].status /\ s.nny = 0
    /\ s.nCcalls = S.th[from].nCcalls + 1 /\ s.errfunc = S.th[t].errfunc
    /\ X \in Sts /\ X = [th |-> [S.th EXCEPT ![t] = s], cs |-> Append(S.cs, r), res |-> S.res]

\* The assignments of lua_resume, as a record.
LEMMA EnteredIs ==
    ASSUME NEW S \in Sts, NEW from \in Threads, NEW t \in Threads
    PROVE  EnteredAs(S, from, t, RunOf(S, from, t), Resumed(S, from, t), Entered(S, from, t))
<1> DEFINE T == S.th
           C == S.cs
           k == T[from].nCcalls
           r0 == [f |-> "run", th |-> t, of |-> "resume", ci |-> Len(T[t].ci),
                  nCcalls |-> T[t].nCcalls, nny |-> T[t].nny, errfunc |-> T[t].errfunc]
           r == RunOf(S, from, t)
           s == Resumed(S, from, t)
           Q == luaD_rawrunprotected(S, t, "resume")
           X == Entered(S, from, t)
<1>1. /\ T \in [Threads -> LuaState] /\ C \in Seq(Acts) /\ S.res \in {"ok", "err", "errerr"}
      /\ S = [th |-> T, cs |-> C, res |-> S.res] /\ T[t] \in LuaState /\ T[from] \in LuaState
  BY DEF Sts
<1>2. k \in Nat /\ Len(T[t].ci) \in Nat /\ T[t].nny \in Nat /\ T[t].nCcalls \in Nat /\ T[t].errfunc \in Nat
  BY <1>1, StateFields
<1>3. r0 \in RunAct /\ r \in RunAct
  BY <1>2 DEF RunAct, RunOf
<1>4. IsRun(r, "resume") /\ r.th = t /\ r.nny = T[t].nny /\ r.nCcalls = k + 1 /\ r.f = "run" /\ r.of = "resume"
  BY DEF RunOf, IsRun
<1>5. /\ s \in LuaState /\ s.ci = T[t].ci /\ s.status = T[t].status /\ s.nny = 0
      /\ s.nCcalls = k + 1 /\ s.errfunc = T[t].errfunc
  <2> DEFINE q == T[t]
             v == k + 1
  <2>1. s = [q EXCEPT !.nCcalls = v, !.nny = 0]
    BY DEF Resumed
  <2>2. q \in LuaState /\ v \in Nat
    BY <1>1, <1>2
  <2> HIDE DEF q, v, s
  <2>3. /\ s \in LuaState /\ s.ci = q.ci /\ s.status = q.status /\ s.nny = 0
        /\ s.nCcalls = v /\ s.errfunc = q.errfunc
    BY <2>1, <2>2 DEF LuaState
  <2>4. QED
    BY <2>3 DEF q, v
<1>6. r = [r0 EXCEPT !.nCcalls = k + 1]
  BY DEF RunOf
<1>7. r0 \in Acts /\ r \in Acts
  BY <1>3 DEF Acts
<1>8. Q = [th |-> T, cs |-> Append(C, r0), res |-> S.res]
  <2> DEFINE D == Append(C, r0)
             e == S.res
  <2>1. Q = [S EXCEPT !.cs = D]
    BY DEF luaD_rawrunprotected, Push
  <2>2. S = [th |-> T, cs |-> C, res |-> e]
    BY <1>1
  <2> HIDE DEF Q, D, T, C, e, r0
  <2>3. Q = [th |-> T, cs |-> D, res |-> e]
    BY <2>1, <2>2
  <2>4. QED
    BY <2>3 DEF D, e
<1>9. Append(C, r0)[Len(C) + 1] = r0 /\ Len(Append(C, r0)) = Len(C) + 1
  BY <1>1, <1>7
<1>10. [Append(C, r0) EXCEPT ![Len(C) + 1] = r] = Append(C, r)
  <2>1. C \in Seq(Acts) /\ r0 \in Acts /\ r \in Acts
    BY <1>1, <1>7
  <2> HIDE DEF r0, r, C
  <2>2. QED
    BY <2>1, LastReplaced
<1>11. X = [th |-> [T EXCEPT ![t] = s], cs |-> Append(C, r), res |-> S.res]
  <2> DEFINE D == Append(C, r0)
             m == Len(C) + 1
             e == S.res
             v == k + 1
             q == [T[t] EXCEPT !.nCcalls = v]
             Z1 == [Q EXCEPT !.th[t].nCcalls = v]
             Z2 == [Z1 EXCEPT !.th[t].nny = 0]
  <2>1. X = [Z2 EXCEPT !.cs[Len(Q.cs)].nCcalls = v]
    BY DEF Entered
  <2>2. Q = [th |-> T, cs |-> D, res |-> e] /\ Len(Q.cs) = m /\ D[m] = r0
    BY <1>8, <1>9
  <2>3. s = [q EXCEPT !.nny = 0]
    BY DEF Resumed
  <2>4. r = [r0 EXCEPT !.nCcalls = v] /\ [D EXCEPT ![m] = r] = Append(C, r)
    BY <1>6, <1>10
  <2>5. T \in [Threads -> LuaState]
    BY <1>1
  <2> HIDE DEF Q, D, m, r0, r, s, X, k, e, T, v, C
  <2>6. Z1 = [th |-> [T EXCEPT ![t] = q], cs |-> D, res |-> e]
    BY <2>2
  <2>7. [T EXCEPT ![t] = q][t] = q
    BY <2>5
  <2> HIDE DEF q
  <2>8. [[T EXCEPT ![t] = q] EXCEPT ![t] = s] = [T EXCEPT ![t] = s]
    BY <2>5
  <2> DEFINE T1 == [T EXCEPT ![t] = q]
  <2>9. Z2 = [Z1 EXCEPT !.th = [T1 EXCEPT ![t] = [T1[t] EXCEPT !.nny = 0]]]
    BY <2>6
  <2> HIDE DEF Z1, Z2
  <2>10. [T1 EXCEPT ![t] = [T1[t] EXCEPT !.nny = 0]] = [T EXCEPT ![t] = s]
    BY <2>3, <2>7, <2>8
  <2> DEFINE T2 == [T EXCEPT ![t] = s]
  <2> HIDE DEF T1, T2
  <2>11. Z2 = [th |-> T2, cs |-> D, res |-> e]
    BY <2>6, <2>9, <2>10 DEF T1, T2
  <2>12. X = [Z2 EXCEPT !.cs = [D EXCEPT ![m] = [D[m] EXCEPT !.nCcalls = v]]]
    BY <2>1, <2>2, <2>11
  <2>13. [D EXCEPT ![m] = [D[m] EXCEPT !.nCcalls = v]] = Append(C, r)
    BY <2>2, <2>4
  <2> DEFINE E == Append(C, r)
  <2> HIDE DEF E
  <2>14. X = [th |-> T2, cs |-> E, res |-> e]
    BY <2>11, <2>12, <2>13 DEF E
  <2>15. QED
    BY <2>14 DEF T2, E, e
<1> HIDE DEF Q, r, s, X, r0
<1>12. X \in Sts
  <2>1. [T EXCEPT ![t] = s] \in [Threads -> LuaState] /\ Append(C, r) \in Seq(Acts)
    BY <1>1, <1>5, <1>7
  <2>2. QED
    BY <1>1, <1>11, <2>1 DEF Sts
<1>13. QED
  BY <1>3, <1>4, <1>5, <1>11, <1>12 DEF EnteredAs, r, s, X

\* resume_error: the error of a call of resume that cannot be done.  The thread
\* keeps what it was but for the depth.
Refused(S, from, t) == [S EXCEPT !.th[t].nCcalls = S.th[from].nCcalls]

\* What the longjmp to the run that was just entered leaves.
Refusal(S, from, t) ==
    [Refused(S, from, t) EXCEPT !.cs[Len(Refused(S, from, t).cs)].at = "done", !.res = "err"]

\* The longjmp to the run that was just entered undoes it.
LEMMA RefusalIs ==
    ASSUME NEW S \in Sts, S.cs # <<>>, S.cs[Len(S.cs)] \in CAct,
           NEW from \in Threads, NEW t \in Threads
    PROVE  luaD_throw(Entered(S, from, t), t, "resume_error") = Refusal(S, from, t)
<1> DEFINE T == S.th
           C == S.cs
           L == Len(C)
           k == T[from].nCcalls
           r == RunOf(S, from, t)
           s == Resumed(S, from, t)
           X == Entered(S, from, t)
           U == Unwind(X, t, L + 1)
           a == [C[L] EXCEPT !.at = "done"]
           w == [T[t] EXCEPT !.nCcalls = k]
<1>1. EnteredAs(S, from, t, r, s, X)
  BY EnteredIs
<1>2. /\ T \in [Threads -> LuaState] /\ C \in Seq(Acts) /\ C # <<>> /\ S.res \in {"ok", "err", "errerr"}
      /\ S = [th |-> T, cs |-> C, res |-> S.res] /\ T[t] \in LuaState /\ T[from] \in LuaState
      /\ C[L] \in CAct /\ L \in Nat \ {0}
  BY DEF Sts
<1>3. k \in Nat
  BY <1>2, StateFields
<1> HIDE DEF r, s, X
<1>4. /\ r \in RunAct /\ r.th = t /\ r.f = "run" /\ r.of = "resume"
      /\ r.nny = T[t].nny /\ r.nCcalls = k + 1
      /\ X \in Sts /\ X.th = [T EXCEPT ![t] = s] /\ X.cs = Append(C, r)
      /\ s \in LuaState
  BY <1>1 DEF EnteredAs
<1>5. r \in Acts
  BY <1>4 DEF Acts
<1>6. Len(X.cs) = L + 1 /\ X.cs[L + 1] = r /\ Front(X.cs) = C /\ Last(C) = C[L]
  <2>1. C \in Seq(Acts) /\ C # <<>> /\ r \in Acts
    BY <1>2, <1>5
  <2>2. Len(Append(C, r)) = L + 1 /\ Append(C, r)[L + 1] = r
    BY <2>1
  <2> HIDE DEF C
  <2>3. Front(Append(C, r)) = C /\ Last(C) = C[Len(C)]
    BY <2>1, NewLast
  <2>4. QED
    BY <1>4, <2>2, <2>3
<1>7. errorJmp(X, t) = L + 1
  <2> DEFINE P(i) == /\ X.cs[i].f = "run" /\ X.cs[i].th = t
                     /\ \A j \in (i + 1)..Len(X.cs) : ~(X.cs[j].f = "run" /\ X.cs[j].th = t)
  <2>1. P(L + 1) /\ L + 1 \in 1..Len(X.cs)
    BY <1>2, <1>4, <1>6
  <2>2. ASSUME NEW i \in 1..Len(X.cs), P(i) PROVE i = L + 1
    <3>1. i < L + 1 => L + 1 \in (i + 1)..Len(X.cs)
      BY <1>2, <1>6
    <3>2. ~(i < L + 1)
      BY <1>4, <1>6, <2>2, <3>1
    <3>3. QED
      BY <1>2, <1>6, <3>2
  <2>3. errorJmp(X, t) = CHOOSE i \in 1..Len(X.cs) : P(i)
    BY DEF errorJmp
  <2> HIDE DEF P
  <2>4. QED
    BY <2>1, <2>2, <2>3
<1>8. luaD_throw(X, t, "resume_error") = lua_resume_ends(U, t, r, "err")
  <2>1. X.cs[errorJmp(X, t)] = r /\ Unwind(X, t, errorJmp(X, t)) = U
    BY <1>6, <1>7
  <2> HIDE DEF U
  <2>2. QED
    BY <1>4, <2>1 DEF luaD_throw
<1>9. U \in Sts /\ U.cs = Append(C, r) /\ U.th = [T EXCEPT ![t] = [s EXCEPT !.nCcalls = k + 1]]
  <2>1. L + 1 \in 1..Len(X.cs) /\ X.cs[L + 1].nCcalls = k + 1 /\ k + 1 \in Nat /\ X \in Sts /\ X.cs \in Seq(Acts)
    BY <1>2, <1>3, <1>4, <1>6 DEF Sts
  <2> HIDE DEF k
  <2>2. /\ U \in Sts /\ U.cs = SubSeq(X.cs, 1, L + 1)
        /\ U.th = [X.th EXCEPT ![t] = [X.th[t] EXCEPT !.nCcalls = X.cs[L + 1].nCcalls]]
    <3> DEFINE m == L + 1
    <3>1. m \in 1..Len(X.cs) /\ X.cs[m].nCcalls \in Nat /\ X \in Sts
      BY <2>1
    <3> HIDE DEF m, T, C
    <3>2. /\ Unwind(X, t, m) \in Sts /\ Unwind(X, t, m).cs = SubSeq(X.cs, 1, m)
          /\ Unwind(X, t, m).th = [X.th EXCEPT ![t] = [X.th[t] EXCEPT !.nCcalls = X.cs[m].nCcalls]]
      BY <3>1, UnwindIs
    <3>3. QED
      BY <3>2 DEF m, U
  <2>3. SubSeq(X.cs, 1, L + 1) = X.cs
    <3>1. Len(SubSeq(X.cs, 1, L + 1)) = Len(X.cs) /\ SubSeq(X.cs, 1, L + 1) \in Seq(Acts)
          /\ \A i \in 1..Len(X.cs) : SubSeq(X.cs, 1, L + 1)[i] = X.cs[i]
      BY <1>2, <1>6, <2>1
    <3>2. QED
      BY <2>1, <3>1, SeqEqual
  <2>4. X.th[t] = s
    BY <1>2, <1>4
  <2>5. [X.th EXCEPT ![t] = [X.th[t] EXCEPT !.nCcalls = X.cs[L + 1].nCcalls]]
           = [T EXCEPT ![t] = [s EXCEPT !.nCcalls = k + 1]]
    BY <1>2, <1>4, <2>1, <2>4
  <2>6. QED
    BY <1>4, <2>2, <2>3, <2>5
<1> HIDE DEF U
<1>10. [[s EXCEPT !.nCcalls = k + 1] EXCEPT !.nny = T[t].nny, !.nCcalls = k] = w
  <2>1. s = [T[t] EXCEPT !.nCcalls = k + 1, !.nny = 0]
    BY DEF s, Resumed
  <2> DEFINE q == T[t]
  <2>2. q \in LuaState
    BY <1>2
  <2> HIDE DEF k, q
  <2>3. QED
    BY <2>1, <2>2 DEF LuaState, q
<1>11. lua_resume_ends(U, t, r, "err") = [th |-> [T EXCEPT ![t] = w], cs |-> Append(Front(C), a), res |-> "err"]
  <2> DEFINE q == [s EXCEPT !.nCcalls = k + 1]
             e == U.res
  <2>1. U = [th |-> U.th, cs |-> U.cs, res |-> e] /\ U.th[t] = q /\ q.nCcalls = k + 1
    BY <1>2, <1>4, <1>9 DEF Sts, LuaState
  <2>2. [U.th EXCEPT ![t] = [U.th[t] EXCEPT !.nny = r.nny, !.nCcalls = U.th[t].nCcalls - 1]]
           = [T EXCEPT ![t] = w]
    <3>0. q.nCcalls - 1 = k /\ r.nny = T[t].nny /\ [q EXCEPT !.nny = T[t].nny, !.nCcalls = k] = w
      BY <1>3, <1>4, <1>10, <2>1
    <3>1. [q EXCEPT !.nny = r.nny, !.nCcalls = q.nCcalls - 1] = w
      <4> HIDE DEF q, w, k
      <4>1. QED
        BY <3>0
    <3> HIDE DEF q, w, k
    <3>2. [U.th EXCEPT ![t] = [U.th[t] EXCEPT !.nny = r.nny, !.nCcalls = U.th[t].nCcalls - 1]]
             = [U.th EXCEPT ![t] = w]
      BY <2>1, <3>1
    <3>3. U.th = [T EXCEPT ![t] = q] /\ T \in [Threads -> LuaState]
      BY <1>2, <1>9 DEF q
    <3> HIDE DEF T
    <3>4. [[T EXCEPT ![t] = q] EXCEPT ![t] = w] = [T EXCEPT ![t] = w]
      BY <3>3
    <3>5. QED
      BY <3>2, <3>3, <3>4
  <2>3. Front(U.cs) = C /\ Last(Front(U.cs)) = C[L] /\ Front(Front(U.cs)) = Front(C)
    BY <1>4, <1>6, <1>9
  <2>4. lua_resume_ends(U, t, r, "err") =
           [U EXCEPT !.th = [U.th EXCEPT ![t] = [U.th[t] EXCEPT !.nny = r.nny, !.nCcalls = U.th[t].nCcalls - 1]],
                     !.cs = Append(Front(Front(U.cs)), [Last(Front(U.cs)) EXCEPT !.at = "done"]),
                     !.res = "err"]
    <3>1. /\ U.th[t] \in LuaState /\ U.th \in [Threads -> LuaState]
          /\ U = [th |-> U.th, cs |-> U.cs, res |-> U.res]
      BY <1>9 DEF Sts
    <3>2. QED
      BY <3>1 DEF lua_resume_ends
  <2> DEFINE V == [T EXCEPT ![t] = w]
             D == Append(Front(C), a)
  <2>5. lua_resume_ends(U, t, r, "err") = [U EXCEPT !.th = V, !.cs = D, !.res = "err"]
    BY <2>2, <2>3, <2>4
  <2>6. [U EXCEPT !.th = V, !.cs = D, !.res = "err"] = [th |-> V, cs |-> D, res |-> "err"]
    <3> DEFINE x == U.th
               y == U.cs
    <3>1. U = [th |-> x, cs |-> y, res |-> e]
      BY <2>1
    <3> HIDE DEF V, D, e, x, y
    <3> DEFINE U1 == [U EXCEPT !.th = V]
               U2 == [U1 EXCEPT !.cs = D]
    <3>2. U1 = [th |-> V, cs |-> y, res |-> e]
      BY <3>1
    <3> HIDE DEF U1
    <3>3. U2 = [th |-> V, cs |-> D, res |-> e]
      BY <3>2
    <3> HIDE DEF U2
    <3>4. [U2 EXCEPT !.res = "err"] = [th |-> V, cs |-> D, res |-> "err"]
      BY <3>3
    <3>5. [U EXCEPT !.th = V, !.cs = D, !.res = "err"] = [U2 EXCEPT !.res = "err"]
      BY DEF U1, U2
    <3>6. QED
      BY <3>4, <3>5
  <2>7. QED
    BY <2>5, <2>6 DEF V, D
<1>12. Refusal(S, from, t) = [th |-> [T EXCEPT ![t] = w], cs |-> Append(Front(C), a), res |-> "err"]
  <2> DEFINE Q == Refused(S, from, t)
             V == [T EXCEPT ![t] = w]
             e == S.res
  <2>1. Q = [S EXCEPT !.th = V]
    BY DEF Refused
  <2>2. S = [th |-> T, cs |-> C, res |-> e]
    BY <1>2
  <2>3. [C EXCEPT ![L] = a] = Append(Front(C), a)
    <3>1. C \in Seq(Acts) /\ C # <<>> /\ a \in Acts
      <4> DEFINE b == C[L]
      <4>1. b \in CAct
        BY <1>2
      <4> HIDE DEF b
      <4>2. [b EXCEPT !.at = "done"] \in CAct
        BY <4>1 DEF CAct
      <4>3. QED
        BY <1>2, <4>2 DEF b, Acts
    <3> HIDE DEF C, a
    <3>2. QED
      BY <3>1, NewLast
  <2> DEFINE D == Append(Front(C), a)
  <2> HIDE DEF Q, V, e, T, C, D, L
  <2>4. Q = [th |-> V, cs |-> C, res |-> e]
    BY <2>1, <2>2
  <2>5. Refusal(S, from, t) = [Q EXCEPT !.cs[Len(Q.cs)].at = "done", !.res = "err"]
    BY DEF Refusal, Q
  <2>6. [Q EXCEPT !.cs[Len(Q.cs)].at = "done", !.res = "err"]
          = [Q EXCEPT !.cs = [C EXCEPT ![L] = a], !.res = "err"]
    BY <2>4 DEF L, a
  <2>7. [C EXCEPT ![L] = a] = D
    BY <2>3 DEF D
  <2> HIDE DEF a
  <2>8. [Q EXCEPT !.cs = D, !.res = "err"] = [th |-> V, cs |-> D, res |-> "err"]
    <3> DEFINE Q1 == [Q EXCEPT !.cs = D]
    <3>1. Q1 = [th |-> V, cs |-> D, res |-> e]
      BY <2>4
    <3> HIDE DEF Q1
    <3>2. [Q1 EXCEPT !.res = "err"] = [th |-> V, cs |-> D, res |-> "err"]
      BY <3>1
    <3>3. [Q EXCEPT !.cs = D, !.res = "err"] = [Q1 EXCEPT !.res = "err"]
      BY DEF Q1
    <3>4. QED
      BY <3>2, <3>3
  <2>9. QED
    BY <2>5, <2>6, <2>7, <2>8 DEF V, D
<1>13. QED
  BY <1>8, <1>11, <1>12 DEF X

\* Nothing else changes, for a thread that does not run.
LEMMA Refuses ==
    ASSUME NEW S, NEW lev, NEW from, Stands(S, lev, from), S.cs[Len(S.cs)].f = "C",
           NEW t \in Threads, t = from \/ t \notin ActiveIn(S.cs)
    PROVE  Fine(luaD_throw(Entered(S, from, t), t, "resume_error"))
<1> DEFINE k == S.th[from].nCcalls
           Q == Refused(S, from, t)
<1>1. Standing(S, lev, from)
  BY StandingFacts
<1>2. /\ S \in Sts /\ S.cs # <<>> /\ S.cs[Len(S.cs)] \in Acts /\ from \in Threads
      /\ S.th \in [Threads -> LuaState] /\ S.th[from] \in LuaState
  BY <1>1 DEF Standing
<1>3. S.cs[Len(S.cs)] \in CAct /\ k \in Nat
  BY <1>2, ActFields, StateFields
<1>4. Stands(Q, lev, from)
  <2>1. CASE t = from
    <3>1. Q = [S EXCEPT !.th = [S.th EXCEPT ![t] = [S.th[t] EXCEPT !.nCcalls = k]]]
      BY DEF Refused
    <3>2. [S.th[t] EXCEPT !.nCcalls = k] = S.th[t]
      <4> DEFINE q == S.th[t]
      <4>1. q \in LuaState /\ k = q.nCcalls
        BY <1>2, <2>1
      <4> HIDE DEF q, k
      <4>2. [q EXCEPT !.nCcalls = k] = q
        BY <4>1 DEF LuaState
      <4>3. QED
        BY <4>2 DEF q
    <3>3. [S.th EXCEPT ![t] = S.th[t]] = S.th
      BY <1>2
    <3>4. Q = [S EXCEPT !.th = S.th]
      BY <3>1, <3>2, <3>3
    <3>5. [S EXCEPT !.th = S.th] = S
      BY <1>2 DEF Sts
    <3>6. QED
      BY <3>4, <3>5
  <2>2. CASE t # from
    <3>1. t \notin ActiveIn(S.cs)
      BY <2>2
    <3> HIDE DEF k
    <3>2. Stands([S EXCEPT !.th[t].nCcalls = k], lev, from)
      BY <1>3, <3>1, IdleKeeps
    <3>3. QED
      BY <3>2 DEF Refused, k
  <2>3. QED
    BY <2>1, <2>2
<1>5. Q.cs = S.cs
  BY <1>2 DEF Refused, Sts
<1> HIDE DEF Q
<1>6. Fine([Q EXCEPT !.cs[Len(Q.cs)].at = "done", !.res = "err"])
  BY <1>4, <1>5, NoResume
<1>7. Fine(Refusal(S, from, t))
  BY <1>6 DEF Refusal, Q
<1>8. luaD_throw(Entered(S, from, t), t, "resume_error") = Refusal(S, from, t)
  BY <1>2, <1>3, RefusalIs
<1>9. QED
  BY <1>7, <1>8

\* lua_resume of a thread that is not active enters its run on top of the
\* function that resumes it.
LEMMA ResumerIs ==
    ASSUME NEW S, NEW lev, NEW from, Stands(S, lev, from), S.cs[Len(S.cs)].f = "C",
           S.th[from].ci[Len(S.th[from].ci)].fn \notin Prot
    PROVE  Resumer(S.th, S.cs, lev)
<1> DEFINE T == S.th
           C == S.cs
           L == Len(C)
           c == T[from].ci
           n == Len(c)
<1>1. Standing(S, lev, from)
  BY StandingFacts
<1>2. /\ C[L].th = from /\ T[from].nCcalls = Cardinality(Nested(C, L))
      /\ C[L].f # "unroll" => lev[L] = n
      /\ C[L].f = "C" => T[from].errfunc = Handler(c, IF c[n].fn \in Prot THEN n - 1 ELSE n)
  BY <1>1 DEF Standing
<1>3. QED
  BY <1>2 DEF Resumer

\* The part of resume for a coroutine that has not run.
Started(X, t, fn) ==
    LET P == luaD_precall([X EXCEPT !.th[t].fresh = FALSE], t, fn)
    IN  IF IsLua(fn) THEN Push(P, Exec(t)) ELSE P

\* What lua_resume makes of a thread.
StartedAs(X, t, fn, y, R) ==
    /\ y \in LuaState /\ y.ci = X.th[t].ci /\ y.status = X.th[t].status /\ y.nny = X.th[t].nny
    /\ y.nCcalls = X.th[t].nCcalls /\ y.errfunc = X.th[t].errfunc
    /\ R = [th |-> [X.th EXCEPT ![t] = WithCallee(y, fn)],
            cs |-> Append(X.cs, StartOf(t, fn)), res |-> X.res]

\* A new thread starts its function in the frame that luaD_precall makes.
LEMMA StartedIs ==
    ASSUME NEW X \in Sts, NEW t \in Threads, NEW fn \in Names
    PROVE  StartedAs(X, t, fn, [X.th[t] EXCEPT !.fresh = FALSE], Started(X, t, fn))
<1> DEFINE T == X.th
           C == X.cs
           y == [T[t] EXCEPT !.fresh = FALSE]
           Y == [X EXCEPT !.th[t].fresh = FALSE]
           w == WithCallee(y, fn)
           R == Started(X, t, fn)
           e == X.res
<1>1. /\ T \in [Threads -> LuaState] /\ C \in Seq(Acts) /\ e \in {"ok", "err", "errerr"}
      /\ X = [th |-> T, cs |-> C, res |-> e] /\ T[t] \in LuaState
  BY DEF Sts
<1>2. /\ y \in LuaState /\ y.ci = T[t].ci /\ y.status = T[t].status /\ y.nny = T[t].nny
      /\ y.nCcalls = T[t].nCcalls /\ y.errfunc = T[t].errfunc
  <2> DEFINE q == T[t]
  <2>1. q \in LuaState
    BY <1>1
  <2> HIDE DEF q
  <2>2. /\ [q EXCEPT !.fresh = FALSE] \in LuaState /\ [q EXCEPT !.fresh = FALSE].ci = q.ci
        /\ [q EXCEPT !.fresh = FALSE].status = q.status /\ [q EXCEPT !.fresh = FALSE].nny = q.nny
        /\ [q EXCEPT !.fresh = FALSE].nCcalls = q.nCcalls /\ [q EXCEPT !.fresh = FALSE].errfunc = q.errfunc
    BY <2>1 DEF LuaState
  <2>3. QED
    BY <2>2 DEF q
<1>3. Y = [th |-> [T EXCEPT ![t] = y], cs |-> C, res |-> e]
  <2>1. Y = [X EXCEPT !.th = [T EXCEPT ![t] = y]]
    OBVIOUS
  <2> DEFINE V == [T EXCEPT ![t] = y]
  <2> HIDE DEF Y, V, T, C, e
  <2>2. QED
    BY <1>1, <2>1 DEF V
<1> HIDE DEF Y, y
<1>4. Y \in Sts /\ Y.th[t] = y /\ [Y.th EXCEPT ![t] = w] = [T EXCEPT ![t] = w] /\ Y.cs = C /\ Y.res = e
  <2>1. [T EXCEPT ![t] = y] \in [Threads -> LuaState]
    BY <1>1, <1>2
  <2> HIDE DEF T, C, w, e
  <2>2. QED
    BY <1>1, <1>2, <1>3, <2>1 DEF Sts
<1>5. luaD_precall(Y, t, fn) = [th |-> [T EXCEPT ![t] = w],
                                cs |-> IF IsLua(fn) THEN C ELSE Append(C, Body(t, "start")),
                                res |-> e]
  <2>1. luaD_precall(Y, t, fn) =
             [th |-> [Y.th EXCEPT ![t] = WithCallee(Y.th[t], fn)],
              cs |-> IF IsLua(fn) THEN Y.cs ELSE Append(Y.cs, Body(t, "start")),
              res |-> Y.res]
    BY <1>4, PrecallIs
  <2>2. QED
    BY <1>4, <2>1
<1>6. R = [th |-> [T EXCEPT ![t] = w], cs |-> Append(C, StartOf(t, fn)), res |-> e]
  <2> DEFINE V == [T EXCEPT ![t] = w]
             P == luaD_precall(Y, t, fn)
  <2>1. R = IF IsLua(fn) THEN Push(P, Exec(t)) ELSE P
    BY DEF Started, Y
  <2> HIDE DEF P, V, C, e, T, R, w
  <2>2. CASE IsLua(fn)
    <3>1. P = [th |-> V, cs |-> C, res |-> e] /\ R = [P EXCEPT !.cs = Append(C, Exec(t))]
      BY <1>5, <2>1, <2>2 DEF V, P, Push
    <3> DEFINE D == Append(C, Exec(t))
    <3> HIDE DEF D
    <3>2. R = [th |-> V, cs |-> D, res |-> e]
      BY <3>1 DEF D
    <3>3. QED
      BY <2>2, <3>2 DEF D, StartOf, V
  <2>3. CASE ~IsLua(fn)
    <3>1. P = [th |-> V, cs |-> Append(C, Body(t, "start")), res |-> e] /\ R = P
      BY <1>5, <2>1, <2>3 DEF V, P
    <3>2. QED
      BY <2>3, <3>1 DEF StartOf, V
  <2>4. QED
    BY <2>2, <2>3
<1>7. QED
  BY <1>2, <1>6 DEF StartedAs, y

\* A coroutine that has not run starts its function.
LEMMA FreshResumes ==
    ASSUME NEW S, NEW lev, NEW from, Stands(S, lev, from), Resumer(S.th, S.cs, lev),
           NEW t \in Coroutines, t \notin ActiveIn(S.cs), t # MainThread,
           S.th[t].status = "ok", NEW fn \in Names
    PROVE  Fine(Started(Entered(S, from, t), t, fn))
<1> DEFINE T == S.th
           C == S.cs
           L == Len(C)
           r == RunOf(S, from, t)
           x == Resumed(S, from, t)
           X == Entered(S, from, t)
           y == [X.th[t] EXCEPT !.fresh = FALSE]
           w == WithCallee(y, fn)
           T1 == [T EXCEPT ![t] = y]
           C1 == Append(C, r)
           lev1 == LevelsOf(C, lev, 0)
           b == StartOf(t, fn)
           T2 == [T EXCEPT ![t] = w]
           C2 == Append(C1, b)
           lev2 == LevelsOf(C1, lev1, 1)
           R == Started(X, t, fn)
<1>1. Standing(S, lev, from) /\ t \in Threads
  BY StandingFacts DEF Threads
<1>2. /\ S \in Sts /\ Typed(T, C, lev) /\ Core(T, C, lev) /\ L \in Nat \ {0} /\ C \in Seq(Acts)
      /\ T \in [Threads -> LuaState] /\ from \in Threads /\ T[from].nCcalls = Cardinality(Nested(C, L))
      /\ S.res \in {"ok", "err", "errerr"}
  BY <1>1 DEF Standing, Sts
<1>3. ThOK(T, C, t)
  BY <1>1, <1>2 DEF Core
<1>4. T[t].nny = 1 /\ T[t].ci = <<>> /\ T[t].errfunc = 0
  BY <1>3, Zenon DEF ThOK
<1>5. EnteredAs(S, from, t, r, x, X)
  BY <1>1, <1>2, EnteredIs
<1> HIDE DEF r, x, X, T, C, L
<1>6. /\ r \in RunAct /\ IsRun(r, "resume") /\ r.th = t /\ r.nny = 1
      /\ r.nCcalls = Cardinality(Nested(C, L)) + 1
      /\ x \in LuaState /\ x.ci = <<>> /\ x.status = "ok" /\ x.nny = 0
      /\ x.nCcalls = Cardinality(Nested(C, L)) + 1 /\ x.errfunc = 0
      /\ X \in Sts /\ X.th = [T EXCEPT ![t] = x] /\ X.cs = C1 /\ X.res = S.res /\ X.th[t] = x
  <2>1. EnteredAs(S, from, t, r, x, X) /\ S.th = T /\ S.cs = C
    BY <1>5 DEF T, C
  <2>2. QED
    BY <1>1, <1>2, <1>4, <2>1 DEF EnteredAs
<1>7. StartedAs(X, t, fn, y, R)
  BY <1>1, <1>6, StartedIs
<1> HIDE DEF y, R
<1>8. /\ y \in LuaState /\ y.ci = <<>> /\ y.status = "ok" /\ y.nny = 0
      /\ y.nCcalls = Cardinality(Nested(C, L)) + 1 /\ y.errfunc = 0
      /\ R = [th |-> [X.th EXCEPT ![t] = w], cs |-> Append(X.cs, b), res |-> X.res]
  BY <1>6, <1>7 DEF StartedAs
<1>9. CiOK(<<>>)
  BY DEF CiOK
<1>10. Restarts(T, C, lev, t, y, r)
  <2>1. Resumer(T, C, lev) /\ t \in Threads \ ActiveIn(C)
    BY <1>1 DEF T, C
  <2>2. r.nCcalls = Cardinality(Nested(C, Len(C))) + 1
    BY <1>6 DEF L
  <2>3. QED
    BY <1>6, <1>8, <1>9, <2>1, <2>2 DEF Restarts
<1>11. Typed(T1, C1, lev1) /\ Core(T1, C1, lev1)
  BY <1>2, <1>10, PushedRun
<1>12. /\ T1 \in [Threads -> LuaState] /\ T1[t] = y
       /\ T2 = [T1 EXCEPT ![t] = w] /\ \A u \in Threads \ {t} : T2[u] = T1[u]
  BY <1>1, <1>2, <1>8
<1>13. r \in Acts /\ ~IsRun(r, "pcall") /\ r.f # "luaD_call"
  BY <1>6 DEF Acts, IsRun
<1>14. /\ C1 \in Seq(Acts) /\ C1 # <<>> /\ Len(C1) = L + 1 /\ C1[L + 1] = r /\ (\A i \in 1..L : C1[i] = C[i])
       /\ lev1[L + 1] = 0
  <2>1. C1 \in Seq(Acts) /\ C1 # <<>> /\ Len(C1) = L + 1 /\ C1[L + 1] = r /\ (\A i \in 1..L : C1[i] = C[i])
    BY <1>2, <1>13 DEF L
  <2>2. L + 1 \in 1..(L + 1) /\ lev1 = [i \in 1..(L + 1) |-> IF i = L + 1 THEN 0 ELSE lev[i]]
    BY <1>2 DEF LevelsOf, L
  <2> HIDE DEF lev1, C1
  <2>3. lev1[L + 1] = 0
    BY <2>2
  <2>4. QED
    BY <2>1, <2>3
<1>15. /\ w \in LuaState /\ w.ci = Append(<<>>, CallInfo(fn)) /\ w.status = "ok" /\ w.nny = 0
       /\ w.nCcalls = Cardinality(Nested(C, L)) + 1 /\ w.errfunc = 0
  BY <1>8, CalleeIs
<1> HIDE DEF w, T1, T2, C1, lev1
<1>16. T2 \in [Threads -> LuaState] /\ T2[t] = w
  BY <1>1, <1>12, <1>15
<1>17. FrameSite(T1, C1, lev1, b, fn)
  <2>1. b = Body(t, "start") \/ (b = Exec(t) /\ IsLua(fn))
    BY DEF StartOf, IsLua
  <2>2. \A j \in 1..(L + 1) : C1[j].th = t => ~IsRun(C1[j], "pcall")
    <3>1. ASSUME NEW j \in 1..(L + 1), C1[j].th = t PROVE j = L + 1
      <4>1. SUFFICES ASSUME j # L + 1 PROVE FALSE
        OBVIOUS
      <4>2. j \in 1..L
        BY <1>2, <4>1
      <4>3. C[j].th = t
        BY <1>14, <3>1, <4>2
      <4>4. QED
        BY <4>2, <4>3 DEF ActiveIn, C, L
    <3>2. QED
      BY <1>13, <1>14, <3>1
  <2>3. C1[Len(C1)].th = t /\ T1[t].ci = <<>> /\ IsRun(C1[Len(C1)], "resume") /\ Len(C1) > 1
        /\ Len(C1) = L + 1 /\ lev1[Len(C1)] = 0
    BY <1>2, <1>6, <1>8, <1>12, <1>14
  <2>4. Len(<<>>) = 0 /\ \A j \in 1..Len(<<>>) : FALSE
    OBVIOUS
  <2>5. Softly(T1, C1, <<>>)
    BY <2>2, <2>3, <2>4 DEF Softly
  <2> HIDE DEF b
  <2>6. QED
    BY <2>1, <2>3, <2>4, <2>5 DEF FrameSite
<1>18. Moves(T1, C1, T2, Append(T1[t].ci, CallInfo(fn)), T1[t].nny)
  <2>1. C1[Len(C1)].th = t
    BY <1>6, <1>14
  <2>2. QED
    BY <1>8, <1>12, <1>15, <1>16, <2>1 DEF Moves
<1>19. Grown(C1, lev1, C2, lev2, b, 1)
  <2>1. b \in Acts /\ b.th = t /\ C1[Len(C1)].th = t /\ 1 \in Nat
    BY <1>1, <1>6, <1>14 DEF StartOf, Exec, Body, Acts, CAct, ExecAct
  <2> HIDE DEF b
  <2>2. QED
    BY <1>14, <2>1, Growing
<1> HIDE DEF b, C2, lev2
<1>20. Cardinality(Nested(C1, Len(C1))) = Cardinality(Nested(C, L)) + 1
  <2>1. L \in Nat /\ \A i \in 1..L : Alike(C1[i], C[i])
    BY <1>2, <1>14 DEF Alike
  <2>2. Nested(C1, L) = Nested(C, L)
    BY <2>1, CountsSame
  <2>3. /\ Cardinality(Nested(C1, L)) \in Nat
        /\ Cardinality(Nested(C1, L + 1)) =
                 IF C1[L + 1].f = "luaD_call" \/ IsRun(C1[L + 1], "resume")
                 THEN Cardinality(Nested(C1, L)) + 1 ELSE Cardinality(Nested(C1, L))
    BY <2>1, NestedStep
  <2>4. QED
    BY <1>6, <1>14, <2>2, <2>3
<1>21. Good(T2, C2)
  <2>1. T2[t].nCcalls = Cardinality(Nested(C1, Len(C1)))
    BY <1>15, <1>16, <1>20
  <2>2. T2[t].errfunc = Handler(T1[t].ci, Len(T1[t].ci))
    <3>1. Len(<<>>) \in Nat /\ Len(<<>>) = 0
      OBVIOUS
    <3>2. Handler(<<>>, 0) = 0
      BY HandlerIs
    <3>3. QED
      BY <1>8, <1>12, <1>15, <1>16, <3>1, <3>2
  <2>3. t = C1[Len(C1)].th /\ Len(T1[t].ci) + 1 = 1
    BY <1>6, <1>8, <1>12, <1>14
  <2>4. Grown(C1, lev1, C2, lev2, b, Len(T1[t].ci) + 1)
    BY <1>19, <2>3
  <2>5. QED
    BY <1>11, <1>17, <1>18, <2>1, <2>2, <2>3, <2>4, PushFrame
<1>22. R = [th |-> T2, cs |-> C2, res |-> S.res]
  <2>1. [X.th EXCEPT ![t] = w] = T2
    BY <1>2, <1>6 DEF T2
  <2>2. QED
    BY <1>6, <1>8, <2>1 DEF C2
<1>23. R \in Sts /\ R.th = T2 /\ R.cs = C2
  <2>1. C2 \in Seq(Acts)
    BY <1>21 DEF Good, Typed
  <2>2. QED
    BY <1>2, <1>16, <1>22, <2>1 DEF Sts
<1>24. QED
  BY <1>21, <1>23 DEF Fine, R, X

\* A suspended thread leaves the frame of yield and goes on in unroll.
Awake(s) == WithoutCallee([s EXCEPT !.status = "ok"])

UnrollOf(t) == [f |-> "unroll", th |-> t, ud |-> "yield"]

Woken(X, t) == Push(luaD_poscall([X EXCEPT !.th[t].status = "ok"], t), UnrollOf(t))

WokenAs(X, t, w, R) ==
    /\ w \in LuaState /\ Shorter(X.th[t].ci, w.ci) /\ w.status = "ok" /\ w.nny = X.th[t].nny
    /\ w.nCcalls = X.th[t].nCcalls /\ w.errfunc = X.th[t].errfunc
    /\ R = [th |-> [X.th EXCEPT ![t] = w], cs |-> Append(X.cs, UnrollOf(t)), res |-> X.res]

\* The assignments of resume for a suspended thread, as a record.
LEMMA WokenIs ==
    ASSUME NEW X \in Sts, NEW t \in Threads, X.th[t].ci # <<>>, CiOK(X.th[t].ci)
    PROVE  WokenAs(X, t, Awake(X.th[t]), Woken(X, t))
<1> DEFINE T == X.th
           C == X.cs
           y == [T[t] EXCEPT !.status = "ok"]
           Y == [X EXCEPT !.th[t].status = "ok"]
           w == WithoutCallee(y)
           P == luaD_poscall(Y, t)
           R == Woken(X, t)
           e == X.res
<1>1. /\ T \in [Threads -> LuaState] /\ C \in Seq(Acts) /\ e \in {"ok", "err", "errerr"}
      /\ X = [th |-> T, cs |-> C, res |-> e] /\ T[t] \in LuaState
  BY DEF Sts
<1>2. /\ y \in LuaState /\ y.ci = T[t].ci /\ y.status = "ok" /\ y.nny = T[t].nny
      /\ y.nCcalls = T[t].nCcalls /\ y.errfunc = T[t].errfunc
  <2> DEFINE q == T[t]
  <2>1. q \in LuaState
    BY <1>1
  <2> HIDE DEF q
  <2>2. /\ [q EXCEPT !.status = "ok"] \in LuaState /\ [q EXCEPT !.status = "ok"].ci = q.ci
        /\ [q EXCEPT !.status = "ok"].status = "ok" /\ [q EXCEPT !.status = "ok"].nny = q.nny
        /\ [q EXCEPT !.status = "ok"].nCcalls = q.nCcalls /\ [q EXCEPT !.status = "ok"].errfunc = q.errfunc
    BY <2>1 DEF LuaState
  <2>3. QED
    BY <2>2 DEF q
<1>3. Y = [th |-> [T EXCEPT ![t] = y], cs |-> C, res |-> e]
  <2>1. Y = [X EXCEPT !.th = [T EXCEPT ![t] = y]]
    OBVIOUS
  <2> DEFINE V == [T EXCEPT ![t] = y]
  <2> HIDE DEF Y, V, T, C, e
  <2>2. QED
    BY <1>1, <2>1 DEF V
<1> HIDE DEF Y, y
<1>4. Y \in Sts /\ Y.th[t] = y /\ [Y.th EXCEPT ![t] = w] = [T EXCEPT ![t] = w] /\ Y.cs = C /\ Y.res = e
  <2>1. [T EXCEPT ![t] = y] \in [Threads -> LuaState]
    BY <1>1, <1>2
  <2> HIDE DEF T, C, w, e
  <2>2. QED
    BY <1>1, <1>2, <1>3, <2>1 DEF Sts
<1>5. /\ SetTo(Y, t, w, P) /\ w \in LuaState /\ Shorter(T[t].ci, w.ci)
      /\ w.status = "ok" /\ w.nny = T[t].nny /\ w.nCcalls = T[t].nCcalls /\ w.errfunc = T[t].errfunc
  <2>1. Y \in Sts /\ Y.th[t].ci # <<>> /\ CiOK(Y.th[t].ci)
    BY <1>2, <1>4
  <2>2. /\ SetTo(Y, t, WithoutCallee(Y.th[t]), luaD_poscall(Y, t))
        /\ WithoutCallee(Y.th[t]) \in LuaState /\ Shorter(Y.th[t].ci, WithoutCallee(Y.th[t]).ci)
        /\ WithoutCallee(Y.th[t]).status = Y.th[t].status /\ WithoutCallee(Y.th[t]).nny = Y.th[t].nny
        /\ WithoutCallee(Y.th[t]).nCcalls = Y.th[t].nCcalls /\ WithoutCallee(Y.th[t]).errfunc = Y.th[t].errfunc
    BY <2>1, PoscallIs
  <2>3. QED
    BY <1>2, <1>4, <2>2
<1>6. P = [th |-> [T EXCEPT ![t] = w], cs |-> C, res |-> e]
  BY <1>4, <1>5 DEF SetTo
<1>7. R = [th |-> [T EXCEPT ![t] = w], cs |-> Append(C, UnrollOf(t)), res |-> e]
  <2> DEFINE V == [T EXCEPT ![t] = w]
             D == Append(C, UnrollOf(t))
  <2>1. R = [P EXCEPT !.cs = Append(P.cs, UnrollOf(t))]
    BY DEF Woken, Push, Y
  <2> HIDE DEF V, C, e, T, w, P
  <2>2. P = [th |-> V, cs |-> C, res |-> e]
    BY <1>6 DEF V
  <2> HIDE DEF D, R
  <2>3. R = [P EXCEPT !.cs = D]
    BY <2>1, <2>2 DEF D
  <2>4. R = [th |-> V, cs |-> D, res |-> e]
    BY <2>2, <2>3
  <2>5. QED
    BY <2>4 DEF V, D
<1>8. QED
  BY <1>5, <1>7 DEF WokenAs, Awake, y

\* A coroutine that was suspended goes on.
LEMMA YieldedResumes ==
    ASSUME NEW S, NEW lev, NEW from, Stands(S, lev, from), Resumer(S.th, S.cs, lev),
           NEW t \in Coroutines, t \notin ActiveIn(S.cs), t # MainThread,
           S.th[t].status = "yield"
    PROVE  Fine(Woken(Entered(S, from, t), t))
<1> DEFINE T == S.th
           C == S.cs
           L == Len(C)
           c == T[t].ci
           n == Len(c)
           r == RunOf(S, from, t)
           x == Resumed(S, from, t)
           X == Entered(S, from, t)
           w == Awake(X.th[t])
           T1 == [T EXCEPT ![t] = w]
           C1 == Append(C, r)
           lev1 == LevelsOf(C, lev, 0)
           u == UnrollOf(t)
           C2 == Append(C1, u)
           lev2 == LevelsOf(C1, lev1, 0)
           R == Woken(X, t)
<1>1. Standing(S, lev, from) /\ t \in Threads
  BY StandingFacts DEF Threads
<1>2. /\ S \in Sts /\ Typed(T, C, lev) /\ Core(T, C, lev) /\ L \in Nat \ {0} /\ C \in Seq(Acts)
      /\ T \in [Threads -> LuaState] /\ from \in Threads /\ T[from].nCcalls = Cardinality(Nested(C, L))
      /\ S.res \in {"ok", "err", "errerr"}
  BY <1>1 DEF Standing, Sts
<1>3. ThOK(T, C, t)
  BY <1>1, <1>2 DEF Core
<1>4. /\ T[t].nny = 1 /\ c # <<>> /\ c[n].fn \notin Prot /\ (\A j \in 1..(n - 1) : Soft(c[j]))
      /\ T[t].errfunc = Handler(c, n) /\ CiOK(c)
  BY <1>3, Zenon DEF ThOK
<1>5. EnteredAs(S, from, t, r, x, X)
  BY <1>1, <1>2, EnteredIs
<1> HIDE DEF r, x, X, T, C, L, c, n
<1>6. /\ r \in RunAct /\ IsRun(r, "resume") /\ r.th = t /\ r.nny = 1
      /\ r.nCcalls = Cardinality(Nested(C, L)) + 1
      /\ x \in LuaState /\ x.ci = c /\ x.nny = 0
      /\ x.nCcalls = Cardinality(Nested(C, L)) + 1 /\ x.errfunc = Handler(c, n)
      /\ X \in Sts /\ X.th = [T EXCEPT ![t] = x] /\ X.cs = C1 /\ X.res = S.res /\ X.th[t] = x
  <2>1. EnteredAs(S, from, t, r, x, X) /\ S.th = T /\ S.cs = C /\ c = T[t].ci
    BY <1>5 DEF T, C, c
  <2>2. QED
    BY <1>1, <1>2, <1>4, <2>1 DEF EnteredAs
<1>7. WokenAs(X, t, w, R)
  <2>1. X \in Sts /\ t \in Threads /\ X.th[t].ci # <<>> /\ CiOK(X.th[t].ci)
    BY <1>1, <1>4, <1>6
  <2>2. QED
    BY <2>1, WokenIs
<1> HIDE DEF w, R
<1> DEFINE d == w.ci
<1>8. /\ w \in LuaState /\ Shorter(c, d) /\ w.status = "ok" /\ w.nny = 0
      /\ w.nCcalls = Cardinality(Nested(C, L)) + 1 /\ w.errfunc = Handler(c, n)
      /\ R = [th |-> [X.th EXCEPT ![t] = w], cs |-> Append(X.cs, u), res |-> X.res]
  BY <1>6, <1>7 DEF WokenAs
<1> HIDE DEF d
<1>9. /\ n \in Nat \ {0} /\ d \in Seq(Info) /\ Len(d) = n - 1 /\ CiOK(d)
      /\ (\A j \in 1..(n - 1) : d[j] = c[j])
      /\ Handler(d, n - 1) = Handler(c, n - 1)
      /\ Handler(c, n) = IF c[n].fn = "xpcall" THEN n
                         ELSE IF c[n].fn \in Prot THEN 0 ELSE Handler(c, n - 1)
  BY <1>8 DEF Shorter, n
<1>10. w.errfunc = Handler(d, n - 1) /\ \A j \in 1..(n - 1) : Soft(d[j])
  <2>1. c[n].fn # "xpcall"
    BY <1>4 DEF Prot
  <2>2. QED
    BY <1>4, <1>8, <1>9, <2>1
<1>11. Restarts(T, C, lev, t, w, r)
  <2>1. Resumer(T, C, lev) /\ t \in Threads \ ActiveIn(C)
    BY <1>1 DEF T, C
  <2>2. r.nCcalls = Cardinality(Nested(C, Len(C))) + 1 /\ CiOK(w.ci)
    BY <1>6, <1>9 DEF L, d
  <2>3. QED
    BY <1>6, <1>8, <2>1, <2>2 DEF Restarts
<1>12. Typed(T1, C1, lev1) /\ Core(T1, C1, lev1)
  BY <1>2, <1>11, PushedRun
<1>13. T1 \in [Threads -> LuaState] /\ T1[t] = w
  BY <1>1, <1>2, <1>8
<1>14. r \in Acts
  BY <1>6 DEF Acts
<1>15. /\ C1 \in Seq(Acts) /\ C1 # <<>> /\ Len(C1) = L + 1 /\ C1[L + 1] = r /\ (\A i \in 1..L : C1[i] = C[i])
  BY <1>2, <1>14 DEF L
<1>16. lev1[L + 1] = 0 /\ L + 1 > 1 /\ L + 1 \in Nat
  <2>1. L + 1 \in 1..(L + 1) /\ lev1 = [i \in 1..(L + 1) |-> IF i = L + 1 THEN 0 ELSE lev[i]]
    BY <1>2 DEF LevelsOf, L
  <2> HIDE DEF lev1
  <2>2. lev1[L + 1] = 0
    BY <2>1
  <2>3. QED
    BY <1>2, <2>2
<1>17. u \in Acts /\ u.th = t /\ u.f = "unroll" /\ u.ud = "yield"
  BY <1>1 DEF UnrollOf, Acts, UnrollAct
<1> HIDE DEF T1, C1, lev1, u
<1> DEFINE K == L + 1
<1>18. K = L + 1 /\ Len(C1) = K /\ C1[K] = r /\ C1[K].th = t /\ lev1[K] = 0 /\ K > 1 /\ K \in Nat \ {0}
  BY <1>2, <1>6, <1>15, <1>16
<1> HIDE DEF K
<1>19. Grown(C1, lev1, C2, lev2, u, 0)
  <2>1. u.th = C1[Len(C1)].th /\ 0 \in Nat
    BY <1>17, <1>18
  <2>2. QED
    BY <1>15, <1>17, <2>1, Growing
<1> HIDE DEF C2, lev2
<1>20. Grew(C1, lev1, C2, lev2, u, 0)
  BY <1>15, <1>19, GrownFacts
<1>21. /\ Len(C2) = K + 1 /\ C2[K + 1] = u /\ C2 \in Seq(Acts) /\ C2 = Append(C1, u)
       /\ C2[K] = r /\ lev2[K] = 0 /\ lev2[K + 1] = 0
       /\ Cardinality(Nested(C1, K)) \in Nat
       /\ Cardinality(Nested(C2, K + 1)) =
              Cardinality(Nested(C1, K)) + One(u.f = "luaD_call" \/ IsRun(u, "resume"))
       /\ Cardinality(Calls(C1, K, t)) \in Nat
       /\ Cardinality(Calls(C2, K + 1, t)) =
              Cardinality(Calls(C1, K, t)) + One(u.f = "luaD_call" /\ ~u.allowyield)
  <2>1. C1[Len(C1)].th = t /\ Len(C1) = K /\ C1[K] = r /\ lev1[K] = 0
    BY <1>18
  <2>2. QED
    BY <1>20, <2>1 DEF Grew
<1>22. ~IsRun(u, "resume") /\ ~IsRun(u, "pcall") /\ u.f \notin {"luaD_call", "run"}
  BY <1>17 DEF IsRun
<1>23. /\ Cardinality(Nested(C2, K + 1)) = Cardinality(Nested(C1, K))
       /\ Cardinality(Calls(C2, K + 1, t)) = Cardinality(Calls(C1, K, t))
  <2>1. One(u.f = "luaD_call" \/ IsRun(u, "resume")) = 0 /\ One(u.f = "luaD_call" /\ ~u.allowyield) = 0
    BY <1>22 DEF One
  <2>2. QED
    BY <1>21, <2>1
<1>24. T1[t].nny = Cardinality(Calls(C1, K, t)) + One(t = MainThread)
  <2>1. T1[C1[Len(C1)].th].nny =
           Cardinality(Calls(C1, Len(C1), C1[Len(C1)].th)) + One(C1[Len(C1)].th = MainThread)
    BY <1>12, RunningFacts
  <2>2. QED
    BY <1>18, <2>1
<1>25. Cardinality(Nested(C1, K)) = Cardinality(Nested(C, L)) + 1
  <2>1. L \in Nat /\ \A i \in 1..L : Alike(C1[i], C[i])
    BY <1>2, <1>15 DEF Alike
  <2>2. Nested(C1, L) = Nested(C, L)
    BY <2>1, CountsSame
  <2>3. /\ Cardinality(Nested(C1, L)) \in Nat
        /\ Cardinality(Nested(C1, L + 1)) =
                 IF C1[L + 1].f = "luaD_call" \/ IsRun(C1[L + 1], "resume")
                 THEN Cardinality(Nested(C1, L)) + 1 ELSE Cardinality(Nested(C1, L))
    BY <2>1, NestedStep
  <2>4. QED
    BY <1>6, <1>15, <1>18, <2>2, <2>3
<1>26. Pos(T1, C2, lev2, K + 1)
  <2>1. 0 <= Len(T1[t].ci)
    BY <1>8, <1>9, <1>13 DEF d
  <2>2. \A j \in 1..(0 - 1) : Soft(T1[t].ci[j])
    OBVIOUS
  <2>3. QED
    BY <1>17, <1>21, <1>22, <2>1, <2>2 DEF Pos
<1>27. Adj(T1, C2, lev2, K)
  <2>1. r.f = "run" /\ ~IsRun(r, "pcall") /\ r.th = t
    BY <1>6 DEF IsRun
  <2>2. QED
    BY <1>6, <1>17, <1>21, <1>22, <2>1 DEF Adj
<1>28. Enters(T1, C1, lev1, T1, C2, lev2, u, 0)
  <2>1. C1[Len(C1)].th = t /\ Len(C1) = K /\ Len(C1) + 1 = K + 1
    BY <1>18
  <2>2. lev2 = [i \in 1..(K + 1) |-> IF i = K + 1 THEN 0 ELSE lev1[i]]
    BY <2>1 DEF lev2, LevelsOf
  <2>3. lev1[K] <= 0 /\ 0 <= Len(T1[t].ci) /\ \A j \in 1..lev1[K] : FALSE
    BY <1>9, <1>13, <1>18 DEF d
  <2>4. CiOK(T1[t].ci) /\ T1[t].status = "ok"
    BY <1>8, <1>9, <1>13 DEF d
  <2>5. T1[t].nny = Cardinality(Calls(C2, K + 1, t)) + One(t = MainThread)
    BY <1>23, <1>24
  <2>6. QED
    BY <1>13, <1>17, <1>18, <1>21, <1>22, <1>26, <1>27, <2>1, <2>2, <2>3, <2>4, <2>5 DEF Enters
<1>29. Typed(T1, C2, lev2) /\ Core(T1, C2, lev2)
  BY <1>12, <1>28, Pushed
<1>30. TopOK(T1, C2, lev2)
  <2>1. T1[t] = w /\ w.ci = d /\ Len(d) = n - 1 /\ w.nCcalls = Cardinality(Nested(C2, K + 1))
    BY <1>8, <1>9, <1>13, <1>23, <1>25 DEF d
  <2>2. QED
    BY <1>10, <1>17, <1>21, <2>1 DEF TopOK
<1>31. R = [th |-> T1, cs |-> C2, res |-> S.res]
  <2>1. [X.th EXCEPT ![t] = w] = T1
    BY <1>2, <1>6 DEF T1
  <2>2. QED
    BY <1>6, <1>8, <2>1 DEF C2
<1>32. R \in Sts /\ R.th = T1 /\ R.cs = C2
  BY <1>2, <1>13, <1>21, <1>31 DEF Sts
<1>33. QED
  BY <1>29, <1>30, <1>32 DEF Fine, Good, R, X

\* auxresume, called by resume and by a function of wrap, of a coroutine that is
\* not waiting for another one that it resumed.
LEMMA ResumeKeeps ==
    ASSUME NEW S, NEW lev, NEW from, Stands(S, lev, from), S.cs[Len(S.cs)].f = "C",
           S.th[from].ci[Len(S.th[from].ci)].fn \notin Prot,
           NEW t \in Coroutines, t # MainThread,
           t = from \/ S.th[t].ci = <<>> \/ S.th[t].status # "ok",
           NEW fn \in Names
    PROVE  Fine(auxresume(S, from, t, fn))
<1> DEFINE X == Entered(S, from, t)
           s == X.th[t]
           fails == \/ s.nCcalls >= LUAI_MAXCCALLS
                    \/ s.status = "ok" /\ s.ci # <<>>
                    \/ s.status \notin {"ok", "yield"}
           A == auxresume(S, from, t, fn)
           Z == resume(X, t, fn)
<1>1. Standing(S, lev, from) /\ t \in Threads
  BY StandingFacts DEF Threads
<1>2. S \in Sts /\ from \in Threads /\ S.th \in [Threads -> LuaState] /\ S.th[from].status = "ok"
  BY <1>1 DEF Standing
<1>3. A = IF S.th[t].status = "ok" /\ S.th[t].ci = <<>> /\ ~S.th[t].fresh
          THEN [S EXCEPT !.cs[Len(S.cs)].at = "done", !.res = "err"]
          ELSE Z
  BY DEF auxresume, lua_resume, Entered
<1>4. Fine([S EXCEPT !.cs[Len(S.cs)].at = "done", !.res = "err"])
  BY NoResume
<1>5. t = from \/ t \notin ActiveIn(S.cs)
  BY Inactive
<1>6. Fine(luaD_throw(X, t, "resume_error"))
  BY <1>1, <1>5, Refuses
<1>7. s.ci = S.th[t].ci /\ s.status = S.th[t].status
  <2> DEFINE x == Resumed(S, from, t)
  <2>1. EnteredAs(S, from, t, RunOf(S, from, t), x, X)
    BY <1>1, <1>2, EnteredIs
  <2> HIDE DEF x, X
  <2>2. X.th = [S.th EXCEPT ![t] = x] /\ x.ci = S.th[t].ci /\ x.status = S.th[t].status
    BY <2>1 DEF EnteredAs
  <2>3. QED
    BY <1>1, <1>2, <2>2
<1>8. Z = IF fails THEN luaD_throw(X, t, "resume_error")
          ELSE IF s.status = "ok" THEN Started(X, t, fn) ELSE Woken(X, t)
  <2> HIDE DEF X
  <2>1. QED
    BY DEF resume, Started, Woken, UnrollOf
<1> HIDE DEF X, A
<1>9. CASE fails
  <2>1. fails => Z = luaD_throw(X, t, "resume_error")
    <3> HIDE DEF fails, Z
    <3>1. QED
      BY <1>8
  <2> HIDE DEF Z
  <2>2. A = Z \/ A = [S EXCEPT !.cs[Len(S.cs)].at = "done", !.res = "err"]
    BY <1>3
  <2>3. QED
    BY <1>4, <1>6, <1>9, <2>1, <2>2 DEF A
<1>10. CASE ~fails
  <2>1. t # from /\ s.status \in {"ok", "yield"}
    <3>1. t = from => s.status = "ok" /\ s.ci # <<>>
      <4>1. Len(S.th[from].ci) >= 1
        BY <1>1 DEF Standing
      <4>2. Len(<<>>) = 0
        OBVIOUS
      <4>3. QED
        BY <1>2, <1>7, <4>1, <4>2
    <3>2. QED
      BY <1>10, <3>1
  <2>2. t \notin ActiveIn(S.cs) /\ Resumer(S.th, S.cs, lev)
    BY <1>5, <2>1, ResumerIs
  <2>3. s.status = "ok" => Fine(Started(X, t, fn))
    BY <1>7, <2>2, FreshResumes DEF X
  <2>4. s.status = "yield" => Fine(Woken(X, t))
    BY <1>7, <2>2, YieldedResumes DEF X
  <2>5. Z = IF s.status = "ok" THEN Started(X, t, fn) ELSE Woken(X, t)
    <3> HIDE DEF fails, Z
    <3>1. QED
      BY <1>8, <1>10, <2>1
  <2> HIDE DEF Z
  <2>6. A = Z \/ A = [S EXCEPT !.cs[Len(S.cs)].at = "done", !.res = "err"]
    BY <1>3
  <2>7. QED
    BY <1>4, <2>1, <2>3, <2>4, <2>5, <2>6 DEF A
<1>11. QED
  BY <1>9, <1>10

---------------------------------------------------------------------------
\* The state of the interpreter, with the levels that the invariant speaks of.
Situated(lev) ==
    /\ Stands(State, lev, Running) /\ Running \in Threads
    /\ State.th = th /\ State.cs = cstack /\ State.res = res
    /\ Top = State.cs[Len(State.cs)] /\ Frame = State.th[Running].ci[Len(State.th[Running].ci)]

\* State is the three variables.
LEMMA StateIs == State.th = th /\ State.cs = cstack /\ State.res = res
BY DEF State

\* The invariant gives such levels.
LEMMA Situation ==
    ASSUME Fine(State)
    PROVE  \E lev : Situated(lev)
<1>1. PICK lev : Typed(State.th, State.cs, lev) /\ Core(State.th, State.cs, lev)
                 /\ TopOK(State.th, State.cs, lev)
  BY DEF Fine, Good
<1>2. Top = State.cs[Len(State.cs)] /\ Running = State.cs[Len(State.cs)].th
  BY StateIs DEF Running, Top, Last
<1>3. Stands(State, lev, Running)
  BY <1>1, <1>2 DEF Stands, Fine
<1>4. Running \in Threads
  BY <1>3, StandingFacts DEF Standing
<1>5. Frame = State.th[Running].ci[Len(State.th[Running].ci)]
  BY StateIs DEF Frame, Last
<1>6. QED
  BY <1>2, <1>3, <1>4, <1>5, StateIs DEF Situated

\* A step to the state R.
LEMMA BecomesFine ==
    ASSUME NEW R, Fine(R), Becomes(R)
    PROVE  Fine(State)'
<1>1. R \in Sts /\ Good(R.th, R.cs)
  BY DEF Fine
<1>2. State' = [th |-> R.th, cs |-> R.cs, res |-> R.res]
  BY DEF State, Becomes
<1>3. State' \in Sts /\ (State').th = R.th /\ (State').cs = R.cs
  BY <1>1, <1>2 DEF Sts
<1>4. QED
  BY <1>1, <1>3 DEF Fine

\* What a program calls are functions with a name.
LEMMA CalleesNamed ==
    ASSUME NEW fn \in Callees
    PROVE  fn \in Names
BY DEF Callees, Names

\* The C function on top waits for the function that it calls.
Waiting == [State EXCEPT !.cs[Len(cstack)].at = "wait"]

\* That changes nothing the invariant speaks of.
LEMMA WaitingIs ==
    ASSUME NEW lev, Situated(lev), Top.f = "C"
    PROVE  /\ Stands(Waiting, lev, Running) /\ Waiting.th = th
           /\ Waiting.cs[Len(Waiting.cs)].f = "C"
           /\ Frame = Waiting.th[Running].ci[Len(Waiting.th[Running].ci)]
<1>1. Waiting = Marked(State, "wait")
  BY StateIs DEF Waiting, Marked
<1>2. Marking(State, "wait", lev, Running, Marked(State, "wait"))
  BY MarkKeeps DEF Situated
<1>3. QED
  BY <1>1, <1>2 DEF Marking, Situated

\* Each action keeps the invariant.
LEMMA ProtectFine ==
    ASSUME Fine(State), Protect
    PROVE  Fine(State)'
<1>1. PICK lev : Situated(lev)
  BY Situation
<1>2. Top.f = "C" /\ Frame.fn \in Prot
  BY DEF Protect, Prot
<1>3. PICK fn \in Callees :
          Becomes(lua_pcallk(Waiting, Running, fn,
                             IF Frame.fn = "xpcall" THEN Len(th[Running].ci) ELSE 0,
                             Frame.fn # "host"))
  BY DEF Protect, Waiting
<1>4. /\ Stands(Waiting, lev, Running) /\ Waiting.th = th
      /\ Waiting.cs[Len(Waiting.cs)].f = "C"
      /\ Frame = Waiting.th[Running].ci[Len(Waiting.th[Running].ci)]
  BY <1>1, <1>2, WaitingIs
<1>5. (IF Frame.fn = "xpcall" THEN Len(th[Running].ci) ELSE 0) = NewHandler(Waiting.th[Running].ci)
  BY <1>4 DEF NewHandler
<1>6. fn \in Names
  BY CalleesNamed
<1>7. Waiting.th[Running].ci[Len(Waiting.th[Running].ci)].fn \in Prot
  BY <1>2, <1>4
<1>8. (Frame.fn # "host") = TRUE => Waiting.th[Running].ci[Len(Waiting.th[Running].ci)].fn # "host"
  BY <1>4
<1>9. Fine(lua_pcallk(Waiting, Running, fn, NewHandler(Waiting.th[Running].ci), Frame.fn # "host"))
  BY <1>4, <1>6, <1>7, <1>8, PcallkKeeps
<1>10. QED
  BY <1>3, <1>5, <1>9, BecomesFine

\* lua_callk keeps the invariant.
LEMMA CallBackFine ==
    ASSUME Fine(State), CallBack
    PROVE  Fine(State)'
<1>1. PICK lev : Situated(lev)
  BY Situation
<1>2. Top.f = "C" /\ Frame.fn \notin Prot
  BY DEF CallBack, Prot
<1>3. PICK fn \in Callees : Becomes(lua_callk(Waiting, Running, fn, Frame.fn = "dofile"))
  BY DEF CallBack, Waiting
<1>4. /\ Stands(Waiting, lev, Running) /\ Waiting.th = th
      /\ Waiting.cs[Len(Waiting.cs)].f = "C"
      /\ Frame = Waiting.th[Running].ci[Len(Waiting.th[Running].ci)]
  BY <1>1, <1>2, WaitingIs
<1>5. fn \in Names
  BY CalleesNamed
<1>6. Fine(lua_callk(Waiting, Running, fn, Frame.fn = "dofile"))
  BY <1>2, <1>4, <1>5, CallkKeeps
<1>7. QED
  BY <1>3, <1>6, BecomesFine

\* So does resume, unless a coroutine resumes one that waits for it.
LEMMA ResumeFine ==
    ASSUME ~ResumesNormal, Fine(State), Resume
    PROVE  Fine(State)'
<1>1. PICK lev : Situated(lev)
  BY Situation
<1>2. Top.f = "C" /\ Frame.fn \notin Prot
  BY DEF Resume, Prot
<1>3. PICK t \in Coroutines, fn \in Callees :
          /\ ResumesNormal \/ t = Running \/ th[t].ci = <<>> \/ th[t].status # "ok"
          /\ Becomes(auxresume(Waiting, Running, t, fn))
  BY DEF Resume, Waiting
<1>4. /\ Stands(Waiting, lev, Running) /\ Waiting.th = th
      /\ Waiting.cs[Len(Waiting.cs)].f = "C"
      /\ Frame = Waiting.th[Running].ci[Len(Waiting.th[Running].ci)]
  BY <1>1, <1>2, WaitingIs
<1>5. fn \in Names /\ t # MainThread
  BY CalleesNamed, DoAssumption DEF DoAssumption
<1>6. t = Running \/ Waiting.th[t].ci = <<>> \/ Waiting.th[t].status # "ok"
  BY <1>3, <1>4
<1>7. Fine(auxresume(Waiting, Running, t, fn))
  BY <1>2, <1>4, <1>5, <1>6, ResumeKeeps
<1>8. QED
  BY <1>3, <1>7, BecomesFine

\* So does a yield.
LEMMA YieldFine ==
    ASSUME Fine(State), Yield
    PROVE  Fine(State)'
<1>1. PICK lev : Situated(lev)
  BY Situation
<1>2. Top.f = "C" /\ Frame.fn \notin Prot
  BY DEF Yield, Prot
<1>3. Fine(lua_yieldk(State, Running))
  BY <1>1, <1>2, YieldKeeps DEF Situated
<1>4. QED
  BY <1>3, BecomesFine DEF Yield

\* So does an error.
LEMMA ErrorFine ==
    ASSUME Fine(State), Error
    PROVE  Fine(State)'
<1>1. PICK lev : Situated(lev)
  BY Situation
<1>2. (Top.f = "C" /\ Frame.fn \notin Prot) \/ Top.f = "luaV_execute"
  BY DEF Error, Prot
<1>3. Fine(luaG_errormsg(State, Running))
  BY <1>1, <1>2, ErrorKeeps DEF Situated
<1>4. QED
  BY <1>3, BecomesFine DEF Error

\* So does OP_CALL.
LEMMA OpCallFine ==
    ASSUME Fine(State), OpCall
    PROVE  Fine(State)'
<1>1. PICK lev : Situated(lev)
  BY Situation
<1>2. Top.f = "luaV_execute"
  BY DEF OpCall
<1>3. PICK fn \in Callees : Becomes(OpCalled(State, Running, fn))
  BY DEF OpCall, OpCalled
<1>4. Fine(OpCalled(State, Running, fn))
  BY <1>1, <1>2, CalleesNamed, OpCalls DEF Situated
<1>5. QED
  BY <1>3, <1>4, BecomesFine

\* So does OP_RETURN.
LEMMA OpReturnFine ==
    ASSUME Fine(State), OpReturn
    PROVE  Fine(State)'
<1>1. PICK lev : Situated(lev)
  BY Situation
<1>2. Top.f = "luaV_execute"
  BY DEF OpReturn
<1>3. /\ Frame.reentry => Fine(luaD_poscall(State, Running))
      /\ ~Frame.reentry => Fine(Pop(luaD_poscall(State, Running)))
  BY <1>1, <1>2, OpReturns DEF Situated
<1>4. Becomes(IF Frame.reentry THEN luaD_poscall(State, Running) ELSE Pop(luaD_poscall(State, Running)))
  BY DEF OpReturn
<1>5. QED
  BY <1>3, <1>4, BecomesFine

\* So does the return of a C function.
LEMMA ReturnCFine ==
    ASSUME Fine(State), ReturnC
    PROVE  Fine(State)'
<1>1. PICK lev : Situated(lev)
  BY Situation
<1>2. Top.f = "C"
  BY DEF ReturnC
<1>3. Becomes(IF Frame.fn = "host"
              THEN [State EXCEPT !.cs[Len(State.cs)].at = "start", !.res = "ok"]
              ELSE [Pop(luaD_poscall(State, Running)) EXCEPT !.res = "ok"])
  BY StateIs DEF ReturnC
<1>4. Fine([State EXCEPT !.cs[Len(State.cs)].at = "start", !.res = "ok"])
  BY <1>1, <1>2, HostAgain DEF Situated
<1>5. Frame.fn # "host" => Fine([Pop(luaD_poscall(State, Running)) EXCEPT !.res = "ok"])
  BY <1>1, <1>2, CReturns DEF Situated
<1>6. QED
  BY <1>3, <1>4, <1>5, BecomesFine

\* So does the return of luaD_call.
LEMMA CallReturnsFine ==
    ASSUME Fine(State), CallReturns
    PROVE  Fine(State)'
<1>1. PICK lev : Situated(lev)
  BY Situation
<1>2. Top.f = "luaD_call"
  BY DEF CallReturns
<1>3. Becomes(CallEnded(State, Running))
  <2>1. /\ State.th = th /\ State.cs = cstack /\ Top = State.cs[Len(State.cs)]
        /\ Frame = State.th[Running].ci[Len(State.th[Running].ci)]
    BY <1>1 DEF Situated
  <2> DEFINE D == CallLeft(State, Running, Top.allowyield)
             R == IF Last(D.cs).f = "C"
                  THEN CallDone(D, Running, Frame.ypcall, Frame.olderr, Len(th[Running].ci)) ELSE D
  <2>2. Becomes(R)
    BY DEF CallReturns, CallLeft, CallDone
  <2>3. R = CallEnded(State, Running)
    BY <2>1 DEF CallEnded
  <2> HIDE DEF R
  <2>4. QED
    BY <2>2, <2>3
<1>4. Fine(CallEnded(State, Running))
  BY <1>1, <1>2, CallEnds DEF Situated
<1>5. QED
  BY <1>3, <1>4, BecomesFine

\* So does the return of a message handler.
LEMMA HandlerReturnsFine ==
    ASSUME Fine(State), HandlerReturns
    PROVE  Fine(State)'
<1>1. PICK lev : Situated(lev)
  BY Situation
<1>2. Fine(luaD_throw(State, Running, "err"))
  BY <1>1, HandlerKeeps DEF Situated, HandlerReturns
<1>3. QED
  BY <1>2, BecomesFine DEF HandlerReturns

\* So does the end of luaD_rawrunprotected.
LEMMA RunReturnsFine ==
    ASSUME Fine(State), RunReturns
    PROVE  Fine(State)'
<1>1. PICK lev : Situated(lev)
  BY Situation
<1>2. Becomes(RunEnded(State, Running))
  <2>1. State.cs = cstack /\ Top = State.cs[Len(State.cs)]
    BY <1>1 DEF Situated
  <2>2. QED
    BY <2>1 DEF RunReturns, RunEnded, PcallDone
<1>3. Fine(RunEnded(State, Running))
  BY <1>1, RunEnds DEF Situated, RunReturns
<1>4. QED
  BY <1>2, <1>3, BecomesFine

\* So does every turn of unroll.
LEMMA UnrollFine ==
    ASSUME Fine(State), Unroll
    PROVE  Fine(State)'
<1> DEFINE c == State.th[Running].ci
<1>1. PICK lev : Situated(lev)
  BY Situation
<1>2. Top.f = "unroll" /\ c = th[Running].ci
  BY StateIs DEF Unroll
<1>3. Becomes(CASE c = <<>> -> Pop(State)
                [] c # <<>> /\ IsLua(Frame.fn) -> Push(State, Exec(Running))
                [] OTHER -> Finished(State, Running))
  BY StateIs DEF Unroll, Finished
<1>4. CASE c = <<>>
  <2>1. Fine(Pop(State))
    BY <1>1, <1>2, <1>4, UnrollEnds DEF Situated
  <2>2. Becomes(Pop(State))
    BY <1>3, <1>4
  <2>3. QED
    BY <2>1, <2>2, BecomesFine
<1>5. CASE c # <<>> /\ IsLua(Frame.fn)
  <2>1. Fine(Push(State, Exec(Running)))
    BY <1>1, <1>2, <1>5, UnrollExecs DEF Situated
  <2>2. Becomes(Push(State, Exec(Running)))
    BY <1>3, <1>5
  <2>3. QED
    BY <2>1, <2>2, BecomesFine
<1>6. CASE c # <<>> /\ ~IsLua(Frame.fn)
  <2>1. Fine(Finished(State, Running))
    BY <1>1, <1>2, <1>6, UnrollFinishes DEF Situated
  <2>2. Becomes(Finished(State, Running))
    BY <1>3, <1>6
  <2>3. QED
    BY <2>1, <2>2, BecomesFine
<1>7. QED
  BY <1>4, <1>5, <1>6

\* The host is about to run its first chunk.
LEMMA InitFine ==
    ASSUME Init
    PROVE  Fine(State)
<1> DEFINE h == CallInfo("host")
           s == [ci |-> <<h>>, status |-> "ok", fresh |-> FALSE, nny |-> 1, nCcalls |-> 0, errfunc |-> 0]
           u == [ci |-> <<>>, status |-> "ok", fresh |-> TRUE, nny |-> 1, nCcalls |-> 0, errfunc |-> 0]
           b == Body(MainThread, "start")
           lev == [i \in 1..1 |-> 1]
<1>1. h \in Info /\ h.fn = "host" /\ h.ypcall = FALSE /\ h.reentry = FALSE
  BY DEF CallInfo, Info, Names
<1>2. b \in Acts /\ b.f = "C" /\ b.th = MainThread
  BY DEF Body, Acts, CAct, Threads
<1> HIDE DEF h, b
<1>3. <<h>> \in Seq(Info) /\ Len(<<h>>) = 1 /\ <<h>>[1] = h
  BY <1>1
<1>4. <<>> \in Seq(Info) /\ Len(<<>>) = 0
  OBVIOUS
<1>5. /\ s \in LuaState /\ s.ci = <<h>> /\ s.status = "ok" /\ s.nny = 1 /\ s.nCcalls = 0 /\ s.errfunc = 0
      /\ u \in LuaState /\ u.ci = <<>> /\ u.status = "ok" /\ u.nny = 1 /\ u.errfunc = 0
  BY <1>3, <1>4 DEF LuaState
<1>6. th = [t \in Threads |-> IF t = MainThread THEN s ELSE u]
  BY DEF Init, h
<1>7. cstack = <<b>> /\ res = "ok"
  BY DEF Init, b
<1> HIDE DEF s, u
<1>8. cstack \in Seq(Acts) /\ cstack # <<>> /\ Len(cstack) = 1 /\ cstack[1] = b
  BY <1>2, <1>7
<1>9. th \in [Threads -> LuaState] /\ MainThread \in Threads /\ th[MainThread] = s
  BY <1>5, <1>6 DEF Threads
<1>10. State \in Sts
  BY <1>7, <1>8, <1>9 DEF State, Sts
<1>11. lev \in [1..1 -> Nat] /\ lev[1] = 1
  OBVIOUS
<1> HIDE DEF lev
<1>12. Typed(th, cstack, lev)
  BY <1>8, <1>9, <1>11 DEF Typed
<1>13. Nested(cstack, 1) = {} /\ Cardinality(Nested(cstack, 1)) = 0
  <2>1. Nested(cstack, 1) = {}
    BY <1>2, <1>8 DEF Nested, IsRun
  <2>2. QED
    BY <2>1, FS_EmptySet
<1>14. \A t : Calls(cstack, 1, t) = {} /\ Cardinality(Calls(cstack, 1, t)) = 0
  <2>1. \A t : Calls(cstack, 1, t) = {}
    BY <1>2, <1>8 DEF Calls
  <2>2. QED
    BY <2>1, FS_EmptySet
<1>15. CiOK(<<h>>) /\ CiOK(<<>>)
  BY <1>1, <1>3, <1>4 DEF CiOK
<1>16. Handler(<<h>>, 0) = 0
  BY HandlerIs
<1>17. ActiveIn(cstack) = {MainThread}
  BY <1>2, <1>8 DEF ActiveIn
<1>18. Pos(th, cstack, lev, 1)
  BY <1>2, <1>3, <1>5, <1>8, <1>9, <1>11 DEF Pos, IsRun
<1>19. Order(cstack, lev) /\ Protected(cstack)
  BY <1>8 DEF Order, Protected
<1>20. Bottom(th, cstack, lev)
  BY <1>1, <1>2, <1>3, <1>5, <1>8, <1>9, <1>11 DEF Bottom
<1>21. ASSUME NEW t \in Threads PROVE ThOK(th, cstack, t)
  <2>1. CASE t = MainThread
    BY <1>5, <1>8, <1>9, <1>14, <1>15, <1>17, <2>1 DEF ThOK, One
  <2>2. CASE t # MainThread
    <3>1. th[t] = u
      BY <1>6, <2>2
    <3>2. QED
      BY <1>5, <1>15, <1>17, <2>2, <3>1 DEF ThOK
  <2>3. QED
    BY <2>1, <2>2
<1>22. Core(th, cstack, lev)
  BY <1>8, <1>18, <1>19, <1>20, <1>21 DEF Core
<1>23. TopOK(th, cstack, lev)
  BY <1>1, <1>2, <1>3, <1>5, <1>8, <1>9, <1>11, <1>13, <1>16 DEF TopOK, Prot
<1>24. QED
  BY <1>10, <1>12, <1>22, <1>23, StateIs DEF Fine, Good

\* What the invariant says of the running thread and of the others.
LEMMA FineRestored ==
    ASSUME Fine(State)
    PROVE  StateRestored
<1>1. PICK lev : Situated(lev)
  BY Situation
<1>2. Standing(State, lev, Running)
  BY <1>1, StandingFacts DEF Situated
<1>3. /\ Core(th, cstack, lev) /\ TopOK(th, cstack, lev) /\ Typed(th, cstack, lev)
      /\ Top = cstack[Len(cstack)] /\ Frame = th[Running].ci[Len(th[Running].ci)]
      /\ Running = cstack[Len(cstack)].th /\ Running \in Threads
  BY <1>1 DEF Situated, Stands
<1>4. TypeOK
  BY StateIs DEF Fine, Sts, TypeOK, LuaState, Info, Names
<1>5. Len(cstack) \in Nat \ {0}
  BY <1>3, TypedFacts
<1>6. YieldsCounted
  <2>1. ActiveIn(cstack) = Active
    BY DEF Active, ActiveIn
  <2>2. MainThread \in Active
    BY <1>3, <1>5, <2>1 DEF Core, Bottom, ActiveIn
  <2>3. SUFFICES ASSUME NEW t \in Threads
                 PROVE  th[t].nny = Cardinality(Calls(cstack, Len(cstack), t))
                                    + (IF t = MainThread \/ t \notin Active THEN 1 ELSE 0)
    BY DEF YieldsCounted, Calls
  <2>4. ThOK(th, cstack, t)
    BY <1>3 DEF Core
  <2>5. CASE t \in Active
    BY <2>1, <2>4, <2>5 DEF ThOK, One
  <2>6. CASE t \notin Active
    <3>1. Calls(cstack, Len(cstack), t) = {}
      BY <2>1, <2>6 DEF Calls, ActiveIn
    <3>2. Cardinality(Calls(cstack, Len(cstack), t)) = 0
      BY <3>1, FS_EmptySet
    <3>3. th[t].nny = 1
      BY <2>1, <2>4, <2>6 DEF ThOK
    <3>4. QED
      BY <2>6, <3>2, <3>3
  <2>7. QED
    BY <2>5, <2>6
<1>7. DepthCounted
  <2>1. th[Running].nCcalls = Cardinality(Nested(cstack, Len(cstack)))
    BY <1>3 DEF TopOK
  <2>2. QED
    BY <2>1 DEF DepthCounted, Nested, IsRun
<1>8. OnlyContinuationsFinished
  <2> DEFINE c == th[Running].ci
             n == Len(c)
  <2>1. SUFFICES ASSUME Top.f = "unroll", c # <<>>, ~IsLua(Frame.fn)
                 PROVE  /\ Frame.k /\ th[Running].nny = 0
                        /\ Frame.ypcall \/ Top.ud = "yield"
    BY DEF OnlyContinuationsFinished
  <2>2. AtUnroll(State, lev, Running)
    BY <1>1, <2>1, AtUnrollFacts DEF Situated
  <2>3. /\ Running # MainThread /\ n \in Nat /\ (\A j \in 1..n : Soft(c[j]))
        /\ Calls(cstack, Len(cstack), Running) = {}
        /\ Top.ud # "yield" => c[n].ypcall
    BY <1>3, <2>2, StateIs DEF AtUnroll
  <2>4. c \in Seq(Info)
    BY <1>2, StateIs DEF Standing
  <2>5. n >= 1 /\ n \in 1..n
    <3> HIDE DEF c
    <3>1. QED
      BY <2>1, <2>4
  <2>6. Soft(Frame) /\ Frame = c[n]
    BY <1>3, <2>3, <2>5
  <2>7. Frame.k
    BY <2>1, <2>6 DEF Soft
  <2>8. th[Running].nny = Cardinality(Calls(cstack, Len(cstack), Running)) + One(Running = MainThread)
    BY <1>2, StateIs DEF Standing
  <2>9. th[Running].nny = 0
    BY <2>3, <2>8, FS_EmptySet DEF One
  <2>10. QED
    BY <2>3, <2>6, <2>7, <2>9
<1>9. HandlerIsInnermost
  <2>1. SUFFICES ASSUME Top.f = "luaV_execute"
                 PROVE  th[Running].errfunc = Handler(th[Running].ci, Len(th[Running].ci))
    BY DEF HandlerIsInnermost, Handler, Prot
  <2>2. QED
    BY <1>3, <2>1 DEF TopOK
<1>10. QED
  BY <1>4, <1>6, <1>7, <1>8, <1>9 DEF StateRestored

\* Whatever a program that does not resume a coroutine from one that it resumed
\* calls, and however errors and yields cut its calls short: nCcalls, nny and
\* errfunc are those of the calls that are left, and unroll completes only
\* functions with a continuation (luaD_throw, luaD_pcall, lua_resume, recover,
\* unroll and finishCcall of ldo.c).
THEOREM StateIsRestored == ~ResumesNormal => (Spec => []StateRestored)
<1> SUFFICES ASSUME ~ResumesNormal
             PROVE  Spec => []StateRestored
  OBVIOUS
<1>1. Init => Fine(State)
  BY InitFine
<1>2. ASSUME Fine(State), [Next]_vars
      PROVE  Fine(State)'
  <2>1. CASE UNCHANGED vars
    BY <1>2, <2>1 DEF vars, State
  <2>2. CASE Next
    <3>1. CASE Protect
      BY <1>2, <3>1, ProtectFine
    <3>2. CASE CallBack
      BY <1>2, <3>2, CallBackFine
    <3>3. CASE Resume
      BY <1>2, <3>3, ResumeFine
    <3>4. CASE Yield
      BY <1>2, <3>4, YieldFine
    <3>5. CASE Error
      BY <1>2, <3>5, ErrorFine
    <3>6. CASE OpCall
      BY <1>2, <3>6, OpCallFine
    <3>7. CASE OpReturn
      BY <1>2, <3>7, OpReturnFine
    <3>8. CASE ReturnC
      BY <1>2, <3>8, ReturnCFine
    <3>9. CASE CallReturns
      BY <1>2, <3>9, CallReturnsFine
    <3>10. CASE HandlerReturns
      BY <1>2, <3>10, HandlerReturnsFine
    <3>11. CASE RunReturns
      BY <1>2, <3>11, RunReturnsFine
    <3>12. CASE Unroll
      BY <1>2, <3>12, UnrollFine
    <3>13. QED
      BY <2>2, <3>1, <3>2, <3>3, <3>4, <3>5, <3>6, <3>7, <3>8, <3>9, <3>10, <3>11, <3>12 DEF Next
  <2>3. QED
    BY <1>2, <2>1, <2>2
<1>3. Fine(State) /\ [Next]_vars => Fine(State)'
  BY <1>2
<1>4. Fine(State) => StateRestored
  BY FineRestored
<1>5. QED
  BY <1>1, <1>3, <1>4, PTL DEF Spec

=============================================================================
