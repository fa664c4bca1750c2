------------------------------- MODULE LuaDo -------------------------------
(***************************************************************************)
(* Calls, protected calls and coroutines of the Lua interpreter            *)
(* (src/lua/lua-5.3.1/src/ldo.c with lapi.c, ldebug.c, lcorolib.c and       *)
(* lbaselib.c).  The task scheduler and the builders of flake are Lua      *)
(* coroutines that wait inside pcall, so what an error or a yield does to  *)
(* the frames below it is what everything else relies on.                  *)
(*                                                                         *)
(* A Lua thread (lua_State) keeps its own chain of CallInfo frames, but    *)
(* all threads share one C stack.  An error and a yield are both a         *)
(* longjmp to the nearest luaD_rawrunprotected; the frames of the thread   *)
(* survive it and are completed later by unroll, the C activations do not. *)
(* The model keeps both: th[t].ci is the chain of frames, cstack the C     *)
(* activations, innermost last.                                            *)
(*                                                                         *)
(* The functions a program may call, by what they do to the stack:         *)
(*   Lua      a Lua function                                               *)
(*   pcall    a protected call, xpcall one with a message handler          *)
(*   dofile   a C function that calls with a continuation (lua_callk)      *)
(*   sort     a C function that calls without one (a comparison function)  *)
(*   resume   coroutine.resume, wrap a function made by coroutine.wrap     *)
(*   yield    coroutine.yield, error the function error                    *)
(* host and handler are the program that runs the main thread's chunks and *)
(* a message handler.                                                      *)
(***************************************************************************)
EXTENDS Integers, Sequences, FiniteSets, SequencesExt

CONSTANTS Coroutines,       \* the threads made by coroutine.create or wrap
          MainThread,
          Functions,        \* what a program calls, a subset of the list above
          LUAI_MAXCCALLS,   \* the limit on nested C calls
          ErrorCCalls,      \* how far a message handler may go beyond it
          MaxFrames,        \* bound: frames of all threads together
          ResumesNormal     \* may a coroutine resume the one that resumed it?

ASSUME DoAssumption ==
    /\ Functions \subseteq {"Lua", "pcall", "xpcall", "dofile", "sort", "resume", "wrap", "yield", "error"}
    /\ LUAI_MAXCCALLS \in Nat \ {0} /\ ErrorCCalls \in Nat \ {0}
    /\ MaxFrames \in Nat /\ ResumesNormal \in BOOLEAN
    /\ MainThread \notin Coroutines

VARIABLES th,      \* lua_State of every thread
          cstack,  \* the C activations, innermost last
          res      \* what the call that ended last gave its C caller

vars == <<th, cstack, res>>

Threads == Coroutines \union {MainThread}

State == [th |-> th, cs |-> cstack, res |-> res]

Becomes(S) == th' = S.th /\ cstack' = S.cs /\ res' = S.res

\* One C activation on top of the others, and the innermost one gone.
Push(S, a) == [S EXCEPT !.cs = Append(@, a)]
Pop(S) == [S EXCEPT !.cs = Front(@)]

Exec(t) == [f |-> "luaV_execute", th |-> t]
Body(t, at) == [f |-> "C", th |-> t, at |-> at]

Top == Last(cstack)
Running == Top.th
Frame == Last(th[Running].ci)

---------------------------------------------------------------------------
\* CallInfo.  k: a continuation is recorded; ypcall: CIST_YPCALL; reentry:
\* CIST_REENTRY; olderr: old_errfunc.
CallInfo(fn) == [fn |-> fn, reentry |-> FALSE, ypcall |-> FALSE, k |-> FALSE, olderr |-> 0]

IsLua(fn) == fn \in {"Lua", "handler"}

\* A C function's body starts at once; a Lua function waits for luaV_execute.
luaD_precall(S, t, fn) ==
    [S EXCEPT !.th[t].ci = Append(@, CallInfo(fn)),
              !.cs = IF IsLua(fn) THEN @ ELSE Append(@, Body(t, "start"))]

luaD_poscall(S, t) == [S EXCEPT !.th[t].ci = Front(@)]

\* Where an error or a yield of thread t lands: the luaD_rawrunprotected that
\* was entered last for t (L->errorJmp).
errorJmp(S, t) ==
    CHOOSE i \in 1..Len(S.cs) :
        /\ S.cs[i].f = "run" /\ S.cs[i].th = t
        /\ \A j \in (i + 1)..Len(S.cs) : ~(S.cs[j].f = "run" /\ S.cs[j].th = t)

\* Wrong: the first frame with a pending pcall.
findFirstPcall(ci) ==
    LET Y == {i \in 1..Len(ci) : ci[i].ypcall}
    IN  IF Y = {} THEN 0 ELSE CHOOSE i \in Y : \A j \in Y : i <= j

\* The last frame with a pending pcall that has to be finished by unroll; 0
\* if there is none.
findpcall(ci) ==
    LET Y == {i \in 1..Len(ci) : ci[i].ypcall}
    IN  IF Y = {} THEN 0 ELSE CHOOSE i \in Y : \A j \in Y : j <= i

\* The end of lua_resume: control is back in the C function that resumed t.
lua_resume_ends(S, t, run, out) ==
    [S EXCEPT !.th[t].nny = run.nny,
              !.th[t].nCcalls = @ - 1,
              !.cs = Append(Front(Front(S.cs)), [Last(Front(S.cs)) EXCEPT !.at = "done"]),
              !.res = out]

\* recover: the thread goes on in the frame of the pcall it found, whose
\* callee is to be finished with the error status.
recover(S, t, i, status) ==
    LET ci == S.th[t].ci
    IN  [S EXCEPT !.th[t].ci = SubSeq(ci, 1, i),
                  !.th[t].nny = 0,
                  !.th[t].errfunc = ci[i].olderr,
                  !.cs = Append(@, [f |-> "unroll", th |-> t, ud |-> status])]

\* The part of lua_resume after an error that the call of resume met.
resume_fails(S, t, run, status) ==
    LET i == findpcall(S.th[t].ci)
    IN  IF i # 0
        THEN recover(S, t, i, status)
        ELSE lua_resume_ends([S EXCEPT !.th[t].status = status], t, run, status)

\* The end of luaD_pcall when its function failed.
luaD_pcall_fails(S, t, run, status) ==
    [S EXCEPT !.th[t].ci = SubSeq(@, 1, run.ci),
              !.th[t].nny = run.nny,
              !.th[t].errfunc = run.errfunc,
              !.cs = Append(Front(Front(S.cs)), Body(t, "done")),
              !.res = status]

\* Wrong: nCcalls stays as it was where the error happened.
unwindKeepsDepth(S, t, i) == [S EXCEPT !.cs = SubSeq(@, 1, i)]

\* The longjmp to activation i, where luaD_rawrunprotected restores nCcalls.
Unwind(S, t, i) == [S EXCEPT !.cs = SubSeq(@, 1, i), !.th[t].nCcalls = S.cs[i].nCcalls]

\* luaD_throw: the caller of luaD_rawrunprotected deals with the status.
luaD_throw(S, t, status) ==
    LET i == errorJmp(S, t)
        run == S.cs[i]
        U == Unwind(S, t, i)
    IN  CASE run.of = "pcall" -> luaD_pcall_fails(U, t, run, status)
          [] run.of = "resume" /\ status = "resume_error" -> lua_resume_ends(U, t, run, "err")
          [] run.of = "resume" /\ status = "yield" -> lua_resume_ends(U, t, run, "ok")
          [] OTHER -> resume_fails(U, t, run, status)

\* A call without a continuation forbids yields until it returns.
NonYieldable(nny, allowyield) == IF allowyield THEN nny ELSE nny + 1

\* luaD_call within the limit.
EnterCall(S, t, fn, allowyield) ==
    LET C == Push([S EXCEPT !.th[t].nny = NonYieldable(@, allowyield)],
                  [f |-> "luaD_call", th |-> t, allowyield |-> allowyield])
        P == luaD_precall(C, t, fn)
    IN  IF IsLua(fn) THEN Push(P, Exec(t)) ELSE P

\* luaD_call of a function at any depth but the limit: beyond it a message
\* handler has some room, and at the end of that there is no more handling.
CallPast(S, t, fn, allowyield) ==
    LET C == [S EXCEPT !.th[t].nCcalls = @ + 1]
    IN  IF C.th[t].nCcalls >= LUAI_MAXCCALLS + ErrorCCalls
        THEN luaD_throw(C, t, "errerr")
        ELSE EnterCall(C, t, fn, allowyield)

\* luaD_call at the limit fails with an error, which is luaG_errormsg's.
StackOverflow(S, t) ==
    LET C == Push([S EXCEPT !.th[t].nCcalls = @ + 1],
                  [f |-> "luaD_call", th |-> t, allowyield |-> TRUE])
    IN  IF S.th[t].errfunc # 0
        THEN CallPast(Push(C, [f |-> "luaG_errormsg", th |-> t]), t, "handler", FALSE)
        ELSE luaD_throw(C, t, "err")

luaD_call(S, t, fn, allowyield) ==
    IF S.th[t].nCcalls + 1 = LUAI_MAXCCALLS
    THEN StackOverflow(S, t)
    ELSE CallPast(S, t, fn, allowyield)

\* The message handler of the running protected call is called first, where
\* the error happened.
luaG_errormsg(S, t) ==
    IF S.th[t].errfunc # 0
    THEN luaD_call(Push(S, [f |-> "luaG_errormsg", th |-> t]), t, "handler", FALSE)
    ELSE luaD_throw(S, t, "err")

\* lua_callk: a continuation counts only where the thread may yield.
lua_callk(S, t, fn, k) ==
    IF k /\ S.th[t].nny = 0
    THEN luaD_call([S EXCEPT !.th[t].ci[Len(S.th[t].ci)].k = TRUE], t, fn, TRUE)
    ELSE luaD_call(S, t, fn, FALSE)

luaD_rawrunprotected(S, t, of) ==
    Push(S, [f |-> "run", th |-> t, of |-> of, ci |-> Len(S.th[t].ci),
             nCcalls |-> S.th[t].nCcalls, nny |-> S.th[t].nny, errfunc |-> S.th[t].errfunc])

\* lua_pcallk: where the thread may yield, the call is left to the protection
\* of lua_resume and the frame marked as a recovery point; elsewhere it is
\* protected by a longjmp target of its own (luaD_pcall, f_call).
lua_pcallk(S, t, fn, func, k) ==
    LET n == Len(S.th[t].ci)
        old == S.th[t].errfunc
    IN  IF ~k \/ S.th[t].nny > 0
        THEN luaD_call([luaD_rawrunprotected(S, t, "pcall") EXCEPT !.th[t].errfunc = func],
                       t, fn, FALSE)
        ELSE luaD_call([S EXCEPT !.th[t].ci[n].k = TRUE,
                                 !.th[t].ci[n].ypcall = TRUE,
                                 !.th[t].ci[n].olderr = old,
                                 !.th[t].errfunc = func],
                       t, fn, TRUE)

lua_yieldk(S, t) ==
    IF S.th[t].nny > 0
    THEN luaG_errormsg(S, t)
    ELSE luaD_throw([S EXCEPT !.th[t].status = "yield"], t, "yield")

\* The work of lua_resume in protected mode: a fresh coroutine enters its
\* function fn, a suspended one finishes the frame of yield and goes on in
\* unroll, any other gives an error that concerns the call of resume only.
resume(S, t, fn) ==
    LET ci == S.th[t].ci
        P == luaD_precall([S EXCEPT !.th[t].fresh = FALSE], t, fn)
        fails == \/ S.th[t].nCcalls >= LUAI_MAXCCALLS
                 \/ S.th[t].status = "ok" /\ ci # <<>>
                 \/ S.th[t].status \notin {"ok", "yield"}
    IN  IF fails THEN luaD_throw(S, t, "resume_error")
        ELSE IF S.th[t].status = "ok" THEN IF IsLua(fn) THEN Push(P, Exec(t)) ELSE P
        ELSE Push(luaD_poscall([S EXCEPT !.th[t].status = "ok"], t),
                  [f |-> "unroll", th |-> t, ud |-> "yield"])

lua_resume(S, from, t, fn) ==
    LET R == luaD_rawrunprotected(S, t, "resume")
    IN  resume([R EXCEPT !.th[t].nCcalls = S.th[from].nCcalls + 1,
                         !.th[t].nny = 0,
                         !.cs[Len(R.cs)].nCcalls = S.th[from].nCcalls + 1],
               t, fn)

\* auxresume: a coroutine whose function has returned has nothing on its stack.
auxresume(S, from, t, fn) ==
    IF S.th[t].status = "ok" /\ S.th[t].ci = <<>> /\ ~S.th[t].fresh
    THEN [S EXCEPT !.cs[Len(S.cs)].at = "done", !.res = "err"]
    ELSE lua_resume(S, from, t, fn)

\* finishCcall: what the call of an interrupted C function left to do; its
\* continuation (finishpcall, dofilecont) returns at once.
finishCcall(S, t) ==
    LET n == Len(S.th[t].ci)
        c == S.th[t].ci[n]
        E == IF c.ypcall THEN [S EXCEPT !.th[t].errfunc = c.olderr] ELSE S
    IN  luaD_poscall(E, t)

---------------------------------------------------------------------------
\* The host runs a chunk in the main thread with lua_pcall, and another one
\* when it has ended.  lua_newthread and lua_newstate set nny to 1.
Init ==
    /\ th = [t \in Threads |->
                [ci |-> IF t = MainThread THEN <<CallInfo("host")>> ELSE <<>>,
                 status |-> "ok", fresh |-> t # MainThread,
                 nny |-> 1, nCcalls |-> 0, errfunc |-> 0]]
    /\ cstack = <<Body(MainThread, "start")>>
    /\ res = "ok"

Frames == FoldFunction(LAMBDA s, n : Len(s.ci) + n, 0, th)

\* A callee: any function, as long as the bound on frames leaves room for what
\* it calls itself.
Callees ==
    {fn \in Functions : Frames + (IF fn \in {"Lua", "yield", "error"} THEN 1 ELSE 2) <= MaxFrames}

\* The protected calls; their callee runs under the handler of xpcall or none.
Protect ==
    /\ Top.f = "C" /\ Top.at = "start" /\ Frame.fn \in {"host", "pcall", "xpcall"}
    /\ \E fn \in Callees :
          Becomes(lua_pcallk([State EXCEPT !.cs[Len(cstack)].at = "wait"], Running, fn,
                             IF Frame.fn = "xpcall" THEN Len(th[Running].ci) ELSE 0,
                             Frame.fn # "host"))

\* sort and dofile call a function of the program.
CallBack ==
    /\ Top.f = "C" /\ Top.at = "start" /\ Frame.fn \in {"sort", "dofile"}
    /\ \E fn \in Callees :
          Becomes(lua_callk([State EXCEPT !.cs[Len(cstack)].at = "wait"], Running, fn,
                            Frame.fn = "dofile"))

\* resume and wrap.  Which coroutine is the program's choice.
Resume ==
    /\ Top.f = "C" /\ Top.at = "start" /\ Frame.fn \in {"resume", "wrap"}
    /\ \E t \in Coroutines, fn \in Callees :
          /\ ResumesNormal \/ t = Running \/ th[t].ci = <<>> \/ th[t].status # "ok"
          /\ Becomes(auxresume([State EXCEPT !.cs[Len(cstack)].at = "wait"], Running, t, fn))

Yield ==
    /\ Top.f = "C" /\ Top.at = "start" /\ Frame.fn = "yield"
    /\ Becomes(lua_yieldk(State, Running))

\* error, an operation of a Lua function that fails, and a function made by
\* wrap whose coroutine ended with an error.
Error ==
    /\ \/ Top.f = "C" /\ Top.at = "start" /\ Frame.fn = "error"
       \/ Top.f = "luaV_execute"
       \/ Top.f = "C" /\ Top.at = "done" /\ Frame.fn = "wrap" /\ res # "ok"
    /\ Becomes(luaG_errormsg(State, Running))

\* OP_CALL: a Lua function runs in the same luaV_execute.
OpCall ==
    /\ Top.f = "luaV_execute"
    /\ \E fn \in Callees :
          LET P == luaD_precall(State, Running, fn)
              n == Len(P.th[Running].ci)
          IN  Becomes([P EXCEPT !.th[Running].ci[n].reentry = IsLua(fn)])

\* OP_RETURN: luaV_execute ends with the frame it was entered for.
OpReturn ==
    /\ Top.f = "luaV_execute"
    /\ LET P == luaD_poscall(State, Running)
       IN  Becomes(IF Frame.reentry THEN P ELSE Pop(P))

\* A C function returns to luaV_execute or to whoever else called it.  The
\* host starts over.
ReturnC ==
    /\ Top.f = "C" /\ Top.at = "done" /\ ~(Frame.fn = "wrap" /\ res # "ok")
    /\ Becomes(IF Frame.fn = "host"
               THEN [State EXCEPT !.cs[Len(cstack)].at = "start", !.res = "ok"]
               ELSE [Pop(luaD_poscall(State, Running)) EXCEPT !.res = "ok"])

\* The callee of luaD_call has returned; so has, unless luaD_pcall is still
\* to finish, the lua_callk or lua_pcallk that made the call.
CallReturns ==
    /\ Top.f = "luaD_call"
    /\ LET t == Running
           n == Len(th[t].ci)
           C == Pop([State EXCEPT !.th[t].nny = IF Top.allowyield THEN @ ELSE @ - 1,
                                  !.th[t].nCcalls = @ - 1])
       IN  Becomes(IF Last(C.cs).f = "C"
                   THEN [C EXCEPT !.cs[Len(C.cs)].at = "done", !.res = "ok",
                                  !.th[t].errfunc = IF Frame.ypcall THEN Frame.olderr ELSE @,
                                  !.th[t].ci[n].ypcall = FALSE]
                   ELSE C)

\* The message handler has returned: the error is thrown.
HandlerReturns ==
    /\ Top.f = "luaG_errormsg"
    /\ Becomes(luaD_throw(State, Running, "err"))

\* The function of luaD_pcall or of lua_resume has returned without an error.
RunReturns ==
    /\ Top.f = "run"
    /\ Becomes(IF Top.of = "pcall"
               THEN [State EXCEPT !.th[Running].errfunc = Top.errfunc, !.res = "ok",
                                  !.cs = Append(Front(Front(cstack)), Body(Running, "done"))]
               ELSE lua_resume_ends(State, Running, Top, "ok"))

\* unroll: the frames of an interrupted coroutine are completed one by one.
Unroll ==
    /\ Top.f = "unroll"
    /\ LET N == [State EXCEPT !.cs[Len(cstack)].ud = "yield"]
       IN  Becomes(CASE th[Running].ci = <<>> -> Pop(State)
                     [] th[Running].ci # <<>> /\ IsLua(Frame.fn) -> Push(State, Exec(Running))
                     [] OTHER -> finishCcall(N, Running))

Next ==
    \/ Protect \/ CallBack \/ Resume \/ Yield \/ Error
    \/ OpCall \/ OpReturn \/ ReturnC \/ CallReturns \/ HandlerReturns \/ RunReturns \/ Unroll

Spec == Init /\ [][Next]_vars

---------------------------------------------------------------------------
TypeOK ==
    /\ th \in [Threads -> [ci : Seq([fn : Functions \union {"host", "handler"},
                                     reentry : BOOLEAN, ypcall : BOOLEAN, k : BOOLEAN,
                                     olderr : Nat]),
                           status : {"ok", "yield", "err", "errerr"}, fresh : BOOLEAN,
                           nny : Nat, nCcalls : Nat, errfunc : Nat]]
    /\ res \in {"ok", "err", "errerr"}

\* The threads that are not suspended, dead or new have an lua_resume (or are
\* the main thread) on the C stack.
Active == {cstack[i].th : i \in 1..Len(cstack)}

\* nny counts exactly the calls of a thread that cannot be interrupted, plus
\* one for the main thread and for a thread that is not running.  Were it
\* lower, a yield would throw away a C function that nobody completes; were it
\* higher, a coroutine would lose the right to yield.
YieldsCounted ==
    \A t \in Threads :
        LET calls == {i \in 1..Len(cstack) :
                         cstack[i].th = t /\ cstack[i].f = "luaD_call" /\ ~cstack[i].allowyield}
        IN  th[t].nny = Cardinality(calls) + (IF t = MainThread \/ t \notin Active THEN 1 ELSE 0)

\* nCcalls of the running thread counts the C calls and the resumes of all
\* threads that are nested on the C stack, so the limit bounds the real depth.
DepthCounted ==
    LET nested == {i \in 1..Len(cstack) : \/ cstack[i].f = "luaD_call"
                                          \/ cstack[i].f = "run" /\ cstack[i].of = "resume"}
    IN  th[Running].nCcalls = Cardinality(nested)

\* The assertion at the end of resume (ldo.c): a coroutine that ran to its end
\* leaves nCcalls as it found it.
ResumeBalanced ==
    Top.f = "run" => th[Running].nCcalls = Top.nCcalls

\* The assertions of finishCcall: an interrupted C function has a continuation
\* and may run it, and only a protected call is finished with an error.
OnlyContinuationsFinished ==
    Top.f = "unroll" /\ th[Running].ci # <<>> /\ ~IsLua(Frame.fn) =>
        /\ Frame.k /\ th[Running].nny = 0
        /\ Frame.ypcall \/ Top.ud = "yield"

\* An error always has the handler of the innermost protected call of the
\* thread that raises it, after any recovery, yield or resume.
HandlerIsInnermost ==
    Top.f = "luaV_execute" =>
        LET ci == th[Running].ci
            P == {i \in 1..Len(ci) : ci[i].fn \in {"host", "pcall", "xpcall"}}
            i == CHOOSE i \in P : \A j \in P : j <= i
        IN  th[Running].errfunc = IF P # {} /\ ci[i].fn = "xpcall" THEN i ELSE 0

\* What an error, a yield or a resume must restore is restored: the depth of C
\* calls (nCcalls), the right to yield (nny), the message handler (errfunc), and
\* only C functions with a continuation are left to be finished.
StateRestored ==
    TypeOK /\ YieldsCounted /\ DepthCounted /\ OnlyContinuationsFinished /\ HandlerIsInnermost

---------------------------------------------------------------------------
\* What the coroutines look like to the program that uses them: coroutine.status
\* (luaB_costatus), the functions each is in, the chain of resumes, and how the
\* call that the running function waited for came out.
costatus(t) ==
    CASE t = Running -> "running"
      [] t # Running /\ th[t].status = "yield" -> "suspended"
      [] t # Running /\ th[t].status = "ok" /\ th[t].ci # <<>> -> "normal"
      [] t # Running /\ th[t].status = "ok" /\ th[t].ci = <<>> /\ th[t].fresh -> "suspended"
      [] OTHER -> "dead"

ChainOf == SelectSeq(cstack, LAMBDA a : a.f = "run" /\ a.of = "resume")

OutOf ==
    CASE Top.f = "C" /\ Top.at = "done" -> res
      [] Top.f = "luaG_errormsg" -> "raise"
      [] Top.f = "luaD_call" -> IF cstack[Len(cstack) - 1].f = "luaG_errormsg" THEN "raise" ELSE "ok"
      [] Top.f = "unroll" /\ th[Running].ci # <<>> /\ ~IsLua(Frame.fn) ->
            IF Top.ud = "yield" THEN "ok" ELSE Top.ud
      [] Top.f = "unroll" /\ th[Running].ci = <<>> -> "ok"
      [] Top.f = "run" -> "ok"
      [] OTHER -> "none"

Abstract == INSTANCE LuaCoroutines
    WITH stack <- [t \in Threads |-> [i \in DOMAIN th[t].ci |-> th[t].ci[i].fn]],
         state <- [t \in Threads |-> costatus(t)],
         chain <- <<MainThread>> \o [i \in DOMAIN ChainOf |-> ChainOf[i].th],
         out <- OutOf

\* Errors and yields, which the interpreter implements with longjmp and by
\* rebuilding the calls that were interrupted, behave as LuaCoroutines says.
ImplementsCoroutines == Abstract!Spec

============================================================================
