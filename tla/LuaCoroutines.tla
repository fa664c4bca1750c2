--------------------------- MODULE LuaCoroutines ---------------------------
(***************************************************************************)
(* What the coroutines and protected calls of Lua promise a program, with  *)
(* no C stack: a coroutine is a stack of functions; an error goes to the   *)
(* innermost protected call of the coroutine that raised it, or else ends  *)
(* that coroutine and is the result of its resume; a yield suspends a      *)
(* coroutine with all its functions unless one of them is a C function     *)
(* without a continuation.                                                 *)
(***************************************************************************)
EXTENDS Integers, Sequences, SequencesExt

CONSTANTS Coroutines, MainThread, Functions

VARIABLES stack,  \* the functions each coroutine is in, innermost last
          state,  \* suspended, running, normal or dead
          chain,  \* who resumed whom, the running coroutine last
          out     \* how the call the innermost function made came out:
                  \* none (it is running), ok, err, errerr, or raise when a
                  \* message handler has returned and the error goes on

AllThreads == Coroutines \union {MainThread}

abstractVars == <<stack, state, chain, out>>

me == Last(chain)
fn == Last(stack[me])

Protected == {"host", "pcall", "xpcall"}
Calling == Protected \union {"dofile", "sort", "resume", "wrap"}

\* A coroutine may yield from inside anything but a C function that cannot be
\* continued.
Yieldable(s) == \A i \in 1..Len(s) : s[i] \notin {"host", "sort", "handler"}

\* What the innermost function of s sees when its callee is gone.
OutAt(s) == IF s = <<>> \/ Last(s) \in Calling THEN "ok" ELSE "none"

\* The innermost protected call of s, 0 if there is none.
Innermost(s) ==
    LET P == {i \in 1..Len(s) : s[i] \in Protected}
    IN  IF P = {} THEN 0 ELSE CHOOSE i \in P : \A j \in P : j <= i

Init ==
    /\ stack = [t \in AllThreads |-> IF t = MainThread THEN <<"host">> ELSE <<>>]
    /\ state = [t \in AllThreads |-> IF t = MainThread THEN "running" ELSE "suspended"]
    /\ chain = <<MainThread>>
    /\ out = "none"

\* The innermost function calls f; resume calls the body of a new coroutine.
Call(f) ==
    /\ out = "none" /\ stack[me] # <<>> /\ fn \notin {"yield", "error", "resume", "wrap"}
    /\ stack' = [stack EXCEPT ![me] = Append(@, f)]
    /\ out' = "none"
    /\ UNCHANGED <<state, chain>>

Resume(t, f) ==
    /\ out = "none" /\ stack[me] # <<>> /\ fn \in {"resume", "wrap"}
    /\ state[t] = "suspended"
    /\ stack' = [stack EXCEPT ![t] = IF @ = <<>> THEN <<f>> ELSE Front(@)]
    /\ out' = IF stack[t] = <<>> THEN "none" ELSE OutAt(stack'[t])
    /\ chain' = Append(chain, t)
    /\ state' = [state EXCEPT ![me] = "normal", ![t] = "running"]

\* A resume of a coroutine that is not suspended, or at the limit of C calls,
\* has no effect.
ResumeFails ==
    /\ out = "none" /\ stack[me] # <<>> /\ fn \in {"resume", "wrap"}
    /\ out' = "err"
    /\ UNCHANGED <<stack, state, chain>>

Return ==
    /\ stack[me] # <<>> /\ fn # "host"
    /\ \/ fn \in {"Lua", "handler"} /\ out = "none"
       \/ fn \in Calling /\ out \in {"ok", "err", "errerr"} /\ ~(fn = "wrap" /\ out # "ok")
    /\ stack' = [stack EXCEPT ![me] = Front(@)]
    /\ out' = IF fn = "handler" THEN "raise" ELSE OutAt(stack'[me])
    /\ UNCHANGED <<state, chain>>

\* The host goes on with another chunk.
Again ==
    /\ stack[me] # <<>> /\ fn = "host" /\ out \in {"ok", "err", "errerr"}
    /\ out' = "none"
    /\ UNCHANGED <<stack, state, chain>>

\* The function of a coroutine has returned.
Finish ==
    /\ stack[me] = <<>>
    /\ state' = [state EXCEPT ![me] = "dead", ![chain[Len(chain) - 1]] = "running"]
    /\ chain' = Front(chain)
    /\ out' = "ok"
    /\ UNCHANGED stack

Yield ==
    /\ out = "none" /\ stack[me] # <<>> /\ fn = "yield" /\ Yieldable(stack[me]) /\ me # MainThread
    /\ state' = [state EXCEPT ![me] = "suspended", ![chain[Len(chain) - 1]] = "running"]
    /\ chain' = Front(chain)
    /\ out' = "ok"
    /\ UNCHANGED stack

\* Something raises an error now.
Raises ==
    /\ stack[me] # <<>>
    /\ \/ out = "none" /\ ~(fn = "yield" /\ Yieldable(stack[me]))
       \/ out = "raise"
       \/ fn = "wrap" /\ out \in {"err", "errerr"}

\* The handler of the innermost protected call is called first...
Handle ==
    /\ Raises /\ out # "raise"
    /\ Innermost(stack[me]) # 0 /\ stack[me][Innermost(stack[me])] = "xpcall"
    /\ stack' = [stack EXCEPT ![me] = Append(@, "handler")]
    /\ out' = "none"
    /\ UNCHANGED <<state, chain>>

\* ... unless there is none, or no room on the C stack to run it.
Fail(o) ==
    /\ Raises
    /\ o = "err" => \/ out = "raise"
                    \/ Innermost(stack[me]) = 0
                    \/ stack[me][Innermost(stack[me])] # "xpcall"
    /\ out' = o
    /\ IF Innermost(stack[me]) # 0
       THEN /\ stack' = [stack EXCEPT ![me] = SubSeq(@, 1, Innermost(@))]
            /\ UNCHANGED <<state, chain>>
       ELSE /\ state' = [state EXCEPT ![me] = "dead", ![chain[Len(chain) - 1]] = "running"]
            /\ chain' = Front(chain)
            /\ UNCHANGED stack

Next ==
    \/ \E f \in Functions : Call(f)
    \/ \E t \in Coroutines, f \in Functions : Resume(t, f)
    \/ ResumeFails \/ Return \/ Again \/ Finish \/ Yield \/ Handle
    \/ \E o \in {"err", "errerr"} : Fail(o)

Spec == Init /\ [][Next]_abstractVars
============================================================================
