------------------------------- MODULE XPProc -------------------------------
(***************************************************************************)
(* Child processes in luau/xpio_c.c: spawning, the SIGCHLD handler and its *)
(* pipe, the child waiters of the task queues, reaping, and what           *)
(* process:wait() reports.                                                 *)
(*                                                                         *)
(* Three things run concurrently: the interpreter, the children, and the   *)
(* signal handler, which interrupts the interpreter anywhere.  Signals are *)
(* not counted: one is pending or none is.  The kernel frees a pid when    *)
(* waitpid returns it and may then give it to another child.               *)
(***************************************************************************)
EXTENDS Integers, FiniteSets, TLC

CONSTANTS
    Proc,          \* process objects
    Pid,           \* process ids
    Queue,         \* task queues; nested dispatch loops have one each
    Outcome,       \* how a child can end: <<"exit", code>> or <<"signal", number>>
    None,
    Warm           \* was a process spawned, and reaped, before?

SIGKILL == 9

ASSUME ProcAssumption ==
    /\ Pid \subseteq Nat \ {0}
    /\ Outcome \subseteq ({"exit"} \X (0..255)) \cup ({"signal"} \X (1..64))
    /\ None \notin Proc \cup Pid \cup Queue
    /\ Warm \in BOOLEAN

VARIABLES
    kernel,     \* pid -> "free", "running" or "zombie"
    word,       \* pid -> the status word of a zombie
    born,       \* history: pid -> the object whose spawn made the process
    ended,      \* history: object -> how its process ended
    pending,    \* is a SIGCHLD pending?
    pipe,       \* number of bytes in sigchldPipe
    installed,  \* has xpproc_init run?
    list,       \* gpHeadProc
    pid,        \* object -> me->pid
    status,     \* object -> me->status
    waits,      \* object -> the queue whose childWaiters has a task for it
    told,       \* object -> what process:wait() returned
    pc,         \* what the interpreter is doing
    queue,      \* the queue whose wait() is executing, or the object being spawned
    updated     \* xpproc_reap: numUpdated > 0

kernelVars == <<kernel, word, born, ended>>
signalVars == <<pending, pipe, installed>>
objVars    == <<list, pid, status, waits, told>>
loopVars   == <<pc, queue, updated>>
vars       == <<kernelVars, signalVars, objVars, loopVars>>

-----------------------------------------------------------------------------
(* The status word of waitpid, and the macros that take it apart.          *)

Word(o)         == IF o[1] = "exit" THEN o[2] * 256 ELSE o[2]
WIFEXITED(w)    == w % 128 = 0
WEXITSTATUS(w)  == (w \div 256) % 256
WSTOPSIG(w)     == WEXITSTATUS(w)

\* xpproc_try_wait of an exited process.  waitpid is called without WUNTRACED,
\* so a process that has not exited was terminated by a signal.
Decode(w) == IF WIFEXITED(w) THEN <<"exit", WEXITSTATUS(w)>>
                             ELSE <<"signal", WSTOPSIG(w)>>

TypeOK ==
    /\ kernel \in [Pid -> {"free", "running", "zombie"}]
    /\ word \in [Pid -> Nat]
    /\ born \in [Pid -> Proc \cup {None}]
    /\ ended \in [Proc -> Outcome \cup {<<"signal", SIGKILL>>, None}]
    /\ pending \in BOOLEAN /\ pipe \in Nat /\ installed \in BOOLEAN
    /\ list \subseteq Proc
    /\ pid \in [Proc -> Pid \cup {0, -1}]
    /\ status \in [Proc -> Nat]
    /\ waits \in [Proc -> Queue \cup {None}]
    /\ pc \in {"lua", "forked", "failed", "poll", "reap"}
    /\ queue \in Queue \cup Proc \cup {None}
    /\ updated \in BOOLEAN

Init ==
    /\ kernel = [k \in Pid |-> "free"]
    /\ word = [k \in Pid |-> 0]
    /\ born = [k \in Pid |-> None]
    /\ ended = [p \in Proc |-> None]
    /\ pending = FALSE /\ pipe = 0 /\ installed = Warm
    /\ list = {}
    /\ pid = [p \in Proc |-> 0]
    /\ status = [p \in Proc |-> 0]
    /\ waits = [p \in Proc |-> None]
    /\ told = [p \in Proc |-> None]
    /\ pc = "lua" /\ queue = None /\ updated = FALSE

Unborn(p) == p \notin list /\ ended[p] = None /\ \A k \in Pid : born[k] # p

-----------------------------------------------------------------------------
(* Spawning.                                                               *)

\* _spawn: fork() makes a child ...
Fork(p, k) ==
    /\ pc = "lua"
    /\ Unborn(p)
    /\ kernel[k] = "free"
    /\ kernel' = [kernel EXCEPT ![k] = "running"]
    /\ born' = [born EXCEPT ![k] = p]
    /\ pc' = "forked" /\ queue' = p
    /\ UNCHANGED <<word, ended, signalVars, objVars, updated>>

\* ... or returns -1 ...
ForkFails(p) ==
    /\ pc = "lua"
    /\ Unborn(p)
    /\ pc' = "failed" /\ queue' = p
    /\ UNCHANGED <<kernelVars, signalVars, objVars, updated>>

\* ... and in the parent xpproc_new makes an object, initialising the module if
\* this is the first one, and the object gets what fork returned.
New ==
    LET p == queue
    IN  /\ pc \in {"forked", "failed"}
        /\ list' = list \cup {p}
        /\ installed' = TRUE
        /\ pid' = [pid EXCEPT ![p] = IF pc = "failed" THEN -1
                                     ELSE CHOOSE k \in Pid : born[k] = p]
        /\ pc' = "lua" /\ queue' = None
        /\ UNCHANGED <<kernelVars, pending, pipe, status, waits, told, updated>>

-----------------------------------------------------------------------------
(* The end of a child, and the handler.                                    *)

\* Children become zombies and the parent gets a SIGCHLD, which is discarded
\* when no handler is installed.
End(K, o) ==
    /\ kernel' = [k \in Pid |-> IF k \in K THEN "zombie" ELSE kernel[k]]
    /\ word' = [k \in Pid |-> IF k \in K THEN Word(o) ELSE word[k]]
    /\ ended' = [p \in Proc |-> IF \E k \in K : born[k] = p THEN o ELSE ended[p]]
    /\ pending' = (pending \/ (installed /\ K # {}))

ChildEnds(k, o) ==
    /\ kernel[k] = "running"
    /\ End({k}, o)
    /\ UNCHANGED <<born, pipe, installed, objVars, loopVars>>

\* handleSIGCHLD
Handler ==
    /\ pending
    /\ pending' = FALSE
    /\ pipe' = pipe + 1
    /\ UNCHANGED <<kernelVars, installed, objVars, loopVars>>

-----------------------------------------------------------------------------
(* The methods of a process object.                                        *)

\* Process:wait(): try_wait says "retry" and the task registers as a waiter
WhenWait(p, u) ==
    /\ pc = "lua"
    /\ p \in list /\ pid[p] > 0 /\ waits[p] = None
    /\ waits' = [waits EXCEPT ![p] = u]
    /\ UNCHANGED <<kernelVars, signalVars, list, pid, status, told, loopVars>>

\* Process:wait() returns
TryWait(p) ==
    /\ pc = "lua"
    /\ p \in list /\ pid[p] <= 0 /\ waits[p] = None
    /\ told' = [told EXCEPT ![p] = Decode(status[p])]
    /\ UNCHANGED <<kernelVars, signalVars, list, pid, status, waits, loopVars>>

\* kill(n, SIGKILL): a zombie stays what it is, and -1 means every process
Signal(n) == End({k \in Pid : kernel[k] = "running" /\ n \in {k, -1}}, <<"signal", SIGKILL>>)

\* process:kill()
Kill(p) ==
    /\ pc = "lua"
    /\ p \in list /\ pid[p] > 0
    /\ Signal(pid[p])
    /\ UNCHANGED <<born, pipe, installed, objVars, loopVars>>

\* The collector runs xpproc_dtor.  A waited-for object is a key of
\* childWaiters and is not collected.
Dtor(p) ==
    /\ pc = "lua"
    /\ p \in list /\ waits[p] = None
    /\ list' = list \ {p}
    /\ pid' = [pid EXCEPT ![p] = 0]
    /\ told' = [told EXCEPT ![p] = None]
    /\ IF pid[p] # 0 THEN Signal(pid[p]) ELSE UNCHANGED <<kernel, word, ended, pending>>
    /\ UNCHANGED <<born, pipe, installed, status, waits, loopVars>>

-----------------------------------------------------------------------------
(* xpqueue_wait.                                                           *)

\* Wrong variants of wakeChildWaiters: no waiter is woken; the slot of a woken
\* one is set to false instead of nil.
wakeNobody(u) == waits
wakeFalse(u)  == [p \in Proc |-> IF waits[p] = u /\ pid[p] = 0 THEN FALSE ELSE waits[p]]

\* XPQueue_wakeChildWaiters: the waiters of exited processes become ready
wakeChildWaiters(u) ==
    [p \in Proc |-> IF waits[p] = u /\ pid[p] = 0 THEN None ELSE waits[p]]

\* tq:wait up to poll()
Wait(u) ==
    /\ pc = "lua"
    /\ waits' = wakeChildWaiters(u)
    /\ pc' = "poll" /\ queue' = u
    /\ UNCHANGED <<kernelVars, signalVars, list, pid, status, told, updated>>

\* Does poll() watch the signal pipe?
Watching == \E p \in Proc : waits[p] = queue

\* poll() finds the signal pipe readable; xpproc_reap empties it
PollSignal ==
    /\ pc = "poll"
    /\ Watching /\ pipe > 0
    /\ pc' = "reap" /\ updated' = FALSE
    /\ pipe' = 0
    /\ UNCHANGED <<kernelVars, pending, installed, objVars, queue>>

\* poll() returns for another reason only: a socket, the timeout, or at once
\* because a waiter was woken
PollOther ==
    /\ pc = "poll"
    /\ ~(Watching /\ pipe > 0)
    /\ pc' = "lua" /\ queue' = None
    /\ UNCHANGED <<kernelVars, signalVars, objVars, updated>>

\* Wrong variant of Waitpid: the object keeps the pid.
WaitpidKeeps(k) ==
    /\ pc = "reap"
    /\ kernel[k] = "zombie"
    /\ kernel' = [kernel EXCEPT ![k] = "free"]
    /\ updated' = TRUE
    /\ UNCHANGED <<word, born, ended, signalVars, objVars, pc, queue>>

\* xpproc_reap: waitpid(-1) returns a zombie; its object, if still listed, is
\* updated
Waitpid(k) ==
    LET P == {p \in list : pid[p] = k}
    IN  /\ pc = "reap"
        /\ kernel[k] = "zombie"
        /\ kernel' = [kernel EXCEPT ![k] = "free"]
        /\ pid' = [p \in Proc |-> IF p \in P THEN 0 ELSE pid[p]]
        /\ status' = [p \in Proc |-> IF p \in P THEN word[k] ELSE status[p]]
        /\ updated' = (updated \/ P # {})
        /\ UNCHANGED <<word, born, ended, signalVars, list, waits, told, pc, queue>>

\* Wrong variant of ReapEnds: one child is reaped for each signal.
ReapEndsSoon ==
    /\ pc = "reap"
    /\ updated
    /\ waits' = wakeChildWaiters(queue)
    /\ pc' = "lua" /\ queue' = None
    /\ UNCHANGED <<kernelVars, signalVars, list, pid, status, told, updated>>

\* waitpid finds no zombie, and the waiters are looked at again
ReapEnds ==
    /\ pc = "reap"
    /\ \A k \in Pid : kernel[k] # "zombie"
    /\ waits' = IF updated THEN wakeChildWaiters(queue) ELSE waits
    /\ pc' = "lua" /\ queue' = None
    /\ UNCHANGED <<kernelVars, signalVars, list, pid, status, told, updated>>

Next ==
    \/ \E p \in Proc, k \in Pid : Fork(p, k)
    \/ \E p \in Proc : ForkFails(p) \/ TryWait(p) \/ Kill(p) \/ Dtor(p)
    \/ New
    \/ \E k \in Pid, o \in Outcome : ChildEnds(k, o)
    \/ Handler
    \/ \E p \in Proc, u \in Queue : WhenWait(p, u)
    \/ \E u \in Queue : Wait(u)
    \/ PollSignal \/ PollOther
    \/ \E k \in Pid : Waitpid(k)
    \/ ReapEnds

Spec == Init /\ [][Next]_vars

\* A pending signal is delivered; poll() notices a readable pipe; reaping comes
\* to an end; and a dispatch loop calls wait() again and again.  That anything
\* else ends a poll is not assumed.
FairSpec ==
    /\ Spec
    /\ WF_vars(Handler)
    /\ WF_vars(New) /\ WF_vars(PollSignal)
    /\ WF_vars(\E k \in Pid : Waitpid(k)) /\ WF_vars(ReapEnds)
    /\ \A u \in Queue : SF_vars(Wait(u))

-----------------------------------------------------------------------------
(* Properties.                                                             *)

\* An interpreter that sleeps in poll() for a child that has ended will be
\* woken: a signal is pending, or the pipe it watches has a byte.
EndIsNoticed ==
    pc = "poll" /\ (\E p \in Proc : waits[p] = queue /\ pid[p] > 0 /\ kernel[pid[p]] = "zombie")
    => pending \/ pipe > 0

\* A process object stands for the child its spawn made until the child is
\* reaped, although pids are used again: kill() and the destructor signal no
\* other process.
OwnPid ==
    \A p \in list : pid[p] > 0 => born[pid[p]] = p /\ kernel[pid[p]] # "free"

\* wait() reports what happened (xpio.md: "The process was terminated by a
\* signal, which is identified by <num>").
StatusTold == \A p \in list : told[p] # None /\ ended[p] # None => told[p] = ended[p]

\* Whoever waits for a child that has ended is woken.
WaiterWoken ==
    \A p \in Proc : waits[p] # None /\ ended[p] # None ~> waits[p] = None

=============================================================================
