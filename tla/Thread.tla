------------------------------- MODULE Thread -------------------------------
(***************************************************************************)
(* The cooperative scheduler of luau/thread.lua: one dispatch context, its *)
(* task objects and the code that runs in their coroutines.                *)
(*                                                                         *)
(* One OS thread runs everything, so a step is atomic between two calls of *)
(* the library.  What the start functions and the atExit handlers do is    *)
(* left open: running code may call any function of the library in any     *)
(* order, may return and may raise an error.  An atExit handler runs in    *)
(* the coroutine that called kill (or in the one that is exiting), and it  *)
(* is ordinary code: it can kill, create and wait for tasks itself.  The   *)
(* nested taskRunAtExits loops of a coroutine are its `stack`.             *)
(*                                                                         *)
(* The queues of luau/queue.lua are sequences (put = Append, first = Head, *)
(* remove = RemoveFirst), and so is the heap of luau/heap.lua, an array.    *)
(* The task queue of xpio_c.c is `io`, one slot per descriptor and         *)
(* direction (or per child process).                                       *)
(***************************************************************************)
EXTENDS Integers, FiniteSets, SequencesExt

CONSTANTS
    Task,            \* the task objects that may be created
    MainTask,        \* the one thread.dispatch creates
    Key,             \* slots of the xpio task queue a task can wait in
    None,            \* Lua's nil
    TicksPerMs,      \* clock ticks in the millisecond poll() counts in
    MaxNow,          \* bound: the clock stops here
    MaxAtExits,      \* bound: user handlers registered with one task
    SelfKill,        \* may code call thread.kill on its own task?
    BlockInHandler,  \* may an atExit handler call a blocking function?
    RaiseInHandler,  \* may an atExit handler raise an error?
    ShareKey         \* may two tasks wait in one slot at the same time?

ASSUME ThreadAssumption ==
    /\ MainTask \in Task
    /\ None \notin Task \cup Key
    /\ Key \cap {"A", "B"} = {} /\ None \notin {"A", "B"}
    /\ TicksPerMs \in Nat \ {0}
    /\ MaxNow \in Nat /\ MaxAtExits \in Nat
    /\ {SelfKill, BlockInHandler, RaiseInHandler, ShareKey} \subseteq BOOLEAN

VARIABLES
    pc,        \* where the dispatch loop is
    cur,       \* currentTask
    co,        \* task -> its coroutine: absent, in fn, past fn, dead
    results,   \* task -> its results field (and failed), by kind
    all,       \* me.all: unfinished tasks
    stack,     \* coroutine -> tasks whose atExits it is running, outermost first
    code,      \* coroutine -> "user" code or the "exits" loop is in control
    joining,   \* task -> local `task` of the join it is suspended in
    dq,        \* task -> which function its _dequeue is
    dqData,    \* task -> _dequeuedata
    dqTask,    \* task -> _dequeueTask
    atExits,   \* task -> its stack of exit entries
    q,         \* the two Queue objects
    ready,     \* the one the upvalue `ready` names; the other one is `run`
    sleepers,  \* the tasks in the Heap, in insertion order
    timeDue,   \* task -> timeDue
    io,        \* slot -> the task xpio's queue holds there
    woken,     \* the tasks tq:wait returned that are not ready yet
    now,       \* xpio.gettime()
    tNow,      \* the reading the loop compares sleepers with
    deadline   \* when poll() gives up; -1 for never

taskVars  == <<co, results, all, stack, code, joining>>
queueVars == <<dq, dqData, dqTask, atExits, q, sleepers, timeDue, io>>
loopVars  == <<pc, cur, ready, woken>>
timeVars  == <<now, tNow, deadline>>
vars      == <<taskVars, queueVars, loopVars, timeVars>>

QObj    == {"A", "B"}
Runner  == Task \cup {None}   \* a coroutine, or the code that called dispatch
Created == {t \in Task : co[t] # "absent"}
run     == CHOOSE o \in QObj : o # ready

\* The entry that table.pack(joinWake, t) makes, and one made by user code.
JoinEntry(t) == [fn |-> "joinWake", arg |-> t]
UserEntry    == [fn |-> "user", arg |-> None]
Entry        == {JoinEntry(t) : t \in Task} \cup {UserEntry}

TypeOK ==
    /\ pc \in {"swap", "run", "task", "wait", "poll", "wake", "sleepers",
               "dtor", "done", "error"}
    /\ cur \in Task \cup {None}
    /\ co \in [Task -> {"absent", "fn", "exiting", "dead"}]
    /\ results \in [Task -> {"nil", "values", "error", "killed"}]
    /\ all \subseteq Task
    /\ stack \in [Runner -> Seq(Task)]
    /\ code \in [Runner -> {"user", "exits"}]
    /\ joining \in [Task -> Task \cup {None}]
    /\ dq \in [Task -> {"nil", "queue", "sleep", "join", "io"}]
    /\ dqData \in [Task -> QObj \cup Key \cup {None}]
    /\ dqTask \in [Task -> Task \cup {None}]
    /\ atExits \in [Task -> Seq(Entry)]
    /\ q \in [QObj -> Seq(Task)]
    /\ ready \in QObj
    /\ sleepers \in Seq(Task)
    /\ timeDue \in [Task -> Nat]
    /\ io \in [Key -> Task \cup {None}]
    /\ woken \subseteq Task
    /\ now \in Nat /\ tNow \in Nat /\ deadline \in Int

\* thread.dispatch: newDispatch, then taskNew of the main task.
Init ==
    /\ pc = "swap" /\ cur = None
    /\ co = [t \in Task |-> IF t = MainTask THEN "fn" ELSE "absent"]
    /\ results = [t \in Task |-> "nil"]
    /\ all = {MainTask}
    /\ stack = [r \in Runner |-> <<>>]
    /\ code = [r \in Runner |-> "user"]
    /\ joining = [t \in Task |-> None]
    /\ dq = [t \in Task |-> IF t = MainTask THEN "queue" ELSE "nil"]
    /\ dqData = [t \in Task |-> IF t = MainTask THEN "A" ELSE None]
    /\ dqTask = [t \in Task |-> None]
    /\ atExits = [t \in Task |-> <<>>]
    /\ q = [o \in QObj |-> IF o = "A" THEN <<MainTask>> ELSE <<>>]
    /\ ready = "A"
    /\ sleepers = <<>>
    /\ timeDue = [t \in Task |-> 0]
    /\ io = [k \in Key |-> None]
    /\ woken = {}
    /\ now = 0 /\ tNow = 0 /\ deadline = -1

-----------------------------------------------------------------------------
(* The building blocks: putting a task in a queue and taking it out.       *)

\* me.makeReady
makeReady(t) ==
    /\ dq' = [dq EXCEPT ![t] = "queue"]
    /\ dqData' = [dqData EXCEPT ![t] = ready]
    /\ q' = [q EXCEPT ![ready] = Append(@, t)]

\* Wrong variant of wakeAt: the delay is kept instead of the time.
wakeAtDelay(t, due) ==
    /\ dq' = [dq EXCEPT ![t] = "sleep"]
    /\ timeDue' = [timeDue EXCEPT ![t] = due - now]
    /\ sleepers' = Append(sleepers, t)

\* me.wakeAt
wakeAt(t, due) ==
    /\ dq' = [dq EXCEPT ![t] = "sleep"]
    /\ timeDue' = [timeDue EXCEPT ![t] = due]
    /\ sleepers' = Append(sleepers, t)

\* Wrong variant of dqQueue: it looks in the ready queue.
dqReady(t) ==
    /\ dq[t] = "queue"
    /\ q' = [q EXCEPT ![ready] = RemoveFirst(@, t)]
    /\ dqData' = [dqData EXCEPT ![t] = None]
    /\ dq' = [dq EXCEPT ![t] = "nil"]
    /\ UNCHANGED <<dqTask, atExits, sleepers, timeDue, io>>

\* task:_dequeue(), whichever function it is
dqQueue(t) ==
    /\ dq[t] = "queue"
    /\ q' = [q EXCEPT ![dqData[t]] = RemoveFirst(@, t)]
    /\ dqData' = [dqData EXCEPT ![t] = None]
    /\ dq' = [dq EXCEPT ![t] = "nil"]
    /\ UNCHANGED <<dqTask, atExits, sleepers, timeDue, io>>

dqSleeper(t) ==
    /\ dq[t] = "sleep"
    /\ sleepers' = RemoveFirst(sleepers, t)
    /\ dq' = [dq EXCEPT ![t] = "nil"]
    /\ UNCHANGED <<dqData, dqTask, atExits, q, timeDue, io>>

\* Wrong variant of joinDequeue: the atExit entry stays.
joinForget(t) ==
    /\ dq[t] = "join"
    /\ dq' = [dq EXCEPT ![t] = "nil"]
    /\ dqTask' = [dqTask EXCEPT ![t] = None]
    /\ UNCHANGED <<dqData, atExits, q, sleepers, timeDue, io>>

joinDequeue(t) ==
    /\ dq[t] = "join"
    /\ atExits' = [atExits EXCEPT ![dqTask[t]] = RemoveFirst(@, JoinEntry(t))]
    /\ dq' = [dq EXCEPT ![t] = "nil"]
    /\ dqTask' = [dqTask EXCEPT ![t] = None]
    /\ UNCHANGED <<dqData, q, sleepers, timeDue, io>>

xpqueue_dequeue(t) ==
    /\ dq[t] = "io"
    /\ io' = [io EXCEPT ![dqData[t]] = None]
    /\ dq' = [dq EXCEPT ![t] = "nil"]
    /\ UNCHANGED <<dqData, dqTask, atExits, q, sleepers, timeDue>>

dequeue(t) ==
    \/ dqQueue(t)
    \/ dqSleeper(t)
    \/ joinDequeue(t)
    \/ xpqueue_dequeue(t)
    \/ dq[t] = "nil" /\ UNCHANGED queueVars

\* Wrong variant of taskDelete: the task stays on its queue.
taskDeleteQueued(r, t) ==
    /\ UNCHANGED queueVars
    /\ stack' = [stack EXCEPT ![r] = Append(@, t)]
    /\ code' = [code EXCEPT ![r] = "exits"]

\* taskDelete(t) called by coroutine r: take t off its queue and enter the
\* loop of taskRunAtExits.  The rest of taskDelete is FinishExits.
taskDelete(r, t) ==
    /\ dequeue(t)
    /\ stack' = [stack EXCEPT ![r] = Append(@, t)]
    /\ code' = [code EXCEPT ![r] = "exits"]

-----------------------------------------------------------------------------
(* User code: a start function, or an atExit handler.                      *)

\* r is in control, and user code rather than the library is executing.
Active(r) ==
    \/ pc = "task" /\ r = cur
    \/ pc = "dtor" /\ r = None /\ stack[None] # <<>>

UserRuns(r) ==
    /\ Active(r)
    /\ code[r] = "user"
    /\ r \in Task => joining[r] = None

InHandler(r) == stack[r] # <<>>

\* coroutine.yield(): control goes back to the dispatch loop.
Suspend ==
    /\ pc' = "run"
    /\ UNCHANGED <<cur, ready, woken>>

\* A blocking function is called by the current task.
MayBlock ==
    /\ pc = "task"
    /\ UserRuns(cur)
    /\ InHandler(cur) => BlockInHandler

\* thread.new
New(r, t) ==
    /\ UserRuns(r)
    /\ co[t] = "absent"
    /\ co' = [co EXCEPT ![t] = "fn"]
    /\ all' = all \cup {t}
    /\ makeReady(t)
    /\ UNCHANGED <<results, stack, code, joining, dqTask, atExits, sleepers,
                   timeDue, io, loopVars, timeVars>>

\* thread.yield
Yield ==
    /\ MayBlock
    /\ makeReady(cur)
    /\ Suspend
    /\ UNCHANGED <<taskVars, dqTask, atExits, sleepers, timeDue, io, timeVars>>

\* thread.join of a task without results; joining a finished task returns or
\* raises at once and changes nothing.
Join(t) ==
    /\ MayBlock
    /\ t \in Created
    /\ results[t] = "nil"
    /\ atExits' = [atExits EXCEPT ![t] = Append(@, JoinEntry(cur))]
    /\ dq' = [dq EXCEPT ![cur] = "join"]
    /\ dqTask' = [dqTask EXCEPT ![cur] = t]
    /\ joining' = [joining EXCEPT ![cur] = t]
    /\ Suspend
    /\ UNCHANGED <<co, results, all, stack, code, dqData, q, sleepers,
                   timeDue, io, timeVars>>

\* The rest of thread.join, after coroutine.yield() came back.  The error of a
\* failed task is raised by the caller's next step.
JoinReturn ==
    /\ pc = "task"
    /\ joining[cur] # None
    /\ joining' = [joining EXCEPT ![cur] = None]
    /\ UNCHANGED <<co, results, all, stack, code, queueVars, loopVars, timeVars>>

\* thread.sleepUntil; thread.sleep(d) is sleepUntil(now + d)
SleepUntil(due) ==
    /\ MayBlock
    /\ wakeAt(cur, due)
    /\ Suspend
    /\ UNCHANGED <<taskVars, dqData, dqTask, atExits, q, io, timeVars>>

\* A blocking function of xpio found nothing to do and calls xpqueue_enqueue,
\* which overwrites the slot.
xpqueue_enqueue(k) ==
    /\ MayBlock
    /\ ShareKey \/ io[k] = None
    /\ io' = [io EXCEPT ![k] = cur]
    /\ dq' = [dq EXCEPT ![cur] = "io"]
    /\ dqData' = [dqData EXCEPT ![cur] = k]
    /\ Suspend
    /\ UNCHANGED <<taskVars, dqTask, atExits, q, sleepers, timeDue, timeVars>>

\* thread.atExit
AtExit ==
    /\ pc = "task"
    /\ UserRuns(cur)
    /\ Cardinality({i \in DOMAIN atExits[cur] : atExits[cur][i].fn = "user"}) < MaxAtExits
    /\ atExits' = [atExits EXCEPT ![cur] = Append(@, UserEntry)]
    /\ UNCHANGED <<taskVars, dq, dqData, dqTask, q, sleepers, timeDue, io,
                   loopVars, timeVars>>

\* thread.cancelAtExit of an entry user code made
CancelAtExit(i) ==
    /\ pc = "task"
    /\ UserRuns(cur)
    /\ i \in DOMAIN atExits[cur]
    /\ atExits[cur][i] = UserEntry
    /\ atExits' = [atExits EXCEPT ![cur] = RemoveAt(@, i)]
    /\ UNCHANGED <<taskVars, dq, dqData, dqTask, q, sleepers, timeDue, io,
                   loopVars, timeVars>>

\* thread.kill; without effect when the task has results
Kill(r, t) ==
    /\ UserRuns(r)
    /\ t \in Created
    /\ t = cur => SelfKill
    /\ results[t] = "nil"
    /\ results' = [results EXCEPT ![t] = "killed"]
    /\ taskDelete(r, t)
    /\ UNCHANGED <<co, all, joining, loopVars, timeVars>>

\* The start function returns: the rest of preamble.
Return ==
    /\ pc = "task"
    /\ UserRuns(cur)
    /\ ~InHandler(cur)
    /\ co' = [co EXCEPT ![cur] = "exiting"]
    /\ results' = [results EXCEPT ![cur] = "values"]
    /\ taskDelete(cur, cur)
    /\ UNCHANGED <<all, joining, loopVars, timeVars>>

\* The start function raises, or a handler does and nothing between it and the
\* start function catches the error: xpcall of preamble does.
Fail ==
    /\ pc = "task"
    /\ UserRuns(cur)
    /\ co[cur] = "fn"
    /\ InHandler(cur) => RaiseInHandler
    /\ co' = [co EXCEPT ![cur] = "exiting"]
    /\ results' = [results EXCEPT ![cur] = "error"]
    /\ all' = all \ {cur}
    /\ dequeue(cur)
    /\ stack' = [stack EXCEPT ![cur] = <<cur>>]
    /\ code' = [code EXCEPT ![cur] = "exits"]
    /\ UNCHANGED <<joining, loopVars, timeVars>>

\* A handler raises and code n frames up, which called kill under pcall,
\* catches the error.
Catch(r, n) ==
    /\ UserRuns(r)
    /\ RaiseInHandler
    /\ n < Len(stack[r])
    /\ n = 0 => r \in Task /\ co[r] = "fn"
    /\ stack' = [stack EXCEPT ![r] = SubSeq(@, 1, n)]
    /\ UNCHANGED <<co, results, all, code, joining, queueVars, loopVars, timeVars>>

\* A handler returns to the loop of taskRunAtExits.
HandlerReturn(r) ==
    /\ UserRuns(r)
    /\ InHandler(r)
    /\ code' = [code EXCEPT ![r] = "exits"]
    /\ UNCHANGED <<co, results, all, stack, joining, queueVars, loopVars, timeVars>>

-----------------------------------------------------------------------------
(* The loop of taskRunAtExits, and what follows it in taskDelete.          *)

ExitsRun(r) ==
    /\ Active(r)
    /\ code[r] = "exits"

PopEntry(t) == [atExits EXCEPT ![t] = Front(@)]

\* Wrong variant of JoinWake: the joiner is not made ready.
JoinWakeLost(r) ==
    LET t == Last(stack[r])
    IN  /\ ExitsRun(r)
        /\ atExits[t] # <<>>
        /\ Last(atExits[t]).fn = "joinWake"
        /\ atExits' = PopEntry(t)
        /\ UNCHANGED <<taskVars, dq, dqData, dqTask, q, sleepers, timeDue, io,
                       loopVars, timeVars>>

\* the next entry is a joinWake
JoinWake(r) ==
    LET t == Last(stack[r])
        j == Last(atExits[t]).arg
    IN  /\ ExitsRun(r)
        /\ atExits[t] # <<>>
        /\ Last(atExits[t]).fn = "joinWake"
        /\ atExits' = PopEntry(t)
        /\ dqTask' = [dqTask EXCEPT ![j] = None]
        /\ makeReady(j)
        /\ UNCHANGED <<taskVars, sleepers, timeDue, io, loopVars, timeVars>>

\* the next entry is user code
CallHandler(r) ==
    LET t == Last(stack[r])
    IN  /\ ExitsRun(r)
        /\ atExits[t] # <<>>
        /\ Last(atExits[t]).fn = "user"
        /\ atExits' = PopEntry(t)
        /\ code' = [code EXCEPT ![r] = "user"]
        /\ UNCHANGED <<co, results, all, stack, joining, dq, dqData, dqTask, q,
                       sleepers, timeDue, io, loopVars, timeVars>>

\* Wrong variant of FinishExits: the loop runs one entry at most.
FinishEarly(r) ==
    LET t == Last(stack[r])
        outer == Front(stack[r])
        ends == outer = <<>> /\ r \in Task /\ co[r] = "exiting"
    IN  /\ ExitsRun(r)
        /\ all' = all \ {t}
        /\ stack' = [stack EXCEPT ![r] = outer]
        /\ code' = [code EXCEPT ![r] = "user"]
        /\ IF ends THEN co' = [co EXCEPT ![r] = "dead"] /\ pc' = "run"
                   ELSE UNCHANGED <<co, pc>>
        /\ UNCHANGED <<results, joining, queueVars, cur, ready, woken, timeVars>>

\* No entry is left.  A nested loop returns to the handler that called kill, an
\* outermost one to the start function, to preamble's end or to dtor's loop.
FinishExits(r) ==
    LET t == Last(stack[r])
        outer == Front(stack[r])
        ends == outer = <<>> /\ r \in Task /\ co[r] = "exiting"
    IN  /\ ExitsRun(r)
        /\ atExits[t] = <<>>
        /\ all' = all \ {t}
        /\ stack' = [stack EXCEPT ![r] = outer]
        /\ code' = [code EXCEPT ![r] = "user"]
        /\ IF ends THEN co' = [co EXCEPT ![r] = "dead"] /\ pc' = "run"
                   ELSE UNCHANGED <<co, pc>>
        /\ UNCHANGED <<results, joining, queueVars, cur, ready, woken, timeVars>>

-----------------------------------------------------------------------------
(* The dispatch loop.                                                      *)

\* Wrong variant of SwapQueues: the queues are not exchanged.
SwapNothing ==
    /\ pc = "swap"
    /\ pc' = "run"
    /\ UNCHANGED <<taskVars, queueVars, cur, ready, woken, timeVars>>

\* run, ready = ready, run
SwapQueues ==
    /\ pc = "swap"
    /\ ready' = run
    /\ pc' = "run"
    /\ UNCHANGED <<taskVars, queueVars, cur, woken, timeVars>>

\* currentTask = run:first(); dequeue it and resume its coroutine
Resume ==
    /\ pc = "run"
    /\ q[run] # <<>>
    /\ cur' = Head(q[run])
    /\ dequeue(Head(q[run]))
    /\ pc' = "task"
    /\ UNCHANGED <<taskVars, ready, woken, timeVars>>

RunEmpty ==
    /\ pc = "run"
    /\ q[run] = <<>>
    /\ cur' = None
    /\ pc' = "wait"
    /\ UNCHANGED <<taskVars, queueVars, ready, woken, timeVars>>

\* Wrong variant of FirstSleeper: a queue instead of a heap.
FirstInserted(t) == sleepers # <<>> /\ t = Head(sleepers)

\* t is sleepers:first(), the earliest entry with the least timeDue
FirstSleeper(t) ==
    \E i \in DOMAIN sleepers :
        /\ t = sleepers[i]
        /\ \A j \in DOMAIN sleepers :
              /\ timeDue[t] <= timeDue[sleepers[j]]
              /\ j < i => timeDue[t] < timeDue[sleepers[j]]

\* xpqueue_wait's timeout: whole milliseconds, never negative
PollTime(d) == IF d < 0 THEN 0 ELSE (d \div TicksPerMs) * TicksPerMs

\* Wrong variant of Wait: sleepers do not bound the wait.
WaitForever ==
    /\ pc = "wait"
    /\ \/ q[ready] # <<>> /\ deadline' = now
       \/ /\ q[ready] = <<>>
          /\ sleepers # <<>> \/ \E k \in Key : io[k] # None
          /\ deadline' = -1
    /\ pc' = "poll"
    /\ UNCHANGED <<taskVars, queueVars, cur, ready, woken, now, tNow>>

\* tq:wait(timeout) is entered
Wait ==
    /\ pc = "wait"
    /\ \/ /\ q[ready] # <<>>
          /\ deadline' = now
       \/ /\ q[ready] = <<>>
          /\ \E t \in Task : FirstSleeper(t) /\ deadline' = now + PollTime(timeDue[t] - now)
       \/ /\ q[ready] = <<>> /\ sleepers = <<>>
          /\ \E k \in Key : io[k] # None
          /\ deadline' = -1
    /\ pc' = "poll"
    /\ UNCHANGED <<taskVars, queueVars, cur, ready, woken, now, tNow>>

\* Wrong variant of Break: sleepers do not keep the loop going.
BreakAsleep ==
    /\ pc = "wait"
    /\ q[ready] = <<>>
    /\ \A k \in Key : io[k] = None
    /\ pc' = IF results[MainTask] = "error" THEN "error" ELSE "done"
    /\ UNCHANGED <<taskVars, queueVars, cur, ready, woken, timeVars>>

\* tq:wait returns nil and nothing is ready: leave the loop.  dtor finds the
\* ready queue empty; thread.dispatch raises the main task's error.
Break ==
    /\ pc = "wait"
    /\ q[ready] = <<>> /\ sleepers = <<>>
    /\ \A k \in Key : io[k] = None
    /\ pc' = IF results[MainTask] = "error" THEN "error" ELSE "done"
    /\ UNCHANGED <<taskVars, queueVars, cur, ready, woken, timeVars>>

\* poll() returns; the tasks in the slots K that have an event are dequeued
PollReturn(K) ==
    /\ pc = "poll"
    /\ \A k \in K : io[k] # None
    /\ K = {} => deadline # -1 /\ now >= deadline
    /\ woken' = {io[k] : k \in K}
    /\ io' = [k \in Key |-> IF k \in K THEN None ELSE io[k]]
    /\ dq' = [t \in Task |-> IF t \in woken' THEN "nil" ELSE dq[t]]
    /\ pc' = "wake"
    /\ UNCHANGED <<taskVars, dqData, dqTask, atExits, q, sleepers, timeDue,
                   cur, ready, timeVars>>

\* task:makeReady() for each task of the result; the order is lua_next's
WakeTask(t) ==
    /\ pc = "wake"
    /\ t \in woken
    /\ makeReady(t)
    /\ woken' = woken \ {t}
    /\ UNCHANGED <<taskVars, dqTask, atExits, sleepers, timeDue, io, pc, cur,
                   ready, timeVars>>

\* tNow = xpio.gettime()
ReadClock ==
    /\ pc = "wake"
    /\ woken = {}
    /\ tNow' = now
    /\ pc' = "sleepers"
    /\ UNCHANGED <<taskVars, queueVars, cur, ready, woken, now, deadline>>

\* dequeue the first sleeper and make it ready
WakeSleeper(t) ==
    /\ pc = "sleepers"
    /\ FirstSleeper(t)
    /\ timeDue[t] <= tNow
    /\ sleepers' = RemoveFirst(sleepers, t)
    /\ makeReady(t)
    /\ UNCHANGED <<taskVars, dqTask, atExits, timeDue, io, loopVars, timeVars>>

NoneDue ==
    /\ pc = "sleepers"
    /\ \A t \in Task : FirstSleeper(t) => timeDue[t] > tNow
    /\ pc' = "swap"
    /\ UNCHANGED <<taskVars, queueVars, cur, ready, woken, timeVars>>

\* An error leaves preamble: coroutine.resume returns false and the loop calls
\* me:dtor() before it raises the error itself.
Abort ==
    /\ pc = "task"
    /\ UserRuns(cur)
    /\ InHandler(cur) /\ RaiseInHandler
    /\ co[cur] = "exiting"
    /\ co' = [co EXCEPT ![cur] = "dead"]
    /\ stack' = [stack EXCEPT ![cur] = <<>>]
    /\ pc' = "dtor"
    /\ UNCHANGED <<results, all, code, joining, queueVars, cur, ready, woken,
                   timeVars>>

\* me:dtor: taskDelete the first ready task
DtorDelete ==
    /\ pc = "dtor"
    /\ stack[None] = <<>>
    /\ q[ready] # <<>>
    /\ taskDelete(None, Head(q[ready]))
    /\ UNCHANGED <<co, results, all, joining, loopVars, timeVars>>

\* dtor is through, or a handler it runs raises: the error leaves dispatch.
DtorEnd ==
    /\ pc = "dtor"
    /\ \/ stack[None] = <<>> /\ q[ready] = <<>>
       \/ UserRuns(None) /\ RaiseInHandler
    /\ pc' = "error"
    /\ UNCHANGED <<taskVars, queueVars, cur, ready, woken, timeVars>>

\* The clock advances.  Between two reads of it only the total matters, so it
\* stands still while the loop moves tasks about.
Tick ==
    /\ pc \in {"task", "poll"}
    /\ now < MaxNow
    /\ now' = now + 1
    /\ UNCHANGED <<taskVars, queueVars, loopVars, tNow, deadline>>

Halted == pc \in {"done", "error"} /\ UNCHANGED vars

UserStep ==
    \/ \E r \in Runner, t \in Task : New(r, t) \/ Kill(r, t)
    \/ Yield
    \/ \E t \in Task : Join(t)
    \/ JoinReturn
    \/ \E due \in 0..MaxNow : SleepUntil(due)
    \/ \E k \in Key : xpqueue_enqueue(k)
    \/ AtExit
    \/ \E i \in 1..(Cardinality(Task) + MaxAtExits) : CancelAtExit(i)
    \/ Return
    \/ Fail
    \/ \E r \in Runner, n \in 0..Cardinality(Task) : Catch(r, n)
    \/ \E r \in Runner : HandlerReturn(r)

ExitStep == \E r \in Runner : JoinWake(r) \/ CallHandler(r) \/ FinishExits(r)

LoopStep ==
    \/ SwapQueues
    \/ Resume
    \/ RunEmpty
    \/ Wait
    \/ Break
    \/ \E K \in SUBSET Key : PollReturn(K)
    \/ \E t \in Task : WakeTask(t) \/ WakeSleeper(t)
    \/ ReadClock
    \/ NoneDue
    \/ Abort
    \/ DtorDelete
    \/ DtorEnd

Next == UserStep \/ ExitStep \/ LoopStep \/ Tick \/ Halted

Spec == Init /\ [][Next]_vars

-----------------------------------------------------------------------------
(* Fairness: coroutines are cooperative, so running code eventually calls  *)
(* something that gives up control or returns; the library and the loop    *)
(* never stop half way; the clock advances however busy the loop is.  That *)
(* an event arrives on a descriptor is not assumed.                        *)

GivesUpControl ==
    \/ Yield
    \/ \E t \in Task : Join(t)
    \/ JoinReturn
    \/ \E due \in 0..MaxNow : SleepUntil(due)
    \/ \E k \in Key : xpqueue_enqueue(k)
    \/ Return
    \/ Fail
    \/ \E r \in Runner : HandlerReturn(r)

LoopAdvances ==
    \/ SwapQueues \/ Resume \/ RunEmpty \/ Wait \/ Break
    \/ PollReturn({})
    \/ \E t \in Task : WakeTask(t) \/ WakeSleeper(t)
    \/ ReadClock \/ NoneDue \/ DtorDelete \/ DtorEnd

FairSpec ==
    /\ Spec
    /\ WF_vars(GivesUpControl)
    /\ WF_vars(ExitStep)
    /\ WF_vars(LoopAdvances)
    /\ SF_vars(Tick)

-----------------------------------------------------------------------------
(* Safety.                                                                 *)

\* s lists the members of S, each once.
Lists(s, S) == IsInjective(s) /\ ToSet(s) = S

\* The joinWake entries in s are those of the tasks in S, one for each.
Wakes(s, S) ==
    /\ \A i, j \in DOMAIN s : s[i].fn = "joinWake" /\ s[i] = s[j] => i = j
    /\ \A j \in Task : j \in S <=> \E i \in DOMAIN s : s[i] = JoinEntry(j)

\* A Queue object holds exactly the tasks whose dqQueue would look in it.
QueuesMatch ==
    /\ \A o \in QObj : Lists(q[o], {t \in Task : dq[t] = "queue" /\ dqData[t] = o})
    /\ \A t \in Task : dq[t] = "queue" => dqData[t] \in QObj

SleepersMatch == Lists(sleepers, {t \in Task : dq[t] = "sleep"})

\* The atExits of a task hold one joinWake entry for each task waiting for it.
JoinsMatch ==
    /\ \A t \in Task : Wakes(atExits[t], {j \in Task : dq[j] = "join" /\ dqTask[j] = t})
    /\ \A j \in Task : dq[j] = "join" => dqTask[j] \in Task

\* A task that waits for an event is the one its slot will wake (xpio.md: a
\* "when" function schedules the task "so that it will become ready").
WaiterRegistered ==
    \A t \in Task : dq[t] = "io" => dqData[t] \in Key /\ io[dqData[t]] = t

IoMatch ==
    /\ \A k \in Key : io[k] # None => dq[io[k]] = "io" /\ dqData[io[k]] = k
    /\ ~ShareKey => WaiterRegistered

\* What is running, about to be made ready, not created yet or dead waits
\* nowhere: the assertions of makeReady, wakeAt and xpqueue_enqueue hold.
OffQueue ==
    /\ pc = "task" => cur \in Task /\ dq[cur] = "nil" /\ cur \notin woken
    /\ \A t \in woken : dq[t] = "nil"
    /\ \A t \in Task : co[t] \in {"absent", "dead"} => dq[t] = "nil"

\* Wherever _dequeue says a task waits, it is there exactly once, and it is
\* nowhere else.  This is what kill, join and the loop rely on when they take
\* a task off "its" queue, across the swap of `run` and `ready`.
ScheduledOnce ==
    /\ QueuesMatch
    /\ SleepersMatch
    /\ JoinsMatch
    /\ IoMatch
    /\ OffQueue

\* thread.kill stops a task for good: it never waits to be resumed and its
\* start function executes no further (thread_q.lua: "Killing a task prevents
\* further callbacks").
KilledStaysDown ==
    \A t \in Task : results[t] = "killed" =>
        dq[t] = "nil" /\ t \notin woken /\ ~(UserRuns(t) /\ ~InHandler(t))

\* Once a task has results and no coroutine is running its exit entries any more,
\* all of them were run: nobody still waits for it, and it is not reported as
\* dangling (thread_q.lua: "Killing a task will awaken other tasks that are
\* waiting on it with join()").  And a join that was woken finds the results.
ExitsComplete ==
    /\ pc = "task" /\ joining[cur] # None => results[joining[cur]] # "nil"
    /\ \A t \in Task :
        results[t] # "nil" /\ (\A r \in Runner : t \notin ToSet(stack[r]))
        => atExits[t] = <<>> /\ t \notin all

\* dispatch returns only when no task can ever run again: what is left waits in
\* join for a task that is itself left, and exactly those are reported as
\* dangling.
ReturnsWhenStuck ==
    pc = "done" =>
        /\ all = {t \in Created : results[t] = "nil"}
        /\ \A t \in all : dq[t] = "join" /\ dqTask[t] \in all

\* A sleeping task is not made ready before its time, truncated poll timeouts
\* notwithstanding, and not while the heap has one that is due before it: it
\* leaves the heap by being killed or because the clock has reached timeDue.
WakesInOrder ==
    [][\A t \in Task : dq[t] = "sleep" /\ dq'[t] = "queue" =>
          /\ timeDue[t] <= now
          /\ \A u \in ToSet(sleepers) : timeDue[t] <= timeDue[u]]_vars

-----------------------------------------------------------------------------
(* Liveness.                                                               *)

\* Round robin: a ready task is resumed (or killed).
ReadyRuns == \A t \in Task : dq[t] = "queue" ~> dq[t] # "queue"

\* A sleeping task is woken (or killed).
SleeperWakes == \A t \in Task : dq[t] = "sleep" ~> dq[t] # "sleep"

\* Whoever joins a task that gets results is released.
JoinerReleased ==
    \A j, t \in Task :
        dq[j] = "join" /\ dqTask[j] = t /\ results[t] # "nil" ~> dq[j] # "join"

=============================================================================
