# Verification of flake

[flake](../src/README.md) is a build tool: a build description calls *builder*
functions, flake evaluates them concurrently and keeps their results in a cache.
It stands on `luau`, a small library with a cooperative scheduler, a poll loop,
sockets and child processes, and both run in the Lua interpreter that the
repository builds and links.  This directory holds TLA+ models of the parts of all
three where order, failure, concurrency or a boundary matter, TLC configurations
that check them on small instances, and TLAPS proofs, for every size, of the central
promises of the scheduler, of child processes and their descriptors, of
`readProcess`, of sockets, of builds and their cache, and of the working directory.

`PROJECT.json` lists the runs, the source lines each definition stands for, the
mutants (wrong variants of definitions, kept next to the right ones in the
modules, that show that a property can fail), the hazards and the findings.

    tlc -workers 2 -config thread_core.cfg MCThread      # a run
    tlapm ThreadProofs.tla                               # a proof

## 1. The system

### Inventory

| Part | State | Operations | Uses / used by |
|---|---|---|---|
| **Scheduler** `luau/thread.lua` | task objects (`_dequeue`, `_dequeuedata`, `_dequeueTask`, `_atExits`, `results`), two queues `run`/`ready`, heap of sleepers, `all`, `currentTask` | `new`, `yield`, `join`, `sleep(Until)`, `atExit`, `cancelAtExit`, `kill`, `dispatch` and its destructor | queue, heap, task queue; used by flake and by every blocking call of xpio |
| **Queue, heap** `luau/queue.lua`, `heap.lua` | an array each | `put`/`first`/`remove`, `first`/`remove` | scheduler |
| **Task queue** `luau/xpio_c.c` 362-760 | tables descriptor -> task, child waiters, `pollfd` array | `wait(timeout)`, enqueue/dequeue | called by `dispatch`; `when_*` functions put tasks in |
| **Child processes** `xpio_c.c` 763-997, 1623-1668, `xpio.lua` | global list of process objects, `pid`, `status`, the SIGCHLD pipe | `spawn`, `wait`, `try_wait`, `when_wait`, `kill`, destructor; the signal handler; reaping inside `wait` of a task queue | kernel; `process.lua` |
| **Descriptors of a child** `fdjuggle` in `xpio.lua`, `_spawn` | the plan: a list of dup2/close actions | one pass over `fdmap` | spawn |
| **Sockets, pipes** `xpio_c.c` 1000-1460, `xpio.lua` | descriptor, closed flag, the waiting tasks | `socket`, `bind`, `listen`, `connect`, `accept`, `read`, `write`, `shutdown`, `close`, `pair`, `fdopen`, collection | task queue, kernel |
| **Evaluation** `flake/flake.lua` | per builder `value`, `valid`, `activeThunk`; `threadBuilderMap` | `startLowering`, `finishLowering`, `lower`, `spark`, `sparkIO`, `computeValue` | scheduler, cache |
| **Result cache** `flake/flake.lua` | `database.results`, `database.builders`, file `.flake/cache.lua` of each directory | `initDatabase`, `save`, `mkBuildName`, digests | file system, SHA-1 |
| **Command line** `flake/main.lua`, `flakeOpts.lua` | config, working directory | load the description, lower the targets, exit code; wrappers of `coroutine.create` and `yield` | evaluation |
| **SHA-1** `sha1/` | state, bit count, partial block | `Init`, `Update`, `Final` | evaluation |
| **Lua collector** `lgc.c` | colours, gray lists, object lists, phase | steps of the cycle, barriers, finalizers | everything that allocates or stores |
| **Lua tables** `ltable.c` | array part, hash part with chains | get, set, resize, next, length | |
| **Lua calls** `ldo.c` | call chains, C stack, `nCcalls`, `nny`, `errfunc` | call, pcall, throw, yield, resume | scheduler's coroutines |
| **Lua compiler** `llex.c`, `lparser.c`, `lcode.c` | token stream, function states, pending jumps | one pass over a chunk | |
| **Lua virtual machine** `lvm.c`, `ldump.c`, `lundump.c` | stack, frames, upvalues | opcodes, precompiled chunks | |
| **Lua libraries** `lstrlib.c`, `ltablib.c`, `lutf8lib.c` | matcher state | patterns, positions, pack, sort, UTF-8 | |
| **Rule libraries** `cIO`, `luaIO`, `systemIO`, `githubIO`, `smarkIO` | none | run compilers etc. | `process.lua` |
| **Helpers** `process`, `path`, `fsu`, `list`, `serialize`, `object`, `getopts`, `xpexec`, `qtest`, `xpfs.c` | none | | |
| **cfromlua** | a batch translator Lua -> C | | |

### What is hard, and what makes each part correct

* *Scheduler.*  A task is in at most one queue, and the function in `_dequeue` is
  the only record of which.  `kill` may come from any task, or from an exit handler
  that itself runs inside another task's `kill`, after the two queues were
  exchanged, while the victim sleeps, joins or waits for a descriptor.  Correct
  means: the record is always true, a killed task never runs again, joins return the
  results and return at all, sleepers wake in order and not early, and `dispatch`
  returns exactly when nothing can run.
* *Child processes.*  The signal handler interrupts the program anywhere, signals
  are merged, pids are used again, and a `wait` of one queue reaps the children of
  another.  Correct means: no end of a child goes unnoticed by a program asleep in
  `poll`, and no object signals a process that is not its own.
* *Descriptors.*  `fdmap` may hold chains, cycles and shared sources; its order is
  that of a hash table.  Forks copy the descriptors of unrelated calls.  Numbers are
  used again as soon as they are closed.
* *Sockets.*  Writes take a part, connections are made later, the peer closes, and a
  task waits with the number of a descriptor in a table.  Correct means: bytes arrive
  once and in order, the end comes after them, and whoever could go on is woken.
* *Evaluation and cache.*  A cache entry is read when a builder is sparked and
  written when its task ends; the cache file is written whole by every task that
  ends.  Builders fail, files change and the program is killed in between.  Correct
  means: two tasks never write to one directory, whatever is called valid equals what a build from nothing would make, and
  what did not change is not built again.
* *Working directory.*  It belongs to the process, all paths are relative to it, and
  coroutines suspend while it is changed.
* *Interpreter.*  The collector runs between any two steps of the program; an error or
  a yield throws away C frames that others count on; a table is changed while it is
  traversed; the compiler patches jumps and merges instructions in one pass; the
  library works at the limits of the integer types.

The list `hazards` in `PROJECT.json` names each such place with its line.

## 2. Modules

| Module | Models | Proofs |
|---|---|---|
| `Thread` | scheduler, with queue, heap and the task queue | `ThreadProofs` |
| `XPProc` | child processes | `XPProcProofs` |
| `FdJuggle` | descriptors of a child | `FdJuggleProofs` |
| `ReadProcess` | `readProcess` of `process.lua` with the pipes between it and its programs | `ReadProcessProofs` |
| `XPSocket`, `XPAddress` | sockets with the tasks that wait for them; numeric addresses | `XPSocketProofs` |
| `Flake` | evaluation and cache of one directory | `FlakeProofs` |
| `WorkDir` | the working directory, several databases | `FlakeProofs` |
| `Sha1` | the digest around its compression function | |
| `LuaGC` | the incremental collector and the program's stores | |
| `LuaTable`, `LuaMap` | tables, and the map they implement | |
| `LuaDo`, `LuaCoroutines` | calls, errors and coroutines with the C stack, and what they promise without it | `LuaDoProofs` |
| `LuaNumber`, `LuaCode`, `LuaParser`, `LuaDump`, `LuaVM`, `LuaChunk` | numbers, code generator, parser, precompiled chunks, one instruction of the virtual machine, a chunk from its text to its results | |
| `LuaReference` | the meaning of a program by its syntax tree; models no code | |
| `LuaLex`, `LuaPattern`, `LuaString`, `LuaPack`, `LuaTabLib`, `LuaUtf8` | lexer and library functions | |
| `PatternReference` | the meaning of a pattern; models no code | |
| `MC*` | instances for TLC: symmetry, programs, inputs, heaps, build descriptions | |
| `SequenceLemmas` | nothing: facts about sequences, minima and small sets that the proofs share | |

Only modules without theorems declare `RECURSIVE` operators.

### Thread

One operating system thread runs everything, so a step is atomic from one library
call to the next.  What start functions and exit handlers do is open: running code
may call any function of the library, return or raise an error.  The state is the
code's: `dq`, `dqData`, `dqTask` are a task's `_dequeue*` fields, `atExits` its
stack of exit entries (those that `join` makes, `JoinEntry`, and those of user
code), `q["A"]` and `q["B"]` the two queue objects with `ready` saying which of them
the upvalue names, `io` the slots of the task queue.  `stack[r]` holds the nested
`taskRunAtExits` loops that coroutine `r` is in, and `code[r]` says whether user code
or such a loop is in control.

`New`, `Yield`, `Join`/`JoinReturn`, `SleepUntil`, `xpqueue_enqueue`, `AtExit`,
`CancelAtExit` and `Kill` are the calls; `Return` and `Fail` end a start function,
`Catch` is an error passing through `taskRunAtExits`; `JoinWake`, `CallHandler`,
`HandlerReturn` and `FinishExits` are the exit loop; `SwapQueues`, `Resume`,
`RunEmpty`, `Wait`, `Break`, `PollReturn`, `WakeTask`, `ReadClock`, `WakeSleeper` and
`NoneDue` are the dispatch loop in its order; `Abort`, `DtorDelete` and `DtorEnd` are
an error that leaves `dispatch`, and its destructor.  The clock moves at any time
(`Tick`), in units smaller than the millisecond to which `poll`'s timeout is
truncated.

Four constants admit things that the code does not rule out but that break what it
promises otherwise: a task that kills itself, handlers that block, handlers that
raise, and two tasks waiting for one descriptor (the second replaces the first in
the table, which then never wakes).  They are off in `thread_core` and on in
`thread_faults`; the theorems name the ones they have to exclude.

### XPProc

The interpreter, the children and the signal handler interleave.  The kernel's side
(`kernel`, `word`, `pending`, `pipe`) is external and modelled from how the code uses
it; status words have their real bit layout and are taken apart by the macros the code
calls.  `Fork` and `New` are the two halves of `xpio__spawn`, between which a child
can end; `Wait`, `PollSignal`/`PollOther`, `Waitpid` and `ReapEnds` are the part of
`xpqueue_wait` about children and `xpproc_reap`, which takes children one at a time
while others go on ending.  `WhenWait` and `TryWait` are `Process:wait`.  `Kill`,
`Dtor` and `ForkFails` include what a failed fork leads to: the object has pid -1.
`Warm` says whether an earlier spawn has installed the handler.  `born` and `ended`
are history, only used in properties.

### FdJuggle

Each dup2 or close is carried out as it is planned, which is the same as planning
first: the plan reads nothing of the child.  Initially the map, the set of open
descriptors and so on are arbitrary.  `pairs` may visit in any order.  The parent's
descriptors are not marked close-on-exec, which nothing in the repository does.

### ReadProcess

Several calls of `readProcess`, each in a task of its own.  The pipes are bounded, and
who has which end open is explicit (`parent`, `child`): a fork copies everything the
parent has, and the file actions before `exec` reduce it to what was granted.  A task
of the parent runs until it has to wait, so `Spawn` goes from the creation of the pipes
to the first write that blocks, or to `proc:wait()`; `WriteMore` and `WriteFails` are
the wakings of a blocked write, `Read` and `ReadEnd` the reader tasks.  Programs are
external: they read, write and end in any order, but do one thing at a time, and
block on a full pipe.  The scheduler and the noticing of the end of a process are those
of `Thread` and `XPProc`, here assumed to work.

### XPSocket and XPAddress

Tasks are coroutines: a call runs until it returns or has to wait in the queue, whose
tables map the number of a descriptor and a direction to a task.  The kernel is
external: streams with bounded room, listeners with a backlog, connections that are
made or refused some time after `connect`, numbers handed out lowest first.  Each
blocking function of `xpio.lua` is its `try_` function, the wait, and the retry;
`close`, the collector's destructor and `kill` of a waiting task may come at any time.
`Exclusive` says that two tasks never use one file in the same direction at a time,
be it through one object or through an object and a copy of its descriptor (`Sharing`), and
that no socket is closed while a call on it waits or made to listen while there are calls
or listeners.
`XPAddress` reads and prints `a.b.c.d:port` with its short forms over digits, with small
octets so that overflow is reached.

### Flake

The main coroutine's nested calls of `lower` are a `stack` of frames: builders still
to be started, tasks to be joined, and values that are builders and are lowered in the
next round.  Tasks only run while main waits in a join, as the scheduler dictates;
their steps interleave because builder functions wait for processes.  `disk` is the
cache file, `mem` the table loaded from it, `obj` the entry objects: an entry made by
`sparkIO` enters the table only when its task starts (`StartTask`), and `TaskOk` and
`TaskErr` save the whole table.  A builder's value is the name of its output file; a
content is the record of everything it was made from, so comparing contents is
comparing digests without collisions.  `Crash` kills the program anywhere, also
between the truncation and the write of the cache file.  `Edit` changes or removes a
source file; `Reverts` says whether old contents may come back (then only between
runs).

### WorkDir

A coroutine is a stack of frames, each the code of one directory; `Enter`/`Leave` are the
`chdir` pairs of `importBuild` and of the functions it returns, `SparkIOIn` and `SparkPureIn`
create tasks, `ResumeThread` and `Yield` contain the wrappers of `main.lua`.  An error unwinds
frames without changing back.  `RaiseNested` admits errors inside code that an IO builder
runs in another directory; see section 6.

### The interpreter

`LuaGC` interleaves `singlestep`s of the collector with single stores of the program, on
heaps of five objects beside the main thread and the registry; each kind of object that
`lgc.c` traverses differently occurs (tables with every weak mode, closures with open and
closed upvalues, prototypes with a cached closure, threads, userdata, strings).  Debt is
left open: a step may come at any allocation.

`LuaTable` keeps the node vector with its `next` offsets and `lastfree`.  `LuaMap` says what
a table promises; the mapping takes a key to the value `luaH_get` finds, and the
traversal to the set of keys visited.

`LuaDo` keeps both the frames of each thread and the C activations that all threads share;
a throw cuts the latter back to the nearest protected call, and `unroll` completes the
former.  `LuaCoroutines` has no C stack; the mapping forgets `cstack`, `nCcalls`, `nny`
and what is only there to be restored.

`LuaParser` and `LuaCode` compile tokens to instructions, `LuaDump` carries them through a
precompiled chunk, `LuaVM` says what one instruction makes of the state (a constant module
whose parameter `S` is the state before), `LuaChunk` runs a chunk instruction by
instruction, and `LuaReference` says what the program should have emitted.  The lexer is
separate: its inputs are characters.

The compiler, the virtual machine and the library are sequential and deterministic, so
they are pure operators: `MCLua` enumerates programs and `MCLuaLibrary` calls, a state is
one of them and whether it has returned, and the properties compare, in the step in which
it returns, the result with a definition that does not follow the code.

## 3. Runs

Parts that share no state are checked in one run, as a sum: a variable says which of
them moves in a behaviour and the others stay as they start.  The states of a sum are
those of its parts, side by side, so nothing is lost by it.

| Run | Checks | Size |
|---|---|---|
| `thread_core` | three tasks, one slot, sleeping, killing, joining, handlers: `TypeOK`, `ScheduledOnce`, `KilledStaysDown`, `ExitsComplete`, `ReturnsWhenStuck`, `WakesInOrder` | 1.8 M states |
| `thread_faults` | two tasks with two handlers each: `ScheduledOnce` when handlers block or raise, a task kills itself, and both wait for one descriptor | 2.7 M states |
| `thread_live` | two tasks under fairness: `ReadyRuns`, `SleeperWakes`, `JoinerReleased` | minutes |
| `proc_wait` | three objects, two pids: `TypeOK`, `EndIsNoticed`, `OwnPid`, `WaiterWoken` | 0.5 M states |
| `xpio_io` | every map over four descriptors; three calls of `readProcess`; a server, a client and a task that makes pairs, copies descriptors and kills: `ChildGetsFdmap`, `CallComplete`, `OwnsDescriptor`, `StreamIntact`, `WaitersWoken`, `CallsEnd` | 0.41 M states |
| `flake_builds` | a diamond with four runs, edits and reverts: `ValidMeansBuilt`, `SuccessIsComplete`, `NothingRecomputed`, `OutputExclusive`; a chain with a pure and an untracked builder, failures, edits during runs and kills: the first three in `ChainKept`; three coroutines in three directories: `DirectoriesKept`; both builds under fairness: `RunsEnd` | 0.73 M states |
| `lua_gc` | the collector: `HeapSound`, `FullCycleCollectsAll`, `FinalizesGarbage` | 0.61 M states |
| `lua_runtime` | tables and coroutines: `StateRestored`, and the refinements `ImplementsMap` and `ImplementsCoroutines` | 0.13 M states |
| `lua_library` | compiled programs and library calls: `MatchesReference`, `CodeSound`, `PatternsAgree`, `StringsAgree`, `ReadsBack` (packed integers, lexemes and addresses), `TablesAgree`, `DigestIsStandard` | 0.42 M states (432 programs, 209 k calls) |

Three runs end with a counterexample; each is a finding of `PROJECT.json`.

| Run | What it shows |
|---|---|
| `flake_siblings_fail` | Two independent builders; one fails while the other has started.  The cache is saved with the other's entry as `valid=false` and without sources, main exits, and the next run takes this entry for a hit with the value nil.  The test at `flake.lua:287` is for `nil` only.  The same test takes the entry for a hit when the same call is made twice in one run and the second is sparked while the first is computed. |
| `proc_signal_number` | The signal number is read with `WSTOPSIG`, and is always 0. |
| `sha1_string` | `SHA1_Transform` works in the memory it is given, which is that of a Lua string: the digest is right, but a string of two blocks or more is overwritten. |

The first is the reason why the builds of `flake_builds` have the shape they have:
the diamond has no failures and no call is written twice, and the chain, which
fails and crashes, has at most one task running at any time.  Its edits never bring
old contents back: with reverts, a crash between the writing of an output and the
saving of its digests, or an edit between digest and build, does leave a wrong entry
(see the hazards); the digests are taken when a builder is sparked, not when it reads.
In `MCFlakeBuilds` the diamond is what the constants of `Flake` give, and the chain an
instance of `Flake` with variables of its own (`Chain`); `shows` says which part moves.

### Bounds, and why they are enough

* Three tasks: a victim, a killer and a joiner are distinct roles; a fourth adds a
  second task in one of them, and the theorems of section 4 cover any number for all
  safety properties of `Thread`.  One user handler per task gives nesting of exit loops two deep with
  a handler that kills.
* Clock: `MaxNow = 1` with two ticks per millisecond reaches a truncated timeout; the
  liveness run needs `MaxNow = 3` so that the loop sleeps again after it.
* Two pids for three objects make a pid be used again while its old object lives.
* Four descriptors hold a cycle of two with a chain into it, two cycles, and a cycle
  with a self-reference, and the temporary descriptor beside them; section 4 covers
  any number.
* Pipes of one byte, a program with an input of two, one with an output of two and one
  that never ends: what fits and what does not.  With one byte more than fits on both sides of one call the model deadlocks, as
  the code does; `CallsEnd` is claimed only for calls where one side fits (`Fits`).
* Sockets: room for one byte and writes of two make every write take several tries;
  three numbers for three objects and four files make a number be used again.
* Builds: three or four runs are a success, a disturbance and a rerun or two; three
  edits are a change, its reversal and another.
* Directories: three coroutines, three directories, two frames each: a creator, its task
  and a third that ends in yet another directory.
* Collector: two steps of the program between collector steps suffice for a store that
  hides an object and one that drops its other reference; `GCSWEEPMAX = 2` stops the
  sweep in the middle of every list.
* Tables: three integer keys, one outside any array part, and two strings with one main
  position reach collisions, moved nodes and rehashes in both directions.
* Coroutines: two beside the main thread, five frames, a C stack of four: a coroutine
  that resumes another from inside `pcall`, `sort` or a message handler at the limit.
* Programs: every expression of three operands over the operators in several places (a
  value, a condition, an argument), and programs for each statement and for the
  combinations that patch jumps, close upvalues and merge instructions.  `MAXINDEXRK` and
  `LFIELDS_PER_FLUSH` are small so that constants overflow into registers and table
  constructors are flushed.  Integers have 6 bits and floats a mantissa of 4, so some
  integers have no exact float.
* Library: the limits of `lua_Integer`, `int`, `size_t` and of a byte are constants small
  enough to enumerate both ends.

`CHECK_DEADLOCK` is on except in `lua_gc`, where the program may stop after its last
step, and in `sha1_string`; the stuttering steps `Halted`, `Finished`, `DirDone`,
`SocketsRest` and `Exec` stand for a program that has ended.

### Fairness

* `thread_live`: user code gives up control (the scheduler is cooperative; a task
  that computes for ever stops it), the exit loop and the dispatch loop advance, and
  the clock does.  The clock is strongly fair because in the model it moves only
  while a task runs or `poll` sleeps: a loop busy in its other steps cannot stop it.  No
  handlers are registered: one that keeps registering itself
  with `atExit` keeps an exit loop going for ever, legally.  Nothing is assumed about
  descriptors becoming ready.
* `proc_wait`: a pending signal is delivered, the steps of the wait loop are taken,
  and the program keeps coming back to `wait`.  Events other than signals (`PollOther`)
  are not assumed.  One queue: with nested `dispatch` calls an inner loop may never
  return to the outer one.  Children need not end.
* `xpio_io`: tasks of `readProcess` that can run do, forked children come to `exec`, and
  programs in `Ending` end unless they are blocked; the others may run for ever.
  Nothing is assumed of sockets: `WaitersWoken` says that what ends a wait is registered
  and found, not that it comes.
* `flake_builds`: main advances and builder functions return, one way or another.
* The other runs check safety and need none; their refinements are of specifications
  without fairness.

## 4. Proofs

A theorem holds for every value of the constants, under the named assumptions of the
modules (`ThreadAssumption`, `ProcAssumption`, `ReadAssumption`, `FdAssumption`,
`SocketAssumption`, `FlakeAssumption`, `DirAssumption`, `DoAssumption`): distinct names for distinct things,
naturals for bounds, functions with the right domains.  TLC evaluates each of them in the run
of its module.  What a theorem assumes beyond them is said below, with the reason.

| Theorem | States | Beyond the run |
|---|---|---|
| `TypeCorrect`, `SchedulesOnce` (`ThreadProofs`) | `TypeOK`, `ScheduledOnce` of `Thread` | any number of tasks, slots, handlers and ticks, and all faults |
| `KillIsFinal`, `ExitsAreComplete`, `ReturnsOnlyWhenStuck`, `SleepersWakeInOrder` (`ThreadProofs`) | `KilledStaysDown`, `ExitsComplete`, `ReturnsWhenStuck`, `WakesInOrder` | any number, and the faults that are not excluded |
| `ProcTypeCorrect`, `PidsOwned`, `NoEndMissed` (`XPProcProofs`) | `TypeOK`, `OwnPid`, `EndIsNoticed` of `XPProc` | any number of objects, pids and queues |
| `ReadTypeCorrect`, `ReadComplete` (`ReadProcessProofs`) | `TypeOK`, `CallComplete` of `ReadProcess` | any calls, amounts of data and pipe sizes |
| `ChildStartsWithFdmap`, `PlanAlwaysProgresses` (`FdJuggleProofs`) | `ChildGetsFdmap`, and the half of `CallsEnd` about the plan | any descriptors and any `fdmap` |
| `DescriptorsHaveOwners` (`XPSocketProofs`) | `OwnsDescriptor` of `XPSocket` | any sockets, tasks and descriptors, and all calls in all tasks |
| `StreamsAreIntact`, `WaitersAreWoken` (`XPSocketProofs`) | `StreamIntact`, `WaitersWoken` | the same, with any buffer and length, under `Exclusive` |
| `SuccessMeansAllBuilt`, `OutputsAreExclusive` (`FlakeProofs`) | `SuccessIsComplete`, `OutputExclusive` of `Flake` | any build description without cycles (the second: without two builders of one call), any failures, kills and edits |
| `ValidIsBuilt`, `NothingIsRecomputed` (`FlakeProofs`) | `ValidMeansBuilt`, `NothingRecomputed` | any such description, any number of runs, and any edits between them, where nothing fails or is killed |
| `DirectoriesAreKept`, `OwnDirectoryKept` (`FlakeProofs`) | `DirectoriesKept` of `WorkDir`, and its half `OwnDirectory` | any number of coroutines, directories and frames; the half also where errors leave nested code |
| `StateIsRestored` (`LuaDoProofs`) | `StateRestored` of `LuaDo` | any number of coroutines and frames, any functions called, and any limits on C calls, under `~ResumesNormal` |

### The scheduler

**`ScheduledOnce`** says that wherever `_dequeue` claims a task waits, it is there once
and nowhere else.  It is not inductive alone: that `makeReady` is called only with tasks
in no queue depends on where control is.  `IInv` adds the types and `Control` (the
running and the woken tasks have live coroutines, nothing is woken outside the part of
the loop that makes woken tasks ready, and a coroutine whose exit loop is in control has
one).  The proof separates two layers.  `QueueInv` is about the queues alone, and each
way of entering or leaving one (`dqQueue`, `dqSleeper`, `joinDequeue`,
`xpqueue_dequeue`, `wakeAt`, `makeReady`, join, ...) has a lemma that it keeps it;
these rest on `Lists*` and `Wakes*`, what appending to, removing from and popping a
duplicate-free sequence do, and those on `SequenceLemmas`, facts about the community
modules' `RemoveAt`, `RemoveFirst` and `Front`.  One lemma per action then puts the
layers together.

**`KilledStaysDown`**, with `KillInv`: a killed task is in no queue, not among the
woken and not running.  It excludes `SelfKill`: `thread.kill` of the running task
returns to it, so that a killed task does go on.

**`ExitsComplete`**, with `ExitInv`: whoever is on a stack of exit loops has results; a
coroutine past its start function runs its own entries at the bottom of its stack; a
task with results that is on no stack has no entries left and has left `me.all`; and a
join that was entered waits, was killed, or has results to return.  It excludes
`RaiseInHandler`: an error in a handler leaves `taskRunAtExits` with the remaining entries
unrun.  Handlers that block are covered: what they interrupt stays on the stack.

**`ReturnsWhenStuck`**, with `StuckInv`: exit loops only run in the running coroutine,
`me.all` has every task without results, each of these runs, is woken, or is where its
`_dequeue` says, and at the end of the loop every queue is empty.  A handler that blocks
breaks the first (its exit loop is suspended with it) and `ShareKey` the last (the task
that was replaced in its slot is in no queue), so both are excluded here.

**`WakesInOrder`** is an action property and needs no exclusion: `ClockRead`, that the time the
loop compares with is not later than the clock's, is all it adds to `IInv`.

### Child processes and their descriptors

**`OwnPid`** needs `Spawning` - between `fork` and `xpproc_new` the new pid belongs to no
object in the list yet - to be inductive.  **`EndIsNoticed`** is about a program asleep;
its strengthening `Announced` says that once the handler is installed *every* zombie
is announced by a pending signal, by a byte in the pipe, or by the fact that reaping is
still under way, whatever the program is doing.  The hypothesis `Warm` is
necessary: see the first child in section 6.

**`ChildGetsFdmap`**.  `fdmap` is a graph in which each key has one edge, to the parent's
descriptor it is to receive.  `PlanInv` says where the file of each parent's descriptor
is: not moved yet and on its own number; on the number in `newnames`, for good; or, while a
cycle is walked, on `tmpfd`.  The entries of `newnames` that name `tmpfd` go stale as soon as
`tmpfd` serves the next cycle.  That is harmless because what the chains leave unvisited
is a set of cycles without side branches, and that is a counting argument: a map of a
finite set onto itself is one to one (`OntoIsCyclic`).  `CycleInv` carries that set along
as a witness.  **`PlanProgresses`**: `Rank` counts the loops left, the keys left, the
descriptors not moved and a pending call, in this order, and falls in every step; so the
plan ends, for every `fdmap`.

**`CallComplete`**.  `CallInv` says, for each call on its own, which ends of its pipes the
parent and each program hold at each point of `readProcess` (`ParentEnds`, `ChildEnds`: of
other calls' pipes a program holds nothing once it has called `exec`), that what a program
has written was collected or is in the pipe, and its input was read, is in the pipe or is
still to be written (`Conserved`), and what each state of the caller, of a reader and of the program implies for the others
(`Progress`).  A step of one call leaves the others' invariant alone (`Elsewhere`), which
is the reason why nothing is assumed of their number.

### Sockets

**`OwnsDescriptor`**, with `OwnInv`: an object that has a number is live and its descriptor
is open, an open descriptor is some object's, no two objects have one number, and objects
not made yet have none.  It assumes that descriptor 0 is not among those handed out
(`0 \notin SocketFd`): `xpsocket_dtor` does not close it, so a program that had closed its
standard input would leak it.

**`WaitersWoken`** and **`StreamIntact`** assume `Exclusive` as well; without it the second
waiter replaces the first, and killing the first then removes the second (section 6), and two
writers of one stream mix their data.  The discipline is about *files*: two objects may be
copies of one descriptor, so that nothing less than the file tells who shares a stream.
`WaitInv` says that a task in a call refers to a live object, that two calls on one
object wait for different events, and that a task that waits does so under the number its object
has *now*.  `FlowInv` has four parts.  `Kernel`: for each file, what was read and what is in
flight are numbered without a gap and together are what was sent, and a reader saw the end only
when nothing was in flight and the peer could send no more (`Stream`); peers refer to each other,
and what is in a backlog is connected (`Shape`).  `Held`: a connection that waits in a backlog is
there once, and no descriptor refers to it.  `Calling`: a call is on an open descriptor, and
`accept` on a listener only.  `Sending`: what a file was asked to send is what it sent and what
the one task that writes to it has left, in this order.  The last is what makes a write
that takes several tries, with closes, shutdowns and kills in between, neither repeat nor
leave out a byte; the first is disturbed by each action of the kernel and each call, which is most
of the proof.  From them a task whose call could go on is one that `poll` reports: it
is registered under the descriptor's number, for the event that ends its `retry`.

### Builds

**`SuccessIsComplete`** speaks of `Needed`, the least set that contains the targets and, with
a builder, its arguments and the builder it returns.  `CompleteInv` says that each frame of
`lower` still has before it, or has a value for, every builder it was asked for
(`FrameInv`); that frames nest as calls do, each for the builder at the head of the list of
the one below (`StackInv`); and that a builder has a task or a value only after its
arguments have theirs (`TaskInv`).  When the last frame is done the targets are lowered,
and with `TaskInv` the builders that have a value are closed under `Uses`, so they include
`Needed`.  The hypothesis `NoCycles` is that builders have heights.  Arguments exist before the
builder that takes them, so that only a function that returns a builder made from its own
result could make a cycle; such a build has no value to compute and is left out.
`MCFlakeBuilds` assumes it of its two descriptions, so TLC confirms that it can be met.

**`OutputExclusive`**, with `ExclusiveInv`: no two entries, in memory or on the disk, have one
name, none is named above the last index, and a task has the entry that was loaded for
its key or one made for it.  Failures, kills and edits are allowed.  It assumes `DistinctCalls`: two builders of one call
with the same arguments have one key, hence one entry and one directory, and can both run (the same
test at `flake.lua:287` is behind the finding of `flake_siblings_fail`).

**`ValidMeansBuilt`**, with `BuiltInv`.  A finished entry names a directory that holds what its
digests are of, in memory and on the disk (`Complete`); a task in flight has, once the
digests it took are merged with those of the entry, the digests of everything its builder function
reads, as these files are *now* (`Computes`); a value names the directory of the builder's own
entry, which holds what the contents of its inputs make (`Built`).  The delicate case is a
task that ends: what it wrote must not be an input that another task already took the digest of,
and must not be in the directory of a finished entry.  This is what `ExclusiveInv` and
`TaskInv` give: whoever reads the output of a builder is sparked only after that
builder has its value.  That what contents make equals a build from nothing is then a descent
along the heights (`ValuesAreFresh`).  The hypotheses: `Undisturbed` - builder functions do not
fail and files are not removed, flake is not killed, and sources are edited, also back to what they
were, only between runs - and `DistinctCalls`.  TLC shows that they are needed: with
`CanFail`, or with `CanCrash`, the diamond of `flake_builds` violates `ValidMeansBuilt`, which is
the defect of `flake_siblings_fail`.  `NilIsNoTable` says that the value nil is not a
table; TLC's model value is none, and nothing else makes the two differ in an untyped logic.

**`NothingRecomputed`**, with `RememberInv`, under the same hypotheses.  After a successful run with
nothing edited since, there are values such that the cache has, for each needed builder, an entry
under the key made of the values of its arguments, which names its value and has the digests of
what it was made from; and in the next run each builder that is given a value is given that one
again, so that the key under which it is looked up is the key under which it was saved.
Only untracked builders get tasks, and their directories are the same as before.

Both are met by the diamond of `flake_builds`, which satisfies all hypotheses, and both invariants
were model-checked before they were proved.

### The working directory

`DirInv`: the frames of a coroutine nest - each was entered from the directory of the one
below it, and the outermost of a task of `sparkIO` is that of its database (`Nested`) -
and the directory that the wrapper keeps for a suspended coroutine is that of its innermost frame
(`ThreadInv`).  **`OwnDirectory`** is a part of it and needs no hypothesis: an error that leaves
nested frames ends its coroutine, and the next one changes to its own directory.
**`SavedInPlace`** assumes `~RaiseNested`: `computeAndSave` catches an error and then saves under a
relative path, wherever the error left the process (section 6).

### Calls and coroutines of the interpreter

**`StateRestored`** relates the two things an error or a yield cuts at different places: the
frames of a thread, which survive a `longjmp`, and the C activations, which do not.  The
invariant `Good` gives each activation a *level*, the number of frames of its thread that it
stands on; the code does not keep it, and nothing else says to which frame an activation belongs
once frames below it were dropped or added.  With levels, `Pos` says what holds of one activation
(the run of a `luaD_pcall` noted the handler, `nny` and `nCcalls` of the frame it stands on;
where a thread may be interrupted, every frame below has a continuation or is of Lua), `Adj` what
may be on top of what, and `Order` that levels do not fall and that the activations of a thread are
together.  `TopOK` is about the running thread - `nCcalls` is the number of calls and resumes on
the whole stack, `errfunc` the handler of the innermost protected call - and `ThOK` about each
thread: a suspended one has only frames that `unroll` can complete, and the handler that holds in
the last of them.  A frame marked for recovery has noted the handler that holds outside it
(`CiOK`); this is what `recover` and `finishCcall` give back.  An activation depends only on what
is below it (`PosFrame`, `AdjFrame`), so each function of `ldo.c` is one of a few moves: it enters
an activation, goes back to one, or lands in a `luaD_rawrunprotected`.  The hypothesis
`~ResumesNormal` is necessary: a coroutine that resumes one which waits for it is refused, but
the refusal leaves `nCcalls` of the other changed (section 6).

### Only model-checked

* Liveness (`ReadyRuns`, `SleeperWakes`, `JoinerReleased`, `WaiterWoken`, `RunsEnd` and the
  half of `CallsEnd` about `readProcess`): beyond this prover.
* `ChainKept`: builds whose builders fail, whose sources change while they run and that are killed.
  They hold for the chain because at most one of its tasks runs at any time, and do not hold
  for every description.
* `HeapSound`, `FullCycleCollectsAll` and `FinalizesGarbage` of `LuaGC`: its collector has some
  forty actions, and what it promises speaks of reachability through weak tables, upvalues and
  finalizers; the proof has not been attempted.
* The refinements of `LuaDo` and `LuaTable`: for `LuaDo` the proof, on top of `Good`, has not been
  attempted; `LuaTable`, the compiler and the library are recursive operators over data,
  which this prover cannot reason about.

## 5. Not modelled

* Rule libraries, path, file and data structure helpers, `xpfs`, option parsing, the
  translator `cfromlua`: no state, or pure I/O.
* The pipe in which `computeValue` collects a builder's messages, and which it reads
  only after the builder has returned: a builder that writes more than a pipe holds
  blocks for ever, on every schedule.
* Datagrams, socket options, a full signal pipe, nested dispatch contexts.
* In `Flake`: importing of build descriptions (its directories are in `WorkDir`),
  uncached mode, and evaluations started from inside tasks.
* In the interpreter: metamethods, the debug library and hooks, `string.format`, number
  formatting, the I/O, OS and auxiliary libraries, the host program, stack
  reallocation, allocation failure and the pacing of the collector.
* The compression function of SHA-1: `Flake` assumes no collisions.

## 6. Other observations

Met while modelling, and reached by changing a constant; not among the findings, most
because no document of the repository promises otherwise.

* `spark` lowers the arguments of a builder by joining their tasks (`flake.lua:375`), so a
  builder without inputs waits for those of an unrelated one; the README of flake says
  builders are serialized only by their inputs.
* A first child that ends between `fork` (`xpio_c.c:1630`) and the installation of the
  handler by `xpproc_new` is not noticed until another ends (`Warm = FALSE` in `XPProc`);
  the comment at `xpio_c.c:946` has the handler installed when the module is loaded.
* A second task that waits for a descriptor in the same direction replaces the first,
  which never wakes (`Exclusive = FALSE` and `CarelessRoles` in `MCXpio`).
* An error inside a function of an imported build description, called by an IO builder,
  leaves the working directory changed; `computeAndSave` catches it and saves its
  database over that of the other directory (`RaiseNested = TRUE` in `WorkDir`).
* A coroutine that resumes the one that resumed it gets an error, but the refused resume
  leaves `nCcalls` of that one changed (`ResumesNormal = TRUE` in `LuaDo`).
* A generic `for` with more than three expressions fails the assertion at
  `lparser.c:442` in a build with assertions (`FourExpressions` in `MCLuaCompile`).
* A label between two declarations without values does not end the merging of their
  `LOADNIL`s, so a `goto` to it clears variables declared before it (`LabelPrograms`).
* With `GCSWEEPMAX = 1` a finalizer called in the middle of the sweep of `tobefnz` can move
  the object whose `next` field the sweep stands on to `allgc` (`udata2finalize` does not
  move the sweep on, as `luaC_checkfinalizer` does); the rest of `tobefnz` is then not
  swept and stays black into the next cycle.  The code sweeps dozens of objects at a time
  and calls few finalizers between, so that the place is seldom overtaken; with
  `GCSWEEPMAX = 2` and these heaps it never is.
* A single `SHA1_Update` of 2^29 bytes or more compares the 32-bit count with a product of
  64 bits and counts a carry too many.

## 7. What is left

* *Proofs*: the tri-colour part of `HeapSound` (no black object refers to a white one outside the
  sweep), for which `LuaGC` is free of recursive operators; that `LuaDo` implements `LuaCoroutines`; `ChainKept` for every description in
  which the tasks form a chain.
* *Models*: the output of a builder through its pipe, evaluations started inside tasks, metamethods
  and hooks of the interpreter, and `string.format`.
