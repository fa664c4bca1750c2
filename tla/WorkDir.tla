------------------------------- MODULE WorkDir ------------------------------
(***************************************************************************)
(* The working directory under concurrent builders (flake/main.lua,        *)
(* flake/flake.lua).                                                       *)
(*                                                                         *)
(* The program has one working directory, and everything in flake.lua is   *)
(* relative to it: the directory a builder belongs to, the database looked *)
(* up and the file it is saved in.  Code that needs another directory does *)
(* chdir, works, and changes back; but the work may suspend the coroutine  *)
(* with the directory changed.  main.lua therefore wraps coroutine.create  *)
(* and coroutine.yield: a coroutine starts in the directory it was created *)
(* in and goes on in the one it was suspended in.                          *)
(*                                                                         *)
(* A task is a stack of frames, innermost first.  A frame is code of one   *)
(* directory: it knows where it came from (oldDir) and, for the statements *)
(* of the properties only, where it means to be.                           *)
(***************************************************************************)
EXTENDS Naturals, Sequences

CONSTANTS
    Dir,          \* directories
    Root,         \* the one main starts in
    Task,         \* coroutines
    Main,         \* the first one
    None,         \* no task; no database
    MaxDepth,     \* bound: frames of a task
    RaiseNested   \* may code fail that an IO builder runs in another directory?

ASSUME DirAssumption ==
    /\ Root \in Dir /\ Main \in Task /\ None \notin Dir \cup Task
    /\ MaxDepth \in Nat /\ RaiseNested \in BOOLEAN

VARIABLES
    cwd,       \* the working directory of the process
    running,   \* the coroutine that runs; None: dispatch
    thread,    \* task -> its coroutine
    saves      \* history: pairs of a database and the directory it was saved in

dirVars == <<cwd, running, thread, saves>>

\* A coroutine: whether it has been created, started or ended; the local cwd of
\* the wrapper around it; the database computeAndSave refers to; its frames.
NoThread == [st |-> "none", cwd |-> Root, db |-> None, frames |-> <<>>]
Code(old, d) == [old |-> old, dir |-> d]

Innermost(t) == Head(thread[t].frames)

DirInit ==
    /\ cwd = Root /\ running = None /\ saves = {}
    /\ thread = [t \in Task |->
                    IF t = Main THEN [NoThread EXCEPT !.st = "new", !.frames = <<Code(Root, Root)>>]
                                ELSE NoThread]

-----------------------------------------------------------------------------
\* The wrapper of coroutine.create keeps the creator's directory.
createIn(d, db, body) == [st |-> "new", cwd |-> d, db |-> db, frames |-> <<Code(d, body)>>]

\* Wrong: a coroutine goes on wherever the last one left the process.
leftThere(t) == cwd

\* resume: a new coroutine does chdir to where it was created, a suspended one
\* to where it yielded.  Then a pure builder's computeValue enters o.dir.
restored(t) == thread[t].cwd

ResumeThread(t) ==
    /\ running = None /\ thread[t].st \in {"new", "yielded"}
    /\ running' = t
    /\ cwd' = IF thread[t].st = "new" /\ thread[t].db = None
                THEN Innermost(t).dir ELSE restored(t)
    /\ thread' = [thread EXCEPT ![t].st = "live",
                    ![t].frames[1].old = IF thread[t].st = "new" THEN restored(t) ELSE @]
    /\ UNCHANGED saves

\* A join, a wait for a child or for a pipe: the wrapper of coroutine.yield.
Yield ==
    /\ running # None
    /\ thread' = [thread EXCEPT ![running].st = "yielded", ![running].cwd = cwd]
    /\ running' = None
    /\ UNCHANGED <<cwd, saves>>

\* spark of a pure builder of directory d: thread.new(compute, ...).
SparkPureIn(t, d) ==
    /\ running # None /\ thread[t].st = "none"
    /\ thread' = [thread EXCEPT ![t] = createIn(cwd, None, d)]
    /\ UNCHANGED <<cwd, running, saves>>

\* sparkIO: chdir(o.dir) loads that directory's database, the task is created
\* there, and chdir(oldDir) follows on every path.
SparkIOIn(t, d) ==
    /\ running # None /\ thread[t].st = "none"
    /\ thread' = [thread EXCEPT ![t] = createIn(d, d, d)]
    /\ UNCHANGED <<cwd, running, saves>>

\* importBuild, and the functions it returns: chdir, then code of that directory.
Enter(d) ==
    /\ running # None /\ Len(thread[running].frames) < MaxDepth
    /\ thread' = [thread EXCEPT ![running].frames = <<Code(cwd, d)>> \o @]
    /\ cwd' = d
    /\ UNCHANGED <<running, saves>>

\* ... and chdir(oldDir) when it has returned.
Leave ==
    /\ running # None /\ Len(thread[running].frames) > 1
    /\ cwd' = Innermost(running).old
    /\ thread' = [thread EXCEPT ![running].frames = Tail(@)]
    /\ UNCHANGED <<running, saves>>

\* computeAndSave ends with save(database), whose path is relative.
SavesHere == saves' = IF thread[running].db = None THEN saves
                                               ELSE saves \cup {<<thread[running].db, cwd>>}

\* The body of a task returns; a pure builder's has done chdir(oldDir) before.
Return ==
    /\ running # None /\ Len(thread[running].frames) = 1
    /\ SavesHere
    /\ cwd' = IF thread[running].db = None THEN Innermost(running).old ELSE cwd
    /\ thread' = [thread EXCEPT ![running].st = "done", ![running].frames = <<>>]
    /\ running' = None

\* An error unwinds all frames and no chdir(oldDir) is done.  computeAndSave
\* catches it, saves the database and raises it again.
Raise ==
    /\ running # None
    /\ thread[running].db # None /\ Len(thread[running].frames) > 1 => RaiseNested
    /\ SavesHere
    /\ thread' = [thread EXCEPT ![running].st = "done", ![running].frames = <<>>]
    /\ running' = None
    /\ UNCHANGED cwd

\* An error while main lowers the targets is fatal: the program ends at once.
Fatal ==
    /\ running = Main /\ running' = None
    /\ thread' = [t \in Task |-> [thread[t] EXCEPT !.st = "done", !.frames = <<>>]]
    /\ UNCHANGED <<cwd, saves>>

\* No task is left: dispatch returns.
DirDone == /\ running = None
           /\ \A t \in Task : thread[t].st \in {"none", "done"}
           /\ UNCHANGED dirVars

DirNext ==
    \/ \E t \in Task : ResumeThread(t)
    \/ Yield \/ Leave \/ Return \/ Raise \/ Fatal \/ DirDone
    \/ \E d \in Dir : Enter(d) \/ \E t \in Task : SparkPureIn(t, d) \/ SparkIOIn(t, d)

DirSpec == DirInit /\ [][DirNext]_dirVars

-----------------------------------------------------------------------------
\* Whatever other coroutines did while it was suspended, and however they
\* ended, a coroutine runs in the directory it has entered and not left: the
\* builders it makes belong there and its relative paths mean what they say.
OwnDirectory == running # None => cwd = Innermost(running).dir

\* A database is saved in the directory it was loaded in.
SavedInPlace == \A s \in saves : s[1] = s[2]

\* Directories are never confused: a coroutine runs where it means to, and each
\* directory's database is saved in that directory.
DirectoriesKept == OwnDirectory /\ SavedInPlace
=============================================================================
