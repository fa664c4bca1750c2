-------------------------------- MODULE Flake -------------------------------
(***************************************************************************)
(* Evaluation of builders and the result cache of flake/flake.lua.         *)
(*                                                                         *)
(* The main coroutine lowers the targets: it walks the builders of a value *)
(* (startLowering), sparks each one - which lowers the builder's arguments *)
(* first, in the same coroutine - and then joins the tasks it has started  *)
(* (finishLowering).  Each task runs computeAndSave in a coroutine of its  *)
(* own, which only gets to run while main waits in a join.  The cache is   *)
(* one table per directory; save() writes all of it, and the next run of   *)
(* the program loads it.                                                   *)
(*                                                                         *)
(* A call stands for a builder function with its literal arguments, among  *)
(* them a source file; the other arguments are builders.  The value of an  *)
(* IO builder is the path of the file it writes, so contents reach a       *)
(* dependent builder through the file; a content is the nested record of   *)
(* what it was made from.                                                  *)
(***************************************************************************)
EXTENDS Integers, FiniteSets, SequencesExt

CONSTANTS
    Builder,    \* the builder objects of a build description
    Targets,    \* sequence of the builders main lowers
    Deps,       \* builder -> sequence of the builders among its arguments
    Call,       \* the distinct calls
    CallOf,     \* builder -> its call
    Untracked,  \* calls whose getInputFiles returns nil
    Listed,     \* calls whose getInputFiles names files without looking for them
    Returns,    \* pure builders, as a function to the builder each returns
    Nil,        \* no value; the content of a missing file
    MaxRuns,    \* bound: runs of the program
    MaxEdits,   \* bound: edits of source files
    CanFail,    \* may builder functions fail?
    CanCrash,   \* may the program be killed during a run?
    Reverts     \* edits may bring back old contents, but come only between runs

Pure == DOMAIN Returns
IO   == Builder \ Pure

ASSUME FlakeAssumption ==
    /\ IsFiniteSet(Builder)
    /\ Targets \in Seq(Builder) /\ Deps \in [Builder -> Seq(Builder)]
    /\ CallOf \in [Builder -> Call]
    /\ Untracked \subseteq Call /\ Listed \subseteq Call \ Untracked
    /\ Pure \subseteq Builder /\ Returns \in [Pure -> IO]
    /\ Nil \notin Builder \cup Call \cup Nat \cup BOOLEAN
    /\ Call \cap Nat = {}                                \* a source is no output
    /\ Builder \cap (Call \X Seq(Nat \cup {Nil})) = {}   \* no builder is a key
    /\ {MaxRuns, MaxEdits} \subseteq Nat
    /\ {CanFail, CanCrash, Reverts} \subseteq BOOLEAN

VARIABLES
    src,    \* call -> content of its source file
    out,    \* build name -> content of the file in that build directory
    disk,   \* the saved cache: its results, its lastIndex, and is it whole?
    mem,    \* database.results: key -> the entry object it refers to
    obj,    \* entry object -> its fields
    last,   \* database.builders: the last index given by mkBuildName
    valid,  \* builder -> o.valid
    value,  \* builder -> o.value
    thunk,  \* builder -> is activeThunk set?
    task,   \* builder -> state of the task sparked for it
    job,    \* builder -> the upvalues of its computeAndSave
    stack,  \* main's calls of lower, innermost first
    mode,   \* what main is doing
    runs,   \* runs begun
    edits,  \* edits made
    quiet,  \* history: no edit since the current run began
    clean   \* history: no edit since the last successful run began

cacheVars == <<disk, mem, obj, last>>
evalVars  == <<valid, value, thunk, task, job>>
mainVars  == <<stack, mode>>
envVars   == <<src, edits, runs, quiet, clean>>
vars      == <<out, cacheVars, evalVars, mainVars, envVars>>

Empty == [x \in {} |-> x]   \* an empty table

\* The assignment t[k] = v, and one for each field of u.
Put(t, k, v) == [x \in DOMAIN t \cup {k} |-> IF x = k THEN v ELSE t[x]]
PutAll(t, u) == [x \in DOMAIN t \cup DOMAIN u |-> IF x \in DOMAIN u THEN u[x] ELSE t[x]]

\* A path is a source file, called after its call, or an output file, called
\* after its build name.
Content(p) == CASE p \in Call       -> src[p]
                [] p \in DOMAIN out -> out[p]
                [] OTHER            -> Nil

\* The builder whose value an argument finally has, and the key of its result.
Final(b) == IF b \in Pure THEN Returns[b] ELSE b
KeyOf(b) == <<CallOf[b], [i \in DOMAIN Deps[b] |-> value[Final(Deps[b][i])]]>>

\* getInputFiles: by default the arguments that name existing files
InputFiles(k) ==
    {p \in ({k[1]} \cup ToSet(k[2])) \ {Nil} : k[1] \in Listed \/ Content(p) # Nil}

\* What a builder function makes of its arguments.
Make(k) == [call |-> k[1], source |-> src[k[1]],
            args |-> [i \in DOMAIN k[2] |-> Content(k[2][i])]]

Frame(b, bs) == [of |-> b, todo |-> bs, tasks |-> <<>>, more |-> <<>>]

TypeOK ==
    LET Index    == 0..(MaxRuns * Cardinality(IO))
        Value    == Index \cup {Nil}
        EntryOK(e) == /\ e.valid \in BOOLEAN \cup {Nil} /\ e.value \in Value
                      /\ e.name \in Index
    IN  /\ \A k \in DOMAIN disk.results : k[1] \in Call /\ EntryOK(disk.results[k])
        /\ \A r \in DOMAIN obj : EntryOK(obj[r])
        /\ \A k \in DOMAIN mem : k[1] \in Call /\ mem[k] \in DOMAIN obj
        /\ last \in Index /\ disk.last \in Index /\ disk.whole \in BOOLEAN
        /\ DOMAIN out \subseteq Index
        /\ src \in [Call -> 0..MaxEdits \cup {Nil}]
        /\ valid \in [Builder -> BOOLEAN]
        /\ value \in [Builder -> Value]
        /\ thunk \in [Builder -> BOOLEAN]
        /\ task \in [Builder -> {"none", "new", "running", "built", "ok", "err"}]
        /\ \A i \in DOMAIN stack : stack[i].of \in Builder \cup {Nil}
        /\ mode \in {"down", "run", "join", "ok", "err"}
        /\ runs \in 0..MaxRuns /\ edits \in 0..MaxEdits
        /\ {quiet, clean} \subseteq BOOLEAN

Init ==
    /\ src = [c \in Call |-> 0]
    /\ out = Empty
    /\ disk = [results |-> Empty, last |-> 0, whole |-> TRUE]
    /\ mem = Empty /\ obj = Empty /\ last = 0
    /\ valid = [b \in Builder |-> FALSE]
    /\ value = [b \in Builder |-> Nil]
    /\ thunk = [b \in Builder |-> FALSE]
    /\ task = [b \in Builder |-> "none"]
    /\ job = [b \in Builder |-> Nil]
    /\ stack = <<>> /\ mode = "down"
    /\ runs = 0 /\ edits = 0 /\ quiet = TRUE /\ clean = FALSE

-----------------------------------------------------------------------------
(* The main coroutine.                                                     *)

\* initDatabase loads the saved cache, which fails when the file is cut short;
\* the build description makes fresh builders and main lowers the targets.
Begin ==
    /\ mode = "down" /\ runs < MaxRuns
    /\ runs' = runs + 1 /\ quiet' = TRUE
    /\ valid' = [b \in Builder |-> FALSE]
    /\ value' = [b \in Builder |-> Nil]
    /\ thunk' = [b \in Builder |-> FALSE]
    /\ task' = [b \in Builder |-> "none"]
    /\ job' = [b \in Builder |-> Nil]
    /\ \/ /\ disk.whole
          /\ mem' = [k \in DOMAIN disk.results |-> k]
          /\ obj' = disk.results
          /\ last' = disk.last
          /\ stack' = <<Frame(Nil, Targets)>>
          /\ mode' = "run"
       \/ /\ ~disk.whole
          /\ mode' = "err"
          /\ UNCHANGED <<mem, obj, last, stack>>
    /\ UNCHANGED <<out, disk, src, edits, clean>>

Running == mode = "run"
Top     == Head(stack)
First   == Head(Top.todo)
SetTop(f) == stack' = <<f>> \o Tail(stack)

\* A value that is itself a builder is lowered in the next round.
Again(b, bs) == IF b \in Pure THEN Append(bs, Returns[b]) ELSE bs

\* startLowering of the next builder: it is being computed, it has a value, or
\* spark lowers its arguments first.
StartActive ==
    /\ Running /\ Top.todo # <<>>
    /\ thunk[First]
    /\ SetTop([Top EXCEPT !.todo = Tail(@), !.tasks = Append(@, First)])
    /\ UNCHANGED <<out, cacheVars, evalVars, mode, envVars>>

StartValid ==
    /\ Running /\ Top.todo # <<>>
    /\ ~thunk[First] /\ valid[First]
    /\ SetTop([Top EXCEPT !.todo = Tail(@), !.more = Again(First, @)])
    /\ UNCHANGED <<out, cacheVars, evalVars, mode, envVars>>

LowerArgs ==
    /\ Running /\ Top.todo # <<>>
    /\ ~thunk[First] /\ ~valid[First]
    /\ stack' = <<Frame(First, Deps[First])>> \o stack
    /\ UNCHANGED <<out, cacheVars, evalVars, mode, envVars>>

\* Wrong variant of JoinTask: an error is ignored.
JoinIgnoresError ==
    /\ Running /\ Top.todo = <<>> /\ Top.tasks # <<>>
    /\ IF task[Head(Top.tasks)] \in {"ok", "err"}
          THEN /\ SetTop([Top EXCEPT !.tasks = Tail(@)])
               /\ UNCHANGED mode
          ELSE mode' = "join" /\ UNCHANGED stack
    /\ UNCHANGED <<out, cacheVars, valid, value, thunk, task, job, envVars>>

\* Wrong variant of JoinTask: main does not wait.
JoinNoWait ==
    /\ Running /\ Top.todo = <<>> /\ Top.tasks # <<>>
    /\ SetTop([Top EXCEPT !.tasks = Tail(@)])
    /\ UNCHANGED <<out, cacheVars, evalVars, mode, envVars>>

\* finishLowering: join the tasks in turn; the first error ends the run.
JoinTask ==
    LET b == Head(Top.tasks)
    IN  /\ Running /\ Top.todo = <<>> /\ Top.tasks # <<>>
        /\ \/ /\ task[b] = "ok"
              /\ thunk' = [thunk EXCEPT ![b] = FALSE]
              /\ SetTop([Top EXCEPT !.tasks = Tail(@), !.more = Again(b, @)])
              /\ UNCHANGED mode
           \/ /\ task[b] = "err"
              /\ mode' = "err"
              /\ UNCHANGED <<thunk, stack>>
           \/ /\ task[b] \notin {"ok", "err"}
              /\ mode' = "join"
              /\ UNCHANGED <<thunk, stack>>
        /\ UNCHANGED <<out, cacheVars, valid, value, task, job, envVars>>

\* Wrong variant of Resume: a failed task does not wake main.
ResumeOnSuccess ==
    /\ mode = "join"
    /\ task[Head(Top.tasks)] = "ok"
    /\ \A b \in Builder : task[b] # "new"
    /\ mode' = "run"
    /\ UNCHANGED <<out, cacheVars, evalVars, stack, envVars>>

\* The task main waits for is done and main is resumed.  The scheduler is first
\* come first served, so the tasks made before main went to wait have started.
Resume ==
    /\ mode = "join"
    /\ task[Head(Top.tasks)] \in {"ok", "err"}
    /\ \A b \in Builder : task[b] # "new"
    /\ mode' = "run"
    /\ UNCHANGED <<out, cacheVars, evalVars, stack, envVars>>

\* lower: values that are builders themselves are lowered in turn.
LowerMore ==
    /\ Running /\ Top.todo = <<>> /\ Top.tasks = <<>> /\ Top.more # <<>>
    /\ SetTop([Top EXCEPT !.todo = Top.more, !.more = <<>>])
    /\ UNCHANGED <<out, cacheVars, evalVars, mode, envVars>>

Lowered == Running /\ Top.todo = <<>> /\ Top.tasks = <<>> /\ Top.more = <<>>

\* spark returns to the frame below with a task, or with the value of Top.of.
Spawn(j) ==
    LET b == Top.of
    IN  /\ task' = [task EXCEPT ![b] = "new"]
        /\ job' = [job EXCEPT ![b] = j]
        /\ thunk' = [thunk EXCEPT ![b] = TRUE]
        /\ stack' = <<[stack[2] EXCEPT !.todo = Tail(@), !.tasks = Append(@, b)]>>
                    \o Tail(Tail(stack))

\* spark of a pure builder: always a task
SparkPure ==
    /\ Lowered /\ Top.of \in Pure
    /\ Spawn(Nil)
    /\ UNCHANGED <<out, cacheVars, valid, value, mode, envVars>>

SparkIO == Lowered /\ Top.of \in IO
Key     == KeyOf(Top.of)
Known   == Key \in DOMAIN mem /\ obj[mem[Key]].valid # Nil
Found   == obj[mem[Key]]

\* Wrong variant of NewEntry: the index does not advance.
FirstEntry == [valid |-> Nil, value |-> Nil, name |-> 1, sources |-> Nil]

\* mkBuildName: the next index of the directory's database
NewEntry == [valid |-> Nil, value |-> Nil, name |-> last + 1, sources |-> Nil]

\* sparkIO without a usable entry: name it, digest the input files, and spawn
\* computeAndSave.  The entry enters the table only when the task starts.
SparkFresh ==
    LET seen    == Key \in DOMAIN mem
        ref     == IF seen THEN mem[Key] ELSE Top.of
        entry   == IF seen THEN obj[ref] ELSE NewEntry
        tracked == Key[1] \notin Untracked
        inputs  == IF tracked THEN InputFiles(Key) ELSE {}
    IN  /\ SparkIO /\ ~Known
        /\ last' = IF seen THEN last ELSE last + 1
        /\ obj' = Put(obj, ref, IF tracked THEN [entry EXCEPT !.sources = Empty] ELSE entry)
        /\ \/ /\ \E p \in inputs : Content(p) = Nil         \* "File not found"
              /\ mode' = "err"
              /\ UNCHANGED <<thunk, task, job, stack>>
           \/ /\ \A p \in inputs : Content(p) # Nil
              /\ Spawn([key |-> Key, ref |-> ref, stale |-> [p \in inputs |-> Content(p)]])
              /\ UNCHANGED mode
        /\ UNCHANGED <<out, disk, mem, valid, value, envVars>>

\* sparkIO with an entry that is not marked invalid: compare the digests
SparkKnown ==
    LET inputs  == IF Found.sources = Nil THEN {} ELSE DOMAIN Found.sources
        changed == {p \in inputs : Content(p) # Found.sources[p]}
    IN  /\ SparkIO /\ Known
        /\ \/ /\ \E p \in inputs : Content(p) = Nil         \* "File not found"
              /\ mode' = "err"
              /\ UNCHANGED <<thunk, task, job, stack>>
           \/ /\ \A p \in inputs : Content(p) # Nil
              /\ changed # {} \/ Found.sources = Nil
              /\ Spawn([key |-> Key, ref |-> mem[Key], stale |-> [p \in changed |-> Content(p)]])
              /\ UNCHANGED mode
        /\ UNCHANGED <<out, cacheVars, valid, value, envVars>>

\* sparkIO of a result whose input files are what they were: no task
SparkHit ==
    /\ SparkIO /\ Known
    /\ Found.sources # Nil
    /\ \A p \in DOMAIN Found.sources : Content(p) = Found.sources[p]
    /\ value' = [value EXCEPT ![Top.of] = Found.value]
    /\ valid' = [valid EXCEPT ![Top.of] = TRUE]
    /\ stack' = <<[stack[2] EXCEPT !.todo = Tail(@)]>> \o Tail(Tail(stack))
    /\ UNCHANGED <<out, cacheVars, thunk, task, job, mode, envVars>>

\* lower of the targets returns.
Done ==
    /\ Lowered /\ Top.of = Nil
    /\ mode' = "ok"
    /\ clean' = quiet
    /\ UNCHANGED <<out, cacheVars, evalVars, stack, src, edits, runs, quiet>>

-----------------------------------------------------------------------------
(* The tasks.  They run only while main is suspended.                      *)

Runs(b, s) == mode = "join" /\ task[b] = s

\* computeAndSave up to the call of compute
StartTask(b) ==
    /\ Runs(b, "new") /\ b \in IO
    /\ obj' = [obj EXCEPT ![job[b].ref].valid = FALSE]
    /\ mem' = Put(mem, job[b].key, job[b].ref)
    /\ task' = [task EXCEPT ![b] = "running"]
    /\ UNCHANGED <<out, disk, last, valid, value, thunk, job, mainVars, envVars>>

\* The builder function reads its inputs and writes its output file.
Produce(b) ==
    LET k == job[b].key
    IN  /\ Runs(b, "running")
        /\ src[k[1]] # Nil
        /\ out' = Put(out, obj[job[b].ref].name, Make(k))
        /\ task' = [task EXCEPT ![b] = "built"]
        /\ UNCHANGED <<cacheVars, valid, value, thunk, job, mainVars, envVars>>

\* Wrong variant of Saved: entries are written without their mark.
SavedUnmarked(m, o) ==
    [results |-> [k \in DOMAIN m |-> [o[m[k]] EXCEPT !.valid = Nil]],
     last |-> last, whole |-> TRUE]

\* what save(database) writes
Saved(m, o) == [results |-> [k \in DOMAIN m |-> o[m[k]]], last |-> last, whole |-> TRUE]

\* Wrong variant of TaskOk: the digests are not recorded.
TaskOkNoDigests(b) ==
    LET e == obj[job[b].ref]
    IN  /\ Runs(b, "built")
        /\ value' = [value EXCEPT ![b] = e.name]
        /\ valid' = [valid EXCEPT ![b] = TRUE]
        /\ obj' = [obj EXCEPT ![job[b].ref].value = e.name, ![job[b].ref].valid = TRUE]
        /\ disk' = Saved(mem, obj')
        /\ task' = [task EXCEPT ![b] = "ok"]
        /\ UNCHANGED <<out, mem, last, thunk, job, mainVars, envVars>>

\* compute returned a value: record it and what it depends on, and save.  (That
\* o.valid is set a little earlier shows nowhere: activeThunk is tested first.)
TaskOk(b) ==
    LET e == obj[job[b].ref]
        done == [e EXCEPT !.value = e.name, !.valid = TRUE,
                          !.sources = IF @ = Nil THEN Nil ELSE PutAll(@, job[b].stale)]
    IN  /\ Runs(b, "built")
        /\ value' = [value EXCEPT ![b] = e.name]
        /\ valid' = [valid EXCEPT ![b] = TRUE]
        /\ obj' = [obj EXCEPT ![job[b].ref] = done]
        /\ disk' = Saved(mem, obj')
        /\ task' = [task EXCEPT ![b] = "ok"]
        /\ UNCHANGED <<out, mem, last, thunk, job, mainVars, envVars>>

\* compute returned an error or raised one: mark the result invalid, and save
TaskErr(b) ==
    /\ Runs(b, "running") \/ Runs(b, "built")
    /\ CanFail \/ src[job[b].key[1]] = Nil
    /\ obj' = [obj EXCEPT ![mem[job[b].key]].valid = Nil]
    /\ disk' = Saved(mem, obj')
    /\ task' = [task EXCEPT ![b] = "err"]
    /\ UNCHANGED <<out, mem, last, valid, value, thunk, job, mainVars, envVars>>

\* a pure builder computes its value; nothing is saved
PureTask(b) ==
    /\ Runs(b, "new") /\ b \in Pure
    /\ \/ /\ valid' = [valid EXCEPT ![b] = TRUE]
          /\ task' = [task EXCEPT ![b] = "ok"]
       \/ /\ CanFail
          /\ task' = [task EXCEPT ![b] = "err"]
          /\ UNCHANGED valid
    /\ UNCHANGED <<out, cacheVars, value, thunk, job, mainVars, envVars>>

-----------------------------------------------------------------------------
(* The program exits (after an error with os.exit, which leaves running    *)
(* tasks behind) or is killed, and source files are edited at any time.    *)

Exit ==
    /\ mode \in {"ok", "err"}
    /\ mode' = "down" /\ stack' = <<>>
    /\ UNCHANGED <<out, cacheVars, evalVars, envVars>>

\* Killed at any point, or while save() has the file open: it was truncated
\* when it was opened.
Crash ==
    /\ CanCrash /\ mode \in {"run", "join"}
    /\ \/ UNCHANGED disk
       \/ /\ \E b \in IO : Runs(b, "built")
          /\ disk' = [disk EXCEPT !.whole = FALSE]
    /\ mode' = "down" /\ stack' = <<>>
    /\ UNCHANGED <<out, mem, obj, last, evalVars, envVars>>

\* An edit gives a file contents it never had or (Reverts) contents it had, or
\* removes it, which makes its builder fail.
Edit(c) ==
    /\ runs > 0 /\ edits < MaxEdits
    /\ Reverts => mode = "down"
    /\ edits' = edits + 1
    /\ \E v \in {edits + 1} \cup (IF Reverts THEN 0..edits ELSE {})
                          \cup (IF CanFail THEN {Nil} ELSE {}) :
           v # src[c] /\ src' = [src EXCEPT ![c] = v]
    /\ quiet' = FALSE /\ clean' = FALSE
    /\ UNCHANGED <<out, cacheVars, evalVars, mainVars, runs>>

Finished == mode = "down" /\ runs = MaxRuns /\ UNCHANGED vars

MainStep ==
    \/ Begin \/ StartActive \/ StartValid \/ LowerArgs \/ JoinTask \/ Resume \/ LowerMore
    \/ SparkPure \/ SparkFresh \/ SparkKnown \/ SparkHit \/ Done

TaskStep(b) == StartTask(b) \/ Produce(b) \/ TaskOk(b) \/ TaskErr(b) \/ PureTask(b)

Next ==
    \/ MainStep
    \/ \E b \in Builder : TaskStep(b)
    \/ Exit \/ Crash
    \/ \E c \in Call : Edit(c)
    \/ Finished

Spec == Init /\ [][Next]_vars

\* The scheduler runs what is ready, and builder functions come to an end.
FairSpec == Spec /\ WF_vars(MainStep) /\ \A b \in Builder : WF_vars(TaskStep(b))

-----------------------------------------------------------------------------
(* Properties.                                                             *)

\* What a build from nothing would make of the sources as they are now.
Fresh[b \in IO] ==
    [call |-> CallOf[b], source |-> src[CallOf[b]],
     args |-> [i \in DOMAIN Deps[b] |-> Fresh[Final(Deps[b][i])]]]

\* What a builder needs besides its own result: its arguments and, when it is
\* pure, the builder it returns.
Uses(b) == ToSet(Deps[b]) \cup (IF b \in Pure THEN {Returns[b]} ELSE {})

\* All builders the targets need: the least set with the targets that has what
\* its members use.
Needed ==
    {b \in Builder : \A S \in SUBSET Builder :
        ToSet(Targets) \subseteq S /\ (\A c \in S : Uses(c) \subseteq S) => b \in S}

\* Builders are made from their arguments, so a description has no cycles: each
\* builder can be given a height above those of all its arguments.
NoCycles ==
    \E height \in [Builder -> 0..Cardinality(Builder)] :
        \A b \in Builder : \A d \in ToSet(Deps[b]) :
            height[d] < height[b] /\ height[Final(d)] < height[b]

\* A builder that is marked valid, by its task or from the cache of an earlier
\* run, has a value, and the file it names is what a build from nothing would
\* have made (flake.lua: "Either fetch a cached value or spark a thread that
\* returns a cached value").
ValidMeansBuilt ==
    \A b \in IO : mode # "down" /\ quiet /\ valid[b] =>
        value[b] # Nil /\ Content(value[b]) = Fresh[b]

\* A run that ends well has a value for every builder it needs, has left no
\* task behind and ignored no failure.
SuccessIsComplete ==
    mode = "ok" => \A b \in Needed : valid[b] /\ task[b] \in {"none", "ok"}

\* A run after a successful one, with nothing edited, computes only what is
\* untracked.
NothingRecomputed ==
    clean /\ mode \in {"run", "join"} =>
        \A b \in IO : CallOf[b] \notin Untracked => task[b] = "none"

\* Two tasks never write to the same build directory at the same time.
OutputExclusive ==
    \A b, c \in IO :
        b # c /\ task[b] \in {"running", "built"} /\ task[c] \in {"running", "built"}
        => obj[job[b].ref].name # obj[job[c].ref].name

\* Every run comes to an end, and so does the evaluation of its targets.
RunEnds == mode = "run" ~> mode \in {"ok", "err", "down"}

=============================================================================
