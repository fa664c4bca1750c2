---------------------------- MODULE ReadProcess -----------------------------
(***************************************************************************)
(* readProcess of flake/process.lua: several calls, each in a task of its  *)
(* own, run programs with their input and output in pipes.                 *)
(*                                                                         *)
(* A pipe holds a bounded number of bytes, and its reader sees the end of  *)
(* the stream when nobody has the write end open any more - in no process. *)
(* A fork copies every descriptor the parent has, also those of the other  *)
(* calls; the actions of fdjuggle (module FdJuggle) close them in the      *)
(* child.  The parent is one thread: a task runs until it has to wait.     *)
(* What the programs do is open, but a program does one thing at a time,   *)
(* and a write to a full pipe blocks it.                                   *)
(***************************************************************************)
EXTENDS Integers, FiniteSetsExt

CONSTANTS
    Call,      \* calls of readProcess
    InLen,     \* call -> bytes of stdinStr (0 when there is none)
    MaxOut,    \* call -> stream -> bound: bytes the program writes
    Filter,    \* calls whose program reads all its input before it ends
    Ending,    \* calls whose program ends by and by
    Capacity,  \* bytes a pipe holds
    Chunk      \* bytes read at once: 4096 in the code

Stream == 1..2   \* stdout and stderr

ASSUME ReadAssumption ==
    /\ InLen \in [Call -> Nat] /\ MaxOut \in [Call -> [Stream -> Nat]]
    /\ Filter \subseteq Call /\ Ending \subseteq Call
    /\ {Capacity, Chunk} \subseteq Nat \ {0}

VARIABLES
    parent,  \* pipe ends the parent has open
    child,   \* call -> pipe ends its program has open
    data,    \* call -> pipe -> bytes in it
    pc,      \* call -> where readProcess is
    left,    \* call -> bytes of stdinStr still to be written
    reader,  \* call -> stream -> state of its readFrom task
    chunks,  \* call -> stream -> bytes collected
    proc,    \* call -> state of its process
    want,    \* call -> the stream its program is writing to, or 0
    got,     \* call -> bytes of input its program has read
    eof,     \* call -> has it seen the end of its input?
    put      \* call -> stream -> bytes it has written

parentVars == <<pc, left, reader, chunks>>
childVars  == <<proc, want, got, eof, put>>
vars       == <<parent, child, data, parentVars, childVars>>

\* The ends of a call's three pipes, by number of the child's descriptor.
R(c, i) == <<c, i, "r">>
W(c, i) == <<c, i, "w">>
Ends(c) == {c} \X (0..2) \X {"r", "w"}

\* What spawn is asked to grant the child.
Granted(c) == {R(c, 0), W(c, 1), W(c, 2)}

Kept(c)    == Ends(c) \ Granted(c)

Space(c, i) == Capacity - data[c][i]

\* Some process has this end open.
Open(e) == e \in parent \/ \E c \in Call : e \in child[c]

TypeOK ==
    /\ parent \subseteq UNION {Ends(c) : c \in Call}
    /\ child \in [Call -> SUBSET UNION {Ends(c) : c \in Call}]
    /\ data \in [Call -> [0..2 -> 0..Capacity]]
    /\ pc \in [Call -> {"idle", "write", "wait", "join", "done", "raised"}]
    /\ left \in [Call -> Nat]
    /\ reader \in [Call -> [Stream -> {"none", "reading", "done"}]]
    /\ chunks \in [Call -> [Stream -> Nat]]
    /\ proc \in [Call -> {"none", "forked", "running", "ended"}]
    /\ want \in [Call -> 0..2]
    /\ got \in [Call -> Nat] /\ eof \in [Call -> BOOLEAN]
    /\ put \in [Call -> [Stream -> Nat]]

Init ==
    /\ parent = {} /\ child = [c \in Call |-> {}]
    /\ data = [c \in Call |-> [i \in 0..2 |-> 0]]
    /\ pc = [c \in Call |-> "idle"] /\ left = InLen
    /\ reader = [c \in Call |-> [i \in Stream |-> "none"]]
    /\ chunks = [c \in Call |-> [i \in Stream |-> 0]]
    /\ proc = [c \in Call |-> "none"] /\ want = [c \in Call |-> 0]
    /\ got = [c \in Call |-> 0] /\ eof = [c \in Call |-> FALSE]
    /\ put = [c \in Call |-> [i \in Stream |-> 0]]

-----------------------------------------------------------------------------
(* The parent.                                                             *)

\* The write end is closed and the readers are started when nothing is left to
\* write; otherwise the task waits with when_write.
CloseStdin(c) ==
    IF left'[c] = 0
    THEN /\ parent' = (parent \cup Kept(c)) \ {W(c, 0)}
         /\ reader' = [reader EXCEPT ![c] = [i \in Stream |-> "reading"]]
         /\ pc' = [pc EXCEPT ![c] = "wait"]
    ELSE /\ parent' = parent \cup Kept(c)
         /\ pc' = [pc EXCEPT ![c] = "write"]
         /\ UNCHANGED reader

\* Wrong variant of writeAll: what does not fit is forgotten.
writeOnce(c) ==
    /\ data' = [data EXCEPT ![c][0] = @ + Min({left[c], Capacity - @})]
    /\ left' = [left EXCEPT ![c] = 0]

\* Socket:write: try_write takes what fits, and the loop goes on with the rest.
writeAll(c) ==
    LET n == Min({left[c], Space(c, 0)})
    IN  /\ data' = [data EXCEPT ![c][0] = @ + n]
        /\ left' = [left EXCEPT ![c] = @ - n]

\* Three pipes, and a fork, which copies all of the parent's descriptors; then
\* spawn closes the granted ends in the parent, and the input is written.
Spawn(c) ==
    /\ pc[c] = "idle"
    /\ child' = [child EXCEPT ![c] = parent \cup Ends(c)]
    /\ proc' = [proc EXCEPT ![c] = "forked"]
    /\ writeAll(c) /\ CloseStdin(c)
    /\ UNCHANGED <<chunks, want, got, eof, put>>

\* spawn raises when the program is not found.  Nobody refers to the pipes any
\* more, but they stay open until the collector runs.
SpawnRaises(c) ==
    /\ pc[c] = "idle"
    /\ parent' = parent \cup Ends(c)
    /\ pc' = [pc EXCEPT ![c] = "raised"]
    /\ UNCHANGED <<child, data, left, reader, chunks, childVars>>

xpsocket_dtor(c) ==
    /\ pc[c] = "raised" /\ Ends(c) \subseteq parent
    /\ parent' = parent \ Ends(c)
    /\ UNCHANGED <<child, data, parentVars, childVars>>

\* There is room in the pipe again.
WriteMore(c) ==
    /\ pc[c] = "write" /\ Open(R(c, 0)) /\ Space(c, 0) > 0
    /\ writeAll(c) /\ CloseStdin(c)
    /\ UNCHANGED <<child, chunks, childVars>>

\* The program has closed its input (EPIPE): write gives up, and readProcess
\* does not look at its result.
WriteFails(c) ==
    /\ pc[c] = "write" /\ ~Open(R(c, 0))
    /\ left' = [left EXCEPT ![c] = 0]
    /\ CloseStdin(c)
    /\ UNCHANGED <<child, data, chunks, childVars>>

\* readFrom: try_read returns up to a chunk of what is there ...
Read(c, i) ==
    LET n == Min({data[c][i], Chunk})
    IN  /\ reader[c][i] = "reading" /\ n > 0
        /\ data' = [data EXCEPT ![c][i] = @ - n]
        /\ chunks' = [chunks EXCEPT ![c][i] = @ + n]
        /\ UNCHANGED <<parent, child, pc, left, reader, childVars>>

\* ... or nil at the end of the stream.
ReadEnd(c, i) ==
    /\ reader[c][i] = "reading"
    /\ data[c][i] = 0 /\ ~Open(W(c, i))
    /\ parent' = parent \ {R(c, i)}
    /\ reader' = [reader EXCEPT ![c][i] = "done"]
    /\ UNCHANGED <<child, data, pc, left, chunks, childVars>>

\* proc:wait() returns
WaitReturns(c) ==
    /\ pc[c] = "wait" /\ proc[c] = "ended"
    /\ pc' = [pc EXCEPT ![c] = "join"]
    /\ UNCHANGED <<parent, child, data, left, reader, chunks, childVars>>

\* both joins have returned
Joined(c) ==
    /\ pc[c] = "join"
    /\ \A i \in Stream : reader[c][i] = "done"
    /\ pc' = [pc EXCEPT ![c] = "done"]
    /\ UNCHANGED <<parent, child, data, left, reader, chunks, childVars>>

-----------------------------------------------------------------------------
(* The programs.                                                           *)

\* The file actions leave the child the ends it was granted, and it executes
\* the program.
Exec(c) ==
    /\ proc[c] = "forked"
    /\ child' = [child EXCEPT ![c] = Granted(c)]
    /\ proc' = [proc EXCEPT ![c] = "running"]
    /\ UNCHANGED <<parent, data, parentVars, want, got, eof, put>>

\* The program cannot be executed: exit(127)
ExecFails(c) ==
    /\ proc[c] = "forked"
    /\ child' = [child EXCEPT ![c] = {}]
    /\ proc' = [proc EXCEPT ![c] = "ended"]
    /\ UNCHANGED <<parent, data, parentVars, want, got, eof, put>>

Runs(c) == proc[c] = "running" /\ want[c] = 0

ChildReads(c) ==
    /\ Runs(c) /\ data[c][0] > 0
    /\ data' = [data EXCEPT ![c][0] = @ - 1]
    /\ got' = [got EXCEPT ![c] = @ + 1]
    /\ UNCHANGED <<parent, child, parentVars, proc, want, eof, put>>

ChildEof(c) ==
    /\ Runs(c) /\ ~eof[c] /\ data[c][0] = 0 /\ ~Open(W(c, 0))
    /\ eof' = [eof EXCEPT ![c] = TRUE]
    /\ UNCHANGED <<parent, child, data, parentVars, proc, want, got, put>>

\* The program decides to write a byte, which it can only do when it fits.
ChildWants(c, i) ==
    /\ Runs(c) /\ put[c][i] < MaxOut[c][i]
    /\ want' = [want EXCEPT ![c] = i]
    /\ UNCHANGED <<parent, child, data, parentVars, proc, got, eof, put>>

ChildWrites(c, i) ==
    /\ proc[c] = "running" /\ want[c] = i /\ Space(c, i) > 0
    /\ data' = [data EXCEPT ![c][i] = @ + 1]
    /\ put' = [put EXCEPT ![c][i] = @ + 1]
    /\ want' = [want EXCEPT ![c] = 0]
    /\ UNCHANGED <<parent, child, parentVars, proc, got, eof>>

ChildExits(c) ==
    /\ Runs(c) /\ (c \in Filter => eof[c])
    /\ child' = [child EXCEPT ![c] = {}]
    /\ proc' = [proc EXCEPT ![c] = "ended"]
    /\ UNCHANGED <<parent, data, parentVars, want, got, eof, put>>

-----------------------------------------------------------------------------

\* The steps of the parent's tasks once a process is spawned, and a program's.
ParentStep(c) ==
    \/ WriteMore(c) \/ WriteFails(c) \/ WaitReturns(c) \/ Joined(c)
    \/ \E i \in Stream : Read(c, i) \/ ReadEnd(c, i)

ExecStep(c) == Exec(c) \/ ExecFails(c)

ChildStep(c) ==
    \/ ChildReads(c) \/ ChildEof(c) \/ ChildExits(c)
    \/ \E i \in Stream : ChildWrites(c, i)

Finished ==
    /\ \A c \in Call : pc[c] = "done" \/ (pc[c] = "raised" /\ parent \cap Ends(c) = {})
    /\ UNCHANGED vars

Next ==
    \/ \E c \in Call :
        \/ Spawn(c) \/ SpawnRaises(c) \/ xpsocket_dtor(c)
        \/ ParentStep(c) \/ ExecStep(c) \/ ChildStep(c)
        \/ \E i \in Stream : ChildWants(c, i)
    \/ Finished

Spec == Init /\ [][Next]_vars

\* The scheduler runs tasks that can run (see Thread), and forked children come
\* to their exec.  A program that ends does so in the end, unless it is blocked.
FairSpec ==
    /\ Spec
    /\ WF_vars(\E c \in Call : ParentStep(c))
    /\ WF_vars(\E c \in Call : ExecStep(c))
    /\ \A c \in Ending : WF_vars(ChildStep(c))

-----------------------------------------------------------------------------
(* Properties.                                                             *)

\* readProcess returns everything the program wrote, to both streams, whatever
\* the order in which the process ends and the streams do (white space at the end
\* is trimmed afterwards).
OutputComplete ==
    \A c \in Call : pc[c] = "done" => chunks[c] = put[c]

\* A program that reads to the end of its input has got all of it.
InputComplete ==
    \A c \in Call : eof[c] => got[c] = InLen[c]

\* A call that has returned has left no descriptor behind, neither in the parent
\* nor in a program that was started meanwhile.
NoDescriptorLeft ==
    \A c \in Call : pc[c] = "done" =>
        /\ parent \cap Ends(c) = {}
        /\ \A d \in Call : proc[d] = "running" => child[d] \cap Ends(c) = {}

\* readProcess gives its program all of the input, returns all of the output and
\* leaves nothing open.
CallComplete == OutputComplete /\ InputComplete /\ NoDescriptorLeft

\* Either the input or the output of each stream fits in a pipe.
Fits(c) == InLen[c] <= Capacity \/ \A i \in Stream : MaxOut[c][i] <= Capacity

\* A call whose program ends returns, as long as it does not have both more
\* input and more output than pipes hold, and even when the programs of other
\* calls, forked while its pipes were open, run for ever.
CallReturns == \A c \in Ending : Fits(c) => (proc[c] = "forked" ~> pc[c] = "done")

=============================================================================
