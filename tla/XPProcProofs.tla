---------------------------- MODULE XPProcProofs ----------------------------
(***************************************************************************)
(* Proofs about XPProc, for every set of processes, pids and queues: the   *)
(* types, that a process object stands for its own child although pids are *)
(* used again, and that a sleeping wait notices the end of a child.        *)
(***************************************************************************)
EXTENDS XPProc, TLAPS

\* While a spawn is between fork() and xpproc_new, `queue` names the object it
\* will make, and exactly one live pid was forked for that object.
Spawning ==
    /\ pc \in {"forked", "failed"} => queue \in Proc /\ queue \notin list
    /\ pc = "forked" => \E k \in Pid : /\ kernel[k] # "free"
                                       /\ \A j \in Pid : born[j] = queue <=> j = k

\* The inductive invariant behind OwnPid.
ProcInv == TypeOK /\ Spawning /\ OwnPid

\* The inductive invariant behind EndIsNoticed: a zombie, anybody's, is always
\* announced by a signal or a byte, unless it is being reaped.
Announced ==
    /\ installed
    /\ (\E k \in Pid : kernel[k] = "zombie") => pending \/ pipe > 0 \/ pc = "reap"

-----------------------------------------------------------------------------

\* The status word of any way to end is a natural number.
LEMMA WordType == \A o \in Outcome \cup {<<"signal", SIGKILL>>} : Word(o) \in Nat
  BY ProcAssumption, SMT DEF Word, SIGKILL

\* Children that end, by themselves or by kill, keep the types.
LEMMA EndTyped ==
  ASSUME TypeOK, NEW K, K \subseteq Pid, NEW o \in Outcome \cup {<<"signal", SIGKILL>>}, End(K, o)
  PROVE  /\ kernel' \in [Pid -> {"free", "running", "zombie"}]
         /\ word' \in [Pid -> Nat]
         /\ ended' \in [Proc -> Outcome \cup {<<"signal", SIGKILL>>, None}]
         /\ pending' \in BOOLEAN
  BY WordType DEF TypeOK, End

\* Init establishes the invariant.
LEMMA InitProcInv == Init => ProcInv
<1> SUFFICES ASSUME Init PROVE ProcInv
  OBVIOUS
<1>1. installed \in BOOLEAN /\ pending \in BOOLEAN /\ pipe \in Nat
  BY ProcAssumption DEF Init
<1>2. TypeOK
  BY <1>1 DEF Init, TypeOK
<1> QED BY <1>2 DEF Init, ProcInv, Spawning, OwnPid

\* Every step keeps the types.
LEMMA NextTyped == ASSUME ProcInv, [Next]_vars PROVE TypeOK'
<1> USE DEF ProcInv
<1>1. ASSUME NEW p \in Proc, NEW k \in Pid, Fork(p, k) PROVE TypeOK'
  BY <1>1 DEF Fork, Unborn, TypeOK, signalVars, objVars
<1>2. ASSUME NEW p \in Proc, ForkFails(p) PROVE TypeOK'
  BY <1>2 DEF ForkFails, Unborn, TypeOK, kernelVars, signalVars, objVars
<1>3. ASSUME NEW p \in Proc, TryWait(p) PROVE TypeOK'
  BY <1>3 DEF TryWait, TypeOK, kernelVars, signalVars, loopVars
<1>4. ASSUME NEW p \in Proc, Kill(p) PROVE TypeOK'
  BY <1>4, EndTyped DEF Kill, Signal, TypeOK, objVars, loopVars
<1>5. ASSUME NEW p \in Proc, Dtor(p) PROVE TypeOK'
  <2>1. CASE pid[p] # 0
    BY <1>5, <2>1, EndTyped DEF Dtor, Signal, TypeOK, loopVars
  <2>2. CASE pid[p] = 0
    BY <1>5, <2>2 DEF Dtor, TypeOK, loopVars
  <2> QED BY <2>1, <2>2
<1>6. CASE New
  <2>1. queue \in Proc
    BY <1>6 DEF New, Spawning
  <2>2. (IF pc = "failed" THEN -1 ELSE CHOOSE k \in Pid : born[k] = queue) \in Pid \cup {0, -1}
    <3>1. CASE pc = "forked"
      BY <3>1 DEF Spawning
    <3>2. CASE pc = "failed"
      BY <3>2
    <3> QED BY <1>6, <3>1, <3>2 DEF New
  <2> QED BY <1>6, <2>1, <2>2 DEF New, TypeOK, kernelVars
<1>7. ASSUME NEW k \in Pid, NEW o \in Outcome, ChildEnds(k, o) PROVE TypeOK'
  BY <1>7, EndTyped DEF ChildEnds, TypeOK, objVars, loopVars
<1>8. CASE Handler
  <2>1. pipe' \in Nat
    BY <1>8 DEF Handler, TypeOK
  <2> QED BY <1>8, <2>1 DEF Handler, TypeOK, kernelVars, objVars, loopVars
<1>9. ASSUME NEW p \in Proc, NEW u \in Queue, WhenWait(p, u) PROVE TypeOK'
  BY <1>9 DEF WhenWait, TypeOK, kernelVars, signalVars, loopVars
<1>10. ASSUME NEW u \in Queue, Wait(u) PROVE TypeOK'
  BY <1>10 DEF Wait, wakeChildWaiters, TypeOK, kernelVars, signalVars
<1>11. CASE PollSignal
  BY <1>11 DEF PollSignal, TypeOK, kernelVars, objVars
<1>12. CASE PollOther
  BY <1>12 DEF PollOther, TypeOK, kernelVars, signalVars, objVars
<1>13. ASSUME NEW k \in Pid, Waitpid(k) PROVE TypeOK'
  BY <1>13 DEF Waitpid, TypeOK, signalVars
<1>14. CASE ReapEnds
  BY <1>14 DEF ReapEnds, wakeChildWaiters, TypeOK, kernelVars, signalVars
<1>15. CASE UNCHANGED vars
  BY <1>15 DEF vars, TypeOK, kernelVars, signalVars, objVars, loopVars
<1> QED
  BY <1>1, <1>2, <1>3, <1>4, <1>5, <1>6, <1>7,
     <1>8, <1>9, <1>10, <1>11, <1>12, <1>13, <1>14, <1>15 DEF Next

\* Every step keeps pids with their objects: fork takes a free pid, and waitpid,
\* which frees one, takes it from its object.
LEMMA NextOwned == ASSUME ProcInv, [Next]_vars PROVE Spawning' /\ OwnPid'
<1> USE ProcAssumption DEF ProcInv
<1>1. ASSUME NEW p \in Proc, NEW k \in Pid, Fork(p, k) PROVE Spawning' /\ OwnPid'
  BY <1>1 DEF Fork, Unborn, TypeOK, Spawning, OwnPid, signalVars, objVars
<1>2. ASSUME NEW p \in Proc, ForkFails(p) PROVE Spawning' /\ OwnPid'
  BY <1>2 DEF ForkFails, Unborn, TypeOK, Spawning, OwnPid, kernelVars, signalVars, objVars
<1>3. ASSUME NEW p \in Proc, TryWait(p) PROVE Spawning' /\ OwnPid'
  BY <1>3 DEF TryWait, TypeOK, Spawning, OwnPid, kernelVars, signalVars, loopVars
<1>4. ASSUME NEW p \in Proc, Kill(p) PROVE Spawning' /\ OwnPid'
  BY <1>4 DEF Kill, Signal, End, TypeOK, Spawning, OwnPid, objVars, loopVars
<1>5. ASSUME NEW p \in Proc, Dtor(p) PROVE Spawning' /\ OwnPid'
  <2>1. Spawning'
    BY <1>5 DEF Dtor, Spawning, loopVars
  <2>2. \A k \in Pid : kernel[k] # "free" => kernel'[k] # "free"
    BY <1>5 DEF Dtor, Signal, End, TypeOK
  <2>3. \A r \in list' : r \in list /\ pid'[r] = pid[r]
    BY <1>5 DEF Dtor, TypeOK
  <2>4. ASSUME NEW r \in list', pid'[r] > 0
        PROVE  born'[pid'[r]] = r /\ kernel'[pid'[r]] # "free"
    <3>1. pid[r] \in Pid /\ born[pid[r]] = r /\ kernel[pid[r]] # "free"
      BY <2>3, <2>4 DEF TypeOK, OwnPid
    <3> QED BY <1>5, <2>2, <2>3, <3>1 DEF Dtor
  <2> QED BY <2>1, <2>4 DEF OwnPid
<1>6. CASE New
  <2>1. CASE pc = "forked"
    <3>1. PICK k \in Pid : kernel[k] # "free" /\ \A j \in Pid : born[j] = queue <=> j = k
      BY <2>1 DEF Spawning
    <3>2. (CHOOSE j \in Pid : born[j] = queue) = k
      BY <3>1
    <3>3. pid' = [pid EXCEPT ![queue] = k]
      BY <1>6, <2>1, <3>2 DEF New
    <3>4. pid'[queue] = k /\ \A r \in list : r # queue /\ pid'[r] = pid[r]
      BY <2>1, <3>3 DEF TypeOK, Spawning
    <3> QED BY <1>6, <2>1, <3>1, <3>4, ZenonT(60) DEF New, TypeOK, Spawning, OwnPid, kernelVars
  <2>2. CASE pc = "failed"
    BY <1>6, <2>2 DEF New, TypeOK, Spawning, OwnPid, kernelVars
  <2> QED BY <1>6, <2>1, <2>2 DEF New
<1>7. ASSUME NEW k \in Pid, NEW o \in Outcome, ChildEnds(k, o) PROVE Spawning' /\ OwnPid'
  BY <1>7 DEF ChildEnds, End, TypeOK, Spawning, OwnPid, objVars, loopVars
<1>8. CASE Handler
  BY <1>8 DEF Handler, TypeOK, Spawning, OwnPid, kernelVars, objVars, loopVars
<1>9. ASSUME NEW p \in Proc, NEW u \in Queue, WhenWait(p, u) PROVE Spawning' /\ OwnPid'
  BY <1>9 DEF WhenWait, TypeOK, Spawning, OwnPid, kernelVars, signalVars, loopVars
<1>10. ASSUME NEW u \in Queue, Wait(u) PROVE Spawning' /\ OwnPid'
  BY <1>10 DEF Wait, wakeChildWaiters, TypeOK, Spawning, OwnPid, kernelVars, signalVars
<1>11. CASE PollSignal
  BY <1>11 DEF PollSignal, TypeOK, Spawning, OwnPid, kernelVars, objVars
<1>12. CASE PollOther
  BY <1>12 DEF PollOther, TypeOK, Spawning, OwnPid, kernelVars, signalVars, objVars
<1>13. ASSUME NEW k \in Pid, Waitpid(k) PROVE Spawning' /\ OwnPid'
  BY <1>13 DEF Waitpid, TypeOK, Spawning, OwnPid, signalVars
<1>14. CASE ReapEnds
  BY <1>14 DEF ReapEnds, wakeChildWaiters, TypeOK, Spawning, OwnPid, kernelVars, signalVars
<1>15. CASE UNCHANGED vars
  BY <1>15 DEF vars, TypeOK, Spawning, OwnPid, kernelVars, signalVars, objVars, loopVars
<1> QED
  BY <1>1, <1>2, <1>3, <1>4, <1>5, <1>6, <1>7,
     <1>8, <1>9, <1>10, <1>11, <1>12, <1>13, <1>14, <1>15 DEF Next

\* Every step keeps zombies announced: whoever makes one leaves a signal, the
\* handler turns it into a byte, and the pipe is emptied before reaping, which
\* goes on until there are no zombies.
LEMMA NextAnnounced == ASSUME TypeOK, Announced, [Next]_vars PROVE Announced'
<1>1. ASSUME NEW p \in Proc, NEW k \in Pid, Fork(p, k) PROVE Announced'
  BY <1>1 DEF Fork, Unborn, TypeOK, Announced, signalVars, objVars
<1>2. ASSUME NEW p \in Proc, ForkFails(p) PROVE Announced'
  BY <1>2 DEF ForkFails, Unborn, TypeOK, Announced, kernelVars, signalVars, objVars
<1>3. ASSUME NEW p \in Proc, TryWait(p) PROVE Announced'
  BY <1>3 DEF TryWait, TypeOK, Announced, kernelVars, signalVars, loopVars
<1>4. ASSUME NEW p \in Proc, Kill(p) PROVE Announced'
  BY <1>4 DEF Kill, Signal, End, TypeOK, Announced, objVars, loopVars
<1>5. ASSUME NEW p \in Proc, Dtor(p) PROVE Announced'
  BY <1>5 DEF Dtor, Signal, End, TypeOK, Announced, loopVars
<1>6. CASE New
  BY <1>6 DEF New, TypeOK, Announced, kernelVars
<1>7. ASSUME NEW k \in Pid, NEW o \in Outcome, ChildEnds(k, o) PROVE Announced'
  BY <1>7 DEF ChildEnds, End, TypeOK, Announced, objVars, loopVars
<1>8. CASE Handler
  BY <1>8 DEF Handler, TypeOK, Announced, kernelVars, objVars, loopVars
<1>9. ASSUME NEW p \in Proc, NEW u \in Queue, WhenWait(p, u) PROVE Announced'
  BY <1>9 DEF WhenWait, TypeOK, Announced, kernelVars, signalVars, loopVars
<1>10. ASSUME NEW u \in Queue, Wait(u) PROVE Announced'
  BY <1>10 DEF Wait, wakeChildWaiters, TypeOK, Announced, kernelVars, signalVars
<1>11. CASE PollSignal
  BY <1>11 DEF PollSignal, TypeOK, Announced, kernelVars, objVars
<1>12. CASE PollOther
  BY <1>12 DEF PollOther, TypeOK, Announced, kernelVars, signalVars, objVars
<1>13. ASSUME NEW k \in Pid, Waitpid(k) PROVE Announced'
  BY <1>13 DEF Waitpid, TypeOK, Announced, signalVars
<1>14. CASE ReapEnds
  BY <1>14 DEF ReapEnds, wakeChildWaiters, TypeOK, Announced, kernelVars, signalVars
<1>15. CASE UNCHANGED vars
  BY <1>15 DEF vars, TypeOK, Announced, kernelVars, signalVars, objVars, loopVars
<1> QED
  BY <1>1, <1>2, <1>3, <1>4, <1>5, <1>6, <1>7,
     <1>8, <1>9, <1>10, <1>11, <1>12, <1>13, <1>14, <1>15 DEF Next

-----------------------------------------------------------------------------

\* The invariant holds throughout.
THEOREM ProcInvariant == Spec => []ProcInv
<1>1. ProcInv /\ [Next]_vars => ProcInv'
  BY NextTyped, NextOwned DEF ProcInv
<1> QED BY <1>1, InitProcInv, PTL DEF Spec

\* Every variable of the child process code keeps its type.
THEOREM ProcTypeCorrect == Spec => []TypeOK
<1>1. ProcInv => TypeOK
  BY DEF ProcInv
<1> QED BY <1>1, ProcInvariant, PTL

\* kill() and the destructor of a process object signal its own child only,
\* although the kernel uses pids again.
THEOREM PidsOwned == Spec => []OwnPid
<1>1. ProcInv => OwnPid
  BY DEF ProcInv
<1> QED BY <1>1, ProcInvariant, PTL

\* Once the handler is installed, a wait() that sleeps for a child that has
\* ended is about to be woken, however signals are merged and whichever queue
\* reaps.
THEOREM NoEndMissed == Warm /\ Spec => []EndIsNoticed
<1>1. Warm /\ Init => Announced
  BY DEF Init, Announced
<1>2. TypeOK /\ Announced /\ [Next]_vars => Announced'
  BY NextAnnounced
<1>3. TypeOK /\ Announced => EndIsNoticed
  <2> SUFFICES ASSUME TypeOK, Announced, pc = "poll", NEW p \in Proc, pid[p] > 0,
                      kernel[pid[p]] = "zombie"
               PROVE  pending \/ pipe > 0
    BY DEF EndIsNoticed
  <2>1. pid[p] \in Pid
    BY DEF TypeOK
  <2> QED BY <2>1 DEF Announced
<1> QED BY <1>1, <1>2, <1>3, ProcTypeCorrect, PTL DEF Spec

=============================================================================
