--------------------------- MODULE FdJuggleProofs ---------------------------
(***************************************************************************)
(* Proofs about FdJuggle: whatever descriptors are open and whatever fdmap *)
(* says, in whatever order Lua's pairs visits its keys, the child starts   *)
(* with exactly the descriptors fdmap grants.                              *)
(*                                                                         *)
(* fdmap is a graph: each key has one edge, to the parent's descriptor it  *)
(* is to receive.  The plan overwrites a descriptor only after its own     *)
(* file was moved on, so that the file of each parent's descriptor is      *)
(* either where it always was or where newnames says.  The one exception   *)
(* is tmpfd, which serves one cycle after the other: its entries in        *)
(* newnames go stale, which is harmless because whatever the chains have   *)
(* not visited is a set of cycles without side branches.  That is a        *)
(* counting argument: on those descriptors fdmap is onto, hence one to one.*)
(***************************************************************************)
EXTENDS FdJuggle, SequenceLemmas, FiniteSetTheorems, TLAPS

-----------------------------------------------------------------------------
(* The inductive invariant.                                                *)

\* Parent's descriptors somebody is to receive whose file was not moved yet.
Unmoved == from \ DOMAIN newnames

\* The pending call of dupChain is about to overwrite s.
Being(s) == call # Nil /\ call.a = s

\* The file of b is on the descriptor it was moved to, and stays there.
Kept(b) ==
    /\ newnames[b] \in DOMAIN to /\ to[newnames[b]] = b /\ table[newnames[b]] = b
    /\ newnames[b] \notin Unmoved /\ ~Being(newnames[b])
    /\ at = "chains" => newnames[b] \in from \/ newnames[b] \notin todo

\* The file of b waits on tmpfd while the cycle of b is walked.
Parked(b) == newnames[b] = tmpfd /\ call # Nil /\ call.a # tmpfd /\ table[tmpfd] = b

\* The file of b has left tmpfd: all that were to receive it have it.
Served(b) ==
    /\ newnames[b] = tmpfd
    /\ \A a \in DOMAIN to : to[a] = b => table[a] = b /\ a \notin Unmoved /\ ~Being(a)

\* While chains and cycles are visited.
WalkInv ==
    /\ DOMAIN newnames \subseteq from \cap blocking
    /\ \A b \in DOMAIN newnames : Kept(b) \/ (at = "cycles" /\ (Parked(b) \/ Served(b)))
    /\ \A b \in Unmoved : table[b] = b
    /\ \A a \in DOMAIN to :
          table[a] = to[a] \/ a \in Unmoved \/ Being(a) \/ (at = "chains" /\ a \in todo \ from)
    /\ \A s \in Slot \ DOMAIN to : table[s] = Nil \/ s \in Unmoved \/ Being(s) \/ s = tmpfd
    /\ call # Nil => call.a \notin Unmoved

\* While chains are visited: a chain that was begun is walked to its end.
ChainInv ==
    /\ tmpfd = Nil
    /\ \A a \in DOMAIN to : a \notin Unmoved =>
          to[a] \in DOMAIN newnames \/ Being(a) \/ a \in todo \ from
    /\ call # Nil =>
          /\ call.a \in DOMAIN newnames \/ call.a \in DOMAIN to \ (from \cup todo)
          /\ call.b = IF call.a \in DOMAIN to THEN to[call.a] ELSE Nil

\* W consists of cycles without side branches.
Cycles(W) ==
    /\ W \subseteq DOMAIN to
    /\ \A a \in DOMAIN to : to[a] \in W <=> a \in W
    /\ \A a, b \in W : to[a] = to[b] => a = b

\* While cycles are visited: what is left are cycles, and so is the one that is
\* being walked.
CycleInv ==
    /\ tmpfd \notin DOMAIN to
    /\ \E W \in SUBSET DOMAIN to :
          /\ Cycles(W) /\ Unmoved \subseteq W
          /\ call # Nil =>
                /\ call.b \in W
                /\ \/ call.a \in W /\ call.b = to[call.a]
                   \/ call.a = tmpfd /\ call.b \in Unmoved
    /\ \A a \in Unmoved : a \in todo \/ (call # Nil /\ call.b = a) \/ (to[a] = a /\ a \in blocking)

StartInv ==
    /\ table = [s \in Slot |-> IF s \in open THEN s ELSE Nil]
    /\ DOMAIN newnames = {} /\ tmpfd = Nil /\ call = Nil

PlanInv ==
    /\ PlanTypeOK
    /\ at = "close" => StartInv
    /\ at \in {"chains", "cycles"} => WalkInv
    /\ at = "chains" => ChainInv
    /\ at = "cycles" => CycleInv
    /\ at = "exec" => call = Nil
    /\ StartsAsGranted
-----------------------------------------------------------------------------
(* Lemmas about the graph.                                                 *)

\* There is a descriptor for tmpfd: one more than fdmap can name.
LEMMA UnusedFacts ==
    ASSUME FdAssumption, PlanTypeOK
    PROVE  Unused \in Slot /\ Unused \notin DOMAIN to
<1> DEFINE S == Slot \ DOMAIN to
<1>1. MaxFd \in Nat /\ DOMAIN to \subseteq 0..MaxFd
  BY DEF FdAssumption, PlanTypeOK, Fd
<1>2. S \in SUBSET Nat /\ MaxFd + 1 \in S
  BY <1>1 DEF Slot
<1>3. PICK s \in S : \A k \in S : s <= k
  BY <1>2, Least
<1>4. ASSUME NEW r \in 0..(s - 1) PROVE r \in DOMAIN to
  <2>1. s \in Slot
    BY <1>3
  <2>2. r \in Slot /\ ~(s <= r)
    BY <1>1, <2>1 DEF Slot
  <2>3. QED
    BY <1>3, <2>2
<1>5. s \in Slot /\ s \notin DOMAIN to /\ \A r \in 0..(s - 1) : r \in DOMAIN to
  BY <1>4
<1>6. QED
  BY <1>5 DEF Unused

\* What fdmap grants: from is the set of descriptors some key is to receive.
LEMMA FromFacts ==
    ASSUME FdAssumption, PlanTypeOK
    PROVE  /\ \A a \in DOMAIN to : to[a] \in from
           /\ \A b \in from : \E a \in DOMAIN to : to[a] = b
           /\ from \subseteq Fd /\ DOMAIN to \subseteq Fd /\ Fd \subseteq Slot
           /\ Nil \notin Slot
<1>1. Fd \subseteq Slot
  BY DEF FdAssumption, Fd, Slot
<1>2. QED
  BY <1>1 DEF from, Range, PlanTypeOK, FdAssumption

\* A finite set that fdmap maps onto one that contains it is a set of cycles.
LEMMA OntoIsCyclic ==
    ASSUME NEW f, NEW P, NEW U, IsFiniteSet(U), P \subseteq U,
           \A a \in P : f[a] \in U, \A u \in U : \E a \in P : f[a] = u
    PROVE  P = U /\ \A a, b \in P : f[a] = f[b] => a = b
<1> DEFINE g == [a \in P |-> f[a]]
<1>1. g \in Surjection(P, U)
  BY DEF Surjection
<1>2. IsFiniteSet(P) /\ Cardinality(P) <= Cardinality(U) /\ (Cardinality(U) = Cardinality(P) => U = P)
  BY FS_Subset
<1>3. Cardinality(U) <= Cardinality(P) /\ (Cardinality(U) = Cardinality(P) => g \in Injection(P, U))
  BY <1>1, <1>2, FS_Surjection
<1>4. Cardinality(P) \in Nat /\ Cardinality(U) \in Nat
  BY <1>2, FS_CardinalityType
<1>5. Cardinality(U) = Cardinality(P)
  BY <1>2, <1>3, <1>4
<1>6. g \in Injection(P, U)
  BY <1>3, <1>5
<1>7. \A a, b \in P : g[a] = g[b] => a = b
  BY <1>6 DEF Injection, IsInjective
<1>8. QED
  BY <1>2, <1>5, <1>7

-----------------------------------------------------------------------------
(* Every step keeps the invariant.                                         *)

LEMMA PlanStarts == FdAssumption /\ PlanInit => PlanInv
<1> SUFFICES ASSUME FdAssumption, PlanInit PROVE PlanInv
  OBVIOUS
<1>1. PICK D \in SUBSET Fd : to \in [D -> open]
  BY DEF PlanInit
<1>2. DOMAIN to \subseteq Fd /\ from \subseteq open /\ open \subseteq Fd
  BY <1>1 DEF from, Range, PlanInit
<1>3. Fd \subseteq Slot
  BY DEF FdAssumption, Fd, Slot
<1>4. DOMAIN newnames = {} /\ Range(newnames) = {}
  BY DEF PlanInit, Range
<1>5. QED
  BY <1>2, <1>3, <1>4 DEF PlanInv, PlanTypeOK, StartInv, StartsAsGranted, PlanInit

LEMMA GraphSame ==
    ASSUME to' = to
    PROVE  from' = from /\ (newnames' = newnames => Unmoved' = Unmoved)
BY DEF from, Unmoved

LEMMA CloseOthersKept ==
    ASSUME FdAssumption, PlanInv, CloseOthers
    PROVE  PlanInv'
<1>1. /\ at = "close" /\ at' = "chains" /\ todo' = DOMAIN to
      /\ table' = [s \in Slot |-> IF s \in DOMAIN to \cup from THEN table[s] ELSE Nil]
      /\ UNCHANGED <<open, to, blocking, newnames, tmpfd, call>>
  BY DEF CloseOthers
<1>2. PlanTypeOK /\ StartInv
  BY <1>1 DEF PlanInv
<1>3. from' = from /\ Unmoved' = from /\ DOMAIN newnames = {}
  BY <1>1, <1>2, GraphSame DEF StartInv, Unmoved
<1>4. PlanTypeOK'
  BY <1>1, <1>2, <1>3 DEF PlanTypeOK
<1>5. \A b \in from : b \in Slot /\ table'[b] = b
  BY <1>1, <1>2, FromFacts DEF PlanTypeOK, StartInv
<1>6. \A s \in Slot \ DOMAIN to : table'[s] = Nil \/ s \in from
  BY <1>1
<1>7. WalkInv'
  BY <1>1, <1>2, <1>3, <1>5, <1>6 DEF WalkInv, StartInv, Being
<1>8. ChainInv'
  BY <1>1, <1>2, <1>3 DEF ChainInv, StartInv, Being
<1>9. QED
  BY <1>1, <1>4, <1>7, <1>8 DEF PlanInv, StartsAsGranted

\* The state of a pending call of dupChain.
LEMMA CallFacts ==
    ASSUME FdAssumption, PlanInv, call # Nil
    PROVE  /\ at \in {"chains", "cycles"} /\ PlanTypeOK /\ WalkInv
           /\ call.a \in Slot /\ call.b \in Fd \cup {Nil} /\ call.a \notin Unmoved
           /\ call \in [a : Slot, b : Fd \cup {Nil}]
<1>1. PlanTypeOK /\ call \in [a : Slot, b : Fd \cup {Nil}]
  BY DEF PlanInv, PlanTypeOK
<1>2. at # "close" /\ at # "exec"
  BY DEF PlanInv, StartInv
<1>3. at \in {"chains", "cycles"} /\ WalkInv
  BY <1>1, <1>2 DEF PlanInv, PlanTypeOK
<1>4. QED
  BY <1>1, <1>3 DEF WalkInv

LEMMA DupChainEndKept ==
    ASSUME FdAssumption, PlanInv, DupChainEnd
    PROVE  PlanInv'
<1>1. /\ call # Nil /\ call.b = Nil /\ call' = Nil
      /\ table' = [table EXCEPT ![call.a] = Nil]
      /\ UNCHANGED <<open, to, blocking, newnames, tmpfd, todo, at>>
  BY DEF DupChainEnd
<1>2. PlanTypeOK /\ WalkInv /\ call.a \in Slot /\ call.a \notin Unmoved /\ at \in {"chains", "cycles"}
  BY <1>1, CallFacts
<1>3. from' = from /\ Unmoved' = Unmoved
  BY <1>1, GraphSame
<1>4. at = "chains"
  <2>1. ASSUME at = "cycles" PROVE FALSE
    <3>1. call.b \in DOMAIN to
      BY <1>1, <2>1 DEF PlanInv, CycleInv
    <3>2. QED
      BY <1>1, <1>2, <3>1, FromFacts
  <2>2. QED
    BY <1>2, <2>1
<1>5. ChainInv /\ call.a \notin DOMAIN to
  <2>1. ChainInv
    BY <1>4 DEF PlanInv
  <2>2. call.a \in DOMAIN to => to[call.a] \in Slot
    BY <1>2, FromFacts
  <2>3. QED
    BY <1>1, <1>2, <2>1, <2>2, FromFacts DEF ChainInv
<1>6. table' \in [Slot -> Fd \cup {Nil}] /\ table'[call.a] = Nil /\ \A s \in Slot \ {call.a} : table'[s] = table[s]
  BY <1>1, <1>2 DEF PlanTypeOK
<1>7. PlanTypeOK'
  BY <1>1, <1>2, <1>3, <1>6 DEF PlanTypeOK
<1>8. WalkInv'
  <2>1. \A b \in DOMAIN newnames : Kept(b)'
    <3> SUFFICES ASSUME NEW b \in DOMAIN newnames PROVE Kept(b)'
      OBVIOUS
    <3>1. Kept(b)
      BY <1>2, <1>4 DEF WalkInv
    <3>2. newnames[b] \in DOMAIN to /\ newnames[b] \in Slot
      BY <1>2, <3>1, FromFacts DEF Kept
    <3>3. QED
      BY <1>1, <1>3, <1>5, <1>6, <3>1, <3>2 DEF Kept, Being
  <2>2. \A a \in DOMAIN to : a \in Slot
    BY <1>2, FromFacts
  <2>3. \A b \in Unmoved : b \in Slot
    BY <1>2, FromFacts DEF Unmoved
  <2>4. QED
    BY <1>1, <1>2, <1>3, <1>5, <1>6, <2>1, <2>2, <2>3 DEF WalkInv, Being
<1>9. ChainInv'
  BY <1>1, <1>3, <1>5 DEF ChainInv, Being
<1>10. QED
  BY <1>1, <1>4, <1>7, <1>8, <1>9 DEF PlanInv, StartsAsGranted

\* The end of a call that finds the file it needs moved already.
LEMMA DupChainVisitedKept ==
    ASSUME FdAssumption, PlanInv, DupChainVisited
    PROVE  PlanInv'
<1> DEFINE n == newnames[call.b]
<1>1. /\ call # Nil /\ call.b \in DOMAIN newnames /\ call' = Nil
      /\ table' = [table EXCEPT ![call.a] = table[n]]
      /\ blocking' = blocking \cup ({table[n]} \ {Nil})
      /\ UNCHANGED <<open, to, newnames, tmpfd, todo, at>>
  BY DEF DupChainVisited, dup2
<1> HIDE DEF n
<1>2. /\ PlanTypeOK /\ WalkInv /\ call.a \in Slot /\ call.a \notin Unmoved /\ at \in {"chains", "cycles"}
      /\ call.b \in Fd
  BY <1>1, CallFacts DEF PlanTypeOK
<1>3. from' = from /\ Unmoved' = Unmoved
  BY <1>1, GraphSame
<1>4. /\ call.a \in DOMAIN to /\ to[call.a] = call.b /\ table[n] = call.b
      /\ at = "cycles" => /\ call.a # tmpfd
                          /\ \A b \in DOMAIN newnames : Parked(b) => b = call.b
                          /\ \A a \in DOMAIN to : to[a] = call.b => a = call.a
  <2>1. CASE at = "chains"
    <3>1. call.a \in DOMAIN to /\ to[call.a] = call.b
      BY <1>1, <1>2, <2>1, FromFacts DEF PlanInv, ChainInv
    <3>2. Kept(call.b)
      BY <1>1, <1>2, <2>1 DEF WalkInv
    <3>3. QED
      BY <2>1, <3>1, <3>2 DEF Kept, n
  <2>2. CASE at = "cycles"
    <3>1. PICK W \in SUBSET DOMAIN to :
             /\ Cycles(W) /\ Unmoved \subseteq W /\ call.b \in W
             /\ \/ call.a \in W /\ call.b = to[call.a]
                \/ call.a = tmpfd /\ call.b \in Unmoved
      BY <1>1, <2>2 DEF PlanInv, CycleInv
    <3>2. call.a \in W /\ call.b = to[call.a] /\ call.a \in DOMAIN to /\ call.a # tmpfd
      BY <1>1, <2>2, <3>1 DEF Unmoved, PlanInv, CycleInv
    <3>3. \A a \in DOMAIN to : to[a] = call.b => a = call.a
      BY <3>1, <3>2 DEF Cycles
    <3>4. ~Kept(call.b)
      BY <1>1, <3>3 DEF Kept, Being
    <3>5. ~Served(call.b)
      BY <1>1, <3>2 DEF Served, Being
    <3>6. Parked(call.b)
      BY <1>1, <1>2, <3>4, <3>5 DEF WalkInv
    <3>7. QED
      BY <3>2, <3>3, <3>6 DEF Parked, n
  <2>3. QED
    BY <1>2, <2>1, <2>2
<1>5. /\ table' \in [Slot -> Fd \cup {Nil}] /\ table'[call.a] = call.b
      /\ \A s \in Slot \ {call.a} : table'[s] = table[s]
      /\ blocking' = blocking \cup {call.b} \/ blocking' = blocking
  BY <1>1, <1>2, <1>4 DEF PlanTypeOK
<1>6. blocking \subseteq blocking' /\ blocking' \subseteq Fd
  BY <1>1, <1>2, <1>4 DEF PlanTypeOK
<1>7. PlanTypeOK'
  BY <1>1, <1>2, <1>3, <1>5, <1>6 DEF PlanTypeOK
<1>8. \A a \in DOMAIN to \cup Unmoved : a \in Slot
  BY <1>2, FromFacts DEF Unmoved
<1>9. WalkInv'
  <2>1. ASSUME NEW b \in DOMAIN newnames
        PROVE  Kept(b)' \/ (at = "cycles" /\ Served(b)')
    <3>1. CASE Kept(b)
      BY <1>1, <1>3, <1>5, <1>8, <3>1 DEF Kept, Being
    <3>2. CASE at = "cycles" /\ Served(b)
      BY <1>1, <1>3, <1>5, <1>8, <3>2 DEF Served, Being
    <3>3. CASE at = "cycles" /\ Parked(b)
      <4>1. b = call.b /\ newnames[b] = tmpfd
        BY <1>4, <3>3 DEF Parked
      <4>2. Served(b)'
        BY <1>1, <1>2, <1>3, <1>4, <1>5, <3>3, <4>1 DEF Served, Being
      <4>3. QED
        BY <3>3, <4>2
    <3>4. QED
      BY <1>2, <3>1, <3>2, <3>3 DEF WalkInv
  <2>2. \A b \in Unmoved : table'[b] = b
    BY <1>2, <1>5, <1>8 DEF WalkInv
  <2>3. \A a \in DOMAIN to : table'[a] = to[a] \/ a \in Unmoved \/ (at = "chains" /\ a \in todo \ from)
    BY <1>2, <1>4, <1>5, <1>8 DEF WalkInv, Being
  <2>4. \A s \in Slot \ DOMAIN to : table'[s] = Nil \/ s \in Unmoved \/ s = tmpfd
    BY <1>2, <1>4, <1>5 DEF WalkInv, Being
  <2>5. DOMAIN newnames \subseteq from \cap blocking'
    BY <1>2, <1>6 DEF WalkInv
  <2>6. QED
    BY <1>1, <1>3, <2>1, <2>2, <2>3, <2>4, <2>5 DEF WalkInv, Being
<1>10. at = "chains" => ChainInv'
  BY <1>1, <1>3, <1>4 DEF PlanInv, ChainInv, Being
<1>11. at = "cycles" => CycleInv'
  <2> SUFFICES ASSUME at = "cycles" PROVE CycleInv'
    OBVIOUS
  <2>1. CycleInv
    BY DEF PlanInv
  <2>2. PICK W \in SUBSET DOMAIN to : Cycles(W) /\ Unmoved \subseteq W
    BY <2>1 DEF CycleInv
  <2>3. Cycles(W)'
    BY <1>1, <2>2 DEF Cycles
  <2>4. call.b \notin Unmoved
    BY <1>1 DEF Unmoved
  <2>5. \A a \in Unmoved : a \in todo \/ (to[a] = a /\ a \in blocking')
    BY <1>6, <2>1, <2>4 DEF CycleInv
  <2>6. QED
    BY <1>1, <1>3, <2>1, <2>2, <2>3, <2>5 DEF CycleInv
<1>12. QED
  BY <1>1, <1>2, <1>7, <1>9, <1>10, <1>11 DEF PlanInv, StartsAsGranted

\* The file of the next descriptor of a chain or cycle is moved.
LEMMA DupChainStepKept ==
    ASSUME FdAssumption, PlanInv, DupChainStep
    PROVE  PlanInv'
<1> PICK s, b : s = call.a /\ b = call.b
  OBVIOUS
<1> DEFINE next == IF b \in DOMAIN to THEN to[b] ELSE Nil
<1>1. /\ call # Nil /\ b \in Fd /\ b \notin DOMAIN newnames /\ call' = [a |-> b, b |-> next]
      /\ table' = [table EXCEPT ![s] = table[b]]
      /\ blocking' = blocking \cup ({table[b]} \ {Nil})
      /\ newnames' = Put(newnames, b, s)
      /\ UNCHANGED <<open, to, tmpfd, todo, at>>
  BY DEF DupChainStep, dup2
<1>2. /\ PlanTypeOK /\ WalkInv /\ s \in Slot /\ s \notin Unmoved /\ at \in {"chains", "cycles"}
  BY <1>1, CallFacts
<1>3. \A a \in DOMAIN to : to[a] \in from /\ to[a] \in Fd /\ a \in Slot /\ to[a] # Nil /\ to[a] \in Slot
  BY <1>2, FromFacts
<1>4. \/ at = "chains" /\ s \in DOMAIN to /\ b = to[s] /\ (s \notin from => s \notin todo)
      \/ at = "cycles" /\ s \in DOMAIN to /\ b = to[s] /\ s # tmpfd
      \/ at = "cycles" /\ s = tmpfd /\ s \notin DOMAIN to /\ b \in Unmoved
  <2>1. CASE at = "chains"
    <3>1. /\ s \in DOMAIN newnames \/ s \in DOMAIN to \ (from \cup todo)
          /\ b = IF s \in DOMAIN to THEN to[s] ELSE Nil
      BY <1>1, <2>1 DEF PlanInv, ChainInv
    <3>2. b # Nil /\ DOMAIN newnames \subseteq from
      BY <1>1, <1>2, FromFacts DEF WalkInv
    <3>3. QED
      BY <2>1, <3>1, <3>2
  <2>2. CASE at = "cycles"
    BY <1>1, <2>2 DEF PlanInv, CycleInv
  <2>3. QED
    BY <1>2, <2>1, <2>2
<1>5. b \in Unmoved /\ b \in from /\ table[b] = b /\ b # Nil /\ b \in Slot /\ b # s
  <2>1. b \in Unmoved
    BY <1>1, <1>3, <1>4 DEF Unmoved
  <2>2. b \in Slot /\ b # Nil
    BY <1>1, <1>2, FromFacts
  <2>3. QED
    BY <1>2, <2>1, <2>2 DEF WalkInv, Unmoved
<1> HIDE DEF next
<1>6. /\ table' \in [Slot -> Fd \cup {Nil}] /\ table'[s] = b
      /\ \A r \in Slot \ {s} : table'[r] = table[r]
      /\ blocking' = blocking \cup {b}
  BY <1>1, <1>2, <1>5 DEF PlanTypeOK
<1>7. /\ DOMAIN newnames' = DOMAIN newnames \cup {b} /\ newnames'[b] = s
      /\ \A c \in DOMAIN newnames : newnames'[c] = newnames[c]
  BY <1>1 DEF Put
<1>8. call' # Nil /\ call'.a = b /\ call'.b = next /\ call' \in [a : Slot, b : Fd \cup {Nil}]
  <2>1. next \in Fd \cup {Nil}
    BY <1>3 DEF next
  <2>2. call' \in [a : Slot, b : Fd \cup {Nil}] /\ call'.a = b /\ call'.b = next
    BY <1>1, <1>5, <2>1
  <2>3. QED
    BY <2>2 DEF FdAssumption
<1>9. from' = from /\ Unmoved' = Unmoved \ {b} /\ \A r \in Unmoved : r \in Slot
  <2>1. from' = from
    BY <1>1, GraphSame
  <2>2. QED
    BY <1>2, <1>7, <2>1, FromFacts DEF Unmoved
<1>10. PlanTypeOK'
  <2>1. Range(newnames') \subseteq Slot /\ DOMAIN newnames' \subseteq Fd
    BY <1>1, <1>2, <1>7 DEF PlanTypeOK, Range
  <2>2. blocking' \subseteq Fd
    BY <1>1, <1>2, <1>6 DEF PlanTypeOK
  <2>3. QED
    BY <1>1, <1>2, <1>6, <1>8, <1>9, <2>1, <2>2 DEF PlanTypeOK
<1>11. WalkInv'
  <2>1. ASSUME NEW c \in DOMAIN newnames
        PROVE  Kept(c)' \/ (at = "cycles" /\ (Parked(c)' \/ Served(c)'))
    <3>1. CASE Kept(c)
      <4>1. newnames[c] # s /\ newnames[c] # b /\ newnames[c] \in Slot
        BY <1>1, <1>3, <1>5, <3>1 DEF Kept, Being
      <4>2. QED
        BY <1>1, <1>6, <1>7, <1>8, <1>9, <3>1, <4>1 DEF Kept, Being
    <3>2. CASE at = "cycles" /\ Served(c)
      <4>1. \A a \in DOMAIN to : to[a] = c => a # s /\ a # b /\ a \in Slot
        BY <1>1, <1>3, <1>5, <3>2 DEF Served, Being
      <4>2. QED
        BY <1>1, <1>6, <1>7, <1>8, <1>9, <3>2, <4>1 DEF Served, Being
    <3>3. CASE at = "cycles" /\ Parked(c)
      <4>1. tmpfd # s /\ newnames[c] = tmpfd /\ table[tmpfd] = c /\ tmpfd \in Slot
        BY <1>2, <3>3 DEF Parked, PlanTypeOK, Range
      <4>2. b # tmpfd
        BY <1>5, <3>3 DEF PlanInv, CycleInv
      <4>3. QED
        BY <1>1, <1>6, <1>7, <1>8, <3>3, <4>1, <4>2 DEF Parked
    <3>4. QED
      BY <1>2, <3>1, <3>2, <3>3 DEF WalkInv
  <2>2. Kept(b)' \/ (at = "cycles" /\ Parked(b)')
    <3>1. CASE s \in DOMAIN to /\ b = to[s] /\ (at = "chains" => (s \notin from => s \notin todo))
      BY <1>1, <1>2, <1>5, <1>6, <1>7, <1>8, <1>9, <3>1 DEF Kept, Being
    <3>2. CASE at = "cycles" /\ s = tmpfd
      BY <1>1, <1>5, <1>6, <1>7, <1>8, <3>2 DEF Parked
    <3>3. QED
      BY <1>4, <3>1, <3>2
  <2>3. \A r \in Unmoved \ {b} : table'[r] = r
    BY <1>2, <1>6, <1>9 DEF WalkInv
  <2>4. ASSUME NEW a \in DOMAIN to
        PROVE  table'[a] = to[a] \/ a \in Unmoved' \/ Being(a)' \/ (at = "chains" /\ a \in todo \ from)
    <3>1. CASE a = s
      BY <1>4, <1>6, <3>1
    <3>2. CASE a = b
      BY <1>8, <3>2 DEF Being
    <3>3. CASE a # s /\ a # b
      BY <1>2, <1>3, <1>6, <1>9, <3>3 DEF WalkInv, Being
    <3>4. QED
      BY <3>1, <3>2, <3>3
  <2>5. ASSUME NEW r \in Slot \ DOMAIN to
        PROVE  table'[r] = Nil \/ r \in Unmoved' \/ Being(r)' \/ r = tmpfd
    <3>1. CASE r = s
      BY <1>4, <3>1
    <3>2. CASE r = b
      BY <1>8, <3>2 DEF Being
    <3>3. CASE r # s /\ r # b
      BY <1>2, <1>6, <1>9, <3>3 DEF WalkInv, Being
    <3>4. QED
      BY <3>1, <3>2, <3>3
  <2>6. DOMAIN newnames' \subseteq from \cap blocking'
    BY <1>2, <1>5, <1>6, <1>7 DEF WalkInv
  <2>7. call'.a \notin Unmoved'
    BY <1>8, <1>9
  <2>8. \A c \in DOMAIN newnames' : Kept(c)' \/ (at = "cycles" /\ (Parked(c)' \/ Served(c)'))
    BY <1>7, <2>1, <2>2
  <2>9. QED
    BY <1>1, <1>9, <2>3, <2>4, <2>5, <2>6, <2>7, <2>8 DEF WalkInv
<1>12. at = "chains" => ChainInv'
  <2> SUFFICES ASSUME at = "chains" PROVE ChainInv'
    OBVIOUS
  <2>1. ChainInv
    BY DEF PlanInv
  <2>2. ASSUME NEW a \in DOMAIN to, a \notin Unmoved'
        PROVE  to[a] \in DOMAIN newnames' \/ Being(a)' \/ a \in todo \ from
    BY <1>4, <1>7, <1>8, <1>9, <2>1, <2>2 DEF ChainInv, Being
  <2>3. call'.a \in DOMAIN newnames' /\ call'.b = IF call'.a \in DOMAIN to THEN to[call'.a] ELSE Nil
    BY <1>7, <1>8 DEF next
  <2>4. QED
    BY <1>1, <1>9, <2>1, <2>2, <2>3 DEF ChainInv
<1>13. at = "cycles" => CycleInv'
  <2> SUFFICES ASSUME at = "cycles" PROVE CycleInv'
    OBVIOUS
  <2>1. CycleInv
    BY DEF PlanInv
  <2>2. PICK W \in SUBSET DOMAIN to : Cycles(W) /\ Unmoved \subseteq W
    BY <2>1 DEF CycleInv
  <2>3. Cycles(W)' /\ W \in SUBSET DOMAIN to'
    BY <1>1, <2>2 DEF Cycles
  <2>4. b \in W /\ b \in DOMAIN to /\ next = to[b] /\ to[b] \in W
    BY <1>5, <2>2 DEF Cycles, next
  <2>5. \A a \in Unmoved \ {b} : a \in todo \/ (to[a] = a /\ a \in blocking')
    BY <1>6, <2>1 DEF CycleInv
  <2>6. tmpfd' \notin DOMAIN to'
    BY <1>1, <2>1 DEF CycleInv
  <2>7. QED
    BY <1>1, <1>8, <1>9, <2>2, <2>3, <2>4, <2>5, <2>6 DEF CycleInv
<1>14. QED
  BY <1>1, <1>2, <1>10, <1>11, <1>12, <1>13 DEF PlanInv, StartsAsGranted

LEMMA VisitChainKept ==
    ASSUME FdAssumption, PlanInv, NEW a \in Fd, VisitChain(a)
    PROVE  PlanInv'
<1>1. /\ at = "chains" /\ call = Nil /\ a \in todo /\ todo' = todo \ {a}
      /\ call' = IF a \in from THEN Nil ELSE [a |-> a, b |-> to[a]]
      /\ UNCHANGED <<open, to, table, blocking, newnames, tmpfd, at>>
  BY DEF VisitChain, Visit
<1>2. PlanTypeOK /\ WalkInv /\ ChainInv /\ a \in DOMAIN to
  BY <1>1 DEF PlanInv, PlanTypeOK
<1>3. from' = from /\ Unmoved' = Unmoved
  BY <1>1, GraphSame
<1>4. CASE a \in from
  <2>1. call' = Nil
    BY <1>1, <1>4
  <2>2. PlanTypeOK'
    BY <1>1, <1>2, <1>3, <2>1 DEF PlanTypeOK
  <2>3. WalkInv'
    BY <1>1, <1>2, <1>3, <1>4, <2>1 DEF WalkInv, Kept, Being
  <2>4. ChainInv'
    BY <1>1, <1>2, <1>3, <1>4, <2>1 DEF ChainInv, Being
  <2>5. QED
    BY <1>1, <2>2, <2>3, <2>4 DEF PlanInv, StartsAsGranted
<1>5. CASE a \notin from
  <2>1. call' \in [a : Slot, b : Fd \cup {Nil}] /\ call'.a = a /\ call'.b = to[a]
    BY <1>1, <1>2, <1>5, FromFacts
  <2>2. call' # Nil
    BY <2>1 DEF FdAssumption
  <2>3. PlanTypeOK'
    BY <1>1, <1>2, <1>3, <2>1 DEF PlanTypeOK
  <2>4. WalkInv'
    <3>1. \A b \in DOMAIN newnames : Kept(b)'
      BY <1>1, <1>2, <1>3, <1>5, <2>1, <2>2 DEF WalkInv, Kept, Being
    <3>2. a \notin Unmoved
      BY <1>5 DEF Unmoved
    <3>3. QED
      BY <1>1, <1>2, <1>3, <2>1, <2>2, <3>1, <3>2 DEF WalkInv, Being
  <2>5. ChainInv'
    BY <1>1, <1>2, <1>3, <1>5, <2>1, <2>2 DEF ChainInv, Being
  <2>6. QED
    BY <1>1, <2>3, <2>4, <2>5 DEF PlanInv, StartsAsGranted
<1>6. QED
  BY <1>4, <1>5

\* When all chains were walked, what they have not visited are cycles.
LEMMA ChainsDoneKept ==
    ASSUME FdAssumption, PlanInv, ChainsDone
    PROVE  PlanInv'
<1>1. /\ at = "chains" /\ call = Nil /\ todo = {} /\ todo' = DOMAIN to /\ at' = "cycles"
      /\ UNCHANGED <<open, to, table, blocking, newnames, tmpfd, call>>
  BY DEF ChainsDone
<1>2. PlanTypeOK /\ WalkInv /\ ChainInv
  BY <1>1 DEF PlanInv
<1>3. from' = from /\ Unmoved' = Unmoved
  BY <1>1, GraphSame
<1>4. PlanTypeOK'
  BY <1>1, <1>2, <1>3 DEF PlanTypeOK
<1>5. WalkInv'
  BY <1>1, <1>2, <1>3 DEF WalkInv, Kept, Being
<1>6. Unmoved \subseteq DOMAIN to /\ Cycles(Unmoved)
  <2> DEFINE P == {a \in DOMAIN to : to[a] \in Unmoved}
  <2>1. P \subseteq Unmoved
    BY <1>1, <1>2 DEF ChainInv, Being, Unmoved
  <2>2. \A u \in Unmoved : \E a \in P : to[a] = u
    BY <1>2, FromFacts DEF Unmoved
  <2>3. IsFiniteSet(Unmoved)
    <3>1. Unmoved \subseteq 0..MaxFd
      BY <1>2, FromFacts DEF Unmoved, Fd
    <3>2. IsFiniteSet(0..MaxFd)
      BY FS_Interval DEF FdAssumption
    <3>3. QED
      BY <3>1, <3>2, FS_Subset
  <2>4. P = Unmoved /\ \A a, b \in P : to[a] = to[b] => a = b
    BY <2>1, <2>2, <2>3, OntoIsCyclic
  <2>5. QED
    BY <2>4 DEF Cycles
<1>7. CycleInv'
  <2>1. Cycles(Unmoved)'
    BY <1>1, <1>3, <1>6 DEF Cycles
  <2>2. tmpfd' \notin DOMAIN to'
    BY <1>1, <1>2, FromFacts DEF ChainInv
  <2>3. QED
    BY <1>1, <1>3, <1>6, <2>1, <2>2 DEF CycleInv
<1>8. QED
  BY <1>1, <1>4, <1>5, <1>7 DEF PlanInv, StartsAsGranted

LEMMA VisitCycleKept ==
    ASSUME FdAssumption, PlanInv, NEW a \in Fd, VisitCycle(a)
    PROVE  PlanInv'
<1>1. /\ at = "cycles" /\ call = Nil /\ a \in todo /\ todo' = todo \ {a}
      /\ UNCHANGED <<open, to, newnames, at>>
  BY DEF VisitCycle, Visit
<1>2. PlanTypeOK /\ WalkInv /\ CycleInv /\ a \in DOMAIN to /\ a \in Slot /\ tmpfd \notin DOMAIN to
  <2>1. PlanTypeOK /\ WalkInv /\ CycleInv /\ a \in DOMAIN to
    BY <1>1 DEF PlanInv, PlanTypeOK
  <2>2. QED
    BY <2>1, FromFacts DEF CycleInv
<1>3. from' = from /\ Unmoved' = Unmoved
  BY <1>1, GraphSame
<1>4. PICK W \in SUBSET DOMAIN to : Cycles(W) /\ Unmoved \subseteq W
  BY <1>2 DEF CycleInv
<1>5. Cycles(W)' /\ W \in SUBSET DOMAIN to'
  BY <1>1, <1>4 DEF Cycles
<1>6. \A r \in Unmoved : r \in todo \/ (to[r] = r /\ r \in blocking)
  BY <1>1, <1>2 DEF CycleInv
<1>7. CASE to[a] = a /\ table' = [table EXCEPT ![a] = table[a]]
           /\ blocking' = blocking \cup ({table[a]} \ {Nil}) /\ UNCHANGED <<tmpfd, call>>
  <2>1. table' = table /\ table[a] \in Fd \cup {Nil}
    BY <1>2, <1>7 DEF PlanTypeOK
  <2>2. blocking \subseteq blocking' /\ blocking' \subseteq Fd
    BY <1>2, <1>7, <2>1 DEF PlanTypeOK
  <2>3. a \in Unmoved => a \in blocking'
    <3>1. a # Nil /\ (a \in Unmoved => table[a] = a)
      BY <1>2, FromFacts DEF WalkInv
    <3>2. QED
      BY <1>7, <3>1
  <2>4. PlanTypeOK'
    BY <1>1, <1>2, <1>3, <1>7, <2>1, <2>2 DEF PlanTypeOK
  <2>5. WalkInv'
    BY <1>1, <1>2, <1>3, <1>7, <2>1, <2>2 DEF WalkInv, Kept, Parked, Served, Being
  <2>6. CycleInv'
    <3>1. \A r \in Unmoved : r \in todo' \/ (to[r] = r /\ r \in blocking')
      BY <1>1, <1>6, <1>7, <2>2, <2>3
    <3>2. QED
      BY <1>1, <1>2, <1>3, <1>4, <1>5, <1>7, <3>1 DEF CycleInv
  <2>7. QED
    BY <1>1, <2>4, <2>5, <2>6 DEF PlanInv, StartsAsGranted
<1>8. CASE /\ to[a] # a /\ a \in from /\ a \notin DOMAIN newnames
           /\ tmpfd' = IF tmpfd = Nil THEN Unused ELSE tmpfd
           /\ call' = [a |-> tmpfd', b |-> a]
           /\ UNCHANGED <<table, blocking>>
  <2>1. tmpfd' \in Slot /\ tmpfd' \notin DOMAIN to /\ (tmpfd # Nil => tmpfd' = tmpfd)
    BY <1>2, <1>8, UnusedFacts DEF PlanTypeOK
  <2>2. /\ call' \in [a : Slot, b : Fd \cup {Nil}] /\ call'.a = tmpfd' /\ call'.b = a
        /\ call' # Nil
    <3>1. call' \in [a : Slot, b : Fd \cup {Nil}] /\ call'.a = tmpfd' /\ call'.b = a
      BY <1>8, <2>1
    <3>2. QED
      BY <3>1 DEF FdAssumption
  <2>3. a \in Unmoved /\ a \in W
    BY <1>4, <1>8 DEF Unmoved
  <2>4. PlanTypeOK'
    BY <1>1, <1>2, <1>3, <1>8, <2>1, <2>2 DEF PlanTypeOK
  <2>5. WalkInv'
    <3>1. ASSUME NEW b \in DOMAIN newnames
          PROVE  Kept(b)' \/ Served(b)'
      <4>1. CASE Kept(b)
        BY <1>1, <1>3, <1>8, <2>1, <2>2, <4>1 DEF Kept, Being
      <4>2. CASE Served(b)
        <5>1. tmpfd # Nil
          BY <1>2, <4>2, FromFacts DEF Served, PlanTypeOK, Range
        <5>2. QED
          BY <1>1, <1>3, <1>8, <2>1, <2>2, <4>2, <5>1 DEF Served, Being
      <4>3. QED
        BY <1>1, <1>2, <4>1, <4>2 DEF WalkInv, Parked
    <3>2. tmpfd' \notin Unmoved
      BY <1>4, <2>1
    <3>3. \A s \in Slot \ DOMAIN to : table[s] = Nil \/ s \in Unmoved \/ s = tmpfd'
      BY <1>1, <1>2, <2>1, FromFacts DEF WalkInv, Being
    <3>4. QED
      BY <1>1, <1>2, <1>3, <1>8, <2>2, <3>1, <3>2, <3>3 DEF WalkInv, Being
  <2>6. CycleInv'
    <3>1. \A r \in Unmoved : r \in todo' \/ call'.b = r \/ (to[r] = r /\ r \in blocking')
      BY <1>1, <1>6, <1>8, <2>2
    <3>2. call'.b \in W /\ call'.b \in Unmoved'
      BY <1>3, <2>2, <2>3
    <3>3. QED
      BY <1>1, <1>3, <1>4, <1>5, <2>1, <2>2, <3>1, <3>2 DEF CycleInv
  <2>7. QED
    BY <1>1, <2>4, <2>5, <2>6 DEF PlanInv, StartsAsGranted
<1>9. CASE to[a] # a /\ (a \notin from \/ a \in DOMAIN newnames)
           /\ UNCHANGED <<table, blocking, tmpfd, call>>
  <2>1. a \notin Unmoved
    BY <1>9 DEF Unmoved
  <2>2. PlanTypeOK'
    BY <1>1, <1>2, <1>3, <1>9 DEF PlanTypeOK
  <2>3. WalkInv'
    BY <1>1, <1>2, <1>3, <1>9 DEF WalkInv, Kept, Parked, Served, Being
  <2>4. CycleInv'
    <3>1. \A r \in Unmoved : r \in todo' \/ (to[r] = r /\ r \in blocking')
      BY <1>1, <1>6, <1>9, <2>1
    <3>2. QED
      BY <1>1, <1>2, <1>3, <1>4, <1>5, <1>9, <3>1 DEF CycleInv
  <2>5. QED
    BY <1>1, <2>2, <2>3, <2>4 DEF PlanInv, StartsAsGranted
<1>10. QED
  BY <1>7, <1>8, <1>9 DEF VisitCycle, dup2

\* When all cycles were walked, the table is what fdmap says.
LEMMA CyclesDoneKept ==
    ASSUME FdAssumption, PlanInv, CyclesDone
    PROVE  PlanInv'
<1>1. /\ at = "cycles" /\ call = Nil /\ todo = {} /\ at' = "exec"
      /\ table' = IF tmpfd = Nil THEN table ELSE [table EXCEPT ![tmpfd] = Nil]
      /\ UNCHANGED <<open, to, blocking, newnames, tmpfd, call, todo>>
  BY DEF CyclesDone
<1>2. PlanTypeOK /\ WalkInv /\ CycleInv
  BY <1>1 DEF PlanInv
<1>3. from' = from
  BY <1>1, GraphSame
<1>4. \A a \in Unmoved : a \in DOMAIN to /\ to[a] = a /\ a \in blocking /\ table[a] = a
  BY <1>1, <1>2 DEF CycleInv, WalkInv
<1>5. /\ table' \in [Slot -> Fd \cup {Nil}] /\ (tmpfd # Nil => table'[tmpfd] = Nil)
      /\ \A s \in Slot : s # tmpfd => table'[s] = table[s]
  BY <1>1, <1>2 DEF PlanTypeOK
<1>6. ASSUME NEW s \in Slot
      PROVE  table'[s] = IF s \in DOMAIN to THEN to[s] ELSE Nil
  <2>1. CASE s \in DOMAIN to
    <3>1. s # tmpfd
      BY <1>2, <2>1 DEF CycleInv
    <3>2. table[s] = to[s]
      BY <1>1, <1>2, <1>4, <2>1 DEF WalkInv, Being
    <3>3. QED
      BY <1>5, <2>1, <3>1, <3>2
  <2>2. CASE s \notin DOMAIN to
    <3>1. table[s] = Nil \/ s = tmpfd
      BY <1>1, <1>2, <1>4, <2>2 DEF WalkInv, Being
    <3>2. s # Nil
      BY <1>2, FromFacts
    <3>3. QED
      BY <1>5, <2>2, <3>1, <3>2
  <2>3. QED
    BY <2>1, <2>2
<1>7. from \subseteq blocking
  BY <1>2, <1>4 DEF WalkInv, Unmoved
<1>8. PlanTypeOK'
  BY <1>1, <1>2, <1>3, <1>5 DEF PlanTypeOK
<1>9. StartsAsGranted'
  BY <1>1, <1>3, <1>6, <1>7 DEF StartsAsGranted
<1>10. QED
  BY <1>1, <1>8, <1>9 DEF PlanInv

LEMMA PlanKept == FdAssumption /\ PlanInv /\ [PlanNext]_planVars => PlanInv'
<1> SUFFICES ASSUME FdAssumption, PlanInv, [PlanNext]_planVars PROVE PlanInv'
  OBVIOUS
<1>1. CASE UNCHANGED planVars
  <2>1. from' = from /\ Unmoved' = Unmoved
    BY <1>1, GraphSame DEF planVars
  <2>2. QED
    BY <1>1, <2>1 DEF planVars, PlanInv, PlanTypeOK, StartInv, WalkInv, ChainInv, CycleInv, Cycles,
       Kept, Parked, Served, Being, StartsAsGranted
<1>2. CASE PlanNext
  <2>1. CASE Execs
    BY <1>1, <2>1 DEF Execs
  <2>2. QED
    BY <1>2, <2>1, CloseOthersKept, DupChainEndKept, DupChainVisitedKept, DupChainStepKept,
       VisitChainKept, ChainsDoneKept, VisitCycleKept, CyclesDoneKept DEF PlanNext
<1>3. QED
  BY <1>1, <1>2

LEMMA SourcesAreKept == FdAssumption /\ PlanInv => SourceKept
<1> SUFFICES ASSUME FdAssumption, PlanInv, NEW a \in DOMAIN to, table[a] # to[a]
             PROVE  table[IF to[a] \in DOMAIN newnames THEN newnames[to[a]] ELSE to[a]] = to[a]
  BY DEF SourceKept
<1>1. PlanTypeOK /\ at \in {"close", "chains", "cycles", "exec"} /\ a \in Slot /\ to[a] \in from /\ to[a] \in Slot
  <2>1. PlanTypeOK
    BY DEF PlanInv
  <2>2. QED
    BY <2>1, FromFacts DEF PlanTypeOK
<1>2. at # "exec"
  BY <1>1 DEF PlanInv, StartsAsGranted
<1>3. CASE at = "close"
  BY <1>1, <1>3 DEF PlanInv, StartInv, PlanTypeOK
<1>4. CASE at \in {"chains", "cycles"}
  <2>1. WalkInv
    BY <1>4 DEF PlanInv
  <2>2. CASE to[a] \in DOMAIN newnames
    BY <2>1, <2>2 DEF WalkInv, Kept, Parked, Served
  <2>3. CASE to[a] \notin DOMAIN newnames
    BY <1>1, <2>1, <2>3 DEF WalkInv, Unmoved
  <2>4. QED
    BY <2>2, <2>3
<1>5. QED
  BY <1>1, <1>2, <1>3, <1>4

-----------------------------------------------------------------------------
(* The plan ends: every step lowers its rank.                              *)

LEMMA CountsLess ==
    ASSUME NEW S, NEW x \in S, IsFiniteSet(S)
    PROVE  Cardinality(S \ {x}) = Cardinality(S) - 1
BY FS_RemoveElement

LEMMA TimesMore ==
    ASSUME NEW n \in Nat, NEW x \in Nat, NEW y \in Nat, x + 1 <= y
    PROVE  x * n + n <= y * n /\ x * n \in Nat /\ y * n \in Nat
<1>1. PICK z \in Nat : y = x + 1 + z
  <2>1. y - (x + 1) \in Nat /\ y = x + 1 + (y - (x + 1))
    OBVIOUS
  <2>2. QED
    BY <2>1
<1>2. y * n = x * n + n + z * n /\ z * n \in Nat
  BY <1>1
<1>3. QED
  BY <1>2

\* Four numbers are compared as the digits of one.
LEMMA Digits ==
    ASSUME NEW n \in Nat, NEW l \in Nat, NEW c \in Nat, NEW d \in Nat, NEW e \in {0, 1},
           NEW lx \in Nat, NEW cx \in Nat, NEW dx \in Nat, NEW ex \in {0, 1},
           cx < n, dx < n,
           \/ lx + 1 <= l
           \/ lx = l /\ cx + 1 <= c
           \/ lx = l /\ cx = c /\ dx + 1 <= d
           \/ lx = l /\ cx = c /\ dx = d /\ ex < e
    PROVE  ((lx * n + cx) * n + dx) * 2 + ex < ((l * n + c) * n + d) * 2 + e
<1> DEFINE h == l * n + c
           hx == lx * n + cx
<1>1. h \in Nat /\ hx \in Nat
  OBVIOUS
<1>2. \/ hx + 1 <= h
      \/ hx = h /\ dx + 1 <= d
      \/ hx = h /\ dx = d /\ ex < e
  <2>1. CASE lx + 1 <= l
    <3>1. lx * n + n <= l * n /\ lx * n \in Nat /\ l * n \in Nat
      BY <2>1, TimesMore
    <3>2. QED
      BY <3>1
  <2>2. CASE lx = l
    BY <2>2
  <2>3. QED
    BY <2>1, <2>2
<1> HIDE DEF h, hx
<1>3. (hx * n + dx) * 2 + ex < (h * n + d) * 2 + e
  <2>1. hx * n \in Nat /\ h * n \in Nat
    BY <1>1
  <2>2. CASE hx + 1 <= h
    <3>1. hx * n + n <= h * n
      BY <1>1, <2>2, TimesMore
    <3>2. hx * n + dx + 1 <= h * n + d
      BY <2>1, <3>1
    <3>3. QED
      BY <2>1, <3>2
  <2>3. CASE hx = h
    BY <1>1, <1>2, <2>1, <2>3
  <2>4. QED
    BY <1>2, <2>2, <2>3
<1>4. QED
  BY <1>3 DEF h, hx

\* The digits of Rank.
Loops == CASE at = "close" -> 3 [] at = "chains" -> 2 [] at = "cycles" -> 1 [] OTHER -> 0
Keys  == Cardinality(todo)
Left  == Cardinality(Fd \ DOMAIN newnames)
Busy  == IF call = Nil THEN 0 ELSE 1

LEMMA CountBound ==
    ASSUME FdAssumption, NEW S \in SUBSET Fd
    PROVE  IsFiniteSet(S) /\ Cardinality(S) \in Nat /\ Cardinality(S) < MaxFd + 2
<1>1. MaxFd \in Nat /\ IsFiniteSet(Fd) /\ Cardinality(Fd) = MaxFd + 1
  BY FS_Interval DEF FdAssumption, Fd
<1>2. IsFiniteSet(S) /\ Cardinality(S) <= Cardinality(Fd)
  BY <1>1, FS_Subset
<1>3. Cardinality(S) \in Nat
  BY <1>2, FS_CardinalityType
<1>4. QED
  BY <1>1, <1>2, <1>3

LEMMA RankFalls ==
    ASSUME FdAssumption, PlanInv, PlanTypeOK', PlanNext
    PROVE  Rank' < Rank \/ UNCHANGED planVars
<1>1. /\ PlanTypeOK /\ MaxFd + 2 \in Nat
      /\ Loops \in Nat /\ Busy \in {0, 1} /\ Loops' \in Nat /\ Busy' \in {0, 1}
  BY DEF PlanInv, Loops, Busy, FdAssumption
<1>2. /\ todo \in SUBSET Fd /\ todo' \in SUBSET Fd
      /\ Fd \ DOMAIN newnames \in SUBSET Fd /\ Fd \ DOMAIN newnames' \in SUBSET Fd
  BY <1>1 DEF PlanTypeOK
<1>3. /\ Keys \in Nat /\ Left \in Nat /\ Keys' \in Nat /\ Left' \in Nat
      /\ Keys' < MaxFd + 2 /\ Left' < MaxFd + 2
      /\ IsFiniteSet(todo) /\ IsFiniteSet(Fd \ DOMAIN newnames)
  BY <1>2, CountBound DEF Keys, Left
<1>4. \/ Loops' + 1 <= Loops
      \/ Loops' = Loops /\ Keys' + 1 <= Keys
      \/ Loops' = Loops /\ Keys' = Keys /\ Left' + 1 <= Left
      \/ Loops' = Loops /\ Keys' = Keys /\ Left' = Left /\ Busy' < Busy
      \/ UNCHANGED planVars
  <2>1. CASE CloseOthers \/ ChainsDone \/ CyclesDone
    BY <2>1 DEF CloseOthers, ChainsDone, CyclesDone, Loops
  <2>2. CASE DupChainEnd \/ DupChainVisited
    BY <2>2 DEF DupChainEnd, DupChainVisited, Loops, Keys, Left, Busy
  <2>3. CASE DupChainStep
    <3>1. call.b \in Fd \ DOMAIN newnames /\ DOMAIN newnames' = DOMAIN newnames \cup {call.b}
          /\ UNCHANGED <<at, todo>>
      BY <2>3 DEF DupChainStep, Put
    <3>2. Fd \ DOMAIN newnames' = (Fd \ DOMAIN newnames) \ {call.b}
      BY <3>1
    <3>3. Left' = Left - 1
      BY <1>3, <3>1, <3>2, CountsLess DEF Left
    <3>4. QED
      BY <1>3, <3>1, <3>3 DEF Loops, Keys
  <2>4. ASSUME NEW a \in Fd, VisitChain(a) \/ VisitCycle(a)
        PROVE  Loops' = Loops /\ Keys' + 1 <= Keys
    <3>1. a \in todo /\ todo' = todo \ {a} /\ UNCHANGED at
      BY <2>4 DEF VisitChain, VisitCycle, Visit
    <3>2. Keys' = Keys - 1
      BY <1>3, <3>1, CountsLess DEF Keys
    <3>3. QED
      BY <1>3, <3>1, <3>2 DEF Loops
  <2>5. CASE Execs
    BY <2>5 DEF Execs
  <2>6. QED
    BY <2>1, <2>2, <2>3, <2>4, <2>5 DEF PlanNext
<1>5. /\ Rank = ((Loops * (MaxFd + 2) + Keys) * (MaxFd + 2) + Left) * 2 + Busy
      /\ Rank' = ((Loops' * (MaxFd + 2) + Keys') * (MaxFd + 2) + Left') * 2 + Busy'
  BY DEF Rank, Loops, Keys, Left, Busy
<1>6. CASE ~UNCHANGED planVars
  <2>1. PICK n, l, c, d, e, lx, cx, dx, ex :
           /\ n = MaxFd + 2 /\ l = Loops /\ c = Keys /\ d = Left /\ e = Busy
           /\ lx = Loops' /\ cx = Keys' /\ dx = Left' /\ ex = Busy'
    OBVIOUS
  <2>2. ((lx * n + cx) * n + dx) * 2 + ex < ((l * n + c) * n + d) * 2 + e
    <3>1. /\ {n, l, c, d, lx, cx, dx} \subseteq Nat /\ e \in {0, 1} /\ ex \in {0, 1}
          /\ cx < n /\ dx < n
      BY <1>1, <1>3, <2>1
    <3>2. \/ lx + 1 <= l
          \/ lx = l /\ cx + 1 <= c
          \/ lx = l /\ cx = c /\ dx + 1 <= d
          \/ lx = l /\ cx = c /\ dx = d /\ ex < e
      BY <1>4, <1>6, <2>1
    <3>3. QED
      BY <3>1, <3>2, Digits
  <2>3. QED
    BY <1>5, <2>1, <2>2
<1>7. QED
  BY <1>6

-----------------------------------------------------------------------------
(* The theorems.                                                           *)

\* The invariant of the plan holds throughout.
THEOREM PlanInvariance ==
    ASSUME FdAssumption
    PROVE  PlanSpec => []PlanInv
<1>1. PlanInv /\ [PlanNext]_planVars => PlanInv'
  BY PlanKept
<1>2. PlanInit => PlanInv
  BY PlanStarts
<1>3. QED
  BY <1>1, <1>2, PTL DEF PlanSpec

\* fdjuggle and _spawn give the child exactly the files that fdmap names, each
\* on its descriptor and blocking, and close everything else; no dup2 overwrites
\* a file that somebody is still to receive.  This holds for any number of
\* descriptors, any fdmap, and any order of Lua's pairs.
THEOREM ChildStartsWithFdmap ==
    ASSUME FdAssumption
    PROVE  PlanSpec => []ChildGetsFdmap
<1>1. PlanInv => ChildGetsFdmap
  BY SourcesAreKept DEF PlanInv, ChildGetsFdmap
<1>2. QED
  BY <1>1, PlanInvariance, PTL

\* Every chain and every cycle that fdjuggle walks has an end, whatever fdmap
\* is: no step of the plan leaves as much to do as there was.
THEOREM PlanAlwaysProgresses ==
    ASSUME FdAssumption
    PROVE  PlanSpec => PlanProgresses
<1>1. PlanInv /\ PlanInv' /\ [PlanNext]_planVars => [Rank' < Rank]_planVars
  BY RankFalls DEF PlanInv
<1>2. QED
  BY <1>1, PlanInvariance, PTL DEF PlanSpec, PlanProgresses
=============================================================================
