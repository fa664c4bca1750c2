---------------------------- MODULE ThreadProofs ----------------------------
(***************************************************************************)
(* First Spec => []ScheduledOnce, for any sets of tasks and slots and      *)
(* whatever handlers may do.  QueueInv is the part of the invariant that   *)
(* is about the queues alone; every way to put a task in a queue or to     *)
(* take it out has a lemma about it.  Control says where the loop and the  *)
(* coroutines are, which is why the queue operations are called on tasks   *)
(* that are where the lemmas want them.                                    *)
(*                                                                         *)
(* Then what thread.kill, the exit entries and the end of dispatch promise.*)
(* Each result names the ways of using the library it depends on: SelfKill *)
(* (a task kills itself), RaiseInHandler, BlockInHandler and ShareKey are  *)
(* the constants of Thread that let a program do what the library does not *)
(* defend itself against.                                                  *)
(***************************************************************************)
EXTENDS Thread, SequenceLemmas

-----------------------------------------------------------------------------
(* Lists and Wakes under the sequence operations of the queues.            *)

\* Putting a new member at the end of a queue keeps it a list of a set.
LEMMA ListsAppend ==
    ASSUME NEW s \in Seq(Task), NEW S, Lists(s, S), NEW t \in Task, t \notin S
    PROVE  Lists(Append(s, t), S \cup {t}) /\ Append(s, t) \in Seq(Task)
<1> DEFINE r == Append(s, t)
<1>1. /\ r \in Seq(Task) /\ Len(r) = Len(s) + 1
      /\ \A i \in 1..Len(s) : r[i] = s[i]
      /\ r[Len(s) + 1] = t
  OBVIOUS
<1>2. /\ DOMAIN s = 1..Len(s) /\ DOMAIN r = 1..(Len(s) + 1)
      /\ \A i \in 1..Len(s) : s[i] # t
  BY <1>1 DEF Lists, ToSet
<1> HIDE DEF r
<1>3. IsInjective(r)
  <2>1. \A i, j \in 1..Len(s) : s[i] = s[j] => i = j
    BY <1>2 DEF Lists, IsInjective
  <2>2. SUFFICES ASSUME NEW i \in 1..(Len(s) + 1), NEW j \in 1..(Len(s) + 1), r[i] = r[j]
                 PROVE  i = j
    BY <1>2 DEF IsInjective
  <2>3. \/ i \in 1..Len(s) /\ j \in 1..Len(s)
        \/ i \in 1..Len(s) /\ j = Len(s) + 1
        \/ i = Len(s) + 1 /\ j \in 1..Len(s)
        \/ i = j
    OBVIOUS
  <2>4. QED
    BY <1>1, <1>2, <2>1, <2>2, <2>3
<1>4. ToSet(r) = S \cup {t}
  <2>1. S = {s[i] : i \in 1..Len(s)} /\ ToSet(r) = {r[i] : i \in 1..(Len(s) + 1)}
    BY <1>2 DEF Lists, ToSet
  <2>2. 1..(Len(s) + 1) = (1..Len(s)) \cup {Len(s) + 1}
    OBVIOUS
  <2>3. {r[i] : i \in 1..Len(s)} = {s[i] : i \in 1..Len(s)}
    BY <1>1
  <2>4. {r[i] : i \in (1..Len(s)) \cup {Len(s) + 1}} =
           {r[i] : i \in 1..Len(s)} \cup {r[Len(s) + 1]}
    BY Zenon
  <2>5. QED
    BY <1>1, <2>1, <2>2, <2>3, <2>4
<1>5. QED
  BY <1>1, <1>3, <1>4 DEF Lists, r

\* Queue:remove and Heap:remove: taking a member out does too.
LEMMA ListsRemove ==
    ASSUME NEW s \in Seq(Task), NEW S, Lists(s, S), NEW t \in S
    PROVE  Lists(RemoveFirst(s, t), S \ {t}) /\ RemoveFirst(s, t) \in Seq(Task)
<1>1. /\ DOMAIN s = 1..Len(s)
      /\ S = {s[i] : i \in 1..Len(s)}
      /\ \A i, j \in 1..Len(s) : s[i] = s[j] => i = j
  BY DEF Lists, ToSet, IsInjective
<1>2. PICK n \in 1..Len(s) : s[n] = t
  BY <1>1
<1> DEFINE r == RemoveAt(s, n)
<1>3. RemoveFirst(s, t) = r
  BY <1>1, <1>2, RemoveFirstUnique
<1>4. /\ r \in Seq(Task) /\ Len(r) = Len(s) - 1
      /\ \A i \in 1..(Len(s) - 1) : r[i] = IF i < n THEN s[i] ELSE s[i + 1]
  BY RemoveAtProperties
<1> HIDE DEF r
<1>5. DOMAIN r = 1..(Len(s) - 1)
  BY <1>4
<1>6. IsInjective(r)
  <2>1. SUFFICES ASSUME NEW i \in 1..(Len(s) - 1), NEW j \in 1..(Len(s) - 1), r[i] = r[j]
                 PROVE  i = j
    BY <1>5 DEF IsInjective
  <2> DEFINE p(k) == IF k < n THEN k ELSE k + 1
  <2>2. p(i) \in 1..Len(s) /\ p(j) \in 1..Len(s) /\ (p(i) = p(j) => i = j)
    OBVIOUS
  <2>3. r[i] = s[p(i)] /\ r[j] = s[p(j)]
    BY <1>4
  <2>4. QED
    BY <1>1, <2>1, <2>2, <2>3
<1>7. ToSet(r) = S \ {t}
  <2>1. ASSUME NEW i \in 1..(Len(s) - 1)
        PROVE  r[i] \in S \ {t}
    <3> DEFINE k == IF i < n THEN i ELSE i + 1
    <3>1. k \in 1..Len(s) /\ k # n
      OBVIOUS
    <3>2. r[i] = s[k]
      BY <1>4
    <3>3. QED
      BY <1>1, <1>2, <3>1, <3>2
  <2>2. ASSUME NEW u \in S \ {t}
        PROVE  \E i \in 1..(Len(s) - 1) : r[i] = u
    <3>1. PICK k \in 1..Len(s) : s[k] = u
      BY <1>1
    <3>2. k # n
      BY <3>1, <1>2
    <3> DEFINE i == IF k < n THEN k ELSE k - 1
    <3>3. i \in 1..(Len(s) - 1) /\ (IF i < n THEN i ELSE i + 1) = k
      BY <3>2
    <3>4. r[i] = s[k]
      BY <1>4, <3>3
    <3>5. QED
      BY <3>1, <3>3, <3>4
  <2>3. QED
    BY <1>5, <2>1, <2>2, Zenon DEF ToSet
<1>8. QED
  BY <1>3, <1>4, <1>6, <1>7 DEF Lists

\* The first member of a queue is a member of the set it lists.
LEMMA ListsHead ==
    ASSUME NEW s \in Seq(Task), NEW S, Lists(s, S), s # <<>>
    PROVE  Head(s) \in S
<1>1. 1 \in DOMAIN s /\ Head(s) = s[1]
  OBVIOUS
<1>2. QED
  BY <1>1 DEF Lists, ToSet

\* taskAtExit of a joinWake entry adds its task to the tasks that are waiting.
LEMMA WakesAppendJoin ==
    ASSUME NEW s \in Seq(Entry), NEW S \in SUBSET Task, Wakes(s, S),
           NEW t \in Task, t \notin S
    PROVE  Wakes(Append(s, JoinEntry(t)), S \cup {t})
<1> DEFINE e == JoinEntry(t)
           r == Append(s, e)
<1>1. /\ Len(r) = Len(s) + 1 /\ DOMAIN s = 1..Len(s) /\ DOMAIN r = 1..(Len(s) + 1)
      /\ \A i \in 1..Len(s) : r[i] = s[i]
      /\ r[Len(s) + 1] = e
  BY DEF Entry
<1>2. \A i \in 1..Len(s) : s[i] # e
  BY <1>1 DEF Wakes
<1> HIDE DEF r
<1>3. ASSUME NEW i \in DOMAIN r, NEW j \in DOMAIN r, r[i].fn = "joinWake", r[i] = r[j]
      PROVE  i = j
  <2>1. \/ i \in 1..Len(s) /\ j \in 1..Len(s)
        \/ i \in 1..Len(s) /\ j = Len(s) + 1
        \/ i = Len(s) + 1 /\ j \in 1..Len(s)
        \/ i = j
    BY <1>1
  <2>2. \A x, y \in 1..Len(s) : s[x].fn = "joinWake" /\ s[x] = s[y] => x = y
    BY <1>1 DEF Wakes
  <2>3. QED
    BY <1>1, <1>2, <1>3, <2>1, <2>2
<1>4. ASSUME NEW j \in Task
      PROVE  j \in S \cup {t} <=> \E i \in DOMAIN r : r[i] = JoinEntry(j)
  <2>1. j \in S <=> \E i \in 1..Len(s) : s[i] = JoinEntry(j)
    BY <1>1 DEF Wakes
  <2>2. \A i \in DOMAIN r : i \in 1..Len(s) \/ i = Len(s) + 1
    BY <1>1
  <2>3. e = JoinEntry(j) <=> j = t
    BY DEF JoinEntry
  <2>4. QED
    BY <1>1, <2>1, <2>2, <2>3
<1>5. QED
  BY <1>3, <1>4, Zenon DEF Wakes, r

\* An entry of user code changes nobody's wait.
LEMMA WakesAppendUser ==
    ASSUME NEW s \in Seq(Entry), NEW S \in SUBSET Task, Wakes(s, S)
    PROVE  Wakes(Append(s, UserEntry), S)
<1> DEFINE r == Append(s, UserEntry)
<1>1. /\ DOMAIN s = 1..Len(s) /\ DOMAIN r = 1..(Len(s) + 1)
      /\ \A i \in 1..Len(s) : r[i] = s[i]
      /\ r[Len(s) + 1] = UserEntry
      /\ \A i \in DOMAIN r : i \in 1..Len(s) \/ i = Len(s) + 1
      /\ UserEntry.fn # "joinWake" /\ \A j \in Task : UserEntry # JoinEntry(j)
      /\ \A j \in Task : JoinEntry(j).fn = "joinWake"
  BY DEF Entry, UserEntry, JoinEntry
<1> HIDE DEF r
<1>2. ASSUME NEW i \in DOMAIN r, NEW j \in DOMAIN r, r[i].fn = "joinWake", r[i] = r[j]
      PROVE  i = j
  <2>1. i \in 1..Len(s) /\ j \in 1..Len(s)
    BY <1>1, <1>2
  <2>2. QED
    BY <2>1, <1>1, <1>2 DEF Wakes
<1>3. ASSUME NEW j \in Task
      PROVE  j \in S <=> \E i \in DOMAIN r : r[i] = JoinEntry(j)
  <2>1. j \in S <=> \E i \in 1..Len(s) : s[i] = JoinEntry(j)
    BY <1>1 DEF Wakes
  <2>2. QED
    BY <1>1, <2>1
<1>4. QED
  BY <1>2, <1>3, Zenon DEF Wakes, r

\* Removing a joinWake entry removes exactly its task from those waiting.
LEMMA WakesRemoveAt ==
    ASSUME NEW s \in Seq(Entry), NEW S \in SUBSET Task, Wakes(s, S), NEW n \in 1..Len(s)
    PROVE  /\ RemoveAt(s, n) \in Seq(Entry)
           /\ s[n] = UserEntry => Wakes(RemoveAt(s, n), S)
           /\ \A t \in Task : s[n] = JoinEntry(t) => Wakes(RemoveAt(s, n), S \ {t})
<1> DEFINE r == RemoveAt(s, n)
<1>1. /\ r \in Seq(Entry) /\ Len(r) = Len(s) - 1
      /\ \A i \in 1..(Len(s) - 1) : r[i] = IF i < n THEN s[i] ELSE s[i + 1]
  BY RemoveAtProperties
<1> HIDE DEF r
<1>2. DOMAIN r = 1..(Len(s) - 1) /\ DOMAIN s = 1..Len(s)
  BY <1>1
<1>3. ASSUME NEW i \in DOMAIN r, NEW j \in DOMAIN r, r[i].fn = "joinWake", r[i] = r[j]
      PROVE  i = j
  <2> DEFINE p(k) == IF k < n THEN k ELSE k + 1
  <2>1. p(i) \in 1..Len(s) /\ p(j) \in 1..Len(s) /\ (p(i) = p(j) => i = j)
    BY <1>2
  <2>2. r[i] = s[p(i)] /\ r[j] = s[p(j)]
    BY <1>1, <1>2
  <2>3. QED
    BY <1>2, <1>3, <2>1, <2>2 DEF Wakes
<1>4. ASSUME NEW e
      PROVE  (\E i \in DOMAIN r : r[i] = e) <=> \E k \in 1..Len(s) : k # n /\ s[k] = e
  <2>1. ASSUME NEW i \in DOMAIN r
        PROVE  \E k \in 1..Len(s) : k # n /\ s[k] = r[i]
    <3> DEFINE k == IF i < n THEN i ELSE i + 1
    <3>1. k \in 1..Len(s) /\ k # n
      BY <1>2
    <3>2. r[i] = s[k]
      BY <1>1, <1>2
    <3>3. QED
      BY <3>1, <3>2
  <2>2. ASSUME NEW k \in 1..Len(s), k # n
        PROVE  \E i \in DOMAIN r : r[i] = s[k]
    <3> DEFINE i == IF k < n THEN k ELSE k - 1
    <3>1. i \in 1..(Len(s) - 1) /\ (IF i < n THEN i ELSE i + 1) = k
      BY <2>2
    <3>2. r[i] = s[k]
      BY <1>1, <3>1
    <3>3. QED
      BY <1>2, <3>1, <3>2
  <2>3. QED
    BY <2>1, <2>2
<1>5. ASSUME s[n] = UserEntry
      PROVE  Wakes(r, S)
  <2>1. ASSUME NEW j \in Task
        PROVE  j \in S <=> \E i \in DOMAIN r : r[i] = JoinEntry(j)
    <3>1. UserEntry # JoinEntry(j)
      BY DEF UserEntry, JoinEntry
    <3>2. j \in S <=> \E i \in 1..Len(s) : s[i] = JoinEntry(j)
      BY <1>2 DEF Wakes
    <3>3. QED
      BY <3>1, <3>2, <1>4, <1>5
  <2>2. QED
    BY <1>3, <2>1, Zenon DEF Wakes
<1>6. ASSUME NEW t \in Task, s[n] = JoinEntry(t)
      PROVE  Wakes(r, S \ {t})
  <2>1. ASSUME NEW j \in Task
        PROVE  j \in S \ {t} <=> \E i \in DOMAIN r : r[i] = JoinEntry(j)
    <3>1. JoinEntry(t) = JoinEntry(j) <=> j = t
      BY DEF JoinEntry
    <3>2. j \in S <=> \E i \in 1..Len(s) : s[i] = JoinEntry(j)
      BY <1>2 DEF Wakes
    <3>3. \A k \in 1..Len(s) : s[k] = JoinEntry(t) => k = n
      BY <1>2, <1>6 DEF Wakes, JoinEntry
    <3>4. QED
      BY <3>1, <3>2, <3>3, <1>4, <1>6
  <2>2. QED
    BY <1>3, <2>1, Zenon DEF Wakes
<1>7. QED
  BY <1>1, <1>5, <1>6, Zenon DEF r

\* taskCancelAtExit of a joinWake entry, as joinDequeue calls it.
LEMMA WakesRemoveJoin ==
    ASSUME NEW s \in Seq(Entry), NEW S \in SUBSET Task, Wakes(s, S), NEW t \in S
    PROVE  /\ RemoveFirst(s, JoinEntry(t)) \in Seq(Entry)
           /\ Wakes(RemoveFirst(s, JoinEntry(t)), S \ {t})
<1>1. PICK n \in 1..Len(s) : s[n] = JoinEntry(t)
  BY DEF Wakes
<1>2. \A i \in 1..Len(s) : s[i] = JoinEntry(t) => i = n
  BY <1>1 DEF Wakes, JoinEntry
<1>3. RemoveFirst(s, JoinEntry(t)) = RemoveAt(s, n)
  BY <1>1, <1>2, RemoveFirstUnique
<1>4. QED
  BY <1>1, <1>3, WakesRemoveAt

\* Popping the last entry, as taskRunAtExits does.
LEMMA WakesFront ==
    ASSUME NEW s \in Seq(Entry), NEW S \in SUBSET Task, Wakes(s, S), s # <<>>
    PROVE  /\ Front(s) \in Seq(Entry)
           /\ Last(s) = UserEntry => Wakes(Front(s), S)
           /\ \A t \in Task : Last(s) = JoinEntry(t) => t \in S /\ Wakes(Front(s), S \ {t})
           /\ Last(s) = UserEntry \/ \E t \in Task : Last(s) = JoinEntry(t)
<1>1. Front(s) = RemoveAt(s, Len(s)) /\ Last(s) = s[Len(s)] /\ Len(s) \in 1..Len(s)
  BY FrontIsRemoveAt, FrontProperties
<1>2. \A t \in Task : Last(s) = JoinEntry(t) => t \in S
  <2>1. Len(s) \in DOMAIN s
    BY <1>1
  <2>2. QED
    BY <1>1, <2>1 DEF Wakes
<1>3. Last(s) \in Entry
  BY <1>1
<1>4. QED
  BY <1>1, <1>2, <1>3, WakesRemoveAt DEF Entry

-----------------------------------------------------------------------------
(* The queues.                                                             *)

QueueTypes ==
    /\ dq \in [Task -> {"nil", "queue", "sleep", "join", "io"}]
    /\ dqData \in [Task -> QObj \cup Key \cup {None}]
    /\ dqTask \in [Task -> Task \cup {None}]
    /\ atExits \in [Task -> Seq(Entry)]
    /\ q \in [QObj -> Seq(Task)]
    /\ sleepers \in Seq(Task)
    /\ timeDue \in [Task -> Nat]
    /\ io \in [Key -> Task \cup {None}]

QueueInv == QueueTypes /\ QueuesMatch /\ SleepersMatch /\ JoinsMatch /\ IoMatch

\* The sets the queues list.
InQueue(o)  == {t \in Task : dq[t] = "queue" /\ dqData[t] = o}
Sleeping    == {t \in Task : dq[t] = "sleep"}
Joining(t)  == {j \in Task : dq[j] = "join" /\ dqTask[j] = t}

\* dqQueue takes a task out of whichever of the two queues holds it, also
\* when they have been exchanged since it was put there.
LEMMA DqQueueKeeps ==
    ASSUME QueueInv, NEW t \in Task, dqQueue(t)
    PROVE  QueueInv'
<1> USE DEF QueueInv, QueueTypes, dqQueue
<1> DEFINE o == dqData[t]
<1>1. o \in QObj /\ t \in InQueue(o)
  BY DEF QueuesMatch, InQueue
<1>2. Lists(RemoveFirst(q[o], t), InQueue(o) \ {t}) /\ RemoveFirst(q[o], t) \in Seq(Task)
  BY <1>1, ListsRemove DEF QueuesMatch, InQueue
<1>3. QueueTypes'
  BY <1>1, <1>2
<1>4. QueuesMatch'
  <2>1. ASSUME NEW p \in QObj
        PROVE  Lists(q'[p], InQueue(p)')
    <3>1. CASE p = o
      <4>1. InQueue(p)' = InQueue(o) \ {t} /\ q'[p] = RemoveFirst(q[o], t)
        BY <1>1, <3>1 DEF InQueue, QObj
      <4>2. QED
        BY <4>1, <1>2
    <3>2. CASE p # o
      <4>1. InQueue(p)' = InQueue(p) /\ q'[p] = q[p]
        BY <1>1, <3>2 DEF InQueue, QObj
      <4>2. QED
        BY <4>1 DEF QueuesMatch, InQueue
    <3>3. QED
      BY <3>1, <3>2
  <2>2. \A u \in Task : dq'[u] = "queue" => dqData'[u] \in QObj
    BY DEF QueuesMatch
  <2>3. QED
    BY <2>1, <2>2 DEF QueuesMatch, InQueue
<1>5. SleepersMatch'
  <2>1. Sleeping' = Sleeping
    BY DEF Sleeping
  <2>2. QED
    BY <2>1 DEF SleepersMatch, Sleeping
<1>6. JoinsMatch'
  <2>1. \A u \in Task : Joining(u)' = Joining(u)
    BY DEF Joining
  <2>2. QED
    BY <2>1 DEF JoinsMatch, Joining
<1>7. IoMatch'
  BY DEF IoMatch, WaiterRegistered
<1>8. QED
  BY <1>3, <1>4, <1>5, <1>6, <1>7

\* A step that moves one task between the slots, the heap and nowhere leaves
\* what the queues and the exit entries must list alone.
LEMMA OthersUnmoved ==
    ASSUME QueueInv, NEW t \in Task, NEW d, dq' = [dq EXCEPT ![t] = d],
           dq[t] \in {"nil", "sleep", "io"}, d \in {"nil", "sleep", "io"},
           \A u \in Task \ {t} : dqData'[u] = dqData[u],
           UNCHANGED <<q, atExits, dqTask>>
    PROVE  QueuesMatch' /\ JoinsMatch'
<1> USE DEF QueueInv, QueueTypes
<1>1. \A o \in QObj : InQueue(o)' = InQueue(o)
  BY DEF InQueue
<1>2. \A u \in Task : Joining(u)' = Joining(u)
  BY DEF Joining
<1>3. QueuesMatch'
  BY <1>1 DEF QueuesMatch, InQueue
<1>4. JoinsMatch'
  BY <1>2 DEF JoinsMatch, Joining
<1>5. QED
  BY <1>3, <1>4

\* dqSleeper takes a task out of the heap.
LEMMA DqSleeperKeeps ==
    ASSUME QueueInv, NEW t \in Task, dqSleeper(t)
    PROVE  QueueInv'
<1> USE DEF QueueInv, QueueTypes, dqSleeper
<1>1. QueuesMatch' /\ JoinsMatch'
  BY OthersUnmoved
<1>2. Lists(RemoveFirst(sleepers, t), Sleeping \ {t}) /\ RemoveFirst(sleepers, t) \in Seq(Task)
  <2>1. t \in Sleeping /\ Lists(sleepers, Sleeping)
    BY DEF SleepersMatch, Sleeping
  <2>2. QED
    BY <2>1, ListsRemove
<1>3. SleepersMatch'
  <2>1. Sleeping' = Sleeping \ {t}
    BY DEF Sleeping
  <2>2. QED
    BY <1>2, <2>1 DEF SleepersMatch, Sleeping
<1>4. IoMatch'
  BY DEF IoMatch, WaiterRegistered
<1>5. QED
  BY <1>1, <1>2, <1>3, <1>4

\* joinDequeue takes a task's entry out of the exits of the one it waits for.
LEMMA JoinDequeueKeeps ==
    ASSUME QueueInv, NEW t \in Task, joinDequeue(t)
    PROVE  QueueInv'
<1> USE DEF QueueInv, QueueTypes, joinDequeue
<1> DEFINE u == dqTask[t]
           r == RemoveFirst(atExits[u], JoinEntry(t))
<1>1. u \in Task /\ t \in Joining(u)
  BY DEF JoinsMatch, Joining
<1>2. r \in Seq(Entry) /\ Wakes(r, Joining(u) \ {t})
  BY <1>1, WakesRemoveJoin DEF JoinsMatch, Joining
<1> HIDE DEF r
<1>3. atExits' = [atExits EXCEPT ![u] = r]
  BY DEF r
<1>4. QueueTypes'
  BY <1>1, <1>2, <1>3
<1>5. QueuesMatch'
  <2>1. \A o \in QObj : InQueue(o)' = InQueue(o)
    BY DEF InQueue
  <2>2. QED
    BY <2>1 DEF QueuesMatch, InQueue
<1>6. SleepersMatch'
  <2>1. Sleeping' = Sleeping
    BY DEF Sleeping
  <2>2. QED
    BY <2>1 DEF SleepersMatch, Sleeping
<1>7. JoinsMatch'
  <2>1. ASSUME NEW v \in Task
        PROVE  Wakes(atExits'[v], Joining(v)')
    <3>1. CASE v = u
      <4>1. Joining(v)' = Joining(u) \ {t} /\ atExits'[v] = r
        BY <1>1, <1>3, <3>1 DEF Joining
      <4>2. QED
        BY <1>2, <4>1
    <3>2. CASE v # u
      <4>1. Joining(v)' = Joining(v) /\ atExits'[v] = atExits[v]
        BY <1>1, <1>3, <3>2 DEF Joining
      <4>2. QED
        BY <4>1 DEF JoinsMatch, Joining
    <3>3. QED
      BY <3>1, <3>2
  <2>2. QED
    BY <2>1 DEF JoinsMatch, Joining
<1>8. IoMatch'
  BY DEF IoMatch, WaiterRegistered
<1>9. QED
  BY <1>4, <1>5, <1>6, <1>7, <1>8

\* xpqueue_dequeue clears the slot a task waits in.
LEMMA XpqueueDequeueKeeps ==
    ASSUME QueueInv, NEW t \in Task, xpqueue_dequeue(t)
    PROVE  QueueInv'
<1> USE DEF QueueInv, QueueTypes, xpqueue_dequeue
<1>1. QueuesMatch' /\ JoinsMatch'
  BY OthersUnmoved
<1>2. SleepersMatch'
  <2>1. Sleeping' = Sleeping
    BY DEF Sleeping
  <2>2. QED
    BY <2>1 DEF SleepersMatch, Sleeping
<1>3. QueueTypes'
  OBVIOUS
<1>4. IoMatch'
  BY ThreadAssumption DEF IoMatch, WaiterRegistered
<1>5. QED
  BY <1>1, <1>2, <1>3, <1>4

\* task:_dequeue() takes a task off whatever queue it is in.
LEMMA DequeueKeeps ==
    ASSUME QueueInv, NEW t \in Task, dequeue(t)
    PROVE  QueueInv' /\ dq' = [dq EXCEPT ![t] = "nil"]
<1>1. dq' = [dq EXCEPT ![t] = "nil"]
  BY DEF dequeue, dqQueue, dqSleeper, joinDequeue, xpqueue_dequeue, queueVars,
         QueueInv, QueueTypes
<1>2. CASE dq[t] = "nil" /\ UNCHANGED queueVars
  BY <1>2 DEF queueVars, QueueInv, QueueTypes, QueuesMatch, SleepersMatch,
              JoinsMatch, IoMatch, WaiterRegistered
<1>3. QED
  BY <1>1, <1>2, DqQueueKeeps, DqSleeperKeeps, JoinDequeueKeeps,
     XpqueueDequeueKeeps DEF dequeue

-----------------------------------------------------------------------------
(* Putting a task in a queue.                                              *)

\* me.wakeAt of a task that is nowhere.
LEMMA WakeAtKeeps ==
    ASSUME QueueInv, NEW t \in Task, dq[t] = "nil", NEW due \in Nat, wakeAt(t, due),
           UNCHANGED <<dqData, dqTask, atExits, q, io>>
    PROVE  QueueInv'
<1> USE DEF QueueInv, QueueTypes, wakeAt
<1>1. QueuesMatch' /\ JoinsMatch'
  BY OthersUnmoved
<1>2. Lists(Append(sleepers, t), Sleeping \cup {t}) /\ Append(sleepers, t) \in Seq(Task)
  <2>1. t \notin Sleeping /\ Lists(sleepers, Sleeping)
    BY DEF SleepersMatch, Sleeping
  <2>2. QED
    BY <2>1, ListsAppend
<1>3. SleepersMatch'
  <2>1. Sleeping' = Sleeping \cup {t}
    BY DEF Sleeping
  <2>2. QED
    BY <1>2, <2>1 DEF SleepersMatch, Sleeping
<1>4. IoMatch'
  BY DEF IoMatch, WaiterRegistered
<1>5. QueueTypes'
  BY <1>2
<1>6. QED
  BY <1>1, <1>3, <1>4, <1>5

\* Registering with another task's exit entries and waiting for it.
LEMMA JoinKeeps ==
    ASSUME QueueInv, NEW t \in Task, NEW c \in Task, dq[c] = "nil",
           atExits' = [atExits EXCEPT ![t] = Append(@, JoinEntry(c))],
           dq' = [dq EXCEPT ![c] = "join"],
           dqTask' = [dqTask EXCEPT ![c] = t],
           UNCHANGED <<dqData, q, sleepers, timeDue, io>>
    PROVE  QueueInv'
<1> USE DEF QueueInv, QueueTypes
<1> DEFINE r == Append(atExits[t], JoinEntry(c))
<1>1. r \in Seq(Entry)
  <2>1. JoinEntry(c) \in Entry /\ atExits[t] \in Seq(Entry)
    BY DEF Entry
  <2>2. QED
    BY <2>1, AppendProperties
<1>2. Wakes(r, Joining(t) \cup {c})
  <2>1. c \notin Joining(t) /\ Wakes(atExits[t], Joining(t)) /\ Joining(t) \in SUBSET Task
    BY DEF JoinsMatch, Joining
  <2>2. QED
    BY <2>1, WakesAppendJoin
<1>3. atExits' = [atExits EXCEPT ![t] = r]
  OBVIOUS
<1> HIDE DEF r
<1>4. QueueTypes'
  BY <1>1, <1>3
<1>5. QueuesMatch'
  <2>1. \A o \in QObj : InQueue(o)' = InQueue(o)
    BY DEF InQueue
  <2>2. QED
    BY <2>1 DEF QueuesMatch, InQueue
<1>6. SleepersMatch'
  <2>1. Sleeping' = Sleeping
    BY DEF Sleeping
  <2>2. QED
    BY <2>1 DEF SleepersMatch, Sleeping
<1>7. JoinsMatch'
  <2>1. ASSUME NEW v \in Task
        PROVE  Wakes(atExits'[v], Joining(v)')
    <3>1. CASE v = t
      <4>1. Joining(v)' = Joining(t) \cup {c} /\ atExits'[v] = r
        BY <1>3, <3>1 DEF Joining
      <4>2. QED
        BY <1>2, <4>1
    <3>2. CASE v # t
      <4>1. Joining(v)' = Joining(v) /\ atExits'[v] = atExits[v]
        BY <1>3, <3>2 DEF Joining
      <4>2. QED
        BY <4>1 DEF JoinsMatch, Joining
    <3>3. QED
      BY <3>1, <3>2
  <2>2. QED
    BY <2>1 DEF JoinsMatch, Joining
<1>8. IoMatch'
  BY DEF IoMatch, WaiterRegistered
<1>9. QED
  BY <1>4, <1>5, <1>6, <1>7, <1>8

\* Entries that user code made come and go freely.
LEMMA UserEntriesKeep ==
    ASSUME QueueInv, NEW t \in Task, NEW r \in Seq(Entry),
           Wakes(r, Joining(t)),
           atExits' = [atExits EXCEPT ![t] = r],
           UNCHANGED <<dq, dqData, dqTask, q, sleepers, timeDue, io>>
    PROVE  QueueInv'
<1> USE DEF QueueInv, QueueTypes
<1>1. QueueTypes' /\ QueuesMatch' /\ SleepersMatch' /\ IoMatch'
  BY DEF QueuesMatch, SleepersMatch, IoMatch, WaiterRegistered
<1>2. JoinsMatch'
  BY DEF JoinsMatch, Joining
<1>3. QED
  BY <1>1, <1>2

\* xpqueue_enqueue of a task that is nowhere.
LEMMA EnqueueKeeps ==
    ASSUME QueueInv, NEW t \in Task, dq[t] = "nil", NEW k \in Key,
           ShareKey \/ io[k] = None,
           io' = [io EXCEPT ![k] = t],
           dq' = [dq EXCEPT ![t] = "io"],
           dqData' = [dqData EXCEPT ![t] = k],
           UNCHANGED <<dqTask, atExits, q, sleepers, timeDue>>
    PROVE  QueueInv'
<1> USE DEF QueueInv, QueueTypes
<1>1. QueuesMatch' /\ JoinsMatch'
  BY OthersUnmoved
<1>2. SleepersMatch'
  <2>1. Sleeping' = Sleeping
    BY DEF Sleeping
  <2>2. QED
    BY <2>1 DEF SleepersMatch, Sleeping
<1>3. QueueTypes'
  OBVIOUS
<1>4. IoMatch'
  BY ThreadAssumption DEF IoMatch, WaiterRegistered
<1>5. QED
  BY <1>1, <1>2, <1>3, <1>4

\* me.makeReady of a task that the same step takes off another queue.
LEMMA MakeReadyQueues ==
    ASSUME QueueInv, NEW t \in Task, dq[t] # "queue", ready \in QObj, makeReady(t)
    PROVE  /\ QueuesMatch'
           /\ q' \in [QObj -> Seq(Task)]
           /\ dq' \in [Task -> {"nil", "queue", "sleep", "join", "io"}]
           /\ dqData' \in [Task -> QObj \cup Key \cup {None}]
<1> USE DEF QueueInv, QueueTypes, makeReady
<1>1. Lists(q[ready], InQueue(ready)) /\ t \notin InQueue(ready)
  BY DEF QueuesMatch, InQueue
<1>2. Lists(Append(q[ready], t), InQueue(ready) \cup {t}) /\ Append(q[ready], t) \in Seq(Task)
  BY <1>1, ListsAppend
<1>3. ASSUME NEW p \in QObj
      PROVE  Lists(q'[p], InQueue(p)')
  <2>1. CASE p = ready
    <3>1. InQueue(p)' = InQueue(ready) \cup {t} /\ q'[p] = Append(q[ready], t)
      BY <2>1 DEF InQueue
    <3>2. QED
      BY <3>1, <1>2
  <2>2. CASE p # ready
    <3>1. InQueue(p)' = InQueue(p) /\ q'[p] = q[p]
      BY <2>2 DEF InQueue
    <3>2. QED
      BY <3>1 DEF QueuesMatch, InQueue
  <2>3. QED
    BY <2>1, <2>2
<1>4. \A u \in Task : dq'[u] = "queue" => dqData'[u] \in QObj
  BY DEF QueuesMatch
<1>5. QED
  BY <1>2, <1>3, <1>4 DEF QueuesMatch, InQueue

\* me.makeReady of a task that is nowhere.
LEMMA MakeReadyKeeps ==
    ASSUME QueueInv, NEW t \in Task, dq[t] = "nil", ready \in QObj, makeReady(t),
           UNCHANGED <<dqTask, atExits, sleepers, timeDue, io>>
    PROVE  QueueInv'
<1> USE DEF QueueInv, QueueTypes
<1>1. QueueTypes' /\ QueuesMatch'
  BY MakeReadyQueues
<1>2. SleepersMatch'
  <2>1. Sleeping' = Sleeping
    BY DEF Sleeping, makeReady
  <2>2. QED
    BY <2>1 DEF SleepersMatch, Sleeping
<1>3. JoinsMatch'
  <2>1. \A u \in Task : Joining(u)' = Joining(u)
    BY DEF Joining, makeReady
  <2>2. QED
    BY <2>1 DEF JoinsMatch, Joining, makeReady
<1>4. IoMatch'
  BY DEF IoMatch, WaiterRegistered, makeReady
<1>5. QED
  BY <1>1, <1>2, <1>3, <1>4

\* A due sleeper moves to the ready queue.
LEMMA WakeSleeperKeeps ==
    ASSUME QueueInv, NEW t \in Task, ready \in QObj, dq[t] = "sleep", makeReady(t),
           sleepers' = RemoveFirst(sleepers, t),
           UNCHANGED <<dqTask, atExits, timeDue, io>>
    PROVE  QueueInv'
<1> USE DEF QueueInv, QueueTypes
<1>1. Lists(RemoveFirst(sleepers, t), Sleeping \ {t}) /\ RemoveFirst(sleepers, t) \in Seq(Task)
  <2>1. t \in Sleeping /\ Lists(sleepers, Sleeping)
    BY DEF SleepersMatch, Sleeping
  <2>2. QED
    BY <2>1, ListsRemove
<1>2. QueueTypes' /\ QueuesMatch'
  BY <1>1, MakeReadyQueues
<1>3. SleepersMatch'
  <2>1. Sleeping' = Sleeping \ {t}
    BY DEF Sleeping, makeReady
  <2>2. QED
    BY <1>1, <2>1 DEF SleepersMatch, Sleeping
<1>4. JoinsMatch'
  <2>1. \A u \in Task : Joining(u)' = Joining(u)
    BY DEF Joining, makeReady
  <2>2. QED
    BY <2>1 DEF JoinsMatch, Joining, makeReady
<1>5. IoMatch'
  BY DEF IoMatch, WaiterRegistered, makeReady
<1>6. QED
  BY <1>2, <1>3, <1>4, <1>5

\* A joinWake entry is popped and called: the task that waited is ready.
LEMMA JoinWakeKeeps ==
    ASSUME QueueInv, NEW t \in Task, NEW j, ready \in QObj,
           atExits[t] # <<>>, Last(atExits[t]).fn = "joinWake",
           j = Last(atExits[t]).arg,
           atExits' = PopEntry(t),
           dqTask' = [dqTask EXCEPT ![j] = None],
           makeReady(j),
           UNCHANGED <<sleepers, timeDue, io>>
    PROVE  QueueInv' /\ j \in Task /\ dq[j] = "join"
<1> USE DEF QueueInv, QueueTypes
<1> DEFINE r == Front(atExits[t])
<1>0. Wakes(atExits[t], Joining(t)) /\ Joining(t) \in SUBSET Task
  BY DEF JoinsMatch, Joining
<1>1. j \in Task /\ Last(atExits[t]) = JoinEntry(j)
  <2>1. \/ Last(atExits[t]) = UserEntry
        \/ \E u \in Task : Last(atExits[t]) = JoinEntry(u)
    BY <1>0, WakesFront
  <2>2. QED
    BY <2>1 DEF UserEntry, JoinEntry
<1>2. j \in Joining(t) /\ Wakes(r, Joining(t) \ {j}) /\ r \in Seq(Entry)
  BY <1>0, <1>1, WakesFront
<1>3. dq[j] = "join" /\ dqTask[j] = t
  BY <1>2 DEF Joining
<1>4. atExits' = [atExits EXCEPT ![t] = r]
  BY DEF PopEntry
<1> HIDE DEF r
<1>5. QueueTypes' /\ QueuesMatch'
  <2>1. dqTask' \in [Task -> Task \cup {None}] /\ atExits' \in [Task -> Seq(Entry)]
    BY <1>2, <1>4
  <2>2. QED
    BY <1>1, <1>3, <2>1, MakeReadyQueues
<1>6. SleepersMatch'
  <2>1. Sleeping' = Sleeping
    BY <1>1, <1>3 DEF Sleeping, makeReady
  <2>2. QED
    BY <2>1 DEF SleepersMatch, Sleeping
<1>7. JoinsMatch'
  <2>1. ASSUME NEW v \in Task
        PROVE  Wakes(atExits'[v], Joining(v)')
    <3>1. CASE v = t
      <4>1. Joining(v)' = Joining(t) \ {j} /\ atExits'[v] = r
        BY <1>1, <1>3, <1>4, <3>1 DEF Joining, makeReady
      <4>2. QED
        BY <1>2, <4>1
    <3>2. CASE v # t
      <4>1. Joining(v)' = Joining(v) /\ atExits'[v] = atExits[v]
        BY <1>1, <1>3, <1>4, <3>2 DEF Joining, makeReady
      <4>2. QED
        BY <4>1 DEF JoinsMatch, Joining
    <3>3. QED
      BY <3>1, <3>2
  <2>2. QED
    BY <1>1, <2>1 DEF JoinsMatch, Joining, makeReady
<1>8. IoMatch'
  BY <1>1, <1>3 DEF IoMatch, WaiterRegistered, makeReady
<1>9. QED
  BY <1>1, <1>3, <1>5, <1>6, <1>7, <1>8

\* poll() returns: the tasks in the slots K are nowhere.
LEMMA PollKeeps ==
    ASSUME QueueInv, NEW K \in SUBSET Key, \A k \in K : io[k] # None,
           io' = [k \in Key |-> IF k \in K THEN None ELSE io[k]],
           dq' = [t \in Task |-> IF t \in {io[k] : k \in K} THEN "nil" ELSE dq[t]],
           UNCHANGED <<dqData, dqTask, atExits, q, sleepers, timeDue>>
    PROVE  QueueInv' /\ \A k \in K : io[k] \in Task /\ dq[io[k]] = "io"
<1> USE DEF QueueInv, QueueTypes
<1>1. \A k \in K : io[k] \in Task /\ dq[io[k]] = "io" /\ dqData[io[k]] = k
  BY DEF IoMatch
<1>2. \A t \in Task : dq[t] # "io" => dq'[t] = dq[t]
  BY <1>1
<1>3. \A t \in Task : dq'[t] = dq[t] \/ (dq'[t] = "nil" /\ dq[t] = "io")
  BY <1>1
<1>4. QueueTypes'
  <2>1. dq' \in [Task -> {"nil", "queue", "sleep", "join", "io"}]
    OBVIOUS
  <2>2. io' \in [Key -> Task \cup {None}]
    OBVIOUS
  <2>3. QED
    BY <2>1, <2>2
<1>5. QueuesMatch'
  <2>1. \A o \in QObj : InQueue(o)' = InQueue(o)
    BY <1>3 DEF InQueue
  <2>2. QED
    BY <1>3, <2>1 DEF QueuesMatch, InQueue
<1>6. SleepersMatch'
  <2>1. Sleeping' = Sleeping
    BY <1>3 DEF Sleeping
  <2>2. QED
    BY <2>1 DEF SleepersMatch, Sleeping
<1>7. JoinsMatch'
  <2>1. \A u \in Task : Joining(u)' = Joining(u)
    BY <1>3 DEF Joining
  <2>2. QED
    BY <1>3, <2>1 DEF JoinsMatch, Joining
<1>8. IoMatch'
  <2>1. ASSUME NEW k \in Key, io'[k] # None
        PROVE  dq'[io'[k]] = "io" /\ dqData'[io'[k]] = k
    <3>1. k \notin K /\ io'[k] = io[k] /\ io[k] \in Task
      BY <2>1
    <3>2. dq[io[k]] = "io" /\ dqData[io[k]] = k
      BY <3>1, <2>1 DEF IoMatch
    <3>3. io[k] \notin {io[x] : x \in K}
      BY <1>1, <3>1, <3>2
    <3>4. QED
      BY <3>1, <3>2, <3>3
  <2>2. ASSUME ~ShareKey, NEW t \in Task, dq'[t] = "io"
        PROVE  dqData'[t] \in Key /\ io'[dqData'[t]] = t
    <3>1. dq[t] = "io" /\ t \notin {io[x] : x \in K}
      BY <2>2
    <3>2. dqData[t] \in Key /\ io[dqData[t]] = t
      BY <2>2, <3>1 DEF IoMatch, WaiterRegistered
    <3>3. QED
      BY <3>1, <3>2
  <2>3. QED
    BY <2>1, <2>2 DEF IoMatch, WaiterRegistered
<1>9. QED
  BY <1>1, <1>4, <1>5, <1>6, <1>7, <1>8

-----------------------------------------------------------------------------
(* The invariant.                                                          *)

OtherTypes ==
    /\ pc \in {"swap", "run", "task", "wait", "poll", "wake", "sleepers",
               "dtor", "done", "error"}
    /\ cur \in Task \cup {None}
    /\ co \in [Task -> {"absent", "fn", "exiting", "dead"}]
    /\ results \in [Task -> {"nil", "values", "error", "killed"}]
    /\ all \subseteq Task
    /\ stack \in [Runner -> Seq(Task)]
    /\ code \in [Runner -> {"user", "exits"}]
    /\ joining \in [Task -> Task \cup {None}]
    /\ ready \in QObj
    /\ woken \subseteq Task
    /\ now \in Nat /\ tNow \in Nat /\ deadline \in Int

Control ==
    /\ pc # "wake" => woken = {}
    /\ pc = "task" => cur \in Task /\ co[cur] \in {"fn", "exiting"}
    /\ \A t \in woken : co[t] \in {"fn", "exiting"}
    /\ \A r \in Runner : code[r] = "exits" => stack[r] # <<>>

IInv == QueueInv /\ OtherTypes /\ OffQueue /\ Control

\* The type invariant, in the two parts the steps are proved in.
LEMMA TypesTogether == TypeOK <=> QueueTypes /\ OtherTypes
  BY DEF TypeOK, QueueTypes, OtherTypes

\* Steps that leave the queues alone, and what of them QueueInv reads.
LEMMA QueuesUnchanged ==
    ASSUME QueueInv, UNCHANGED queueVars
    PROVE  QueueInv' /\ dq' = dq
  BY DEF queueVars, QueueInv, QueueTypes, QueuesMatch, SleepersMatch, JoinsMatch,
         IoMatch, WaiterRegistered

\* thread.new: the new task, which was nowhere, is ready.
LEMMA NewStep ==
    ASSUME IInv, NEW r \in Runner, NEW t \in Task, New(r, t)
    PROVE  IInv'
<1> USE DEF IInv
<1>1. dq[t] = "nil"
  BY DEF New, OffQueue
<1>2. QueueInv'
  BY <1>1, MakeReadyKeeps DEF New, OtherTypes
<1>3. dq' = [dq EXCEPT ![t] = "queue"]
  BY DEF New, makeReady
<1>4. OtherTypes'
  BY <1>1, <1>2, <1>3 DEF OtherTypes, New, UserRuns, Active, taskVars, loopVars, timeVars, Runner
<1>5. OffQueue'
  BY <1>1, <1>2, <1>3 DEF OffQueue, Control, OtherTypes, QueueInv, QueueTypes, New, UserRuns,
     Active, taskVars, loopVars, timeVars
<1>6. Control'
  BY <1>1, <1>2, <1>3 DEF OffQueue, Control, OtherTypes, New, UserRuns, Active, taskVars,
     loopVars, timeVars, Runner
<1>7. QED
  BY <1>1, <1>2, <1>3, <1>4, <1>5, <1>6

\* thread.kill: the task is taken off whatever queue it is in.
LEMMA KillStep ==
    ASSUME IInv, NEW r \in Runner, NEW t \in Task, Kill(r, t)
    PROVE  IInv'
<1> USE DEF IInv
<1>1. QueueInv' /\ dq' = [dq EXCEPT ![t] = "nil"]
  BY DequeueKeeps DEF Kill, taskDelete
<1>2. Append(stack[r], t) \in Seq(Task) /\ Append(stack[r], t) # <<>>
  BY AppendProperties DEF OtherTypes
<1>3. OtherTypes'
  BY <1>1, <1>2 DEF OtherTypes, Kill, taskDelete, loopVars, timeVars, Runner
<1>4. OffQueue'
  BY <1>1 DEF OffQueue, QueueInv, QueueTypes, Kill, loopVars
<1>5. Control'
  BY <1>2 DEF Control, OtherTypes, Kill, taskDelete, loopVars
<1>6. QED
  BY <1>1, <1>3, <1>4, <1>5

\* thread.yield: the running task is ready again.
LEMMA YieldStep ==
    ASSUME IInv, Yield
    PROVE  IInv'
<1> USE DEF IInv
<1>1. cur \in Task /\ dq[cur] = "nil"
  BY DEF Yield, MayBlock, OffQueue
<1>2. QueueInv'
  BY <1>1, MakeReadyKeeps DEF Yield, OtherTypes
<1>3. dq' = [dq EXCEPT ![cur] = "queue"]
  BY DEF Yield, makeReady
<1>4. QED
  BY <1>1, <1>2, <1>3 DEF OtherTypes, OffQueue, Control, QueueInv, QueueTypes, Yield, MayBlock,
     Suspend, taskVars, loopVars, timeVars, Runner

\* thread.join suspends the running task in another one's exits.
LEMMA JoinStep ==
    ASSUME IInv, NEW t \in Task, Join(t)
    PROVE  IInv'
<1> USE DEF IInv
<1>1. cur \in Task /\ dq[cur] = "nil"
  BY DEF Join, MayBlock, OffQueue
<1>2. QueueInv'
  BY <1>1, JoinKeeps DEF Join
<1>3. dq' = [dq EXCEPT ![cur] = "join"]
  BY DEF Join
<1>4. QED
  BY <1>1, <1>2, <1>3 DEF OtherTypes, OffQueue, Control, QueueInv, QueueTypes, Join, MayBlock,
     Suspend, taskVars, loopVars, timeVars, Runner

\* The end of thread.join touches no queue.
LEMMA JoinReturnStep ==
    ASSUME IInv, JoinReturn
    PROVE  IInv'
<1> USE DEF IInv
<1>1. QueueInv' /\ dq' = dq
  BY QueuesUnchanged DEF JoinReturn
<1>2. QED
  BY <1>1 DEF OtherTypes, OffQueue, Control, QueueInv, QueueTypes, JoinReturn, taskVars,
     loopVars, timeVars, Runner

\* thread.sleepUntil suspends the running task in the heap.
LEMMA SleepUntilStep ==
    ASSUME IInv, NEW due \in 0..MaxNow, SleepUntil(due)
    PROVE  IInv'
<1> USE DEF IInv
<1>1. cur \in Task /\ dq[cur] = "nil" /\ due \in Nat
  BY ThreadAssumption DEF SleepUntil, MayBlock, OffQueue
<1>2. QueueInv'
  BY <1>1, WakeAtKeeps DEF SleepUntil
<1>3. dq' = [dq EXCEPT ![cur] = "sleep"]
  BY DEF SleepUntil, wakeAt
<1>4. QED
  BY <1>1, <1>2, <1>3 DEF OtherTypes, OffQueue, Control, QueueInv, QueueTypes, SleepUntil,
     MayBlock, Suspend, taskVars, loopVars, timeVars, Runner

\* A blocking function of xpio suspends the running task in a slot.
LEMMA EnqueueStep ==
    ASSUME IInv, NEW k \in Key, xpqueue_enqueue(k)
    PROVE  IInv'
<1> USE DEF IInv
<1>1. cur \in Task /\ dq[cur] = "nil"
  BY DEF xpqueue_enqueue, MayBlock, OffQueue
<1>2. QueueInv'
  BY <1>1, EnqueueKeeps DEF xpqueue_enqueue
<1>3. dq' = [dq EXCEPT ![cur] = "io"]
  BY DEF xpqueue_enqueue
<1>4. QED
  BY <1>1, <1>2, <1>3 DEF OtherTypes, OffQueue, Control, QueueInv, QueueTypes, xpqueue_enqueue,
     MayBlock, Suspend, taskVars, loopVars, timeVars, Runner

\* thread.atExit adds an entry that wakes nobody.
LEMMA AtExitStep ==
    ASSUME IInv, AtExit
    PROVE  IInv'
<1> USE DEF IInv
<1>1. cur \in Task /\ UserEntry \in Entry
  BY DEF AtExit, OffQueue, Entry
<1>2. Wakes(atExits[cur], Joining(cur)) /\ Joining(cur) \in SUBSET Task /\ atExits[cur] \in Seq(Entry)
  BY <1>1 DEF QueueInv, QueueTypes, JoinsMatch, Joining
<1>3. Append(atExits[cur], UserEntry) \in Seq(Entry)
  BY <1>1, <1>2, AppendProperties
<1>4. QueueInv'
  BY <1>1, <1>2, <1>3, WakesAppendUser, UserEntriesKeep DEF AtExit
<1>5. dq' = dq
  BY DEF AtExit
<1>6. QED
  BY <1>1, <1>2, <1>3, <1>4, <1>5 DEF OtherTypes, OffQueue, Control, QueueInv, QueueTypes,
     AtExit, taskVars, loopVars, timeVars, Runner

\* thread.cancelAtExit removes an entry that wakes nobody.
LEMMA CancelAtExitStep ==
    ASSUME IInv, NEW i \in Nat, CancelAtExit(i)
    PROVE  IInv'
<1> USE DEF IInv
<1>1. cur \in Task
  BY DEF CancelAtExit, OffQueue
<1>2. Wakes(atExits[cur], Joining(cur)) /\ Joining(cur) \in SUBSET Task /\ atExits[cur] \in Seq(Entry)
  BY <1>1 DEF QueueInv, QueueTypes, JoinsMatch, Joining
<1>3. i \in 1..Len(atExits[cur]) /\ atExits[cur][i] = UserEntry
  BY <1>2 DEF CancelAtExit
<1>4. QueueInv'
  BY <1>1, <1>2, <1>3, WakesRemoveAt, UserEntriesKeep DEF CancelAtExit
<1>5. dq' = dq
  BY DEF CancelAtExit
<1>6. QED
  BY <1>1, <1>2, <1>3, <1>4, <1>5 DEF OtherTypes, OffQueue, Control, QueueInv, QueueTypes,
     CancelAtExit, taskVars, loopVars, timeVars, Runner

\* The start function returns: preamble deletes a task that is nowhere.
LEMMA ReturnStep ==
    ASSUME IInv, Return
    PROVE  IInv'
<1> USE DEF IInv
<1>1. cur \in Task
  BY DEF Return, OffQueue
<1>2. QueueInv' /\ dq' = [dq EXCEPT ![cur] = "nil"]
  BY <1>1, DequeueKeeps DEF Return, taskDelete
<1>3. Append(stack[cur], cur) \in Seq(Task) /\ Append(stack[cur], cur) # <<>>
  BY <1>1, AppendProperties DEF OtherTypes, Runner
<1>4. QED
  BY <1>1, <1>2, <1>3, ZenonT(60) DEF OtherTypes, OffQueue, Control, QueueInv, QueueTypes, Return,
     taskDelete, taskVars, loopVars, timeVars, Runner

\* The start function fails: the same.
LEMMA FailStep ==
    ASSUME IInv, Fail
    PROVE  IInv'
<1> USE DEF IInv
<1>1. cur \in Task
  BY DEF Fail, OffQueue
<1>2. QueueInv' /\ dq' = [dq EXCEPT ![cur] = "nil"]
  BY <1>1, DequeueKeeps DEF Fail
<1>3. QED
  BY <1>1, <1>2 DEF OtherTypes, OffQueue, Control, QueueInv, QueueTypes, Fail, taskVars,
     loopVars, timeVars, Runner

\* An error caught on the way out of a handler touches no queue.
LEMMA CatchStep ==
    ASSUME IInv, NEW r \in Runner, NEW n \in Nat, Catch(r, n)
    PROVE  IInv'
<1> USE DEF IInv
<1>1. QueueInv' /\ dq' = dq
  BY QueuesUnchanged DEF Catch
<1>2. OtherTypes'
  BY <1>1 DEF OtherTypes, Catch, UserRuns, taskVars, loopVars, timeVars, Runner
<1>3. OffQueue'
  BY <1>1 DEF OffQueue, Control, OtherTypes, QueueInv, QueueTypes, Catch, UserRuns, taskVars,
     loopVars, timeVars
<1>4. Control'
  BY <1>1 DEF OffQueue, Control, OtherTypes, Catch, UserRuns, taskVars, loopVars, timeVars, Runner
<1>5. QED
  BY <1>1, <1>2, <1>3, <1>4

\* A handler that returns touches no queue.
LEMMA HandlerReturnStep ==
    ASSUME IInv, NEW r \in Runner, HandlerReturn(r)
    PROVE  IInv'
<1> USE DEF IInv
<1>1. QueueInv' /\ dq' = dq
  BY QueuesUnchanged DEF HandlerReturn
<1>2. QED
  BY <1>1 DEF OtherTypes, OffQueue, Control, QueueInv, QueueTypes, HandlerReturn, InHandler,
     taskVars, loopVars, timeVars, Runner

\* taskRunAtExits pops a joinWake entry and makes its task ready.
LEMMA JoinWakeStep ==
    ASSUME IInv, NEW r \in Runner, JoinWake(r)
    PROVE  IInv'
<1> USE DEF IInv
<1>1. Last(stack[r]) \in Task
  BY FrontProperties DEF JoinWake, ExitsRun, Control, OtherTypes
<1>2. QueueInv' /\ Last(atExits[Last(stack[r])]).arg \in Task /\ dq[Last(atExits[Last(stack[r])]).arg] = "join"
  BY <1>1, JoinWakeKeeps DEF JoinWake, OtherTypes
<1>3. PICK j \in Task : dq[j] = "join" /\ dq' = [dq EXCEPT ![j] = "queue"]
  BY <1>2 DEF JoinWake, makeReady
<1>4. OtherTypes'
  BY <1>1, <1>2, <1>3 DEF OtherTypes, JoinWake, taskVars, loopVars, timeVars, Runner
<1>5. OffQueue'
  <2>1. UNCHANGED <<co, pc, cur, woken>>
    BY DEF JoinWake, taskVars, loopVars
  <2>2. QED
    BY <1>3, <2>1 DEF OffQueue, QueueInv, QueueTypes
<1>6. Control'
  BY <1>1, <1>2, <1>3 DEF OffQueue, Control, OtherTypes, JoinWake, taskVars, loopVars, timeVars,
     Runner
<1>7. QED
  BY <1>1, <1>2, <1>3, <1>4, <1>5, <1>6

\* taskRunAtExits pops an entry of user code and calls it.
LEMMA CallHandlerStep ==
    ASSUME IInv, NEW r \in Runner, CallHandler(r)
    PROVE  IInv'
<1> USE DEF IInv
<1>1. Last(stack[r]) \in Task
  BY FrontProperties DEF CallHandler, ExitsRun, Control, OtherTypes
<1>2. \A t \in Task : Wakes(atExits[t], Joining(t)) /\ Joining(t) \in SUBSET Task /\ atExits[t] \in Seq(Entry)
  BY DEF QueueInv, QueueTypes, JoinsMatch, Joining
<1>3. Last(atExits[Last(stack[r])]) = UserEntry
  BY <1>1, <1>2, WakesFront DEF CallHandler, JoinEntry
<1>4. QueueInv'
  BY <1>1, <1>2, <1>3, WakesFront, UserEntriesKeep DEF CallHandler, PopEntry
<1>5. dq' = dq
  BY DEF CallHandler
<1>6. QED
  BY <1>1, <1>2, <1>3, <1>4, <1>5 DEF OtherTypes, OffQueue, Control, QueueInv, QueueTypes,
     CallHandler, ExitsRun, taskVars, loopVars, timeVars, Runner

\* The end of taskRunAtExits: a coroutine that ends is in no queue.
LEMMA FinishExitsStep ==
    ASSUME IInv, NEW r \in Runner, FinishExits(r)
    PROVE  IInv'
<1> USE DEF IInv
<1>1. QueueInv' /\ dq' = dq
  BY QueuesUnchanged DEF FinishExits
<1>2. Front(stack[r]) \in Seq(Task)
  BY FrontProperties DEF FinishExits, ExitsRun, Control, OtherTypes
<1>3. (r = cur /\ pc = "task") \/ r \notin Task
  BY ThreadAssumption DEF FinishExits, ExitsRun, Active
<1>4. OtherTypes'
  BY <1>1, <1>2, <1>3 DEF OtherTypes, FinishExits, ExitsRun, Active, taskVars, loopVars,
     timeVars, Runner
<1>5. OffQueue'
  BY <1>1, <1>2, <1>3, ZenonT(60) DEF OffQueue, Control, OtherTypes, QueueInv, QueueTypes, FinishExits,
     ExitsRun, Active, taskVars, loopVars, timeVars
<1>6. Control'
  BY <1>1, <1>2, <1>3 DEF OffQueue, Control, OtherTypes, FinishExits, ExitsRun, Active,
     taskVars, loopVars, timeVars, Runner
<1>7. QED
  BY <1>1, <1>2, <1>3, <1>4, <1>5, <1>6

\* Exchanging `run` and `ready` moves no task.
LEMMA SwapQueuesStep ==
    ASSUME IInv, SwapQueues
    PROVE  IInv'
<1> USE DEF IInv
<1>1. QueueInv' /\ dq' = dq
  BY QueuesUnchanged DEF SwapQueues
<1>2. QED
  BY <1>1 DEF OtherTypes, OffQueue, Control, QueueInv, QueueTypes, SwapQueues, run, QObj,
     taskVars, loopVars, timeVars, Runner

\* The task the loop resumes is taken off the run queue.
LEMMA ResumeStep ==
    ASSUME IInv, Resume
    PROVE  IInv'
<1> USE DEF IInv
<1>1. run \in QObj
  BY DEF run, QObj, OtherTypes
<1>2. Head(q[run]) \in InQueue(run)
  BY <1>1, ListsHead DEF Resume, QueueInv, QueueTypes, QueuesMatch, InQueue
<1>3. Head(q[run]) \in Task /\ dq[Head(q[run])] = "queue"
  BY <1>2 DEF InQueue
<1>4. QueueInv' /\ dq' = [dq EXCEPT ![Head(q[run])] = "nil"]
  BY <1>3, DequeueKeeps DEF Resume
<1>5. OtherTypes'
  BY <1>3 DEF OtherTypes, Resume, taskVars, loopVars, timeVars
<1>6. woken = {} /\ woken' = {} /\ co' = co
  BY DEF Resume, Control, taskVars
<1>7. OffQueue'
  BY <1>3, <1>4, <1>6 DEF OffQueue, QueueInv, QueueTypes, Resume
<1>8. Control'
  <2>1. co[Head(q[run])] \in {"fn", "exiting"}
    BY <1>3 DEF OffQueue, OtherTypes
  <2>2. QED
    BY <1>3, <1>6, <2>1 DEF Control, Resume, taskVars
<1>9. QED
  BY <1>4, <1>5, <1>7, <1>8

\* The end of the inner loop touches no queue.
LEMMA RunEmptyStep ==
    ASSUME IInv, RunEmpty
    PROVE  IInv'
<1> USE DEF IInv
<1>1. QueueInv' /\ dq' = dq
  BY QueuesUnchanged DEF RunEmpty
<1>2. QED
  BY <1>1 DEF OtherTypes, OffQueue, Control, QueueInv, QueueTypes, RunEmpty, taskVars, loopVars,
     timeVars, Runner

\* Entering poll() touches no queue.
LEMMA WaitStep ==
    ASSUME IInv, Wait
    PROVE  IInv'
<1> USE DEF IInv
<1>1. QueueInv' /\ dq' = dq
  BY QueuesUnchanged DEF Wait
<1>2. deadline' \in Int
  BY ThreadAssumption DEF Wait, PollTime, OtherTypes, QueueInv, QueueTypes
<1>3. QED
  BY <1>1, <1>2 DEF OtherTypes, OffQueue, Control, QueueInv, QueueTypes, Wait, taskVars,
     loopVars, timeVars, Runner

\* Leaving the loop touches no queue.
LEMMA BreakStep ==
    ASSUME IInv, Break
    PROVE  IInv'
<1> USE DEF IInv
<1>1. QueueInv' /\ dq' = dq
  BY QueuesUnchanged DEF Break
<1>2. QED
  BY <1>1 DEF OtherTypes, OffQueue, Control, QueueInv, QueueTypes, Break, taskVars, loopVars,
     timeVars, Runner

\* poll() returns: the tasks it wakes are in no queue until they are ready.
LEMMA PollReturnStep ==
    ASSUME IInv, NEW K \in SUBSET Key, PollReturn(K)
    PROVE  IInv'
<1> USE DEF IInv
<1>1. QueueInv' /\ \A k \in K : io[k] \in Task /\ dq[io[k]] = "io"
  BY PollKeeps DEF PollReturn
<1>2. \A t \in woken' : t \in Task /\ dq[t] = "io"
  BY <1>1 DEF PollReturn
<1>3. \A t \in Task : dq'[t] = IF t \in woken' THEN "nil" ELSE dq[t]
  BY DEF PollReturn
<1>4. QED
  BY <1>1, <1>2, <1>3 DEF OtherTypes, OffQueue, Control, QueueInv, QueueTypes, PollReturn,
     taskVars, loopVars, timeVars, Runner

\* A task that tq:wait returned is made ready.
LEMMA WakeTaskStep ==
    ASSUME IInv, NEW t \in Task, WakeTask(t)
    PROVE  IInv'
<1> USE DEF IInv
<1>1. dq[t] = "nil"
  BY DEF WakeTask, OffQueue
<1>2. QueueInv'
  BY <1>1, MakeReadyKeeps DEF WakeTask, OtherTypes
<1>3. dq' = [dq EXCEPT ![t] = "queue"]
  BY DEF WakeTask, makeReady
<1>4. QED
  BY <1>1, <1>2, <1>3 DEF OtherTypes, OffQueue, Control, QueueInv, QueueTypes, WakeTask,
     taskVars, loopVars, timeVars, Runner

\* Reading the clock touches no queue.
LEMMA ReadClockStep ==
    ASSUME IInv, ReadClock
    PROVE  IInv'
<1> USE DEF IInv
<1>1. QueueInv' /\ dq' = dq
  BY QueuesUnchanged DEF ReadClock
<1>2. QED
  BY <1>1 DEF OtherTypes, OffQueue, Control, QueueInv, QueueTypes, ReadClock, taskVars,
     loopVars, timeVars, Runner

\* A due sleeper moves from the heap to the ready queue.
LEMMA WakeSleeperStep ==
    ASSUME IInv, NEW t \in Task, WakeSleeper(t)
    PROVE  IInv'
<1> USE DEF IInv
<1>1. dq[t] = "sleep"
  BY DEF WakeSleeper, FirstSleeper, QueueInv, SleepersMatch, Lists, ToSet
<1>2. QueueInv'
  BY <1>1, WakeSleeperKeeps DEF WakeSleeper, OtherTypes
<1>3. dq' = [dq EXCEPT ![t] = "queue"]
  BY DEF WakeSleeper, makeReady
<1>4. QED
  BY <1>1, <1>2, <1>3 DEF OtherTypes, OffQueue, Control, QueueInv, QueueTypes, WakeSleeper,
     taskVars, loopVars, timeVars, Runner

\* The end of the loop over sleepers touches no queue.
LEMMA NoneDueStep ==
    ASSUME IInv, NoneDue
    PROVE  IInv'
<1> USE DEF IInv
<1>1. QueueInv' /\ dq' = dq
  BY QueuesUnchanged DEF NoneDue
<1>2. QED
  BY <1>1 DEF OtherTypes, OffQueue, Control, QueueInv, QueueTypes, NoneDue, taskVars, loopVars,
     timeVars, Runner

\* An error that leaves preamble ends a coroutine that is in no queue.
LEMMA AbortStep ==
    ASSUME IInv, Abort
    PROVE  IInv'
<1> USE DEF IInv
<1>1. QueueInv' /\ dq' = dq
  BY QueuesUnchanged DEF Abort
<1>2. cur \in Task
  BY DEF Abort, OffQueue
<1>3. OtherTypes'
  BY <1>1, <1>2 DEF OtherTypes, Abort, UserRuns, taskVars, loopVars, timeVars, Runner
<1>4. OffQueue'
  BY <1>1, <1>2 DEF OffQueue, Control, OtherTypes, QueueInv, QueueTypes, Abort, UserRuns,
     taskVars, loopVars, timeVars
<1>5. Control'
  BY <1>1, <1>2 DEF OffQueue, Control, OtherTypes, Abort, UserRuns, taskVars, loopVars,
     timeVars, Runner
<1>6. QED
  BY <1>1, <1>2, <1>3, <1>4, <1>5

\* dtor deletes the first ready task.
LEMMA DtorDeleteStep ==
    ASSUME IInv, DtorDelete
    PROVE  IInv'
<1> USE DEF IInv
<1>1. Head(q[ready]) \in Task
  BY DEF DtorDelete, QueueInv, QueueTypes, OtherTypes
<1>2. QueueInv' /\ dq' = [dq EXCEPT ![Head(q[ready])] = "nil"]
  BY <1>1, DequeueKeeps DEF DtorDelete, taskDelete
<1>3. OtherTypes'
  BY <1>1, <1>2 DEF OtherTypes, DtorDelete, taskDelete, taskVars, loopVars, timeVars, Runner
<1>4. OffQueue'
  BY <1>1, <1>2, SMTT(30) DEF OffQueue, Control, OtherTypes, QueueInv, QueueTypes, DtorDelete, taskDelete,
     taskVars, loopVars, timeVars
<1>5. Control'
  BY <1>1, <1>2 DEF OffQueue, Control, OtherTypes, DtorDelete, taskDelete, taskVars, loopVars,
     timeVars, Runner
<1>6. QED
  BY <1>1, <1>2, <1>3, <1>4, <1>5

\* The end of dtor touches no queue.
LEMMA DtorEndStep ==
    ASSUME IInv, DtorEnd
    PROVE  IInv'
<1> USE DEF IInv
<1>1. QueueInv' /\ dq' = dq
  BY QueuesUnchanged DEF DtorEnd
<1>2. QED
  BY <1>1 DEF OtherTypes, OffQueue, Control, QueueInv, QueueTypes, DtorEnd, taskVars, loopVars,
     timeVars, Runner

\* The clock touches no queue.
LEMMA TickStep ==
    ASSUME IInv, Tick
    PROVE  IInv'
<1> USE DEF IInv
<1>1. QueueInv' /\ dq' = dq
  BY QueuesUnchanged DEF Tick
<1>2. QED
  BY <1>1 DEF OtherTypes, OffQueue, Control, QueueInv, QueueTypes, Tick, taskVars, loopVars,
     timeVars, Runner

\* The main task alone is in the ready queue when dispatch begins.
LEMMA InitHolds == Init => IInv
<1> SUFFICES ASSUME Init PROVE IInv
  OBVIOUS
<1>1. QueueTypes /\ OtherTypes
  BY ThreadAssumption DEF Init, QueueTypes, OtherTypes, QObj, Runner
<1>2. Lists(<<>>, {}) /\ Lists(<<MainTask>>, {MainTask}) /\ Wakes(<<>>, {})
  BY DEF Lists, Wakes, IsInjective, ToSet
<1>3. QueuesMatch
  <2>1. InQueue("A") = {MainTask} /\ InQueue("B") = {}
    BY ThreadAssumption DEF Init, InQueue
  <2>2. q["A"] = <<MainTask>> /\ q["B"] = <<>>
    BY DEF Init, QObj
  <2>3. QED
    BY <1>2, <2>1, <2>2 DEF Init, QueuesMatch, InQueue, QObj
<1>4. SleepersMatch
  <2>1. Sleeping = {}
    BY DEF Init, Sleeping
  <2>2. QED
    BY <1>2, <2>1 DEF Init, SleepersMatch, Sleeping
<1>5. JoinsMatch
  <2>1. \A t \in Task : Joining(t) = {}
    BY DEF Init, Joining
  <2>2. QED
    BY <1>2, <2>1 DEF Init, JoinsMatch, Joining
<1>6. IoMatch /\ OffQueue /\ Control
  BY ThreadAssumption DEF Init, IoMatch, WaiterRegistered, OffQueue, Control
<1>7. QED
  BY <1>1, <1>3, <1>4, <1>5, <1>6 DEF IInv, QueueInv

\* Every step of user code, of the exit loops and of the dispatch loop keeps
\* the inductive invariant.
LEMMA NextKeeps == IInv /\ [Next]_vars => IInv'
<1> SUFFICES ASSUME IInv, [Next]_vars PROVE IInv'
  OBVIOUS
<1>1. CASE UserStep
  <2>1. 1..(Cardinality(Task) + MaxAtExits) \subseteq Nat
    BY SMT
  <2>2. 0..Cardinality(Task) \subseteq Nat
    BY SMT
  <2>3. QED
    BY NewStep, KillStep, YieldStep, JoinStep, JoinReturnStep,
         SleepUntilStep, EnqueueStep, AtExitStep, CancelAtExitStep,
         ReturnStep, FailStep, CatchStep, HandlerReturnStep, <1>1, <2>1, <2>2 DEF UserStep
<1>2. CASE ExitStep
  BY <1>2, JoinWakeStep, CallHandlerStep, FinishExitsStep DEF ExitStep
<1>3. CASE LoopStep
  BY SwapQueuesStep, ResumeStep, RunEmptyStep, WaitStep, BreakStep,
       PollReturnStep, WakeTaskStep, ReadClockStep, WakeSleeperStep,
       NoneDueStep, AbortStep, DtorDeleteStep, DtorEndStep, <1>3 DEF LoopStep
<1>4. CASE Tick
  BY <1>4, TickStep
<1>5. CASE UNCHANGED vars
  <2>1. QueueInv' /\ dq' = dq
    BY <1>5, QueuesUnchanged DEF IInv, vars
  <2>2. QED
    BY <1>5, <2>1 DEF IInv, vars, taskVars, loopVars, timeVars, OtherTypes,
                      OffQueue, Control
<1>6. QED
  BY <1>1, <1>2, <1>3, <1>4, <1>5 DEF Next, Halted

\* The inductive invariant holds throughout.
THEOREM Invariance == Spec => []IInv
  BY InitHolds, NextKeeps, PTL DEF Spec

\* Every variable of the scheduler keeps its type, for any number of tasks,
\* slots and handlers.
THEOREM TypeCorrect == Spec => []TypeOK
<1>1. IInv => TypeOK
  BY TypesTogether DEF IInv, QueueInv
<1>2. QED
  BY <1>1, Invariance, PTL

\* Every task waits where its _dequeue says, once, and nowhere else, whatever
\* tasks and handlers do (thread.lua makeReady, wakeAt, join, kill, dispatch).
THEOREM SchedulesOnce == Spec => []ScheduledOnce
<1>1. IInv => ScheduledOnce
  BY DEF IInv, QueueInv, ScheduledOnce
<1>2. QED
  BY <1>1, Invariance, PTL

-----------------------------------------------------------------------------
(* What thread.kill, the exit entries and the end of dispatch promise, on  *)
(* top of IInv: the inductive invariants.                                  *)

\* A killed task is in no queue, about to be put in none and not running.
KillInv ==
    /\ \A t \in Task : co[t] = "absent" => results[t] = "nil"
    /\ \A t \in Task : results[t] = "killed" =>
          dq[t] = "nil" /\ t \notin woken /\ ~(pc = "task" /\ cur = t)

\* Whose exit entries are being run has results, a coroutine past its start
\* function is running its own ones first of all, and what has been run is gone.
StacksRun ==
    /\ pc # "dtor"
    /\ \A t \in Task : co[t] = "exiting" => stack[t] # <<>> /\ stack[t][1] = t
    /\ \A t \in Task : results[t] \in {"values", "error"} => co[t] \in {"exiting", "dead"}
    /\ \A r \in Runner : \A i \in DOMAIN stack[r] : results[stack[r][i]] # "nil"

ExitsRan ==
    \A t \in Task :
        results[t] # "nil" /\ (\A r \in Runner : \A i \in DOMAIN stack[r] : stack[r][i] # t)
        => atExits[t] = <<>> /\ t \notin all

\* A join that was entered waits, or was killed, or its task has results.
JoinsPending ==
    \A j \in Task : joining[j] # None =>
        \/ results[joining[j]] # "nil"
        \/ dq[j] = "join" /\ dqTask[j] = joining[j]
        \/ results[j] = "killed"

ExitInv == StacksRun /\ ExitsRan /\ JoinsPending

\* Only the running coroutine runs exit entries; me.all has every task without
\* results, and such a task is running or somewhere it can be resumed from.
AllTracked ==
    /\ \A r \in Runner : stack[r] # <<>> => pc = "task" /\ r = cur
    /\ all \subseteq Created
    /\ \A t \in Created : results[t] = "nil" => t \in all
    /\ \A t \in Task : co[t] \in {"exiting", "dead"} => results[t] # "nil"
    /\ \A j \in Task : dq[j] = "join" => dqTask[j] \in Created

NobodyLost ==
    \A t \in Task : co[t] = "fn" /\ results[t] = "nil" =>
        dq[t] # "nil" \/ (pc = "task" /\ cur = t) \/ t \in woken

LoopEnds ==
    /\ pc \in {"wait", "done"} => q[run] = <<>>
    /\ pc = "done" => q[ready] = <<>> /\ sleepers = <<>> /\ \A k \in Key : io[k] = None

StuckInv == AllTracked /\ NobodyLost /\ LoopEnds

\* The reading of the clock that sleepers are compared with is in the past.
ClockRead == tNow <= now

-----------------------------------------------------------------------------
(* The effect of the building blocks on what the invariants read.          *)

\* task:_dequeue() of task t disturbs no other task's wait.
LEMMA DequeueEffect ==
    ASSUME QueueInv, NEW t \in Task, dequeue(t)
    PROVE  /\ QueueInv'
           /\ dq' = [dq EXCEPT ![t] = "nil"]
           /\ \A u \in Task : dqTask'[u] = dqTask[u] \/ u = t
           /\ \A u \in Task : atExits[u] = <<>> => atExits'[u] = <<>>
<1>1. QueueInv' /\ dq' = [dq EXCEPT ![t] = "nil"]
  BY DequeueKeeps
<1>2. \A u \in Task : dqTask'[u] = dqTask[u] \/ u = t
  BY DEF dequeue, dqQueue, dqSleeper, joinDequeue, xpqueue_dequeue, queueVars,
         QueueInv, QueueTypes
<1>3. CASE joinDequeue(t)
  <2>1. dqTask[t] \in Task /\ atExits' = [atExits EXCEPT ![dqTask[t]] = RemoveFirst(@, JoinEntry(t))]
    BY <1>3 DEF joinDequeue, QueueInv, JoinsMatch
  <2>2. atExits[dqTask[t]] # <<>>
    <3>1. \E i \in DOMAIN atExits[dqTask[t]] : atExits[dqTask[t]][i] = JoinEntry(t)
      BY <1>3, <2>1 DEF joinDequeue, QueueInv, JoinsMatch, Wakes
    <3>2. QED
      BY <3>1
  <2>3. QED
    BY <1>1, <1>2, <2>1, <2>2 DEF QueueInv, QueueTypes
<1>4. CASE ~joinDequeue(t)
  <2>1. atExits' = atExits
    BY <1>4 DEF dequeue, dqQueue, dqSleeper, xpqueue_dequeue, queueVars
  <2>2. QED
    BY <1>1, <1>2, <2>1
<1>5. QED
  BY <1>3, <1>4

\* The joiner that a joinWake entry makes ready was waiting for the task whose
\* entries are being run.
LEMMA JoinWakeEffect ==
    ASSUME IInv, NEW r \in Runner, JoinWake(r)
    PROVE  LET t == Last(stack[r])
               j == Last(atExits[t]).arg
           IN  /\ t \in Task /\ j \in Task
               /\ dq[j] = "join" /\ dqTask[j] = t
               /\ dq' = [dq EXCEPT ![j] = "queue"]
               /\ dqTask' = [dqTask EXCEPT ![j] = None]
               /\ atExits' = [atExits EXCEPT ![t] = Front(@)]
<1> SUFFICES ASSUME NEW t, t = Last(stack[r]), NEW j, j = Last(atExits[t]).arg
             PROVE  /\ t \in Task /\ j \in Task
                    /\ dq[j] = "join" /\ dqTask[j] = t
                    /\ dq' = [dq EXCEPT ![j] = "queue"]
                    /\ dqTask' = [dqTask EXCEPT ![j] = None]
                    /\ atExits' = [atExits EXCEPT ![t] = Front(@)]
  OBVIOUS
<1>1. t \in Task
  BY FrontProperties DEF JoinWake, ExitsRun, IInv, Control, OtherTypes
<1>2. /\ Wakes(atExits[t], Joining(t)) /\ Joining(t) \in SUBSET Task
      /\ atExits[t] \in Seq(Entry) /\ atExits[t] # <<>>
  BY <1>1 DEF IInv, QueueInv, QueueTypes, JoinsMatch, Joining, JoinWake
<1>3. j \in Task /\ Last(atExits[t]) = JoinEntry(j)
  <2>1. \/ Last(atExits[t]) = UserEntry
        \/ \E u \in Task : Last(atExits[t]) = JoinEntry(u)
    BY <1>2, WakesFront
  <2>2. Last(atExits[t]).fn = "joinWake"
    BY DEF JoinWake
  <2>3. PICK u \in Task : Last(atExits[t]) = JoinEntry(u)
    BY <2>1, <2>2 DEF UserEntry
  <2>4. u = Last(atExits[t]).arg
    BY <2>3 DEF JoinEntry
  <2>5. QED
    BY <2>3, <2>4
<1>4. j \in Joining(t)
  BY <1>2, <1>3, WakesFront
<1>5. QED
  BY <1>1, <1>3, <1>4 DEF JoinWake, makeReady, PopEntry, Joining

\* The task that is resumed was in the run queue, and waits nowhere now.
LEMMA ResumeEffect ==
    ASSUME IInv, Resume
    PROVE  /\ cur' \in Task /\ dq[cur'] = "queue"
           /\ dq' = [dq EXCEPT ![cur'] = "nil"]
           /\ \A u \in Task : dqTask'[u] = dqTask[u] \/ u = cur'
           /\ \A u \in Task : atExits[u] = <<>> => atExits'[u] = <<>>
<1>1. run \in QObj
  BY DEF run, QObj, IInv, OtherTypes
<1>2. cur' = Head(q[run]) /\ cur' \in Task /\ dq[cur'] = "queue" /\ dequeue(Head(q[run]))
  BY <1>1, ListsHead DEF Resume, IInv, QueueInv, QueueTypes, QueuesMatch
<1>3. QED
  BY <1>2, DequeueEffect DEF IInv

\* The task whose exit entries a coroutine is running.
LEMMA TopOfStack ==
    ASSUME IInv, NEW r \in Runner, ExitsRun(r)
    PROVE  /\ stack[r] \in Seq(Task) /\ stack[r] # <<>>
           /\ Last(stack[r]) \in Task
           /\ Len(stack[r]) \in DOMAIN stack[r]
           /\ stack[r][Len(stack[r])] = Last(stack[r])
<1>1. stack[r] \in Seq(Task) /\ stack[r] # <<>>
  BY DEF ExitsRun, IInv, Control, OtherTypes
<1>2. QED
  BY <1>1, FrontProperties

\* Only kill makes a task killed, and nothing puts one that is killed in a
\* queue again, provided no task kills itself.
LEMMA KillInvKept ==
    ASSUME IInv, KillInv, ~SelfKill, [Next]_vars
    PROVE  KillInv'
<1>1. ASSUME NEW r \in Runner, NEW t \in Task, New(r, t)
      PROVE  KillInv'
  BY <1>1 DEF KillInv, IInv, QueueInv, QueueTypes, OtherTypes, New,
     makeReady, loopVars
<1>2. ASSUME NEW r \in Runner, NEW t \in Task, Kill(r, t)
      PROVE  KillInv'
  <2>1. dq' = [dq EXCEPT ![t] = "nil"]
    BY <1>2, DequeueEffect DEF Kill, taskDelete, IInv
  <2>2. t \notin woken /\ ~(pc = "task" /\ cur = t)
    BY <1>2 DEF Kill, UserRuns, Active, IInv, Control
  <2>3. QED
    BY <1>2, <2>1, <2>2 DEF KillInv, IInv, QueueInv, QueueTypes, OtherTypes,
       Kill, loopVars, Created
<1>3. CASE Yield
  BY <1>3 DEF KillInv, IInv, QueueInv, QueueTypes, Yield, MayBlock,
     makeReady, Suspend, taskVars
<1>4. ASSUME NEW t \in Task, Join(t)
      PROVE  KillInv'
  BY <1>4 DEF KillInv, IInv, QueueInv, QueueTypes, Join, MayBlock, Suspend,
     taskVars
<1>5. CASE JoinReturn
  BY <1>5 DEF KillInv, JoinReturn, taskVars, queueVars, loopVars, timeVars
<1>6. ASSUME NEW due \in 0..MaxNow, SleepUntil(due)
      PROVE  KillInv'
  BY <1>6 DEF KillInv, IInv, QueueInv, QueueTypes, SleepUntil, MayBlock,
     wakeAt, Suspend, taskVars
<1>7. ASSUME NEW k \in Key, xpqueue_enqueue(k)
      PROVE  KillInv'
  BY <1>7 DEF KillInv, IInv, QueueInv, QueueTypes, xpqueue_enqueue,
     MayBlock, Suspend, taskVars
<1>8. CASE AtExit
  BY <1>8 DEF KillInv, AtExit, taskVars, queueVars, loopVars, timeVars
<1>9. ASSUME NEW i \in 1..(Cardinality(Task) + MaxAtExits), CancelAtExit(i)
      PROVE  KillInv'
  BY <1>9 DEF KillInv, CancelAtExit, taskVars, queueVars, loopVars, timeVars
<1>10. CASE Return
  <2>1. cur \in Task
    BY <1>10 DEF Return, IInv, OffQueue
  <2>2. dq' = [dq EXCEPT ![cur] = "nil"]
    BY <1>10, <2>1, DequeueEffect DEF Return, taskDelete, IInv
  <2>3. QED
    BY <1>10, <2>1, <2>2 DEF KillInv, IInv, QueueInv, QueueTypes,
       OtherTypes, Control, Return, taskVars, loopVars
<1>11. CASE Fail
  <2>1. cur \in Task
    BY <1>11 DEF Fail, IInv, OffQueue
  <2>2. dq' = [dq EXCEPT ![cur] = "nil"]
    BY <1>11, <2>1, DequeueEffect DEF Fail, taskDelete, IInv
  <2>3. QED
    BY <1>11, <2>1, <2>2 DEF KillInv, IInv, QueueInv, QueueTypes,
       OtherTypes, Control, Fail, taskVars, loopVars
<1>12. ASSUME NEW r \in Runner, NEW n \in 0..Cardinality(Task), Catch(r, n)
       PROVE  KillInv'
  BY <1>12 DEF KillInv, Catch, taskVars, queueVars, loopVars, timeVars
<1>13. ASSUME NEW r \in Runner, HandlerReturn(r)
       PROVE  KillInv'
  BY <1>13 DEF KillInv, HandlerReturn, taskVars, queueVars, loopVars,
     timeVars
<1>14. ASSUME NEW r \in Runner, JoinWake(r)
       PROVE  KillInv'
  <2>1. PICK j \in Task : dq[j] = "join" /\ dq' = [dq EXCEPT ![j] = "queue"]
    BY <1>14, JoinWakeEffect
  <2>2. QED
    BY <1>14, <2>1 DEF KillInv, IInv, QueueInv, QueueTypes, JoinWake,
       taskVars, loopVars
<1>15. ASSUME NEW r \in Runner, CallHandler(r)
       PROVE  KillInv'
  BY <1>15 DEF KillInv, CallHandler, taskVars, queueVars, loopVars, timeVars
<1>16. ASSUME NEW r \in Runner, FinishExits(r)
       PROVE  KillInv'
  BY <1>16 DEF KillInv, IInv, OtherTypes, FinishExits, queueVars, loopVars
<1>17. CASE SwapQueues
  BY <1>17 DEF KillInv, SwapQueues, taskVars, queueVars, loopVars, timeVars
<1>18. CASE Resume
  BY <1>18, ResumeEffect DEF KillInv, IInv, QueueInv, QueueTypes, Resume,
     taskVars
<1>19. CASE RunEmpty
  BY <1>19 DEF KillInv, RunEmpty, taskVars, queueVars, loopVars, timeVars
<1>20. CASE Wait
  BY <1>20 DEF KillInv, Wait, taskVars, queueVars, loopVars, timeVars
<1>21. CASE Break
  BY <1>21 DEF KillInv, Break, taskVars, queueVars, loopVars, timeVars
<1>22. ASSUME NEW K \in SUBSET Key, PollReturn(K)
       PROVE  KillInv'
  <2>1. \A t \in woken' : t \in Task /\ dq[t] = "io"
    BY <1>22, PollKeeps DEF PollReturn, IInv
  <2>2. QED
    BY <1>22, <2>1 DEF KillInv, PollReturn, taskVars
<1>23. ASSUME NEW t \in Task, WakeTask(t)
       PROVE  KillInv'
  BY <1>23 DEF KillInv, IInv, QueueInv, QueueTypes, WakeTask, makeReady,
     taskVars
<1>24. ASSUME NEW t \in Task, WakeSleeper(t)
       PROVE  KillInv'
  <2>1. dq[t] = "sleep"
    BY <1>24 DEF WakeSleeper, FirstSleeper, IInv, QueueInv, SleepersMatch,
       Lists, ToSet
  <2>2. QED
    BY <1>24, <2>1 DEF KillInv, IInv, QueueInv, QueueTypes, WakeSleeper,
       makeReady, taskVars, loopVars
<1>25. CASE ReadClock
  BY <1>25 DEF KillInv, ReadClock, taskVars, queueVars, loopVars, timeVars
<1>26. CASE NoneDue
  BY <1>26 DEF KillInv, NoneDue, taskVars, queueVars, loopVars, timeVars
<1>27. CASE Abort
  BY <1>27 DEF KillInv, IInv, OtherTypes, Abort, queueVars, loopVars
<1>28. CASE DtorDelete
  <2>1. Head(q[ready]) \in Task
    BY <1>28 DEF DtorDelete, IInv, QueueInv, QueueTypes, OtherTypes
  <2>2. dq' = [dq EXCEPT ![Head(q[ready])] = "nil"]
    BY <1>28, <2>1, DequeueEffect DEF DtorDelete, taskDelete, IInv
  <2>3. QED
    BY <1>28, <2>1, <2>2 DEF KillInv, IInv, QueueInv, QueueTypes,
       OtherTypes, Control, DtorDelete, taskVars, loopVars
<1>29. CASE DtorEnd
  BY <1>29 DEF KillInv, DtorEnd, taskVars, queueVars, loopVars, timeVars
<1>30. CASE Tick
  BY <1>30 DEF KillInv, Tick, taskVars, queueVars, loopVars, timeVars
<1>31. CASE UNCHANGED vars
  BY <1>31 DEF KillInv, vars, taskVars, queueVars, loopVars
<1>32. QED
  <2>1. CASE UserStep
    BY <2>1, <1>1, <1>2, <1>3, <1>4, <1>5, <1>6, <1>7, <1>8, <1>9, <1>10,
       <1>11, <1>12, <1>13 DEF UserStep
  <2>2. CASE ExitStep
    BY <2>2, <1>14, <1>15, <1>16 DEF ExitStep
  <2>3. CASE LoopStep
    BY <2>3, <1>17, <1>18, <1>19, <1>20, <1>21, <1>22, <1>23, <1>24, <1>25,
       <1>26, <1>27, <1>28, <1>29 DEF LoopStep
  <2>4. QED
    BY <2>1, <2>2, <2>3, <1>30, <1>31 DEF Next, Halted

\* Handlers that do not raise leave the nesting of exit loops intact.
LEMMA StacksKept ==
    ASSUME IInv, StacksRun, ~RaiseInHandler, [Next]_vars
    PROVE  StacksRun'
<1>1. ASSUME NEW r \in Runner, NEW t \in Task, New(r, t)
      PROVE  StacksRun'
  BY <1>1 DEF StacksRun, IInv, OtherTypes, New, loopVars
<1>2. ASSUME NEW r \in Runner, NEW t \in Task, Kill(r, t)
      PROVE  StacksRun'
  <2>1. Append(stack[r], t) \in Seq(Task) /\ Append(stack[r], t) # <<>>
    BY AppendProperties DEF IInv, OtherTypes
  <2>2. \A i \in DOMAIN Append(stack[r], t) :
           (i \in DOMAIN stack[r] /\ Append(stack[r], t)[i] = stack[r][i]) \/ Append(stack[r], t)[i] = t
    BY DEF IInv, OtherTypes
  <2>3. stack[r] # <<>> => Append(stack[r], t)[1] = stack[r][1]
    BY DEF IInv, OtherTypes
  <2>4. /\ stack' = [stack EXCEPT ![r] = Append(stack[r], t)]
        /\ results' = [results EXCEPT ![t] = "killed"]
        /\ UNCHANGED <<pc, co>> /\ results[t] = "nil"
    BY <1>2 DEF Kill, taskDelete, loopVars
  <2>5. QED
    BY <2>1, <2>2, <2>3, <2>4 DEF StacksRun, IInv, OtherTypes, Runner
<1>3. CASE Yield
  BY <1>3 DEF StacksRun, Yield, Suspend, taskVars
<1>4. ASSUME NEW t \in Task, Join(t)
      PROVE  StacksRun'
  BY <1>4 DEF StacksRun, Join, Suspend, taskVars
<1>5. CASE JoinReturn
  BY <1>5 DEF StacksRun, JoinReturn, taskVars, loopVars
<1>6. ASSUME NEW due \in 0..MaxNow, SleepUntil(due)
      PROVE  StacksRun'
  BY <1>6 DEF StacksRun, SleepUntil, Suspend, taskVars
<1>7. ASSUME NEW k \in Key, xpqueue_enqueue(k)
      PROVE  StacksRun'
  BY <1>7 DEF StacksRun, xpqueue_enqueue, Suspend, taskVars
<1>8. CASE AtExit
  BY <1>8 DEF StacksRun, AtExit, taskVars, loopVars
<1>9. ASSUME NEW i \in 1..(Cardinality(Task) + MaxAtExits), CancelAtExit(i)
      PROVE  StacksRun'
  BY <1>9 DEF StacksRun, CancelAtExit, taskVars, loopVars
<1>10. CASE Return
  <2>1. cur \in Task /\ stack[cur] = <<>>
    BY <1>10 DEF Return, InHandler, IInv, OffQueue
  <2>2. /\ stack' = [stack EXCEPT ![cur] = <<cur>>]
        /\ co' = [co EXCEPT ![cur] = "exiting"]
        /\ results' = [results EXCEPT ![cur] = "values"]
        /\ pc' = pc
    BY <1>10, <2>1 DEF Return, taskDelete, loopVars
  <2>3. QED
    BY <2>1, <2>2 DEF StacksRun, IInv, OtherTypes, Runner
<1>11. CASE Fail
  <2>1. cur \in Task
    BY <1>11 DEF Fail, IInv, OffQueue
  <2>2. /\ stack' = [stack EXCEPT ![cur] = <<cur>>]
        /\ co' = [co EXCEPT ![cur] = "exiting"]
        /\ results' = [results EXCEPT ![cur] = "error"]
        /\ pc' = pc
    BY <1>11 DEF Fail, loopVars
  <2>3. QED
    BY <2>1, <2>2 DEF StacksRun, IInv, OtherTypes, Runner
<1>12. ASSUME NEW r \in Runner, NEW n \in 0..Cardinality(Task), Catch(r, n)
       PROVE  StacksRun'
  BY <1>12 DEF Catch
<1>13. ASSUME NEW r \in Runner, HandlerReturn(r)
       PROVE  StacksRun'
  BY <1>13 DEF StacksRun, HandlerReturn, taskVars, loopVars
<1>14. ASSUME NEW r \in Runner, JoinWake(r)
       PROVE  StacksRun'
  BY <1>14 DEF StacksRun, JoinWake, taskVars, loopVars
<1>15. ASSUME NEW r \in Runner, CallHandler(r)
       PROVE  StacksRun'
  BY <1>15 DEF StacksRun, CallHandler, taskVars, loopVars
<1>16. ASSUME NEW r \in Runner, FinishExits(r)
       PROVE  StacksRun'
  <2>1. stack[r] \in Seq(Task) /\ stack[r] # <<>>
    BY <1>16, TopOfStack DEF FinishExits
  <2>2. /\ Front(stack[r]) \in Seq(Task)
        /\ \A i \in DOMAIN Front(stack[r]) : i \in DOMAIN stack[r] /\ Front(stack[r])[i] = stack[r][i]
        /\ Front(stack[r]) # <<>> => Front(stack[r])[1] = stack[r][1]
    BY <2>1, FrontProperties
  <2>3. /\ stack' = [stack EXCEPT ![r] = Front(stack[r])]
        /\ results' = results
        /\ pc' \in {pc, "run"}
        /\ \/ co' = co /\ (Front(stack[r]) = <<>> => r \notin Task \/ co[r] # "exiting")
           \/ r \in Task /\ co' = [co EXCEPT ![r] = "dead"]
    BY <1>16 DEF FinishExits
  <2>4. ASSUME NEW t \in Task, co'[t] = "exiting"
        PROVE  stack'[t] # <<>> /\ stack'[t][1] = t
    <3>1. co[t] = "exiting" /\ (t = r => Front(stack[r]) # <<>>)
      BY <2>3, <2>4 DEF IInv, OtherTypes
    <3>2. stack'[t] = IF t = r THEN Front(stack[r]) ELSE stack[t]
      BY <2>3 DEF IInv, OtherTypes, Runner
    <3>3. QED
      BY <2>2, <3>1, <3>2 DEF StacksRun
  <2>5. ASSUME NEW x \in Runner, NEW i \in DOMAIN stack'[x]
        PROVE  results'[stack'[x][i]] # "nil"
    <3>1. stack'[x] = IF x = r THEN Front(stack[r]) ELSE stack[x]
      BY <2>3 DEF IInv, OtherTypes
    <3>2. i \in DOMAIN stack[x] /\ stack'[x][i] = stack[x][i]
      BY <2>2, <2>5, <3>1
    <3>3. QED
      BY <2>3, <3>2 DEF StacksRun
  <2>6. \A t \in Task : results'[t] \in {"values", "error"} => co'[t] \in {"exiting", "dead"}
    BY <2>3 DEF StacksRun, IInv, OtherTypes
  <2>7. QED
    BY <2>3, <2>4, <2>5, <2>6 DEF StacksRun
<1>17. CASE SwapQueues
  BY <1>17 DEF StacksRun, SwapQueues, taskVars, loopVars
<1>18. CASE Resume
  BY <1>18 DEF StacksRun, Resume, taskVars, loopVars
<1>19. CASE RunEmpty
  BY <1>19 DEF StacksRun, RunEmpty, taskVars, loopVars
<1>20. CASE Wait
  BY <1>20 DEF StacksRun, Wait, taskVars, loopVars
<1>21. CASE Break
  BY <1>21 DEF StacksRun, Break, taskVars, loopVars
<1>22. ASSUME NEW K \in SUBSET Key, PollReturn(K)
       PROVE  StacksRun'
  BY <1>22 DEF StacksRun, PollReturn, taskVars
<1>23. ASSUME NEW t \in Task, WakeTask(t)
       PROVE  StacksRun'
  BY <1>23 DEF StacksRun, WakeTask, taskVars, loopVars
<1>24. ASSUME NEW t \in Task, WakeSleeper(t)
       PROVE  StacksRun'
  BY <1>24 DEF StacksRun, WakeSleeper, taskVars, loopVars
<1>25. CASE ReadClock
  BY <1>25 DEF StacksRun, ReadClock, taskVars, loopVars
<1>26. CASE NoneDue
  BY <1>26 DEF StacksRun, NoneDue, taskVars, loopVars
<1>27. CASE Abort
  BY <1>27 DEF Abort
<1>28. CASE DtorDelete
  BY <1>28 DEF DtorDelete, StacksRun
<1>29. CASE DtorEnd
  BY <1>29 DEF DtorEnd, StacksRun
<1>30. CASE Tick
  BY <1>30 DEF StacksRun, Tick, taskVars, loopVars
<1>31. CASE UNCHANGED vars
  BY <1>31 DEF StacksRun, vars, taskVars, loopVars
<1>32. QED
  <2>1. CASE UserStep
    BY <2>1, <1>1, <1>2, <1>3, <1>4, <1>5, <1>6, <1>7, <1>8, <1>9, <1>10,
       <1>11, <1>12, <1>13 DEF UserStep
  <2>2. CASE ExitStep
    BY <2>2, <1>14, <1>15, <1>16 DEF ExitStep
  <2>3. CASE LoopStep
    BY <2>3, <1>17, <1>18, <1>19, <1>20, <1>21, <1>22, <1>23, <1>24, <1>25,
       <1>26, <1>27, <1>28, <1>29 DEF LoopStep
  <2>4. QED
    BY <2>1, <2>2, <2>3, <1>30, <1>31 DEF Next, Halted

\* Code that runs in a task with results is run by that task's own exit loop.
LEMMA RunningExits ==
    ASSUME IInv, KillInv, StacksRun, pc = "task", results[cur] # "nil"
    PROVE  \E i \in DOMAIN stack[cur] : stack[cur][i] = cur
<1>1. cur \in Task /\ results[cur] \in {"values", "error"}
  BY DEF IInv, OffQueue, OtherTypes, KillInv
<1>2. co[cur] = "exiting"
  BY <1>1 DEF IInv, Control, StacksRun
<1>3. stack[cur] \in Seq(Task) /\ stack[cur] # <<>> /\ stack[cur][1] = cur
  BY <1>1, <1>2 DEF IInv, OtherTypes, Runner, StacksRun
<1>4. QED
  BY <1>3

\* taskDelete leaves its loop only when no entry is left, and nobody adds one
\* to a task whose loop has ended.
LEMMA ExitsRanKept ==
    ASSUME IInv, KillInv, StacksRun, ExitsRan, ~RaiseInHandler, [Next]_vars
    PROVE  ExitsRan'
<1>1. ASSUME NEW r \in Runner, NEW t \in Task, New(r, t)
      PROVE  ExitsRan'
  BY <1>1 DEF ExitsRan, KillInv, New
<1>2. ASSUME NEW r \in Runner, NEW t \in Task, Kill(r, t)
      PROVE  ExitsRan'
  <2>1. \A u \in Task : atExits[u] = <<>> => atExits'[u] = <<>>
    BY <1>2, DequeueEffect DEF Kill, taskDelete, IInv
  <2>2. /\ stack' = [stack EXCEPT ![r] = Append(stack[r], t)]
        /\ results' = [results EXCEPT ![t] = "killed"] /\ all' = all
    BY <1>2 DEF Kill, taskDelete
  <2>3. ASSUME NEW u \in Task, \A x \in Runner : \A i \in DOMAIN stack'[x] : stack'[x][i] # u
        PROVE  u # t /\ \A x \in Runner : \A i \in DOMAIN stack[x] : stack[x][i] # u
    <3>1. /\ \A i \in DOMAIN stack[r] : i \in DOMAIN Append(stack[r], t) /\ Append(stack[r], t)[i] = stack[r][i]
          /\ Len(stack[r]) + 1 \in DOMAIN Append(stack[r], t) /\ Append(stack[r], t)[Len(stack[r]) + 1] = t
      BY DEF IInv, OtherTypes
    <3>2. \A x \in Runner : stack'[x] = IF x = r THEN Append(stack[r], t) ELSE stack[x]
      BY <2>2 DEF IInv, OtherTypes
    <3>3. QED
      BY <2>3, <3>1, <3>2
  <2>4. QED
    BY <2>1, <2>2, <2>3 DEF ExitsRan, IInv, OtherTypes
<1>3. CASE Yield
  BY <1>3 DEF ExitsRan, Yield, taskVars, queueVars
<1>4. ASSUME NEW t \in Task, Join(t)
      PROVE  ExitsRan'
  BY <1>4 DEF ExitsRan, IInv, QueueInv, QueueTypes, Join
<1>5. CASE JoinReturn
  BY <1>5 DEF ExitsRan, JoinReturn, taskVars, queueVars
<1>6. ASSUME NEW due \in 0..MaxNow, SleepUntil(due)
      PROVE  ExitsRan'
  BY <1>6 DEF ExitsRan, SleepUntil, taskVars, queueVars
<1>7. ASSUME NEW k \in Key, xpqueue_enqueue(k)
      PROVE  ExitsRan'
  BY <1>7 DEF ExitsRan, xpqueue_enqueue, taskVars, queueVars
<1>8. CASE AtExit
  <2>1. cur \in Task
    BY <1>8 DEF AtExit, IInv, OffQueue
  <2>2. results[cur] # "nil" => \E i \in DOMAIN stack[cur] : stack[cur][i] = cur
    BY <1>8, <2>1, RunningExits DEF AtExit
  <2>3. \A u \in Task \ {cur} : atExits'[u] = atExits[u]
    BY <1>8, <2>1 DEF AtExit, IInv, QueueInv, QueueTypes
  <2>4. QED
    BY <1>8, <2>1, <2>2, <2>3 DEF ExitsRan, AtExit, taskVars, Runner
<1>9. ASSUME NEW i \in 1..(Cardinality(Task) + MaxAtExits), CancelAtExit(i)
      PROVE  ExitsRan'
  <2>1. cur \in Task
    BY <1>9 DEF CancelAtExit, IInv, OffQueue
  <2>2. results[cur] # "nil" => \E j \in DOMAIN stack[cur] : stack[cur][j] = cur
    BY <1>9, <2>1, RunningExits DEF CancelAtExit
  <2>3. \A u \in Task \ {cur} : atExits'[u] = atExits[u]
    BY <1>9, <2>1 DEF CancelAtExit, IInv, QueueInv, QueueTypes
  <2>4. QED
    BY <1>9, <2>1, <2>2, <2>3 DEF ExitsRan, CancelAtExit, taskVars, Runner
<1>10. CASE Return
  <2>1. cur \in Task /\ stack[cur] = <<>>
    BY <1>10 DEF Return, InHandler, IInv, OffQueue
  <2>2. \A u \in Task : atExits[u] = <<>> => atExits'[u] = <<>>
    BY <1>10, <2>1, DequeueEffect DEF Return, taskDelete, IInv
  <2>3. /\ stack' = [stack EXCEPT ![cur] = <<cur>>] /\ all' \subseteq all
        /\ results' = [results EXCEPT ![cur] = "values"]
    BY <1>10, <2>1 DEF Return, taskDelete
  <2>4. ASSUME NEW u \in Task, \A x \in Runner : \A i \in DOMAIN stack'[x] : stack'[x][i] # u
        PROVE  u # cur /\ \A x \in Runner : \A i \in DOMAIN stack[x] : stack[x][i] # u
    <3>1. \A x \in Runner : stack'[x] = IF x = cur THEN <<cur>> ELSE stack[x]
      BY <2>3 DEF IInv, OtherTypes
    <3>2. cur \in Runner /\ 1 \in DOMAIN <<cur>> /\ <<cur>>[1] = cur
      BY <2>1 DEF Runner
    <3>3. QED
      BY <2>1, <2>4, <3>1, <3>2
  <2>5. QED
    BY <2>2, <2>3, <2>4 DEF ExitsRan, IInv, OtherTypes
<1>11. CASE Fail
  <2>1. cur \in Task /\ stack[cur] = <<>>
    BY <1>11 DEF Fail, InHandler, IInv, OffQueue
  <2>2. \A u \in Task : atExits[u] = <<>> => atExits'[u] = <<>>
    BY <1>11, <2>1, DequeueEffect DEF Fail, taskDelete, IInv
  <2>3. /\ stack' = [stack EXCEPT ![cur] = <<cur>>] /\ all' \subseteq all
        /\ results' = [results EXCEPT ![cur] = "error"]
    BY <1>11, <2>1 DEF Fail, taskDelete
  <2>4. ASSUME NEW u \in Task, \A x \in Runner : \A i \in DOMAIN stack'[x] : stack'[x][i] # u
        PROVE  u # cur /\ \A x \in Runner : \A i \in DOMAIN stack[x] : stack[x][i] # u
    <3>1. \A x \in Runner : stack'[x] = IF x = cur THEN <<cur>> ELSE stack[x]
      BY <2>3 DEF IInv, OtherTypes
    <3>2. cur \in Runner /\ 1 \in DOMAIN <<cur>> /\ <<cur>>[1] = cur
      BY <2>1 DEF Runner
    <3>3. QED
      BY <2>1, <2>4, <3>1, <3>2
  <2>5. QED
    BY <2>2, <2>3, <2>4 DEF ExitsRan, IInv, OtherTypes
<1>12. ASSUME NEW r \in Runner, NEW n \in 0..Cardinality(Task), Catch(r, n)
       PROVE  ExitsRan'
  BY <1>12 DEF Catch
<1>13. ASSUME NEW r \in Runner, HandlerReturn(r)
       PROVE  ExitsRan'
  BY <1>13 DEF ExitsRan, HandlerReturn, taskVars, queueVars
<1>14. ASSUME NEW r \in Runner, JoinWake(r)
       PROVE  ExitsRan'
  <2>1. /\ Last(stack[r]) \in Task
        /\ Len(stack[r]) \in DOMAIN stack[r] /\ stack[r][Len(stack[r])] = Last(stack[r])
    BY <1>14, TopOfStack DEF JoinWake
  <2>2. \A u \in Task \ {Last(stack[r])} : atExits'[u] = atExits[u]
    BY <1>14, <2>1 DEF JoinWake, PopEntry, IInv, QueueInv, QueueTypes
  <2>3. UNCHANGED <<results, all, stack>>
    BY <1>14 DEF JoinWake, taskVars
  <2>4. QED
    BY <2>1, <2>2, <2>3 DEF ExitsRan
<1>15. ASSUME NEW r \in Runner, CallHandler(r)
       PROVE  ExitsRan'
  <2>1. /\ Last(stack[r]) \in Task
        /\ Len(stack[r]) \in DOMAIN stack[r] /\ stack[r][Len(stack[r])] = Last(stack[r])
    BY <1>15, TopOfStack DEF CallHandler
  <2>2. \A u \in Task \ {Last(stack[r])} : atExits'[u] = atExits[u]
    BY <1>15, <2>1 DEF CallHandler, PopEntry, IInv, QueueInv, QueueTypes
  <2>3. UNCHANGED <<results, all, stack>>
    BY <1>15 DEF CallHandler, taskVars
  <2>4. QED
    BY <2>1, <2>2, <2>3 DEF ExitsRan
<1>16. ASSUME NEW r \in Runner, FinishExits(r)
       PROVE  ExitsRan'
  <2> DEFINE s == stack[r]
  <2>1. s \in Seq(Task) /\ s # <<>>
    BY <1>16, TopOfStack DEF FinishExits
  <2>2. /\ Last(s) = s[Len(s)] /\ Front(s) \in Seq(Task)
        /\ \A i \in DOMAIN s : i = Len(s) \/ (i \in DOMAIN Front(s) /\ Front(s)[i] = s[i])
    BY <2>1, FrontProperties
  <2>3. /\ stack' = [stack EXCEPT ![r] = Front(s)]
        /\ all' = all \ {Last(s)}
        /\ atExits[Last(s)] = <<>>
        /\ UNCHANGED <<results, atExits>>
    BY <1>16 DEF FinishExits, queueVars
  <2>4. ASSUME NEW u \in Task, u # Last(s),
               \A x \in Runner : \A i \in DOMAIN stack'[x] : stack'[x][i] # u
        PROVE  \A x \in Runner : \A i \in DOMAIN stack[x] : stack[x][i] # u
    <3>1. \A x \in Runner : stack'[x] = IF x = r THEN Front(s) ELSE stack[x]
      BY <2>3 DEF IInv, OtherTypes
    <3>2. QED
      BY <2>2, <2>4, <3>1
  <2>5. QED
    BY <2>3, <2>4 DEF ExitsRan
<1>17. CASE SwapQueues
  BY <1>17 DEF ExitsRan, SwapQueues, taskVars, queueVars
<1>18. CASE Resume
  <2>1. \A u \in Task : atExits[u] = <<>> => atExits'[u] = <<>>
    BY <1>18, ResumeEffect
  <2>2. QED
    BY <1>18, <2>1 DEF ExitsRan, Resume, taskVars
<1>19. CASE RunEmpty
  BY <1>19 DEF ExitsRan, RunEmpty, taskVars, queueVars
<1>20. CASE Wait
  BY <1>20 DEF ExitsRan, Wait, taskVars, queueVars
<1>21. CASE Break
  BY <1>21 DEF ExitsRan, Break, taskVars, queueVars
<1>22. ASSUME NEW K \in SUBSET Key, PollReturn(K)
       PROVE  ExitsRan'
  BY <1>22 DEF ExitsRan, PollReturn, taskVars, queueVars
<1>23. ASSUME NEW t \in Task, WakeTask(t)
       PROVE  ExitsRan'
  BY <1>23 DEF ExitsRan, WakeTask, taskVars, queueVars
<1>24. ASSUME NEW t \in Task, WakeSleeper(t)
       PROVE  ExitsRan'
  BY <1>24 DEF ExitsRan, WakeSleeper, taskVars, queueVars
<1>25. CASE ReadClock
  BY <1>25 DEF ExitsRan, ReadClock, taskVars, queueVars
<1>26. CASE NoneDue
  BY <1>26 DEF ExitsRan, NoneDue, taskVars, queueVars
<1>27. CASE Abort
  BY <1>27 DEF Abort
<1>28. CASE DtorDelete
  BY <1>28 DEF DtorDelete, StacksRun
<1>29. CASE DtorEnd
  BY <1>29 DEF DtorEnd, StacksRun
<1>30. CASE Tick
  BY <1>30 DEF ExitsRan, Tick, taskVars, queueVars
<1>31. CASE UNCHANGED vars
  BY <1>31 DEF ExitsRan, vars, taskVars, queueVars
<1>32. QED
  <2>1. CASE UserStep
    BY <2>1, <1>1, <1>2, <1>3, <1>4, <1>5, <1>6, <1>7, <1>8, <1>9, <1>10,
       <1>11, <1>12, <1>13 DEF UserStep
  <2>2. CASE ExitStep
    BY <2>2, <1>14, <1>15, <1>16 DEF ExitStep
  <2>3. CASE LoopStep
    BY <2>3, <1>17, <1>18, <1>19, <1>20, <1>21, <1>22, <1>23, <1>24, <1>25,
       <1>26, <1>27, <1>28, <1>29 DEF LoopStep
  <2>4. QED
    BY <2>1, <2>2, <2>3, <1>30, <1>31 DEF Next, Halted

\* A join is woken by the exit entries of the task it waits for, so it finds
\* results, unless its own task is killed first.
LEMMA JoinsPendingKept ==
    ASSUME IInv, KillInv, StacksRun, JoinsPending, [Next]_vars
    PROVE  JoinsPending'
<1>1. ASSUME NEW r \in Runner, NEW t \in Task, New(r, t)
      PROVE  JoinsPending'
  BY <1>1 DEF JoinsPending, IInv, OffQueue, QueueInv, QueueTypes, New,
     makeReady
<1>2. ASSUME NEW r \in Runner, NEW t \in Task, Kill(r, t)
      PROVE  JoinsPending'
  <2>1. /\ dq' = [dq EXCEPT ![t] = "nil"]
        /\ \A u \in Task : dqTask'[u] = dqTask[u] \/ u = t
    BY <1>2, DequeueEffect DEF Kill, taskDelete, IInv
  <2>2. joining' = joining /\ results' = [results EXCEPT ![t] = "killed"]
    BY <1>2 DEF Kill
  <2>3. QED
    BY <2>1, <2>2 DEF JoinsPending, IInv, OtherTypes, QueueInv, QueueTypes
<1>3. CASE Yield
  <2>1. cur \in Task /\ joining[cur] = None
    BY <1>3 DEF Yield, MayBlock, UserRuns, IInv, OffQueue
  <2>2. QED
    BY <1>3, <2>1 DEF JoinsPending, IInv, OtherTypes, QueueInv, QueueTypes,
       Yield, makeReady, taskVars
<1>4. ASSUME NEW t \in Task, Join(t)
      PROVE  JoinsPending'
  <2>1. cur \in Task /\ joining[cur] = None
    BY <1>4 DEF Join, MayBlock, UserRuns, IInv, OffQueue
  <2>2. QED
    BY <1>4, <2>1 DEF JoinsPending, IInv, OtherTypes, QueueInv, QueueTypes,
       Join, taskVars
<1>5. CASE JoinReturn
  BY <1>5 DEF JoinsPending, IInv, OtherTypes, OffQueue, JoinReturn, queueVars
<1>6. ASSUME NEW due \in 0..MaxNow, SleepUntil(due)
      PROVE  JoinsPending'
  <2>1. cur \in Task /\ joining[cur] = None
    BY <1>6 DEF SleepUntil, MayBlock, UserRuns, IInv, OffQueue
  <2>2. QED
    BY <1>6, <2>1 DEF JoinsPending, IInv, OtherTypes, QueueInv, QueueTypes,
       SleepUntil, wakeAt, taskVars
<1>7. ASSUME NEW k \in Key, xpqueue_enqueue(k)
      PROVE  JoinsPending'
  <2>1. cur \in Task /\ joining[cur] = None
    BY <1>7 DEF xpqueue_enqueue, MayBlock, UserRuns, IInv, OffQueue
  <2>2. QED
    BY <1>7, <2>1 DEF JoinsPending, IInv, OtherTypes, QueueInv, QueueTypes,
       xpqueue_enqueue, taskVars
<1>8. CASE AtExit
  BY <1>8 DEF JoinsPending, AtExit, taskVars
<1>9. ASSUME NEW i \in 1..(Cardinality(Task) + MaxAtExits), CancelAtExit(i)
      PROVE  JoinsPending'
  BY <1>9 DEF JoinsPending, CancelAtExit, taskVars
<1>10. CASE Return
  <2>1. cur \in Task /\ dq[cur] = "nil" /\ results[cur] # "killed"
    BY <1>10 DEF Return, IInv, OffQueue, KillInv
  <2>2. /\ dq' = [dq EXCEPT ![cur] = "nil"]
        /\ \A u \in Task : dqTask'[u] = dqTask[u] \/ u = cur
    BY <1>10, <2>1, DequeueEffect DEF Return, taskDelete, IInv
  <2>3. joining' = joining /\ results' = [results EXCEPT ![cur] = "values"]
    BY <1>10 DEF Return
  <2>4. QED
    BY <2>1, <2>2, <2>3 DEF JoinsPending, IInv, OtherTypes, QueueInv, QueueTypes
<1>11. CASE Fail
  <2>1. cur \in Task /\ dq[cur] = "nil" /\ results[cur] # "killed"
    BY <1>11 DEF Fail, IInv, OffQueue, KillInv
  <2>2. /\ dq' = [dq EXCEPT ![cur] = "nil"]
        /\ \A u \in Task : dqTask'[u] = dqTask[u] \/ u = cur
    BY <1>11, <2>1, DequeueEffect DEF Fail, taskDelete, IInv
  <2>3. joining' = joining /\ results' = [results EXCEPT ![cur] = "error"]
    BY <1>11 DEF Fail
  <2>4. QED
    BY <2>1, <2>2, <2>3 DEF JoinsPending, IInv, OtherTypes, QueueInv, QueueTypes
<1>12. ASSUME NEW r \in Runner, NEW n \in 0..Cardinality(Task), Catch(r, n)
       PROVE  JoinsPending'
  BY <1>12 DEF JoinsPending, Catch, taskVars, queueVars
<1>13. ASSUME NEW r \in Runner, HandlerReturn(r)
       PROVE  JoinsPending'
  BY <1>13 DEF JoinsPending, HandlerReturn, taskVars, queueVars
<1>14. ASSUME NEW r \in Runner, JoinWake(r)
       PROVE  JoinsPending'
  <2>1. PICK t \in Task, j \in Task :
           /\ t = Last(stack[r])
           /\ dq[j] = "join" /\ dqTask[j] = t
           /\ dq' = [dq EXCEPT ![j] = "queue"]
           /\ dqTask' = [dqTask EXCEPT ![j] = None]
    BY <1>14, JoinWakeEffect
  <2>2. results[t] # "nil"
    BY <1>14, <2>1, TopOfStack DEF JoinWake, StacksRun
  <2>3. UNCHANGED <<results, joining>>
    BY <1>14 DEF JoinWake, taskVars
  <2>4. QED
    BY <2>1, <2>2, <2>3 DEF JoinsPending, IInv, QueueInv, QueueTypes
<1>15. ASSUME NEW r \in Runner, CallHandler(r)
       PROVE  JoinsPending'
  BY <1>15 DEF JoinsPending, CallHandler, taskVars
<1>16. ASSUME NEW r \in Runner, FinishExits(r)
       PROVE  JoinsPending'
  BY <1>16 DEF JoinsPending, FinishExits, taskVars, queueVars
<1>17. CASE SwapQueues
  BY <1>17 DEF JoinsPending, SwapQueues, taskVars, queueVars
<1>18. CASE Resume
  BY <1>18, ResumeEffect, ZenonT(60) DEF JoinsPending, IInv, QueueInv, QueueTypes, Resume,
     taskVars
<1>19. CASE RunEmpty
  BY <1>19 DEF JoinsPending, RunEmpty, taskVars, queueVars
<1>20. CASE Wait
  BY <1>20 DEF JoinsPending, Wait, taskVars, queueVars
<1>21. CASE Break
  BY <1>21 DEF JoinsPending, Break, taskVars, queueVars
<1>22. ASSUME NEW K \in SUBSET Key, PollReturn(K)
       PROVE  JoinsPending'
  <2>1. \A t \in woken' : t \in Task /\ dq[t] = "io"
    BY <1>22, PollKeeps DEF PollReturn, IInv
  <2>2. QED
    BY <1>22, <2>1 DEF JoinsPending, PollReturn, taskVars
<1>23. ASSUME NEW t \in Task, WakeTask(t)
       PROVE  JoinsPending'
  BY <1>23 DEF JoinsPending, IInv, OffQueue, QueueInv, QueueTypes, WakeTask,
     makeReady, taskVars
<1>24. ASSUME NEW t \in Task, WakeSleeper(t)
       PROVE  JoinsPending'
  <2>1. dq[t] = "sleep"
    BY <1>24 DEF WakeSleeper, FirstSleeper, IInv, QueueInv, SleepersMatch, Lists, ToSet
  <2>2. QED
    BY <1>24, <2>1 DEF JoinsPending, IInv, QueueInv, QueueTypes, WakeSleeper,
       makeReady, taskVars
<1>25. CASE ReadClock
  BY <1>25 DEF JoinsPending, ReadClock, taskVars, queueVars
<1>26. CASE NoneDue
  BY <1>26 DEF JoinsPending, NoneDue, taskVars, queueVars
<1>27. CASE Abort
  BY <1>27 DEF JoinsPending, Abort, taskVars, queueVars
<1>28. CASE DtorDelete
  BY <1>28 DEF DtorDelete, StacksRun
<1>29. CASE DtorEnd
  BY <1>29 DEF JoinsPending, DtorEnd, taskVars, queueVars
<1>30. CASE Tick
  BY <1>30 DEF JoinsPending, Tick, taskVars, queueVars
<1>31. CASE UNCHANGED vars
  BY <1>31 DEF JoinsPending, vars, taskVars, queueVars
<1>32. QED
  <2>1. CASE UserStep
    BY <2>1, <1>1, <1>2, <1>3, <1>4, <1>5, <1>6, <1>7, <1>8, <1>9, <1>10,
       <1>11, <1>12, <1>13 DEF UserStep
  <2>2. CASE ExitStep
    BY <2>2, <1>14, <1>15, <1>16 DEF ExitStep
  <2>3. CASE LoopStep
    BY <2>3, <1>17, <1>18, <1>19, <1>20, <1>21, <1>22, <1>23, <1>24, <1>25,
       <1>26, <1>27, <1>28, <1>29 DEF LoopStep
  <2>4. QED
    BY <2>1, <2>2, <2>3, <1>30, <1>31 DEF Next, Halted

\* Without blocking handlers the exit loops are over when a coroutine gives up
\* control, and me.all loses a task only when it has results.
LEMMA AllTrackedKept ==
    ASSUME IInv, StacksRun, AllTracked, ~RaiseInHandler, ~BlockInHandler, [Next]_vars
    PROVE  AllTracked'
<1>1. ASSUME NEW r \in Runner, NEW t \in Task, New(r, t)
      PROVE  AllTracked'
  <2>1. /\ dq' = [dq EXCEPT ![t] = "queue"] /\ co' = [co EXCEPT ![t] = "fn"]
        /\ all' = all \cup {t}
        /\ UNCHANGED <<pc, cur, stack, results, dqTask>>
    BY <1>1 DEF New, makeReady, loopVars
  <2>2. QED
    BY <2>1 DEF AllTracked, Created, IInv, OtherTypes, QueueInv, QueueTypes
<1>2. ASSUME NEW r \in Runner, NEW t \in Task, Kill(r, t)
      PROVE  AllTracked'
  <2>1. /\ dq' = [dq EXCEPT ![t] = "nil"]
        /\ \A u \in Task : dqTask'[u] = dqTask[u] \/ u = t
    BY <1>2, DequeueEffect DEF Kill, taskDelete, IInv
  <2>2. /\ pc = "task" /\ r = cur
        /\ results' = [results EXCEPT ![t] = "killed"]
        /\ stack' = [stack EXCEPT ![r] = Append(stack[r], t)]
        /\ UNCHANGED <<pc, cur, co, all>>
    BY <1>2 DEF Kill, UserRuns, Active, StacksRun, taskDelete, loopVars
  <2>3. QED
    BY <2>1, <2>2, SMTT(30) DEF AllTracked, Created, IInv, OtherTypes, QueueInv, QueueTypes
<1>3. CASE Yield
  <2>1. cur \in Task /\ stack[cur] = <<>>
    BY <1>3 DEF Yield, MayBlock, InHandler, IInv, OffQueue
  <2>2. QED
    BY <1>3, <2>1 DEF AllTracked, Created, IInv, QueueInv, QueueTypes,
       Yield, makeReady, Suspend, taskVars
<1>4. ASSUME NEW t \in Task, Join(t)
      PROVE  AllTracked'
  <2>1. cur \in Task /\ stack[cur] = <<>>
    BY <1>4 DEF Join, MayBlock, InHandler, IInv, OffQueue
  <2>2. QED
    BY <1>4, <2>1 DEF AllTracked, Created, IInv, QueueInv, QueueTypes, Join,
       Suspend, taskVars
<1>5. CASE JoinReturn
  BY <1>5 DEF AllTracked, Created, JoinReturn, taskVars, queueVars, loopVars
<1>6. ASSUME NEW due \in 0..MaxNow, SleepUntil(due)
      PROVE  AllTracked'
  <2>1. cur \in Task /\ stack[cur] = <<>>
    BY <1>6 DEF SleepUntil, MayBlock, InHandler, IInv, OffQueue
  <2>2. QED
    BY <1>6, <2>1 DEF AllTracked, Created, IInv, QueueInv, QueueTypes,
       SleepUntil, wakeAt, Suspend, taskVars
<1>7. ASSUME NEW k \in Key, xpqueue_enqueue(k)
      PROVE  AllTracked'
  <2>1. cur \in Task /\ stack[cur] = <<>>
    BY <1>7 DEF xpqueue_enqueue, MayBlock, InHandler, IInv, OffQueue
  <2>2. QED
    BY <1>7, <2>1 DEF AllTracked, Created, IInv, QueueInv, QueueTypes,
       xpqueue_enqueue, Suspend, taskVars
<1>8. CASE AtExit
  BY <1>8 DEF AllTracked, Created, AtExit, taskVars, queueVars, loopVars
<1>9. ASSUME NEW i \in 1..(Cardinality(Task) + MaxAtExits), CancelAtExit(i)
      PROVE  AllTracked'
  BY <1>9 DEF AllTracked, Created, CancelAtExit, taskVars, queueVars,
     loopVars
<1>10. CASE Return
  <2>1. pc = "task" /\ cur \in Task /\ cur \in Runner /\ co[cur] # "absent"
    BY <1>10 DEF Return, IInv, OffQueue, Control, Runner
  <2>2. /\ dq' = [dq EXCEPT ![cur] = "nil"]
        /\ \A u \in Task : dqTask'[u] = dqTask[u] \/ u = cur
    BY <1>10, <2>1, DequeueEffect DEF Return, taskDelete, IInv
  <2>3. /\ results' = [results EXCEPT ![cur] = "values"]
        /\ co' = [co EXCEPT ![cur] = "exiting"]
        /\ all' \in {all, all \ {cur}}
        /\ \A x \in Runner \ {cur} : stack'[x] = stack[x]
        /\ UNCHANGED <<pc, cur>>
    BY <1>10, <2>1 DEF Return, taskDelete, loopVars, IInv, OtherTypes
  <2>4. QED
    BY <2>1, <2>2, <2>3 DEF AllTracked, Created, IInv, OtherTypes, QueueInv, QueueTypes
<1>11. CASE Fail
  <2>1. pc = "task" /\ cur \in Task /\ cur \in Runner /\ co[cur] # "absent"
    BY <1>11 DEF Fail, IInv, OffQueue, Control, Runner
  <2>2. /\ dq' = [dq EXCEPT ![cur] = "nil"]
        /\ \A u \in Task : dqTask'[u] = dqTask[u] \/ u = cur
    BY <1>11, <2>1, DequeueEffect DEF Fail, taskDelete, IInv
  <2>3. /\ results' = [results EXCEPT ![cur] = "error"]
        /\ co' = [co EXCEPT ![cur] = "exiting"]
        /\ all' \in {all, all \ {cur}}
        /\ \A x \in Runner \ {cur} : stack'[x] = stack[x]
        /\ UNCHANGED <<pc, cur>>
    BY <1>11, <2>1 DEF Fail, taskDelete, loopVars, IInv, OtherTypes
  <2>4. QED
    BY <2>1, <2>2, <2>3 DEF AllTracked, Created, IInv, OtherTypes, QueueInv, QueueTypes
<1>12. ASSUME NEW r \in Runner, NEW n \in 0..Cardinality(Task), Catch(r, n)
       PROVE  AllTracked'
  BY <1>12 DEF Catch
<1>13. ASSUME NEW r \in Runner, HandlerReturn(r)
       PROVE  AllTracked'
  BY <1>13 DEF AllTracked, Created, HandlerReturn, taskVars, queueVars,
     loopVars
<1>14. ASSUME NEW r \in Runner, JoinWake(r)
       PROVE  AllTracked'
  <2>1. PICK j \in Task : /\ dq' = [dq EXCEPT ![j] = "queue"]
                          /\ dqTask' = [dqTask EXCEPT ![j] = None]
    BY <1>14, JoinWakeEffect
  <2>2. UNCHANGED <<pc, cur, stack, all, co, results>>
    BY <1>14 DEF JoinWake, taskVars, loopVars
  <2>3. QED
    BY <2>1, <2>2 DEF AllTracked, Created, IInv, QueueInv, QueueTypes
<1>15. ASSUME NEW r \in Runner, CallHandler(r)
       PROVE  AllTracked'
  BY <1>15 DEF AllTracked, Created, CallHandler, taskVars, queueVars,
     loopVars
<1>16. ASSUME NEW r \in Runner, FinishExits(r)
       PROVE  AllTracked'
  <2>1. pc = "task" /\ r = cur
    BY <1>16 DEF FinishExits, ExitsRun, Active, StacksRun
  <2>2. Last(stack[r]) \in Task /\ results[Last(stack[r])] # "nil"
    BY <1>16, TopOfStack DEF FinishExits, StacksRun
  <2>3. /\ stack' = [stack EXCEPT ![r] = Front(stack[r])]
        /\ all' = all \ {Last(stack[r])}
        /\ \/ UNCHANGED <<co, pc>>
           \/ /\ Front(stack[r]) = <<>> /\ pc' = "run"
              /\ r \in Task /\ co[r] = "exiting" /\ co' = [co EXCEPT ![r] = "dead"]
        /\ UNCHANGED <<results, cur, dq, dqTask>>
    BY <1>16 DEF FinishExits, queueVars
  <2>4. \A x \in Runner : stack'[x] # <<>> => pc' = "task" /\ x = cur'
    BY <2>1, <2>3 DEF AllTracked, IInv, OtherTypes
  <2>5. Created' = Created
    BY <2>3 DEF Created, IInv, OtherTypes
  <2>6. \A t \in Task : co'[t] \in {"exiting", "dead"} => results'[t] # "nil"
    BY <2>3 DEF AllTracked, IInv, OtherTypes
  <2>7. QED
    BY <2>2, <2>3, <2>4, <2>5, <2>6 DEF AllTracked
<1>17. CASE SwapQueues
  BY <1>17 DEF AllTracked, Created, SwapQueues, taskVars, queueVars,
     loopVars
<1>18. CASE Resume
  BY <1>18, ResumeEffect DEF AllTracked, Created, IInv, QueueInv, QueueTypes,
     Resume, taskVars
<1>19. CASE RunEmpty
  BY <1>19 DEF AllTracked, Created, RunEmpty, taskVars, queueVars, loopVars
<1>20. CASE Wait
  BY <1>20 DEF AllTracked, Created, Wait, taskVars, queueVars, loopVars
<1>21. CASE Break
  BY <1>21 DEF AllTracked, Created, Break, taskVars, queueVars, loopVars
<1>22. ASSUME NEW K \in SUBSET Key, PollReturn(K)
       PROVE  AllTracked'
  BY <1>22 DEF AllTracked, Created, PollReturn, taskVars
<1>23. ASSUME NEW t \in Task, WakeTask(t)
       PROVE  AllTracked'
  BY <1>23 DEF AllTracked, Created, IInv, QueueInv, QueueTypes, WakeTask,
     makeReady, taskVars
<1>24. ASSUME NEW t \in Task, WakeSleeper(t)
       PROVE  AllTracked'
  BY <1>24 DEF AllTracked, Created, IInv, QueueInv, QueueTypes, WakeSleeper,
     makeReady, taskVars, loopVars
<1>25. CASE ReadClock
  BY <1>25 DEF AllTracked, Created, ReadClock, taskVars, queueVars, loopVars
<1>26. CASE NoneDue
  BY <1>26 DEF AllTracked, Created, NoneDue, taskVars, queueVars, loopVars
<1>27. CASE Abort
  BY <1>27 DEF Abort
<1>28. CASE DtorDelete
  BY <1>28 DEF DtorDelete, StacksRun
<1>29. CASE DtorEnd
  BY <1>29 DEF DtorEnd, StacksRun
<1>30. CASE Tick
  BY <1>30 DEF AllTracked, Created, Tick, taskVars, queueVars, loopVars
<1>31. CASE UNCHANGED vars
  BY <1>31 DEF AllTracked, Created, vars, taskVars, queueVars, loopVars
<1>32. QED
  <2>1. CASE UserStep
    BY <2>1, <1>1, <1>2, <1>3, <1>4, <1>5, <1>6, <1>7, <1>8, <1>9, <1>10,
       <1>11, <1>12, <1>13 DEF UserStep
  <2>2. CASE ExitStep
    BY <2>2, <1>14, <1>15, <1>16 DEF ExitStep
  <2>3. CASE LoopStep
    BY <2>3, <1>17, <1>18, <1>19, <1>20, <1>21, <1>22, <1>23, <1>24, <1>25,
       <1>26, <1>27, <1>28, <1>29 DEF LoopStep
  <2>4. QED
    BY <2>1, <2>2, <2>3, <1>30, <1>31 DEF Next, Halted

\* A task that gives up control is in some queue, and one that is taken off its
\* queue is resumed, is about to be made ready or has results.
LEMMA NobodyLostKept ==
    ASSUME IInv, StacksRun, NobodyLost, ~RaiseInHandler, [Next]_vars
    PROVE  NobodyLost'
<1>1. ASSUME NEW r \in Runner, NEW t \in Task, New(r, t)
      PROVE  NobodyLost'
  BY <1>1 DEF NobodyLost, IInv, OtherTypes, QueueInv, QueueTypes, New, makeReady,
     loopVars
<1>2. ASSUME NEW r \in Runner, NEW t \in Task, Kill(r, t)
      PROVE  NobodyLost'
  <2>1. dq' = [dq EXCEPT ![t] = "nil"]
    BY <1>2, DequeueEffect DEF Kill, taskDelete, IInv
  <2>2. QED
    BY <1>2, <2>1 DEF NobodyLost, IInv, OtherTypes, QueueInv, QueueTypes, Kill, loopVars
<1>3. CASE Yield
  BY <1>3 DEF NobodyLost, IInv, QueueInv, QueueTypes, Yield, makeReady,
     Suspend, taskVars
<1>4. ASSUME NEW t \in Task, Join(t)
      PROVE  NobodyLost'
  BY <1>4 DEF NobodyLost, IInv, QueueInv, QueueTypes, Join, Suspend,
     taskVars
<1>5. CASE JoinReturn
  BY <1>5 DEF NobodyLost, JoinReturn, taskVars, queueVars, loopVars
<1>6. ASSUME NEW due \in 0..MaxNow, SleepUntil(due)
      PROVE  NobodyLost'
  BY <1>6 DEF NobodyLost, IInv, QueueInv, QueueTypes, SleepUntil, wakeAt,
     Suspend, taskVars
<1>7. ASSUME NEW k \in Key, xpqueue_enqueue(k)
      PROVE  NobodyLost'
  BY <1>7 DEF NobodyLost, IInv, QueueInv, QueueTypes, xpqueue_enqueue,
     Suspend, taskVars
<1>8. CASE AtExit
  BY <1>8 DEF NobodyLost, AtExit, taskVars, queueVars, loopVars
<1>9. ASSUME NEW i \in 1..(Cardinality(Task) + MaxAtExits), CancelAtExit(i)
      PROVE  NobodyLost'
  BY <1>9 DEF NobodyLost, CancelAtExit, taskVars, queueVars, loopVars
<1>10. CASE Return
  <2>1. cur \in Task
    BY <1>10 DEF Return, IInv, OffQueue
  <2>2. dq' = [dq EXCEPT ![cur] = "nil"]
    BY <1>10, <2>1, DequeueEffect DEF Return, taskDelete, IInv
  <2>3. QED
    BY <1>10, <2>1, <2>2 DEF NobodyLost, IInv, OtherTypes, QueueInv, QueueTypes,
       Return, loopVars
<1>11. CASE Fail
  <2>1. cur \in Task
    BY <1>11 DEF Fail, IInv, OffQueue
  <2>2. dq' = [dq EXCEPT ![cur] = "nil"]
    BY <1>11, <2>1, DequeueEffect DEF Fail, taskDelete, IInv
  <2>3. QED
    BY <1>11, <2>1, <2>2 DEF NobodyLost, IInv, OtherTypes, QueueInv, QueueTypes,
       Fail, loopVars
<1>12. ASSUME NEW r \in Runner, NEW n \in 0..Cardinality(Task), Catch(r, n)
       PROVE  NobodyLost'
  BY <1>12 DEF NobodyLost, Catch, taskVars, queueVars, loopVars
<1>13. ASSUME NEW r \in Runner, HandlerReturn(r)
       PROVE  NobodyLost'
  BY <1>13 DEF NobodyLost, HandlerReturn, taskVars, queueVars, loopVars
<1>14. ASSUME NEW r \in Runner, JoinWake(r)
       PROVE  NobodyLost'
  <2>1. PICK j \in Task : dq' = [dq EXCEPT ![j] = "queue"]
    BY <1>14, JoinWakeEffect
  <2>2. QED
    BY <1>14, <2>1 DEF NobodyLost, IInv, QueueInv, QueueTypes, JoinWake, taskVars, loopVars
<1>15. ASSUME NEW r \in Runner, CallHandler(r)
       PROVE  NobodyLost'
  BY <1>15 DEF NobodyLost, CallHandler, taskVars, queueVars, loopVars
<1>16. ASSUME NEW r \in Runner, FinishExits(r)
       PROVE  NobodyLost'
  <2>1. pc = "task" /\ r = cur
    BY <1>16 DEF FinishExits, ExitsRun, Active, StacksRun
  <2>2. QED
    BY <1>16, <2>1 DEF NobodyLost, IInv, OtherTypes, FinishExits, queueVars
<1>17. CASE SwapQueues
  BY <1>17 DEF NobodyLost, SwapQueues, taskVars, queueVars, loopVars
<1>18. CASE Resume
  BY <1>18, ResumeEffect DEF NobodyLost, IInv, QueueInv, QueueTypes, Resume, taskVars
<1>19. CASE RunEmpty
  BY <1>19 DEF NobodyLost, RunEmpty, taskVars, queueVars, loopVars
<1>20. CASE Wait
  BY <1>20 DEF NobodyLost, Wait, taskVars, queueVars, loopVars
<1>21. CASE Break
  BY <1>21 DEF NobodyLost, Break, taskVars, queueVars, loopVars
<1>22. ASSUME NEW K \in SUBSET Key, PollReturn(K)
       PROVE  NobodyLost'
  BY <1>22 DEF NobodyLost, IInv, Control, PollReturn, taskVars
<1>23. ASSUME NEW t \in Task, WakeTask(t)
       PROVE  NobodyLost'
  BY <1>23 DEF NobodyLost, IInv, QueueInv, QueueTypes, WakeTask, makeReady,
     taskVars
<1>24. ASSUME NEW t \in Task, WakeSleeper(t)
       PROVE  NobodyLost'
  BY <1>24 DEF NobodyLost, IInv, QueueInv, QueueTypes, WakeSleeper, makeReady,
     taskVars, loopVars
<1>25. CASE ReadClock
  BY <1>25 DEF NobodyLost, ReadClock, taskVars, queueVars, loopVars
<1>26. CASE NoneDue
  BY <1>26 DEF NobodyLost, NoneDue, taskVars, queueVars, loopVars
<1>27. CASE Abort
  BY <1>27 DEF Abort
<1>28. CASE DtorDelete
  BY <1>28 DEF DtorDelete, StacksRun
<1>29. CASE DtorEnd
  BY <1>29 DEF DtorEnd, StacksRun
<1>30. CASE Tick
  BY <1>30 DEF NobodyLost, Tick, taskVars, queueVars, loopVars
<1>31. CASE UNCHANGED vars
  BY <1>31 DEF NobodyLost, vars, taskVars, queueVars, loopVars
<1>32. QED
  <2>1. CASE UserStep
    BY <2>1, <1>1, <1>2, <1>3, <1>4, <1>5, <1>6, <1>7, <1>8, <1>9, <1>10,
       <1>11, <1>12, <1>13 DEF UserStep
  <2>2. CASE ExitStep
    BY <2>2, <1>14, <1>15, <1>16 DEF ExitStep
  <2>3. CASE LoopStep
    BY <2>3, <1>17, <1>18, <1>19, <1>20, <1>21, <1>22, <1>23, <1>24, <1>25,
       <1>26, <1>27, <1>28, <1>29 DEF LoopStep
  <2>4. QED
    BY <2>1, <2>2, <2>3, <1>30, <1>31 DEF Next, Halted

\* The loop is left only when the queues, the heap and the slots are empty.
LEMMA LoopEndsKept ==
    ASSUME LoopEnds, [Next]_vars
    PROVE  LoopEnds'
<1>1. ASSUME NEW r \in Runner, NEW t \in Task, New(r, t)
      PROVE  LoopEnds'
  BY <1>1 DEF LoopEnds, New, UserRuns, Active, loopVars
<1>2. ASSUME NEW r \in Runner, NEW t \in Task, Kill(r, t)
      PROVE  LoopEnds'
  BY <1>2 DEF LoopEnds, Kill, UserRuns, Active, loopVars
<1>3. CASE Yield
  BY <1>3 DEF LoopEnds, Yield, Suspend
<1>4. ASSUME NEW t \in Task, Join(t)
      PROVE  LoopEnds'
  BY <1>4 DEF LoopEnds, Join, Suspend
<1>5. CASE JoinReturn
  BY <1>5 DEF LoopEnds, JoinReturn, loopVars
<1>6. ASSUME NEW due \in 0..MaxNow, SleepUntil(due)
      PROVE  LoopEnds'
  BY <1>6 DEF LoopEnds, SleepUntil, Suspend
<1>7. ASSUME NEW k \in Key, xpqueue_enqueue(k)
      PROVE  LoopEnds'
  BY <1>7 DEF LoopEnds, xpqueue_enqueue, Suspend
<1>8. CASE AtExit
  BY <1>8 DEF LoopEnds, AtExit, loopVars
<1>9. ASSUME NEW i \in 1..(Cardinality(Task) + MaxAtExits), CancelAtExit(i)
      PROVE  LoopEnds'
  BY <1>9 DEF LoopEnds, CancelAtExit, loopVars
<1>10. CASE Return
  BY <1>10 DEF LoopEnds, Return, loopVars
<1>11. CASE Fail
  BY <1>11 DEF LoopEnds, Fail, loopVars
<1>12. ASSUME NEW r \in Runner, NEW n \in 0..Cardinality(Task), Catch(r, n)
       PROVE  LoopEnds'
  BY <1>12 DEF LoopEnds, Catch, UserRuns, Active, loopVars
<1>13. ASSUME NEW r \in Runner, HandlerReturn(r)
       PROVE  LoopEnds'
  BY <1>13 DEF LoopEnds, HandlerReturn, UserRuns, Active, loopVars
<1>14. ASSUME NEW r \in Runner, JoinWake(r)
       PROVE  LoopEnds'
  BY <1>14 DEF LoopEnds, JoinWake, ExitsRun, Active, loopVars
<1>15. ASSUME NEW r \in Runner, CallHandler(r)
       PROVE  LoopEnds'
  BY <1>15 DEF LoopEnds, CallHandler, ExitsRun, Active, loopVars
<1>16. ASSUME NEW r \in Runner, FinishExits(r)
       PROVE  LoopEnds'
  BY <1>16 DEF LoopEnds, FinishExits, ExitsRun, Active, loopVars
<1>17. CASE SwapQueues
  BY <1>17 DEF LoopEnds, SwapQueues
<1>18. CASE Resume
  BY <1>18 DEF LoopEnds, Resume
<1>19. CASE RunEmpty
  BY <1>19 DEF LoopEnds, run, RunEmpty, queueVars
<1>20. CASE Wait
  BY <1>20 DEF LoopEnds, Wait
<1>21. CASE Break
  BY <1>21 DEF LoopEnds, run, Break, queueVars
<1>22. ASSUME NEW K \in SUBSET Key, PollReturn(K)
       PROVE  LoopEnds'
  BY <1>22 DEF LoopEnds, PollReturn
<1>23. ASSUME NEW t \in Task, WakeTask(t)
       PROVE  LoopEnds'
  BY <1>23 DEF LoopEnds, WakeTask
<1>24. ASSUME NEW t \in Task, WakeSleeper(t)
       PROVE  LoopEnds'
  BY <1>24 DEF LoopEnds, WakeSleeper, loopVars
<1>25. CASE ReadClock
  BY <1>25 DEF LoopEnds, ReadClock
<1>26. CASE NoneDue
  BY <1>26 DEF LoopEnds, NoneDue
<1>27. CASE Abort
  BY <1>27 DEF LoopEnds, Abort
<1>28. CASE DtorDelete
  BY <1>28 DEF LoopEnds, DtorDelete, loopVars
<1>29. CASE DtorEnd
  BY <1>29 DEF LoopEnds, DtorEnd
<1>30. CASE Tick
  BY <1>30 DEF LoopEnds, Tick, loopVars
<1>31. CASE UNCHANGED vars
  BY <1>31 DEF LoopEnds, run, vars, queueVars, loopVars
<1>32. QED
  <2>1. CASE UserStep
    BY <2>1, <1>1, <1>2, <1>3, <1>4, <1>5, <1>6, <1>7, <1>8, <1>9, <1>10,
       <1>11, <1>12, <1>13 DEF UserStep
  <2>2. CASE ExitStep
    BY <2>2, <1>14, <1>15, <1>16 DEF ExitStep
  <2>3. CASE LoopStep
    BY <2>3, <1>17, <1>18, <1>19, <1>20, <1>21, <1>22, <1>23, <1>24, <1>25,
       <1>26, <1>27, <1>28, <1>29 DEF LoopStep
  <2>4. QED
    BY <2>1, <2>2, <2>3, <1>30, <1>31 DEF Next, Halted

\* No operation but the loop over the heap makes a sleeping task ready.
LEMMA OnlyLoopWakes ==
    ASSUME IInv, [Next]_vars, NEW s \in Task, dq[s] = "sleep", dq'[s] = "queue"
    PROVE  WakeSleeper(s)
<1>1. ASSUME NEW r \in Runner, NEW t \in Task, New(r, t)
      PROVE  WakeSleeper(s)
  BY <1>1 DEF New, makeReady, IInv, OffQueue, QueueInv, QueueTypes
<1>2. ASSUME NEW r \in Runner, NEW t \in Task, Kill(r, t)
      PROVE  WakeSleeper(s)
  BY <1>2, DequeueEffect DEF Kill, taskDelete, IInv, QueueInv, QueueTypes
<1>3. CASE Yield
  BY <1>3 DEF Yield, makeReady, MayBlock, IInv, OffQueue, QueueInv,
     QueueTypes
<1>4. ASSUME NEW t \in Task, Join(t)
      PROVE  WakeSleeper(s)
  BY <1>4 DEF Join, MayBlock, IInv, OffQueue, QueueInv, QueueTypes
<1>5. CASE JoinReturn
  BY <1>5 DEF JoinReturn, queueVars
<1>6. ASSUME NEW due \in 0..MaxNow, SleepUntil(due)
      PROVE  WakeSleeper(s)
  BY <1>6 DEF SleepUntil, wakeAt, MayBlock, IInv, OffQueue, QueueInv,
     QueueTypes
<1>7. ASSUME NEW k \in Key, xpqueue_enqueue(k)
      PROVE  WakeSleeper(s)
  BY <1>7 DEF xpqueue_enqueue, MayBlock, IInv, OffQueue, QueueInv,
     QueueTypes
<1>8. CASE AtExit
  BY <1>8 DEF AtExit, queueVars
<1>9. ASSUME NEW i \in 1..(Cardinality(Task) + MaxAtExits), CancelAtExit(i)
      PROVE  WakeSleeper(s)
  BY <1>9 DEF CancelAtExit, queueVars
<1>10. CASE Return
  <2>1. cur \in Task
    BY <1>10 DEF Return, IInv, OffQueue
  <2>2. QED
    BY <1>10, <2>1, DequeueEffect DEF Return, taskDelete, IInv, QueueInv, QueueTypes
<1>11. CASE Fail
  <2>1. cur \in Task
    BY <1>11 DEF Fail, IInv, OffQueue
  <2>2. QED
    BY <1>11, <2>1, DequeueEffect DEF Fail, taskDelete, IInv, QueueInv, QueueTypes
<1>12. ASSUME NEW r \in Runner, NEW n \in 0..Cardinality(Task), Catch(r, n)
       PROVE  WakeSleeper(s)
  BY <1>12 DEF Catch, queueVars
<1>13. ASSUME NEW r \in Runner, HandlerReturn(r)
       PROVE  WakeSleeper(s)
  BY <1>13 DEF HandlerReturn, queueVars
<1>14. ASSUME NEW r \in Runner, JoinWake(r)
       PROVE  WakeSleeper(s)
  BY <1>14, JoinWakeEffect DEF IInv, QueueInv, QueueTypes
<1>15. ASSUME NEW r \in Runner, CallHandler(r)
       PROVE  WakeSleeper(s)
  BY <1>15 DEF CallHandler, queueVars
<1>16. ASSUME NEW r \in Runner, FinishExits(r)
       PROVE  WakeSleeper(s)
  BY <1>16 DEF FinishExits, queueVars
<1>17. CASE SwapQueues
  BY <1>17 DEF SwapQueues, queueVars
<1>18. CASE Resume
  BY <1>18, ResumeEffect DEF IInv, QueueInv, QueueTypes
<1>19. CASE RunEmpty
  BY <1>19 DEF RunEmpty, queueVars
<1>20. CASE Wait
  BY <1>20 DEF Wait, queueVars
<1>21. CASE Break
  BY <1>21 DEF Break, queueVars
<1>22. ASSUME NEW K \in SUBSET Key, PollReturn(K)
       PROVE  WakeSleeper(s)
  BY <1>22 DEF PollReturn
<1>23. ASSUME NEW t \in Task, WakeTask(t)
       PROVE  WakeSleeper(s)
  BY <1>23 DEF WakeTask, makeReady, IInv, OffQueue, QueueInv, QueueTypes
<1>24. ASSUME NEW t \in Task, WakeSleeper(t)
       PROVE  WakeSleeper(s)
  BY <1>24 DEF WakeSleeper, makeReady, IInv, QueueInv, QueueTypes
<1>25. CASE ReadClock
  BY <1>25 DEF ReadClock, queueVars
<1>26. CASE NoneDue
  BY <1>26 DEF NoneDue, queueVars
<1>27. CASE Abort
  BY <1>27 DEF Abort, queueVars
<1>28. CASE DtorDelete
  <2>1. Head(q[ready]) \in Task
    BY <1>28 DEF DtorDelete, IInv, QueueInv, QueueTypes, OtherTypes
  <2>2. QED
    BY <1>28, <2>1, DequeueEffect DEF DtorDelete, taskDelete, IInv, QueueInv, QueueTypes
<1>29. CASE DtorEnd
  BY <1>29 DEF DtorEnd, queueVars
<1>30. CASE Tick
  BY <1>30 DEF Tick, queueVars
<1>31. CASE UNCHANGED vars
  BY <1>31 DEF vars, queueVars
<1>32. QED
  <2>1. CASE UserStep
    BY <2>1, <1>1, <1>2, <1>3, <1>4, <1>5, <1>6, <1>7, <1>8, <1>9, <1>10,
       <1>11, <1>12, <1>13 DEF UserStep
  <2>2. CASE ExitStep
    BY <2>2, <1>14, <1>15, <1>16 DEF ExitStep
  <2>3. CASE LoopStep
    BY <2>3, <1>17, <1>18, <1>19, <1>20, <1>21, <1>22, <1>23, <1>24, <1>25,
       <1>26, <1>27, <1>28, <1>29 DEF LoopStep
  <2>4. QED
    BY <2>1, <2>2, <2>3, <1>30, <1>31 DEF Next, Halted

\* The loop never looks at a time that is still to come.
LEMMA ClockReadKept ==
    ASSUME IInv, ClockRead, [Next]_vars
    PROVE  ClockRead'
<1>1. ASSUME NEW r \in Runner, NEW t \in Task, New(r, t)
      PROVE  ClockRead'
  BY <1>1 DEF ClockRead, New, timeVars
<1>2. ASSUME NEW r \in Runner, NEW t \in Task, Kill(r, t)
      PROVE  ClockRead'
  BY <1>2 DEF ClockRead, Kill, timeVars
<1>3. CASE Yield
  BY <1>3 DEF ClockRead, Yield, timeVars
<1>4. ASSUME NEW t \in Task, Join(t)
      PROVE  ClockRead'
  BY <1>4 DEF ClockRead, Join, timeVars
<1>5. CASE JoinReturn
  BY <1>5 DEF ClockRead, JoinReturn, timeVars
<1>6. ASSUME NEW due \in 0..MaxNow, SleepUntil(due)
      PROVE  ClockRead'
  BY <1>6 DEF ClockRead, SleepUntil, timeVars
<1>7. ASSUME NEW k \in Key, xpqueue_enqueue(k)
      PROVE  ClockRead'
  BY <1>7 DEF ClockRead, xpqueue_enqueue, timeVars
<1>8. CASE AtExit
  BY <1>8 DEF ClockRead, AtExit, timeVars
<1>9. ASSUME NEW i \in 1..(Cardinality(Task) + MaxAtExits), CancelAtExit(i)
      PROVE  ClockRead'
  BY <1>9 DEF ClockRead, CancelAtExit, timeVars
<1>10. CASE Return
  BY <1>10 DEF ClockRead, Return, timeVars
<1>11. CASE Fail
  BY <1>11 DEF ClockRead, Fail, timeVars
<1>12. ASSUME NEW r \in Runner, NEW n \in 0..Cardinality(Task), Catch(r, n)
       PROVE  ClockRead'
  BY <1>12 DEF ClockRead, Catch, timeVars
<1>13. ASSUME NEW r \in Runner, HandlerReturn(r)
       PROVE  ClockRead'
  BY <1>13 DEF ClockRead, HandlerReturn, timeVars
<1>14. ASSUME NEW r \in Runner, JoinWake(r)
       PROVE  ClockRead'
  BY <1>14 DEF ClockRead, JoinWake, timeVars
<1>15. ASSUME NEW r \in Runner, CallHandler(r)
       PROVE  ClockRead'
  BY <1>15 DEF ClockRead, CallHandler, timeVars
<1>16. ASSUME NEW r \in Runner, FinishExits(r)
       PROVE  ClockRead'
  BY <1>16 DEF ClockRead, FinishExits, timeVars
<1>17. CASE SwapQueues
  BY <1>17 DEF ClockRead, SwapQueues, timeVars
<1>18. CASE Resume
  BY <1>18 DEF ClockRead, Resume, timeVars
<1>19. CASE RunEmpty
  BY <1>19 DEF ClockRead, RunEmpty, timeVars
<1>20. CASE Wait
  BY <1>20 DEF ClockRead, Wait, timeVars
<1>21. CASE Break
  BY <1>21 DEF ClockRead, Break, timeVars
<1>22. ASSUME NEW K \in SUBSET Key, PollReturn(K)
       PROVE  ClockRead'
  BY <1>22 DEF ClockRead, PollReturn, timeVars
<1>23. ASSUME NEW t \in Task, WakeTask(t)
       PROVE  ClockRead'
  BY <1>23 DEF ClockRead, WakeTask, timeVars
<1>24. ASSUME NEW t \in Task, WakeSleeper(t)
       PROVE  ClockRead'
  BY <1>24 DEF ClockRead, WakeSleeper, timeVars
<1>25. CASE ReadClock
  BY <1>25 DEF ClockRead, ReadClock, IInv, OtherTypes
<1>26. CASE NoneDue
  BY <1>26 DEF ClockRead, NoneDue, timeVars
<1>27. CASE Abort
  BY <1>27 DEF ClockRead, Abort, timeVars
<1>28. CASE DtorDelete
  BY <1>28 DEF ClockRead, DtorDelete, timeVars
<1>29. CASE DtorEnd
  BY <1>29 DEF ClockRead, DtorEnd, timeVars
<1>30. CASE Tick
  BY <1>30 DEF ClockRead, Tick, IInv, OtherTypes
<1>31. CASE UNCHANGED vars
  BY <1>31 DEF ClockRead, vars, timeVars
<1>32. QED
  <2>1. CASE UserStep
    BY <2>1, <1>1, <1>2, <1>3, <1>4, <1>5, <1>6, <1>7, <1>8, <1>9, <1>10,
       <1>11, <1>12, <1>13 DEF UserStep
  <2>2. CASE ExitStep
    BY <2>2, <1>14, <1>15, <1>16 DEF ExitStep
  <2>3. CASE LoopStep
    BY <2>3, <1>17, <1>18, <1>19, <1>20, <1>21, <1>22, <1>23, <1>24, <1>25,
       <1>26, <1>27, <1>28, <1>29 DEF LoopStep
  <2>4. QED
    BY <2>1, <2>2, <2>3, <1>30, <1>31 DEF Next, Halted

\* The invariant of thread.kill holds throughout.
THEOREM KillInvariance ==
    ASSUME ~SelfKill
    PROVE  Spec => []KillInv
<1>1. Init => KillInv
  BY DEF Init, KillInv
<1>2. IInv /\ KillInv /\ [Next]_vars => KillInv'
  BY KillInvKept
<1>3. QED
  BY <1>1, <1>2, Invariance, PTL DEF Spec

\* thread.kill stops a task for good, whatever its handlers and everybody
\* else's do, unless tasks kill themselves: the killed task never waits to be
\* resumed and its start function executes no further.
THEOREM KillIsFinal ==
    ASSUME ~SelfKill
    PROVE  Spec => []KilledStaysDown
<1>1. KillInv => KilledStaysDown
  BY ThreadAssumption DEF KillInv, KilledStaysDown, UserRuns, Active
<1>2. QED
  BY <1>1, KillInvariance, PTL

\* The invariant of the exit loops holds throughout.
THEOREM ExitInvariance ==
    ASSUME ~SelfKill, ~RaiseInHandler
    PROVE  Spec => []ExitInv
<1>1. Init => ExitInv
  BY DEF Init, ExitInv, StacksRun, ExitsRan, JoinsPending
<1>2. IInv /\ KillInv /\ ExitInv /\ [Next]_vars => ExitInv'
  BY StacksKept, ExitsRanKept, JoinsPendingKept DEF ExitInv
<1>3. QED
  BY <1>1, <1>2, Invariance, KillInvariance, PTL DEF Spec

\* taskDelete runs every exit entry, also those that handlers add and also when
\* handlers block: once it is over nobody waits for the task and me.all has
\* lost it, and a join that returns finds results.
THEOREM ExitsAreComplete ==
    ASSUME ~SelfKill, ~RaiseInHandler
    PROVE  Spec => []ExitsComplete
<1>1. ASSUME IInv, KillInv, ExitInv
      PROVE  ExitsComplete
  <2>1. ASSUME pc = "task", joining[cur] # None
        PROVE  results[joining[cur]] # "nil"
    BY <1>1, <2>1 DEF IInv, OffQueue, KillInv, ExitInv, JoinsPending
  <2>2. ASSUME NEW t \in Task, results[t] # "nil", \A r \in Runner : t \notin ToSet(stack[r])
        PROVE  atExits[t] = <<>> /\ t \notin all
    <3>1. \A r \in Runner : \A i \in DOMAIN stack[r] : stack[r][i] # t
      BY <2>2 DEF ToSet
    <3>2. QED
      BY <1>1, <2>2, <3>1 DEF ExitInv, ExitsRan
  <2>3. QED
    BY <2>1, <2>2 DEF ExitsComplete
<1>2. QED
  BY <1>1, Invariance, KillInvariance, ExitInvariance, PTL

\* The invariant of the loop's end holds throughout.
THEOREM StuckInvariance ==
    ASSUME ~SelfKill, ~RaiseInHandler, ~BlockInHandler
    PROVE  Spec => []StuckInv
<1>1. Init => StuckInv
  BY ThreadAssumption DEF Init, StuckInv, AllTracked, NobodyLost, LoopEnds, Created
<1>2. IInv /\ ExitInv /\ StuckInv /\ [Next]_vars => StuckInv'
  BY AllTrackedKept, NobodyLostKept, LoopEndsKept DEF ExitInv, StuckInv
<1>3. QED
  BY <1>1, <1>2, Invariance, ExitInvariance, PTL DEF Spec

\* dispatch returns only when every task that is left waits in join for a task
\* that is itself left, and those are the ones it reports as dangling, provided
\* that no task kills itself, that handlers neither raise nor block and that no
\* two tasks wait in one slot.
THEOREM ReturnsOnlyWhenStuck ==
    ASSUME ~SelfKill, ~RaiseInHandler, ~BlockInHandler, ~ShareKey
    PROVE  Spec => []ReturnsWhenStuck
<1>1. ASSUME IInv, ExitInv, StuckInv
      PROVE  ReturnsWhenStuck
  <2> SUFFICES ASSUME pc = "done"
               PROVE  /\ all = {t \in Created : results[t] = "nil"}
                      /\ \A t \in all : dq[t] = "join" /\ dqTask[t] \in all
    BY DEF ReturnsWhenStuck
  <2> USE <1>1
  <2>1. \A r \in Runner : DOMAIN stack[r] = {}
    BY DEF StuckInv, AllTracked
  <2>2. all = {t \in Created : results[t] = "nil"}
    <3>1. \A t \in all : t \in Created /\ results[t] = "nil"
      BY <2>1 DEF ExitInv, ExitsRan, StuckInv, AllTracked, IInv, OtherTypes
    <3>2. QED
      BY <3>1 DEF StuckInv, AllTracked
  <2>3. ASSUME NEW t \in all
        PROVE  dq[t] = "join" /\ dqTask[t] \in all
    <3>1. t \in Task /\ co[t] = "fn" /\ results[t] = "nil"
      BY <2>2 DEF Created, IInv, OtherTypes, StuckInv, AllTracked
    <3>2. dq[t] # "nil"
      BY <3>1 DEF StuckInv, NobodyLost, IInv, Control
    <3>3. q["A"] = <<>> /\ q["B"] = <<>> /\ sleepers = <<>> /\ \A k \in Key : io[k] = None
      <4>1. run \in QObj /\ ready \in QObj /\ run # ready
        BY DEF run, QObj, IInv, OtherTypes
      <4>2. QED
        BY <4>1 DEF StuckInv, LoopEnds, QObj
    <3>4. ToSet(<<>>) = {}
      BY DEF ToSet
    <3>5. dq[t] # "queue"
      <4>1. \A o \in QObj : ToSet(q[o]) = {}
        BY <3>3, <3>4 DEF QObj
      <4>2. QED
        BY <3>1, <4>1 DEF IInv, QueueInv, QueuesMatch, Lists
    <3>6. dq[t] # "sleep"
      BY <3>1, <3>3, <3>4 DEF IInv, QueueInv, SleepersMatch, Lists
    <3>7. dq[t] # "io"
      BY <3>1, <3>3, ThreadAssumption DEF IInv, QueueInv, IoMatch, WaiterRegistered
    <3>8. dq[t] = "join" /\ dqTask[t] \in Task
      BY <3>1, <3>2, <3>5, <3>6, <3>7 DEF IInv, QueueInv, QueueTypes, JoinsMatch
    <3>9. atExits[dqTask[t]] # <<>>
      <4>1. \E i \in DOMAIN atExits[dqTask[t]] : atExits[dqTask[t]][i] = JoinEntry(t)
        BY <3>1, <3>8 DEF IInv, QueueInv, JoinsMatch, Wakes
      <4>2. QED
        BY <4>1
    <3>10. results[dqTask[t]] = "nil"
      BY <2>1, <3>8, <3>9 DEF ExitInv, ExitsRan
    <3>11. QED
      BY <2>2, <3>1, <3>8, <3>10 DEF StuckInv, AllTracked
  <2>4. QED
    BY <2>2, <2>3
<1>2. QED
  BY <1>1, Invariance, ExitInvariance, StuckInvariance, PTL

\* A sleeping task is made ready when its time has come and not before one that
\* is due earlier, whatever tasks and handlers do.
THEOREM SleepersWakeInOrder == Spec => WakesInOrder
<1> DEFINE Due(t) == dq[t] = "sleep" /\ dq'[t] = "queue" =>
                        /\ timeDue[t] <= now
                        /\ \A u \in ToSet(sleepers) : timeDue[t] <= timeDue[u]
<1>1. Init => ClockRead
  BY DEF Init, ClockRead
<1>2. IInv /\ ClockRead /\ [Next]_vars => ClockRead'
  BY ClockReadKept
<1>3. ASSUME IInv, ClockRead, [Next]_vars
      PROVE  [\A t \in Task : Due(t)]_vars
  <2>1. ASSUME NEW t \in Task, dq[t] = "sleep", dq'[t] = "queue"
        PROVE  /\ timeDue[t] <= now
               /\ \A u \in ToSet(sleepers) : timeDue[t] <= timeDue[u]
    <3>1. WakeSleeper(t)
      BY <1>3, <2>1, OnlyLoopWakes
    <3>2. timeDue[t] <= tNow /\ \A j \in DOMAIN sleepers : timeDue[t] <= timeDue[sleepers[j]]
      BY <3>1 DEF WakeSleeper, FirstSleeper
    <3>3. timeDue[t] \in Nat /\ tNow \in Nat /\ now \in Nat /\ tNow <= now
      BY <1>3 DEF IInv, QueueInv, QueueTypes, OtherTypes, ClockRead
    <3>4. QED
      BY <3>2, <3>3 DEF ToSet
  <2>2. QED
    BY <2>1
<1>4. QED
  BY <1>1, <1>2, <1>3, Invariance, PTL DEF Spec, WakesInOrder

=============================================================================
