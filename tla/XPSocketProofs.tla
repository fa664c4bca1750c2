--------------------------- MODULE XPSocketProofs ---------------------------
(***************************************************************************)
(* Proofs about XPSocket, for any tasks, objects, descriptors and files: a *)
(* descriptor has one owner; a task that waits is in the queue exactly     *)
(* where its _dequeue looks for it and is woken when its call can go on;   *)
(* and a stream delivers what was written to it, whole and in order.       *)
(*                                                                         *)
(* The invariant has three parts.  OwnInv says which objects have which    *)
(* descriptors, WaitInv which task is registered where, and FlowInv what   *)
(* the kernel's files hold and how that fits the calls on them.            *)
(***************************************************************************)
EXTENDS XPSocket, SequenceLemmas

-----------------------------------------------------------------------------
(* The inductive invariant.                                                *)

Objects == [made : BOOLEAN, live : BOOLEAN, s : SocketFd \cup {-1}]

\* The descriptors F and the objects S: each open descriptor is the number of
\* one object, and an object has no other number.
Own(F, S) ==
    /\ F \in [SocketFd -> File \cup {None}] /\ S \in [Obj -> Objects]
    /\ \A o \in Obj : (S[o].live => S[o].made) /\ (S[o].s # -1 => S[o].live /\ F[S[o].s] # None)
    /\ \A d \in SocketFd : F[d] # None => \E o \in Obj : S[o].s = d
    /\ \A o, p \in Obj : S[o].s = S[p].s /\ S[o].s # -1 => o = p

\* A record of the kernel's table, as far as accept needs it.
IsFile(r) == DOMAIN r = {"st", "peer", "in", "backlog", "rd", "wr"} /\ r.backlog \in Seq(File)
Backlogs(G) == DOMAIN G = File /\ \A f \in File : IsFile(G[f])

Ops == {"connect", "accept", "read", "write"}

\* A task is in no call, or in one on a socket that is still there.
CallInv ==
    /\ DOMAIN task = Task
    /\ \A t \in Task : \/ task[t] = Idle
                       \/ task[t].op \in Ops /\ task[t].obj \in Obj /\ sock[task[t].obj].live

\* With Exclusive, no two calls on a socket wait for the same event, and a task
\* that waits is registered for the event and the descriptor of its call.
QueueTypes ==
    /\ readers \in [SocketFd -> Task \cup {None}] /\ writers \in [SocketFd -> Task \cup {None}]
    /\ queued \in [Task -> [_dequeue : {"nil", "R", "W"}, _dequeuedata : SocketFd \cup {-1}]]
Waiting ==
    /\ \A t, u \in Task : t # u /\ task[t].obj = task[u].obj /\ task[t].obj # None =>
          Mode(task[t].op) # Mode(task[u].op)
    /\ \A t \in Task : queued[t]._dequeue # "nil" =>
          /\ task[t].obj \in Obj /\ queued[t]._dequeue = Mode(task[t].op)
          /\ queued[t]._dequeuedata \in SocketFd /\ sock[task[t].obj].s = queued[t]._dequeuedata

OwnInv == Own(fdt, sock) /\ Backlogs(file)
WaitInv == CallInv /\ QueueTypes /\ Waiting /\ Registered
-----------------------------------------------------------------------------
(* Descriptors.                                                            *)

LEMMA FdFacts == SocketAssumption => SocketFd \subseteq Nat /\ -1 \notin SocketFd
BY DEF SocketAssumption

\* A new object gets a descriptor that was free.
LEMMA Opened ==
    ASSUME SocketAssumption, NEW F, NEW S, Own(F, S), NEW d \in SocketFd, F[d] = None, NEW g \in File,
           NEW n \in Obj, ~S[n].made
    PROVE  Own([F EXCEPT ![d] = g], [S EXCEPT ![n] = Object(d)])
<1> DEFINE F1 == [F EXCEPT ![d] = g]
           S1 == [S EXCEPT ![n] = Object(d)]
<1>1. F \in [SocketFd -> File \cup {None}] /\ S \in [Obj -> Objects] /\ -1 \notin SocketFd /\ g # None
  BY FdFacts DEF Own, SocketAssumption
<1>2. Object(d) \in Objects /\ Object(d).live /\ Object(d).made /\ Object(d).s = d
  BY DEF Object, Objects
<1>3. F1 \in [SocketFd -> File \cup {None}] /\ S1 \in [Obj -> Objects]
  BY <1>1, <1>2
<1>4. /\ F1[d] = g /\ \A e \in SocketFd \ {d} : F1[e] = F[e]
      /\ S1[n] = Object(d) /\ \A o \in Obj \ {n} : S1[o] = S[o]
  BY <1>1
<1>5. \A o \in Obj : S[o].s # -1 => S[o].s \in SocketFd /\ S[o].s # d /\ o # n
  BY <1>1 DEF Own, Objects
<1> HIDE DEF F1, S1
<1>6. Own(F1, S1)
  <2>1. \A o \in Obj : (S1[o].live => S1[o].made) /\ (S1[o].s # -1 => S1[o].live /\ F1[S1[o].s] # None)
    BY <1>1, <1>2, <1>4, <1>5 DEF Own
  <2>2. \A e \in SocketFd : F1[e] # None => \E o \in Obj : S1[o].s = e
    BY <1>2, <1>4, <1>5, <1>1 DEF Own
  <2>3. \A o, p \in Obj : S1[o].s = S1[p].s /\ S1[o].s # -1 => o = p
    BY <1>2, <1>4, <1>5 DEF Own
  <2>4. QED
    BY <1>3, <2>1, <2>2, <2>3 DEF Own
<1>7. QED
  BY <1>6 DEF F1, S1

\* With no descriptor left the object stays without one.
LEMMA Without ==
    ASSUME SocketAssumption, NEW F, NEW S, Own(F, S), NEW n \in Obj, ~S[n].made
    PROVE  Own(F, [S EXCEPT ![n] = Object(-1)])
<1> DEFINE S1 == [S EXCEPT ![n] = Object(-1)]
<1>1. S \in [Obj -> Objects] /\ -1 \notin SocketFd
  BY FdFacts DEF Own
<1>2. Object(-1) \in Objects /\ Object(-1).live /\ Object(-1).made /\ Object(-1).s = -1
  BY DEF Object, Objects
<1>3. S1 \in [Obj -> Objects] /\ S1[n] = Object(-1) /\ \A o \in Obj \ {n} : S1[o] = S[o]
  BY <1>1, <1>2
<1>4. S[n].s = -1
  BY DEF Own
<1> HIDE DEF S1
<1>5. \A d \in SocketFd : F[d] # None => \E o \in Obj : S1[o].s = d
  BY <1>1, <1>3, <1>4 DEF Own
<1>6. Own(F, S1)
  BY <1>2, <1>3, <1>5 DEF Own
<1>7. QED
  BY <1>6 DEF S1

\* An object gives up its number, and the descriptor is closed if it had one.
LEMMA GivesUp ==
    ASSUME SocketAssumption, NEW F, NEW S, Own(F, S), NEW o \in Obj, NEW r \in Objects,
           r.made = S[o].made, r.live => S[o].live, r.s = -1
    PROVE  Own(IF S[o].s = -1 THEN F ELSE [F EXCEPT ![S[o].s] = None], [S EXCEPT ![o] = r])
<1> DEFINE F1 == IF S[o].s = -1 THEN F ELSE [F EXCEPT ![S[o].s] = None]
           S1 == [S EXCEPT ![o] = r]
<1>1. F \in [SocketFd -> File \cup {None}] /\ S \in [Obj -> Objects] /\ -1 \notin SocketFd
      /\ (S[o].s # -1 => S[o].s \in SocketFd)
  BY FdFacts DEF Own, Objects
<1>2. /\ F1 \in [SocketFd -> File \cup {None}] /\ S1 \in [Obj -> Objects]
      /\ S1[o] = r /\ \A p \in Obj \ {o} : S1[p] = S[p]
      /\ \A e \in SocketFd : F1[e] = IF e = S[o].s THEN None ELSE F[e]
  BY <1>1
<1> HIDE DEF F1, S1
<1>3. \A p \in Obj : S[p].s # -1 => S[p].s \in SocketFd
  BY <1>1 DEF Objects
<1>4. \A p \in Obj : (S1[p].live => S1[p].made) /\ (S1[p].s # -1 => S1[p].live /\ F1[S1[p].s] # None)
  BY <1>1, <1>2, <1>3 DEF Own
<1>5. \A e \in SocketFd : F1[e] # None => \E p \in Obj : S1[p].s = e
  BY <1>1, <1>2 DEF Own
<1>6. \A p, q \in Obj : S1[p].s = S1[q].s /\ S1[p].s # -1 => p = q
  BY <1>2 DEF Own
<1>7. Own(F1, S1)
  BY <1>2, <1>4, <1>5, <1>6 DEF Own
<1>8. QED
  BY <1>7 DEF F1, S1

\* What CHOOSE finds: an object that was not made, a file that is free.
LEMMA NewObjFacts ==
    ASSUME CanMake(1) \/ CanMake(2)
    PROVE  NewObj \in Obj /\ ~sock[NewObj].made
<1>1. {o \in Obj : ~sock[o].made} # {}
  BY FS_EmptySet DEF CanMake
<1>2. QED
  BY <1>1 DEF NewObj

LEMMA LowestFree ==
    ASSUME SocketAssumption, FreeFds # {}
    PROVE  Min(FreeFds) \in SocketFd /\ fdt[Min(FreeFds)] = None
<1>1. FreeFds \in SUBSET Nat
  BY FdFacts DEF FreeFds
<1>2. QED
  BY <1>1, MinProperties DEF FreeFds

LEMMA NextFreeFacts ==
    ASSUME Free # {}
    PROVE  NextFree \in File /\ NextFree \in Free
BY DEF NextFree, Free

LEMMA SocketOwns ==
    ASSUME SocketAssumption, Own(fdt, sock), NEW t \in Task, Socket(t)
    PROVE  Own(fdt, sock)'
<1>1. NewObj \in Obj /\ ~sock[NewObj].made /\ NextFree \in File
  BY NewObjFacts, NextFreeFacts DEF Socket
<1>2. CASE FreeFds # {}
  BY <1>1, <1>2, LowestFree, Opened DEF Socket
<1>3. CASE FreeFds = {}
  BY <1>1, <1>3, Without DEF Socket, kernel
<1>4. QED
  BY <1>2, <1>3

LEMMA PairOwns ==
    ASSUME SocketAssumption, Own(fdt, sock), NEW t \in Task, Pair(t)
    PROVE  Own(fdt, sock)'
<1> DEFINE a == NewObj
           b == CHOOSE o \in Obj : ~sock[o].made /\ o # a
           da == Min(FreeFds)
           db == Min(FreeFds \ {da})
           f == NextFree
           g == CHOOSE x \in Free : x # f
<1>1. a \in Obj /\ ~sock[a].made /\ b \in Obj /\ ~sock[b].made /\ b # a
  <2>1. a \in Obj /\ ~sock[a].made
    BY NewObjFacts DEF Pair
  <2>2. \E o \in {x \in Obj : ~sock[x].made} : o # a
    BY AtLeastTwo DEF Pair, CanMake
  <2>3. QED
    BY <2>1, <2>2
<1>2. f \in File /\ g \in File
  <2>1. \E x \in Free : x # f
    BY AtLeastTwo DEF Pair
  <2>2. Free # {} /\ g \in Free
    BY <2>1
  <2>3. QED
    BY <2>2, NextFreeFacts DEF Free
<1>3. /\ Cardinality(FreeFds) >= 2 =>
           /\ fdt' = [fdt EXCEPT ![da] = f, ![db] = g]
           /\ sock' = [sock EXCEPT ![a] = Object(da), ![b] = Object(db)]
      /\ ~(Cardinality(FreeFds) >= 2) =>
           fdt' = fdt /\ sock' = [sock EXCEPT ![a] = Object(-1), ![b] = Object(-1)]
  BY DEF Pair, kernel
<1> HIDE DEF a, b, f, g
<1>4. CASE Cardinality(FreeFds) >= 2
  <2>1. FreeFds \in SUBSET Nat /\ FreeFds \in SUBSET SocketFd /\ FreeFds # {} /\ FreeFds \ {da} # {}
    BY <1>4, AtLeastTwo, FdFacts DEF FreeFds
  <2>2. da \in FreeFds /\ db \in FreeFds \ {da}
    BY <2>1, MinProperties
  <2>3. da \in SocketFd /\ db \in SocketFd /\ da # db /\ fdt[da] = None /\ fdt[db] = None
    BY <2>2 DEF FreeFds
  <2> HIDE DEF da, db
  <2> DEFINE F1 == [fdt EXCEPT ![da] = f]
             S1 == [sock EXCEPT ![a] = Object(da)]
  <2>4. Own(F1, S1)
    BY <1>1, <1>2, <2>3, Opened
  <2>5. F1[db] = None /\ ~S1[b].made
    BY <1>1, <2>3 DEF Own
  <2>6. fdt' = [F1 EXCEPT ![db] = g] /\ sock' = [S1 EXCEPT ![b] = Object(db)]
    BY <1>3, <1>4
  <2> HIDE DEF F1, S1
  <2>7. QED
    BY <1>1, <1>2, <2>3, <2>4, <2>5, <2>6, Opened
<1>5. CASE ~(Cardinality(FreeFds) >= 2)
  <2> DEFINE S1 == [sock EXCEPT ![a] = Object(-1)]
  <2>1. Own(fdt, S1) /\ ~S1[b].made
    BY <1>1, Without DEF Own
  <2>2. fdt' = fdt /\ sock' = [S1 EXCEPT ![b] = Object(-1)]
    BY <1>3, <1>5
  <2> HIDE DEF S1
  <2>3. QED
    BY <1>1, <2>1, <2>2, Without
<1>6. QED
  BY <1>4, <1>5

LEMMA FdopenOwns ==
    ASSUME SocketAssumption, Own(fdt, sock), NEW t \in Task, Fdopen(t)
    PROVE  Own(fdt, sock)'
<1>1. PICK o \in Obj :
        LET d == dup(sock[o].s)
        IN /\ sock[o].s # -1
           /\ fdt' = IF d = -1 THEN fdt ELSE [fdt EXCEPT ![d] = FileOf(o)]
           /\ sock' = [sock EXCEPT ![NewObj] = Object(d)]
  BY DEF Fdopen
<1>2. NewObj \in Obj /\ ~sock[NewObj].made
  BY NewObjFacts DEF Fdopen
<1>3. CASE FreeFds = {}
  BY <1>1, <1>2, <1>3, Without DEF dup
<1>4. CASE FreeFds # {}
  <2>1. Min(FreeFds) \in SocketFd /\ fdt[Min(FreeFds)] = None /\ Min(FreeFds) # -1
    BY <1>4, LowestFree, FdFacts
  <2>2. FileOf(o) \in File
    BY <1>1 DEF FileOf, Own, Objects
  <2>3. QED
    BY <1>1, <1>2, <1>4, <2>1, <2>2, Opened DEF dup
<1>5. QED
  BY <1>3, <1>4

LEMMA CloseOwns ==
    ASSUME SocketAssumption, Own(fdt, sock), NEW t \in Task, Close(t)
    PROVE  Own(fdt, sock)'
<1>1. PICK o \in Obj : fdt' = Descriptors(sock[o].s) /\ sock' = [sock EXCEPT ![o] = Closed(o)]
  BY DEF Close
<1>2. Closed(o) \in Objects /\ Closed(o).made = sock[o].made /\ Closed(o).live = sock[o].live
      /\ Closed(o).s = -1
  BY DEF Own, Objects, Closed
<1>3. QED
  BY <1>1, <1>2, GivesUp DEF Descriptors

LEMMA CollectOwns ==
    ASSUME SocketAssumption, 0 \notin SocketFd, Own(fdt, sock), NEW o \in Obj, Collect(o)
    PROVE  Own(fdt, sock)'
<1> DEFINE r == [sock[o] EXCEPT !.live = FALSE, !.s = -1]
<1>1. sock[o] \in Objects /\ sock[o].s # 0
  BY DEF Own, Objects
<1>2. fdt' = Descriptors(sock[o].s) /\ sock' = [sock EXCEPT ![o] = r]
  BY <1>1 DEF Collect
<1>3. r \in Objects /\ r.made = sock[o].made /\ ~r.live /\ r.s = -1
  BY <1>1 DEF Objects
<1> HIDE DEF r
<1>4. QED
  BY <1>2, <1>3, GivesUp DEF Descriptors

LEMMA AcceptOwns ==
    ASSUME SocketAssumption, OwnInv, NEW t \in Task, Accept(t)
    PROVE  Own(fdt, sock)'
<1> DEFINE listening(f) == f # None /\ file[f].st = "listen"
<1>1. PICK o \in Obj :
         LET f == FileOf(o)
         IN  IF listening(f) /\ file[f].backlog # <<>> /\ FreeFds # {}
             THEN /\ CanMake(1)
                  /\ fdt' = [fdt EXCEPT ![Min(FreeFds)] = Head(file[f].backlog)]
                  /\ sock' = [sock EXCEPT ![NewObj] = Object(Min(FreeFds))]
             ELSE UNCHANGED <<fdt, sock>>
  BY DEF Accept, kernel
<1> DEFINE f == FileOf(o)
<1>2. CASE listening(f) /\ file[f].backlog # <<>> /\ FreeFds # {}
  <2>1. f \in File
    BY <1>2 DEF OwnInv, Own, FileOf, Objects
  <2>2. file[f].backlog \in Seq(File) /\ file[f].backlog # <<>>
    BY <1>2, <2>1 DEF OwnInv, Backlogs, IsFile
  <2>3. Head(file[f].backlog) \in File
    BY <2>2
  <2>4. /\ CanMake(1)
        /\ fdt' = [fdt EXCEPT ![Min(FreeFds)] = Head(file[f].backlog)]
        /\ sock' = [sock EXCEPT ![NewObj] = Object(Min(FreeFds))]
    BY <1>1, <1>2
  <2>5. NewObj \in Obj /\ ~sock[NewObj].made /\ Min(FreeFds) \in SocketFd /\ fdt[Min(FreeFds)] = None
    BY <1>2, <2>4, NewObjFacts, LowestFree
  <2>6. QED
    BY <2>3, <2>4, <2>5, Opened DEF OwnInv
<1>3. CASE ~(listening(f) /\ file[f].backlog # <<>> /\ FreeFds # {})
  BY <1>1, <1>3 DEF OwnInv
<1>4. QED
  BY <1>2, <1>3

-----------------------------------------------------------------------------
(* The kernel's files: only files are in a backlog.                        *)

LEMMA FileRecords ==
    /\ IsFile(NoFile) /\ \A g : IsFile(Connection(g))
    /\ \A r, x : IsFile(r) => /\ IsFile([r EXCEPT !.st = x]) /\ IsFile([r EXCEPT !.peer = x])
                              /\ IsFile([r EXCEPT !.in = x])
    /\ \A r, x, y : IsFile(r) => IsFile([r EXCEPT !.rd = x, !.wr = y])
    /\ \A r : \A x \in Seq(File) : IsFile(r) => IsFile([r EXCEPT !.backlog = x])
BY DEF IsFile, NoFile, Connection

LEMMA FileSet ==
    ASSUME NEW G, Backlogs(G), NEW f, NEW r, IsFile(r)
    PROVE  Backlogs([G EXCEPT ![f] = r])
BY DEF Backlogs

LEMMA ClosedFiles ==
    ASSUME Backlogs(file), NEW s
    PROVE  Backlogs(Files(s))
<1>1. \A f \in File : IsFile(file[f]) /\ IsFile([file[f] EXCEPT !.peer = None]) /\ IsFile(NoFile)
  BY FileRecords DEF Backlogs
<1>2. DOMAIN ClosedBy(s) = File
  BY DEF ClosedBy
<1>3. \A f \in File : ClosedBy(s)[f] \in {NoFile, file[f], [file[f] EXCEPT !.peer = None]}
  BY DEF ClosedBy
<1>4. Backlogs(ClosedBy(s))
  BY <1>1, <1>2, <1>3 DEF Backlogs
<1>5. QED
  BY <1>4 DEF Files

LEMMA FilesKept ==
    ASSUME OwnInv, SocketNext
    PROVE  Backlogs(file)'
<1>1. Backlogs(file) /\ \A f \in File : IsFile(file[f])
  BY DEF OwnInv, Backlogs
<1>2. \A o \in Obj : FileOf(o) \in File \cup {None}
  BY DEF OwnInv, Own, Objects, FileOf
<1>3. ASSUME NEW f, NEW x PROVE Backlogs([file EXCEPT ![f].st = x]) /\ Backlogs([file EXCEPT ![f].in = x])
  <2>1. CASE f \in File
    BY <1>1, <2>1, FileSet, FileRecords
  <2>2. CASE f \notin File
    BY <1>1, <2>2 DEF Backlogs
  <2>3. QED
    BY <2>1, <2>2
<1>4. ASSUME NEW f \in File, NEW x \in Seq(File) PROVE Backlogs([file EXCEPT ![f].backlog = x])
  BY <1>1, FileSet, FileRecords
<1>5. ASSUME NEW t \in Task, Socket(t) \/ Listen(t) \/ Connect(t) \/ Fdopen(t) \/ Kill(t)
      PROVE  Backlogs(file')
  <2>1. file' = file \/ \E f, x : file' = [file EXCEPT ![f].st = x]
    BY <1>5 DEF Socket, Listen, Connect, Fdopen, Kill, kernel
  <2>2. ASSUME NEW f, NEW x, file' = [file EXCEPT ![f].st = x]
        PROVE  Backlogs(file')
    BY <1>3, <2>2
  <2>3. QED
    BY <1>1, <2>1, <2>2
<1>6. ASSUME NEW t \in Task, Pair(t)
      PROVE  Backlogs(file')
  <2>1. file' = file \/ \E f, g : file' = [file EXCEPT ![f] = Connection(g), ![g] = Connection(f)]
    BY <1>6 DEF Pair, kernel
  <2>2. ASSUME NEW f, NEW g PROVE Backlogs([file EXCEPT ![f] = Connection(g), ![g] = Connection(f)])
    <3>1. Backlogs([file EXCEPT ![f] = Connection(g)])
      BY <1>1, FileSet, FileRecords
    <3>2. QED
      BY <3>1, FileSet, FileRecords
  <2>3. QED
    BY <1>1, <2>1, <2>2
<1>7. ASSUME NEW t \in Task, Close(t)
      PROVE  Backlogs(file')
  BY <1>1, <1>7, ClosedFiles DEF Close
<1>8. ASSUME NEW o \in Obj, Collect(o)
      PROVE  Backlogs(file')
  BY <1>1, <1>8, ClosedFiles DEF Collect
<1>9. ASSUME NEW t \in Task, Shutdown(t)
      PROVE  Backlogs(file')
  <2>1. PICK o \in Obj, r, w \in BOOLEAN :
           file' = [file EXCEPT ![FileOf(o)].rd = @ /\ ~r, ![FileOf(o)].wr = @ /\ ~w]
           /\ FileOf(o) # None
    BY <1>9 DEF Shutdown
  <2>2. PICK f \in File : f = FileOf(o)
    BY <1>2, <2>1
  <2>3. PICK x : x = file'[f]
    OBVIOUS
  <2>4. file' = [file EXCEPT ![f] = x] /\ IsFile(x)
    <3>1. IsFile(file[f])
      BY <1>1
    <3>2. DOMAIN x = DOMAIN file[f] /\ x.backlog = file[f].backlog
      BY <1>1, <2>1, <2>2, <2>3, <3>1 DEF IsFile, Backlogs
    <3>3. file' = [file EXCEPT ![f] = x]
      BY <1>1, <2>1, <2>2, <2>3 DEF Backlogs
    <3>4. QED
      BY <3>1, <3>2, <3>3 DEF IsFile
  <2>5. QED
    BY <1>1, <2>4, FileSet
<1>10. ASSUME NEW t \in Task, Accept(t)
       PROVE  Backlogs(file')
  <2>1. PICK o \in Obj :
          \/ file' = file
          \/ /\ FileOf(o) # None /\ file[FileOf(o)].backlog # <<>>
             /\ file' = [file EXCEPT ![FileOf(o)].backlog = Tail(@)]
    BY <1>10 DEF Accept, kernel
  <2>2. CASE file' # file
    <3>1. FileOf(o) \in File /\ file[FileOf(o)].backlog \in Seq(File) /\ file[FileOf(o)].backlog # <<>>
      BY <1>1, <1>2, <2>1, <2>2 DEF IsFile
    <3>2. Tail(file[FileOf(o)].backlog) \in Seq(File)
      BY <3>1
    <3>3. QED
      BY <1>4, <2>1, <2>2, <3>1, <3>2
  <2>3. QED
    BY <1>1, <2>1, <2>2
<1>11. ASSUME NEW t \in Task, SocketRead(t) \/ Write(t)
       PROVE  Backlogs(file')
  <2>1. file' = file \/ \E f, x : file' = [file EXCEPT ![f].in = x]
    <3>1. CASE SocketRead(t)
      BY <3>1 DEF SocketRead
    <3>2. CASE Write(t)
      BY <3>2 DEF Write
    <3>3. QED
      BY <1>11, <3>1, <3>2
  <2>2. ASSUME NEW f, NEW x, file' = [file EXCEPT ![f].in = x]
        PROVE  Backlogs(file')
    BY <1>3, <2>2
  <2>3. QED
    BY <1>1, <2>1, <2>2
<1>12. ASSUME NEW f \in File, Establish(f)
       PROVE  Backlogs(file')
  <2> DEFINE g == NextFree
  <2>1. PICK l \in File :
           /\ file[l].st = "listen"
           /\ file' = [file EXCEPT ![f] = Connection(g), ![g] = Connection(f), ![l].backlog = Append(@, g)]
    BY <1>12 DEF Establish
  <2>2. g \in File /\ l # f /\ l # g
    BY <1>12, <2>1, NextFreeFacts DEF Establish, Free
  <2> HIDE DEF g
  <2>3. /\ DOMAIN file' = File
        /\ \A x \in File \ {l} : file'[x] \in {file[x], Connection(f), Connection(g)}
        /\ file'[l] = [file[l] EXCEPT !.backlog = Append(file[l].backlog, g)]
    BY <1>1, <2>1, <2>2 DEF Backlogs
  <2>4. file[l].backlog \in Seq(File)
    BY <1>1 DEF IsFile
  <2>5. Append(file[l].backlog, g) \in Seq(File)
    BY <2>2, <2>4
  <2>6. IsFile(file'[l])
    <3>1. PICK x \in Seq(File) : x = Append(file[l].backlog, g)
      BY <2>5
    <3>2. IsFile([file[l] EXCEPT !.backlog = x])
      BY <1>1, FileRecords
    <3>3. QED
      BY <2>3, <3>1, <3>2
  <2>7. \A x \in File \ {l} : IsFile(file'[x])
    BY <1>1, <2>3, FileRecords
  <2>8. QED
    BY <2>3, <2>6, <2>7 DEF Backlogs
<1>13. ASSUME NEW f \in File, Refuse(f)
       PROVE  Backlogs(file')
  BY <1>3, <1>13 DEF Refuse
<1>14. CASE Poll
  BY <1>1, <1>14 DEF Poll, kernel
<1>15. QED
  BY <1>5, <1>6, <1>7, <1>8, <1>9, <1>10, <1>11, <1>12, <1>13, <1>14 DEF SocketNext

LEMMA OwnInit == SocketInit => OwnInv
<1> SUFFICES ASSUME SocketInit PROVE OwnInv
  OBVIOUS
<1>1. Own(fdt, sock)
  BY DEF SocketInit, Own, Objects
<1>2. Backlogs(file)
  BY FileRecords DEF SocketInit, Backlogs
<1>3. QED
  BY <1>1, <1>2 DEF OwnInv

LEMMA OwnKept ==
    ASSUME SocketAssumption, 0 \notin SocketFd, OwnInv, [SocketNext]_socketVars
    PROVE  OwnInv'
<1>1. CASE UNCHANGED socketVars
  BY <1>1 DEF socketVars, OwnInv
<1>2. CASE SocketNext
  <2>1. Own(fdt, sock)
    BY DEF OwnInv
  <2>2. ASSUME NEW t \in Task,
               Shutdown(t) \/ Listen(t) \/ Connect(t) \/ SocketRead(t) \/ Write(t) \/ Kill(t)
        PROVE  Own(fdt, sock)'
    <3>1. UNCHANGED <<fdt, sock>>
      BY <2>2 DEF Shutdown, Listen, Connect, SocketRead, Write, Kill, kernel
    <3>2. QED
      BY <2>1, <3>1
  <2>3. ASSUME Poll \/ \E f \in File : Establish(f) \/ Refuse(f)
        PROVE  Own(fdt, sock)'
    <3>1. fdt' = fdt /\ sock' = sock
      BY <2>3 DEF Poll, Establish, Refuse, kernel
    <3>2. QED
      BY <2>1, <3>1
  <2>4. ASSUME NEW t \in Task, Socket(t) \/ Pair(t) \/ Fdopen(t) \/ Close(t) \/ Accept(t)
        PROVE  Own(fdt, sock)'
    BY <2>1, <2>4, SocketOwns, PairOwns, FdopenOwns, CloseOwns, AcceptOwns
  <2>5. ASSUME NEW o \in Obj, Collect(o)
        PROVE  Own(fdt, sock)'
    BY <2>1, <2>5, CollectOwns
  <2>6. Own(fdt, sock)'
    BY <1>2, <2>2, <2>3, <2>4, <2>5 DEF SocketNext
  <2>7. QED
    BY <1>2, <2>6, FilesKept DEF OwnInv
<1>3. QED
  BY <1>1, <1>2

LEMMA OwnersAreUnique ==
    ASSUME SocketAssumption, OwnInv
    PROVE  OwnsDescriptor
<1>1. ASSUME NEW d \in SocketFd, fdt[d] # None
      PROVE  Cardinality({o \in Obj : sock[o].live /\ sock[o].s = d}) = 1
  <2>1. PICK o \in Obj : sock[o].s = d
    BY <1>1 DEF OwnInv, Own
  <2>2. d # -1
    BY FdFacts
  <2>3. {p \in Obj : sock[p].live /\ sock[p].s = d} = {o}
    BY <2>1, <2>2 DEF OwnInv, Own
  <2>4. QED
    BY <2>3, FS_Singleton
<1>2. QED
  BY <1>1 DEF OwnsDescriptor, OwnInv, Own

-----------------------------------------------------------------------------
(* The queue.                                                              *)

LEMMA WaitInit == SocketAssumption /\ SocketInit => WaitInv
<1> SUFFICES ASSUME SocketAssumption, SocketInit PROVE WaitInv
  OBVIOUS
<1>1. CallInv
  BY DEF SocketInit, CallInv
<1>2. QueueTypes
  BY DEF SocketInit, QueueTypes, NotQueued
<1>3. Waiting
  BY DEF SocketInit, Waiting, NotQueued, Idle
<1>4. Registered
  BY DEF SocketInit, Registered, NotQueued, SocketAssumption
<1>5. QED
  BY <1>1, <1>2, <1>3, <1>4 DEF WaitInv

\* A step that leaves calls and queue alone, and the sockets of the calls.
LEMMA UsedKept ==
    ASSUME WaitInv, UNCHANGED <<task, queue>>,
           \A t \in Task : task[t].obj \in Obj => sock'[task[t].obj] = sock[task[t].obj]
    PROVE  WaitInv'
<1>1. task' = task /\ readers' = readers /\ writers' = writers /\ queued' = queued
  BY DEF queue
<1>2. CallInv'
  BY <1>1 DEF WaitInv, CallInv
<1>3. QueueTypes' /\ Registered'
  BY <1>1 DEF WaitInv, QueueTypes, Registered
<1>4. Waiting'
  BY <1>1 DEF WaitInv, Waiting
<1>5. QED
  BY <1>2, <1>3, <1>4 DEF WaitInv

\* What holds of a task whose call runs.
LEMMA RunningCall ==
    ASSUME SocketAssumption, Exclusive, WaitInv, NEW t \in Task, NEW op \in Ops, NEW o \in Obj,
           InCall(t, op, o)
    PROVE  /\ queued[t]._dequeue = "nil" /\ sock[o].live
           /\ \A u \in Task \ {t} : task[u].obj = o => Mode(task[u].op) # Mode(op)
<1>1. None \notin Obj /\ Idle.obj = None
  BY DEF SocketAssumption, Idle
<1>2. CASE MayCall(t, op) /\ sock[o].live /\ (Exclusive => \A u \in Sharing(o) : Mode(task[u].op) # Mode(op))
  <2>1. task[t] = Idle /\ task[t].obj \notin Obj
    BY <1>1, <1>2 DEF MayCall
  <2>2. queued[t]._dequeue = "nil"
    BY <2>1 DEF WaitInv, Waiting
  <2>3. \A u \in Task : task[u].obj = o => u \in Sharing(o)
    BY <1>1 DEF Sharing
  <2>4. QED
    BY <1>2, <2>2, <2>3
<1>3. CASE task[t].op = op /\ task[t].obj = o /\ queued[t]._dequeue = "nil"
  <2>1. task[t] # Idle
    BY <1>1, <1>3
  <2>2. sock[o].live
    BY <1>3, <2>1 DEF WaitInv, CallInv
  <2>3. \A u \in Task \ {t} : task[u].obj = o => Mode(task[u].op) # Mode(op)
    BY <1>1, <1>3 DEF WaitInv, Waiting
  <2>4. QED
    BY <1>3, <2>2, <2>3
<1>4. QED
  BY <1>2, <1>3 DEF InCall

LEMMA ReturnsKept ==
    ASSUME SocketAssumption, Exclusive, WaitInv, NEW t \in Task, NEW op \in Ops, NEW o \in Obj,
           InCall(t, op, o), Returns(t),
           \A u \in Task : task[u].obj \in Obj => sock'[task[u].obj] = sock[task[u].obj]
    PROVE  WaitInv'
<1>1. queued[t]._dequeue = "nil"
  BY RunningCall
<1>2. /\ readers' = readers /\ writers' = writers /\ queued' = queued /\ DOMAIN task' = Task
      /\ task'[t] = Idle /\ \A u \in Task \ {t} : task'[u] = task[u]
  BY DEF Returns, queue, WaitInv, CallInv
<1>3. Idle.obj = None /\ None \notin Obj
  BY DEF Idle, SocketAssumption
<1>4. CallInv'
  BY <1>2 DEF WaitInv, CallInv
<1>5. QueueTypes' /\ Registered'
  BY <1>2 DEF WaitInv, QueueTypes, Registered
<1>6. Waiting'
  BY <1>1, <1>2, <1>3 DEF WaitInv, Waiting
<1>7. QED
  BY <1>4, <1>5, <1>6 DEF WaitInv

\* A task is registered: nobody else was there, because the socket is the only
\* one with the descriptor and the call the only one on it for this event.
LEMMA WaitsKept ==
    ASSUME SocketAssumption, Exclusive, OwnInv, WaitInv, NEW t \in Task, NEW op \in Ops, NEW o \in Obj,
           NEW left, InCall(t, op, o), Waits(t, op, o, left), sock[o].s # -1, sock' = sock
    PROVE  WaitInv'
<1> PICK d, m : d = sock[o].s /\ m = Mode(op)
  OBVIOUS
<1>1. d \in SocketFd /\ m \in {"R", "W"} /\ None \notin Task /\ None \notin Obj
  BY DEF OwnInv, Own, Objects, Mode, SocketAssumption
<1>2. /\ queued[t]._dequeue = "nil" /\ sock[o].live
      /\ \A u \in Task \ {t} : task[u].obj = o => Mode(task[u].op) # m
  BY RunningCall
<1> DEFINE call == [op |-> op, obj |-> o, left |-> left]
           entry == [_dequeue |-> m, _dequeuedata |-> d]
<1>3. /\ DOMAIN task' = Task /\ task'[t] = call /\ \A u \in Task \ {t} : task'[u] = task[u]
      /\ readers' = IF m = "R" THEN [readers EXCEPT ![d] = t] ELSE readers
      /\ writers' = IF m = "W" THEN [writers EXCEPT ![d] = t] ELSE writers
      /\ queued' = [queued EXCEPT ![t] = entry]
  BY DEF Waits, xpqueue_enqueue, WaitInv, CallInv
<1>4. QueueTypes
  BY DEF WaitInv
<1>5. /\ queued'[t] = entry /\ \A u \in Task \ {t} : queued'[u] = queued[u]
      /\ QueueTypes'
      /\ \A e \in SocketFd : readers'[e] = IF m = "R" /\ e = d THEN t ELSE readers[e]
      /\ \A e \in SocketFd : writers'[e] = IF m = "W" /\ e = d THEN t ELSE writers[e]
  BY <1>1, <1>3, <1>4 DEF QueueTypes
<1>6. call.op = op /\ call.obj = o /\ entry._dequeue = m /\ entry._dequeuedata = d
  OBVIOUS
<1>7. \A u \in Task \ {t} : queued[u] # entry
  <2> SUFFICES ASSUME NEW u \in Task \ {t}, queued[u] = entry PROVE FALSE
    OBVIOUS
  <2>1. queued[u]._dequeue = m /\ queued[u]._dequeuedata = d /\ m # "nil"
    BY <1>1, <1>6
  <2>2. task[u].obj \in Obj /\ Mode(task[u].op) = m /\ sock[task[u].obj].s = d
    BY <2>1 DEF WaitInv, Waiting
  <2>3. task[u].obj = o
    BY <2>2 DEF OwnInv, Own
  <2>4. QED
    BY <1>2, <2>2, <2>3
<1> HIDE DEF call, entry
<1>8. CallInv'
  <2>1. task'[t].op \in Ops /\ task'[t].obj \in Obj /\ sock'[task'[t].obj].live
    BY <1>2, <1>3, <1>6
  <2>2. QED
    BY <1>3, <2>1 DEF WaitInv, CallInv
<1>9. Waiting'
  <2>1. ASSUME NEW u \in Task, NEW v \in Task, u # v, task'[u].obj = task'[v].obj, task'[u].obj # None
        PROVE  Mode(task'[u].op) # Mode(task'[v].op)
    <3>1. CASE u = t
      BY <1>2, <1>3, <1>6, <2>1, <3>1
    <3>2. CASE v = t
      BY <1>2, <1>3, <1>6, <2>1, <3>2
    <3>3. CASE u # t /\ v # t
      BY <1>3, <2>1, <3>3 DEF WaitInv, Waiting
    <3>4. QED
      BY <3>1, <3>2, <3>3
  <2>2. ASSUME NEW u \in Task, queued'[u]._dequeue # "nil"
        PROVE  /\ task'[u].obj \in Obj /\ queued'[u]._dequeue = Mode(task'[u].op)
               /\ queued'[u]._dequeuedata \in SocketFd /\ sock'[task'[u].obj].s = queued'[u]._dequeuedata
    <3>1. CASE u = t
      BY <1>1, <1>3, <1>5, <1>6, <3>1
    <3>2. CASE u # t
      BY <1>3, <1>5, <2>2, <3>2 DEF WaitInv, Waiting
    <3>3. QED
      BY <3>1, <3>2
  <2>3. QED
    BY <2>1, <2>2 DEF Waiting
<1>10. Registered'
  <2> SUFFICES ASSUME NEW u \in Task, NEW e \in SocketFd
               PROVE  /\ readers'[e] = u <=> queued'[u] = [_dequeue |-> "R", _dequeuedata |-> e]
                      /\ writers'[e] = u <=> queued'[u] = [_dequeue |-> "W", _dequeuedata |-> e]
    BY DEF Registered
  <2>1. /\ readers[e] = u <=> queued[u] = [_dequeue |-> "R", _dequeuedata |-> e]
        /\ writers[e] = u <=> queued[u] = [_dequeue |-> "W", _dequeuedata |-> e]
    BY DEF WaitInv, Registered
  <2>2. CASE u = t
    BY <1>1, <1>2, <1>5, <2>1, <2>2 DEF entry
  <2>3. CASE u # t
    BY <1>1, <1>5, <1>7, <2>1, <2>3 DEF entry
  <2>4. QED
    BY <2>2, <2>3
<1>11. QED
  BY <1>5, <1>8, <1>9, <1>10 DEF WaitInv

LEMMA UsedFacts ==
    ASSUME SocketAssumption, OwnInv, WaitInv, NEW t \in Task, task[t].obj \in Obj
    PROVE  sock[task[t].obj].live /\ sock[task[t].obj].made
<1>1. task[t] # Idle
  BY DEF Idle, SocketAssumption
<1>2. QED
  BY <1>1 DEF WaitInv, CallInv, OwnInv, Own

LEMMA MakersKept ==
    ASSUME SocketAssumption, OwnInv, WaitInv, NEW t \in Task, Socket(t) \/ Pair(t) \/ Fdopen(t)
    PROVE  WaitInv'
<1>1. UNCHANGED <<task, queue>>
  BY DEF Socket, Pair, Fdopen
<1>2. \A o \in Obj : sock[o].made => sock'[o] = sock[o]
  <2>1. CASE Socket(t)
    <3>1. ~sock[NewObj].made /\ \E x : sock' = [sock EXCEPT ![NewObj] = x]
      BY <2>1, NewObjFacts DEF Socket
    <3>2. QED
      BY <3>1 DEF OwnInv, Own
  <2>2. CASE Pair(t)
    <3> DEFINE b == CHOOSE o \in Obj : ~sock[o].made /\ o # NewObj
    <3>1. \E o \in {x \in Obj : ~sock[x].made} : o # NewObj
      BY <2>2, AtLeastTwo DEF Pair, CanMake
    <3>2. ~sock[NewObj].made /\ ~sock[b].made
      BY <2>2, <3>1, NewObjFacts DEF Pair
    <3>3. \E x, y : sock' = [sock EXCEPT ![NewObj] = x, ![b] = y]
      <4> DEFINE da == Min(FreeFds)
                 db == Min(FreeFds \ {da})
      <4>1. \/ sock' = [sock EXCEPT ![NewObj] = Object(da), ![b] = Object(db)]
            \/ sock' = [sock EXCEPT ![NewObj] = Object(-1), ![b] = Object(-1)]
        BY <2>2 DEF Pair
      <4> HIDE DEF b, da, db
      <4>2. QED
        BY <4>1
    <3> HIDE DEF b
    <3>4. QED
      BY <3>2, <3>3 DEF OwnInv, Own
  <2>3. CASE Fdopen(t)
    <3>1. ~sock[NewObj].made /\ \E x : sock' = [sock EXCEPT ![NewObj] = x]
      BY <2>3, NewObjFacts DEF Fdopen
    <3>2. QED
      BY <3>1 DEF OwnInv, Own
  <2>4. QED
    BY <2>1, <2>2, <2>3
<1>3. QED
  BY <1>1, <1>2, UsedFacts, UsedKept

LEMMA ClosersKept ==
    ASSUME SocketAssumption, Exclusive, OwnInv, WaitInv,
           (\E t \in Task : Close(t)) \/ (\E o \in Obj : Collect(o))
    PROVE  WaitInv'
<1>1. UNCHANGED <<task, queue>>
  BY DEF Close, Collect
<1>2. PICK o \in Obj : InCallOn(o) = {} /\ \E x : sock' = [sock EXCEPT ![o] = x]
  BY DEF Close, Collect
<1>3. \A p \in Obj \ {o} : sock'[p] = sock[p]
  BY <1>2 DEF OwnInv, Own
<1>4. \A t \in Task : task[t].obj # o
  BY <1>2 DEF InCallOn
<1>5. QED
  BY <1>1, <1>3, <1>4, UsedKept

LEMMA HasDescriptor ==
    ASSUME NEW o \in Obj, FileOf(o) # None
    PROVE  sock[o].s # -1
BY DEF FileOf

LEMMA ConnectKept ==
    ASSUME SocketAssumption, Exclusive, OwnInv, WaitInv, NEW t \in Task, Connect(t)
    PROVE  WaitInv'
<1>1. PICK o \in Obj :
         /\ InCall(t, "connect", o) /\ sock' = sock
         /\ (FileOf(o) # None /\ Waits(t, "connect", o, <<>>)) \/ Returns(t)
  BY DEF Connect
<1>2. "connect" \in Ops
  BY DEF Ops
<1>3. QED
  BY <1>1, <1>2, ReturnsKept, WaitsKept, HasDescriptor

LEMMA AcceptKept ==
    ASSUME SocketAssumption, Exclusive, OwnInv, WaitInv, NEW t \in Task, Accept(t)
    PROVE  WaitInv'
<1>1. PICK o \in Obj :
         /\ InCall(t, "accept", o)
         /\ \/ FileOf(o) # None /\ Waits(t, "accept", o, <<>>) /\ sock' = sock
            \/ Returns(t) /\ sock' = sock
            \/ Returns(t) /\ CanMake(1) /\ \E x : sock' = [sock EXCEPT ![NewObj] = x]
  BY DEF Accept, kernel
<1>2. "accept" \in Ops
  BY DEF Ops
<1>3. CASE sock' = sock
  BY <1>1, <1>2, <1>3, ReturnsKept, WaitsKept, HasDescriptor
<1>4. CASE Returns(t) /\ CanMake(1) /\ \E x : sock' = [sock EXCEPT ![NewObj] = x]
  <2>1. \A p \in Obj : sock[p].made => sock'[p] = sock[p]
    BY <1>4, NewObjFacts DEF OwnInv, Own
  <2>2. QED
    BY <1>1, <1>2, <1>4, <2>1, UsedFacts, ReturnsKept
<1>5. QED
  BY <1>1, <1>3, <1>4

LEMMA ReadKept ==
    ASSUME SocketAssumption, Exclusive, OwnInv, WaitInv, NEW t \in Task, SocketRead(t)
    PROVE  WaitInv'
<1>1. PICK o \in Obj :
         /\ InCall(t, "read", o) /\ sock' = sock
         /\ (FileOf(o) # None /\ Waits(t, "read", o, <<>>)) \/ Returns(t)
  BY DEF SocketRead
<1>2. "read" \in Ops
  BY DEF Ops
<1>3. QED
  BY <1>1, <1>2, ReturnsKept, WaitsKept, HasDescriptor

LEMMA WriteKept ==
    ASSUME SocketAssumption, Exclusive, OwnInv, WaitInv, NEW t \in Task, Write(t)
    PROVE  WaitInv'
<1>1. PICK o \in Obj :
         /\ InCall(t, "write", o) /\ sock' = sock
         /\ (FileOf(o) # None /\ \E left : Waits(t, "write", o, left)) \/ Returns(t)
  BY DEF Write
<1>2. "write" \in Ops
  BY DEF Ops
<1>3. QED
  BY <1>1, <1>2, ReturnsKept, WaitsKept, HasDescriptor

Entry(m, d) == [_dequeue |-> m, _dequeuedata |-> d]

LEMMA EntriesDiffer == \A m, n, d, e : Entry(m, d) = Entry(n, e) <=> m = n /\ d = e
BY DEF Entry

LEMMA EntryOf ==
    ASSUME Registered
    PROVE  \A t \in Task, d \in SocketFd : /\ readers[d] = t <=> queued[t] = Entry("R", d)
                                           /\ writers[d] = t <=> queued[t] = Entry("W", d)
BY DEF Registered, Entry

\* Tasks are taken off the queue, all that have an entry in R or W.
LEMMA DequeuedKept ==
    ASSUME SocketAssumption, WaitInv, NEW Gone \in SUBSET Task, sock' = sock,
           DOMAIN task' = Task,
           \A t \in Task : task'[t] = task[t] \/ (t \in Gone /\ task'[t] = Idle),
           queued' = [t \in Task |-> IF t \in Gone THEN NotQueued ELSE queued[t]],
           readers' = [d \in SocketFd |-> IF readers[d] \in Gone THEN None ELSE readers[d]],
           writers' = [d \in SocketFd |-> IF writers[d] \in Gone THEN None ELSE writers[d]]
    PROVE  WaitInv'
<1>1. None \notin Task /\ None \notin Obj /\ Idle.obj = None
  BY DEF SocketAssumption, Idle
<1>2. NotQueued._dequeue = "nil" /\ NotQueued \in [_dequeue : {"nil", "R", "W"}, _dequeuedata : SocketFd \cup {-1}]
  BY DEF NotQueued
<1>3. /\ \A t \in Task \ Gone : queued'[t] = queued[t] /\ task'[t] = task[t]
      /\ \A t \in Gone : queued'[t] = NotQueued
  OBVIOUS
<1>4. CallInv'
  BY DEF WaitInv, CallInv
<1>5. QueueTypes'
  BY <1>2 DEF WaitInv, QueueTypes
<1>6. Waiting'
  BY <1>1, <1>2, <1>3 DEF WaitInv, Waiting
<1>7. Registered'
  <2> SUFFICES ASSUME NEW u \in Task, NEW e \in SocketFd
               PROVE  /\ readers'[e] = u <=> queued'[u] = [_dequeue |-> "R", _dequeuedata |-> e]
                      /\ writers'[e] = u <=> queued'[u] = [_dequeue |-> "W", _dequeuedata |-> e]
    BY DEF Registered
  <2>1. /\ readers[e] = u <=> queued[u] = [_dequeue |-> "R", _dequeuedata |-> e]
        /\ writers[e] = u <=> queued[u] = [_dequeue |-> "W", _dequeuedata |-> e]
    BY DEF WaitInv, Registered
  <2>2. CASE u \in Gone
    <3>1. readers'[e] # u /\ writers'[e] # u
      BY <1>1, <2>2
    <3>2. /\ queued'[u] # [_dequeue |-> "R", _dequeuedata |-> e]
          /\ queued'[u] # [_dequeue |-> "W", _dequeuedata |-> e]
      BY <1>3, <2>2 DEF NotQueued
    <3>3. QED
      BY <3>1, <3>2
  <2>3. CASE u \notin Gone
    <3>1. (readers'[e] = u <=> readers[e] = u) /\ (writers'[e] = u <=> writers[e] = u)
      BY <1>1, <2>3
    <3>2. QED
      BY <1>3, <2>1, <2>3, <3>1
  <2>4. QED
    BY <2>2, <2>3
<1>8. QED
  BY <1>4, <1>5, <1>6, <1>7 DEF WaitInv

LEMMA KillKept ==
    ASSUME SocketAssumption, WaitInv, NEW t \in Task, Kill(t)
    PROVE  WaitInv'
<1>1. PICK u \in Task : /\ queued[u]._dequeue # "nil" /\ xpqueue_dequeue(u)
                        /\ task' = [task EXCEPT ![u] = Idle] /\ sock' = sock
  BY DEF Kill
<1>2. QueueTypes /\ Registered /\ DOMAIN task = Task /\ queued[u]._dequeuedata \in SocketFd
  BY <1>1 DEF WaitInv, CallInv, Waiting
<1> PICK m, d : m = queued[u]._dequeue /\ d = queued[u]._dequeuedata
  OBVIOUS
<1>3. m \in {"R", "W"} /\ d \in SocketFd /\ queued[u] = Entry(m, d)
  BY <1>1, <1>2 DEF QueueTypes, Entry
<1>4. \A e \in SocketFd : (readers[e] = u <=> m = "R" /\ e = d) /\ (writers[e] = u <=> m = "W" /\ e = d)
  <2> SUFFICES ASSUME NEW e \in SocketFd
               PROVE  (readers[e] = u <=> m = "R" /\ e = d) /\ (writers[e] = u <=> m = "W" /\ e = d)
    OBVIOUS
  <2>1. (readers[e] = u <=> Entry(m, d) = Entry("R", e)) /\ (writers[e] = u <=> Entry(m, d) = Entry("W", e))
    <3>1. (readers[e] = u <=> queued[u] = Entry("R", e)) /\ (writers[e] = u <=> queued[u] = Entry("W", e))
      BY <1>2, EntryOf
    <3>2. QED
      BY <1>3, <3>1
  <2>2. (Entry(m, d) = Entry("R", e) <=> m = "R" /\ d = e) /\ (Entry(m, d) = Entry("W", e) <=> m = "W" /\ d = e)
    BY EntriesDiffer
  <2>3. QED
    BY <2>1, <2>2
<1>5. /\ readers' = [e \in SocketFd |-> IF readers[e] \in {u} THEN None ELSE readers[e]]
      /\ writers' = [e \in SocketFd |-> IF writers[e] \in {u} THEN None ELSE writers[e]]
      /\ queued' = [v \in Task |-> IF v \in {u} THEN NotQueued ELSE queued[v]]
  <2>1. /\ readers' = IF m = "R" THEN [readers EXCEPT ![d] = None] ELSE readers
        /\ writers' = IF m = "W" THEN [writers EXCEPT ![d] = None] ELSE writers
        /\ queued' = [queued EXCEPT ![u] = NotQueued]
    BY <1>1 DEF xpqueue_dequeue
  <2>2. /\ readers \in [SocketFd -> Task \cup {None}] /\ writers \in [SocketFd -> Task \cup {None}]
        /\ DOMAIN queued = Task /\ queued = [v \in Task |-> queued[v]]
    BY <1>2 DEF QueueTypes
  <2>3. readers' = [e \in SocketFd |-> IF readers[e] \in {u} THEN None ELSE readers[e]]
    BY <1>3, <1>4, <2>1, <2>2
  <2>4. writers' = [e \in SocketFd |-> IF writers[e] \in {u} THEN None ELSE writers[e]]
    BY <1>3, <1>4, <2>1, <2>2
  <2>5. queued' = [v \in Task |-> IF v \in {u} THEN NotQueued ELSE queued[v]]
    BY <2>1, <2>2
  <2>6. QED
    BY <2>3, <2>4, <2>5
<1>6. DOMAIN task' = Task /\ \A v \in Task : task'[v] = task[v] \/ (v \in {u} /\ task'[v] = Idle)
  BY <1>1, <1>2
<1>7. PICK Gone : Gone = {u}
  OBVIOUS
<1>8. Gone \in SUBSET Task /\ sock' = sock
  BY <1>1, <1>7
<1>9. /\ readers' = [e \in SocketFd |-> IF readers[e] \in Gone THEN None ELSE readers[e]]
      /\ writers' = [e \in SocketFd |-> IF writers[e] \in Gone THEN None ELSE writers[e]]
      /\ queued' = [v \in Task |-> IF v \in Gone THEN NotQueued ELSE queued[v]]
      /\ DOMAIN task' = Task /\ \A v \in Task : task'[v] = task[v] \/ (v \in Gone /\ task'[v] = Idle)
  BY <1>5, <1>6, <1>7, Zenon
<1>10. QED
  BY <1>8, <1>9, DequeuedKept, Zenon

LEMMA PollKept ==
    ASSUME SocketAssumption, WaitInv, Poll
    PROVE  WaitInv'
<1> DEFINE rd == woken.rd
           wr == woken.wr
           Gone == {readers[d] : d \in rd} \cup {writers[d] : d \in wr}
<1>1. /\ readers' = [d \in SocketFd |-> IF d \in rd THEN None ELSE readers[d]]
      /\ writers' = [d \in SocketFd |-> IF d \in wr THEN None ELSE writers[d]]
      /\ queued' = [t \in Task |-> IF t \in Gone THEN NotQueued ELSE queued[t]]
      /\ task' = task /\ sock' = sock
  BY DEF Poll
<1>2. QueueTypes /\ Registered /\ DOMAIN task = Task
  BY DEF WaitInv, CallInv
<1>3. rd \subseteq {d \in SocketFd : readers[d] # None} /\ wr \subseteq {d \in SocketFd : writers[d] # None}
  <2>1. \A p \in pollfds : p.fd \in SocketFd /\ (p.rd => readers[p.fd] # None) /\ (p.wr => writers[p.fd] # None)
    <3> SUFFICES ASSUME NEW p \in pollfds
                 PROVE  p.fd \in SocketFd /\ (p.rd => readers[p.fd] # None) /\ (p.wr => writers[p.fd] # None)
      OBVIOUS
    <3>1. PICK d \in SocketFd : p = [fd |-> d, rd |-> readers[d] # None, wr |-> writers[d] # None]
      BY DEF pollfds
    <3>2. p.fd = d /\ p.rd = (readers[d] # None) /\ p.wr = (writers[d] # None)
      BY <3>1
    <3>3. QED
      BY <3>2, Zenon
  <2>2. /\ rd = {p.fd : p \in {q \in pollfds : q.rd /\ Readable(q.fd)}}
        /\ wr = {p.fd : p \in {q \in pollfds : q.wr /\ Writable(q.fd)}}
    BY DEF woken
  <2>3. ASSUME NEW d \in rd PROVE d \in SocketFd /\ readers[d] # None
    BY <2>1, <2>2
  <2>4. ASSUME NEW d \in wr PROVE d \in SocketFd /\ writers[d] # None
    BY <2>1, <2>2
  <2>5. QED
    BY <2>3, <2>4
<1> HIDE DEF rd, wr
<1>4. Gone \in SUBSET Task
  BY <1>2, <1>3 DEF QueueTypes
<1>5. \A d \in SocketFd : (readers[d] \in Gone <=> d \in rd) /\ (writers[d] \in Gone <=> d \in wr)
  <2>1. \A d, e \in SocketFd : \A t \in Task :
           /\ readers[d] = t /\ readers[e] = t => d = e
           /\ writers[d] = t /\ writers[e] = t => d = e
           /\ ~(readers[d] = t /\ writers[e] = t)
    BY <1>2, EntryOf, EntriesDiffer
  <2>2. \A d \in rd : readers[d] \in Task /\ d \in SocketFd
    BY <1>2, <1>3 DEF QueueTypes
  <2>3. \A d \in wr : writers[d] \in Task /\ d \in SocketFd
    BY <1>2, <1>3 DEF QueueTypes
  <2>4. QED
    BY <2>1, <2>2, <2>3
<1>6. /\ readers' = [d \in SocketFd |-> IF readers[d] \in Gone THEN None ELSE readers[d]]
      /\ writers' = [d \in SocketFd |-> IF writers[d] \in Gone THEN None ELSE writers[d]]
  BY <1>1, <1>5
<1> HIDE DEF Gone
<1>7. QED
  BY <1>1, <1>2, <1>4, <1>6, DequeuedKept

LEMMA WaitKept ==
    ASSUME SocketAssumption, Exclusive, OwnInv, WaitInv, [SocketNext]_socketVars
    PROVE  WaitInv'
<1>1. ASSUME UNCHANGED <<sock, task, queue>> PROVE WaitInv'
  BY <1>1, UsedKept
<1>2. CASE UNCHANGED socketVars
  BY <1>1, <1>2 DEF socketVars, queue
<1>3. ASSUME NEW t \in Task, Shutdown(t) \/ Listen(t) PROVE WaitInv'
  BY <1>1, <1>3 DEF Shutdown, Listen
<1>4. ASSUME NEW f \in File, Establish(f) \/ Refuse(f) PROVE WaitInv'
  BY <1>1, <1>4 DEF Establish, Refuse
<1>5. ASSUME NEW t \in Task, Connect(t) \/ Accept(t) \/ SocketRead(t) \/ Write(t) \/ Kill(t) PROVE WaitInv'
  BY <1>5, ConnectKept, AcceptKept, ReadKept, WriteKept, KillKept
<1>6. ASSUME NEW t \in Task, Socket(t) \/ Pair(t) \/ Fdopen(t) \/ Close(t) PROVE WaitInv'
  BY <1>6, MakersKept, ClosersKept
<1>7. QED
  BY <1>2, <1>3, <1>4, <1>5, <1>6, ClosersKept, PollKept DEF SocketNext

-----------------------------------------------------------------------------
(* Sequences of bytes, which are numbered in the order they are sent.      *)

\* s holds the bytes that follow byte k.
Numbered(s, k) == \A i \in 1 .. Len(s) : s[i] = k + i

LEMMA NumberedJoin ==
    ASSUME NEW s \in Seq(Int), NEW u \in Seq(Int), NEW k \in Int,
           Numbered(s, k), Numbered(u, k + Len(s))
    PROVE  s \o u \in Seq(Int) /\ Len(s \o u) = Len(s) + Len(u) /\ Numbered(s \o u, k)
<1> DEFINE w == s \o u
<1>1. /\ w \in Seq(Int) /\ Len(w) = Len(s) + Len(u) /\ Len(s) \in Nat /\ Len(u) \in Nat
      /\ \A i \in 1 .. (Len(s) + Len(u)) : w[i] = IF i <= Len(s) THEN s[i] ELSE u[i - Len(s)]
  BY ConcatProperties
<1> HIDE DEF w
<1>2. ASSUME NEW i \in 1 .. Len(w) PROVE w[i] = k + i
  <2>1. CASE i <= Len(s)
    BY <1>1, <2>1 DEF Numbered
  <2>2. CASE i > Len(s)
    <3>1. i - Len(s) \in 1 .. Len(u)
      BY <1>1, <2>2
    <3>2. u[i - Len(s)] = (k + Len(s)) + (i - Len(s))
      BY <3>1 DEF Numbered
    <3>3. (k + Len(s)) + (i - Len(s)) = k + i /\ ~(i <= Len(s))
      BY <1>1, <2>2
    <3>4. QED
      BY <1>1, <3>2, <3>3
  <2>3. QED
    BY <1>1, <2>1, <2>2
<1>3. QED
  BY <1>1, <1>2 DEF Numbered, w

LEMMA NumberedSplit ==
    ASSUME NEW s \in Seq(Int), NEW k \in Int, Numbered(s, k), NEW n \in 0 .. Len(s)
    PROVE  /\ SubSeq(s, 1, n) \in Seq(Int) /\ Len(SubSeq(s, 1, n)) = n
           /\ Numbered(SubSeq(s, 1, n), k)
           /\ SubSeq(s, n + 1, Len(s)) \in Seq(Int) /\ Len(SubSeq(s, n + 1, Len(s))) = Len(s) - n
           /\ Numbered(SubSeq(s, n + 1, Len(s)), k + n)
<1>1. Len(s) \in Nat /\ \A i \in 1 .. Len(s) : s[i] = k + i
  BY DEF Numbered
<1>2. /\ SubSeq(s, 1, n) \in Seq(Int) /\ Len(SubSeq(s, 1, n)) = n
      /\ \A i \in 1 .. n : SubSeq(s, 1, n)[i] = s[i]
  <2>1. SubSeq(s, 1, n) \in Seq(Int)
    OBVIOUS
  <2>2. Len(SubSeq(s, 1, n)) = n /\ \A i \in 1 .. n : SubSeq(s, 1, n)[i] = s[i]
    OBVIOUS
  <2>3. QED
    BY <2>1, <2>2
<1> DEFINE w == SubSeq(s, n + 1, Len(s))
<1>3. /\ w \in Seq(Int) /\ Len(w) = Len(s) - n
      /\ \A i \in 1 .. (Len(s) - n) : w[i] = s[n + i]
  <2>1. w \in Seq(Int)
    OBVIOUS
  <2>2. Len(w) = Len(s) - n
    OBVIOUS
  <2>3. ASSUME NEW i \in 1 .. (Len(s) - n) PROVE w[i] = s[n + i]
    OBVIOUS
  <2>4. QED
    BY <2>1, <2>2, <2>3
<1> HIDE DEF w
<1>4. Numbered(SubSeq(s, 1, n), k)
  BY <1>1, <1>2 DEF Numbered
<1>5. ASSUME NEW i \in 1 .. (Len(s) - n) PROVE w[i] = (k + n) + i
  <2>1. n + i \in 1 .. Len(s) /\ k + (n + i) = (k + n) + i
    BY <1>1
  <2>2. QED
    BY <1>1, <1>3, <2>1
<1>6. Numbered(w, k + n)
  BY <1>3, <1>5 DEF Numbered
<1>7. QED
  BY <1>2, <1>3, <1>4, <1>6 DEF w

-----------------------------------------------------------------------------
(* The kernel's files and what is logged of them.                          *)

FileRecord == [st : {"free", "new", "connecting", "refused", "open", "listen"},
               peer : File \cup {None}, in : Seq(Int), backlog : Seq(File),
               rd : BOOLEAN, wr : BOOLEAN]
LogRecord == [asked : Int, sent : Nat, got : Seq(Int), ended : BOOLEAN]

\* Only an open file has had a peer or bytes, only a listener a backlog, and
\* the two ends of a stream are each other's.
Shape(G, L, f) ==
    /\ G[f].st # "open" => /\ G[f].peer = None /\ G[f].in = <<>>
                           /\ L[f].got = <<>> /\ L[f].sent = 0 /\ ~L[f].ended
    /\ G[f].st = "free" => L[f] = NoLog
    /\ G[f].st # "listen" => G[f].backlog = <<>>
    /\ G[f].peer # None => G[f].peer # f /\ G[G[f].peer].peer = f

\* What was read, and after it what can be read, is all that was sent; nothing
\* is sent when the end has been read.
Stream(G, L, f) ==
    /\ Numbered(L[f].got, 0) /\ Numbered(G[f].in, Len(L[f].got))
    /\ Len(L[f].got) + Len(G[f].in) = L[f].sent
    /\ Len(G[f].in) <= BufferSize
    /\ L[f].ended => G[f].in = <<>> /\ (G[f].peer = None \/ ~G[G[f].peer].wr)

FileOK(G, L, f) == Shape(G, L, f) /\ Stream(G, L, f)

Kernel(G, L) == /\ G \in [File -> FileRecord] /\ L \in [File -> LogRecord]
                /\ \A f \in File : FileOK(G, L, f)

LEMMA FreshFacts ==
    /\ NoLog \in LogRecord /\ NoLog.got = <<>> /\ NoLog.sent = 0 /\ ~NoLog.ended /\ NoLog.asked = 0
    /\ NoFile \in FileRecord /\ NoFile.st = "free" /\ NoFile.peer = None /\ NoFile.in = <<>>
    /\ NoFile.backlog = <<>>
    /\ \A p \in File : /\ Connection(p) \in FileRecord /\ Connection(p).st = "open"
                       /\ Connection(p).peer = p /\ Connection(p).in = <<>>
                       /\ Connection(p).backlog = <<>> /\ Connection(p).wr /\ Connection(p).rd
<1>1. <<>> \in Seq(Int) /\ <<>> \in Seq(File)
  OBVIOUS
<1>2. NoLog \in LogRecord /\ NoLog.got = <<>> /\ NoLog.sent = 0 /\ ~NoLog.ended /\ NoLog.asked = 0
  BY <1>1 DEF NoLog, LogRecord
<1>3. /\ NoFile \in FileRecord /\ NoFile.st = "free" /\ NoFile.peer = None /\ NoFile.in = <<>>
      /\ NoFile.backlog = <<>>
  BY <1>1 DEF NoFile, FileRecord
<1>4. ASSUME NEW p \in File PROVE Connection(p) \in FileRecord
  BY <1>1, <1>3 DEF FileRecord, Connection
<1>5. ASSUME NEW p \in File
      PROVE  /\ Connection(p).st = "open" /\ Connection(p).peer = p /\ Connection(p).in = <<>>
             /\ Connection(p).backlog = <<>> /\ Connection(p).wr /\ Connection(p).rd
  BY DEF NoFile, Connection
<1>6. QED
  BY <1>2, <1>3, <1>4, <1>5

\* A file nothing has been sent to yet.
LEMMA EmptyStream ==
    ASSUME SocketAssumption, NEW G, NEW L, NEW f, G[f].in = <<>>, L[f].got = <<>>, L[f].sent = 0,
           ~L[f].ended
    PROVE  Stream(G, L, f)
<1>1. Len(<<>>) = 0 /\ 0 <= BufferSize
  BY DEF SocketAssumption
<1>2. Numbered(<<>>, 0)
  BY <1>1 DEF Numbered
<1>3. Numbered(L[f].got, 0) /\ Numbered(G[f].in, Len(L[f].got))
  BY <1>1, <1>2
<1>4. Len(L[f].got) + Len(G[f].in) = L[f].sent /\ Len(G[f].in) <= BufferSize
  BY <1>1
<1>5. QED
  BY <1>3, <1>4 DEF Stream

\* The fields of records of the kernel.
LEMMA RecordFields ==
    /\ \A r \in FileRecord : /\ r.in \in Seq(Int) /\ r.backlog \in Seq(File)
                             /\ r.peer \in File \cup {None} /\ r.rd \in BOOLEAN /\ r.wr \in BOOLEAN
    /\ \A r \in LogRecord : /\ r.asked \in Int /\ r.sent \in Nat /\ r.got \in Seq(Int)
                            /\ r.ended \in BOOLEAN
<1>1. ASSUME NEW r \in FileRecord
      PROVE  /\ r.in \in Seq(Int) /\ r.backlog \in Seq(File) /\ r.peer \in File \cup {None}
             /\ r.rd \in BOOLEAN /\ r.wr \in BOOLEAN
  BY DEF FileRecord
<1>2. ASSUME NEW r \in LogRecord
      PROVE  r.asked \in Int /\ r.sent \in Nat /\ r.got \in Seq(Int) /\ r.ended \in BOOLEAN
  BY DEF LogRecord
<1>3. QED
  BY <1>1, <1>2

\* A file that changes neither its bytes nor its peer stays as it was.
LEMMA FileSame ==
    ASSUME NEW G, NEW L, NEW H, NEW M, NEW f \in File, FileOK(G, L, f), None \notin File,
           M[f] = L[f], H[f].in = G[f].in, H[f].peer = G[f].peer,
           H[f].backlog = G[f].backlog \/ H[f].st = "listen",
           H[f].st # "open" => G[f].st # "open",
           H[f].st = "free" => G[f].st = "free",
           G[f].st = "listen" => H[f].st = "listen",
           G[f].peer # None => H[G[f].peer].peer = f /\ (H[G[f].peer].wr => G[G[f].peer].wr)
    PROVE  FileOK(H, M, f)
<1>1. Shape(G, L, f) /\ Stream(G, L, f)
  BY DEF FileOK
<1>2. Shape(H, M, f)
  BY <1>1 DEF Shape
<1>3. Stream(H, M, f)
  <2>1. L[f].ended => H[f].in = <<>> /\ (H[f].peer = None \/ ~H[H[f].peer].wr)
    BY <1>1 DEF Stream
  <2>2. QED
    BY <1>1, <2>1 DEF Stream
<1>4. QED
  BY <1>2, <1>3 DEF FileOK

LEMMA RecordUpdates ==
    ASSUME NEW r \in FileRecord
    PROVE  /\ \A x \in {"free", "new", "connecting", "refused", "open", "listen"} :
                  [r EXCEPT !.st = x] \in FileRecord
           /\ \A x \in Seq(Int) : [r EXCEPT !.in = x] \in FileRecord
           /\ \A x \in Seq(File) : [r EXCEPT !.backlog = x] \in FileRecord
           /\ [r EXCEPT !.peer = None] \in FileRecord
           /\ \A x, y \in BOOLEAN : [r EXCEPT !.rd = x, !.wr = y] \in FileRecord
BY DEF FileRecord

\* A file that is not open changes its state: made, connecting, refused, or
\* made a listener.
LEMMA KernelStatus ==
    ASSUME SocketAssumption, NEW G, NEW L, Kernel(G, L), NEW f \in File, G[f].st # "open",
           NEW x \in {"new", "connecting", "refused", "listen"}, x # "listen" => G[f].st # "listen"
    PROVE  Kernel([G EXCEPT ![f].st = x], L)
<1> DEFINE H == [G EXCEPT ![f].st = x]
<1>1. G \in [File -> FileRecord] /\ None \notin File
  BY DEF Kernel, SocketAssumption
<1>2. /\ H \in [File -> FileRecord] /\ \A g \in File \ {f} : H[g] = G[g]
      /\ H[f] = [G[f] EXCEPT !.st = x]
  <2>1. [G[f] EXCEPT !.st = x] \in FileRecord
    BY <1>1, RecordUpdates
  <2>2. QED
    BY <1>1, <2>1
<1>3. /\ H[f].st = x /\ H[f].in = G[f].in /\ H[f].peer = G[f].peer /\ H[f].backlog = G[f].backlog
      /\ H[f].wr = G[f].wr
  BY <1>1, <1>2 DEF FileRecord
<1> HIDE DEF H
<1>4. \A g \in File : Shape(G, L, g) /\ FileOK(G, L, g)
  BY DEF Kernel, FileOK
<1>5. ASSUME NEW g \in File PROVE FileOK(H, L, g)
  <2>1. G[g].peer # None => G[g].peer \in File \ {f} /\ H[G[g].peer].peer = g
                            /\ H[G[g].peer].wr = G[G[g].peer].wr
    <3>1. G[g].peer \in File \cup {None}
      BY <1>1 DEF FileRecord
    <3>2. G[g].peer # None => G[G[g].peer].peer = g
      BY <1>4 DEF Shape
    <3>3. G[f].peer = None
      BY <1>4 DEF Shape
    <3>4. QED
      BY <1>1, <1>2, <3>1, <3>2, <3>3
  <2>2. CASE g = f
    BY <1>1, <1>3, <1>4, <2>1, <2>2, FileSame
  <2>3. CASE g # f
    BY <1>1, <1>2, <1>4, <2>1, <2>3, FileSame
  <2>4. QED
    BY <2>2, <2>3
<1>6. Kernel(H, L)
  BY <1>2, <1>5 DEF Kernel
<1>7. QED
  BY <1>6 DEF H

\* A stream is made of two free files, and perhaps added to a backlog.
LEMMA KernelStreams ==
    ASSUME SocketAssumption, NEW G, NEW L, Kernel(G, L), NEW f \in File, NEW g \in File, f # g,
           G[f].st \in {"free", "connecting"}, G[g].st = "free",
           NEW H \in [File -> FileRecord], H[f] = Connection(g), H[g] = Connection(f),
           \A x \in File \ {f, g} :
               /\ H[x].st = G[x].st /\ H[x].peer = G[x].peer /\ H[x].in = G[x].in
               /\ H[x].wr = G[x].wr /\ (H[x].backlog = G[x].backlog \/ H[x].st = "listen")
    PROVE  Kernel(H, L)
<1>1. G \in [File -> FileRecord] /\ L \in [File -> LogRecord] /\ None \notin File
  BY DEF Kernel, SocketAssumption
<1>2. \A x \in File : Shape(G, L, x) /\ FileOK(G, L, x)
  BY DEF Kernel, FileOK
<1>3. /\ H[f].st = "open" /\ H[f].peer = g /\ H[f].in = <<>> /\ H[f].backlog = <<>>
      /\ H[g].st = "open" /\ H[g].peer = f /\ H[g].in = <<>> /\ H[g].backlog = <<>>
  BY FreshFacts
<1>4. ASSUME NEW x \in {f, g} PROVE FileOK(H, L, x)
  <2>1. L[x].got = <<>> /\ L[x].sent = 0 /\ ~L[x].ended
    BY <1>2 DEF Shape
  <2>2. Stream(H, L, x)
    BY <1>3, <2>1, EmptyStream
  <2>3. Shape(H, L, x)
    BY <1>3 DEF Shape
  <2>4. QED
    BY <2>2, <2>3 DEF FileOK
<1>5. ASSUME NEW x \in File \ {f, g} PROVE FileOK(H, L, x)
  <2>1. G[x].peer # None => G[x].peer \in File \ {f, g} /\ G[G[x].peer].peer = x
    <3>1. G[x].peer \in File \cup {None}
      BY <1>1 DEF FileRecord
    <3>2. G[x].peer # None => G[G[x].peer].peer = x
      BY <1>2 DEF Shape
    <3>3. G[f].peer = None /\ G[g].peer = None
      BY <1>2 DEF Shape
    <3>4. QED
      BY <1>1, <3>1, <3>2, <3>3
  <2>2. QED
    BY <1>1, <1>2, <2>1, FileSame
<1>6. QED
  BY <1>1, <1>4, <1>5 DEF Kernel

\* Files are closed, and the ones at the other end of their streams know.
LEMMA KernelCloses ==
    ASSUME SocketAssumption, NEW G, NEW L, Kernel(G, L), NEW gone \in SUBSET File,
           NEW H \in [File -> FileRecord], NEW M \in [File -> LogRecord],
           \A x \in gone : H[x] = NoFile /\ M[x] = NoLog,
           \A x \in File \ gone :
               /\ H[x].st = G[x].st /\ H[x].in = G[x].in /\ H[x].wr = G[x].wr
               /\ H[x].backlog = G[x].backlog /\ M[x] = L[x]
               /\ H[x].peer = IF G[x].peer \in gone THEN None ELSE G[x].peer
    PROVE  Kernel(H, M)
<1>1. G \in [File -> FileRecord] /\ L \in [File -> LogRecord] /\ None \notin File
  BY DEF Kernel, SocketAssumption
<1>2. \A x \in File : Shape(G, L, x) /\ Stream(G, L, x)
  BY DEF Kernel, FileOK
<1>3. ASSUME NEW x \in File \ gone
      PROVE  /\ H[x].st = G[x].st /\ H[x].in = G[x].in /\ H[x].wr = G[x].wr
             /\ H[x].backlog = G[x].backlog /\ M[x] = L[x]
             /\ H[x].peer = IF G[x].peer \in gone THEN None ELSE G[x].peer
  OBVIOUS
<1>4. ASSUME NEW x \in gone PROVE H[x] = NoFile /\ M[x] = NoLog
  OBVIOUS
<1> HIDE DEF Shape, Stream
<1>5. ASSUME NEW x \in gone PROVE FileOK(H, M, x)
  <2>1. Stream(H, M, x)
    BY <1>4, FreshFacts, EmptyStream
  <2>2. Shape(H, M, x)
    BY <1>4, FreshFacts DEF Shape
  <2>3. QED
    BY <2>1, <2>2 DEF FileOK
<1>6. ASSUME NEW x \in File \ gone PROVE FileOK(H, M, x)
  <2>1. G[x].peer # None => G[x].peer \in File /\ G[G[x].peer].peer = x /\ G[x].peer # x
    BY <1>1, <1>2 DEF Shape, FileRecord
  <2>2. H[x].peer # None => H[x].peer \in File \ gone /\ H[x].peer = G[x].peer
                            /\ H[H[x].peer].peer = x /\ H[H[x].peer].wr = G[G[x].peer].wr
    BY <1>3, <2>1
  <2>3. Shape(H, M, x)
    BY <1>2, <1>3, <2>1, <2>2 DEF Shape
  <2>4. M[x].ended => H[x].in = <<>> /\ (H[x].peer = None \/ ~H[H[x].peer].wr)
    <3>1. M[x] = L[x] /\ H[x].in = G[x].in
      BY <1>3
    <3>2. L[x].ended => G[x].in = <<>> /\ (G[x].peer = None \/ ~G[G[x].peer].wr)
      BY <1>2 DEF Stream
    <3>3. G[x].peer = None => H[x].peer = None
      BY <1>1, <1>3
    <3>4. QED
      BY <2>2, <3>1, <3>2, <3>3
  <2>5. Stream(H, M, x)
    <3>1. M[x] = L[x] /\ H[x].in = G[x].in /\ Stream(G, L, x)
      BY <1>2, <1>3
    <3>2. /\ Numbered(M[x].got, 0) /\ Numbered(H[x].in, Len(M[x].got))
          /\ Len(M[x].got) + Len(H[x].in) = M[x].sent /\ Len(H[x].in) <= BufferSize
      BY <3>1 DEF Stream
    <3>3. QED
      BY <2>4, <3>2 DEF Stream
  <2>6. QED
    BY <2>3, <2>5 DEF FileOK
<1>7. QED
  BY <1>5, <1>6 DEF Kernel

\* The directions of a stream are shut down, or a listener's backlog changes.
LEMMA KernelFlags ==
    ASSUME SocketAssumption, NEW G, NEW L, Kernel(G, L), NEW f \in File,
           NEW r \in FileRecord, r.st = G[f].st, r.peer = G[f].peer, r.in = G[f].in,
           r.backlog = G[f].backlog \/ r.st = "listen", r.wr => G[f].wr
    PROVE  Kernel([G EXCEPT ![f] = r], L)
<1> DEFINE H == [G EXCEPT ![f] = r]
<1>1. G \in [File -> FileRecord] /\ L \in [File -> LogRecord] /\ None \notin File
  BY DEF Kernel, SocketAssumption
<1>2. H \in [File -> FileRecord] /\ H[f] = r /\ \A g \in File \ {f} : H[g] = G[g]
  BY <1>1
<1> HIDE DEF H
<1>3. \A g \in File : Shape(G, L, g) /\ FileOK(G, L, g)
  BY DEF Kernel, FileOK
<1>4. \A g \in File : H[g].peer = G[g].peer /\ (H[g].wr => G[g].wr)
  BY <1>2
<1>5. ASSUME NEW g \in File PROVE FileOK(H, L, g)
  <2>1. G[g].peer # None => G[g].peer \in File /\ G[G[g].peer].peer = g
    BY <1>1, <1>3 DEF Shape, FileRecord
  <2>2. G[g].peer # None => H[G[g].peer].peer = g /\ (H[G[g].peer].wr => G[G[g].peer].wr)
    BY <1>4, <2>1
  <2>3. CASE g = f
    BY <1>1, <1>2, <1>3, <2>2, <2>3, FileSame
  <2>4. CASE g # f
    BY <1>1, <1>2, <1>3, <2>2, <2>4, FileSame
  <2>5. QED
    BY <2>3, <2>4
<1>6. QED
  BY <1>1, <1>2, <1>5 DEF Kernel, H

\* The number of bytes a file was asked to send is free.
LEMMA KernelAsked ==
    ASSUME NEW G, NEW L, Kernel(G, L), NEW f \in File, G[f].st # "free", NEW n \in Int
    PROVE  Kernel(G, [L EXCEPT ![f].asked = n])
<1> DEFINE M == [L EXCEPT ![f].asked = n]
<1>1. G \in [File -> FileRecord] /\ L \in [File -> LogRecord]
  BY DEF Kernel
<1>2. M \in [File -> LogRecord] /\ \A g \in File \ {f} : M[g] = L[g]
  BY <1>1 DEF LogRecord
<1>3. \A g \in File : M[g].sent = L[g].sent /\ M[g].got = L[g].got /\ M[g].ended = L[g].ended
  BY <1>1 DEF LogRecord
<1> HIDE DEF M
<1>4. ASSUME NEW g \in File PROVE FileOK(G, M, g)
  <2>1. Shape(G, L, g) /\ Stream(G, L, g)
    BY DEF Kernel, FileOK
  <2>2. Shape(G, M, g)
    BY <1>2, <1>3, <2>1 DEF Shape
  <2>3. Stream(G, M, g)
    BY <1>3, <2>1 DEF Stream
  <2>4. QED
    BY <2>2, <2>3 DEF FileOK
<1>5. QED
  BY <1>1, <1>2, <1>4 DEF Kernel, M

\* Some bytes are read.
LEMMA KernelRead ==
    ASSUME SocketAssumption, NEW G, NEW L, Kernel(G, L), NEW f \in File, G[f].st = "open",
           G[f].in # <<>>, NEW n \in 1 .. Len(G[f].in)
    PROVE  Kernel([G EXCEPT ![f].in = SubSeq(@, n + 1, Len(@))],
                  [L EXCEPT ![f].got = @ \o SubSeq(G[f].in, 1, n)])
<1> DEFINE H == [G EXCEPT ![f].in = SubSeq(@, n + 1, Len(@))]
           M == [L EXCEPT ![f].got = @ \o SubSeq(G[f].in, 1, n)]
<1>1. G \in [File -> FileRecord] /\ L \in [File -> LogRecord]
  BY DEF Kernel
<1>2. \A g \in File : Shape(G, L, g) /\ Stream(G, L, g)
  BY DEF Kernel, FileOK
<1>a. PICK in \in Seq(Int), got \in Seq(Int) : in = G[f].in /\ got = L[f].got
  BY <1>1, RecordFields
<1>b. PICK rest, more : rest = SubSeq(in, n + 1, Len(in)) /\ more = SubSeq(in, 1, n)
  OBVIOUS
<1>3. /\ in \in Seq(Int) /\ got \in Seq(Int) /\ Len(in) \in Nat /\ Len(got) \in Nat /\ n \in 0 .. Len(in)
      /\ Numbered(got, 0) /\ Numbered(in, Len(got)) /\ Len(got) + Len(in) = L[f].sent
      /\ Len(in) <= BufferSize /\ ~L[f].ended
  <2>1. Len(in) \in Nat /\ Len(got) \in Nat
    OBVIOUS
  <2>2. n \in 0 .. Len(in)
    BY <1>a, <2>1
  <2>3. Stream(G, L, f)
    BY <1>2
  <2>4. Numbered(got, 0) /\ Numbered(in, Len(got)) /\ Len(got) + Len(in) = L[f].sent
        /\ Len(in) <= BufferSize
    BY <1>a, <2>3 DEF Stream
  <2>5. ~L[f].ended
    BY <1>a, <2>3 DEF Stream
  <2>6. QED
    BY <2>1, <2>2, <2>4, <2>5
<1>4. /\ rest \in Seq(Int) /\ Len(rest) = Len(in) - n /\ Numbered(rest, Len(got) + n)
      /\ more \in Seq(Int) /\ Len(more) = n /\ Numbered(more, Len(got))
  <2>1. PICK k \in Int : k = Len(got)
    BY <1>3
  <2>2. Numbered(in, k)
    BY <1>3, <2>1
  <2>3. /\ rest \in Seq(Int) /\ Len(rest) = Len(in) - n /\ Numbered(rest, k + n)
        /\ more \in Seq(Int) /\ Len(more) = n /\ Numbered(more, k)
    BY <1>3, <1>b, <2>2, NumberedSplit
  <2>4. QED
    BY <2>1, <2>3
<1>5. got \o more \in Seq(Int) /\ Len(got \o more) = Len(got) + n /\ Numbered(got \o more, 0)
  <2>1. 0 + Len(got) = Len(got) /\ 0 \in Int
    BY <1>3
  <2>2. Numbered(more, 0 + Len(got))
    BY <1>4, <2>1, Zenon
  <2>3. got \o more \in Seq(Int) /\ Len(got \o more) = Len(got) + Len(more) /\ Numbered(got \o more, 0)
    BY <1>3, <1>4, <2>1, <2>2, NumberedJoin, Zenon
  <2>4. QED
    BY <1>4, <2>3
<1>6. /\ H = [G EXCEPT ![f].in = rest] /\ M = [L EXCEPT ![f].got = got \o more]
  BY <1>1, <1>a, <1>b
<1> HIDE DEF H, M
<1>7. PICK now : now = got \o more
  OBVIOUS
<1>8. /\ H \in [File -> FileRecord] /\ H[f] = [G[f] EXCEPT !.in = rest] /\ \A g \in File \ {f} : H[g] = G[g]
      /\ M \in [File -> LogRecord] /\ \A g \in File \ {f} : M[g] = L[g]
  <2>1. [G[f] EXCEPT !.in = rest] \in FileRecord
    BY <1>1, <1>4, RecordUpdates
  <2>2. [L[f] EXCEPT !.got = now] \in LogRecord
    BY <1>1, <1>5, <1>7 DEF LogRecord
  <2>3. QED
    BY <1>1, <1>6, <1>7, <2>1, <2>2
<1>9. /\ H[f].in = rest /\ \A g \in File : /\ H[g].st = G[g].st /\ H[g].peer = G[g].peer
                                           /\ H[g].backlog = G[g].backlog /\ H[g].wr = G[g].wr
      /\ M[f].got = now /\ \A g \in File : M[g].sent = L[g].sent /\ M[g].ended = L[g].ended
  <2>1. /\ H[f].in = rest /\ H[f].st = G[f].st /\ H[f].peer = G[f].peer
        /\ H[f].backlog = G[f].backlog /\ H[f].wr = G[f].wr
    BY <1>1, <1>8 DEF FileRecord
  <2>2. M[f] = [L[f] EXCEPT !.got = now] /\ L[f] \in LogRecord
    BY <1>1, <1>6, <1>7
  <2>3. M[f].got = now /\ M[f].sent = L[f].sent /\ M[f].ended = L[f].ended
    BY <2>2 DEF LogRecord
  <2>4. QED
    BY <1>8, <2>1, <2>3
<1>10. ASSUME NEW g \in File \ {f} PROVE FileOK(H, M, g)
  <2>1. G[g].peer # None => G[g].peer \in File /\ G[G[g].peer].peer = g
    BY <1>1, <1>2 DEF Shape, FileRecord
  <2>2. Shape(H, M, g)
    BY <1>2, <1>8, <1>9, <2>1 DEF Shape
  <2>3. H[g] = G[g] /\ M[g] = L[g] /\ Stream(G, L, g) /\ (G[g].peer # None => H[G[g].peer].wr = G[G[g].peer].wr)
    BY <1>2, <1>8, <1>9, <2>1
  <2>4. Stream(H, M, g)
    <3>1. M[g].ended => H[g].in = <<>> /\ (H[g].peer = None \/ ~H[H[g].peer].wr)
      BY <2>3 DEF Stream
    <3>2. QED
      BY <2>3, <3>1 DEF Stream
  <2>5. QED
    BY <2>2, <2>4 DEF FileOK
<1>11. FileOK(H, M, f)
  <2>1. G[f].peer # None => G[f].peer \in File /\ G[G[f].peer].peer = f /\ G[f].peer # f
    BY <1>1, <1>2 DEF Shape, FileRecord
  <2>2. H[f].peer # None => H[f].peer # f /\ H[H[f].peer].peer = f
    BY <1>9, <2>1
  <2>3. H[f].st = "open" /\ H[f].backlog = <<>>
    BY <1>2, <1>9 DEF Shape
  <2>4. Shape(H, M, f)
    BY <2>2, <2>3 DEF Shape
  <2>5. /\ Numbered(M[f].got, 0) /\ Numbered(H[f].in, Len(M[f].got))
        /\ Len(M[f].got) + Len(H[f].in) = M[f].sent
        /\ ~M[f].ended
    <3>1. Numbered(now, 0) /\ Len(now) = Len(got) + n /\ Numbered(rest, Len(now))
      BY <1>4, <1>5, <1>7
    <3>2. Len(now) + Len(rest) = L[f].sent
      <4>1. \A a, b, c \in Int : (a + c) + (b - c) = a + b
        OBVIOUS
      <4>2. Len(got) \in Int /\ Len(in) \in Int /\ n \in Int
        BY <1>3
      <4>3. (Len(got) + n) + (Len(in) - n) = L[f].sent
        BY <1>3, <4>1, <4>2
      <4>4. Len(now) = Len(got) + n /\ Len(rest) = Len(in) - n
        BY <1>4, <3>1
      <4>5. QED
        BY <4>3, <4>4
    <3>3. QED
      BY <1>3, <1>9, <3>1, <3>2
  <2>6. Len(H[f].in) <= BufferSize
    <3>1. /\ Len(H[f].in) = Len(in) - n /\ n \in Nat /\ Len(in) \in Nat
          /\ Len(in) <= BufferSize /\ BufferSize \in Nat
      BY <1>3, <1>4, <1>9 DEF SocketAssumption
    <3>2. QED
      BY <3>1
  <2>7. QED
    BY <2>4, <2>5, <2>6 DEF FileOK, Stream
<1>12. QED
  BY <1>8, <1>10, <1>11 DEF Kernel, H, M

\* The end of a stream is read.
LEMMA KernelEnds ==
    ASSUME NEW G, NEW L, Kernel(G, L), NEW f \in File, G[f].st = "open", G[f].in = <<>>,
           NEW e \in BOOLEAN, e => L[f].ended \/ G[f].peer = None \/ ~G[G[f].peer].wr
    PROVE  Kernel(G, [L EXCEPT ![f].ended = e])
<1> DEFINE M == [L EXCEPT ![f].ended = e]
<1>1. G \in [File -> FileRecord] /\ L \in [File -> LogRecord]
  BY DEF Kernel
<1>2. /\ M \in [File -> LogRecord] /\ \A g \in File \ {f} : M[g] = L[g]
      /\ M[f].ended = e /\ M[f].sent = L[f].sent /\ M[f].got = L[f].got
  BY <1>1 DEF LogRecord
<1> HIDE DEF M
<1>3. \A g \in File : Shape(G, L, g) /\ Stream(G, L, g)
  BY DEF Kernel, FileOK
<1>4. FileOK(G, M, f)
  <2>1. Shape(G, M, f)
    BY <1>3 DEF Shape
  <2>2. M[f].ended => G[f].in = <<>> /\ (G[f].peer = None \/ ~G[G[f].peer].wr)
    <3>1. L[f].ended => G[f].peer = None \/ ~G[G[f].peer].wr
      BY <1>3 DEF Stream
    <3>2. QED
      BY <1>2, <3>1
  <2>3. Stream(G, M, f)
    BY <1>2, <1>3, <2>2 DEF Stream
  <2>4. QED
    BY <2>1, <2>3 DEF FileOK
<1>5. ASSUME NEW g \in File \ {f} PROVE FileOK(G, M, g)
  <2>1. M[g] = L[g] /\ Shape(G, L, g) /\ Stream(G, L, g)
    BY <1>2, <1>3
  <2>2. QED
    BY <2>1 DEF FileOK, Shape, Stream
<1>6. QED
  BY <1>1, <1>2, <1>4, <1>5 DEF Kernel, M

\* Some bytes are written: they come after all that was sent and there is room.
LEMMA KernelWrite ==
    ASSUME SocketAssumption, NEW G, NEW L, Kernel(G, L), NEW f \in File, G[f].st = "open",
           NEW g, g = G[f].peer, g # None, G[f].wr,
           NEW more \in Seq(Int), NEW num \in Nat, Len(more) = num, num <= BufferSize - Len(G[g].in),
           Numbered(more, L[g].sent), NEW a \in Int
    PROVE  Kernel([G EXCEPT ![g].in = @ \o more], [L EXCEPT ![g].sent = @ + num, ![f].asked = a])
<1> DEFINE H == [G EXCEPT ![g].in = @ \o more]
           M == [L EXCEPT ![g].sent = @ + num, ![f].asked = a]
<1>1. G \in [File -> FileRecord] /\ L \in [File -> LogRecord] /\ BufferSize \in Nat
  BY DEF Kernel, SocketAssumption
<1>2. \A x \in File : Shape(G, L, x) /\ Stream(G, L, x)
  BY DEF Kernel, FileOK
<1>3. g \in File /\ g # f /\ G[g].peer = f /\ G[g].st = "open"
  <2>1. g \in File
    BY <1>1 DEF FileRecord
  <2>2. g # f /\ G[g].peer = f /\ f # None
    BY <1>2 DEF Shape, SocketAssumption
  <2>3. QED
    BY <1>2, <2>1, <2>2 DEF Shape
<1>a. PICK in \in Seq(Int), got \in Seq(Int) : in = G[g].in /\ got = L[g].got
  BY <1>1, <1>3, RecordFields
<1>b. PICK now : now = in \o more
  OBVIOUS
<1>4. /\ in \in Seq(Int) /\ got \in Seq(Int) /\ Len(in) \in Nat /\ Len(got) \in Nat
      /\ Numbered(got, 0) /\ Numbered(in, Len(got)) /\ Len(got) + Len(in) = L[g].sent
      /\ ~L[g].ended
  <2>1. Len(in) \in Nat /\ Len(got) \in Nat
    OBVIOUS
  <2>3. Stream(G, L, g)
    BY <1>2, <1>3
  <2>4. Numbered(got, 0) /\ Numbered(in, Len(got)) /\ Len(got) + Len(in) = L[g].sent
    BY <1>a, <2>3 DEF Stream
  <2>5. ~L[g].ended
    BY <1>3, <2>3 DEF Stream, SocketAssumption
  <2>6. QED
    BY <2>1, <2>4, <2>5
<1>5. now \in Seq(Int) /\ Len(now) = Len(in) + num /\ Numbered(now, Len(got))
  <2>1. PICK k \in Int : k = Len(got)
    BY <1>4
  <2>2. Numbered(in, k) /\ Numbered(more, k + Len(in))
    BY <1>4, <2>1
  <2>3. now \in Seq(Int) /\ Len(now) = Len(in) + Len(more) /\ Numbered(now, k)
    BY <1>4, <1>b, <2>2, NumberedJoin
  <2>4. QED
    BY <2>1, <2>3
<1>6. H = [G EXCEPT ![g].in = now]
  BY <1>1, <1>3, <1>a, <1>b
<1>7. /\ H \in [File -> FileRecord] /\ \A x \in File \ {g} : H[x] = G[x]
      /\ H[g].in = now /\ \A x \in File : /\ H[x].st = G[x].st /\ H[x].peer = G[x].peer
                                          /\ H[x].backlog = G[x].backlog /\ H[x].wr = G[x].wr
  <2>1. [G[g] EXCEPT !.in = now] \in FileRecord
    BY <1>1, <1>3, <1>5, RecordUpdates
  <2>2. H \in [File -> FileRecord] /\ (\A x \in File \ {g} : H[x] = G[x]) /\ H[g] = [G[g] EXCEPT !.in = now]
    BY <1>1, <1>3, <1>6, <2>1
  <2>3. G[g] \in FileRecord
    BY <1>1, <1>3
  <2>4. /\ H[g].in = now /\ H[g].st = G[g].st /\ H[g].peer = G[g].peer
        /\ H[g].backlog = G[g].backlog /\ H[g].wr = G[g].wr
    <3> HIDE DEF H
    <3>1. PICK r \in FileRecord : r = G[g]
      BY <2>3
    <3>2. PICK s : s = [r EXCEPT !.in = now]
      OBVIOUS
    <3>3. s.in = now /\ s.st = r.st /\ s.peer = r.peer /\ s.backlog = r.backlog /\ s.wr = r.wr
      BY <3>2 DEF FileRecord
    <3>4. H[g] = s
      BY <2>2, <3>1, <3>2
    <3>5. QED
      BY <3>1, <3>3, <3>4
  <2> HIDE DEF H
  <2>5. QED
    BY <2>2, <2>4
<1>8. /\ M \in [File -> LogRecord]
      /\ \A x \in File : M[x].got = L[x].got /\ M[x].ended = L[x].ended
      /\ M[g].sent = L[g].sent + num /\ \A x \in File \ {g} : M[x].sent = L[x].sent
  <2>1. L[g] \in LogRecord /\ L[f] \in LogRecord /\ L[g].sent + num \in Nat
    BY <1>1, <1>3 DEF LogRecord
  <2>2. PICK rg, rf : rg = [L[g] EXCEPT !.sent = L[g].sent + num] /\ rf = [L[f] EXCEPT !.asked = a]
    OBVIOUS
  <2>3. /\ rg \in LogRecord /\ rg.got = L[g].got /\ rg.ended = L[g].ended /\ rg.sent = L[g].sent + num
        /\ rf \in LogRecord /\ rf.got = L[f].got /\ rf.ended = L[f].ended /\ rf.sent = L[f].sent
    BY <2>1, <2>2 DEF LogRecord
  <2>4. PICK N : N = [L EXCEPT ![g] = rg, ![f] = rf]
    OBVIOUS
  <2>5. M = N
    BY <1>1, <1>3, <2>2, <2>4
  <2>6. N \in [File -> LogRecord] /\ N[g] = rg /\ N[f] = rf /\ \A x \in File \ {f, g} : N[x] = L[x]
    BY <1>1, <1>3, <2>3, <2>4
  <2> HIDE DEF M
  <2>7. QED
    BY <1>3, <2>3, <2>5, <2>6
<1> HIDE DEF H, M
<1>9. ASSUME NEW x \in File PROVE Shape(H, M, x)
  <2>1. G[x].peer # None => G[x].peer \in File
    BY <1>1 DEF FileRecord
  <2>2. Shape(G, L, x)
    BY <1>2
  <2>3. H[x].peer # None => H[x].peer # x /\ H[H[x].peer].peer = x
    BY <1>7, <2>1, <2>2 DEF Shape
  <2>4. H[x].st # "open" => /\ H[x].peer = None /\ H[x].in = <<>>
                            /\ M[x].got = <<>> /\ M[x].sent = 0 /\ ~M[x].ended
    <3>1. H[x].st # "open" => G[x].st # "open" /\ x # g /\ H[x] = G[x] /\ M[x].sent = L[x].sent
      BY <1>3, <1>7, <1>8
    <3>2. M[x].got = L[x].got /\ M[x].ended = L[x].ended
      BY <1>8
    <3>3. QED
      BY <2>2, <3>1, <3>2 DEF Shape
  <2>5. H[x].st = "free" => M[x] = NoLog
    <3>1. H[x].st = "free" => x # f /\ x # g
      BY <1>3, <1>7
    <3>2. x # f /\ x # g => M[x] = L[x]
      BY <1>1, <1>3 DEF M
    <3>3. QED
      BY <1>7, <2>2, <3>1, <3>2 DEF Shape
  <2>6. QED
    BY <1>7, <2>2, <2>3, <2>4, <2>5 DEF Shape
<1>10. ASSUME NEW x \in File \ {g} PROVE Stream(H, M, x)
  <2>1. Stream(G, L, x) /\ H[x] = G[x] /\ M[x].got = L[x].got /\ M[x].sent = L[x].sent /\ M[x].ended = L[x].ended
    BY <1>2, <1>7, <1>8
  <2>2. G[x].peer # None => H[G[x].peer].wr = G[G[x].peer].wr
    BY <1>1, <1>7 DEF FileRecord
  <2>3. M[x].ended => H[x].in = <<>> /\ (H[x].peer = None \/ ~H[H[x].peer].wr)
    BY <2>1, <2>2 DEF Stream
  <2>4. QED
    BY <2>1, <2>3 DEF Stream
<1>11. Stream(H, M, g)
  <2>1. M[g].got = got /\ H[g].in = now /\ M[g].sent = L[g].sent + num /\ ~M[g].ended
    <3>1. M[g].got = L[g].got /\ M[g].ended = L[g].ended
      BY <1>3, <1>8
    <3>2. M[g].got = got
      BY <1>a, <3>1
    <3>3. H[g].in = now /\ M[g].sent = L[g].sent + num
      BY <1>7, <1>8
    <3>4. ~M[g].ended
      <4>1. L[g].ended \in BOOLEAN /\ ~L[g].ended
        BY <1>1, <1>3, <1>4, RecordFields
      <4>2. QED
        BY <3>1, <4>1
    <3>5. QED
      BY <3>2, <3>3, <3>4
  <2>2. Len(got) + (Len(in) + num) = L[g].sent + num
    <3>1. \A i, j \in Nat : i + (j + num) = (i + j) + num
      OBVIOUS
    <3>2. Len(got) + (Len(in) + num) = (Len(got) + Len(in)) + num
      BY <1>4, <3>1
    <3>3. QED
      BY <1>4, <3>2, Zenon
  <2>3. Len(got) + Len(now) = L[g].sent + num
    BY <1>5, <2>2, Zenon
  <2>4. Len(now) <= BufferSize
    <3>1. Len(in) + num <= BufferSize
      BY <1>1, <1>4, <1>a
    <3>2. QED
      BY <1>5, <3>1, Zenon
  <2>5. QED
    BY <1>4, <1>5, <2>1, <2>3, <2>4 DEF Stream
<1>12. QED
  BY <1>7, <1>8, <1>9, <1>10, <1>11 DEF Kernel, FileOK, H, M

-----------------------------------------------------------------------------
(* Who has the files.                                                      *)

\* A descriptor's file is there; a file in a backlog is open, in no other place
\* of a backlog, and without descriptor until it is accepted.
Held(G, F) ==
    /\ \A d \in SocketFd : F[d] # None => G[F[d]].st # "free"
    /\ \A l \in File : \A i \in 1 .. Len(G[l].backlog) :
          /\ G[G[l].backlog[i]].st = "open"
          /\ \A d \in SocketFd : F[d] # G[l].backlog[i]
          /\ \A m \in File : \A j \in 1 .. Len(G[m].backlog) :
                G[m].backlog[j] = G[l].backlog[i] => m = l /\ j = i

\* Descriptors are opened of files made now, or copied, or closed while the file
\* stays.
LEMMA HeldGrows ==
    ASSUME SocketAssumption, NEW G \in [File -> FileRecord], NEW H \in [File -> FileRecord],
           NEW F \in [SocketFd -> File \cup {None}], NEW E \in [SocketFd -> File \cup {None}],
           Held(G, F),
           \A x \in File : /\ H[x].backlog = G[x].backlog
                           /\ G[x].st # "free" => H[x].st # "free"
                           /\ G[x].st = "open" => H[x].st = "open",
           \A d \in SocketFd : \/ E[d] = None
                               \/ \E e \in SocketFd : E[d] = F[e]
                               \/ G[E[d]].st # "open" /\ H[E[d]].st # "free"
    PROVE  Held(H, E)
<1>1. \A d \in SocketFd : E[d] # None => E[d] \in File
  OBVIOUS
<1>2. ASSUME NEW d \in SocketFd, E[d] # None PROVE H[E[d]].st # "free"
  BY <1>1, <1>2 DEF Held
<1>3. ASSUME NEW l \in File, NEW i \in 1 .. Len(H[l].backlog)
      PROVE  /\ H[H[l].backlog[i]].st = "open"
             /\ \A d \in SocketFd : E[d] # H[l].backlog[i]
             /\ \A m \in File : \A j \in 1 .. Len(H[m].backlog) :
                   H[m].backlog[j] = H[l].backlog[i] => m = l /\ j = i
  <2>1. H[l].backlog = G[l].backlog /\ G[l].backlog \in Seq(File)
    BY RecordFields
  <2>2. PICK x \in File : x = G[l].backlog[i]
    BY <1>3, <2>1
  <2>3. /\ G[x].st = "open" /\ \A d \in SocketFd : F[d] # x
        /\ \A m \in File : \A j \in 1 .. Len(G[m].backlog) : G[m].backlog[j] = x => m = l /\ j = i
    BY <1>3, <2>1, <2>2 DEF Held
  <2>4. None \notin File
    BY DEF SocketAssumption
  <2>5. \A d \in SocketFd : E[d] # x
    BY <2>3, <2>4
  <2>6. QED
    BY <2>1, <2>2, <2>3, <2>5
<1>4. QED
  BY <1>2, <1>3 DEF Held

\* The first connection of a backlog gets a descriptor.
LEMMA HeldAccepts ==
    ASSUME SocketAssumption, NEW G \in [File -> FileRecord],
           NEW F \in [SocketFd -> File \cup {None}], Held(G, F),
           NEW l \in File, G[l].backlog # <<>>, NEW d \in SocketFd
    PROVE  /\ Head(G[l].backlog) \in File /\ Tail(G[l].backlog) \in Seq(File)
           /\ Held([G EXCEPT ![l].backlog = Tail(@)], [F EXCEPT ![d] = Head(G[l].backlog)])
<1> PICK b, g, r : b = G[l].backlog /\ g = Head(b) /\ r = Tail(b)
  OBVIOUS
<1>1. b \in Seq(File) /\ b # <<>>
  BY RecordFields
<1>2. /\ g \in File /\ g = b[1] /\ Len(b) \in Nat \ {0} /\ r \in Seq(File) /\ Len(r) = Len(b) - 1
      /\ \A i \in 1 .. (Len(b) - 1) : r[i] = b[i + 1]
  BY <1>1, HeadAndTail
<1> DEFINE H == [G EXCEPT ![l].backlog = r]
           E == [F EXCEPT ![d] = g]
<1>3. /\ H[l].backlog = r /\ \A x \in File : H[x].st = G[x].st
      /\ \A x \in File \ {l} : H[x].backlog = G[x].backlog
      /\ \A e \in SocketFd : E[e] = IF e = d THEN g ELSE F[e]
  BY DEF FileRecord
<1> HIDE DEF H, E
\* Every place of a backlog now was a place of it before, and g's is gone.
<1>4. ASSUME NEW m \in File, NEW j \in 1 .. Len(H[m].backlog)
      PROVE  LET k == IF m = l THEN j + 1 ELSE j
             IN  k \in 1 .. Len(G[m].backlog) /\ H[m].backlog[j] = G[m].backlog[k] /\ G[m].backlog[k] # g
  <2>1. 1 \in 1 .. Len(b) /\ b[1] = g
    BY <1>2
  <2>2. \A n \in File : \A k \in 1 .. Len(G[n].backlog) : G[n].backlog[k] = g => n = l /\ k = 1
    BY <2>1 DEF Held
  <2>3. CASE m = l
    <3>1. j \in 1 .. (Len(b) - 1) /\ j + 1 \in 1 .. Len(b) /\ j + 1 # 1
      <4>1. \A n \in Nat : \A i \in 1 .. (n - 1) : i + 1 \in 1 .. n /\ i + 1 # 1
        OBVIOUS
      <4>2. Len(H[m].backlog) = Len(b) - 1 /\ Len(b) \in Nat
        BY <1>2, <1>3, <2>3
      <4>3. j \in 1 .. (Len(b) - 1)
        BY <1>4, <4>2
      <4>4. QED
        BY <4>1, <4>2, <4>3
    <3>2. H[m].backlog[j] = b[j + 1]
      BY <1>2, <1>3, <2>3, <3>1
    <3>3. b[j + 1] # g
      BY <2>2, <3>1
    <3>4. QED
      BY <2>3, <3>1, <3>2, <3>3
  <2>4. CASE m # l
    BY <1>3, <1>4, <2>2, <2>4
  <2>5. QED
    BY <2>3, <2>4
<1>5. ASSUME NEW m \in File, NEW j \in 1 .. Len(H[m].backlog)
      PROVE  /\ H[H[m].backlog[j]].st = "open"
             /\ \A e \in SocketFd : E[e] # H[m].backlog[j]
             /\ \A n \in File : \A i \in 1 .. Len(H[n].backlog) :
                   H[n].backlog[i] = H[m].backlog[j] => n = m /\ i = j
  <2>1. PICK k, x : /\ k = IF m = l THEN j + 1 ELSE j
                    /\ x = H[m].backlog[j]
    OBVIOUS
  <2>2. k \in 1 .. Len(G[m].backlog) /\ x = G[m].backlog[k] /\ x # g
    BY <1>4, <1>5, <2>1
  <2>3. x \in File
    <3>1. G[m].backlog \in Seq(File)
      BY RecordFields
    <3>2. QED
      BY <2>2, <3>1
  <2>4. G[x].st = "open" /\ \A e \in SocketFd : F[e] # x
    BY <2>2 DEF Held
  <2>5. H[x].st = "open" /\ \A e \in SocketFd : E[e] # x
    BY <1>3, <2>2, <2>3, <2>4
  <2>6. ASSUME NEW n \in File, NEW i \in 1 .. Len(H[n].backlog), H[n].backlog[i] = x
        PROVE  n = m /\ i = j
    <3>1. PICK c : c = IF n = l THEN i + 1 ELSE i
      OBVIOUS
    <3>2. c \in 1 .. Len(G[n].backlog) /\ G[n].backlog[c] = x
      BY <1>4, <2>6, <3>1
    <3>3. n = m /\ c = k
      BY <2>2, <3>2 DEF Held
    <3>4. i \in Int /\ j \in Int
      BY <1>5, <2>6
    <3>5. QED
      BY <2>1, <3>1, <3>3, <3>4
  <2>7. QED
    BY <2>1, <2>5, <2>6
<1>6. ASSUME NEW e \in SocketFd, E[e] # None PROVE H[E[e]].st # "free"
  <2>1. G[g].st = "open"
    <3>1. 1 \in 1 .. Len(G[l].backlog) /\ g = G[l].backlog[1]
      BY <1>2
    <3>2. QED
      BY <3>1 DEF Held
  <2>2. CASE e = d
    BY <1>2, <1>3, <2>1, <2>2
  <2>3. CASE e # d
    BY <1>3, <1>6, <2>3 DEF Held
  <2>4. QED
    BY <2>2, <2>3
<1>7. Held(H, E)
  BY <1>5, <1>6 DEF Held
<1>8. QED
  BY <1>1, <1>2, <1>7 DEF H, E

\* No backlog that stays has a file that goes.
Spared(G, gone) == \A l \in File \ gone : \A i \in 1 .. Len(G[l].backlog) : G[l].backlog[i] \notin gone

\* Files go that no other descriptor and no backlog that stays refers to.
LEMMA HeldShrinks ==
    ASSUME SocketAssumption, NEW G \in [File -> FileRecord], NEW F \in [SocketFd -> File \cup {None}],
           Held(G, F), NEW gone \in SUBSET File, NEW s \in SocketFd,
           \A e \in SocketFd \ {s} : F[e] \notin gone,
           Spared(G, gone),
           NEW H \in [File -> FileRecord],
           \A x \in gone : H[x].backlog = <<>>,
           \A x \in File \ gone : H[x].st = G[x].st /\ H[x].backlog = G[x].backlog,
           NEW E, \A e \in SocketFd : E[e] # None => e # s /\ E[e] = F[e]
    PROVE  Held(H, E)
<1>1. \A e \in SocketFd : E[e] # None => E[e] = F[e] /\ e # s /\ F[e] \in File \ gone
  OBVIOUS
<1>2. ASSUME NEW e \in SocketFd, E[e] # None PROVE H[E[e]].st # "free"
  BY <1>1, <1>2 DEF Held
<1>3. ASSUME NEW m \in File, NEW j \in 1 .. Len(H[m].backlog)
      PROVE  m \notin gone /\ H[m].backlog = G[m].backlog /\ H[m].backlog[j] \in File \ gone
  <2>1. m \notin gone
    <3>1. Len(<<>>) = 0 /\ j \in Int /\ 1 <= j /\ j <= Len(H[m].backlog)
      <4>1. H[m].backlog \in Seq(File)
        BY RecordFields
      <4>2. QED
        BY <1>3, <4>1
    <3>2. QED
      BY <3>1
  <2>2. H[m].backlog = G[m].backlog /\ G[m].backlog \in Seq(File)
    BY <2>1, RecordFields
  <2>3. QED
    BY <1>3, <2>1, <2>2 DEF Spared
<1>4. ASSUME NEW m \in File, NEW j \in 1 .. Len(H[m].backlog)
      PROVE  /\ H[H[m].backlog[j]].st = "open"
             /\ \A e \in SocketFd : E[e] # H[m].backlog[j]
             /\ \A n \in File : \A i \in 1 .. Len(H[n].backlog) :
                   H[n].backlog[i] = H[m].backlog[j] => n = m /\ i = j
  <2>1. PICK x : x = H[m].backlog[j]
    OBVIOUS
  <2>2. x = G[m].backlog[j] /\ j \in 1 .. Len(G[m].backlog) /\ x \in File \ gone
    BY <1>3, <1>4, <2>1
  <2>3. /\ G[x].st = "open" /\ \A e \in SocketFd : F[e] # x
        /\ \A n \in File : \A i \in 1 .. Len(G[n].backlog) : G[n].backlog[i] = x => n = m /\ i = j
    BY <2>2 DEF Held
  <2>4. H[x].st = "open"
    BY <2>2, <2>3
  <2>5. \A e \in SocketFd : E[e] # x
    BY <1>1, <2>2, <2>3 DEF SocketAssumption
  <2>6. \A n \in File : \A i \in 1 .. Len(H[n].backlog) : H[n].backlog[i] = x => n = m /\ i = j
    BY <1>3, <2>3
  <2>7. QED
    BY <2>1, <2>4, <2>5, <2>6
<1>5. QED
  BY <1>2, <1>4 DEF Held

\* What goes with the last descriptor of a file.
Gone(d) == IF \E e \in SocketFd \ {d} : fdt[e] = fdt[d] THEN {}
           ELSE {fdt[d]} \cup {file[fdt[d]].backlog[i] : i \in 1 .. Len(file[fdt[d]].backlog)}

LEMMA GoneFacts ==
    ASSUME SocketAssumption, file \in [File -> FileRecord], fdt \in [SocketFd -> File \cup {None}],
           Held(file, fdt), NEW d \in SocketFd, fdt[d] # None
    PROVE  /\ Gone(d) \in SUBSET File
           /\ \A e \in SocketFd \ {d} : fdt[e] \notin Gone(d)
           /\ Spared(file, Gone(d))
<1>1. CASE \E e \in SocketFd \ {d} : fdt[e] = fdt[d]
  BY <1>1 DEF Gone, Spared
<1>2. CASE ~\E e \in SocketFd \ {d} : fdt[e] = fdt[d]
  <2>1. PICK f \in File, b \in Seq(File) : f = fdt[d] /\ b = file[f].backlog
    <3>1. fdt[d] \in File
      OBVIOUS
    <3>2. file[fdt[d]].backlog \in Seq(File)
      BY <3>1, RecordFields
    <3>3. QED
      BY <3>1, <3>2
  <2>2. Gone(d) = {f} \cup {b[i] : i \in 1 .. Len(b)}
    BY <1>2, <2>1 DEF Gone
  <2>3. \A i \in 1 .. Len(b) : b[i] \in File
    OBVIOUS
  <2>4. \A i \in 1 .. Len(b) : /\ \A e \in SocketFd : fdt[e] # b[i]
                               /\ \A m \in File : \A j \in 1 .. Len(file[m].backlog) :
                                     file[m].backlog[j] = b[i] => m = f
    BY <2>1 DEF Held
  <2>5. ASSUME NEW e \in SocketFd \ {d} PROVE fdt[e] \notin Gone(d)
    BY <1>2, <2>1, <2>2, <2>4
  <2>6. ASSUME NEW l \in File \ Gone(d), NEW i \in 1 .. Len(file[l].backlog)
        PROVE  file[l].backlog[i] \notin Gone(d)
    <3>1. l # f
      BY <2>2, <2>6
    <3>2. file[l].backlog[i] # f
      BY <2>1, <2>6 DEF Held
    <3>3. \A j \in 1 .. Len(b) : file[l].backlog[i] # b[j]
      BY <2>4, <2>6, <3>1
    <3>4. QED
      BY <2>2, <3>2, <3>3
  <2>7. QED
    BY <2>2, <2>3, <2>5, <2>6 DEF Spared
<1>3. QED
  BY <1>1, <1>2

\* A connection is made and waits in the backlog of a listener.
LEMMA HeldConnects ==
    ASSUME SocketAssumption, NEW G \in [File -> FileRecord], NEW F \in [SocketFd -> File \cup {None}],
           Held(G, F), NEW f \in File, NEW g \in File, NEW l \in File, f # g,
           G[f].st = "connecting", G[g].st = "free", G[l].st = "listen",
           G[f].backlog = <<>>, G[g].backlog = <<>>,
           NEW H \in [File -> FileRecord],
           H[f].st = "open", H[f].backlog = <<>>, H[g].st = "open", H[g].backlog = <<>>,
           \A x \in File : x \notin {f, g} => H[x].st = G[x].st,
           \A x \in File : x \notin {f, g, l} => H[x].backlog = G[x].backlog,
           NEW q \in Seq(File), q = Append(G[l].backlog, g), H[l].backlog = q
    PROVE  Held(H, F)
<1>1. PICK b \in Seq(File) : b = G[l].backlog
  BY RecordFields
<1>2. /\ Len(b) \in Nat /\ Len(H[l].backlog) = Len(b) + 1 /\ H[l].backlog[Len(b) + 1] = g
      /\ \A i \in 1 .. Len(b) : H[l].backlog[i] = b[i]
  BY <1>1
<1>3. /\ H[f].st = "open" /\ H[f].backlog = <<>> /\ H[g].st = "open" /\ H[g].backlog = <<>>
      /\ l # f /\ l # g
  BY FreshFacts
<1>4. \A x \in File : (G[x].st # "free" => H[x].st # "free") /\ (G[x].st = "open" => H[x].st = "open")
  BY <1>3
<1>5. \A x \in File : Len(G[x].backlog) \in Nat /\ G[x].backlog \in Seq(File)
  BY RecordFields
<1>6. ASSUME NEW m \in File, NEW j \in 1 .. Len(H[m].backlog)
      PROVE  \/ m = l /\ j = Len(b) + 1 /\ H[m].backlog[j] = g
             \/ j \in 1 .. Len(G[m].backlog) /\ H[m].backlog[j] = G[m].backlog[j]
  <2>1. CASE m = l /\ j = Len(b) + 1
    BY <1>2, <2>1
  <2>2. CASE m = l /\ j # Len(b) + 1
    <3>1. j \in 1 .. Len(b)
      BY <1>2, <1>6, <2>2
    <3>2. QED
      BY <1>1, <1>2, <2>2, <3>1
  <2>3. CASE m # l
    BY <1>3, <1>6, <2>3
  <2>4. QED
    BY <2>1, <2>2, <2>3
\* g was in no backlog and had no descriptor: it was free.
<1>7. /\ \A d \in SocketFd : F[d] # g
      /\ \A m \in File : \A j \in 1 .. Len(G[m].backlog) : G[m].backlog[j] # g
  <2>1. G[g].st = "free" /\ g # None
    BY DEF SocketAssumption
  <2>2. \A d \in SocketFd : F[d] # g
    BY <2>1 DEF Held
  <2>3. \A m \in File : \A j \in 1 .. Len(G[m].backlog) : G[G[m].backlog[j]].st = "open"
    BY DEF Held
  <2>4. QED
    BY <2>1, <2>2, <2>3
<1>8. ASSUME NEW m \in File, NEW j \in 1 .. Len(H[m].backlog)
      PROVE  /\ H[H[m].backlog[j]].st = "open"
             /\ \A e \in SocketFd : F[e] # H[m].backlog[j]
             /\ \A n \in File : \A i \in 1 .. Len(H[n].backlog) :
                   H[n].backlog[i] = H[m].backlog[j] => n = m /\ i = j
  <2>1. CASE m = l /\ j = Len(b) + 1 /\ H[m].backlog[j] = g
    <3>1. ASSUME NEW n \in File, NEW i \in 1 .. Len(H[n].backlog), H[n].backlog[i] = g
          PROVE  n = l /\ i = Len(b) + 1
      <4>1. ~(i \in 1 .. Len(G[n].backlog) /\ H[n].backlog[i] = G[n].backlog[i])
        BY <1>7, <3>1
      <4>2. QED
        BY <1>6, <3>1, <4>1
    <3>2. QED
      BY <1>3, <1>7, <2>1, <3>1
  <2>2. CASE j \in 1 .. Len(G[m].backlog) /\ H[m].backlog[j] = G[m].backlog[j]
    <3>1. PICK x \in File : x = G[m].backlog[j]
      BY <1>5, <2>2
    <3>2. /\ G[x].st = "open" /\ \A e \in SocketFd : F[e] # x
          /\ \A n \in File : \A i \in 1 .. Len(G[n].backlog) : G[n].backlog[i] = x => n = m /\ i = j
      BY <2>2, <3>1 DEF Held
    <3>3. x # g
      BY <3>2
    <3>4. ASSUME NEW n \in File, NEW i \in 1 .. Len(H[n].backlog), H[n].backlog[i] = x
          PROVE  n = m /\ i = j
      <4>1. i \in 1 .. Len(G[n].backlog) /\ G[n].backlog[i] = x
        BY <1>6, <3>3, <3>4
      <4>2. QED
        BY <3>2, <4>1
    <3>5. QED
      BY <1>4, <2>2, <3>1, <3>2, <3>4
  <2>3. QED
    BY <1>6, <1>8, <2>1, <2>2
<1>9. ASSUME NEW d \in SocketFd, F[d] # None PROVE H[F[d]].st # "free"
  <2>1. F[d] \in File /\ G[F[d]].st # "free"
    BY <1>9 DEF Held
  <2>2. QED
    BY <1>4, <2>1
<1>10. QED
  BY <1>8, <1>9 DEF Held

-----------------------------------------------------------------------------
(* The calls and the files they are about.                                 *)

\* The file a task is in a call on.
On(t) == IF task[t].obj = None THEN None ELSE FileOf(task[t].obj)
Writes(t, f) == task[t].op = "write" /\ On(t) = f

\* What was sent to the other end.
SentBy(f) == IF file[f].peer = None THEN 0 ELSE log[file[f].peer].sent

\* With Exclusive, no two calls on a file wait for the same event, also through
\* copies.
Apart == \A t, u \in Task : t # u /\ On(t) # None /\ On(t) = On(u) => Mode(task[t].op) # Mode(task[u].op)

\* A call is on an open descriptor; a task that connects has sent nothing yet.
CallOK(t) ==
    task[t].obj # None =>
        /\ On(t) \in File
        /\ task[t].op = "accept" <=> file[On(t)].st = "listen"
        /\ task[t].op = "connect" /\ file[On(t)].peer # None => file[file[On(t)].peer].in = <<>>
        /\ task[t].op = "write" => task[t].left \in Seq(Int)

\* A file was asked to send what it sent and what the task that writes to it has
\* left, in this order; when the other end is gone nothing more is sent.
Sends(f) ==
    file[f].st # "open" \/ file[f].peer # None =>
        /\ (\A t \in Task : ~Writes(t, f)) => log[f].asked = SentBy(f)
        /\ \A t \in Task : Writes(t, f) => /\ Numbered(task[t].left, SentBy(f))
                                           /\ log[f].asked = SentBy(f) + Len(task[t].left)

Calling == Apart /\ \A t \in Task : CallOK(t)
Sending == \A f \in File : Sends(f)
FlowInv == Kernel(file, log) /\ Held(file, fdt) /\ Calling /\ Sending

LEMMA TypeFacts ==
    ASSUME SocketAssumption, OwnInv, FlowInv
    PROVE  /\ file \in [File -> FileRecord] /\ log \in [File -> LogRecord]
           /\ fdt \in [SocketFd -> File \cup {None}] /\ sock \in [Obj -> Objects]
           /\ None \notin File /\ None \notin Obj /\ None \notin Task
           /\ \A o \in Obj : FileOf(o) \in File \cup {None}
           /\ \A f \in File : FileOK(file, log, f) /\ Shape(file, log, f) /\ Stream(file, log, f)
<1>1. /\ file \in [File -> FileRecord] /\ log \in [File -> LogRecord]
      /\ \A f \in File : FileOK(file, log, f) /\ Shape(file, log, f) /\ Stream(file, log, f)
  BY DEF FlowInv, Kernel, FileOK
<1>2. fdt \in [SocketFd -> File \cup {None}] /\ sock \in [Obj -> Objects]
  BY DEF OwnInv, Own
<1>3. \A o \in Obj : FileOf(o) \in File \cup {None}
  BY <1>2 DEF FileOf, Objects
<1>4. QED
  BY <1>1, <1>2, <1>3 DEF SocketAssumption

\* A task in a call is in one on an object that was made.
LEMMA CallFacts ==
    ASSUME SocketAssumption, OwnInv, WaitInv, NEW t \in Task
    PROVE  /\ task[t].obj = None => task[t] = Idle
           /\ task[t].obj # None => /\ task[t].obj \in Obj /\ task[t].op \in Ops /\ sock[task[t].obj].live
                                    /\ sock[task[t].obj].made /\ On(t) = FileOf(task[t].obj)
           /\ task[t] = Idle => task[t].obj = None /\ On(t) = None /\ task[t].op = "idle"
<1>1. /\ DOMAIN task = Task
      /\ task[t] = Idle \/ (task[t].op \in Ops /\ task[t].obj \in Obj /\ sock[task[t].obj].live)
  BY DEF WaitInv, CallInv
<1>2. Idle.obj = None /\ None \notin Obj /\ Idle.op = "idle"
  BY DEF Idle, SocketAssumption
<1>3. \A o \in Obj : sock[o].live => sock[o].made
  BY DEF OwnInv, Own
<1>4. QED
  BY <1>1, <1>2, <1>3 DEF On

\* A call keeps its file while objects are made: their descriptors were closed.
LEMMA MakersLeave ==
    ASSUME SocketAssumption, OwnInv, NEW o \in Obj, sock[o].made,
           \A p \in Obj : sock[p].made => sock'[p] = sock[p],
           \A d \in SocketFd : fdt[d] # None => fdt'[d] = fdt[d]
    PROVE  FileOf(o)' = FileOf(o)
<1>1. sock'[o] = sock[o]
  OBVIOUS
<1>2. sock[o].s # -1 => sock[o].s \in SocketFd /\ fdt[sock[o].s] # None
  BY DEF OwnInv, Own, Objects
<1>3. QED
  BY <1>1, <1>2 DEF FileOf
\* It keeps its file when another object is closed: they share no number.
LEMMA ClosersLeave ==
    ASSUME SocketAssumption, OwnInv, NEW o \in Obj, NEW p \in Obj, o # p,
           sock'[p] = sock[p], fdt' = Descriptors(sock[o].s)
    PROVE  FileOf(p)' = FileOf(p)
<1>1. sock[p].s # -1 => sock[p].s \in SocketFd /\ sock[p].s # sock[o].s
  BY DEF OwnInv, Own, Objects
<1>2. fdt \in [SocketFd -> File \cup {None}]
  BY DEF OwnInv, Own
<1>3. sock[p].s # -1 => fdt'[sock[p].s] = fdt[sock[p].s]
  BY <1>1, <1>2 DEF Descriptors
<1>4. QED
  BY <1>3 DEF FileOf

LEMMA MakersSpare ==
    ASSUME SocketAssumption, OwnInv, NEW t \in Task, Socket(t) \/ Pair(t) \/ Fdopen(t) \/ Accept(t)
    PROVE  /\ \A p \in Obj : sock[p].made => sock'[p] = sock[p]
           /\ \A d \in SocketFd : fdt[d] # None => fdt'[d] = fdt[d]
<1>1. DOMAIN fdt = SocketFd /\ DOMAIN sock = Obj
  BY DEF OwnInv, Own
<1>2. ASSUME CanMake(1), FreeFds # {}, NEW x, NEW y, fdt' = [fdt EXCEPT ![Min(FreeFds)] = x],
             sock' = [sock EXCEPT ![NewObj] = y]
      PROVE  /\ \A p \in Obj : sock[p].made => sock'[p] = sock[p]
             /\ \A d \in SocketFd : fdt[d] # None => fdt'[d] = fdt[d]
  <2>1. Min(FreeFds) \in SocketFd /\ fdt[Min(FreeFds)] = None /\ ~sock[NewObj].made
    BY <1>2, LowestFree, NewObjFacts
  <2>2. QED
    BY <1>1, <1>2, <2>1
<1>3. ASSUME CanMake(1), NEW y, fdt' = fdt, sock' = [sock EXCEPT ![NewObj] = y]
      PROVE  /\ \A p \in Obj : sock[p].made => sock'[p] = sock[p]
             /\ \A d \in SocketFd : fdt[d] # None => fdt'[d] = fdt[d]
  <2>1. ~sock[NewObj].made
    BY <1>3, NewObjFacts
  <2>2. QED
    BY <1>1, <1>3, <2>1
<1>4. CASE Socket(t)
  <2>1. CanMake(1)
    BY <1>4 DEF Socket
  <2>2. CASE FreeFds # {}
    <3>1. \E x, y : fdt' = [fdt EXCEPT ![Min(FreeFds)] = x] /\ sock' = [sock EXCEPT ![NewObj] = y]
      BY <1>4, <2>2 DEF Socket
    <3>2. QED
      BY <1>2, <2>1, <2>2, <3>1
  <2>3. CASE FreeFds = {}
    <3>1. fdt' = fdt /\ \E y : sock' = [sock EXCEPT ![NewObj] = y]
      BY <1>4, <2>3 DEF Socket, kernel
    <3>2. QED
      BY <1>3, <2>1, <3>1
  <2>4. QED
    BY <2>2, <2>3
<1>5. CASE Pair(t)
  <2> DEFINE b == CHOOSE o \in Obj : ~sock[o].made /\ o # NewObj
             da == Min(FreeFds)
             db == Min(FreeFds \ {da})
  <2>1. ~sock[NewObj].made /\ ~sock[b].made
    <3>1. \E o \in {x \in Obj : ~sock[x].made} : o # NewObj
      BY <1>5, AtLeastTwo DEF Pair, CanMake
    <3>2. QED
      BY <1>5, <3>1, NewObjFacts DEF Pair
  <2>2. \/ Cardinality(FreeFds) >= 2 /\ \E x, y, v, w : fdt' = [fdt EXCEPT ![da] = x, ![db] = y]
                                                        /\ sock' = [sock EXCEPT ![NewObj] = v, ![b] = w]
        \/ fdt' = fdt /\ \E v, w : sock' = [sock EXCEPT ![NewObj] = v, ![b] = w]
    <3>1. CASE Cardinality(FreeFds) >= 2
      <4> DEFINE f == NextFree
                 g == CHOOSE x \in Free : x # f
      <4>1. /\ fdt' = [fdt EXCEPT ![da] = f, ![db] = g]
            /\ sock' = [sock EXCEPT ![NewObj] = Object(da), ![b] = Object(db)]
        BY <1>5, <3>1 DEF Pair
      <4> HIDE DEF b, da, db, f, g
      <4>2. \E x, y, v, w : fdt' = [fdt EXCEPT ![da] = x, ![db] = y]
                           /\ sock' = [sock EXCEPT ![NewObj] = v, ![b] = w]
        BY <4>1, Zenon
      <4>3. QED
        BY <3>1, <4>2
    <3>2. CASE ~(Cardinality(FreeFds) >= 2)
      <4>1. fdt' = fdt /\ \E v, w : sock' = [sock EXCEPT ![NewObj] = v, ![b] = w]
        BY <1>5, <3>2 DEF Pair, kernel
      <4>2. QED
        BY <4>1
    <3>3. QED
      BY <3>1, <3>2
  <2>3. Cardinality(FreeFds) >= 2 => fdt[da] = None /\ fdt[db] = None
    <3>1. ASSUME Cardinality(FreeFds) >= 2 PROVE fdt[da] = None /\ fdt[db] = None
      <4>1. FreeFds \in SUBSET Nat /\ FreeFds # {} /\ FreeFds \ {da} # {}
        BY <3>1, AtLeastTwo, FdFacts DEF FreeFds
      <4>2. da \in FreeFds /\ db \in FreeFds \ {da}
        BY <4>1, MinProperties
      <4>3. QED
        BY <4>2 DEF FreeFds
    <3>2. QED
      BY <3>1
  <2> HIDE DEF b, da, db
  <2>4. QED
    BY <1>1, <2>1, <2>2, <2>3
<1>6. CASE Fdopen(t)
  <2>1. PICK o \in Obj :
          LET d == dup(sock[o].s)
          IN  /\ fdt' = IF d = -1 THEN fdt ELSE [fdt EXCEPT ![d] = FileOf(o)]
              /\ sock' = [sock EXCEPT ![NewObj] = Object(d)]
    BY <1>6 DEF Fdopen
  <2>2. CanMake(1)
    BY <1>6 DEF Fdopen
  <2>3. CASE FreeFds # {}
    <3>1. Min(FreeFds) # -1 /\ dup(sock[o].s) = Min(FreeFds)
      BY <2>3, LowestFree, FdFacts DEF dup
    <3>2. \E x, y : fdt' = [fdt EXCEPT ![Min(FreeFds)] = x] /\ sock' = [sock EXCEPT ![NewObj] = y]
      BY <2>1, <3>1
    <3>3. QED
      BY <1>2, <2>2, <2>3, <3>2
  <2>4. CASE FreeFds = {}
    <3>1. fdt' = fdt /\ \E y : sock' = [sock EXCEPT ![NewObj] = y]
      BY <2>1, <2>4 DEF dup
    <3>2. QED
      BY <1>3, <2>2, <3>1
  <2>5. QED
    BY <2>3, <2>4
<1>7. CASE Accept(t)
  <2>1. \/ fdt' = fdt /\ sock' = sock
        \/ /\ CanMake(1) /\ FreeFds # {}
           /\ \E x, y : fdt' = [fdt EXCEPT ![Min(FreeFds)] = x] /\ sock' = [sock EXCEPT ![NewObj] = y]
    BY <1>7 DEF Accept, kernel
  <2>2. QED
    BY <1>2, <2>1
<1>8. QED
  BY <1>4, <1>5, <1>6, <1>7

\* Whatever happens, a call keeps its file: nobody closes the object, and the
\* number is not handed out again.
LEMMA CallsKeepFiles ==
    ASSUME SocketAssumption, 0 \notin SocketFd, Exclusive, OwnInv, WaitInv, SocketNext,
           NEW o \in Obj, sock[o].made, InCallOn(o) # {}
    PROVE  FileOf(o)' = FileOf(o)
<1>1. ASSUME fdt' = fdt, sock' = sock PROVE FileOf(o)' = FileOf(o)
  BY <1>1 DEF FileOf
<1>2. ASSUME NEW t \in Task, Socket(t) \/ Pair(t) \/ Fdopen(t) \/ Accept(t) PROVE FileOf(o)' = FileOf(o)
  BY <1>2, MakersSpare, MakersLeave
<1>3. ASSUME NEW t \in Task, Close(t) PROVE FileOf(o)' = FileOf(o)
  <2>1. PICK p \in Obj : /\ InCallOn(p) = {} /\ fdt' = Descriptors(sock[p].s)
                         /\ sock' = [sock EXCEPT ![p] = Closed(p)]
    BY <1>3 DEF Close
  <2>2. p # o /\ sock'[o] = sock[o]
    BY <2>1 DEF OwnInv, Own
  <2>3. QED
    BY <2>1, <2>2, ClosersLeave
<1>4. ASSUME NEW p \in Obj, Collect(p) PROVE FileOf(o)' = FileOf(o)
  <2>1. InCallOn(p) = {} /\ \E x : sock' = [sock EXCEPT ![p] = x]
    BY <1>4 DEF Collect
  <2>2. sock[p].s # 0
    BY DEF OwnInv, Own, Objects
  <2>3. fdt' = Descriptors(sock[p].s)
    BY <1>4, <2>2 DEF Collect
  <2>4. p # o /\ sock'[o] = sock[o]
    BY <2>1 DEF OwnInv, Own
  <2>5. QED
    BY <2>3, <2>4, ClosersLeave
<1>5. ASSUME NEW t \in Task, Shutdown(t) \/ Listen(t) \/ Connect(t) \/ SocketRead(t) \/ Write(t) \/ Kill(t)
      PROVE  FileOf(o)' = FileOf(o)
  BY <1>1, <1>5 DEF Shutdown, Listen, Connect, SocketRead, Write, Kill, kernel
<1>6. ASSUME NEW f \in File, Establish(f) \/ Refuse(f) PROVE FileOf(o)' = FileOf(o)
  BY <1>1, <1>6 DEF Establish, Refuse
<1>7. ASSUME Poll PROVE FileOf(o)' = FileOf(o)
  BY <1>1, <1>7 DEF Poll, kernel
<1>8. QED
  BY <1>2, <1>3, <1>4, <1>5, <1>6, <1>7 DEF SocketNext

\* The same for the tasks: one that stays in its call, on the same object.
LEMMA OnKept ==
    ASSUME SocketAssumption, 0 \notin SocketFd, Exclusive, OwnInv, WaitInv, SocketNext,
           NEW t \in Task, task'[t].obj = task[t].obj
    PROVE  On(t)' = On(t)
<1>1. CASE task[t].obj = None
  BY <1>1 DEF On
<1>2. CASE task[t].obj # None
  <2>1. PICK o : o = task[t].obj
    OBVIOUS
  <2>2. o \in Obj /\ sock[o].made
    BY <1>2, <2>1, CallFacts
  <2>3. t \in InCallOn(o)
    BY <2>1 DEF InCallOn
  <2>4. FileOf(o)' = FileOf(o)
    BY <2>2, <2>3, CallsKeepFiles
  <2>5. On(t)' = FileOf(o)' /\ On(t) = FileOf(o)
    BY <1>2, <2>1 DEF On
  <2>6. QED
    BY <2>4, <2>5
<1>3. QED
  BY <1>1, <1>2

\* A file without descriptor is nobody's.
LEMMA Reachable ==
    ASSUME SocketAssumption, OwnInv, WaitInv, FlowInv, NEW f \in File,
           (\A d \in SocketFd : fdt[d] # f) \/ file[f].st = "free"
    PROVE  /\ \A o \in Obj : FileOf(o) # f
           /\ \A t \in Task : On(t) # f
<1>1. \A d \in SocketFd : fdt[d] # f
  BY TypeFacts DEF FlowInv, Held
<1>2. ASSUME NEW o \in Obj PROVE FileOf(o) # f
  <2>1. sock[o].s # -1 => sock[o].s \in SocketFd
    BY TypeFacts DEF Objects
  <2>2. QED
    BY <1>1, <2>1, TypeFacts DEF FileOf
<1>3. ASSUME NEW t \in Task PROVE On(t) # f
  BY <1>2, CallFacts, TypeFacts DEF On
<1>4. QED
  BY <1>2, <1>3

\* One task at most moves, to a call that may be made beside the others; for
\* the others their files stay what they were.
LEMMA CallsStep ==
    ASSUME SocketAssumption, 0 \notin SocketFd, Exclusive, OwnInv, WaitInv, FlowInv, SocketNext,
           NEW t, \A u \in Task \ {t} : task'[u] = task[u],
           t \in Task => CallOK(t)',
           t \in Task /\ task'[t].obj # None =>
               \A u \in Task \ {t} : On(u) = On(t)' => Mode(task[u].op) # Mode(task'[t].op),
           \A u \in Task \ {t} : task[u].obj # None =>
               /\ file'[On(u)].st = "listen" <=> file[On(u)].st = "listen"
               /\ task[u].op = "connect" /\ file'[On(u)].peer # None =>
                     \/ file'[file'[On(u)].peer].in = <<>>
                     \/ file[On(u)].peer # None /\ file'[file'[On(u)].peer].in = file[file[On(u)].peer].in
    PROVE  Calling'
<1>1. \A u \in Task \ {t} : On(u)' = On(u) /\ task'[u] = task[u]
  BY OnKept
<1>2. ASSUME NEW u \in Task PROVE CallOK(u)'
  <2>1. CASE u = t
    BY <2>1
  <2>2. CASE u # t
    <3>1. CallOK(u) /\ On(u)' = On(u) /\ task'[u] = task[u]
      BY <1>1, <2>2 DEF FlowInv, Calling
    <3>2. task[u].obj # None => On(u) \in File
      BY <3>1 DEF CallOK
    <3>3. QED
      BY <2>2, <3>1, <3>2 DEF CallOK
  <2>3. QED
    BY <2>1, <2>2
<1>3. ASSUME NEW u \in Task, NEW v \in Task, u # v, On(u)' # None, On(u)' = On(v)'
      PROVE  Mode(task'[u].op) # Mode(task'[v].op)
  <2>1. CASE u # t /\ v # t
    <3>1. On(u) # None /\ On(u) = On(v)
      BY <1>1, <1>3, <2>1
    <3>2. Mode(task[u].op) # Mode(task[v].op)
      BY <1>3, <3>1 DEF FlowInv, Calling, Apart
    <3>3. QED
      BY <1>1, <2>1, <3>2
  <2>2. CASE u = t
    <3>1. task'[t].obj # None
      BY <1>3, <2>2 DEF On
    <3>2. On(v) = On(t)' /\ task'[v] = task[v]
      BY <1>1, <1>3, <2>2
    <3>3. QED
      BY <1>3, <2>2, <3>1, <3>2
  <2>3. CASE v = t
    <3>1. task'[t].obj # None
      BY <1>3, <2>3 DEF On
    <3>2. On(u) = On(t)' /\ task'[u] = task[u]
      BY <1>1, <1>3, <2>3
    <3>3. QED
      BY <1>3, <2>3, <3>1, <3>2
  <2>4. QED
    BY <2>1, <2>2, <2>3
<1>4. Apart'
  BY <1>3 DEF Apart
<1>5. QED
  BY <1>2, <1>4 DEF Calling

\* What a file is asked to send stays what it was.
LEMMA SendsSame ==
    ASSUME NEW f \in File, Sends(f),
           \A u \in Task : (Writes(u, f)' <=> Writes(u, f)) /\ (Writes(u, f) => task'[u].left = task[u].left),
           log'[f].asked = log[f].asked, SentBy(f)' = SentBy(f),
           file'[f].st # "open" \/ file'[f].peer # None => file[f].st # "open" \/ file[f].peer # None
    PROVE  Sends(f)'
<1>1. ASSUME file'[f].st # "open" \/ file'[f].peer # None
      PROVE  /\ (\A t \in Task : ~Writes(t, f)') => log'[f].asked = SentBy(f)'
             /\ \A t \in Task : Writes(t, f)' => /\ Numbered(task'[t].left, SentBy(f)')
                                                 /\ log'[f].asked = SentBy(f)' + Len(task'[t].left)
  BY <1>1 DEF Sends
<1>2. QED
  BY <1>1 DEF Sends

\* Nobody writes to the file, and it has nothing to send.
LEMMA SendsNothing ==
    ASSUME NEW f, \A u \in Task : ~Writes(u, f)', log'[f].asked = SentBy(f)'
    PROVE  Sends(f)'
BY DEF Sends

LEMMA SendsNoMore ==
    ASSUME NEW f, file'[f].st = "open", file'[f].peer = None
    PROVE  Sends(f)'
BY DEF Sends

\* The files of a step after which all tasks are in the calls they were in.
LEMMA QuietStep ==
    ASSUME SocketAssumption, 0 \notin SocketFd, Exclusive, OwnInv, WaitInv, FlowInv, SocketNext,
           task' = task,
           \A u \in Task : task[u].obj # None =>
               /\ file'[On(u)].st = "listen" <=> file[On(u)].st = "listen"
               /\ task[u].op = "connect" /\ file'[On(u)].peer # None =>
                     \/ file'[file'[On(u)].peer].in = <<>>
                     \/ file[On(u)].peer # None /\ file'[file'[On(u)].peer].in = file[file[On(u)].peer].in,
           \A f \in File :
              \/ /\ log'[f].asked = log[f].asked /\ SentBy(f)' = SentBy(f)
                 /\ file'[f].st # "open" \/ file'[f].peer # None => file[f].st # "open" \/ file[f].peer # None
              \/ (\A u \in Task : On(u) # f) /\ log'[f].asked = SentBy(f)'
              \/ file'[f].st = "open" /\ file'[f].peer = None
    PROVE  Calling' /\ Sending'
<1>1. Calling'
  <2>1. PICK t : t \notin Task
    BY DEF SocketAssumption
  <2>2. \A u \in Task \ {t} : task'[u] = task[u]
    OBVIOUS
  <2>3. QED
    BY <2>1, <2>2, CallsStep
<1>2. \A u \in Task : On(u)' = On(u)
  BY OnKept
<1>3. \A u \in Task : \A f : Writes(u, f)' <=> Writes(u, f)
  BY <1>2 DEF Writes
<1>4. ASSUME NEW f \in File PROVE Sends(f)'
  <2>1. Sends(f)
    BY DEF FlowInv, Sending
  <2>2. CASE /\ log'[f].asked = log[f].asked /\ SentBy(f)' = SentBy(f)
             /\ file'[f].st # "open" \/ file'[f].peer # None => file[f].st # "open" \/ file[f].peer # None
    BY <1>3, <2>1, <2>2, SendsSame
  <2>3. CASE (\A u \in Task : On(u) # f) /\ log'[f].asked = SentBy(f)'
    <3>1. \A u \in Task : ~Writes(u, f)'
      BY <1>3, <2>3 DEF Writes
    <3>2. QED
      BY <2>3, <3>1, SendsNothing
  <2>4. CASE file'[f].st = "open" /\ file'[f].peer = None
    BY <2>4, SendsNoMore
  <2>5. QED
    BY <2>2, <2>3, <2>4
<1>5. QED
  BY <1>1, <1>4 DEF Sending

\* The streams stay what they were.
LEMMA StreamsStay ==
    ASSUME SocketAssumption, 0 \notin SocketFd, Exclusive, OwnInv, WaitInv, FlowInv, SocketNext,
           task' = task, log' = log,
           \A x \in File : /\ file'[x].peer = file[x].peer /\ file'[x].in = file[x].in
                           /\ file'[x].st = "open" <=> file[x].st = "open",
           \A u \in Task : task[u].obj # None => (file'[On(u)].st = "listen" <=> file[On(u)].st = "listen")
    PROVE  Calling' /\ Sending'
<1>1. \A u \in Task : task[u].obj # None => On(u) \in File
  BY DEF FlowInv, Calling, CallOK
<1>2. \A x \in File : file[x].peer # None => file[x].peer \in File
  BY TypeFacts DEF FileRecord
<1>3. \A x \in File : SentBy(x)' = SentBy(x)
  BY DEF SentBy
<1>4. ASSUME NEW u \in Task, task[u].obj # None, file'[On(u)].peer # None
      PROVE  file[On(u)].peer # None /\ file'[file'[On(u)].peer].in = file[file[On(u)].peer].in
  BY <1>1, <1>2, <1>4
<1>5. \A f \in File : /\ log'[f].asked = log[f].asked /\ SentBy(f)' = SentBy(f)
                      /\ file'[f].st # "open" \/ file'[f].peer # None => file[f].st # "open" \/ file[f].peer # None
  BY <1>3
<1>6. QED
  BY <1>4, <1>5, QuietStep

\* A free file has sent nothing and was asked for nothing.
LEMMA FreeFile ==
    ASSUME SocketAssumption, OwnInv, WaitInv, FlowInv, NEW f \in File, file[f].st = "free"
    PROVE  /\ log[f] = NoLog /\ log[f].asked = 0 /\ log[f].sent = 0 /\ SentBy(f) = 0
           /\ file[f].peer = None /\ file[f].backlog = <<>>
           /\ \A o \in Obj : FileOf(o) # f
           /\ \A u \in Task : On(u) # f
           /\ \A x \in File : file[x].peer # f
<1>1. Shape(file, log, f)
  BY TypeFacts
<1>2. log[f] = NoLog /\ file[f].peer = None /\ file[f].backlog = <<>>
  BY <1>1 DEF Shape
<1>3. ASSUME NEW x \in File PROVE file[x].peer # f
  <2>1. Shape(file, log, x)
    BY TypeFacts
  <2>2. None \notin File
    BY TypeFacts
  <2>3. file[x].peer = f => file[f].peer = x
    BY <2>1, <2>2 DEF Shape
  <2>4. QED
    BY <1>2, <2>2, <2>3
<1>4. QED
  BY <1>2, <1>3, Reachable, FreshFacts DEF SentBy

LEMMA SocketFlows ==
    ASSUME SocketAssumption, 0 \notin SocketFd, Exclusive, OwnInv, WaitInv, FlowInv,
           NEW t \in Task, Socket(t)
    PROVE  FlowInv'
<1>1. SocketNext /\ task' = task
  BY DEF SocketNext, Socket
<1>2. CASE FreeFds = {}
  <2>1. fdt' = fdt /\ file' = file /\ log' = log
    BY <1>2 DEF Socket, kernel
  <2>2. Kernel(file, log)' /\ Held(file, fdt)'
    BY <2>1 DEF FlowInv
  <2>3. \A f : SentBy(f)' = SentBy(f)
    BY <2>1 DEF SentBy
  <2>4. QED
    BY <1>1, <2>1, <2>2, <2>3, QuietStep DEF FlowInv
<1>3. CASE FreeFds # {}
  <2>1. PICK f \in File, d \in SocketFd :
           /\ f = NextFree /\ d = Min(FreeFds) /\ file[f].st = "free"
           /\ fdt' = [fdt EXCEPT ![d] = f] /\ file' = [file EXCEPT ![f].st = "new"]
           /\ log' = [log EXCEPT ![f] = NoLog]
    BY <1>3, NextFreeFacts, LowestFree DEF Socket, Free
  <2>2. log' = log /\ log[f] = NoLog /\ file[f].peer = None
    BY <2>1, FreeFile, TypeFacts
  <2>3. Kernel(file, log)'
    <3>1. file[f].st # "open" /\ file[f].st # "listen" /\ "new" \in {"new", "connecting", "refused", "listen"}
      BY <2>1
    <3>2. Kernel([file EXCEPT ![f].st = "new"], log)
      BY <3>1, KernelStatus DEF FlowInv
    <3>3. QED
      BY <2>1, <2>2, <3>2
  <2>4. file' \in [File -> FileRecord] /\ fdt' \in [SocketFd -> File \cup {None}]
    BY <2>1, <2>3, TypeFacts DEF Kernel
  <2>5. /\ \A x \in File \ {f} : file'[x] = file[x]
        /\ file'[f].st = "new" /\ file'[f].peer = None /\ file'[f].backlog = file[f].backlog
        /\ file'[f].in = file[f].in
    BY <2>1, <2>2, TypeFacts DEF FileRecord
  <2>6. Held(file, fdt)'
    <3>1. \A x \in File : /\ file'[x].backlog = file[x].backlog
                          /\ file[x].st # "free" => file'[x].st # "free"
                          /\ file[x].st = "open" => file'[x].st = "open"
      BY <2>1, <2>5
    <3>2. \A e \in SocketFd : \/ fdt'[e] = None
                              \/ \E c \in SocketFd : fdt'[e] = fdt[c]
                              \/ file[fdt'[e]].st # "open" /\ file'[fdt'[e]].st # "free"
      BY <2>1, <2>5, TypeFacts
    <3>3. Held(file, fdt) /\ file \in [File -> FileRecord] /\ fdt \in [SocketFd -> File \cup {None}]
      BY TypeFacts DEF FlowInv
    <3>4. QED
      BY <2>4, <3>1, <3>2, <3>3, HeldGrows
  <2>8. \A x \in File : file'[x].peer = file[x].peer /\ file'[x].in = file[x].in
                        /\ (file'[x].st = "listen" <=> file[x].st = "listen")
                        /\ (file'[x].st = "open" <=> file[x].st = "open")
    BY <2>1, <2>2, <2>5
  <2>9. \A u \in Task : task[u].obj # None => On(u) \in File
    BY DEF FlowInv, Calling, CallOK
  <2>11. Calling' /\ Sending'
    BY <1>1, <2>2, <2>8, <2>9, StreamsStay
  <2>12. QED
    BY <2>3, <2>6, <2>11 DEF FlowInv
<1>4. QED
  BY <1>2, <1>3

\* Nothing happens to the files; descriptors are copied.
LEMMA CopyFlows ==
    ASSUME SocketAssumption, 0 \notin SocketFd, Exclusive, OwnInv, WaitInv, FlowInv, SocketNext,
           task' = task, file' = file, log' = log, fdt' \in [SocketFd -> File \cup {None}],
           \A d \in SocketFd : fdt'[d] = None \/ \E e \in SocketFd : fdt'[d] = fdt[e]
    PROVE  FlowInv'
<1>1. Kernel(file, log)'
  BY DEF FlowInv
<1>2. Held(file, fdt) /\ file \in [File -> FileRecord] /\ fdt \in [SocketFd -> File \cup {None}]
  BY TypeFacts DEF FlowInv
<1>3. \A d \in SocketFd : \/ fdt'[d] = None
                          \/ \E e \in SocketFd : fdt'[d] = fdt[e]
                          \/ file[fdt'[d]].st # "open" /\ file'[fdt'[d]].st # "free"
  OBVIOUS
<1>4. Held(file, fdt')
  BY <1>2, <1>3, HeldGrows
<1>5. Held(file, fdt)'
  BY <1>4
<1>6. Calling' /\ Sending'
  BY StreamsStay
<1>7. QED
  BY <1>1, <1>5, <1>6 DEF FlowInv

LEMMA FdopenFlows ==
    ASSUME SocketAssumption, 0 \notin SocketFd, Exclusive, OwnInv, WaitInv, FlowInv,
           NEW t \in Task, Fdopen(t)
    PROVE  FlowInv'
<1>1. SocketNext /\ task' = task /\ file' = file /\ log' = log
  BY DEF SocketNext, Fdopen
<1>2. PICK o \in Obj : LET d == dup(sock[o].s)
                       IN  sock[o].s # -1 /\ fdt' = IF d = -1 THEN fdt ELSE [fdt EXCEPT ![d] = FileOf(o)]
  BY DEF Fdopen
<1>3. sock[o].s \in SocketFd /\ FileOf(o) = fdt[sock[o].s] /\ fdt \in [SocketFd -> File \cup {None}]
  BY <1>2, TypeFacts DEF FileOf, Objects
<1>4. fdt' = fdt \/ \E d : fdt' = [fdt EXCEPT ![d] = fdt[sock[o].s]]
  BY <1>2, <1>3
<1>5. fdt' \in [SocketFd -> File \cup {None}]
  BY <1>3, <1>4
<1>6. \A d \in SocketFd : fdt'[d] = None \/ \E e \in SocketFd : fdt'[d] = fdt[e]
  BY <1>3, <1>4
<1>7. QED
  BY <1>1, <1>5, <1>6, CopyFlows

LEMMA PollFlows ==
    ASSUME SocketAssumption, 0 \notin SocketFd, Exclusive, OwnInv, WaitInv, FlowInv, Poll
    PROVE  FlowInv'
<1>1. SocketNext /\ task' = task /\ file' = file /\ log' = log /\ fdt' = fdt
  BY DEF SocketNext, Poll, kernel
<1>2. fdt \in [SocketFd -> File \cup {None}]
  BY TypeFacts
<1>3. QED
  BY <1>1, <1>2, CopyFlows

\* A file that is not open changes its state.
LEMMA StatusKept ==
    ASSUME SocketAssumption, OwnInv, FlowInv, log' = log, fdt' = fdt,
           NEW f \in File, file[f].st \notin {"open", "listen", "free"},
           NEW x \in {"new", "connecting", "refused", "listen"}, file' = [file EXCEPT ![f].st = x]
    PROVE  /\ Kernel(file, log)' /\ Held(file, fdt)'
           /\ \A g \in File \ {f} : file'[g] = file[g]
           /\ file'[f].st = x /\ file'[f].peer = file[f].peer /\ file'[f].backlog = file[f].backlog
           /\ file'[f].in = file[f].in
<1>1. Kernel(file, log)'
  <2>1. file[f].st # "open" /\ file[f].st # "listen"
    OBVIOUS
  <2>2. Kernel([file EXCEPT ![f].st = x], log)
    BY <2>1, KernelStatus DEF FlowInv
  <2>3. QED
    BY <2>2
<1>2. /\ \A g \in File \ {f} : file'[g] = file[g]
      /\ file'[f].st = x /\ file'[f].peer = file[f].peer /\ file'[f].backlog = file[f].backlog
      /\ file'[f].in = file[f].in
  BY TypeFacts DEF FileRecord
<1>3. Held(file, fdt)'
  <2>1. \A g \in File : /\ file'[g].backlog = file[g].backlog
                        /\ file[g].st # "free" => file'[g].st # "free"
                        /\ file[g].st = "open" => file'[g].st = "open"
    BY <1>2
  <2>2. Held(file, fdt) /\ file \in [File -> FileRecord] /\ fdt \in [SocketFd -> File \cup {None}]
    BY TypeFacts DEF FlowInv
  <2>3. file' \in [File -> FileRecord]
    BY <1>1 DEF Kernel
  <2>4. \A d \in SocketFd : \/ fdt[d] = None
                            \/ \E e \in SocketFd : fdt[d] = fdt[e]
                            \/ file[fdt[d]].st # "open" /\ file'[fdt[d]].st # "free"
    OBVIOUS
  <2>5. Held(file', fdt)
    BY <2>1, <2>2, <2>3, <2>4, HeldGrows
  <2>6. QED
    BY <2>5
<1>4. QED
  BY <1>1, <1>2, <1>3

\* The tasks stay in their calls; nobody is in a call on a file that becomes a
\* listener.
LEMMA StatusFlows ==
    ASSUME SocketAssumption, 0 \notin SocketFd, Exclusive, OwnInv, WaitInv, FlowInv, SocketNext,
           task' = task, log' = log, fdt' = fdt,
           NEW f \in File, file[f].st \notin {"open", "listen", "free"},
           NEW x \in {"refused", "listen"}, file' = [file EXCEPT ![f].st = x],
           x = "listen" => \A u \in Task : On(u) # f
    PROVE  FlowInv'
<1>1. x \in {"new", "connecting", "refused", "listen"}
  OBVIOUS
<1>2. Kernel(file, log)' /\ Held(file, fdt)'
  BY <1>1, StatusKept
<1>3. /\ \A g \in File \ {f} : file'[g] = file[g]
      /\ file'[f].st = x /\ file'[f].peer = file[f].peer /\ file'[f].in = file[f].in
  BY <1>1, StatusKept
<1>4. \A g \in File : /\ file'[g].peer = file[g].peer /\ file'[g].in = file[g].in
                      /\ (file'[g].st = "open" <=> file[g].st = "open")
                      /\ (g # f \/ x # "listen" => (file'[g].st = "listen" <=> file[g].st = "listen"))
  BY <1>3
<1>5. \A u \in Task : task[u].obj # None => On(u) \in File
  BY DEF FlowInv, Calling, CallOK
<1>6. Calling' /\ Sending'
  BY <1>4, <1>5, StreamsStay
<1>7. QED
  BY <1>2, <1>6 DEF FlowInv

LEMMA RefuseFlows ==
    ASSUME SocketAssumption, 0 \notin SocketFd, Exclusive, OwnInv, WaitInv, FlowInv,
           NEW f \in File, Refuse(f)
    PROVE  FlowInv'
<1>1. SocketNext /\ task' = task /\ log' = log /\ fdt' = fdt /\ file' = [file EXCEPT ![f].st = "refused"]
  BY DEF SocketNext, Refuse
<1>2. file[f].st \notin {"open", "listen", "free"}
  BY DEF Refuse
<1>3. QED
  BY <1>1, <1>2, StatusFlows

LEMMA ListenFlows ==
    ASSUME SocketAssumption, 0 \notin SocketFd, Exclusive, OwnInv, WaitInv, FlowInv,
           NEW t \in Task, Listen(t)
    PROVE  FlowInv'
<1>1. SocketNext /\ task' = task /\ log' = log /\ fdt' = fdt
  BY DEF SocketNext, Listen
<1>2. PICK o \in Obj : /\ FileOf(o) # None /\ file[FileOf(o)].st = "new" /\ Sharing(o) = {}
                       /\ file' = [file EXCEPT ![FileOf(o)].st = "listen"]
  BY DEF Listen
<1>3. PICK f \in File : f = FileOf(o)
  BY <1>2, TypeFacts
<1>4. \A u \in Task : On(u) # f
  BY <1>2, <1>3, TypeFacts DEF On, Sharing
<1>5. file[f].st \notin {"open", "listen", "free"} /\ file' = [file EXCEPT ![f].st = "listen"]
  BY <1>2, <1>3
<1>6. QED
  BY <1>1, <1>4, <1>5, StatusFlows

LEMMA ShutdownFlows ==
    ASSUME SocketAssumption, 0 \notin SocketFd, Exclusive, OwnInv, WaitInv, FlowInv,
           NEW t \in Task, Shutdown(t)
    PROVE  FlowInv'
<1>1. SocketNext /\ task' = task /\ log' = log /\ fdt' = fdt
  BY DEF SocketNext, Shutdown
<1>2. PICK o \in Obj, a \in BOOLEAN, b \in BOOLEAN :
         /\ FileOf(o) # None /\ file[FileOf(o)].st = "open"
         /\ file' = [file EXCEPT ![FileOf(o)].rd = @ /\ ~a, ![FileOf(o)].wr = @ /\ ~b]
  BY DEF Shutdown
<1>3. PICK f \in File : f = FileOf(o)
  BY <1>2, TypeFacts
<1>4. PICK q, r : q = file[f] /\ r = file'[f]
  OBVIOUS
<1>5. file' = [file EXCEPT ![f] = r]
  BY <1>2, <1>3, <1>4, TypeFacts
<1>6. /\ r.st = q.st /\ r.peer = q.peer /\ r.in = q.in /\ r.backlog = q.backlog
      /\ r \in FileRecord
  <2>1. file \in [File -> FileRecord]
    BY TypeFacts
  <2>2. QED
    BY <1>2, <1>3, <1>4, <2>1 DEF FileRecord
<1>7. r.wr => q.wr
  <2>1. file \in [File -> FileRecord]
    BY TypeFacts
  <2>2. r.wr = (q.wr /\ ~b)
    BY <1>2, <1>3, <1>4, <2>1 DEF FileRecord
  <2>3. QED
    BY <2>2
<1>11. Kernel(file, log)'
  <2>1. Kernel([file EXCEPT ![f] = r], log)
    BY <1>4, <1>6, <1>7, KernelFlags DEF FlowInv
  <2>2. QED
    BY <1>1, <1>5, <2>1
<1>12. \A g \in File : /\ file'[g].peer = file[g].peer /\ file'[g].in = file[g].in
                       /\ file'[g].st = file[g].st /\ file'[g].backlog = file[g].backlog
  BY <1>4, <1>5, <1>6, TypeFacts
<1>13. Held(file, fdt)'
  <2>1. Held(file, fdt) /\ file \in [File -> FileRecord] /\ fdt \in [SocketFd -> File \cup {None}]
    BY TypeFacts DEF FlowInv
  <2>2. file' \in [File -> FileRecord]
    BY <1>11 DEF Kernel
  <2>3. Held(file', fdt)
    BY <1>12, <2>1, <2>2, HeldGrows
  <2>4. QED
    BY <1>1, <2>3
<1>14. \A u \in Task : task[u].obj # None => On(u) \in File
  BY DEF FlowInv, Calling, CallOK
<1>15. Calling' /\ Sending'
  BY <1>1, <1>12, <1>14, StreamsStay
<1>16. QED
  BY <1>11, <1>13, <1>15 DEF FlowInv

\* A stream is made of two files that nothing was sent to yet.
LEMMA StreamMade ==
    ASSUME SocketAssumption, 0 \notin SocketFd, Exclusive, OwnInv, WaitInv, FlowInv, SocketNext,
           task' = task, log' = log, NEW f \in File, NEW g \in File, f # g,
           file[f].st \in {"free", "connecting"}, file[g].st = "free",
           file'[f] = Connection(g), file'[g] = Connection(f),
           \A x \in File \ {f, g} : file'[x].st = file[x].st /\ file'[x].peer = file[x].peer /\ file'[x].in = file[x].in
    PROVE  Calling' /\ Sending'
<1>1. /\ file[f].peer = None /\ log[f].sent = 0 /\ file[g].peer = None /\ log[g].sent = 0
      /\ \A x \in File : file[x].peer # f /\ file[x].peer # g
  <2>1. Shape(file, log, f) /\ Shape(file, log, g)
    BY TypeFacts
  <2>2. file[f].peer = None /\ log[f].sent = 0 /\ file[g].peer = None /\ log[g].sent = 0
    BY <2>1 DEF Shape
  <2>3. ASSUME NEW x \in File PROVE file[x].peer # f /\ file[x].peer # g
    <3>1. Shape(file, log, x) /\ None \notin File
      BY TypeFacts
    <3>2. file[x].peer # None => file[file[x].peer].peer = x
      BY <3>1 DEF Shape
    <3>3. QED
      BY <2>2, <3>1, <3>2
  <2>4. QED
    BY <2>2, <2>3
<1>2. /\ file'[f].st = "open" /\ file'[f].peer = g /\ file'[f].in = <<>>
      /\ file'[g].st = "open" /\ file'[g].peer = f /\ file'[g].in = <<>>
  BY FreshFacts
<1>3. \A x \in File : file[x].peer # None => file[x].peer \in File \ {f, g}
  BY <1>1, TypeFacts DEF FileRecord
<1>4. ASSUME NEW x \in File
      PROVE  /\ log'[x].asked = log[x].asked /\ SentBy(x)' = SentBy(x)
             /\ file'[x].st # "open" \/ file'[x].peer # None => file[x].st # "open" \/ file[x].peer # None
  <2>1. CASE x \in {f, g}
    <3>1. SentBy(x) = 0 /\ SentBy(x)' = 0
      BY <1>1, <1>2, <2>1, TypeFacts DEF SentBy
    <3>2. QED
      BY <2>1, <3>1
  <2>2. CASE x \notin {f, g}
    BY <2>2 DEF SentBy
  <2>3. QED
    BY <2>1, <2>2
<1>5. ASSUME NEW u \in Task, task[u].obj # None
      PROVE  /\ file'[On(u)].st = "listen" <=> file[On(u)].st = "listen"
             /\ file'[On(u)].peer # None =>
                   \/ file'[file'[On(u)].peer].in = <<>>
                   \/ file[On(u)].peer # None /\ file'[file'[On(u)].peer].in = file[file[On(u)].peer].in
  <2>1. On(u) \in File
    BY <1>5 DEF FlowInv, Calling, CallOK
  <2>2. CASE On(u) \in {f, g}
    BY <1>2, <2>2
  <2>3. CASE On(u) \notin {f, g}
    BY <1>3, <2>1, <2>3
  <2>4. QED
    BY <2>2, <2>3
<1>6. QED
  BY <1>4, <1>5, QuietStep

LEMMA PairFlows ==
    ASSUME SocketAssumption, 0 \notin SocketFd, Exclusive, OwnInv, WaitInv, FlowInv,
           NEW t \in Task, Pair(t)
    PROVE  FlowInv'
<1>1. SocketNext /\ task' = task
  BY DEF SocketNext, Pair
<1>2. CASE ~(Cardinality(FreeFds) >= 2)
  <2>1. fdt' = fdt /\ file' = file /\ log' = log
    BY <1>2 DEF Pair, kernel
  <2>2. fdt' \in [SocketFd -> File \cup {None}]
    BY <2>1, TypeFacts
  <2>3. QED
    BY <1>1, <2>1, <2>2, CopyFlows
<1>3. CASE Cardinality(FreeFds) >= 2
  <2> DEFINE f == NextFree
             g == CHOOSE x \in Free : x # f
             da == Min(FreeFds)
             db == Min(FreeFds \ {da})
  <2>1. /\ fdt' = [fdt EXCEPT ![da] = f, ![db] = g]
        /\ file' = [file EXCEPT ![f] = Connection(g), ![g] = Connection(f)]
        /\ log' = [log EXCEPT ![f] = NoLog, ![g] = NoLog]
    BY <1>3 DEF Pair
  <2>2. f \in Free /\ g \in Free /\ g # f
    <3>1. \E x \in Free : x # f
      BY AtLeastTwo DEF Pair
    <3>2. QED
      BY <3>1, NextFreeFacts
  <2>3. f \in File /\ g \in File /\ file[f].st = "free" /\ file[g].st = "free"
    BY <2>2 DEF Free
  <2> HIDE DEF f, g, da, db
  <2>4. log[f] = NoLog /\ log[g] = NoLog /\ file[f].backlog = <<>> /\ file[g].backlog = <<>>
    BY <2>3, FreeFile
  <2>5. log' = log
    BY <2>1, <2>4, TypeFacts
  <2>6. /\ file'[f] = Connection(g) /\ file'[g] = Connection(f)
        /\ \A x \in File \ {f, g} : file'[x] = file[x]
    BY <2>1, <2>2, <2>3, TypeFacts
  <2>7. /\ file' \in [File -> FileRecord]
        /\ file'[f].st = "open" /\ file'[g].st = "open"
        /\ file'[f].backlog = <<>> /\ file'[g].backlog = <<>>
    BY <2>1, <2>3, <2>6, FreshFacts, TypeFacts
  <2>8. Kernel(file, log)'
    <3>1. Kernel(file, log) /\ f # g
      BY <2>2 DEF FlowInv
    <3>2. \A x \in File \ {f, g} :
               /\ file'[x].st = file[x].st /\ file'[x].peer = file[x].peer /\ file'[x].in = file[x].in
               /\ file'[x].wr = file[x].wr /\ (file'[x].backlog = file[x].backlog \/ file'[x].st = "listen")
      BY <2>6
    <3>3. file[f].st \in {"free", "connecting"}
      BY <2>3
    <3>4. Kernel(file', log)
      BY <2>3, <2>6, <2>7, <3>1, <3>2, <3>3, KernelStreams
    <3>5. QED
      BY <2>5, <3>4
  <2>9. Held(file, fdt)'
    <3>1. Held(file, fdt) /\ file \in [File -> FileRecord] /\ fdt \in [SocketFd -> File \cup {None}]
      BY TypeFacts DEF FlowInv
    <3>2. fdt' \in [SocketFd -> File \cup {None}]
      BY <2>1, <2>3, <3>1
    <3>3. \A x \in File : /\ file'[x].backlog = file[x].backlog
                          /\ file[x].st # "free" => file'[x].st # "free"
                          /\ file[x].st = "open" => file'[x].st = "open"
      BY <2>4, <2>6, <2>7
    <3>4. \A d \in SocketFd : \/ fdt'[d] = None
                              \/ \E e \in SocketFd : fdt'[d] = fdt[e]
                              \/ file[fdt'[d]].st # "open" /\ file'[fdt'[d]].st # "free"
      <4>1. file[f].st # "open" /\ file'[f].st # "free" /\ file[g].st # "open" /\ file'[g].st # "free"
        BY <2>3, <2>7
      <4>2. \A d \in SocketFd : fdt'[d] \in {f, g, fdt[d]}
        BY <2>1, <3>1
      <4>3. QED
        BY <4>1, <4>2
    <3>5. Held(file', fdt')
      BY <2>7, <3>1, <3>2, <3>3, <3>4, HeldGrows
    <3>6. QED
      BY <3>5
  <2>10. Calling' /\ Sending'
    <3>1. file[f].st \in {"free", "connecting"} /\ f # g
      BY <2>2, <2>3
    <3>2. QED
      BY <1>1, <2>3, <2>5, <2>6, <3>1, StreamMade
  <2>11. QED
    BY <2>8, <2>9, <2>10 DEF FlowInv
<1>4. QED
  BY <1>2, <1>3

LEMMA EstablishFlows ==
    ASSUME SocketAssumption, 0 \notin SocketFd, Exclusive, OwnInv, WaitInv, FlowInv,
           NEW f \in File, Establish(f)
    PROVE  FlowInv'
<1>1. SocketNext /\ task' = task /\ fdt' = fdt /\ file[f].st = "connecting"
  BY DEF SocketNext, Establish
<1>2. PICK g \in File, l \in File :
         /\ file[g].st = "free" /\ file[l].st = "listen"
         /\ file' = [file EXCEPT ![f] = Connection(g), ![g] = Connection(f), ![l].backlog = Append(@, g)]
         /\ log' = [log EXCEPT ![g] = NoLog]
  BY NextFreeFacts DEF Establish, Free
<1>3. f # g /\ l # f /\ l # g /\ file[f].backlog = <<>> /\ file[g].backlog = <<>>
  <2>1. Shape(file, log, f) /\ Shape(file, log, g)
    BY TypeFacts
  <2>2. QED
    BY <1>1, <1>2, <2>1 DEF Shape
<1>4. log' = log
  BY <1>2, FreeFile, TypeFacts
<1>5. PICK b \in Seq(File) : b = Append(file[l].backlog, g)
  <2>1. file[l].backlog \in Seq(File)
    BY RecordFields, TypeFacts
  <2>2. Append(file[l].backlog, g) \in Seq(File)
    BY <2>1
  <2>3. QED
    BY <2>2
<1>6. PICK q, r : q = file[l] /\ r = [q EXCEPT !.backlog = b]
  OBVIOUS
<1>7. /\ q \in FileRecord /\ r \in FileRecord /\ r.st = q.st /\ r.peer = q.peer /\ r.in = q.in
      /\ r.wr = q.wr /\ r.backlog = b
  <2>1. q \in FileRecord
    BY <1>6, TypeFacts
  <2>2. QED
    BY <1>6, <2>1 DEF FileRecord
<1>8. /\ file'[f] = Connection(g) /\ file'[g] = Connection(f)
      /\ file'[l] = r /\ \A x \in File \ {f, g, l} : file'[x] = file[x]
      /\ DOMAIN file' = File
  BY <1>2, <1>3, <1>5, <1>6, TypeFacts
<1>9. file' \in [File -> FileRecord]
  <2>1. \A x \in File : file'[x] \in FileRecord
    BY <1>7, <1>8, FreshFacts, TypeFacts
  <2>2. file' = [x \in File |-> file'[x]]
    BY <1>2, TypeFacts
  <2>3. QED
    BY <2>1, <2>2
<1>10. \A x \in File \ {f, g} :
               /\ file'[x].st = file[x].st /\ file'[x].peer = file[x].peer /\ file'[x].in = file[x].in
               /\ file'[x].wr = file[x].wr /\ (file'[x].backlog = file[x].backlog \/ file'[x].st = "listen")
  BY <1>2, <1>6, <1>7, <1>8
<1>11. Kernel(file, log)'
  <2>1. /\ Kernel(file, log) /\ file[f].st \in {"free", "connecting"} /\ file[g].st = "free" /\ f # g
        /\ file'[f] = Connection(g) /\ file'[g] = Connection(f)
    BY <1>1, <1>2, <1>3, <1>8 DEF FlowInv
  <2>2. Kernel(file', log)
    BY <1>9, <1>10, <2>1, KernelStreams
  <2>3. QED
    BY <1>4, <2>2
<1>12. Held(file, fdt)'
  <2>1. Held(file, fdt) /\ file \in [File -> FileRecord] /\ fdt \in [SocketFd -> File \cup {None}]
    BY TypeFacts DEF FlowInv
  <2>2. /\ \A x \in File : x \notin {f, g} => file'[x].st = file[x].st
        /\ \A x \in File : x \notin {f, g, l} => file'[x].backlog = file[x].backlog
        /\ b = Append(file[l].backlog, g) /\ file'[l].backlog = b /\ b \in Seq(File)
    BY <1>5, <1>7, <1>8, <1>10
  <2>3. /\ file[f].st = "connecting" /\ file[g].st = "free" /\ file[l].st = "listen" /\ f # g
        /\ file'[f].st = "open" /\ file'[f].backlog = <<>> /\ file'[g].st = "open" /\ file'[g].backlog = <<>>
        /\ file[f].backlog = <<>> /\ file[g].backlog = <<>>
    BY <1>1, <1>2, <1>3, <1>8, FreshFacts
  <2>4. Held(file', fdt)
    BY <1>9, <2>1, <2>2, <2>3, HeldConnects
  <2>5. QED
    BY <1>1, <2>4
<1>13. Calling' /\ Sending'
  <2>1. file[f].st \in {"free", "connecting"}
    BY <1>1
  <2>2. QED
    BY <1>1, <1>2, <1>3, <1>4, <1>8, <1>10, <2>1, StreamMade
<1>14. QED
  BY <1>11, <1>12, <1>13 DEF FlowInv

\* The files after a descriptor was closed.
LEMMA ClosedFields ==
    ASSUME SocketAssumption, OwnInv, WaitInv, FlowInv, NEW d \in SocketFd,
           Gone(d) \in SUBSET File, file' = ClosedBy(d), log' = Logs(file')
    PROVE  /\ file' \in [File -> FileRecord] /\ log' \in [File -> LogRecord]
           /\ \A x \in Gone(d) : file'[x] = NoFile /\ log'[x] = NoLog
           /\ \A x \in File \ Gone(d) :
                 /\ file'[x].st = file[x].st /\ file'[x].in = file[x].in /\ file'[x].wr = file[x].wr
                 /\ file'[x].backlog = file[x].backlog /\ log'[x] = log[x]
                 /\ file'[x].peer = IF file[x].peer \in Gone(d) THEN None ELSE file[x].peer
<1>1. file' = [x \in File |-> IF x \in Gone(d) THEN NoFile
                              ELSE IF file[x].peer \in Gone(d) THEN [file[x] EXCEPT !.peer = None]
                              ELSE file[x]]
  BY DEF ClosedBy, Gone
<1>2. log' = [x \in File |-> IF file'[x].st = "free" THEN NoLog ELSE log[x]]
  BY DEF Logs
<1>3. file' \in [File -> FileRecord] /\ log' \in [File -> LogRecord]
  <2>1. \A x \in File : file[x] \in FileRecord /\ [file[x] EXCEPT !.peer = None] \in FileRecord
    BY RecordUpdates, TypeFacts
  <2>2. file' \in [File -> FileRecord]
    BY <1>1, <2>1, FreshFacts
  <2>3. \A x \in File : log[x] \in LogRecord
    BY TypeFacts
  <2>4. log' \in [File -> LogRecord]
    BY <1>2, <2>3, FreshFacts
  <2>5. QED
    BY <2>2, <2>4
<1>4. ASSUME NEW x \in Gone(d) PROVE file'[x] = NoFile /\ log'[x] = NoLog
  <2>1. x \in File /\ file'[x] = NoFile
    BY <1>1
  <2>2. QED
    BY <1>2, <2>1, FreshFacts
<1>5. ASSUME NEW x \in File \ Gone(d)
      PROVE  /\ file'[x].st = file[x].st /\ file'[x].in = file[x].in /\ file'[x].wr = file[x].wr
             /\ file'[x].backlog = file[x].backlog /\ log'[x] = log[x]
             /\ file'[x].peer = IF file[x].peer \in Gone(d) THEN None ELSE file[x].peer
  <2>1. file[x] \in FileRecord
    BY TypeFacts
  <2>2. file'[x] = IF file[x].peer \in Gone(d) THEN [file[x] EXCEPT !.peer = None] ELSE file[x]
    BY <1>1
  <2>3. /\ file'[x].st = file[x].st /\ file'[x].in = file[x].in /\ file'[x].backlog = file[x].backlog
        /\ file'[x].wr = file[x].wr
        /\ file'[x].peer = IF file[x].peer \in Gone(d) THEN None ELSE file[x].peer
    BY <2>1, <2>2 DEF FileRecord
  <2>4. log'[x] = log[x]
    BY <1>2, <2>3, FreeFile
  <2>5. QED
    BY <2>3, <2>4
<1>6. QED
  BY <1>3, <1>4, <1>5

\* The object of no call is closed or collected.
LEMMA ShutFlows ==
    ASSUME SocketAssumption, 0 \notin SocketFd, Exclusive, OwnInv, WaitInv, FlowInv, SocketNext,
           task' = task, NEW o \in Obj, InCallOn(o) = {},
           fdt' = Descriptors(sock[o].s), file' = Files(sock[o].s), log' = Logs(file')
    PROVE  FlowInv'
<1>1. CASE sock[o].s = -1
  <2>1. fdt' = fdt /\ file' = file
    BY <1>1 DEF Descriptors, Files
  <2>2. log' = log
    <3>1. \A f \in File : log'[f] = log[f]
      BY <2>1, FreeFile DEF Logs
    <3>2. DOMAIN log' = File /\ DOMAIN log = File /\ log' = [f \in File |-> log'[f]]
      BY TypeFacts DEF Logs
    <3>3. log = [f \in File |-> log[f]]
      BY TypeFacts
    <3>4. QED
      BY <3>1, <3>2, <3>3
  <2>3. fdt' \in [SocketFd -> File \cup {None}]
    BY <2>1, TypeFacts
  <2>4. QED
    BY <2>1, <2>2, <2>3, CopyFlows
<1>2. CASE sock[o].s # -1
  <2>1. PICK d \in SocketFd : d = sock[o].s /\ fdt[d] # None
    BY <1>2 DEF OwnInv, Own, Objects
  <2>2. fdt' = [fdt EXCEPT ![d] = None] /\ file' = ClosedBy(d)
    BY <1>2, <2>1 DEF Descriptors, Files
  <2>3. Held(file, fdt) /\ file \in [File -> FileRecord] /\ fdt \in [SocketFd -> File \cup {None}]
    BY TypeFacts DEF FlowInv
  <2>4. PICK gone \in SUBSET File :
           /\ gone = Gone(d) /\ \A e \in SocketFd \ {d} : fdt[e] \notin gone
           /\ Spared(file, gone)
    BY <2>1, <2>3, GoneFacts
  <2>5. file' \in [File -> FileRecord] /\ log' \in [File -> LogRecord]
    BY <2>2, <2>4, ClosedFields
  <2>6. /\ \A x \in gone : file'[x] = NoFile /\ log'[x] = NoLog
        /\ \A x \in File \ gone :
              /\ file'[x].st = file[x].st /\ file'[x].in = file[x].in /\ file'[x].wr = file[x].wr
              /\ file'[x].backlog = file[x].backlog /\ log'[x] = log[x]
              /\ file'[x].peer = IF file[x].peer \in gone THEN None ELSE file[x].peer
    BY <2>2, <2>4, ClosedFields
  <2>7. Kernel(file, log)'
    <3>1. Kernel(file, log)
      BY DEF FlowInv
    <3>2. Kernel(file', log')
      BY <2>5, <2>6, <3>1, KernelCloses
    <3>3. QED
      BY <3>2
  <2>8. Held(file, fdt)'
    <3>2. /\ \A x \in gone : file'[x].backlog = <<>>
          /\ \A x \in File \ gone : file'[x].st = file[x].st /\ file'[x].backlog = file[x].backlog
      BY <2>6, FreshFacts
    <3>3. \A e \in SocketFd : fdt'[e] # None => e # d /\ fdt'[e] = fdt[e]
      BY <2>2, <2>3
    <3>5. Held(file', fdt')
      BY <2>3, <2>4, <2>5, <3>2, <3>3, HeldShrinks
    <3>6. QED
      BY <3>5
  <2>9. \A u \in Task : On(u) \notin gone
    <3> SUFFICES ASSUME NEW u \in Task PROVE On(u) \notin gone
      OBVIOUS
    <3>1. CASE task[u].obj = None
      BY <3>1, TypeFacts DEF On
    <3>2. CASE task[u].obj # None
      <4>1. PICK p \in Obj : p = task[u].obj /\ On(u) = FileOf(p) /\ p # o
        BY <3>2, CallFacts DEF InCallOn
      <4>2. sock[p].s # -1 => sock[p].s \in SocketFd \ {d}
        BY <2>1, <4>1 DEF OwnInv, Own, Objects
      <4>3. QED
        BY <2>4, <4>1, <4>2, TypeFacts DEF FileOf
    <3>3. QED
      BY <3>1, <3>2
  <2>10. \A x \in File : file[x].peer # None => file[x].peer \in File /\ file[x].st = "open"
    <3> SUFFICES ASSUME NEW x \in File, file[x].peer # None
                 PROVE  file[x].peer \in File /\ file[x].st = "open"
      OBVIOUS
    <3>1. Shape(file, log, x) /\ file[x].peer \in File \cup {None}
      BY RecordFields, TypeFacts
    <3>2. QED
      BY <3>1 DEF Shape
  <2>11. ASSUME NEW f \in File
         PROVE  \/ /\ log'[f].asked = log[f].asked /\ SentBy(f)' = SentBy(f)
                   /\ file'[f].st # "open" \/ file'[f].peer # None => file[f].st # "open" \/ file[f].peer # None
                \/ (\A u \in Task : On(u) # f) /\ log'[f].asked = SentBy(f)'
                \/ file'[f].st = "open" /\ file'[f].peer = None
    <3>1. CASE f \in gone
      <4>1. log'[f].asked = 0 /\ file'[f].peer = None
        BY <2>6, <3>1, FreshFacts
      <4>2. SentBy(f)' = 0
        BY <4>1 DEF SentBy
      <4>3. QED
        BY <2>9, <3>1, <4>1, <4>2
    <3>2. CASE f \notin gone /\ file[f].peer \in gone
      BY <2>6, <2>10, <3>2, TypeFacts
    <3>3. CASE f \notin gone /\ file[f].peer \notin gone
      <4>1. file'[f].peer = file[f].peer /\ log'[f] = log[f] /\ file'[f].st = file[f].st
        BY <2>6, <3>3
      <4>2. file[f].peer # None => log'[file[f].peer] = log[file[f].peer]
        BY <2>6, <2>10, <3>3
      <4>3. SentBy(f)' = SentBy(f)
        BY <4>1, <4>2 DEF SentBy
      <4>4. QED
        BY <4>1, <4>3
    <3>4. QED
      BY <3>1, <3>2, <3>3
  <2>12. ASSUME NEW u \in Task, task[u].obj # None
         PROVE  /\ file'[On(u)].st = "listen" <=> file[On(u)].st = "listen"
                /\ file'[On(u)].peer # None =>
                      file[On(u)].peer # None /\ file'[file'[On(u)].peer].in = file[file[On(u)].peer].in
    <3>1. On(u) \in File \ gone
      BY <2>9, <2>12 DEF FlowInv, Calling, CallOK
    <3>2. file'[On(u)].peer # None => file'[On(u)].peer = file[On(u)].peer /\ file[On(u)].peer \in File \ gone
      BY <2>6, <2>10, <3>1
    <3>3. QED
      BY <2>6, <3>1, <3>2
  <2>13. Calling' /\ Sending'
    BY <2>11, <2>12, QuietStep
  <2>14. QED
    BY <2>7, <2>8, <2>13 DEF FlowInv
<1>3. QED
  BY <1>1, <1>2

LEMMA CloseFlows ==
    ASSUME SocketAssumption, 0 \notin SocketFd, Exclusive, OwnInv, WaitInv, FlowInv,
           NEW t \in Task, Close(t)
    PROVE  FlowInv'
<1>1. PICK o \in Obj : /\ InCallOn(o) = {} /\ fdt' = Descriptors(sock[o].s)
                       /\ file' = Files(sock[o].s)
  BY DEF Close
<1>2. SocketNext /\ task' = task /\ log' = Logs(file')
  BY DEF SocketNext, Close
<1>3. QED
  BY <1>1, <1>2, ShutFlows

LEMMA CollectFlows ==
    ASSUME SocketAssumption, 0 \notin SocketFd, Exclusive, OwnInv, WaitInv, FlowInv,
           NEW o \in Obj, Collect(o)
    PROVE  FlowInv'
<1>1. sock[o].s # 0
  BY DEF OwnInv, Own, Objects
<1>2. InCallOn(o) = {} /\ fdt' = Descriptors(sock[o].s) /\ file' = Files(sock[o].s)
  BY <1>1 DEF Collect
<1>3. SocketNext /\ task' = task /\ log' = Logs(file')
  BY DEF SocketNext, Collect
<1>4. QED
  BY <1>2, <1>3, ShutFlows

\* A call that starts or goes on is on an object that is there, and the calls of
\* other tasks on its file wait for the other event.
LEMMA InCallFacts ==
    ASSUME SocketAssumption, Exclusive, OwnInv, WaitInv, FlowInv,
           NEW t \in Task, NEW o \in Obj, NEW op \in Ops, InCall(t, op, o)
    PROVE  /\ sock[o].live /\ sock[o].made
           /\ task[t] = Idle \/ (task[t].op = op /\ task[t].obj = o /\ On(t) = FileOf(o))
           /\ FileOf(o) # None =>
                \A u \in Task \ {t} : On(u) = FileOf(o) => Mode(task[u].op) # Mode(op)
<1>1. op # "idle" /\ None \notin Obj
  BY TypeFacts DEF Ops
<1>2. CASE MayCall(t, op) /\ sock[o].live /\ \A u \in Sharing(o) : Mode(task[u].op) # Mode(op)
  <2>1. task[t] = Idle /\ sock[o].made
    BY <1>2 DEF MayCall, OwnInv, Own
  <2>2. ASSUME FileOf(o) # None, NEW u \in Task \ {t}, On(u) = FileOf(o)
        PROVE  Mode(task[u].op) # Mode(op)
    <3>1. task[u].obj # None /\ FileOf(task[u].obj) = FileOf(o)
      BY <2>2 DEF On
    <3>2. u \in Sharing(o)
      BY <2>2, <3>1 DEF Sharing
    <3>3. QED
      BY <1>2, <3>2
  <2>3. QED
    BY <1>2, <2>1, <2>2
<1>3. CASE task[t].op = op /\ task[t].obj = o
  <2>1. sock[o].live /\ sock[o].made /\ On(t) = FileOf(o)
    BY <1>1, <1>3, CallFacts
  <2>2. ASSUME FileOf(o) # None, NEW u \in Task \ {t}, On(u) = FileOf(o)
        PROVE  Mode(task[u].op) # Mode(op)
    BY <1>3, <2>1, <2>2 DEF FlowInv, Calling, Apart
  <2>3. QED
    BY <1>3, <2>1, <2>2
<1>4. QED
  BY <1>2, <1>3 DEF InCall

\* The task of a call afterwards.
LEMMA AfterCall ==
    ASSUME SocketAssumption, WaitInv, NEW t \in Task, NEW op, NEW o \in Obj, NEW left,
           Returns(t) \/ Waits(t, op, o, left)
    PROVE  /\ \A u \in Task \ {t} : task'[u] = task[u]
           /\ Returns(t) => task'[t] = Idle /\ task'[t].obj = None /\ task'[t].op = "idle"
           /\ Waits(t, op, o, left) => task'[t].op = op /\ task'[t].obj = o /\ task'[t].left = left
<1>1. DOMAIN task = Task
  BY DEF WaitInv, CallInv
<1>2. \A u \in Task \ {t} : task'[u] = task[u]
  BY <1>1 DEF Returns, Waits
<1>3. Returns(t) => task'[t] = Idle
  BY <1>1 DEF Returns
<1>4. Idle.obj = None /\ Idle.op = "idle"
  BY DEF Idle
<1>5. Waits(t, op, o, left) => task'[t] = [op |-> op, obj |-> o, left |-> left]
  BY <1>1 DEF Waits
<1>6. QED
  BY <1>2, <1>3, <1>4, <1>5

\* Calls that send nothing.
LEMMA CallFlows ==
    ASSUME SocketAssumption, 0 \notin SocketFd, Exclusive, OwnInv, WaitInv, FlowInv, SocketNext,
           NEW t \in Task, NEW o \in Obj, NEW op \in Ops, op # "write", InCall(t, op, o),
           FileOf(o)' = FileOf(o),
           Returns(t) \/ Waits(t, op, o, <<>>),
           Waits(t, op, o, <<>>) => /\ FileOf(o) # None
                                    /\ op = "accept" <=> file'[FileOf(o)].st = "listen"
                                    /\ op = "connect" => file'[FileOf(o)].peer = None,
           \A x \in File : /\ file'[x].peer = file[x].peer
                           /\ file'[x].st = "open" <=> file[x].st = "open"
                           /\ file'[x].st = "listen" <=> file[x].st = "listen"
                           /\ file[x].in = <<>> => file'[x].in = <<>>
                           /\ log'[x].asked = log[x].asked /\ log'[x].sent = log[x].sent
    PROVE  Calling' /\ Sending'
<1>1. PICK f : f = FileOf(o) /\ f \in File \cup {None}
  BY TypeFacts
<1>2. /\ \A u \in Task \ {t} : task'[u] = task[u]
      /\ Returns(t) => task'[t].obj = None /\ task'[t].op = "idle"
      /\ Waits(t, op, o, <<>>) => task'[t].op = op /\ task'[t].obj = o
  BY AfterCall
<1>3. Waits(t, op, o, <<>>) => On(t)' = f /\ f \in File
  BY <1>1, <1>2, TypeFacts DEF On
<1>4. /\ sock[o].live /\ (task[t] = Idle \/ task[t].op = op)
      /\ f # None => \A u \in Task \ {t} : On(u) = f => Mode(task[u].op) # Mode(op)
  BY <1>1, InCallFacts
<1>5. \A x \in File : file[x].peer # None => file[x].peer \in File
  BY TypeFacts DEF FileRecord
<1>6. CallOK(t)'
  <2>1. CASE Returns(t)
    BY <1>2, <2>1 DEF CallOK
  <2>2. CASE Waits(t, op, o, <<>>)
    BY <1>1, <1>2, <1>3, <2>2 DEF CallOK
  <2>3. QED
    BY <2>1, <2>2
<1>7. task'[t].obj # None => \A u \in Task \ {t} : On(u) = On(t)' => Mode(task[u].op) # Mode(task'[t].op)
  BY <1>2, <1>3, <1>4, TypeFacts
<1>8. ASSUME NEW u \in Task \ {t}, task[u].obj # None
      PROVE  /\ file'[On(u)].st = "listen" <=> file[On(u)].st = "listen"
             /\ task[u].op = "connect" /\ file'[On(u)].peer # None => file'[file'[On(u)].peer].in = <<>>
  <2>1. CallOK(u)
    BY DEF FlowInv, Calling
  <2>2. On(u) \in File
    BY <1>8, <2>1 DEF CallOK
  <2>3. ASSUME task[u].op = "connect", file'[On(u)].peer # None
        PROVE  file'[file'[On(u)].peer].in = <<>>
    <3>1. file'[On(u)].peer = file[On(u)].peer /\ file[On(u)].peer \in File
      BY <1>5, <2>2, <2>3
    <3>2. file[file[On(u)].peer].in = <<>>
      BY <1>8, <2>1, <2>3, <3>1 DEF CallOK
    <3>3. QED
      BY <3>1, <3>2
  <2>4. QED
    BY <2>2, <2>3
<1>9. Calling'
  BY <1>2, <1>6, <1>7, <1>8, CallsStep
<1>10. ASSUME NEW x \in File PROVE Sends(x)'
  <2>1. ASSUME NEW u \in Task
        PROVE  (Writes(u, x)' <=> Writes(u, x)) /\ (Writes(u, x) => task'[u].left = task[u].left)
    <3>1. CASE u = t
      <4>1. task[t].op # "write" /\ task'[t].op # "write"
        BY <1>2, <1>4, CallFacts
      <4>2. QED
        BY <3>1, <4>1 DEF Writes
    <3>2. CASE u # t
      <4>1. task'[u] = task[u]
        BY <1>2, <3>2
      <4>2. On(u)' = On(u)
        BY <4>1, OnKept
      <4>3. QED
        BY <4>1, <4>2 DEF Writes
    <3>3. QED
      BY <3>1, <3>2
  <2>2. SentBy(x)' = SentBy(x)
    BY <1>5 DEF SentBy
  <2>3. Sends(x) /\ log'[x].asked = log[x].asked
        /\ (file'[x].st # "open" \/ file'[x].peer # None => file[x].st # "open" \/ file[x].peer # None)
    BY DEF FlowInv, Sending
  <2>4. QED
    BY <2>1, <2>2, <2>3, SendsSame
<1>11. QED
  BY <1>9, <1>10 DEF Sending

LEMMA CallNames == "connect" \in Ops /\ "accept" \in Ops /\ "read" \in Ops /\ "write" \in Ops
BY DEF Ops

LEMMA NotBoth ==
    ASSUME SocketAssumption, WaitInv, NEW t \in Task, NEW op \in Ops, NEW o \in Obj, NEW left, Returns(t)
    PROVE  ~Waits(t, op, o, left)
<1>1. op # "idle"
  BY DEF Ops
<1>2. QED
  BY <1>1, AfterCall

LEMMA ConnectFlows ==
    ASSUME SocketAssumption, 0 \notin SocketFd, Exclusive, OwnInv, WaitInv, FlowInv,
           NEW t \in Task, Connect(t)
    PROVE  FlowInv'
<1>1. PICK o \in Obj :
        LET f == FileOf(o)
            st == IF f = None THEN "none" ELSE file[f].st
        IN  /\ InCall(t, "connect", o)
            /\ IF st \in {"new", "connecting"} THEN Waits(t, "connect", o, <<>>) ELSE Returns(t)
            /\ file' = IF st = "new" THEN [file EXCEPT ![f].st = "connecting"]
                       ELSE IF st = "refused" THEN [file EXCEPT ![f].st = "new"] ELSE file
            /\ UNCHANGED <<fdt, sock, log>>
  BY DEF Connect
<1>2. PICK f \in File \cup {None} : f = FileOf(o)
  BY TypeFacts
<1>3. PICK st : st = IF f = None THEN "none" ELSE file[f].st
  OBVIOUS
<1>4. /\ InCall(t, "connect", o)
      /\ IF st \in {"new", "connecting"} THEN Waits(t, "connect", o, <<>>) ELSE Returns(t)
      /\ file' = IF st = "new" THEN [file EXCEPT ![f].st = "connecting"]
                 ELSE IF st = "refused" THEN [file EXCEPT ![f].st = "new"] ELSE file
      /\ UNCHANGED <<fdt, sock, log>>
  BY <1>1, <1>2, <1>3
<1>5. SocketNext /\ FileOf(o)' = FileOf(o)
  BY <1>4 DEF SocketNext, FileOf
<1>6. Kernel(file, log)' /\ Held(file, fdt)'
      /\ \A x \in File : /\ file'[x].peer = file[x].peer /\ file'[x].in = file[x].in
                         /\ file'[x].st = file[x].st \/ (x = f /\ st \in {"new", "refused"} /\ file'[x].st \in {"new", "connecting"})
  <2>1. CASE st \in {"new", "refused"}
    <3>1. f \in File /\ file[f].st = st
      BY <1>2, <1>3, <2>1
    <3>2. PICK x \in {"new", "connecting", "refused", "listen"} :
             x \in {"new", "connecting"} /\ file' = [file EXCEPT ![f].st = x]
      BY <1>4, <2>1
    <3>3. file[f].st \notin {"open", "listen", "free"} /\ log' = log /\ fdt' = fdt
      BY <1>4, <2>1, <3>1
    <3>4. Kernel(file, log)' /\ Held(file, fdt)'
      BY <3>1, <3>2, <3>3, StatusKept
    <3>5. /\ \A g \in File \ {f} : file'[g] = file[g]
          /\ file'[f].st = x /\ file'[f].peer = file[f].peer /\ file'[f].in = file[f].in
      BY <3>1, <3>2, <3>3, StatusKept
    <3>6. QED
      BY <2>1, <3>2, <3>4, <3>5
  <2>2. CASE st \notin {"new", "refused"}
    <3>1. file' = file /\ log' = log /\ fdt' = fdt
      BY <1>4, <2>2
    <3>2. QED
      BY <3>1 DEF FlowInv
  <2>3. QED
    BY <2>1, <2>2
<1>7. \A x \in File : /\ file'[x].peer = file[x].peer
                      /\ file'[x].st = "open" <=> file[x].st = "open"
                      /\ file'[x].st = "listen" <=> file[x].st = "listen"
                      /\ file[x].in = <<>> => file'[x].in = <<>>
                      /\ log'[x].asked = log[x].asked /\ log'[x].sent = log[x].sent
  BY <1>2, <1>3, <1>4, <1>6
<1>8. st \in {"new", "connecting"} =>
         f \in File /\ file'[f].st \in {"new", "connecting"} /\ file'[f].peer = None
  <2>1. ASSUME st \in {"new", "connecting"}
        PROVE  f \in File /\ file'[f].st \in {"new", "connecting"} /\ file'[f].peer = None
    <3>1. f \in File /\ file[f].st = st
      BY <1>2, <1>3, <2>1
    <3>2. file[f].peer = None
      BY <2>1, <3>1, TypeFacts DEF Shape
    <3>3. QED
      BY <1>6, <2>1, <3>1, <3>2
  <2>2. QED
    BY <2>1
<1>9. Calling' /\ Sending'
  <2>1. CASE st \in {"new", "connecting"}
    <3>1. /\ Waits(t, "connect", o, <<>>) /\ FileOf(o) # None
          /\ "connect" = "accept" <=> file'[FileOf(o)].st = "listen"
          /\ file'[FileOf(o)].peer = None
      BY <1>2, <1>4, <1>8, <2>1, TypeFacts
    <3>2. QED
      BY <1>4, <1>5, <1>7, <3>1, CallFlows, CallNames
  <2>2. CASE st \notin {"new", "connecting"}
    <3>1. Returns(t) /\ ~Waits(t, "connect", o, <<>>)
      BY <1>4, <2>2, NotBoth, CallNames
    <3>2. QED
      BY <1>4, <1>5, <1>7, <3>1, CallFlows, CallNames
  <2>3. QED
    BY <2>1, <2>2
<1>10. QED
  BY <1>6, <1>9 DEF FlowInv

LEMMA AcceptFlows ==
    ASSUME SocketAssumption, 0 \notin SocketFd, Exclusive, OwnInv, WaitInv, FlowInv,
           NEW t \in Task, Accept(t)
    PROVE  FlowInv'
<1>1. PICK o \in Obj :
        LET f == FileOf(o)
            listening == f # None /\ file[f].st = "listen"
        IN  /\ InCall(t, "accept", o)
            /\ IF listening /\ file[f].backlog = <<>>
               THEN Waits(t, "accept", o, <<>>) /\ UNCHANGED <<kernel, sock>>
               ELSE IF listening /\ FreeFds # {}
               THEN /\ Returns(t)
                    /\ fdt' = [fdt EXCEPT ![Min(FreeFds)] = Head(file[f].backlog)]
                    /\ file' = [file EXCEPT ![f].backlog = Tail(@)]
               ELSE Returns(t) /\ UNCHANGED <<kernel, sock>>
            /\ log' = log
  BY DEF Accept
<1>2. PICK f \in File \cup {None} : f = FileOf(o)
  BY TypeFacts
<1>3. /\ InCall(t, "accept", o) /\ log' = log
      /\ IF f # None /\ file[f].st = "listen" /\ file[f].backlog = <<>>
         THEN Waits(t, "accept", o, <<>>) /\ fdt' = fdt /\ file' = file
         ELSE IF f # None /\ file[f].st = "listen" /\ FreeFds # {}
         THEN /\ Returns(t)
              /\ fdt' = [fdt EXCEPT ![Min(FreeFds)] = Head(file[f].backlog)]
              /\ file' = [file EXCEPT ![f].backlog = Tail(@)]
         ELSE Returns(t) /\ fdt' = fdt /\ file' = file
  BY <1>1, <1>2 DEF kernel
<1>4. SocketNext
  BY DEF SocketNext
<1>5. FileOf(o)' = FileOf(o)
  <2>1. sock[o].made
    BY <1>3, InCallFacts, CallNames
  <2>2. QED
    BY <2>1, MakersSpare, MakersLeave
<1>6. CASE fdt' = fdt /\ file' = file
  <2>1. Kernel(file, log)' /\ Held(file, fdt)'
    BY <1>3, <1>6 DEF FlowInv
  <2>2. Returns(t) \/ (Waits(t, "accept", o, <<>>) /\ FileOf(o) # None /\ file'[FileOf(o)].st = "listen")
    BY <1>2, <1>3, <1>6
  <2>3. Waits(t, "accept", o, <<>>) =>
           FileOf(o) # None /\ ("accept" = "accept" <=> file'[FileOf(o)].st = "listen")
    BY <2>2, NotBoth, CallNames
  <2>4. Calling' /\ Sending'
    BY <1>3, <1>4, <1>5, <1>6, <2>2, <2>3, CallFlows, CallNames
  <2>5. QED
    BY <2>1, <2>4 DEF FlowInv
<1>7. CASE /\ f # None /\ file[f].st = "listen" /\ file[f].backlog # <<>> /\ FreeFds # {} /\ Returns(t)
           /\ fdt' = [fdt EXCEPT ![Min(FreeFds)] = Head(file[f].backlog)]
           /\ file' = [file EXCEPT ![f].backlog = Tail(@)]
  <2>1. PICK d \in SocketFd : d = Min(FreeFds)
    BY <1>7, LowestFree
  <2>2. f \in File
    BY <1>7
  <2>3. Held(file, fdt) /\ file \in [File -> FileRecord] /\ fdt \in [SocketFd -> File \cup {None}]
    BY TypeFacts DEF FlowInv
  <2>4. /\ Tail(file[f].backlog) \in Seq(File)
        /\ Held([file EXCEPT ![f].backlog = Tail(@)], [fdt EXCEPT ![d] = Head(file[f].backlog)])
    BY <1>7, <2>2, <2>3, HeldAccepts
  <2>5. Held(file, fdt)'
    BY <1>7, <2>1, <2>4
  <2>6. PICK q, r : q = file[f] /\ r = [q EXCEPT !.backlog = Tail(q.backlog)]
    OBVIOUS
  <2>7. /\ q \in FileRecord /\ r \in FileRecord /\ r.st = q.st /\ r.peer = q.peer /\ r.in = q.in
        /\ r.wr = q.wr
    <3>1. q \in FileRecord
      BY <2>2, <2>3, <2>6
    <3>2. QED
      BY <2>4, <2>6, <3>1 DEF FileRecord
  <2>8. file' = [file EXCEPT ![f] = r]
    BY <1>7, <2>6
  <2>9. Kernel(file, log)'
    <3>1. r.st = "listen"
      BY <1>7, <2>6, <2>7
    <3>2. Kernel([file EXCEPT ![f] = r], log)
      BY <2>2, <2>6, <2>7, <3>1, KernelFlags DEF FlowInv
    <3>3. QED
      BY <1>3, <2>8, <3>2
  <2>10. \A x \in File : /\ file'[x].peer = file[x].peer /\ file'[x].in = file[x].in
                         /\ file'[x].st = file[x].st
    BY <2>3, <2>6, <2>7, <2>8
  <2>11. ~Waits(t, "accept", o, <<>>)
    BY <1>7, NotBoth, CallNames
  <2>12. Calling' /\ Sending'
    BY <1>3, <1>4, <1>5, <1>7, <2>10, <2>11, CallFlows, CallNames
  <2>13. QED
    BY <2>5, <2>9, <2>12 DEF FlowInv
<1>8. QED
  BY <1>3, <1>6, <1>7

LEMMA ReadFlows ==
    ASSUME SocketAssumption, 0 \notin SocketFd, Exclusive, OwnInv, WaitInv, FlowInv,
           NEW t \in Task, SocketRead(t)
    PROVE  FlowInv'
<1>1. PICK o \in Obj :
        LET f == FileOf(o)
            open == f # None /\ file[f].st = "open"
        IN  /\ InCall(t, "read", o)
            /\ IF open /\ file[f].in # <<>>
               THEN \E n \in 1 .. Len(file[f].in) :
                      /\ file' = [file EXCEPT ![f].in = SubSeq(@, n + 1, Len(@))]
                      /\ log' = [log EXCEPT ![f].got = @ \o SubSeq(file[f].in, 1, n)]
                      /\ Returns(t)
               ELSE IF open /\ ReadsEnd(f)
               THEN log' = [log EXCEPT ![f].ended = @ \/ file[f].rd] /\ Returns(t) /\ UNCHANGED file
               ELSE IF open \/ (f # None /\ file[f].st = "connecting")
               THEN Waits(t, "read", o, <<>>) /\ UNCHANGED <<file, log>>
               ELSE Returns(t) /\ UNCHANGED <<file, log>>
            /\ UNCHANGED <<fdt, sock>>
  BY DEF SocketRead
<1>2. PICK f \in File \cup {None} : f = FileOf(o)
  BY TypeFacts
<1>3. /\ InCall(t, "read", o) /\ fdt' = fdt /\ sock' = sock
      /\ \/ /\ f # None /\ file[f].st = "open" /\ file[f].in # <<>>
            /\ \E n \in 1 .. Len(file[f].in) :
                      /\ file' = [file EXCEPT ![f].in = SubSeq(@, n + 1, Len(@))]
                      /\ log' = [log EXCEPT ![f].got = @ \o SubSeq(file[f].in, 1, n)]
                      /\ Returns(t)
         \/ /\ f # None /\ file[f].st = "open" /\ file[f].in = <<>> /\ ReadsEnd(f)
            /\ log' = [log EXCEPT ![f].ended = @ \/ file[f].rd] /\ Returns(t) /\ file' = file
         \/ /\ f # None /\ file[f].st # "listen" /\ Waits(t, "read", o, <<>>) /\ file' = file /\ log' = log
         \/ Returns(t) /\ file' = file /\ log' = log
  BY <1>1, <1>2
<1>4. SocketNext /\ FileOf(o)' = FileOf(o)
  BY <1>3 DEF SocketNext, FileOf
<1>5. Held(file, fdt) /\ file \in [File -> FileRecord] /\ fdt \in [SocketFd -> File \cup {None}]
  BY TypeFacts DEF FlowInv
<1>6. CASE file' = file /\ log' = log
  <2>1. Kernel(file, log)' /\ Held(file, fdt)'
    BY <1>3, <1>6 DEF FlowInv
  <2>2. Returns(t) \/ (Waits(t, "read", o, <<>>) /\ FileOf(o) # None /\ file'[FileOf(o)].st # "listen")
    BY <1>2, <1>3, <1>6
  <2>3. Waits(t, "read", o, <<>>) =>
           FileOf(o) # None /\ ("read" = "accept" <=> file'[FileOf(o)].st = "listen")
    BY <2>2, NotBoth, CallNames
  <2>4. Calling' /\ Sending'
    BY <1>3, <1>4, <1>6, <2>2, <2>3, CallFlows, CallNames
  <2>5. QED
    BY <2>1, <2>4 DEF FlowInv
<1>7. CASE /\ f # None /\ file[f].st = "open" /\ file[f].in = <<>> /\ ReadsEnd(f)
           /\ log' = [log EXCEPT ![f].ended = @ \/ file[f].rd] /\ Returns(t) /\ file' = file
  <2>1. f \in File
    BY <1>7
  <2>2. PICK e \in BOOLEAN : e = (log[f].ended \/ file[f].rd)
    BY <2>1, RecordFields, TypeFacts
  <2>3. log' = [log EXCEPT ![f].ended = e]
    BY <1>7, <2>2
  <2>4. Kernel(file, log)'
    <3>1. e => log[f].ended \/ file[f].peer = None \/ ~file[file[f].peer].wr
      BY <1>7, <2>2 DEF ReadsEnd, AtEnd, PeerGone
    <3>2. Kernel(file, [log EXCEPT ![f].ended = e])
      BY <1>7, <2>1, <3>1, KernelEnds DEF FlowInv
    <3>3. QED
      BY <1>7, <2>3, <3>2
  <2>5. Held(file, fdt)'
    BY <1>3, <1>5, <1>7
  <2>6. \A x \in File : log'[x].asked = log[x].asked /\ log'[x].sent = log[x].sent
    BY <2>3, TypeFacts DEF LogRecord
  <2>7. ~Waits(t, "read", o, <<>>)
    BY <1>7, NotBoth, CallNames
  <2>8. Calling' /\ Sending'
    BY <1>3, <1>4, <1>7, <2>6, <2>7, CallFlows, CallNames
  <2>9. QED
    BY <2>4, <2>5, <2>8 DEF FlowInv
<1>8. CASE /\ f # None /\ file[f].st = "open" /\ file[f].in # <<>>
           /\ \E n \in 1 .. Len(file[f].in) :
                      /\ file' = [file EXCEPT ![f].in = SubSeq(@, n + 1, Len(@))]
                      /\ log' = [log EXCEPT ![f].got = @ \o SubSeq(file[f].in, 1, n)]
                      /\ Returns(t)
  <2>1. PICK n \in 1 .. Len(file[f].in) :
                      /\ file' = [file EXCEPT ![f].in = SubSeq(@, n + 1, Len(@))]
                      /\ log' = [log EXCEPT ![f].got = @ \o SubSeq(file[f].in, 1, n)]
                      /\ Returns(t)
    BY <1>8
  <2>2. f \in File
    BY <1>8
  <2>3. Kernel(file, log)'
    <3>1. Kernel([file EXCEPT ![f].in = SubSeq(@, n + 1, Len(@))],
                 [log EXCEPT ![f].got = @ \o SubSeq(file[f].in, 1, n)])
      BY <1>8, <2>2, KernelRead DEF FlowInv
    <3>2. QED
      BY <2>1, <3>1
  <2>4. \A x \in File : /\ file'[x].peer = file[x].peer /\ file'[x].st = file[x].st
                        /\ file'[x].backlog = file[x].backlog
                        /\ x # f => file'[x].in = file[x].in
                        /\ log'[x].asked = log[x].asked /\ log'[x].sent = log[x].sent
    <3>1. PICK a, b : file' = [file EXCEPT ![f].in = a] /\ log' = [log EXCEPT ![f].got = b]
      BY <2>1
    <3>2. QED
      BY <3>1, TypeFacts DEF FileRecord, LogRecord
  <2>5. \A x \in File : file[x].in = <<>> => file'[x].in = <<>>
    BY <1>8, <2>4
  <2>6. Held(file, fdt)'
    <3>1. file' \in [File -> FileRecord]
      BY <2>3 DEF Kernel
    <3>2. Held(file', fdt)
      BY <1>5, <2>4, <3>1, HeldGrows
    <3>3. QED
      BY <1>3, <3>2
  <2>7. ~Waits(t, "read", o, <<>>)
    BY <2>1, NotBoth, CallNames
  <2>8. Calling' /\ Sending'
    <3>1. \A x \in File : /\ file'[x].peer = file[x].peer
                          /\ file'[x].st = "open" <=> file[x].st = "open"
                          /\ file'[x].st = "listen" <=> file[x].st = "listen"
                          /\ file[x].in = <<>> => file'[x].in = <<>>
                          /\ log'[x].asked = log[x].asked /\ log'[x].sent = log[x].sent
      BY <2>4, <2>5
    <3>2. Returns(t) /\ "read" \in Ops /\ "read" # "write" /\ InCall(t, "read", o)
      BY <1>3, <2>1, CallNames
    <3>3. QED
      BY <1>4, <2>7, <3>1, <3>2, CallFlows
  <2>9. QED
    BY <2>3, <2>6, <2>8 DEF FlowInv
<1>9. QED
  BY <1>3, <1>6, <1>7, <1>8

\* A task writes alone.
LEMMA OneWriter ==
    ASSUME SocketAssumption, OwnInv, WaitInv, FlowInv, NEW t \in Task, NEW u \in Task, NEW f \in File,
           Writes(t, f), Writes(u, f)
    PROVE  t = u
BY TypeFacts DEF Writes, FlowInv, Calling, Apart

\* A call ends, and what it has not sent is forgotten.
LEMMA GivesUpFlows ==
    ASSUME SocketAssumption, 0 \notin SocketFd, Exclusive, OwnInv, WaitInv, FlowInv, SocketNext,
           NEW t \in Task, task' = [task EXCEPT ![t] = Idle], file' = file, fdt' = fdt, log' = GivenUp(t)
    PROVE  FlowInv'
<1>1. Held(file, fdt)'
  BY DEF FlowInv
<1>2. /\ \A u \in Task \ {t} : task'[u] = task[u]
      /\ task'[t] = Idle /\ task'[t].obj = None /\ task'[t].op = "idle"
  BY DEF WaitInv, CallInv, Idle
<1>3. Calling'
  <2>1. CallOK(t)'
    BY <1>2 DEF CallOK
  <2>2. \A u \in Task \ {t} : task[u].obj # None =>
          /\ file'[On(u)].st = "listen" <=> file[On(u)].st = "listen"
          /\ task[u].op = "connect" /\ file'[On(u)].peer # None => file'[file'[On(u)].peer].in = <<>>
    BY DEF FlowInv, Calling, CallOK
  <2>3. QED
    BY <1>2, <2>1, <2>2, CallsStep
<1>4. \A u \in Task \ {t} : On(u)' = On(u)
  BY <1>2, OnKept
<1>5. CASE task[t].op # "write"
  <2>1. log' = log
    BY <1>5 DEF GivenUp
  <2>2. Kernel(file, log)'
    BY <2>1 DEF FlowInv
  <2>3. ASSUME NEW x \in File PROVE Sends(x)'
    <3>1. \A u \in Task : (Writes(u, x)' <=> Writes(u, x)) /\ (Writes(u, x) => task'[u].left = task[u].left)
      BY <1>2, <1>4, <1>5 DEF Writes
    <3>2. SentBy(x)' = SentBy(x)
      BY <2>1 DEF SentBy
    <3>3. Sends(x)
      BY DEF FlowInv, Sending
    <3>4. QED
      BY <2>1, <3>1, <3>2, <3>3, SendsSame
  <2>4. QED
    BY <1>1, <1>3, <2>2, <2>3 DEF FlowInv, Sending
<1>6. CASE task[t].op = "write"
  <2>1. task[t].obj # None
    BY <1>6, CallFacts
  <2>2. PICK f \in File, left \in Seq(Int) :
           f = On(t) /\ f = FileOf(task[t].obj) /\ left = task[t].left /\ Writes(t, f)
    BY <1>6, <2>1 DEF FlowInv, Calling, CallOK, Writes, On
  <2>3. PICK n \in Int : n = log[f].asked - Len(left)
    <3>1. log[f].asked \in Int /\ Len(left) \in Nat
      BY RecordFields, TypeFacts
    <3>2. QED
      BY <3>1
  <2>4. log' = [log EXCEPT ![f].asked = n]
    BY <1>6, <2>2, <2>3, TypeFacts DEF GivenUp
  <2>5. Kernel(file, log)'
    <3>1. file[f].st # "free"
      BY <2>2, Reachable
    <3>2. Kernel(file, [log EXCEPT ![f].asked = n])
      BY <3>1, KernelAsked DEF FlowInv
    <3>3. QED
      BY <2>4, <3>2
  <2>6. /\ \A x \in File : log'[x].sent = log[x].sent
        /\ \A x \in File \ {f} : log'[x].asked = log[x].asked
        /\ log'[f].asked = n
    BY <2>4, TypeFacts DEF LogRecord
  <2>7. \A x \in File : file[x].peer # None => file[x].peer \in File
    BY TypeFacts DEF FileRecord
  <2>8. \A x \in File : SentBy(x)' = SentBy(x)
    BY <2>6, <2>7 DEF SentBy
  <2>9. ASSUME NEW x \in File PROVE Sends(x)'
    <3>1. CASE x # f
      <4>1. \A u \in Task : (Writes(u, x)' <=> Writes(u, x)) /\ (Writes(u, x) => task'[u].left = task[u].left)
        BY <1>2, <1>4, <2>2, <3>1 DEF Writes
      <4>2. Sends(x)
        BY DEF FlowInv, Sending
      <4>3. QED
        BY <2>6, <2>8, <3>1, <4>1, <4>2, SendsSame
    <3>2. CASE x = f
      <4>1. \A u \in Task : ~Writes(u, f)'
        <5>1. \A u \in Task \ {t} : ~Writes(u, f)
          BY <2>2, OneWriter
        <5>2. QED
          BY <1>2, <1>4, <5>1 DEF Writes
      <4>2. CASE file[f].st # "open" \/ file[f].peer # None
        <5>1. log[f].asked = SentBy(f) + Len(left)
          BY <2>2, <4>2 DEF FlowInv, Sending, Sends
        <5>2. SentBy(f) \in Int
          BY <2>7, TypeFacts DEF SentBy, LogRecord
        <5>3. Len(left) \in Int
          OBVIOUS
        <5>4. n = SentBy(f)
          BY <2>3, <5>1, <5>2, <5>3
        <5>5. QED
          BY <2>6, <2>8, <3>2, <4>1, <5>4, SendsNothing
      <4>3. CASE file[f].st = "open" /\ file[f].peer = None
        BY <3>2, <4>3, SendsNoMore
      <4>4. QED
        BY <4>2, <4>3
    <3>3. QED
      BY <3>1, <3>2
  <2>10. QED
    BY <1>1, <1>3, <2>5, <2>9 DEF FlowInv, Sending
<1>7. QED
  BY <1>5, <1>6

LEMMA KillFlows ==
    ASSUME SocketAssumption, 0 \notin SocketFd, Exclusive, OwnInv, WaitInv, FlowInv,
           NEW t \in Task, Kill(t)
    PROVE  FlowInv'
<1>1. PICK u \in Task : task' = [task EXCEPT ![u] = Idle] /\ log' = GivenUp(u)
  BY DEF Kill
<1>2. SocketNext /\ file' = file /\ fdt' = fdt
  BY DEF SocketNext, Kill, kernel
<1>3. QED
  BY <1>1, <1>2, GivesUpFlows

\* The bytes of a write, those it was asked for now or those it has left, and
\* what its file has then been asked to send.
DataOf(t, f) == IF task[t] = Idle THEN [i \in 1 .. Length |-> log[f].asked + i] ELSE task[t].left
AskedOf(t, f) == IF task[t] = Idle THEN log[f].asked + Length ELSE log[f].asked

LEMMA WriteData ==
    ASSUME SocketAssumption, Exclusive, OwnInv, WaitInv, FlowInv,
           NEW t \in Task, NEW o \in Obj, NEW f \in File, f = FileOf(o), InCall(t, "write", o),
           file[f].st # "open" \/ file[f].peer # None
    PROVE  /\ DataOf(t, f) \in Seq(Int) /\ Numbered(DataOf(t, f), SentBy(f))
           /\ AskedOf(t, f) = SentBy(f) + Len(DataOf(t, f)) /\ SentBy(f) \in Nat
<1>0. PICK data, asked : data = DataOf(t, f) /\ asked = AskedOf(t, f)
  OBVIOUS
<1>1. SentBy(f) \in Nat
  <2>1. file[f].peer # None => file[f].peer \in File
    BY TypeFacts DEF FileRecord
  <2>2. QED
    BY <2>1, TypeFacts DEF SentBy, LogRecord
<1>2. Sends(f) /\ log[f].asked \in Int /\ f # None
  BY TypeFacts DEF FlowInv, Sending, LogRecord
<1>3. CASE task[t] = Idle
  <2>1. \A u \in Task \ {t} : On(u) = f => Mode(task[u].op) # Mode("write")
    BY <1>2, InCallFacts, CallNames
  <2>2. \A u \in Task : ~Writes(u, f)
    BY <1>2, <1>3, <2>1, CallFacts DEF Writes
  <2>3. log[f].asked = SentBy(f)
    BY <1>2, <2>2 DEF Sends
  <2>4. Length \in Nat /\ data = [i \in 1 .. Length |-> SentBy(f) + i] /\ asked = SentBy(f) + Length
    BY <1>0, <1>3, <2>3 DEF SocketAssumption, DataOf, AskedOf
  <2>5. data \in Seq(Int) /\ Len(data) = Length
    <3>1. PICK k \in Nat : k = SentBy(f)
      BY <1>1
    <3>2. data = [i \in 1 .. Length |-> k + i] /\ data \in [1 .. Length -> Int]
      BY <2>4, <3>1
    <3>3. QED
      BY <2>4, <3>2
  <2>6. Numbered(data, SentBy(f))
    BY <2>4, <2>5 DEF Numbered
  <2>7. QED
    BY <1>0, <1>1, <2>4, <2>5, <2>6
<1>4. CASE task[t] # Idle
  <2>1. Writes(t, f)
    BY <1>4, InCallFacts, CallNames DEF Writes
  <2>2. task[t].left \in Seq(Int)
    BY <1>4, <2>1, CallFacts DEF FlowInv, Calling, CallOK, Writes
  <2>3. Numbered(task[t].left, SentBy(f)) /\ log[f].asked = SentBy(f) + Len(task[t].left)
    BY <1>2, <2>1 DEF Sends
  <2>4. data = task[t].left /\ asked = log[f].asked
    BY <1>0, <1>4 DEF DataOf, AskedOf
  <2>5. QED
    BY <1>0, <1>1, <2>2, <2>3, <2>4
<1>5. QED
  BY <1>3, <1>4

\* A write that sent num bytes and waits with the others, or has none left.
LEMMA WriteMoves ==
    ASSUME SocketAssumption, 0 \notin SocketFd, Exclusive, OwnInv, WaitInv, FlowInv, SocketNext,
           NEW t \in Task, NEW o \in Obj, NEW f \in File, f = FileOf(o), InCall(t, "write", o),
           fdt' = fdt, sock' = sock, file[f].st \in {"connecting", "open"},
           NEW num \in Nat, NEW rest \in Seq(Int), Numbered(rest, SentBy(f) + num),
           (Returns(t) /\ rest = <<>>) \/ Waits(t, "write", o, rest),
           log'[f].asked = SentBy(f) + num + Len(rest), SentBy(f)' = SentBy(f) + num, SentBy(f) \in Nat,
           \A x \in File \ {f} : log'[x].asked = log[x].asked /\ SentBy(x)' = SentBy(x),
           \A x \in File : /\ file'[x].peer = file[x].peer /\ file'[x].st = file[x].st
                           /\ file[x].peer # f => file'[x].in = file[x].in
    PROVE  Calling' /\ Sending'
<1>1. /\ \A u \in Task \ {t} : task'[u] = task[u]
      /\ Returns(t) => task'[t].obj = None /\ task'[t].op = "idle"
      /\ Waits(t, "write", o, rest) => task'[t].op = "write" /\ task'[t].obj = o /\ task'[t].left = rest
  BY AfterCall
<1>2. FileOf(o)' = f /\ f # None
  BY TypeFacts DEF FileOf
<1>3. /\ Returns(t) => On(t)' = None
      /\ Waits(t, "write", o, rest) => On(t)' = f
  BY <1>1, <1>2, TypeFacts DEF On
<1>4. \A u \in Task \ {t} : On(u) = f => Mode(task[u].op) # Mode("write")
  BY <1>2, InCallFacts, CallNames
<1>5. task[t] = Idle \/ (task[t].op = "write" /\ On(t) = f)
  BY InCallFacts, CallNames
<1>6. \A u \in Task \ {t} : On(u)' = On(u)
  BY <1>1, OnKept
<1>7. Calling'
  <2>1. CallOK(t)'
    <3>1. CASE Returns(t)
      BY <1>1, <3>1 DEF CallOK
    <3>2. CASE Waits(t, "write", o, rest)
      BY <1>1, <1>3, <3>2 DEF CallOK
    <3>3. QED
      BY <3>1, <3>2
  <2>2. task'[t].obj # None => \A u \in Task \ {t} : On(u) = On(t)' => Mode(task[u].op) # Mode(task'[t].op)
    BY <1>1, <1>3, <1>4
  <2>3. ASSUME NEW u \in Task \ {t}, task[u].obj # None
        PROVE  /\ file'[On(u)].st = "listen" <=> file[On(u)].st = "listen"
               /\ task[u].op = "connect" /\ file'[On(u)].peer # None => file'[file'[On(u)].peer].in = <<>>
    <3>1. CallOK(u) /\ On(u) \in File
      BY <2>3 DEF FlowInv, Calling, CallOK
    <3>2. ASSUME task[u].op = "connect", file'[On(u)].peer # None
          PROVE  file'[file'[On(u)].peer].in = <<>>
      <4>1. PICK p \in File : p = file[On(u)].peer /\ p = file'[On(u)].peer
        BY <3>1, <3>2, TypeFacts DEF FileRecord
      <4>2. file[p].peer = On(u)
        BY <3>1, <4>1, TypeFacts DEF Shape
      <4>3. On(u) # f
        BY <1>4, <3>2 DEF Mode
      <4>4. file[p].in = <<>>
        BY <2>3, <3>1, <3>2, <4>1, TypeFacts DEF CallOK
      <4>5. QED
        BY <4>1, <4>2, <4>3, <4>4
    <3>3. QED
      BY <3>1, <3>2
  <2>4. QED
    BY <1>1, <2>1, <2>2, <2>3, CallsStep
<1>8. ASSUME NEW x \in File PROVE Sends(x)'
  <2>1. CASE x # f
    <3>1. \A u \in Task : (Writes(u, x)' <=> Writes(u, x)) /\ (Writes(u, x) => task'[u].left = task[u].left)
      <4>1. ~Writes(t, x) /\ ~Writes(t, x)'
        BY <1>1, <1>3, <1>5, <2>1, TypeFacts, CallFacts DEF Writes
      <4>2. QED
        BY <1>1, <1>6, <4>1 DEF Writes
    <3>2. Sends(x)
      BY DEF FlowInv, Sending
    <3>3. QED
      BY <2>1, <3>1, <3>2, SendsSame
  <2>2. CASE x = f
    <3>1. \A u \in Task \ {t} : ~Writes(u, f)'
      BY <1>1, <1>4, <1>6 DEF Writes
    <3>2. CASE Returns(t) /\ rest = <<>>
      <4>1. \A u \in Task : ~Writes(u, f)'
        BY <1>1, <3>1, <3>2 DEF Writes
      <4>2. log'[f].asked = SentBy(f)'
        BY <3>2
      <4>3. QED
        BY <2>2, <4>1, <4>2, SendsNothing
    <3>3. CASE Waits(t, "write", o, rest)
      <4>1. Writes(t, f)' /\ task'[t].left = rest
        BY <1>1, <1>3, <3>3 DEF Writes
      <4>2. Numbered(task'[t].left, SentBy(f)') /\ log'[f].asked = SentBy(f)' + Len(task'[t].left)
        BY <4>1
      <4>3. /\ (\A u \in Task : ~Writes(u, f)') => log'[f].asked = SentBy(f)'
            /\ \A u \in Task : Writes(u, f)' => /\ Numbered(task'[u].left, SentBy(f)')
                                                /\ log'[f].asked = SentBy(f)' + Len(task'[u].left)
        BY <3>1, <4>1, <4>2
      <4>4. QED
        BY <2>2, <4>3 DEF Sends
    <3>4. QED
      BY <3>2, <3>3
  <2>3. QED
    BY <2>1, <2>2
<1>9. QED
  BY <1>7, <1>8 DEF Sending

LEMMA WriteFlows ==
    ASSUME SocketAssumption, 0 \notin SocketFd, Exclusive, OwnInv, WaitInv, FlowInv,
           NEW t \in Task, Write(t)
    PROVE  FlowInv'
<1>1. PICK o \in Obj :
        LET f == FileOf(o)
            open == f # None /\ file[f].st = "open"
            g == file[f].peer
            starts == task[t] = Idle
            asked == IF starts THEN log[f].asked + Length ELSE log[f].asked
            data == IF starts THEN [i \in 1 .. Length |-> log[f].asked + i] ELSE task[t].left
            num == Min({Room(f), Len(data)})
        IN  /\ InCall(t, "write", o)
            /\ IF open /\ ~PeerGone(f) /\ file[f].wr
               THEN /\ file' = [file EXCEPT ![g].in = @ \o SubSeq(data, 1, num)]
                    /\ log' = [log EXCEPT ![g].sent = @ + num, ![f].asked = asked]
                    /\ IF Rest(data, num) = <<>> THEN Returns(t) ELSE Waits(t, "write", o, Rest(data, num))
               ELSE IF f # None /\ file[f].st = "connecting"
               THEN Waits(t, "write", o, data) /\ log' = [log EXCEPT ![f].asked = asked] /\ UNCHANGED file
               ELSE Returns(t) /\ log' = GivenUp(t) /\ UNCHANGED file
            /\ UNCHANGED <<fdt, sock>>
  BY DEF Write
<1>2. PICK f \in File \cup {None} : f = FileOf(o)
  BY TypeFacts
<1>3. PICK asked, data : asked = AskedOf(t, f) /\ data = DataOf(t, f)
  OBVIOUS
<1>4. PICK g, num : g = file[f].peer /\ num = Min({Room(f), Len(data)})
  OBVIOUS
<1>5. /\ InCall(t, "write", o) /\ fdt' = fdt /\ sock' = sock
      /\ \/ /\ f # None /\ file[f].st = "open" /\ g # None /\ file[f].wr
            /\ file' = [file EXCEPT ![g].in = @ \o SubSeq(data, 1, num)]
            /\ log' = [log EXCEPT ![g].sent = @ + num, ![f].asked = asked]
            /\ IF Rest(data, num) = <<>> THEN Returns(t) ELSE Waits(t, "write", o, Rest(data, num))
         \/ /\ f # None /\ file[f].st = "connecting"
            /\ Waits(t, "write", o, data) /\ log' = [log EXCEPT ![f].asked = asked] /\ file' = file
         \/ Returns(t) /\ log' = GivenUp(t) /\ file' = file
  BY <1>1, <1>2, <1>3, <1>4, Zenon DEF PeerGone, AskedOf, DataOf
<1>6. SocketNext
  BY DEF SocketNext
<1>7. Held(file, fdt) /\ file \in [File -> FileRecord] /\ fdt \in [SocketFd -> File \cup {None}]
  BY TypeFacts DEF FlowInv
<1>8. CASE Returns(t) /\ log' = GivenUp(t) /\ file' = file
  BY <1>5, <1>6, <1>8, GivesUpFlows DEF Returns
<1>9. CASE /\ f # None /\ file[f].st = "connecting"
           /\ Waits(t, "write", o, data) /\ log' = [log EXCEPT ![f].asked = asked] /\ file' = file
  <2>1. f \in File /\ file[f].st # "open" /\ file[f].st # "free"
    BY <1>9
  <2>2. /\ data \in Seq(Int) /\ Numbered(data, SentBy(f)) /\ asked = SentBy(f) + Len(data)
        /\ SentBy(f) \in Nat
    <3>1. DataOf(t, f) \in Seq(Int) /\ Numbered(DataOf(t, f), SentBy(f))
          /\ AskedOf(t, f) = SentBy(f) + Len(DataOf(t, f)) /\ SentBy(f) \in Nat
      BY <1>2, <1>5, <2>1, WriteData
    <3>2. QED
      BY <1>3, <3>1
  <2>3. asked \in Int
    BY <2>2
  <2>4. Kernel(file, log)'
    <3>1. Kernel(file, [log EXCEPT ![f].asked = asked])
      BY <2>1, <2>3, KernelAsked DEF FlowInv
    <3>2. QED
      BY <1>9, <3>1
  <2>5. Held(file, fdt)'
    BY <1>5, <1>7, <1>9
  <2>6. /\ \A x \in File : log'[x].sent = log[x].sent
        /\ \A x \in File \ {f} : log'[x].asked = log[x].asked
        /\ log'[f].asked = asked
    BY <1>9, <2>1, TypeFacts DEF LogRecord
  <2>7. \A x \in File : SentBy(x)' = SentBy(x)
    <3>1. \A x \in File : file[x].peer # None => file[x].peer \in File
      BY TypeFacts DEF FileRecord
    <3>2. QED
      BY <1>9, <2>6, <3>1 DEF SentBy
  <2>8. Calling' /\ Sending'
    <3>1. 0 \in Nat /\ SentBy(f) + 0 = SentBy(f) /\ SentBy(f) + 0 + Len(data) = asked
      BY <2>2
    <3>2. Numbered(data, SentBy(f) + 0)
      BY <2>2, <3>1
    <3>3. /\ log'[f].asked = SentBy(f) + 0 + Len(data) /\ SentBy(f)' = SentBy(f) + 0
          /\ file[f].st \in {"connecting", "open"}
      BY <1>9, <2>1, <2>6, <2>7, <3>1
    <3>4. \A x \in File \ {f} : log'[x].asked = log[x].asked /\ SentBy(x)' = SentBy(x)
      BY <2>6, <2>7
    <3>5. \A x \in File : /\ file'[x].peer = file[x].peer /\ file'[x].st = file[x].st
                          /\ file[x].peer # f => file'[x].in = file[x].in
      BY <1>9
    <3>6. QED
      BY <1>2, <1>5, <1>6, <1>9, <2>1, <2>2, <3>1, <3>2, <3>3, <3>4, <3>5, WriteMoves
  <2>9. QED
    BY <2>4, <2>5, <2>8 DEF FlowInv
<1>10. CASE /\ f # None /\ file[f].st = "open" /\ g # None /\ file[f].wr
            /\ file' = [file EXCEPT ![g].in = @ \o SubSeq(data, 1, num)]
            /\ log' = [log EXCEPT ![g].sent = @ + num, ![f].asked = asked]
            /\ IF Rest(data, num) = <<>> THEN Returns(t) ELSE Waits(t, "write", o, Rest(data, num))
  <2>1. f \in File /\ file[f].peer = g
    BY <1>4, <1>10
  <2>2. /\ data \in Seq(Int) /\ Numbered(data, SentBy(f)) /\ asked = SentBy(f) + Len(data)
        /\ SentBy(f) \in Nat
    <3>1. file[f].st # "open" \/ file[f].peer # None
      BY <1>10, <2>1
    <3>2. DataOf(t, f) \in Seq(Int) /\ Numbered(DataOf(t, f), SentBy(f))
          /\ AskedOf(t, f) = SentBy(f) + Len(DataOf(t, f)) /\ SentBy(f) \in Nat
      BY <1>2, <1>5, <2>1, <3>1, WriteData
    <3>3. QED
      BY <1>3, <3>2
  <2>3. g \in File /\ g # f /\ file[g].peer = f
    <3>1. Shape(file, log, f) /\ g \in File \cup {None}
      BY <2>1, TypeFacts DEF FileRecord
    <3>2. QED
      BY <1>10, <2>1, <3>1 DEF Shape
  <2>4. SentBy(f) = log[g].sent
    BY <1>10, <2>1 DEF SentBy
  <2>5. PICK room \in Nat, len \in Nat : room = Room(f) /\ room = BufferSize - Len(file[g].in) /\ len = Len(data)
    <3>1. Len(file[g].in) \in Nat /\ Len(file[g].in) <= BufferSize /\ BufferSize \in Nat
      <4>1. file[g].in \in Seq(Int)
        BY <2>3, RecordFields, TypeFacts
      <4>2. Stream(file, log, g)
        BY <2>3, TypeFacts
      <4>3. QED
        BY <4>1, <4>2 DEF Stream, SocketAssumption
    <3>2. Room(f) = BufferSize - Len(file[g].in)
      BY <1>10, <2>1 DEF Room, PeerGone
    <3>3. BufferSize - Len(file[g].in) \in Nat
      BY <3>1
    <3>4. Len(data) \in Nat
      BY <2>2
    <3>5. QED
      BY <3>2, <3>3, <3>4
  <2>6. num \in Nat /\ num <= room /\ num <= Len(data) /\ num \in 0 .. Len(data)
    <3>1. {room, len} \in SUBSET Nat /\ {room, len} # {}
      OBVIOUS
    <3>2. num = Min({room, len})
      BY <1>4, <2>5
    <3>3. num \in {room, len} /\ num <= room /\ num <= len
      BY <3>1, <3>2, MinProperties
    <3>4. QED
      BY <2>5, <3>3
  <2>7. PICK more, rest : more = SubSeq(data, 1, num) /\ rest = SubSeq(data, num + 1, Len(data))
    OBVIOUS
  <2>8. /\ more \in Seq(Int) /\ Len(more) = num /\ Numbered(more, SentBy(f))
        /\ rest \in Seq(Int) /\ Len(rest) = Len(data) - num /\ Numbered(rest, SentBy(f) + num)
    BY <2>2, <2>6, <2>7, NumberedSplit
  <2>9. /\ file' = [file EXCEPT ![g].in = @ \o more]
        /\ log' = [log EXCEPT ![g].sent = @ + num, ![f].asked = asked]
        /\ (Returns(t) /\ rest = <<>>) \/ Waits(t, "write", o, rest)
    BY <1>10, <2>7 DEF Rest
  <2>10. asked \in Int /\ asked = SentBy(f) + num + Len(rest)
    BY <2>2, <2>6, <2>8
  <2>11. Kernel(file, log)'
    <3>1. Numbered(more, log[g].sent) /\ num <= BufferSize - Len(file[g].in)
      BY <2>4, <2>5, <2>6, <2>8
    <3>2. Kernel([file EXCEPT ![g].in = @ \o more], [log EXCEPT ![g].sent = @ + num, ![f].asked = asked])
      BY <1>10, <2>1, <2>6, <2>8, <2>10, <3>1, KernelWrite DEF FlowInv
    <3>3. QED
      BY <2>9, <3>2
  <2>12. \A x \in File : /\ file'[x].peer = file[x].peer /\ file'[x].st = file[x].st
                         /\ file'[x].backlog = file[x].backlog
                         /\ x # g => file'[x].in = file[x].in
    <3>1. PICK a : file' = [file EXCEPT ![g].in = a]
      BY <2>9
    <3>2. QED
      BY <3>1, TypeFacts DEF FileRecord
  <2>13. /\ \A x \in File \ {g} : log'[x].sent = log[x].sent
         /\ \A x \in File \ {f} : log'[x].asked = log[x].asked
         /\ log'[g].sent = log[g].sent + num /\ log'[f].asked = asked
    <3>1. \A x \in File : log[x] \in LogRecord
      BY TypeFacts
    <3>2. PICK rg, rf : rg = [log[g] EXCEPT !.sent = @ + num] /\ rf = [log[f] EXCEPT !.asked = asked]
      OBVIOUS
    <3>3. /\ rg.sent = log[g].sent + num /\ rg.asked = log[g].asked
          /\ rf.sent = log[f].sent /\ rf.asked = asked
      BY <2>1, <2>3, <3>1, <3>2 DEF LogRecord
    <3>4. log' = [log EXCEPT ![g] = rg, ![f] = rf]
      BY <2>3, <2>9, <3>2
    <3>5. log'[g] = rg /\ log'[f] = rf /\ \A x \in File \ {f, g} : log'[x] = log[x]
      BY <2>1, <2>3, <3>4, TypeFacts
    <3>6. QED
      BY <3>3, <3>5
  <2>14. SentBy(f)' = SentBy(f) + num
    BY <1>10, <2>1, <2>4, <2>12, <2>13 DEF SentBy
  <2>15. ASSUME NEW x \in File \ {f} PROVE log'[x].asked = log[x].asked /\ SentBy(x)' = SentBy(x)
    <3>1. file[x].peer \in File \cup {None}
      BY TypeFacts DEF FileRecord
    <3>2. file[x].peer # g
      <4>1. Shape(file, log, x)
        BY TypeFacts
      <4>2. QED
        BY <1>10, <2>3, <4>1 DEF Shape
    <3>3. SentBy(x)' = SentBy(x)
      BY <2>12, <2>13, <3>1, <3>2 DEF SentBy
    <3>4. QED
      BY <2>13, <3>3
  <2>16. \A x \in File : /\ file'[x].peer = file[x].peer /\ file'[x].st = file[x].st
                         /\ file[x].peer # f => file'[x].in = file[x].in
    BY <2>3, <2>12
  <2>17. Held(file, fdt)'
    <3>1. file' \in [File -> FileRecord]
      BY <2>11 DEF Kernel
    <3>2. Held(file', fdt)
      BY <1>7, <2>12, <3>1, HeldGrows
    <3>3. QED
      BY <1>5, <3>2
  <2>18. Calling' /\ Sending'
    <3>1. /\ log'[f].asked = SentBy(f) + num + Len(rest) /\ file[f].st \in {"connecting", "open"}
      BY <1>10, <2>10, <2>13
    <3>2. \A x \in File \ {f} : log'[x].asked = log[x].asked /\ SentBy(x)' = SentBy(x)
      BY <2>15
    <3>3. rest \in Seq(Int) /\ Numbered(rest, SentBy(f) + num) /\ SentBy(f) \in Nat /\ num \in Nat
      BY <2>2, <2>6, <2>8
    <3>4. f \in File /\ f = FileOf(o) /\ InCall(t, "write", o) /\ fdt' = fdt /\ sock' = sock
      BY <1>2, <1>5, <2>1
    <3>5. QED
      BY <1>6, <2>9, <2>14, <2>16, <3>1, <3>2, <3>3, <3>4, WriteMoves
  <2>19. QED
    BY <2>11, <2>17, <2>18 DEF FlowInv
<1>11. QED
  BY <1>5, <1>8, <1>9, <1>10

-----------------------------------------------------------------------------
(* Every step, and what the invariant says of streams and of those who     *)
(* wait.                                                                   *)

LEMMA FlowInit ==
    ASSUME SocketAssumption, SocketInit
    PROVE  FlowInv
<1>1. /\ file = [f \in File |-> NoFile] /\ log = [f \in File |-> NoLog]
      /\ task = [t \in Task |-> Idle] /\ fdt = [d \in SocketFd |-> None]
  BY DEF SocketInit
<1>2. /\ NoFile \in FileRecord /\ NoFile.st = "free" /\ NoFile.peer = None /\ NoFile.in = <<>>
      /\ NoFile.backlog = <<>>
      /\ NoLog \in LogRecord /\ NoLog.got = <<>> /\ NoLog.sent = 0 /\ ~NoLog.ended /\ NoLog.asked = 0
  BY FreshFacts
<1>3. Idle.obj = None /\ Idle.op = "idle" /\ None \notin File
  BY DEF Idle, SocketAssumption
<1>4. Kernel(file, log)
  <2>1. ASSUME NEW f \in File PROVE FileOK(file, log, f)
    <3>1. file[f] = NoFile /\ log[f] = NoLog
      BY <1>1
    <3>2. Stream(file, log, f)
      BY <1>2, <3>1, EmptyStream
    <3>3. Shape(file, log, f)
      BY <1>2, <3>1 DEF Shape
    <3>4. QED
      BY <3>2, <3>3 DEF FileOK
  <2>2. QED
    BY <1>1, <1>2, <2>1 DEF Kernel
<1>5. Held(file, fdt)
  <2>1. ASSUME NEW l \in File PROVE ~\E i \in 1 .. Len(file[l].backlog) : TRUE
    BY <1>1, <1>2
  <2>2. QED
    BY <1>1, <2>1 DEF Held
<1>6. \A t \in Task : On(t) = None /\ task[t].obj = None /\ task[t].op = "idle"
  BY <1>1, <1>3 DEF On
<1>7. Calling
  BY <1>6 DEF Calling, Apart, CallOK
<1>8. ASSUME NEW f \in File PROVE Sends(f)
  <2>1. \A t \in Task : ~Writes(t, f)
    BY <1>6 DEF Writes
  <2>2. log[f].asked = SentBy(f)
    BY <1>1, <1>2 DEF SentBy
  <2>3. QED
    BY <2>1, <2>2 DEF Sends
<1>9. QED
  BY <1>4, <1>5, <1>7, <1>8 DEF FlowInv, Sending

LEMMA FlowKept ==
    ASSUME SocketAssumption, 0 \notin SocketFd, Exclusive, OwnInv, WaitInv, FlowInv,
           [SocketNext]_socketVars
    PROVE  FlowInv'
<1>1. CASE UNCHANGED socketVars
  <2>1. fdt' = fdt /\ file' = file /\ sock' = sock /\ task' = task /\ log' = log
    BY <1>1 DEF socketVars, queue
  <2>2. Kernel(file, log)' /\ Held(file, fdt)'
    BY <2>1 DEF FlowInv
  <2>3. \A o \in Obj : FileOf(o)' = FileOf(o)
    BY <2>1 DEF FileOf
  <2>4. \A t \in Task : On(t)' = On(t)
    BY <2>1 DEF On, FileOf
  <2>5. \A f \in File : SentBy(f)' = SentBy(f)
    BY <2>1 DEF SentBy
  <2>6. Calling'
    BY <2>1, <2>4 DEF FlowInv, Calling, Apart, CallOK
  <2>7. Sending'
    BY <2>1, <2>4, <2>5 DEF FlowInv, Sending, Sends, Writes
  <2>8. QED
    BY <2>2, <2>6, <2>7 DEF FlowInv
<1>2. ASSUME NEW t \in Task, Socket(t) \/ Pair(t) \/ Fdopen(t) \/ Close(t) \/ Shutdown(t) \/ Listen(t)
      PROVE  FlowInv'
  BY <1>2, SocketFlows, PairFlows, FdopenFlows, CloseFlows, ShutdownFlows, ListenFlows
<1>3. ASSUME NEW t \in Task, Connect(t) \/ Accept(t) \/ SocketRead(t) \/ Write(t) \/ Kill(t)
      PROVE  FlowInv'
  BY <1>3, ConnectFlows, AcceptFlows, ReadFlows, WriteFlows, KillFlows
<1>4. ASSUME NEW o \in Obj, Collect(o) PROVE FlowInv'
  BY <1>4, CollectFlows
<1>5. ASSUME NEW f \in File, Establish(f) \/ Refuse(f) PROVE FlowInv'
  BY <1>5, EstablishFlows, RefuseFlows
<1>6. CASE Poll
  BY <1>6, PollFlows
<1>7. CASE SocketNext
  BY <1>2, <1>3, <1>4, <1>5, <1>6, <1>7 DEF SocketNext
<1>8. QED
  BY <1>1, <1>7

LEMMA StreamsHold ==
    ASSUME SocketAssumption, OwnInv, FlowInv
    PROVE  StreamIntact
<1>1. ASSUME NEW f \in File PROVE log[f].got = [i \in 1 .. Len(log[f].got) |-> i]
  <2>1. log[f].got \in Seq(Int) /\ Numbered(log[f].got, 0)
    BY TypeFacts DEF LogRecord, Stream
  <2>2. PICK got \in Seq(Int) : got = log[f].got
    BY <2>1
  <2>3. \A i \in 1 .. Len(got) : got[i] = 0 + i /\ 0 + i = i
    BY <2>1, <2>2 DEF Numbered
  <2>4. got = [i \in 1 .. Len(got) |-> i]
    BY <2>3
  <2>5. QED
    BY <2>2, <2>4
<1>2. ASSUME NEW f \in File, log[f].ended PROVE Len(log[f].got) = log[f].sent
  <2>1. file[f].in = <<>> /\ Len(log[f].got) + Len(file[f].in) = log[f].sent
    BY <1>2, TypeFacts DEF Stream
  <2>2. Len(file[f].in) = 0 /\ Len(log[f].got) \in Nat
    <3>1. log[f].got \in Seq(Int)
      BY TypeFacts DEF LogRecord
    <3>2. QED
      BY <2>1, <3>1
  <2>3. QED
    BY <2>1, <2>2
<1>3. QED
  BY <1>1, <1>2 DEF StreamIntact, InOrder, EndMeansAll

\* The event a call waits for is there when the call would not wait again.
LEMMA WaitersReady ==
    ASSUME SocketAssumption, OwnInv, WaitInv, FlowInv,
           NEW t \in Task, queued[t]._dequeue # "nil", ~WouldRetry(t)
    PROVE  IF queued[t]._dequeue = "R" THEN Readable(queued[t]._dequeuedata)
           ELSE Writable(queued[t]._dequeuedata)
<1>1. PICK d \in SocketFd, o \in Obj :
        d = queued[t]._dequeuedata /\ o = task[t].obj /\ sock[o].s = d
  BY DEF WaitInv, Waiting
<1>2. queued[t]._dequeue = Mode(task[t].op)
  BY DEF WaitInv, Waiting
<1>3. o # None /\ task[t].op \in Ops /\ On(t) = FileOf(o)
  BY <1>1, TypeFacts, CallFacts
<1>4. On(t) \in File /\ CallOK(t)
  BY <1>1, <1>3 DEF FlowInv, Calling, CallOK
<1>5. PICK f \in File : f = On(t)
  BY <1>4
<1>6. FileOf(o) = f /\ fdt[d] = f /\ f # None
  <2>1. d # -1
    BY <1>1, FdFacts
  <2>2. QED
    BY <1>1, <1>3, <1>5, <2>1, TypeFacts DEF FileOf
<1>7. file[f].st \in {"new", "connecting", "refused", "open", "listen"}
  <2>1. file[f] \in FileRecord /\ file[f].st # "free"
    BY <1>6, TypeFacts DEF FlowInv, Held
  <2>2. QED
    BY <2>1 DEF FileRecord
<1>8. task[t].op = "accept" <=> file[f].st = "listen"
  BY <1>1, <1>3, <1>4, <1>5 DEF CallOK
<1>9. file[f].st = "open" /\ file[f].peer # None =>
        /\ Room(f) \in Nat
        /\ file[file[f].peer].in = <<>> => Room(f) > 0
  <2>1. SUFFICES ASSUME file[f].peer # None
                 PROVE  Room(f) \in Nat /\ (file[file[f].peer].in = <<>> => Room(f) > 0)
    OBVIOUS
  <2>2. PICK g \in File : g = file[f].peer
    BY <2>1, TypeFacts DEF FileRecord
  <2>3. Room(f) = BufferSize - Len(file[g].in)
    BY <2>1, <2>2 DEF Room, PeerGone
  <2>4. file[g].in \in Seq(Int) /\ Len(file[g].in) <= BufferSize
    BY <2>2, TypeFacts, RecordFields DEF Stream
  <2>5. Len(file[g].in) \in Nat /\ BufferSize \in Nat /\ BufferSize > 0
    BY <2>4 DEF SocketAssumption
  <2>6. BufferSize - Len(file[g].in) \in Nat
    BY <2>4, <2>5
  <2>7. file[g].in = <<>> => BufferSize - Len(file[g].in) > 0
    BY <2>5
  <2>8. QED
    BY <2>2, <2>3, <2>6, <2>7
<1>10. CASE task[t].op = "accept"
  <2>1. queued[t]._dequeue = "R" /\ file[f].st = "listen"
    BY <1>2, <1>8, <1>10 DEF Mode
  <2>2. file[f].backlog # <<>>
    BY <1>1, <1>6, <1>10, <2>1 DEF WouldRetry
  <2>3. QED
    BY <1>1, <1>6, <2>1, <2>2 DEF Readable
<1>11. CASE task[t].op = "read"
  <2>1. queued[t]._dequeue = "R" /\ file[f].st # "listen"
    BY <1>2, <1>8, <1>11 DEF Mode
  <2>2. /\ file[f].st # "connecting"
        /\ file[f].st = "open" => file[f].in # <<>> \/ AtEnd(f) \/ ~file[f].rd
    BY <1>1, <1>6, <1>11, Zenon DEF WouldRetry
  <2>3. Readable(d)
    BY <1>6, <1>7, <2>1, <2>2 DEF Readable
  <2>4. QED
    BY <1>1, <2>1, <2>3
<1>12. CASE task[t].op = "connect"
  <2>1. queued[t]._dequeue = "W" /\ file[f].st # "listen"
    BY <1>2, <1>8, <1>12 DEF Mode
  <2>2. file[f].st \notin {"new", "connecting"}
    BY <1>1, <1>6, <1>12 DEF WouldRetry
  <2>3. file[f].peer # None => file[file[f].peer].in = <<>>
    BY <1>1, <1>3, <1>4, <1>5, <1>12 DEF CallOK
  <2>4. Writable(d)
    BY <1>6, <1>7, <1>9, <2>1, <2>2, <2>3 DEF Writable, PeerGone
  <2>5. QED
    BY <1>1, <2>1, <2>4
<1>13. CASE task[t].op = "write"
  <2>1. queued[t]._dequeue = "W" /\ file[f].st # "listen"
    BY <1>2, <1>8, <1>13 DEF Mode
  <2>2. /\ file[f].st # "connecting"
        /\ file[f].st = "open" => PeerGone(f) \/ ~file[f].wr \/ Room(f) # 0
    BY <1>1, <1>6, <1>13 DEF WouldRetry
  <2>3. Writable(d)
    BY <1>6, <1>7, <1>9, <2>1, <2>2 DEF Writable, PeerGone
  <2>4. QED
    BY <1>1, <2>1, <2>3
<1>14. QED
  BY <1>3, <1>10, <1>11, <1>12, <1>13 DEF Ops

LEMMA WaitersFound ==
    ASSUME SocketAssumption, OwnInv, WaitInv, FlowInv
    PROVE  WokenWhenReady
<1>1. SUFFICES ASSUME NEW t \in Task, queued[t]._dequeue # "nil", ~WouldRetry(t)
               PROVE  queued[t]._dequeuedata \in IF queued[t]._dequeue = "R" THEN woken.rd ELSE woken.wr
  BY DEF WokenWhenReady
<1>2. PICK d \in SocketFd : d = queued[t]._dequeuedata
  BY <1>1 DEF WaitInv, Waiting
<1>3. queued[t] \in [_dequeue : {"nil", "R", "W"}, _dequeuedata : SocketFd \cup {-1}] /\ t # None
  BY TypeFacts DEF WaitInv, QueueTypes
<1>4. /\ queued[t]._dequeue = "R" => readers[d] = t
      /\ queued[t]._dequeue = "W" => writers[d] = t
  BY <1>2, <1>3 DEF WaitInv, Registered
<1>5. PICK p : p = [fd |-> d, rd |-> readers[d] # None, wr |-> writers[d] # None]
  OBVIOUS
<1>6. p \in pollfds /\ p.fd = d
  BY <1>1, <1>3, <1>4, <1>5 DEF pollfds
<1>7. CASE queued[t]._dequeue = "R"
  <2>1. Readable(d) /\ p.rd
    BY <1>1, <1>2, <1>3, <1>4, <1>5, <1>7, WaitersReady
  <2>2. p \in {q \in pollfds : q.rd /\ Readable(q.fd)}
    BY <1>6, <2>1
  <2>3. d \in woken.rd
    BY <1>6, <2>2 DEF woken
  <2>4. QED
    BY <1>2, <1>7, <2>3
<1>8. CASE queued[t]._dequeue = "W"
  <2>1. Writable(d) /\ p.wr
    BY <1>1, <1>2, <1>3, <1>4, <1>5, <1>8, WaitersReady
  <2>2. p \in {q \in pollfds : q.wr /\ Writable(q.fd)}
    BY <1>6, <2>1
  <2>3. d \in woken.wr
    BY <1>6, <2>2 DEF woken
  <2>4. QED
    BY <1>2, <1>8, <2>3
<1>9. QED
  BY <1>1, <1>3, <1>7, <1>8

-----------------------------------------------------------------------------
(* The theorems.                                                           *)

\* Descriptors and objects belong together throughout.
THEOREM OwnInvariance ==
    ASSUME SocketAssumption, 0 \notin SocketFd
    PROVE  SocketSpec => []OwnInv
<1>1. OwnInv /\ [SocketNext]_socketVars => OwnInv'
  BY OwnKept
<1>2. QED
  BY <1>1, OwnInit, PTL DEF SocketSpec

\* Whatever sockets are made, copied, closed and collected, and although the
\* kernel hands a number out again as soon as it is closed, an open descriptor
\* has one object and xpsocket_close and xpsocket_dtor never close another
\* one's.  Descriptor 0 is left out: xpsocket_dtor does not close it.
THEOREM DescriptorsHaveOwners ==
    ASSUME SocketAssumption, 0 \notin SocketFd
    PROVE  SocketSpec => []OwnsDescriptor
<1>1. OwnInv => OwnsDescriptor
  BY OwnersAreUnique
<1>2. QED
  BY <1>1, OwnInvariance, PTL

\* The kernel's files, the descriptors that refer to them and the calls on them
\* belong together throughout, when the tasks keep to Exclusive.
THEOREM FlowInvariance ==
    ASSUME SocketAssumption, 0 \notin SocketFd, Exclusive
    PROVE  SocketSpec => [](OwnInv /\ WaitInv /\ FlowInv)
<1>1. OwnInv /\ WaitInv /\ [SocketNext]_socketVars => WaitInv'
  BY WaitKept
<1>2. OwnInv /\ WaitInv /\ FlowInv /\ [SocketNext]_socketVars => FlowInv'
  BY FlowKept
<1>3. SocketInit => WaitInv /\ FlowInv
  BY WaitInit, FlowInit
<1>4. QED
  BY <1>1, <1>2, <1>3, OwnInvariance, PTL DEF SocketSpec

\* Socket:write is asked for data, writes what fits and later the rest, from
\* where it was; whatever is closed, shut down, copied, killed or refused
\* meanwhile, a reader gets what was sent, in order, nothing twice and nothing
\* left out, and reads the end only after all of it.
THEOREM StreamsAreIntact ==
    ASSUME SocketAssumption, 0 \notin SocketFd, Exclusive
    PROVE  SocketSpec => []StreamIntact
<1>1. OwnInv /\ WaitInv /\ FlowInv => StreamIntact
  BY StreamsHold
<1>2. QED
  BY <1>1, FlowInvariance, PTL

\* The queue of xpqueue_enqueue, xpqueue_dequeue and xpqueue_wait has exactly
\* the tasks that wait, each where its _dequeuedata says: no task is lost when
\* numbers of descriptors are used again, none is woken twice, and killing a
\* task never removes the entry of another one.  And a task whose call could go
\* on is woken by the next poll: what each call waits for is what ends its
\* "retry".
THEOREM WaitersAreWoken ==
    ASSUME SocketAssumption, 0 \notin SocketFd, Exclusive
    PROVE  SocketSpec => []WaitersWoken
<1>1. OwnInv /\ WaitInv /\ FlowInv => WaitersWoken
  <2>1. WaitInv => Registered
    BY DEF WaitInv
  <2>2. QED
    BY <2>1, WaitersFound DEF WaitersWoken
<1>2. QED
  BY <1>1, FlowInvariance, PTL
=============================================================================
