------------------------------ MODULE XPSocket ------------------------------
(***************************************************************************)
(* The sockets of xpio: the objects of xpio_c.c, the blocking calls that   *)
(* xpio.lua builds from their try_ and when_ functions, and the queue that *)
(* polls for the tasks that wait.                                          *)
(*                                                                         *)
(* The tasks are coroutines of one thread: a call runs until it returns or *)
(* has to wait.  A socket object holds the number of a descriptor; the     *)
(* numbers are handed out again, the lowest first, as soon as they are     *)
(* closed.  The kernel is external: streams with room for BufferSize       *)
(* bytes, listeners, and connections made some time after connect.         *)
(*                                                                         *)
(* Bytes are numbered in the order a file was asked to send them.          *)
(***************************************************************************)
EXTENDS Integers, Sequences, FiniteSets, FiniteSetsExt

CONSTANTS
    Task,          \* the coroutines
    Calls,         \* task -> names of the calls it makes
    Obj,           \* socket objects, each made once: a bound
    SocketFd,      \* numbers of descriptors
    File,          \* open files of the kernel
    None,
    BufferSize,    \* bytes in flight in one direction
    Length,        \* bytes of the data of one write
    MaxWrites,     \* writes asked of a file
    Exclusive      \* no two tasks wait on a socket, or on it and a copy of it,
                   \* for the same event, and none closes a socket or makes a
                   \* listener of it while another task is in a call on it

\* What the constants are; the module that gives them values assumes it.
SocketAssumption ==
    /\ SocketFd \subseteq Nat /\ BufferSize \in Nat \ {0}
    /\ Length \in Nat \ {0} /\ MaxWrites \in Nat
    /\ Exclusive \in BOOLEAN /\ DOMAIN Calls = Task
    /\ None \notin File /\ None \notin Task /\ None \notin Obj

VARIABLES
    fdt,      \* descriptor -> file
    file,     \* the kernel's files
    sock,     \* object -> [made, live, s]: live until it is collected, s the
              \*   number of its descriptor or -1
    task,     \* task -> the call it is in: [op, obj, left]
    readers,  \* uservalue[1]: descriptor -> task
    writers,  \* uservalue[2]
    queued,   \* task -> [_dequeue, _dequeuedata]
    log       \* file -> [asked: bytes it was asked to send, sent: bytes sent
              \*   to it, got: what was read from it, ended: the end was read]

kernel == <<fdt, file>>
queue  == <<readers, writers, queued>>
socketVars   == <<fdt, file, sock, task, readers, writers, queued, log>>

Idle == [op |-> "idle", obj |-> None, left |-> <<>>]
\* What _dequeuedata is while _dequeue is nil does not matter.
NotQueued == [_dequeue |-> "nil", _dequeuedata |-> -1]
NoFile == [st |-> "free", peer |-> None, in |-> <<>>, backlog |-> <<>>, rd |-> FALSE, wr |-> FALSE]
NoLog == [asked |-> 0, sent |-> 0, got |-> <<>>, ended |-> FALSE]

SocketInit ==
    /\ fdt = [d \in SocketFd |-> None] /\ file = [f \in File |-> NoFile]
    /\ sock = [o \in Obj |-> [made |-> FALSE, live |-> FALSE, s |-> -1]]
    /\ task = [t \in Task |-> Idle]
    /\ readers = [d \in SocketFd |-> None] /\ writers = [d \in SocketFd |-> None]
    /\ queued = [t \in Task |-> NotQueued]
    /\ log = [f \in File |-> NoLog]

SocketTypeOK ==
    /\ fdt \in [SocketFd -> File \cup {None}]
    /\ \A o \in Obj : sock[o].s \in SocketFd \cup {-1} /\ sock[o].live \in BOOLEAN
    /\ readers \in [SocketFd -> Task \cup {None}] /\ writers \in [SocketFd -> Task \cup {None}]
    /\ \A t \in Task : task[t].obj \in Obj \cup {None}
                       /\ queued[t]._dequeue \in {"nil", "R", "W"}

-----------------------------------------------------------------------------
(* The kernel.                                                              *)

Free == {f \in File : file[f].st = "free"}
NextFree == CHOOSE f \in Free : TRUE
Connection(peer) == [NoFile EXCEPT !.st = "open", !.peer = peer, !.rd = TRUE, !.wr = TRUE]
FreeFds == {d \in SocketFd : fdt[d] = None}
FileOf(o) == IF sock[o].s = -1 THEN None ELSE fdt[sock[o].s]

\* A file goes with its last descriptor.  Its peer then reads what is left and
\* the end; connections nobody has accepted are refused.
ClosedBy(d) ==
    LET f == fdt[d]
        shared == \E e \in SocketFd \ {d} : fdt[e] = f
        gone == IF shared THEN {}
                ELSE {f} \cup {file[f].backlog[i] : i \in 1 .. Len(file[f].backlog)}
    IN [g \in File |->
          IF g \in gone THEN NoFile
          ELSE IF file[g].peer \in gone THEN [file[g] EXCEPT !.peer = None]
          ELSE file[g]]

PeerGone(f) == file[f].peer = None
AtEnd(f) == file[f].in = <<>> /\ (PeerGone(f) \/ ~file[file[f].peer].wr)
Room(f) == IF PeerGone(f) THEN 0 ELSE BufferSize - Len(file[file[f].peer].in)

\* poll: POLLIN, POLLERR, POLLHUP or POLLNVAL; and the same for writing.
Readable(d) ==
    LET f == fdt[d]
    IN \/ f = None
       \/ file[f].st = "listen" /\ file[f].backlog # <<>>
       \/ file[f].st = "open" /\ (file[f].in # <<>> \/ AtEnd(f) \/ ~file[f].rd)
       \/ file[f].st \in {"new", "refused"}
Writable(d) ==
    LET f == fdt[d]
    IN \/ f = None
       \/ file[f].st = "open" /\ (Room(f) > 0 \/ PeerGone(f) \/ ~file[f].wr)
       \/ file[f].st \in {"new", "refused"}

\* A connection is made with a listener or refused, some time after connect.
Establish(f) ==
    /\ file[f].st = "connecting"
    /\ Free # {}
    /\ \E l \in File :
         LET g == NextFree
         IN /\ file[l].st = "listen"
            /\ file' = [file EXCEPT ![f] = Connection(g), ![g] = Connection(f), ![l].backlog = Append(@, g)]
            /\ log' = [log EXCEPT ![g] = NoLog]
    /\ UNCHANGED <<fdt, sock, task, queue>>
Refuse(f) ==
    /\ file[f].st = "connecting" /\ \A l \in File : file[l].st # "listen"
    /\ file' = [file EXCEPT ![f].st = "refused"]
    /\ UNCHANGED <<fdt, sock, task, queue, log>>

-----------------------------------------------------------------------------
(* The queue.                                                               *)

\* xpqueue_enqueue, from when_read and when_write.
xpqueue_enqueue(t, mode, o) ==
    LET d == sock[o].s
    IN /\ readers' = IF mode = "R" THEN [readers EXCEPT ![d] = t] ELSE readers
       /\ writers' = IF mode = "W" THEN [writers EXCEPT ![d] = t] ELSE writers
       /\ queued' = [queued EXCEPT ![t] = [_dequeue |-> mode, _dequeuedata |-> d]]

\* xpqueue_dequeue: the entry of the descriptor noted in the task goes.
xpqueue_dequeue(t) ==
    LET q == queued[t]
    IN /\ readers' = IF q._dequeue = "R" THEN [readers EXCEPT ![q._dequeuedata] = None] ELSE readers
       /\ writers' = IF q._dequeue = "W" THEN [writers EXCEPT ![q._dequeuedata] = None] ELSE writers
       /\ queued' = [queued EXCEPT ![t] = NotQueued]

\* One entry for each descriptor somebody waits on: for reading, writing or both.
pollfds == {[fd |-> d, rd |-> readers[d] # None, wr |-> writers[d] # None] :
               d \in {x \in SocketFd : readers[x] # None \/ writers[x] # None}}

\* Those whose revents answer what was asked for (XPQueue_wakeSockets).
woken ==
    LET rd == {p.fd : p \in {q \in pollfds : q.rd /\ Readable(q.fd)}}
        wr == {p.fd : p \in {q \in pollfds : q.wr /\ Writable(q.fd)}}
    IN [rd |-> rd, wr |-> wr]

\* xpqueue_wait: the tasks of the ready descriptors are taken off the queue.
Poll ==
    LET ready == {readers[d] : d \in woken.rd} \cup {writers[d] : d \in woken.wr}
    IN /\ ready # {}
       /\ readers' = [d \in SocketFd |-> IF d \in woken.rd THEN None ELSE readers[d]]
       /\ writers' = [d \in SocketFd |-> IF d \in woken.wr THEN None ELSE writers[d]]
       /\ queued' = [t \in Task |-> IF t \in ready THEN NotQueued ELSE queued[t]]
       /\ UNCHANGED <<kernel, sock, task, log>>

-----------------------------------------------------------------------------
(* Making sockets and getting rid of them.                                  *)

MayCall(t, name) == name \in Calls[t] /\ task[t] = Idle
NewObj == CHOOSE o \in Obj : ~sock[o].made
CanMake(n) == Cardinality({o \in Obj : ~sock[o].made}) >= n
Object(s) == [made |-> TRUE, live |-> TRUE, s |-> s]

\* xpio_socket: with no descriptor left the object stays without one.
Socket(t) ==
    /\ MayCall(t, "socket") /\ CanMake(1) /\ Free # {}
    /\ IF FreeFds # {}
       THEN /\ fdt' = [fdt EXCEPT ![Min(FreeFds)] = NextFree]
            /\ file' = [file EXCEPT ![NextFree].st = "new"]
            /\ log' = [log EXCEPT ![NextFree] = NoLog]
            /\ sock' = [sock EXCEPT ![NewObj] = Object(Min(FreeFds))]
       ELSE sock' = [sock EXCEPT ![NewObj] = Object(-1)] /\ UNCHANGED <<kernel, log>>
    /\ UNCHANGED <<task, queue>>

\* xpio_pair: the two ends of a stream, or two objects without descriptors.
Pair(t) ==
    /\ MayCall(t, "pair") /\ CanMake(2) /\ Cardinality(Free) >= 2
    /\ LET a == NewObj
           b == CHOOSE o \in Obj : ~sock[o].made /\ o # a
           da == Min(FreeFds)
           db == Min(FreeFds \ {da})
           f == NextFree
           g == CHOOSE x \in Free : x # f
       IN IF Cardinality(FreeFds) >= 2
          THEN /\ fdt' = [fdt EXCEPT ![da] = f, ![db] = g]
               /\ file' = [file EXCEPT ![f] = Connection(g), ![g] = Connection(f)]
               /\ log' = [log EXCEPT ![f] = NoLog, ![g] = NoLog]
               /\ sock' = [sock EXCEPT ![a] = Object(da), ![b] = Object(db)]
          ELSE sock' = [sock EXCEPT ![a] = Object(-1), ![b] = Object(-1)] /\ UNCHANGED <<kernel, log>>
    /\ UNCHANGED <<task, queue>>

\* dup: a descriptor the new object owns; -1 when there is none left.
dup(n) == IF FreeFds = {} THEN -1 ELSE Min(FreeFds)

\* xpio_fdopen of the descriptor of an object.
Fdopen(t) ==
    /\ MayCall(t, "fdopen") /\ CanMake(1)
    /\ \E o \in Obj :
         LET d == dup(sock[o].s)
         IN /\ sock[o].s # -1
            /\ fdt' = IF d = -1 THEN fdt ELSE [fdt EXCEPT ![d] = FileOf(o)]
            /\ sock' = [sock EXCEPT ![NewObj] = Object(d)]
    /\ UNCHANGED <<file, task, queue, log>>

\* The tasks in a call on an object, and on its file through any object.
InCallOn(o) == {u \in Task : task[u].obj = o}
Sharing(o) == {u \in Task : task[u].obj # None /\ FileOf(task[u].obj) = FileOf(o)}

\* What close(2) leaves of the descriptors; s may be -1.
Descriptors(s) == IF s = -1 THEN fdt ELSE [fdt EXCEPT ![s] = None]
Files(s) == IF s = -1 \/ fdt[s] = None THEN file ELSE ClosedBy(s)

Logs(files) == [f \in File |-> IF files[f].st = "free" THEN NoLog ELSE log[f]]

\* Wrong: the number stays in the object.
closeKeepsNumber(o) == sock[o]
Closed(o) == [sock[o] EXCEPT !.s = -1]

\* xpsocket_close; of a closed socket it only reports that.
Close(t) ==
    /\ MayCall(t, "close")
    /\ \E o \in Obj :
         /\ sock[o].live /\ (Exclusive => InCallOn(o) = {})
         /\ fdt' = Descriptors(sock[o].s) /\ file' = Files(sock[o].s)
         /\ sock' = [sock EXCEPT ![o] = Closed(o)]
    /\ log' = Logs(file') /\ UNCHANGED <<task, queue>>

\* xpsocket_dtor, when nothing refers to the object any more.  Descriptor 0 is
\* not closed.
Collect(o) ==
    /\ sock[o].live /\ InCallOn(o) = {}
    /\ fdt' = IF sock[o].s # 0 THEN Descriptors(sock[o].s) ELSE fdt
    /\ file' = IF sock[o].s # 0 THEN Files(sock[o].s) ELSE file
    /\ sock' = [sock EXCEPT ![o] = [@ EXCEPT !.live = FALSE, !.s = -1]]
    /\ log' = Logs(file') /\ UNCHANGED <<task, queue>>

\* xpsocket_shutdown of one direction or both.
Shutdown(t) ==
    /\ MayCall(t, "shutdown")
    /\ \E o \in Obj, r, w \in BOOLEAN :
         /\ sock[o].live /\ FileOf(o) # None /\ file[FileOf(o)].st = "open"
         /\ file' = [file EXCEPT ![FileOf(o)].rd = @ /\ ~r, ![FileOf(o)].wr = @ /\ ~w]
    /\ UNCHANGED <<fdt, sock, task, queue, log>>

\* xpsocket_bind and xpsocket_listen; the address is taken once.
Listen(t) ==
    /\ MayCall(t, "listen")
    /\ \E o \in Obj :
         /\ sock[o].live /\ FileOf(o) # None /\ file[FileOf(o)].st = "new"
         /\ (Exclusive => Sharing(o) = {}) /\ \A f \in File : file[f].st # "listen"
         /\ file' = [file EXCEPT ![FileOf(o)].st = "listen"]
    /\ UNCHANGED <<fdt, sock, task, queue, log>>

-----------------------------------------------------------------------------
(* The blocking calls of xpio.lua: the try_ function again each time the    *)
(* task is resumed, until it does not say "retry".                          *)

\* Wrong: connect waits for what accept waits for.
connectReads(op) == IF op = "write" THEN "W" ELSE "R"
Mode(op) == IF op \in {"read", "accept"} THEN "R" ELSE "W"

\* A call that starts, or one whose task has been woken.
InCall(t, op, o) ==
    \/ MayCall(t, op) /\ sock[o].live
       /\ (Exclusive => \A u \in Sharing(o) : Mode(task[u].op) # Mode(op))
    \/ task[t].op = op /\ task[t].obj = o /\ queued[t]._dequeue = "nil"

Returns(t) == task' = [task EXCEPT ![t] = Idle] /\ UNCHANGED queue
Waits(t, op, o, left) ==
    /\ task' = [task EXCEPT ![t] = [op |-> op, obj |-> o, left |-> left]]
    /\ xpqueue_enqueue(t, Mode(op), o)

\* Socket:connect.  The first call starts the connection; EISCONN is success.
Connect(t) ==
    \E o \in Obj :
      LET f == FileOf(o)
          st == IF f = None THEN "none" ELSE file[f].st
      IN /\ InCall(t, "connect", o)
         /\ IF st \in {"new", "connecting"} THEN Waits(t, "connect", o, <<>>) ELSE Returns(t)
         /\ file' = IF st = "new" THEN [file EXCEPT ![f].st = "connecting"]
                    ELSE IF st = "refused" THEN [file EXCEPT ![f].st = "new"] ELSE file
         /\ UNCHANGED <<fdt, sock, log>>

\* Socket:accept.  The objects made by calls that had to retry are garbage
\* without a descriptor.
Accept(t) ==
    \E o \in Obj :
      LET f == FileOf(o)
          listening == f # None /\ file[f].st = "listen"
      IN /\ InCall(t, "accept", o)
         /\ IF listening /\ file[f].backlog = <<>>
            THEN Waits(t, "accept", o, <<>>) /\ UNCHANGED <<kernel, sock>>
            ELSE IF listening /\ FreeFds # {}
            THEN /\ CanMake(1) /\ Returns(t)
                 /\ fdt' = [fdt EXCEPT ![Min(FreeFds)] = Head(file[f].backlog)]
                 /\ file' = [file EXCEPT ![f].backlog = Tail(@)]
                 /\ sock' = [sock EXCEPT ![NewObj] = Object(Min(FreeFds))]
            ELSE Returns(t) /\ UNCHANGED <<kernel, sock>>
         /\ UNCHANGED log

\* read returns 0.
ReadsEnd(f) == file[f].in = <<>> /\ (AtEnd(f) \/ ~file[f].rd)

\* Socket:read: some of the bytes, the end, or an error.
SocketRead(t) ==
    \E o \in Obj :
      LET f == FileOf(o)
          open == f # None /\ file[f].st = "open"
      IN /\ InCall(t, "read", o)
         /\ IF open /\ file[f].in # <<>>
            THEN \E n \in 1 .. Len(file[f].in) :
                   /\ file' = [file EXCEPT ![f].in = SubSeq(@, n + 1, Len(@))]
                   /\ log' = [log EXCEPT ![f].got = @ \o SubSeq(file[f].in, 1, n)]
                   /\ Returns(t)
            ELSE IF open /\ ReadsEnd(f)
            THEN log' = [log EXCEPT ![f].ended = @ \/ file[f].rd] /\ Returns(t) /\ UNCHANGED file
            ELSE IF open \/ (f # None /\ file[f].st = "connecting")
            THEN Waits(t, "read", o, <<>>) /\ UNCHANGED <<file, log>>
            ELSE Returns(t) /\ UNCHANGED <<file, log>>
         /\ UNCHANGED <<fdt, sock>>

\* Wrong: the last byte written is written again.
restRepeats(data, num) == IF num \in {0, Len(data)} THEN SubSeq(data, num + 1, Len(data)) ELSE SubSeq(data, num, Len(data))
\* data:sub(num+1)
Rest(data, num) == SubSeq(data, num + 1, Len(data))

\* The rest of what a write was asked to send will not be sent.
GivenUp(t) ==
    LET f == FileOf(task[t].obj)
    IN IF task[t].op # "write" \/ f = None THEN log
       ELSE [log EXCEPT ![f].asked = @ - Len(task[t].left)]

\* Socket:write: what fits is written, then the task waits with the rest.
Write(t) ==
    \E o \in Obj :
      LET f == FileOf(o)
          open == f # None /\ file[f].st = "open"
          g == file[f].peer
          starts == task[t] = Idle
          asked == IF starts THEN log[f].asked + Length ELSE log[f].asked
          data == IF starts THEN [i \in 1 .. Length |-> log[f].asked + i] ELSE task[t].left
          num == Min({Room(f), Len(data)})
      IN /\ InCall(t, "write", o)
         /\ open /\ starts => asked <= MaxWrites * Length
         /\ IF open /\ ~PeerGone(f) /\ file[f].wr
            THEN /\ file' = [file EXCEPT ![g].in = @ \o SubSeq(data, 1, num)]
                 /\ log' = [log EXCEPT ![g].sent = @ + num, ![f].asked = asked]
                 /\ IF Rest(data, num) = <<>> THEN Returns(t) ELSE Waits(t, "write", o, Rest(data, num))
            ELSE IF f # None /\ file[f].st = "connecting"
            THEN Waits(t, "write", o, data) /\ log' = [log EXCEPT ![f].asked = asked] /\ UNCHANGED file
            ELSE Returns(t) /\ log' = GivenUp(t) /\ UNCHANGED file
         /\ UNCHANGED <<fdt, sock>>

\* thread.kill of a task that waits.
Kill(t) ==
    /\ MayCall(t, "kill")
    /\ \E u \in Task :
         /\ queued[u]._dequeue # "nil"
         /\ xpqueue_dequeue(u)
         /\ task' = [task EXCEPT ![u] = Idle]
         /\ log' = GivenUp(u)
    /\ UNCHANGED <<kernel, sock>>

-----------------------------------------------------------------------------
SocketNext ==
    \/ \E t \in Task : \/ Socket(t) \/ Pair(t) \/ Fdopen(t) \/ Close(t) \/ Shutdown(t) \/ Listen(t)
                       \/ Connect(t) \/ Accept(t) \/ SocketRead(t) \/ Write(t) \/ Kill(t)
    \/ \E o \in Obj : Collect(o)
    \/ \E f \in File : Establish(f) \/ Refuse(f)
    \/ Poll

SocketSpec == SocketInit /\ [][SocketNext]_socketVars

-----------------------------------------------------------------------------
(* Properties.                                                              *)

\* A stream delivers what the writes were asked to send, in order, nothing
\* twice and nothing left out, although a write takes several tries.
InOrder ==
    \A f \in File : log[f].got = [i \in 1 .. Len(log[f].got) |-> i]

\* The end of a stream means that everything sent has been read; xpio.md says
\* so of read.
EndMeansAll == \A f \in File : log[f].ended => Len(log[f].got) = log[f].sent

\* A stream delivers what was written, whole and in order, and its end means that
\* all of it was read.
StreamIntact == InOrder /\ EndMeansAll

\* An open descriptor belongs to one object, and the descriptor of an object
\* is open: closing and collecting sockets never closes another one's.
OwnsDescriptor ==
    /\ \A d \in SocketFd : fdt[d] # None => Cardinality({o \in Obj : sock[o].live /\ sock[o].s = d}) = 1
    /\ \A o \in Obj : sock[o].live /\ sock[o].s # -1 => fdt[sock[o].s] # None

\* A task that waits is in the queue where its _dequeue looks for it, and only
\* such tasks are in the queue: none is forgotten and none is woken twice.
Registered ==
    \A t \in Task, d \in SocketFd :
        /\ readers[d] = t <=> queued[t] = [_dequeue |-> "R", _dequeuedata |-> d]
        /\ writers[d] = t <=> queued[t] = [_dequeue |-> "W", _dequeuedata |-> d]

\* A task that waits is woken by the next poll once its call could go on: the
\* event each call waits for is the one that ends its "retry".
WouldRetry(t) ==
    LET f == FileOf(task[t].obj)
        st == IF f = None THEN "none" ELSE file[f].st
    IN CASE task[t].op = "connect" -> st \in {"new", "connecting"}
         [] task[t].op = "accept" -> st = "listen" /\ file[f].backlog = <<>>
         [] task[t].op = "read" -> st = "connecting" \/ (st = "open" /\ file[f].in = <<>> /\ ~AtEnd(f) /\ file[f].rd)
         [] task[t].op = "write" -> st = "connecting" \/ (st = "open" /\ ~PeerGone(f) /\ file[f].wr /\ Room(f) = 0)
WokenWhenReady ==
    \A t \in Task : queued[t]._dequeue # "nil" /\ ~WouldRetry(t) =>
        queued[t]._dequeuedata \in IF queued[t]._dequeue = "R" THEN woken.rd ELSE woken.wr

\* A task that waits for a socket is registered for the event that ends its
\* wait and is found by the next poll once its call could go on.
WaitersWoken == Registered /\ WokenWhenReady
=============================================================================
