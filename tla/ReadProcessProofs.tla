------------------------- MODULE ReadProcessProofs --------------------------
(***************************************************************************)
(* What readProcess promises, for any calls, inputs, outputs and sizes of  *)
(* pipes: bytes are neither lost nor made up on their way through the      *)
(* pipes (Conserved), and the pipe ends each process has open follow from  *)
(* where the call and its process are (ParentEnds, ChildEnds), so the end  *)
(* of a stream is seen only when there is nothing more to come.            *)
(***************************************************************************)
EXTENDS ReadProcess, TLAPS

-----------------------------------------------------------------------------
(* The inductive invariant, call by call.                                  *)

\* Bytes written are collected or in the pipe; so are bytes of the input, until
\* the program has ended and the rest is given up.
Conserved(c) ==
    /\ \A i \in Stream : chunks[c][i] + data[c][i] = put[c][i]
    /\ proc[c] # "ended" => left[c] + data[c][0] + got[c] = InLen[c]

\* The ends the parent has open for a call.
ParentEnds(c) ==
    /\ pc[c] = "idle" => parent \cap Ends(c) = {}
    /\ pc[c] = "write" => W(c, 0) \in parent /\ parent \cap Ends(c) \subseteq Kept(c)
    /\ pc[c] \in {"wait", "join", "done"} =>
          \A e \in parent \cap Ends(c) : \E i \in Stream : e = R(c, i) /\ reader[c][i] = "reading"

\* Those its process has open.
ChildEnds(c) ==
    /\ proc[c] = "forked" => Ends(c) \subseteq child[c]
    /\ proc[c] = "running" => child[c] = Granted(c)

\* How far the call, its process, its readers and its input have come.
Progress(c) ==
    /\ pc[c] \in {"idle", "raised"} <=> proc[c] = "none"
    /\ pc[c] \in {"wait", "join", "done"} => left[c] = 0
    /\ pc[c] = "done" => \A i \in Stream : reader[c][i] = "done"
    /\ \A i \in Stream : reader[c][i] = "done" => proc[c] = "ended" /\ data[c][i] = 0
    /\ \A i \in Stream : reader[c][i] # "none" => pc[c] \in {"wait", "join", "done"}
    /\ eof[c] => /\ got[c] = InLen[c] /\ data[c][0] = 0
                 /\ pc[c] \in {"wait", "join", "done"}

CallInv(c) == Conserved(c) /\ ParentEnds(c) /\ ChildEnds(c) /\ Progress(c)

IInv == TypeOK /\ \A c \in Call : CallInv(c)

-----------------------------------------------------------------------------
(* Pipe ends.                                                              *)

\* The six ends of a call are distinct and shared with no other call.
LEMMA EndFacts ==
    ASSUME NEW c \in Call
    PROVE  /\ Ends(c) = {R(c, 0), R(c, 1), R(c, 2), W(c, 0), W(c, 1), W(c, 2)}
           /\ \A d \in Call, i \in 0..2, j \in 0..2 : R(c, i) = R(d, j) <=> c = d /\ i = j
           /\ \A d \in Call, i \in 0..2, j \in 0..2 : W(c, i) = W(d, j) <=> c = d /\ i = j
           /\ \A d \in Call, i \in 0..2, j \in 0..2 : R(c, i) # W(d, j)
<1>1. \A e \in Ends(c) : e \in {R(c, 0), R(c, 1), R(c, 2), W(c, 0), W(c, 1), W(c, 2)}
  BY DEF Ends, R, W
<1>2. \A i \in 0..2 : R(c, i) \in Ends(c) /\ W(c, i) \in Ends(c)
  BY DEF Ends, R, W
<1>3. QED
  BY <1>1, <1>2 DEF R, W

\* A call's ends apart from those its program gets.
LEMMA KeptFacts ==
    ASSUME NEW c \in Call
    PROVE  /\ Kept(c) = {W(c, 0), R(c, 1), R(c, 2)}
           /\ Kept(c) \subseteq Ends(c) /\ Granted(c) \subseteq Ends(c)
           /\ \A d \in Call : d # c => Ends(d) \cap Ends(c) = {}
<1>1. /\ Kept(c) = {W(c, 0), R(c, 1), R(c, 2)}
      /\ Kept(c) \subseteq Ends(c) /\ Granted(c) \subseteq Ends(c)
  BY EndFacts DEF Kept, Granted
<1>2. ASSUME NEW d \in Call, d # c
      PROVE  Ends(d) \cap Ends(c) = {}
  BY <1>2, EndFacts
<1>3. QED
  BY <1>1, <1>2

\* Min of FiniteSetsExt on the two numbers it is used with.
LEMMA MinOfTwo ==
    ASSUME NEW a \in Nat, NEW b \in Nat
    PROVE  /\ Min({a, b}) \in Nat
           /\ Min({a, b}) <= a /\ Min({a, b}) <= b
           /\ Min({a, b}) = a \/ Min({a, b}) = b
<1>1. \E x \in {a, b} : \A y \in {a, b} : x <= y
  OBVIOUS
<1>2. Min({a, b}) \in {a, b} /\ \A y \in {a, b} : Min({a, b}) <= y
  BY <1>1 DEF Min
<1>3. QED
  BY <1>2

-----------------------------------------------------------------------------
(* The steps.                                                              *)

\* A step of one call or of its program leaves the other calls alone.
LEMMA Elsewhere ==
    ASSUME IInv, NEW c \in Call,
           parent \ Ends(c) = parent' \ Ends(c),
           \A d \in Call \ {c} :
              UNCHANGED <<child[d], data[d], pc[d], left[d], reader[d], chunks[d],
                          proc[d], got[d], eof[d], put[d]>>
    PROVE  \A d \in Call \ {c} : CallInv(d)'
<1> SUFFICES ASSUME NEW d \in Call, d # c
             PROVE  CallInv(d)'
  OBVIOUS
<1>1. parent' \cap Ends(d) = parent \cap Ends(d)
  BY KeptFacts
<1>2. W(d, 0) \in Ends(d)
  BY EndFacts
<1>3. CallInv(d)
  BY DEF IInv
<1>4. Conserved(d)' /\ ChildEnds(d)' /\ Progress(d)'
  BY <1>3 DEF CallInv, Conserved, ChildEnds, Progress
<1>5. ParentEnds(d)'
  BY <1>1, <1>2, <1>3 DEF CallInv, ParentEnds
<1>6. QED
  BY <1>4, <1>5 DEF CallInv

\* writeAll moves what fits from the input to the pipe.
LEMMA WriteAllEffect ==
    ASSUME TypeOK, NEW c \in Call, writeAll(c)
    PROVE  /\ data' \in [Call -> [0..2 -> 0..Capacity]] /\ left' \in [Call -> Nat]
           /\ data'[c][0] + left'[c] = data[c][0] + left[c]
           /\ \A i \in Stream : data'[c][i] = data[c][i]
           /\ \A d \in Call \ {c} : data'[d] = data[d] /\ left'[d] = left[d]
<1>1. data[c] \in [0..2 -> 0..Capacity] /\ data[c][0] \in 0..Capacity /\ left[c] \in Nat /\ Capacity \in Nat
  BY ReadAssumption DEF TypeOK
<1> DEFINE n == Min({left[c], Space(c, 0)})
<1>2. n \in Nat /\ n <= left[c] /\ n <= Capacity - data[c][0]
  <2>1. Space(c, 0) \in Nat
    BY <1>1 DEF Space
  <2>2. QED
    BY <1>1, <2>1, MinOfTwo DEF Space
<1>3. data' = [data EXCEPT ![c][0] = @ + n] /\ left' = [left EXCEPT ![c] = @ - n]
  BY DEF writeAll
<1> HIDE DEF n
<1>4. data[c][0] + n \in 0..Capacity /\ left[c] - n \in Nat
  BY <1>1, <1>2
<1>5. QED
  BY <1>1, <1>2, <1>3, <1>4 DEF TypeOK, Stream

\* CloseStdin: the call writes on, or it has closed its end and reads.
LEMMA CloseStdinEffect ==
    ASSUME TypeOK, NEW c \in Call, CloseStdin(c), left' \in [Call -> Nat]
    PROVE  /\ parent' \subseteq UNION {Ends(d) : d \in Call}
           /\ pc' \in [Call -> {"idle", "write", "wait", "join", "done", "raised"}]
           /\ reader' \in [Call -> [Stream -> {"none", "reading", "done"}]]
           /\ parent \ Ends(c) = parent' \ Ends(c)
           /\ \A d \in Call \ {c} : pc'[d] = pc[d] /\ reader'[d] = reader[d]
           /\ \/ /\ left'[c] = 0 /\ pc'[c] = "wait"
                 /\ \A i \in Stream : reader'[c][i] = "reading"
                 /\ parent' \cap Ends(c) = ((parent \cap Ends(c)) \cup Kept(c)) \ {W(c, 0)}
              \/ /\ left'[c] # 0 /\ pc'[c] = "write"
                 /\ reader'[c] = reader[c]
                 /\ parent' \cap Ends(c) = (parent \cap Ends(c)) \cup Kept(c)
<1>1. Kept(c) \subseteq Ends(c) /\ W(c, 0) \in Ends(c)
  BY KeptFacts, EndFacts
<1>2. CASE left'[c] = 0
  <2>1. /\ parent' = (parent \cup Kept(c)) \ {W(c, 0)}
        /\ reader' = [reader EXCEPT ![c] = [i \in Stream |-> "reading"]]
        /\ pc' = [pc EXCEPT ![c] = "wait"]
    BY <1>2 DEF CloseStdin
  <2>2. /\ parent \ Ends(c) = parent' \ Ends(c)
        /\ parent' \cap Ends(c) = ((parent \cap Ends(c)) \cup Kept(c)) \ {W(c, 0)}
    BY <1>1, <2>1
  <2>3. parent' \subseteq UNION {Ends(d) : d \in Call}
    BY <1>1, <2>1 DEF TypeOK
  <2>4. QED
    BY <1>2, <2>1, <2>2, <2>3 DEF TypeOK
<1>3. CASE left'[c] # 0
  <2>1. /\ parent' = parent \cup Kept(c) /\ reader' = reader
        /\ pc' = [pc EXCEPT ![c] = "write"]
    BY <1>3 DEF CloseStdin
  <2>2. /\ parent \ Ends(c) = parent' \ Ends(c)
        /\ parent' \cap Ends(c) = (parent \cap Ends(c)) \cup Kept(c)
        /\ parent' \subseteq UNION {Ends(d) : d \in Call}
    BY <1>1, <2>1 DEF TypeOK
  <2>3. QED
    BY <1>3, <2>1, <2>2 DEF TypeOK
<1>4. QED
  BY <1>2, <1>3

\* What TypeOK says of one call.
LEMMA CallTypes ==
    ASSUME TypeOK, NEW c \in Call
    PROVE  /\ data[c] \in [0..2 -> 0..Capacity] /\ \A i \in 0..2 : data[c][i] \in 0..Capacity
           /\ left[c] \in Nat /\ got[c] \in Nat /\ want[c] \in 0..2 /\ eof[c] \in BOOLEAN
           /\ \A i \in Stream : chunks[c][i] \in Nat /\ put[c][i] \in Nat
           /\ Capacity \in Nat /\ Chunk \in Nat /\ InLen[c] \in Nat
BY ReadAssumption DEF TypeOK, Stream

\* Together with Elsewhere: a step of one call keeps the invariant.
LEMMA OneCall ==
    ASSUME IInv, NEW c \in Call, TypeOK', CallInv(c)',
           \A d \in Call \ {c} : CallInv(d)'
    PROVE  IInv'
BY DEF IInv

LEMMA SpawnKept ==
    ASSUME IInv, NEW c \in Call, Spawn(c)
    PROVE  IInv'
<1>1. TypeOK /\ CallInv(c)
  BY DEF IInv
<1>2. /\ pc[c] = "idle" /\ child' = [child EXCEPT ![c] = parent \cup Ends(c)]
      /\ proc' = [proc EXCEPT ![c] = "forked"] /\ writeAll(c) /\ CloseStdin(c)
      /\ UNCHANGED <<chunks, want, got, eof, put>>
  BY DEF Spawn
<1>3. /\ data' \in [Call -> [0..2 -> 0..Capacity]] /\ left' \in [Call -> Nat]
      /\ data'[c][0] + left'[c] = data[c][0] + left[c]
      /\ \A i \in Stream : data'[c][i] = data[c][i]
      /\ \A d \in Call \ {c} : data'[d] = data[d] /\ left'[d] = left[d]
  BY <1>1, <1>2, WriteAllEffect
<1>4. /\ parent' \subseteq UNION {Ends(d) : d \in Call}
      /\ pc' \in [Call -> {"idle", "write", "wait", "join", "done", "raised"}]
      /\ reader' \in [Call -> [Stream -> {"none", "reading", "done"}]]
      /\ parent \ Ends(c) = parent' \ Ends(c)
      /\ \A d \in Call \ {c} : pc'[d] = pc[d] /\ reader'[d] = reader[d]
  BY <1>1, <1>2, <1>3, CloseStdinEffect
<1>5. \/ /\ left'[c] = 0 /\ pc'[c] = "wait" /\ \A i \in Stream : reader'[c][i] = "reading"
         /\ parent' \cap Ends(c) = ((parent \cap Ends(c)) \cup Kept(c)) \ {W(c, 0)}
      \/ /\ left'[c] # 0 /\ pc'[c] = "write" /\ reader'[c] = reader[c]
         /\ parent' \cap Ends(c) = (parent \cap Ends(c)) \cup Kept(c)
  BY <1>1, <1>2, <1>3, CloseStdinEffect
<1>6. TypeOK'
  BY <1>1, <1>2, <1>3, <1>4 DEF TypeOK
<1>7. proc[c] = "none" /\ ~eof[c] /\ parent \cap Ends(c) = {}
      /\ \A i \in Stream : reader[c][i] = "none"
  BY <1>1, <1>2 DEF CallInv, Progress, ParentEnds
<1>8. /\ proc'[c] = "forked" /\ child'[c] = parent \cup Ends(c)
      /\ \A d \in Call \ {c} : proc'[d] = proc[d] /\ child'[d] = child[d]
  BY <1>1, <1>2 DEF TypeOK
<1>9. CallInv(c)'
  <2>1. Conserved(c)'
    BY <1>1, <1>2, <1>3, <1>6, <1>7, <1>8, CallTypes DEF CallInv, Conserved, TypeOK, Stream
  <2>2. ParentEnds(c)'
    BY <1>5, <1>7, KeptFacts DEF ParentEnds, Stream
  <2>3. ChildEnds(c)'
    BY <1>8 DEF ChildEnds
  <2>4. Progress(c)'
    BY <1>2, <1>5, <1>7, <1>8 DEF Progress
  <2>5. QED
    BY <2>1, <2>2, <2>3, <2>4 DEF CallInv
<1>10. \A d \in Call \ {c} : CallInv(d)'
  BY <1>2, <1>3, <1>4, <1>8, Elsewhere
<1>11. QED
  BY <1>6, <1>9, <1>10, OneCall

LEMMA SpawnRaisesKept ==
    ASSUME IInv, NEW c \in Call, SpawnRaises(c)
    PROVE  IInv'
<1>1. TypeOK /\ CallInv(c)
  BY DEF IInv
<1>2. /\ pc[c] = "idle" /\ parent' = parent \cup Ends(c) /\ pc' = [pc EXCEPT ![c] = "raised"]
      /\ UNCHANGED <<child, data, left, reader, chunks, proc, want, got, eof, put>>
  BY DEF SpawnRaises, childVars
<1>3. pc'[c] = "raised" /\ \A d \in Call \ {c} : pc'[d] = pc[d]
  BY <1>1, <1>2 DEF TypeOK
<1>4. TypeOK'
  BY <1>1, <1>2 DEF TypeOK
<1>5. CallInv(c)'
  BY <1>1, <1>2, <1>3 DEF CallInv, Conserved, ParentEnds, ChildEnds, Progress
<1>6. \A d \in Call \ {c} : CallInv(d)'
  <2>1. parent \ Ends(c) = parent' \ Ends(c)
    BY <1>2
  <2>2. QED
    BY <1>2, <1>3, <2>1, Elsewhere
<1>7. QED
  BY <1>4, <1>5, <1>6, OneCall

LEMMA DtorKept ==
    ASSUME IInv, NEW c \in Call, xpsocket_dtor(c)
    PROVE  IInv'
<1>1. TypeOK /\ CallInv(c)
  BY DEF IInv
<1>2. /\ pc[c] = "raised" /\ parent' = parent \ Ends(c)
      /\ UNCHANGED <<child, data, pc, left, reader, chunks, proc, want, got, eof, put>>
  BY DEF xpsocket_dtor, childVars, parentVars
<1>3. TypeOK'
  BY <1>1, <1>2 DEF TypeOK
<1>4. CallInv(c)'
  BY <1>1, <1>2 DEF CallInv, Conserved, ParentEnds, ChildEnds, Progress
<1>5. \A d \in Call \ {c} : CallInv(d)'
  <2>1. parent \ Ends(c) = parent' \ Ends(c)
    BY <1>2
  <2>2. QED
    BY <1>2, <2>1, Elsewhere
<1>6. QED
  BY <1>3, <1>4, <1>5, OneCall

LEMMA WriteMoreKept ==
    ASSUME IInv, NEW c \in Call, WriteMore(c)
    PROVE  IInv'
<1>1. TypeOK /\ CallInv(c)
  BY DEF IInv
<1>2. /\ pc[c] = "write" /\ writeAll(c) /\ CloseStdin(c)
      /\ UNCHANGED <<child, chunks, proc, want, got, eof, put>>
  BY DEF WriteMore, childVars
<1>3. /\ data' \in [Call -> [0..2 -> 0..Capacity]] /\ left' \in [Call -> Nat]
      /\ data'[c][0] + left'[c] = data[c][0] + left[c]
      /\ \A i \in Stream : data'[c][i] = data[c][i]
      /\ \A d \in Call \ {c} : data'[d] = data[d] /\ left'[d] = left[d]
  BY <1>1, <1>2, WriteAllEffect
<1>4. /\ parent' \subseteq UNION {Ends(d) : d \in Call}
      /\ pc' \in [Call -> {"idle", "write", "wait", "join", "done", "raised"}]
      /\ reader' \in [Call -> [Stream -> {"none", "reading", "done"}]]
      /\ parent \ Ends(c) = parent' \ Ends(c)
      /\ \A d \in Call \ {c} : pc'[d] = pc[d] /\ reader'[d] = reader[d]
  BY <1>1, <1>2, <1>3, CloseStdinEffect
<1>5. \/ /\ left'[c] = 0 /\ pc'[c] = "wait" /\ \A i \in Stream : reader'[c][i] = "reading"
         /\ parent' \cap Ends(c) = ((parent \cap Ends(c)) \cup Kept(c)) \ {W(c, 0)}
      \/ /\ left'[c] # 0 /\ pc'[c] = "write" /\ reader'[c] = reader[c]
         /\ parent' \cap Ends(c) = (parent \cap Ends(c)) \cup Kept(c)
  BY <1>1, <1>2, <1>3, CloseStdinEffect
<1>6. TypeOK'
  BY <1>1, <1>2, <1>3, <1>4 DEF TypeOK
<1>7. /\ proc[c] # "none" /\ ~eof[c] /\ parent \cap Ends(c) \subseteq Kept(c)
      /\ \A i \in Stream : reader[c][i] = "none"
  BY <1>1, <1>2 DEF CallInv, Progress, ParentEnds
<1>8. CallInv(c)'
  <2>1. Conserved(c)'
    BY <1>1, <1>2, <1>3, <1>6, CallTypes DEF CallInv, Conserved, TypeOK, Stream
  <2>2. ParentEnds(c)'
    BY <1>5, <1>7, KeptFacts DEF ParentEnds, Stream
  <2>3. ChildEnds(c)'
    BY <1>1, <1>2 DEF CallInv, ChildEnds
  <2>4. Progress(c)'
    BY <1>2, <1>5, <1>7 DEF Progress
  <2>5. QED
    BY <2>1, <2>2, <2>3, <2>4 DEF CallInv
<1>9. \A d \in Call \ {c} : CallInv(d)'
  BY <1>2, <1>3, <1>4, Elsewhere
<1>10. QED
  BY <1>6, <1>8, <1>9, OneCall

\* A write fails only when the program has ended: until then it has the read
\* end of its input open.
LEMMA WriteFailsKept ==
    ASSUME IInv, NEW c \in Call, WriteFails(c)
    PROVE  IInv'
<1>1. TypeOK /\ CallInv(c)
  BY DEF IInv
<1>2. /\ pc[c] = "write" /\ ~Open(R(c, 0)) /\ left' = [left EXCEPT ![c] = 0] /\ CloseStdin(c)
      /\ UNCHANGED <<child, data, chunks, proc, want, got, eof, put>>
  BY DEF WriteFails, childVars
<1>3. /\ left' \in [Call -> Nat] /\ left'[c] = 0 /\ \A d \in Call \ {c} : left'[d] = left[d]
  BY <1>1, <1>2 DEF TypeOK
<1>4. /\ parent' \subseteq UNION {Ends(d) : d \in Call}
      /\ pc' \in [Call -> {"idle", "write", "wait", "join", "done", "raised"}]
      /\ reader' \in [Call -> [Stream -> {"none", "reading", "done"}]]
      /\ parent \ Ends(c) = parent' \ Ends(c)
      /\ \A d \in Call \ {c} : pc'[d] = pc[d] /\ reader'[d] = reader[d]
      /\ pc'[c] = "wait" /\ \A i \in Stream : reader'[c][i] = "reading"
      /\ parent' \cap Ends(c) = ((parent \cap Ends(c)) \cup Kept(c)) \ {W(c, 0)}
  BY <1>1, <1>2, <1>3, CloseStdinEffect
<1>5. TypeOK'
  BY <1>1, <1>2, <1>3, <1>4 DEF TypeOK
<1>6. ~eof[c] /\ parent \cap Ends(c) \subseteq Kept(c)
  BY <1>1, <1>2 DEF CallInv, Progress, ParentEnds
<1>7. proc[c] = "ended"
  <2>1. R(c, 0) \notin child[c]
    BY <1>2 DEF Open
  <2>2. proc[c] # "forked" /\ proc[c] # "running"
    BY <1>1, <2>1, EndFacts DEF CallInv, ChildEnds, Granted
  <2>3. proc[c] # "none"
    BY <1>1, <1>2 DEF CallInv, Progress
  <2>4. QED
    BY <1>1, <2>2, <2>3 DEF TypeOK
<1>8. CallInv(c)'
  <2>1. Conserved(c)'
    BY <1>1, <1>2, <1>7 DEF CallInv, Conserved
  <2>2. ParentEnds(c)'
    BY <1>4, <1>6, KeptFacts DEF ParentEnds, Stream
  <2>3. ChildEnds(c)'
    BY <1>1, <1>2 DEF CallInv, ChildEnds
  <2>4. Progress(c)'
    BY <1>2, <1>3, <1>4, <1>6, <1>7 DEF Progress
  <2>5. QED
    BY <2>1, <2>2, <2>3, <2>4 DEF CallInv
<1>9. \A d \in Call \ {c} : CallInv(d)'
  BY <1>2, <1>3, <1>4, Elsewhere
<1>10. QED
  BY <1>5, <1>8, <1>9, OneCall

LEMMA ReadKept ==
    ASSUME IInv, NEW c \in Call, NEW i \in Stream, Read(c, i)
    PROVE  IInv'
<1>1. TypeOK /\ CallInv(c)
  BY DEF IInv
<1> DEFINE n == Min({data[c][i], Chunk})
<1>2. i \in 0..2 /\ i # 0 /\ data[c][i] \in 0..Capacity /\ chunks[c][i] \in Nat
  BY <1>1, CallTypes DEF Stream
<1>3. n \in Nat /\ n <= data[c][i]
  <2>1. data[c][i] \in Nat /\ Chunk \in Nat
    BY <1>1, <1>2, CallTypes
  <2>2. QED
    BY <2>1, MinOfTwo
<1>4. /\ reader[c][i] = "reading" /\ n > 0
      /\ data' = [data EXCEPT ![c][i] = @ - n] /\ chunks' = [chunks EXCEPT ![c][i] = @ + n]
      /\ UNCHANGED <<parent, child, pc, left, reader, proc, want, got, eof, put>>
  BY DEF Read, childVars
<1> HIDE DEF n
<1>5. /\ data[c][i] - n \in 0..Capacity /\ chunks[c][i] + n \in Nat
      /\ (chunks[c][i] + n) + (data[c][i] - n) = chunks[c][i] + data[c][i]
  BY <1>1, <1>2, <1>3, CallTypes
<1>6. TypeOK'
  BY <1>1, <1>2, <1>4, <1>5 DEF TypeOK
<1>7. /\ data'[c][i] = data[c][i] - n /\ chunks'[c][i] = chunks[c][i] + n
      /\ \A j \in 0..2 : j # i => data'[c][j] = data[c][j]
      /\ \A j \in Stream : j # i => chunks'[c][j] = chunks[c][j]
      /\ \A d \in Call \ {c} : data'[d] = data[d] /\ chunks'[d] = chunks[d]
  BY <1>1, <1>2, <1>4 DEF TypeOK
<1>8. CallInv(c)'
  <2>1. Conserved(c)'
    <3>1. \A j \in Stream : chunks'[c][j] + data'[c][j] = put[c][j]
      BY <1>1, <1>5, <1>7 DEF CallInv, Conserved, Stream
    <3>2. proc[c] # "ended" => left[c] + data'[c][0] + got[c] = InLen[c]
      BY <1>1, <1>2, <1>7 DEF CallInv, Conserved
    <3>3. QED
      BY <1>4, <3>1, <3>2 DEF Conserved
  <2>2. ParentEnds(c)' /\ ChildEnds(c)'
    BY <1>1, <1>4 DEF CallInv, ParentEnds, ChildEnds
  <2>3. Progress(c)'
    BY <1>1, <1>2, <1>4, <1>7 DEF CallInv, Progress, Stream
  <2>4. QED
    BY <2>1, <2>2, <2>3 DEF CallInv
<1>9. \A d \in Call \ {c} : CallInv(d)'
  BY <1>4, <1>7, Elsewhere
<1>10. QED
  BY <1>6, <1>8, <1>9, OneCall

\* The end of a stream is seen only when the program has ended: it has its
\* write end open until then, and a forked child has a copy of it.
LEMMA ReadEndKept ==
    ASSUME IInv, NEW c \in Call, NEW i \in Stream, ReadEnd(c, i)
    PROVE  IInv'
<1>1. TypeOK /\ CallInv(c)
  BY DEF IInv
<1>2. /\ reader[c][i] = "reading" /\ data[c][i] = 0 /\ ~Open(W(c, i))
      /\ parent' = parent \ {R(c, i)} /\ reader' = [reader EXCEPT ![c][i] = "done"]
      /\ UNCHANGED <<child, data, pc, left, chunks, proc, want, got, eof, put>>
  BY DEF ReadEnd, childVars
<1>3. /\ reader'[c][i] = "done"
      /\ \A j \in Stream : j # i => reader'[c][j] = reader[c][j]
      /\ \A d \in Call \ {c} : reader'[d] = reader[d]
  BY <1>1, <1>2 DEF TypeOK
<1>4. pc[c] \in {"wait", "join", "done"}
  BY <1>1, <1>2 DEF CallInv, Progress
<1>5. proc[c] = "ended"
  <2>1. W(c, i) \notin child[c]
    BY <1>2 DEF Open
  <2>2. proc[c] # "forked" /\ proc[c] # "running"
    BY <1>1, <2>1, EndFacts DEF CallInv, ChildEnds, Granted, Stream
  <2>3. proc[c] # "none"
    BY <1>1, <1>4 DEF CallInv, Progress
  <2>4. QED
    BY <1>1, <2>2, <2>3 DEF TypeOK
<1>6. TypeOK'
  BY <1>1, <1>2 DEF TypeOK
<1>7. CallInv(c)'
  <2>1. Conserved(c)' /\ ChildEnds(c)'
    BY <1>1, <1>2 DEF CallInv, Conserved, ChildEnds
  <2>2. ParentEnds(c)'
    <3>1. ASSUME NEW e \in parent' \cap Ends(c)
          PROVE  \E j \in Stream : e = R(c, j) /\ reader'[c][j] = "reading"
      <4>1. PICK j \in Stream : e = R(c, j) /\ reader[c][j] = "reading"
        BY <1>1, <1>2, <1>4 DEF CallInv, ParentEnds
      <4>2. j # i
        BY <1>2, <4>1
      <4>3. QED
        BY <1>3, <4>1, <4>2
    <3>2. QED
      BY <1>2, <1>4, <3>1 DEF ParentEnds
  <2>3. Progress(c)'
    BY <1>1, <1>2, <1>3, <1>4, <1>5 DEF CallInv, Progress
  <2>4. QED
    BY <2>1, <2>2, <2>3 DEF CallInv
<1>8. \A d \in Call \ {c} : CallInv(d)'
  <2>1. parent \ Ends(c) = parent' \ Ends(c)
    BY <1>2, EndFacts DEF Stream
  <2>2. QED
    BY <1>2, <1>3, <2>1, Elsewhere
<1>9. QED
  BY <1>6, <1>7, <1>8, OneCall

LEMMA WaitAndJoinKept ==
    ASSUME IInv, NEW c \in Call, WaitReturns(c) \/ Joined(c)
    PROVE  IInv'
<1>1. TypeOK /\ CallInv(c)
  BY DEF IInv
<1>2. /\ UNCHANGED <<parent, child, data, left, reader, chunks, proc, want, got, eof, put>>
      /\ \/ pc[c] = "wait" /\ pc' = [pc EXCEPT ![c] = "join"]
         \/ /\ pc[c] = "join" /\ pc' = [pc EXCEPT ![c] = "done"]
            /\ \A i \in Stream : reader[c][i] = "done"
  BY DEF WaitReturns, Joined, childVars
<1>3. /\ \/ pc[c] = "wait" /\ pc'[c] = "join"
         \/ pc[c] = "join" /\ pc'[c] = "done" /\ \A i \in Stream : reader[c][i] = "done"
      /\ \A d \in Call \ {c} : pc'[d] = pc[d]
  BY <1>1, <1>2 DEF TypeOK
<1>4. TypeOK'
  BY <1>1, <1>2 DEF TypeOK
<1>5. CallInv(c)'
  <2>1. Conserved(c)' /\ ChildEnds(c)'
    BY <1>1, <1>2 DEF CallInv, Conserved, ChildEnds
  <2>2. ParentEnds(c)'
    BY <1>1, <1>2, <1>3 DEF CallInv, ParentEnds
  <2>3. Progress(c)'
    BY <1>1, <1>2, <1>3 DEF CallInv, Progress
  <2>4. QED
    BY <2>1, <2>2, <2>3 DEF CallInv
<1>6. \A d \in Call \ {c} : CallInv(d)'
  BY <1>2, <1>3, Elsewhere
<1>7. QED
  BY <1>4, <1>5, <1>6, OneCall

\* A process starts its program, or ends.
LEMMA ProcessKept ==
    ASSUME IInv, NEW c \in Call, Exec(c) \/ ExecFails(c) \/ ChildExits(c)
    PROVE  IInv'
<1>1. TypeOK /\ CallInv(c)
  BY DEF IInv
<1>2. /\ proc[c] \in {"forked", "running"}
      /\ UNCHANGED <<parent, data, pc, left, reader, chunks, want, got, eof, put>>
      /\ \/ proc' = [proc EXCEPT ![c] = "running"] /\ child' = [child EXCEPT ![c] = Granted(c)]
         \/ proc' = [proc EXCEPT ![c] = "ended"] /\ child' = [child EXCEPT ![c] = {}]
  BY DEF Exec, ExecFails, ChildExits, Runs, parentVars
<1>3. /\ \/ proc'[c] = "running" /\ child'[c] = Granted(c)
         \/ proc'[c] = "ended" /\ child'[c] = {}
      /\ \A d \in Call \ {c} : proc'[d] = proc[d] /\ child'[d] = child[d]
  BY <1>1, <1>2 DEF TypeOK
<1>4. TypeOK'
  <2>1. Granted(c) \subseteq UNION {Ends(d) : d \in Call}
    BY KeptFacts
  <2>2. child' \in [Call -> SUBSET UNION {Ends(d) : d \in Call}]
    BY <1>1, <1>2, <2>1, ZenonT(60) DEF TypeOK
  <2>3. QED
    BY <1>1, <1>2, <2>2 DEF TypeOK
<1>5. CallInv(c)'
  <2>1. Conserved(c)' /\ ParentEnds(c)'
    BY <1>1, <1>2, <1>3 DEF CallInv, Conserved, ParentEnds
  <2>2. ChildEnds(c)'
    BY <1>3 DEF ChildEnds
  <2>3. Progress(c)'
    BY <1>1, <1>2, <1>3 DEF CallInv, Progress
  <2>4. QED
    BY <2>1, <2>2, <2>3 DEF CallInv
<1>6. \A d \in Call \ {c} : CallInv(d)'
  BY <1>2, <1>3, Elsewhere
<1>7. QED
  BY <1>4, <1>5, <1>6, OneCall

LEMMA ChildReadsKept ==
    ASSUME IInv, NEW c \in Call, ChildReads(c)
    PROVE  IInv'
<1>1. TypeOK /\ CallInv(c)
  BY DEF IInv
<1>2. /\ data[c][0] > 0 /\ data' = [data EXCEPT ![c][0] = @ - 1] /\ got' = [got EXCEPT ![c] = @ + 1]
      /\ UNCHANGED <<parent, child, pc, left, reader, chunks, proc, want, eof, put>>
  BY DEF ChildReads, parentVars
<1>3. /\ data[c][0] \in 0..Capacity /\ data[c][0] - 1 \in 0..Capacity
      /\ got[c] \in Nat /\ got[c] + 1 \in Nat /\ left[c] \in Nat
  BY <1>1, <1>2, CallTypes
<1>4. TypeOK'
  BY <1>1, <1>2, <1>3 DEF TypeOK
<1>5. /\ data'[c][0] = data[c][0] - 1 /\ got'[c] = got[c] + 1
      /\ \A i \in Stream : data'[c][i] = data[c][i]
      /\ \A d \in Call \ {c} : data'[d] = data[d] /\ got'[d] = got[d]
  BY <1>1, <1>2 DEF TypeOK, Stream
<1>6. CallInv(c)'
  <2>1. Conserved(c)'
    BY <1>1, <1>2, <1>3, <1>5 DEF CallInv, Conserved
  <2>2. ParentEnds(c)' /\ ChildEnds(c)'
    BY <1>1, <1>2 DEF CallInv, ParentEnds, ChildEnds
  <2>3. ~eof[c]
    BY <1>1, <1>2 DEF CallInv, Progress
  <2>4. Progress(c)'
    BY <1>1, <1>2, <1>5, <2>3 DEF CallInv, Progress
  <2>5. QED
    BY <2>1, <2>2, <2>4 DEF CallInv
<1>7. \A d \in Call \ {c} : CallInv(d)'
  BY <1>2, <1>5, Elsewhere
<1>8. QED
  BY <1>4, <1>6, <1>7, OneCall

\* The end of the input is seen only when the parent has closed its write end,
\* which it keeps until everything is written.
LEMMA ChildEofKept ==
    ASSUME IInv, NEW c \in Call, ChildEof(c)
    PROVE  IInv'
<1>1. TypeOK /\ CallInv(c)
  BY DEF IInv
<1>2. /\ proc[c] = "running" /\ data[c][0] = 0 /\ ~Open(W(c, 0)) /\ eof' = [eof EXCEPT ![c] = TRUE]
      /\ UNCHANGED <<parent, child, data, pc, left, reader, chunks, proc, want, got, put>>
  BY DEF ChildEof, Runs, parentVars
<1>3. \A d \in Call \ {c} : eof'[d] = eof[d]
  BY <1>1, <1>2 DEF TypeOK
<1>4. TypeOK'
  BY <1>1, <1>2 DEF TypeOK
<1>5. pc[c] \in {"wait", "join", "done"}
  <2>1. W(c, 0) \notin parent
    BY <1>2 DEF Open
  <2>2. pc[c] # "write" /\ pc[c] # "idle" /\ pc[c] # "raised"
    BY <1>1, <1>2, <2>1 DEF CallInv, ParentEnds, Progress
  <2>3. QED
    BY <1>1, <2>2 DEF TypeOK
<1>6. got[c] = InLen[c]
  BY <1>1, <1>2, <1>5, CallTypes DEF CallInv, Conserved, Progress
<1>7. CallInv(c)'
  <2>1. Conserved(c)' /\ ParentEnds(c)' /\ ChildEnds(c)'
    BY <1>1, <1>2 DEF CallInv, Conserved, ParentEnds, ChildEnds
  <2>2. Progress(c)'
    BY <1>1, <1>2, <1>5, <1>6 DEF CallInv, Progress
  <2>3. QED
    BY <2>1, <2>2 DEF CallInv
<1>8. \A d \in Call \ {c} : CallInv(d)'
  BY <1>2, <1>3, Elsewhere
<1>9. QED
  BY <1>4, <1>7, <1>8, OneCall

LEMMA ChildWantsKept ==
    ASSUME IInv, NEW c \in Call, NEW i \in Stream, ChildWants(c, i)
    PROVE  IInv'
<1>1. /\ want' = [want EXCEPT ![c] = i]
      /\ UNCHANGED <<parent, child, data, pc, left, reader, chunks, proc, got, eof, put>>
  BY DEF ChildWants, parentVars
<1>2. TypeOK'
  BY <1>1 DEF IInv, TypeOK, Stream
<1>3. \A d \in Call : CallInv(d)'
  BY <1>1 DEF IInv, CallInv, Conserved, ParentEnds, ChildEnds, Progress
<1>4. QED
  BY <1>2, <1>3 DEF IInv

LEMMA ChildWritesKept ==
    ASSUME IInv, NEW c \in Call, NEW i \in Stream, ChildWrites(c, i)
    PROVE  IInv'
<1>1. TypeOK /\ CallInv(c)
  BY DEF IInv
<1>2. /\ proc[c] = "running" /\ Space(c, i) > 0
      /\ data' = [data EXCEPT ![c][i] = @ + 1] /\ put' = [put EXCEPT ![c][i] = @ + 1]
      /\ want' = [want EXCEPT ![c] = 0]
      /\ UNCHANGED <<parent, child, pc, left, reader, chunks, proc, got, eof>>
  BY DEF ChildWrites, parentVars
<1>3. /\ i \in 0..2 /\ i # 0 /\ data[c][i] \in 0..Capacity /\ data[c][i] + 1 \in 0..Capacity
      /\ chunks[c][i] \in Nat /\ put[c][i] \in Nat /\ put[c][i] + 1 \in Nat
  BY <1>1, <1>2, CallTypes DEF Stream, Space
<1>4. TypeOK'
  BY <1>1, <1>2, <1>3 DEF TypeOK
<1>5. /\ data'[c][i] = data[c][i] + 1 /\ put'[c][i] = put[c][i] + 1
      /\ \A j \in 0..2 : j # i => data'[c][j] = data[c][j]
      /\ \A j \in Stream : j # i => put'[c][j] = put[c][j]
      /\ \A d \in Call \ {c} : data'[d] = data[d] /\ put'[d] = put[d]
  BY <1>1, <1>2, <1>3 DEF TypeOK
<1>6. CallInv(c)'
  <2>1. Conserved(c)'
    <3>1. \A j \in Stream : chunks[c][j] + data'[c][j] = put'[c][j]
      BY <1>1, <1>3, <1>5 DEF CallInv, Conserved, Stream
    <3>2. proc[c] # "ended" => left[c] + data'[c][0] + got[c] = InLen[c]
      BY <1>1, <1>3, <1>5 DEF CallInv, Conserved
    <3>3. QED
      BY <1>2, <3>1, <3>2 DEF Conserved
  <2>2. ParentEnds(c)' /\ ChildEnds(c)'
    BY <1>1, <1>2 DEF CallInv, ParentEnds, ChildEnds
  <2>3. Progress(c)'
    BY <1>1, <1>2, <1>3, <1>5 DEF CallInv, Progress, Stream
  <2>4. QED
    BY <2>1, <2>2, <2>3 DEF CallInv
<1>7. \A d \in Call \ {c} : CallInv(d)'
  BY <1>2, <1>5, Elsewhere
<1>8. QED
  BY <1>4, <1>6, <1>7, OneCall

-----------------------------------------------------------------------------
(* The theorems.                                                           *)

LEMMA InitHolds == Init => IInv
<1> SUFFICES ASSUME Init PROVE IInv
  OBVIOUS
<1>1. TypeOK
  BY ReadAssumption DEF Init, TypeOK, Stream
<1>2. ASSUME NEW c \in Call PROVE CallInv(c)
  BY ReadAssumption DEF Init, CallInv, Conserved, ParentEnds, ChildEnds, Progress, Stream
<1>3. QED
  BY <1>1, <1>2 DEF IInv

\* Every step of a call or a program keeps the invariant.
LEMMA NextKept == IInv /\ [Next]_vars => IInv'
<1> SUFFICES ASSUME IInv, [Next]_vars PROVE IInv'
  OBVIOUS
<1>1. ASSUME UNCHANGED vars PROVE IInv'
  BY <1>1 DEF vars, parentVars, childVars, IInv, TypeOK, CallInv, Conserved, ParentEnds, ChildEnds, Progress
<1>2. ASSUME NEW c \in Call, ParentStep(c) PROVE IInv'
  BY <1>2, WriteMoreKept, WriteFailsKept, WaitAndJoinKept, ReadKept, ReadEndKept DEF ParentStep
<1>3. ASSUME NEW c \in Call, ExecStep(c) \/ ChildStep(c) PROVE IInv'
  BY <1>3, ProcessKept, ChildReadsKept, ChildEofKept, ChildWritesKept DEF ExecStep, ChildStep
<1>4. CASE Finished
  BY <1>1, <1>4 DEF Finished
<1>5. QED
  BY <1>1, <1>2, <1>3, <1>4, SpawnKept, SpawnRaisesKept, DtorKept, ChildWantsKept DEF Next

\* Every reachable state satisfies the invariant, whatever order the processes,
\* the readers and the writer take their steps in.
THEOREM ReadInvariance == Spec => []IInv
BY InitHolds, NextKept, PTL DEF Spec

\* What the invariant says of a call that has returned.
LEMMA Complete == IInv => OutputComplete /\ InputComplete /\ NoDescriptorLeft
<1> SUFFICES ASSUME IInv PROVE OutputComplete /\ InputComplete /\ NoDescriptorLeft
  OBVIOUS
<1>1. TypeOK /\ \A c \in Call : CallInv(c)
  BY DEF IInv
<1>2. InputComplete
  BY <1>1 DEF InputComplete, CallInv, Progress
<1>3. OutputComplete
  <2> SUFFICES ASSUME NEW c \in Call, pc[c] = "done" PROVE chunks[c] = put[c]
    BY DEF OutputComplete
  <2>1. \A i \in Stream : data[c][i] = 0
    BY <1>1 DEF CallInv, Progress
  <2>2. \A i \in Stream : chunks[c][i] = put[c][i]
    BY <1>1, <2>1, CallTypes DEF CallInv, Conserved
  <2>3. chunks[c] \in [Stream -> Nat] /\ put[c] \in [Stream -> Nat]
    BY <1>1 DEF TypeOK
  <2>4. QED
    BY <2>2, <2>3
<1>4. NoDescriptorLeft
  <2> SUFFICES ASSUME NEW c \in Call, pc[c] = "done"
               PROVE  /\ parent \cap Ends(c) = {}
                      /\ \A d \in Call : proc[d] = "running" => child[d] \cap Ends(c) = {}
    BY DEF NoDescriptorLeft
  <2>1. \A i \in Stream : reader[c][i] = "done"
    BY <1>1 DEF CallInv, Progress
  <2>2. parent \cap Ends(c) = {}
    BY <1>1, <2>1 DEF CallInv, ParentEnds
  <2>3. ASSUME NEW d \in Call, proc[d] = "running" PROVE child[d] \cap Ends(c) = {}
    <3>1. d # c
      BY <1>1, <2>1, <2>3 DEF CallInv, Progress, Stream
    <3>2. child[d] \subseteq Ends(d)
      BY <1>1, <2>3, KeptFacts DEF CallInv, ChildEnds
    <3>3. QED
      BY <3>1, <3>2, KeptFacts
  <2>4. QED
    BY <2>2, <2>3
<1>5. QED
  BY <1>2, <1>3, <1>4

\* Type correctness of readProcess; the pipes never hold more than they can.
THEOREM ReadTypeCorrect == Spec => []TypeOK
<1>1. IInv => TypeOK
  BY DEF IInv
<1>2. QED
  BY <1>1, ReadInvariance, PTL

\* readProcess gives its program all of the input, returns all of the output and
\* leaves no descriptor open, in the parent or in a program that runs, for any
\* calls, data and pipe sizes.
THEOREM ReadComplete == Spec => []CallComplete
<1>1. IInv => CallComplete
  BY Complete DEF CallComplete
<1>2. QED
  BY <1>1, ReadInvariance, PTL

=============================================================================
