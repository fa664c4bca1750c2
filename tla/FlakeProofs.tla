---------------------------- MODULE FlakeProofs -----------------------------
(***************************************************************************)
(* Runs of flake, for every build description without cycles: a run that   *)
(* ends well is complete, whatever order the tasks run and fail in; no two *)
(* tasks write to one build directory; where nothing fails and edits come  *)
(* between runs, what is marked valid is what a build from nothing would   *)
(* make, and a rerun without edits computes only what is untracked; and    *)
(* the tasks of a build that lets no error out of a nested context each    *)
(* work in a directory of their own.                                       *)
(*                                                                         *)
(* The arguments: a call of lower keeps track of every builder it was      *)
(* asked for (FrameInv), and a builder gets a task or a value only after   *)
(* its arguments have theirs (TaskInv).  Entries of the cache have names   *)
(* of their own, and a task has an entry that no other task has            *)
(* (ExclusiveInv).  A finished entry names a directory that holds what its *)
(* digests are of; a task has, with the digests it took, those of all that *)
(* its builder function reads, as these files are now; so a value names    *)
(* what the contents of the inputs make (BuiltInv), and what the contents  *)
(* make is fresh if the contents are, argument by argument (ValuesAreFresh *)
(* goes by the height of a builder).  After a successful run the cache has *)
(* its values, and each builder that is sparked again has the key that it  *)
(* had (RememberInv).  A coroutine's frames nest, and it goes on in the    *)
(* directory of the innermost (DirInv).                                    *)
(***************************************************************************)
EXTENDS Flake, WorkDir, SequenceLemmas

-----------------------------------------------------------------------------
(* The inductive invariant.                                                *)

Frames == [of : Builder \cup {Nil}, todo : Seq(Builder), tasks : Seq(Builder), more : Seq(Builder)]

EvalTypes ==
    /\ valid \in [Builder -> BOOLEAN] /\ thunk \in [Builder -> BOOLEAN]
    /\ task \in [Builder -> {"none", "new", "running", "built", "ok", "err"}]
    /\ stack \in Seq(Frames)
    /\ mode \in {"down", "run", "join", "ok", "err"}

Height == CHOOSE height \in [Builder -> 0..Cardinality(Builder)] :
    \A b \in Builder : \A d \in ToSet(Deps[b]) :
        height[d] < height[b] /\ height[Final(d)] < height[b]

\* What a call of lower is asked for, and what it may come to lower.
Args(b) == IF b = Nil THEN ToSet(Targets) ELSE ToSet(Deps[b])
Within(b) == Args(b) \cup {Final(x) : x \in Args(b)}

\* A builder that is lowered for good.
Settled(x) == valid[x] /\ valid[Final(x)]

\* A call of lower has, for each builder it was asked for, the builder or the
\* one that it returned still before it, or a value of both (v is o.valid).
Pending(f) == ToSet(f.todo) \cup ToSet(f.tasks)
FrameInv(f, v) ==
    /\ Pending(f) \cup ToSet(f.more) \subseteq Within(f.of)
    /\ \A x \in Args(f.of) :
          \/ x \in Pending(f)
          \/ v[x] /\ (v[Final(x)] \/ Final(x) \in Pending(f) \cup ToSet(f.more))

\* Each call was made by the one below it, for a builder that has no task yet,
\* and none twice.
StackInv ==
    /\ stack # <<>>
    /\ \A i \in 1..Len(stack) : FrameInv(stack[i], valid) /\ (stack[i].of = Nil <=> i = Len(stack))
    /\ \A i \in 1..(Len(stack) - 1) :
          /\ stack[i + 1].todo # <<>> /\ Head(stack[i + 1].todo) = stack[i].of
          /\ task[stack[i].of] = "none" /\ ~valid[stack[i].of]
    /\ \A i, j \in 1..(Len(stack) - 1) : i < j => Height[stack[i].of] < Height[stack[j].of]

\* A builder has a task or a value only when its arguments are lowered.
TaskInv ==
    \A b \in Builder :
        /\ valid[b] => task[b] \in {"none", "ok"}
        /\ task[b] = "ok" => valid[b]
        /\ task[b] # "none" => thunk[b] \/ valid[b]
        /\ valid[b] \/ task[b] # "none" => \A d \in ToSet(Deps[b]) : Settled(d)

RunInv ==
    /\ mode \in {"run", "join"} => TaskInv /\ StackInv
    /\ mode = "ok" => TaskInv /\ \A x \in ToSet(Targets) : Settled(x)

CompleteInv == EvalTypes /\ RunInv

-----------------------------------------------------------------------------
(* The description.                                                        *)

\* Types of the constants, builder by builder.
LEMMA Description ==
    /\ Targets \in Seq(Builder) /\ Nil \notin Builder
    /\ \A b \in Builder : /\ Deps[b] \in Seq(Builder) /\ ToSet(Deps[b]) \subseteq Builder
                          /\ Final(b) \in IO /\ IO \subseteq Builder
                          /\ (b \in Pure => Returns[b] \in IO /\ Final(b) = Returns[b])
                          /\ (b \in IO => Final(b) = b)
    /\ \A b \in Builder \cup {Nil} : Args(b) \subseteq Builder /\ Within(b) \subseteq Builder
<1>1. /\ Targets \in Seq(Builder) /\ Nil \notin Builder /\ Deps \in [Builder -> Seq(Builder)]
      /\ Returns \in [Pure -> IO] /\ IO \subseteq Builder
  BY FlakeAssumption DEF IO
<1>2. ASSUME NEW b \in Builder
      PROVE  /\ Deps[b] \in Seq(Builder) /\ ToSet(Deps[b]) \subseteq Builder
             /\ Final(b) \in IO
             /\ (b \in Pure => Returns[b] \in IO /\ Final(b) = Returns[b])
             /\ (b \in IO => Final(b) = b)
  <2>1. Deps[b] \in Seq(Builder)
    BY <1>1
  <2>2. QED
    BY <1>1, <2>1, ElementsOf DEF Final, IO
<1>3. ToSet(Targets) \subseteq Builder
  BY <1>1, ElementsOf
<1>4. QED
  BY <1>1, <1>2, <1>3 DEF Args, Within

\* Heights are numbers.
LEMMA HeightInt ==
    ASSUME NoCycles
    PROVE  \A x \in Builder : Height[x] \in Int
<1>1. Height \in [Builder -> 0..Cardinality(Builder)]
  BY DEF NoCycles, Height
<1>2. QED
  BY <1>1

\* Arguments, and the builders they return, are below the builder.
LEMMA HeightFacts ==
    ASSUME NoCycles, NEW b \in Builder, NEW d \in Within(b)
    PROVE  Height[d] < Height[b] /\ \A x \in Builder : Height[x] \in Int
<1>1. /\ Height \in [Builder -> 0..Cardinality(Builder)]
      /\ \A x \in Builder : \A y \in ToSet(Deps[x]) : Height[y] < Height[x] /\ Height[Final(y)] < Height[x]
  BY DEF NoCycles, Height
<1>2. b # Nil /\ d \in Builder
  BY Description
<1>3. Height[d] < Height[b]
  BY <1>1, <1>2 DEF Within, Args
<1>4. QED
  BY <1>1, <1>2, <1>3

-----------------------------------------------------------------------------
(* Calls of lower.                                                         *)

\* More builders with a value disturb no call.
LEMMA FrameGrows ==
    ASSUME NEW f \in Frames, NEW v, NEW w, FrameInv(f, v), \A x \in Builder : v[x] => w[x]
    PROVE  FrameInv(f, w)
<1>1. \A x \in Args(f.of) : x \in Builder /\ Final(x) \in Builder
  BY Description DEF Frames
<1>2. QED
  BY <1>1 DEF FrameInv

\* A builder that has a value needs no more attention, except for the builder
\* that it returned.
LEMMA FrameDrops ==
    ASSUME NEW f \in Frames, NEW g \in Frames, NEW v, FrameInv(f, v), g.of = f.of,
           NEW x \in Builder, v[x],
           Pending(g) \subseteq Pending(f), Pending(f) \subseteq Pending(g) \cup {x},
           ToSet(f.more) \subseteq ToSet(g.more), ToSet(g.more) \subseteq Within(f.of),
           x \in Pure => Final(x) \in ToSet(g.more)
    PROVE  FrameInv(g, v)
<1>1. Pending(g) \cup ToSet(g.more) \subseteq Within(g.of)
  BY DEF FrameInv
<1>2. ASSUME NEW y \in Args(g.of)
      PROVE  \/ y \in Pending(g)
             \/ v[y] /\ (v[Final(y)] \/ Final(y) \in Pending(g) \cup ToSet(g.more))
  <2>1. y \in Builder /\ (x \in Pure \/ Final(x) = x)
    BY Description DEF Frames, IO
  <2>2. CASE y = x
    BY <2>1, <2>2
  <2>3. CASE y # x /\ y \in Pending(f)
    BY <2>3
  <2>4. CASE y \notin Pending(f)
    <3>1. v[y] /\ (v[Final(y)] \/ Final(y) \in Pending(f) \cup ToSet(f.more))
      BY <2>4 DEF FrameInv
    <3>2. QED
      BY <3>1
  <2>5. QED
    BY <2>2, <2>3, <2>4
<1>3. QED
  BY <1>1, <1>2 DEF FrameInv

\* The builder that was next gets to the tasks.
LEMMA TodoToTasks ==
    ASSUME NEW f \in Frames, NEW v, FrameInv(f, v), f.todo # <<>>, NEW x, x = Head(f.todo)
    PROVE  LET g == [f EXCEPT !.todo = Tail(@), !.tasks = Append(@, x)]
           IN  g \in Frames /\ g.of = f.of /\ FrameInv(g, v)
<1> DEFINE g == [f EXCEPT !.todo = Tail(@), !.tasks = Append(@, x)]
<1>1. f.todo \in Seq(Builder) /\ f.tasks \in Seq(Builder)
  BY DEF Frames
<1>2. x \in Builder /\ Tail(f.todo) \in Seq(Builder) /\ ToSet(f.todo) = {x} \cup ToSet(Tail(f.todo))
  BY <1>1, HeadAndTail
<1>3. Append(f.tasks, x) \in Seq(Builder) /\ ToSet(Append(f.tasks, x)) = ToSet(f.tasks) \cup {x}
  BY <1>1, <1>2, AppendElements
<1>4. /\ g \in Frames /\ g.of = f.of /\ g.more = f.more
      /\ g.todo = Tail(f.todo) /\ g.tasks = Append(f.tasks, x)
  BY <1>2, <1>3 DEF Frames
<1> HIDE DEF g
<1>5. Pending(g) = Pending(f)
  BY <1>2, <1>3, <1>4 DEF Pending
<1>6. FrameInv(g, v)
  BY <1>4, <1>5 DEF FrameInv
<1>7. QED
  BY <1>4, <1>6 DEF g

\* A builder that a call may lower; what is added for the next round.
LEMMA AgainFacts ==
    ASSUME NEW b \in Builder \cup {Nil}, NEW x \in Within(b), NEW s \in Seq(Builder), ToSet(s) \subseteq Within(b)
    PROVE  /\ Again(x, s) \in Seq(Builder)
           /\ ToSet(s) \subseteq ToSet(Again(x, s)) /\ ToSet(Again(x, s)) \subseteq Within(b)
           /\ x \in Pure => Final(x) \in ToSet(Again(x, s))
<1>1. x \in Builder /\ Within(b) \subseteq Builder
  BY Description
<1>2. CASE x \in Pure
  <2>1. Returns[x] \in Builder /\ Final(x) = Returns[x] /\ Again(x, s) = Append(s, Returns[x])
    BY <1>1, <1>2, Description DEF Again
  <2>2. Append(s, Returns[x]) \in Seq(Builder) /\ ToSet(Append(s, Returns[x])) = ToSet(s) \cup {Returns[x]}
    BY <2>1, AppendElements
  <2>3. x \in Args(b)
    <3>1. \A y \in Args(b) : Final(y) \notin Pure
      BY Description DEF IO
    <3>2. QED
      BY <1>2, <3>1 DEF Within
  <2>4. Final(x) \in Within(b)
    BY <2>3 DEF Within
  <2>5. QED
    BY <2>1, <2>2, <2>4
<1>3. CASE x \notin Pure
  BY <1>3 DEF Again
<1>4. QED
  BY <1>2, <1>3

\* The builder that was next has a value.
LEMMA TodoDropped ==
    ASSUME NEW f \in Frames, NEW v, FrameInv(f, v), f.todo # <<>>, NEW x, x = Head(f.todo), v[x]
    PROVE  LET g == [f EXCEPT !.todo = Tail(@), !.more = Again(x, @)]
           IN  g \in Frames /\ g.of = f.of /\ FrameInv(g, v)
<1> DEFINE g == [f EXCEPT !.todo = Tail(@), !.more = Again(x, @)]
<1>1. f.todo \in Seq(Builder) /\ f.more \in Seq(Builder) /\ f.of \in Builder \cup {Nil}
  BY DEF Frames
<1>2. x \in Builder /\ Tail(f.todo) \in Seq(Builder) /\ ToSet(f.todo) = {x} \cup ToSet(Tail(f.todo))
  BY <1>1, HeadAndTail
<1>3. x \in Within(f.of) /\ ToSet(f.more) \subseteq Within(f.of)
  BY <1>2 DEF FrameInv, Pending
<1>4. /\ Again(x, f.more) \in Seq(Builder) /\ ToSet(f.more) \subseteq ToSet(Again(x, f.more))
      /\ ToSet(Again(x, f.more)) \subseteq Within(f.of) /\ (x \in Pure => Final(x) \in ToSet(Again(x, f.more)))
  BY <1>1, <1>3, AgainFacts
<1>5. /\ g \in Frames /\ g.of = f.of /\ g.more = Again(x, f.more)
      /\ g.todo = Tail(f.todo) /\ g.tasks = f.tasks
  BY <1>2, <1>4 DEF Frames
<1> HIDE DEF g
<1>6. Pending(g) \subseteq Pending(f) /\ Pending(f) \subseteq Pending(g) \cup {x}
  BY <1>2, <1>5 DEF Pending
<1>7. FrameInv(g, v)
  BY <1>2, <1>4, <1>5, <1>6, FrameDrops
<1>8. QED
  BY <1>5, <1>7 DEF g

\* The task that was joined first has returned a value.
LEMMA TaskDropped ==
    ASSUME NEW f \in Frames, NEW v, FrameInv(f, v), f.tasks # <<>>, NEW x, x = Head(f.tasks), v[x]
    PROVE  LET g == [f EXCEPT !.tasks = Tail(@), !.more = Again(x, @)]
           IN  g \in Frames /\ g.of = f.of /\ FrameInv(g, v)
<1> DEFINE g == [f EXCEPT !.tasks = Tail(@), !.more = Again(x, @)]
<1>1. f.tasks \in Seq(Builder) /\ f.more \in Seq(Builder) /\ f.of \in Builder \cup {Nil}
  BY DEF Frames
<1>2. x \in Builder /\ Tail(f.tasks) \in Seq(Builder) /\ ToSet(f.tasks) = {x} \cup ToSet(Tail(f.tasks))
  BY <1>1, HeadAndTail
<1>3. x \in Within(f.of) /\ ToSet(f.more) \subseteq Within(f.of)
  BY <1>2 DEF FrameInv, Pending
<1>4. /\ Again(x, f.more) \in Seq(Builder) /\ ToSet(f.more) \subseteq ToSet(Again(x, f.more))
      /\ ToSet(Again(x, f.more)) \subseteq Within(f.of) /\ (x \in Pure => Final(x) \in ToSet(Again(x, f.more)))
  BY <1>1, <1>3, AgainFacts
<1>5. /\ g \in Frames /\ g.of = f.of /\ g.more = Again(x, f.more)
      /\ g.tasks = Tail(f.tasks) /\ g.todo = f.todo
  BY <1>2, <1>4 DEF Frames
<1> HIDE DEF g
<1>6. Pending(g) \subseteq Pending(f) /\ Pending(f) \subseteq Pending(g) \cup {x}
  BY <1>2, <1>5 DEF Pending
<1>7. FrameInv(g, v)
  BY <1>2, <1>4, <1>5, <1>6, FrameDrops
<1>8. QED
  BY <1>5, <1>7 DEF g

\* The next round of a call.
LEMMA NextRound ==
    ASSUME NEW f \in Frames, NEW v, FrameInv(f, v), f.todo = <<>>, f.tasks = <<>>
    PROVE  LET g == [f EXCEPT !.todo = f.more, !.more = <<>>]
           IN  g \in Frames /\ g.of = f.of /\ FrameInv(g, v)
<1> DEFINE g == [f EXCEPT !.todo = f.more, !.more = <<>>]
<1>1. /\ g \in Frames /\ g.of = f.of /\ g.more = <<>> /\ g.todo = f.more /\ g.tasks = f.tasks
  BY DEF Frames
<1>2. ToSet(<<>>) = {}
  BY DEF ToSet
<1> HIDE DEF g
<1>3. Pending(g) = ToSet(f.more) /\ Pending(f) = {} /\ ToSet(g.more) = {}
  BY <1>1, <1>2 DEF Pending
<1>4. FrameInv(g, v)
  BY <1>1, <1>3 DEF FrameInv
<1>5. QED
  BY <1>1, <1>4 DEF g

\* A call of lower that begins.
LEMMA NewFrame ==
    ASSUME NEW b \in Builder \cup {Nil}, NEW s \in Seq(Builder), ToSet(s) = Args(b), NEW v
    PROVE  Frame(b, s) \in Frames /\ Frame(b, s).of = b /\ FrameInv(Frame(b, s), v)
<1> DEFINE f == Frame(b, s)
<1>1. /\ f \in Frames /\ f.of = b /\ f.todo = s /\ f.tasks = <<>> /\ f.more = <<>>
  BY DEF Frames, Frame
<1>2. ToSet(<<>>) = {}
  BY DEF ToSet
<1> HIDE DEF f
<1>3. Pending(f) = Args(b) /\ ToSet(f.more) = {}
  BY <1>1, <1>2 DEF Pending
<1>4. FrameInv(f, v)
  BY <1>1, <1>3 DEF FrameInv, Within
<1>5. QED
  BY <1>1, <1>4 DEF f

\* A call that has nothing left has everything it was asked for.
LEMMA FrameDone ==
    ASSUME NEW f \in Frames, FrameInv(f, valid), f.todo = <<>>, f.tasks = <<>>, f.more = <<>>
    PROVE  \A x \in Args(f.of) : Settled(x)
<1>1. ToSet(<<>>) = {}
  BY DEF ToSet
<1>2. QED
  BY <1>1 DEF FrameInv, Pending, Settled

-----------------------------------------------------------------------------
(* The stack of calls.                                                     *)

LEMMA TopFacts ==
    ASSUME EvalTypes, StackInv
    PROVE  /\ Len(stack) \in Nat \ {0} /\ Top = stack[1] /\ Top \in Frames /\ FrameInv(Top, valid)
           /\ Top.of \in Builder \cup {Nil} /\ (Top.of = Nil <=> Len(stack) = 1)
           /\ \A i \in 1..Len(stack) : stack[i] \in Frames
<1>1. stack \in Seq(Frames) /\ stack # <<>>
  BY DEF EvalTypes, StackInv
<1>2. Len(stack) \in Nat \ {0} /\ Top = stack[1] /\ Top \in Frames
  BY <1>1, HeadAndTail DEF Top
<1>3. \A i \in 1..Len(stack) : stack[i] \in Frames
  BY <1>1
<1>4. 1 \in 1..Len(stack) /\ (1 = Len(stack) <=> Len(stack) = 1)
  BY <1>2
<1>5. FrameInv(stack[1], valid) /\ (stack[1].of = Nil <=> Len(stack) = 1)
  BY <1>4 DEF StackInv
<1>6. Top.of \in Builder \cup {Nil}
  BY <1>2 DEF Frames
<1>7. QED
  BY <1>2, <1>3, <1>5, <1>6

\* The innermost call goes on.
LEMMA TopReplaced ==
    ASSUME EvalTypes, StackInv, NEW f \in Frames, f.of = Top.of, FrameInv(f, valid),
           stack' = <<f>> \o Tail(stack), UNCHANGED <<valid, task>>
    PROVE  StackInv' /\ stack' \in Seq(Frames)
<1>1. stack \in Seq(Frames) /\ stack # <<>> /\ Len(stack) \in Nat \ {0} /\ Top = stack[1]
  BY TopFacts DEF EvalTypes, StackInv
<1>2. /\ stack' \in Seq(Frames) /\ Len(stack') = Len(stack) /\ stack'[1] = f
      /\ \A i \in 2..Len(stack) : stack'[i] = stack[i]
  BY <1>1, ReplaceHead
<1>3. \A i \in 1..Len(stack) : stack'[i].of = stack[i].of
  BY <1>1, <1>2
<1>4. stack' # <<>>
  BY <1>1, <1>2
<1>5. ASSUME NEW i \in 1..Len(stack')
      PROVE  FrameInv(stack'[i], valid') /\ (stack'[i].of = Nil <=> i = Len(stack'))
  <2>1. i \in 1..Len(stack) /\ (i = 1 \/ i \in 2..Len(stack))
    BY <1>1, <1>2
  <2>2. FrameInv(stack[i], valid) /\ (stack[i].of = Nil <=> i = Len(stack))
    BY <2>1 DEF StackInv
  <2>3. QED
    BY <1>2, <1>3, <2>1, <2>2
<1>6. ASSUME NEW i \in 1..(Len(stack') - 1)
      PROVE  /\ stack'[i + 1].todo # <<>> /\ Head(stack'[i + 1].todo) = stack'[i].of
             /\ task'[stack'[i].of] = "none" /\ ~valid'[stack'[i].of]
  <2>1. i \in 1..(Len(stack) - 1) /\ i \in 1..Len(stack) /\ i + 1 \in 2..Len(stack)
    BY <1>1, <1>2
  <2>2. stack'[i + 1] = stack[i + 1] /\ stack'[i].of = stack[i].of
    BY <1>2, <1>3, <2>1
  <2>3. QED
    BY <2>1, <2>2 DEF StackInv
<1>7. ASSUME NEW i \in 1..(Len(stack') - 1), NEW j \in 1..(Len(stack') - 1), i < j
      PROVE  Height[stack'[i].of] < Height[stack'[j].of]
  <2>1. /\ i \in 1..(Len(stack) - 1) /\ j \in 1..(Len(stack) - 1)
        /\ i \in 1..Len(stack) /\ j \in 1..Len(stack)
    BY <1>1, <1>2
  <2>2. Height[stack[i].of] < Height[stack[j].of]
    BY <1>7, <2>1 DEF StackInv
  <2>3. QED
    BY <1>3, <2>1, <2>2
<1>8. QED
  BY <1>2, <1>4, <1>5, <1>6, <1>7 DEF StackInv

\* A call begins, for the builder that is next.
LEMMA Pushed ==
    ASSUME NoCycles, EvalTypes, StackInv, Top.todo # <<>>, NEW f \in Frames, f.of = First,
           task[First] = "none", ~valid[First], FrameInv(f, valid),
           stack' = <<f>> \o stack, UNCHANGED <<valid, task>>
    PROVE  StackInv' /\ stack' \in Seq(Frames)
<1>1. /\ stack \in Seq(Frames) /\ Len(stack) \in Nat \ {0} /\ Top = stack[1] /\ Top \in Frames
      /\ FrameInv(Top, valid)
  BY TopFacts DEF EvalTypes
<1>2. First \in Builder /\ First \in Within(Top.of) /\ First # Nil
  <2>1. First \in Builder /\ First \in ToSet(Top.todo)
    BY <1>1, HeadAndTail DEF First, Frames
  <2>2. QED
    BY <1>1, <2>1, Description DEF FrameInv, Pending
<1>3. /\ stack' \in Seq(Frames) /\ Len(stack') = Len(stack) + 1 /\ stack'[1] = f
      /\ \A i \in 1..Len(stack) : stack'[i + 1] = stack[i]
  BY <1>1, PushProperties
<1>4. stack' # <<>>
  BY <1>1, <1>3
<1>5. ASSUME NEW k \in 1..Len(stack')
      PROVE  k = 1 \/ (k - 1 \in 1..Len(stack) /\ stack'[k] = stack[k - 1])
  <2>1. CASE k # 1
    <3>1. k - 1 \in 1..Len(stack) /\ (k - 1) + 1 = k
      BY <1>1, <1>3, <2>1
    <3>2. stack'[(k - 1) + 1] = stack[k - 1]
      BY <1>3, <3>1
    <3>3. QED
      BY <3>1, <3>2
  <2>2. QED
    BY <2>1
<1>6. ASSUME NEW k \in 1..Len(stack')
      PROVE  FrameInv(stack'[k], valid') /\ (stack'[k].of = Nil <=> k = Len(stack'))
  <2>1. CASE k = 1
    BY <1>1, <1>2, <1>3, <2>1
  <2>2. CASE k # 1
    BY <1>1, <1>3, <1>5, <2>2 DEF StackInv
  <2>3. QED
    BY <2>1, <2>2
<1>7. ASSUME NEW i \in 1..(Len(stack') - 1)
      PROVE  /\ stack'[i + 1].todo # <<>> /\ Head(stack'[i + 1].todo) = stack'[i].of
             /\ task'[stack'[i].of] = "none" /\ ~valid'[stack'[i].of]
  <2>1. i \in 1..Len(stack) /\ i \in 1..Len(stack') /\ stack'[i + 1] = stack[i]
    BY <1>1, <1>3
  <2>2. CASE i = 1
    BY <1>1, <1>3, <2>1, <2>2 DEF First
  <2>3. CASE i # 1
    <3>1. i - 1 \in 1..(Len(stack) - 1) /\ stack'[i] = stack[i - 1] /\ (i - 1) + 1 = i
      BY <1>1, <1>3, <1>5, <2>1, <2>3
    <3>2. /\ stack[(i - 1) + 1].todo # <<>> /\ Head(stack[(i - 1) + 1].todo) = stack[i - 1].of
          /\ task[stack[i - 1].of] = "none" /\ ~valid[stack[i - 1].of]
      BY <3>1 DEF StackInv
    <3>3. QED
      BY <2>1, <3>1, <3>2
  <2>4. QED
    BY <2>2, <2>3
<1>8. ASSUME NEW i \in 1..(Len(stack') - 1), NEW j \in 1..(Len(stack') - 1), i < j
      PROVE  Height[stack'[i].of] < Height[stack'[j].of]
  <2>1. j # 1 /\ j - 1 \in 1..(Len(stack) - 1) /\ stack'[j] = stack[j - 1] /\ j - 1 \in 1..Len(stack)
    BY <1>1, <1>3, <1>5, <1>8
  <2>2. CASE i # 1
    <3>1. i - 1 \in 1..(Len(stack) - 1) /\ stack'[i] = stack[i - 1] /\ i - 1 < j - 1
      BY <1>1, <1>3, <1>5, <1>8, <2>2
    <3>2. QED
      BY <2>1, <3>1 DEF StackInv
  <2>3. CASE i = 1
    <3>1. Top.of # Nil /\ Top.of \in Builder
      <4>1. Len(stack) # 1
        BY <1>1, <2>1
      <4>2. QED
        BY <4>1, TopFacts
    <3>2. Height[First] < Height[Top.of] /\ \A x \in Builder : Height[x] \in Int
      BY <1>2, <3>1, HeightFacts
    <3>3. stack[j - 1].of \in Builder
      <4>1. stack[j - 1] \in Frames /\ stack[j - 1].of # Nil
        BY <1>1, <2>1 DEF StackInv
      <4>2. QED
        BY <4>1 DEF Frames
    <3>4. j - 1 = 1 \/ Height[Top.of] < Height[stack[j - 1].of]
      <4>1. CASE j - 1 # 1
        <5>1. 1 \in 1..(Len(stack) - 1) /\ 1 < j - 1
          BY <2>1, <4>1
        <5>2. QED
          BY <1>1, <2>1, <5>1 DEF StackInv
      <4>2. QED
        BY <4>1
    <3>5. Height[First] < Height[stack[j - 1].of]
      BY <1>1, <1>2, <3>1, <3>2, <3>3, <3>4
    <3>6. QED
      BY <1>3, <2>1, <2>3, <3>5
  <2>4. QED
    BY <2>2, <2>3
<1>9. QED
  BY <1>3, <1>4, <1>6, <1>7, <1>8 DEF StackInv

\* A call ends: the builder it was made for, and no other, gets a task or a value.
LEMMA Popped ==
    ASSUME NoCycles, EvalTypes, StackInv, Top.of # Nil, NEW h \in Frames, h.of = stack[2].of,
           FrameInv(h, valid'), stack' = <<h>> \o Tail(Tail(stack)),
           \A x \in Builder : valid[x] => valid'[x],
           \A x \in Builder \ {Top.of} : task'[x] = task[x] /\ valid'[x] = valid[x]
    PROVE  StackInv' /\ stack' \in Seq(Frames)
<1>1. /\ stack \in Seq(Frames) /\ stack # <<>> /\ Len(stack) \in Nat /\ Len(stack) >= 2 /\ Top = stack[1]
      /\ \A i \in 1..Len(stack) : stack[i] \in Frames
  BY TopFacts DEF EvalTypes, StackInv
<1>2. /\ stack' \in Seq(Frames) /\ Len(stack') = Len(stack) - 1 /\ stack'[1] = h
      /\ \A i \in 2..(Len(stack) - 1) : stack'[i] = stack[i + 1]
  BY <1>1, ReplaceTwo
<1>3. \A i \in 1..(Len(stack) - 1) : stack'[i].of = stack[i + 1].of
  BY <1>1, <1>2
<1>4. stack' # <<>>
  BY <1>1, <1>2
<1>5. ASSUME NEW i \in 1..Len(stack')
      PROVE  FrameInv(stack'[i], valid') /\ (stack'[i].of = Nil <=> i = Len(stack'))
  <2>1. i + 1 \in 1..Len(stack) /\ stack'[i].of = stack[i + 1].of /\ (i = Len(stack') <=> i + 1 = Len(stack))
    <3>1. Len(stack') = Len(stack) - 1
      BY <1>2
    <3>2. i \in 1..(Len(stack) - 1)
      BY <3>1
    <3>3. i + 1 \in 1..Len(stack) /\ (i = Len(stack) - 1 <=> i + 1 = Len(stack))
      BY <1>1, <3>2
    <3>4. QED
      BY <1>3, <3>1, <3>2, <3>3
  <2>2. CASE i = 1
    BY <1>2, <2>1, <2>2 DEF StackInv
  <2>3. CASE i # 1
    <3>1. stack'[i] = stack[i + 1] /\ stack[i + 1] \in Frames /\ FrameInv(stack[i + 1], valid)
      BY <1>1, <1>2, <2>1, <2>3 DEF StackInv
    <3>2. FrameInv(stack[i + 1], valid')
      BY <3>1, FrameGrows
    <3>3. QED
      BY <2>1, <3>1, <3>2 DEF StackInv
  <2>4. QED
    BY <2>2, <2>3
<1>6. ASSUME NEW i \in 1..(Len(stack') - 1)
      PROVE  /\ stack'[i + 1].todo # <<>> /\ Head(stack'[i + 1].todo) = stack'[i].of
             /\ task'[stack'[i].of] = "none" /\ ~valid'[stack'[i].of]
  <2>1. /\ i + 1 \in 1..(Len(stack) - 1) /\ i + 1 \in 2..(Len(stack) - 1) /\ i \in 1..(Len(stack) - 1)
        /\ 1 \in 1..(Len(stack) - 1) /\ 1 < i + 1 /\ i + 1 \in 1..Len(stack) /\ i + 1 # Len(stack)
    <3>1. PICK n \in Nat : n = Len(stack)
      BY <1>1
    <3>2. i \in 1..((n - 1) - 1) /\ n >= 2
      BY <1>1, <1>2, <3>1
    <3>3. i \in Int /\ 1 <= i /\ i <= n - 2
      BY <3>2
    <3>4. i + 1 \in 1..(n - 1) /\ i + 1 \in 2..(n - 1) /\ i \in 1..(n - 1) /\ 1 \in 1..(n - 1)
      BY <3>2, <3>3
    <3>5. 1 < i + 1 /\ i + 1 \in 1..n /\ i + 1 # n
      BY <3>2, <3>3
    <3>6. QED
      BY <3>1, <3>4, <3>5
  <2>2. stack'[i + 1] = stack[(i + 1) + 1] /\ stack'[i].of = stack[i + 1].of
    BY <1>2, <1>3, <2>1
  <2>3. /\ stack[(i + 1) + 1].todo # <<>> /\ Head(stack[(i + 1) + 1].todo) = stack[i + 1].of
        /\ task[stack[i + 1].of] = "none" /\ ~valid[stack[i + 1].of]
    BY <2>1 DEF StackInv
  <2>4. stack[i + 1].of \in Builder /\ stack[1].of \in Builder
    <3>1. stack[i + 1] \in Frames /\ stack[i + 1].of # Nil /\ stack[1] \in Frames /\ stack[1].of # Nil
      BY <1>1, <2>1 DEF StackInv
    <3>2. QED
      BY <3>1 DEF Frames
  <2>5. stack[i + 1].of # Top.of
    <3>1. Height[stack[1].of] < Height[stack[i + 1].of]
      BY <2>1 DEF StackInv
    <3>2. Height[stack[1].of] \in Int
      BY <2>4, HeightInt
    <3>3. QED
      BY <1>1, <3>1, <3>2
  <2>6. QED
    BY <2>2, <2>3, <2>4, <2>5
<1>7. \A i, j \in 1..(Len(stack') - 1) : i < j => Height[stack'[i].of] < Height[stack'[j].of]
  <2> SUFFICES ASSUME NEW i \in 1..(Len(stack') - 1), NEW j \in 1..(Len(stack') - 1), i < j
               PROVE  Height[stack'[i].of] < Height[stack'[j].of]
    OBVIOUS
  <2>1. /\ i + 1 \in 1..(Len(stack) - 1) /\ j + 1 \in 1..(Len(stack) - 1) /\ i + 1 < j + 1
        /\ i \in 1..(Len(stack) - 1) /\ j \in 1..(Len(stack) - 1)
    <3>1. i \in 1..((Len(stack) - 1) - 1) /\ j \in 1..((Len(stack) - 1) - 1)
      BY <1>2
    <3>2. QED
      BY <1>1, <3>1
  <2>2. QED
    BY <1>3, <2>1 DEF StackInv
<1>8. QED
  BY <1>2, <1>4, <1>5, <1>6, <1>7 DEF StackInv

\* Tasks run while the calls wait.
LEMMA StackWaits ==
    ASSUME EvalTypes, StackInv, stack' = stack, NEW b \in Builder, task[b] # "none",
           \A x \in Builder : valid[x] => valid'[x],
           \A x \in Builder \ {b} : task'[x] = task[x] /\ valid'[x] = valid[x]
    PROVE  StackInv'
<1>1. Len(stack) \in Nat /\ \A i \in 1..Len(stack) : stack[i] \in Frames
  BY TopFacts
<1>2. \A i \in 1..Len(stack) : FrameInv(stack[i], valid')
  BY <1>1, FrameGrows DEF StackInv
<1>3. ASSUME NEW i \in 1..(Len(stack) - 1)
      PROVE  task'[stack[i].of] = "none" /\ ~valid'[stack[i].of]
  <2>1. i \in 1..Len(stack) /\ i # Len(stack)
    BY <1>1
  <2>2. stack[i].of \in Builder /\ task[stack[i].of] = "none" /\ ~valid[stack[i].of]
    BY <1>1, <2>1 DEF StackInv, Frames
  <2>3. QED
    BY <2>2
<1>4. QED
  BY <1>2, <1>3 DEF StackInv

\* One builder's task goes on.
LEMMA OneTask ==
    ASSUME TaskInv, NEW b \in Builder,
           \A x \in Builder \ {b} : task'[x] = task[x] /\ valid'[x] = valid[x] /\ thunk'[x] = thunk[x],
           valid[b] => valid'[b],
           valid'[b] => task'[b] \in {"none", "ok"}, task'[b] = "ok" => valid'[b],
           task'[b] # "none" => thunk'[b] \/ valid'[b],
           \A d \in ToSet(Deps[b]) : Settled(d)
    PROVE  TaskInv' /\ \A x \in Builder : valid[x] => valid'[x]
<1>1. \A x \in Builder : valid[x] => valid'[x]
  OBVIOUS
<1>2. \A x \in Builder : \A d \in ToSet(Deps[x]) : d \in Builder /\ Final(d) \in Builder
  BY Description
<1>3. ASSUME NEW x \in Builder, valid'[x] \/ task'[x] # "none"
      PROVE  \A d \in ToSet(Deps[x]) : valid'[d] /\ valid'[Final(d)]
  <2>1. \A d \in ToSet(Deps[x]) : valid[d] /\ valid[Final(d)]
    <3>1. CASE x = b
      BY <3>1 DEF Settled
    <3>2. CASE x # b
      BY <1>3, <3>2 DEF TaskInv, Settled
    <3>3. QED
      BY <3>1, <3>2
  <2>2. QED
    BY <1>1, <1>2, <2>1
<1>4. \A x \in Builder :
        /\ valid'[x] => task'[x] \in {"none", "ok"}
        /\ task'[x] = "ok" => valid'[x]
        /\ task'[x] # "none" => thunk'[x] \/ valid'[x]
  BY DEF TaskInv
<1>5. TaskInv'
  BY <1>3, <1>4 DEF TaskInv, Settled
<1>6. QED
  BY <1>1, <1>5

-----------------------------------------------------------------------------
(* The steps of main.                                                      *)

LEMMA BeginKept ==
    ASSUME CompleteInv, Begin
    PROVE  CompleteInv'
<1>1. /\ valid' = [b \in Builder |-> FALSE] /\ thunk' = [b \in Builder |-> FALSE]
      /\ task' = [b \in Builder |-> "none"]
      /\ \/ mode' = "run" /\ stack' = <<Frame(Nil, Targets)>>
         \/ mode' = "err" /\ stack' = stack
  BY DEF Begin
<1>2. CASE mode' = "err" /\ stack' = stack
  BY <1>1, <1>2 DEF CompleteInv, EvalTypes, RunInv
<1>3. CASE mode' = "run" /\ stack' = <<Frame(Nil, Targets)>>
  <2>1. /\ Frame(Nil, Targets) \in Frames /\ Frame(Nil, Targets).of = Nil
        /\ FrameInv(Frame(Nil, Targets), valid')
    BY Description, NewFrame DEF Args
  <2>2. stack' \in Seq(Frames) /\ Len(stack') = 1 /\ stack' # <<>> /\ stack'[1] = Frame(Nil, Targets)
    BY <1>3, <2>1
  <2>3. EvalTypes'
    BY <1>1, <1>3, <2>2 DEF EvalTypes
  <2>4. StackInv'
    BY <2>1, <2>2 DEF StackInv
  <2>5. TaskInv'
    BY <1>1 DEF TaskInv
  <2>6. QED
    BY <1>3, <2>3, <2>4, <2>5 DEF CompleteInv, RunInv
<1>4. QED
  BY <1>1, <1>2, <1>3

\* The innermost call goes on and no builder changes.
LEMMA StartKept ==
    ASSUME CompleteInv, StartActive \/ StartValid \/ LowerMore
    PROVE  CompleteInv'
<1>1. /\ mode = "run" /\ UNCHANGED <<valid, thunk, task, mode>>
      /\ \/ Top.todo # <<>> /\ SetTop([Top EXCEPT !.todo = Tail(@), !.tasks = Append(@, First)])
         \/ /\ Top.todo # <<>> /\ valid[First]
            /\ SetTop([Top EXCEPT !.todo = Tail(@), !.more = Again(First, @)])
         \/ Top.todo = <<>> /\ Top.tasks = <<>> /\ SetTop([Top EXCEPT !.todo = Top.more, !.more = <<>>])
  BY DEF StartActive, StartValid, LowerMore, Running, evalVars
<1>2. EvalTypes /\ TaskInv /\ StackInv
  BY <1>1 DEF CompleteInv, RunInv
<1>3. Top \in Frames /\ FrameInv(Top, valid)
  BY <1>2, TopFacts
<1>4. PICK f \in Frames : f.of = Top.of /\ FrameInv(f, valid) /\ SetTop(f)
  <2>1. CASE Top.todo # <<>> /\ SetTop([Top EXCEPT !.todo = Tail(@), !.tasks = Append(@, First)])
    BY <1>3, <2>1, TodoToTasks DEF First
  <2>2. CASE /\ Top.todo # <<>> /\ valid[First]
             /\ SetTop([Top EXCEPT !.todo = Tail(@), !.more = Again(First, @)])
    BY <1>3, <2>2, TodoDropped DEF First
  <2>3. CASE Top.todo = <<>> /\ Top.tasks = <<>> /\ SetTop([Top EXCEPT !.todo = Top.more, !.more = <<>>])
    BY <1>3, <2>3, NextRound
  <2>4. QED
    BY <1>1, <2>1, <2>2, <2>3
<1>5. StackInv' /\ stack' \in Seq(Frames)
  BY <1>1, <1>2, <1>4, TopReplaced DEF SetTop
<1>6. EvalTypes' /\ TaskInv'
  BY <1>1, <1>2, <1>5 DEF EvalTypes, TaskInv, Settled
<1>7. QED
  BY <1>1, <1>5, <1>6 DEF CompleteInv, RunInv

LEMMA LowerArgsKept ==
    ASSUME NoCycles, CompleteInv, LowerArgs
    PROVE  CompleteInv'
<1>1. /\ mode = "run" /\ Top.todo # <<>> /\ ~thunk[First] /\ ~valid[First]
      /\ stack' = <<Frame(First, Deps[First])>> \o stack /\ UNCHANGED <<valid, thunk, task, mode>>
  BY DEF LowerArgs, Running, evalVars
<1>2. EvalTypes /\ TaskInv /\ StackInv
  BY <1>1 DEF CompleteInv, RunInv
<1>3. First \in Builder
  BY <1>1, <1>2, TopFacts, HeadAndTail DEF First, Frames
<1>4. task[First] = "none"
  BY <1>1, <1>2, <1>3 DEF TaskInv
<1>5. /\ Frame(First, Deps[First]) \in Frames /\ Frame(First, Deps[First]).of = First
      /\ FrameInv(Frame(First, Deps[First]), valid)
  BY <1>3, Description, NewFrame DEF Args
<1>6. StackInv' /\ stack' \in Seq(Frames)
  BY <1>1, <1>2, <1>4, <1>5, Pushed
<1>7. EvalTypes' /\ TaskInv'
  BY <1>1, <1>2, <1>6 DEF EvalTypes, TaskInv, Settled
<1>8. QED
  BY <1>1, <1>6, <1>7 DEF CompleteInv, RunInv

LEMMA JoinTaskKept ==
    ASSUME CompleteInv, JoinTask
    PROVE  CompleteInv'
<1> DEFINE b == Head(Top.tasks)
<1>1. /\ mode = "run" /\ Top.tasks # <<>> /\ UNCHANGED <<valid, task>>
      /\ \/ /\ task[b] = "ok" /\ thunk' = [thunk EXCEPT ![b] = FALSE] /\ mode' = mode
            /\ SetTop([Top EXCEPT !.tasks = Tail(@), !.more = Again(b, @)])
         \/ mode' \in {"err", "join"} /\ UNCHANGED <<thunk, stack>>
  BY DEF JoinTask, Running
<1>2. EvalTypes /\ TaskInv /\ StackInv
  BY <1>1 DEF CompleteInv, RunInv
<1>3. CASE mode' \in {"err", "join"} /\ UNCHANGED <<thunk, stack>>
  <2>1. EvalTypes' /\ TaskInv' /\ StackInv'
    BY <1>1, <1>2, <1>3 DEF EvalTypes, TaskInv, StackInv, Settled
  <2>2. QED
    BY <1>3, <2>1 DEF CompleteInv, RunInv
<1>4. CASE /\ task[b] = "ok" /\ thunk' = [thunk EXCEPT ![b] = FALSE] /\ mode' = mode
           /\ SetTop([Top EXCEPT !.tasks = Tail(@), !.more = Again(b, @)])
  <2>1. Top \in Frames /\ FrameInv(Top, valid)
    BY <1>2, TopFacts
  <2>2. b \in Builder
    BY <1>1, <2>1, HeadAndTail DEF Frames
  <2>3. valid[b]
    BY <1>2, <1>4, <2>2 DEF TaskInv
  <2>4. PICK f \in Frames : f.of = Top.of /\ FrameInv(f, valid) /\ SetTop(f)
    BY <1>1, <1>4, <2>1, <2>3, TaskDropped
  <2>5. StackInv' /\ stack' \in Seq(Frames)
    BY <1>1, <1>2, <2>4, TopReplaced DEF SetTop
  <2>6. EvalTypes'
    BY <1>1, <1>2, <1>4, <2>5 DEF EvalTypes
  <2>7. TaskInv'
    BY <1>1, <1>2, <1>4, <2>2, <2>3 DEF TaskInv, Settled, EvalTypes
  <2>8. QED
    BY <1>1, <1>4, <2>5, <2>6, <2>7 DEF CompleteInv, RunInv
<1>5. QED
  BY <1>1, <1>3, <1>4

\* A builder gets its task, when its arguments are lowered.
LEMMA Spawned ==
    ASSUME NoCycles, CompleteInv, Lowered, Top.of # Nil,
           UNCHANGED <<valid, mode>>,
           task' = [task EXCEPT ![Top.of] = "new"], thunk' = [thunk EXCEPT ![Top.of] = TRUE],
           stack' = <<[stack[2] EXCEPT !.todo = Tail(@), !.tasks = Append(@, Top.of)]>> \o Tail(Tail(stack))
    PROVE  CompleteInv'
<1>1. mode = "run" /\ Top.todo = <<>> /\ Top.tasks = <<>> /\ Top.more = <<>>
  BY DEF Lowered, Running
<1>2. EvalTypes /\ TaskInv /\ StackInv
  BY <1>1 DEF CompleteInv, RunInv
<1>3. /\ Top = stack[1] /\ Top \in Frames /\ FrameInv(Top, valid) /\ Top.of \in Builder
      /\ Len(stack) \in Nat \ {0} /\ Len(stack) # 1 /\ \A i \in 1..Len(stack) : stack[i] \in Frames
  BY <1>2, TopFacts
<1>4. \A d \in ToSet(Deps[Top.of]) : Settled(d)
  BY <1>1, <1>3, FrameDone DEF Args
<1>5. 1 \in 1..(Len(stack) - 1) /\ 1 + 1 = 2 /\ 2 \in 1..Len(stack)
  BY <1>3
<1>6. /\ stack[2] \in Frames /\ FrameInv(stack[2], valid) /\ stack[2].todo # <<>>
      /\ Head(stack[2].todo) = Top.of /\ task[Top.of] = "none" /\ ~valid[Top.of]
  BY <1>2, <1>3, <1>5 DEF StackInv
<1>7. /\ \A x \in Builder \ {Top.of} : task'[x] = task[x] /\ thunk'[x] = thunk[x]
      /\ task'[Top.of] = "new" /\ thunk'[Top.of]
  BY <1>2, <1>3 DEF EvalTypes
<1>8. StackInv' /\ stack' \in Seq(Frames)
  <2>1. PICK h \in Frames : h.of = stack[2].of /\ FrameInv(h, valid) /\ stack' = <<h>> \o Tail(Tail(stack))
    BY <1>6, TodoToTasks
  <2>2. QED
    BY <1>2, <1>7, <2>1, Popped
<1>9. TaskInv'
  BY <1>2, <1>3, <1>4, <1>6, <1>7, OneTask
<1>10. EvalTypes'
  BY <1>2, <1>8 DEF EvalTypes
<1>11. QED
  BY <1>1, <1>8, <1>9, <1>10 DEF CompleteInv, RunInv

LEMMA SparkKept ==
    ASSUME NoCycles, CompleteInv, SparkPure \/ SparkFresh \/ SparkKnown
    PROVE  CompleteInv'
<1>1. /\ Lowered /\ Top.of \in Builder /\ valid' = valid
      /\ \/ mode' = "err" /\ UNCHANGED <<thunk, task, stack>>
         \/ /\ mode' = mode
            /\ task' = [task EXCEPT ![Top.of] = "new"] /\ thunk' = [thunk EXCEPT ![Top.of] = TRUE]
            /\ stack' = <<[stack[2] EXCEPT !.todo = Tail(@), !.tasks = Append(@, Top.of)]>> \o Tail(Tail(stack))
  <2>1. CASE SparkPure
    BY <2>1, FlakeAssumption DEF SparkPure, Spawn
  <2>2. CASE SparkFresh
    BY <2>2 DEF SparkFresh, Spawn, SparkIO, IO
  <2>3. CASE SparkKnown
    BY <2>3 DEF SparkKnown, Spawn, SparkIO, IO
  <2>4. QED
    BY <2>1, <2>2, <2>3
<1>2. CASE mode' = "err" /\ UNCHANGED <<thunk, task, stack>>
  BY <1>1, <1>2 DEF CompleteInv, EvalTypes, RunInv
<1>3. CASE mode' # "err"
  BY <1>1, <1>3, Spawned, Description
<1>4. QED
  BY <1>1, <1>2, <1>3 DEF Lowered, Running

LEMMA SparkHitKept ==
    ASSUME NoCycles, CompleteInv, SparkHit
    PROVE  CompleteInv'
<1>1. /\ mode = "run" /\ Top.todo = <<>> /\ Top.tasks = <<>> /\ Top.more = <<>> /\ Top.of \in IO
      /\ valid' = [valid EXCEPT ![Top.of] = TRUE] /\ UNCHANGED <<thunk, task, mode>>
      /\ stack' = <<[stack[2] EXCEPT !.todo = Tail(@)]>> \o Tail(Tail(stack))
  BY DEF SparkHit, SparkIO, Lowered, Running
<1>2. EvalTypes /\ TaskInv /\ StackInv
  BY <1>1 DEF CompleteInv, RunInv
<1>3. /\ Top = stack[1] /\ Top \in Frames /\ FrameInv(Top, valid) /\ Top.of \in Builder /\ Top.of # Nil
      /\ Len(stack) \in Nat \ {0} /\ Len(stack) # 1 /\ \A i \in 1..Len(stack) : stack[i] \in Frames
  BY <1>1, <1>2, TopFacts, Description DEF IO
<1>4. \A d \in ToSet(Deps[Top.of]) : Settled(d)
  BY <1>1, <1>3, FrameDone DEF Args
<1>5. 1 \in 1..(Len(stack) - 1) /\ 1 + 1 = 2 /\ 2 \in 1..Len(stack)
  <2>1. \A n \in Nat \ {0} : n # 1 => 1 \in 1..(n - 1) /\ 1 + 1 = 2 /\ 2 \in 1..n
    OBVIOUS
  <2>2. QED
    BY <1>3, <2>1, Zenon
<1>6. /\ stack[2] \in Frames /\ FrameInv(stack[2], valid) /\ stack[2].todo # <<>>
      /\ Head(stack[2].todo) = Top.of /\ task[Top.of] = "none" /\ ~valid[Top.of]
  BY <1>2, <1>3, <1>5 DEF StackInv
<1>7. /\ \A x \in Builder \ {Top.of} : valid'[x] = valid[x]
      /\ valid'[Top.of] /\ \A x \in Builder : valid[x] => valid'[x]
  BY <1>1, <1>2, <1>3 DEF EvalTypes
<1>8. StackInv' /\ stack' \in Seq(Frames)
  <2>1. FrameInv(stack[2], valid')
    BY <1>6, <1>7, FrameGrows
  <2>2. [stack[2] EXCEPT !.todo = Tail(@), !.more = Again(Top.of, @)] = [stack[2] EXCEPT !.todo = Tail(@)]
    BY <1>1, <1>6 DEF Again, IO, Frames
  <2>3. PICK h \in Frames : h.of = stack[2].of /\ FrameInv(h, valid') /\ stack' = <<h>> \o Tail(Tail(stack))
    BY <1>1, <1>6, <1>7, <2>1, <2>2, TodoDropped
  <2>4. QED
    BY <1>1, <1>2, <1>3, <1>7, <2>3, Popped
<1>9. TaskInv'
  BY <1>1, <1>2, <1>3, <1>4, <1>6, <1>7, OneTask
<1>10. EvalTypes'
  BY <1>1, <1>2, <1>8 DEF EvalTypes
<1>11. QED
  BY <1>1, <1>8, <1>9, <1>10 DEF CompleteInv, RunInv

\* The run ends well when the targets are lowered.
LEMMA DoneKept ==
    ASSUME CompleteInv, Done
    PROVE  CompleteInv'
<1>1. /\ mode = "run" /\ Top.todo = <<>> /\ Top.tasks = <<>> /\ Top.more = <<>> /\ Top.of = Nil
      /\ mode' = "ok" /\ UNCHANGED <<valid, thunk, task, stack>>
  BY DEF Done, Lowered, Running, evalVars
<1>2. EvalTypes /\ TaskInv /\ StackInv
  BY <1>1 DEF CompleteInv, RunInv
<1>3. \A x \in ToSet(Targets) : Settled(x)
  BY <1>1, <1>2, TopFacts, FrameDone DEF Args
<1>4. EvalTypes' /\ TaskInv' /\ \A x \in ToSet(Targets) : Settled(x)'
  BY <1>1, <1>2, <1>3 DEF EvalTypes, TaskInv, Settled
<1>5. QED
  BY <1>1, <1>4 DEF CompleteInv, RunInv

-----------------------------------------------------------------------------
(* The steps of the tasks.                                                 *)

LEMMA TaskStepKept ==
    ASSUME CompleteInv, NEW b \in Builder, TaskStep(b)
    PROVE  CompleteInv'
<1>1. /\ mode = "join" /\ task[b] \in {"new", "running", "built"} /\ UNCHANGED <<thunk, stack, mode>>
      /\ \/ valid' = valid /\ \E s \in {"running", "built", "err"} : task' = [task EXCEPT ![b] = s]
         \/ valid' = [valid EXCEPT ![b] = TRUE] /\ task' = [task EXCEPT ![b] = "ok"]
  BY DEF TaskStep, StartTask, Produce, TaskOk, TaskErr, PureTask, Runs, mainVars
<1>2. EvalTypes /\ TaskInv /\ StackInv
  BY <1>1 DEF CompleteInv, RunInv
<1>3. /\ \A x \in Builder \ {b} : task'[x] = task[x] /\ valid'[x] = valid[x] /\ thunk'[x] = thunk[x]
      /\ \/ valid'[b] = valid[b] /\ task'[b] \in {"running", "built", "err"}
         \/ valid'[b] /\ task'[b] = "ok"
  BY <1>1, <1>2 DEF EvalTypes
<1>4. ~valid[b] /\ thunk[b] /\ \A d \in ToSet(Deps[b]) : Settled(d)
  BY <1>1, <1>2 DEF TaskInv
<1>5. TaskInv' /\ \A x \in Builder : valid[x] => valid'[x]
  BY <1>1, <1>2, <1>3, <1>4, OneTask
<1>6. StackInv'
  BY <1>1, <1>2, <1>3, <1>5, StackWaits
<1>7. EvalTypes'
  BY <1>1, <1>2 DEF EvalTypes
<1>8. QED
  BY <1>1, <1>5, <1>6, <1>7 DEF CompleteInv, RunInv

\* The end of a run, and what happens outside of it.
LEMMA OutsideKept ==
    ASSUME CompleteInv,
           Resume \/ Exit \/ Crash \/ (\E c \in Call : Edit(c)) \/ Finished \/ UNCHANGED vars
    PROVE  CompleteInv'
<1>1. /\ UNCHANGED <<valid, thunk, task>>
      /\ \/ mode' = "down" /\ stack' = <<>>
         \/ mode = "join" /\ mode' = "run" /\ stack' = stack
         \/ UNCHANGED <<mode, stack>>
  BY DEF Resume, Exit, Crash, Edit, Finished, vars, evalVars, mainVars
<1>2. CASE mode' = "down" /\ stack' = <<>>
  BY <1>1, <1>2 DEF CompleteInv, EvalTypes, RunInv
<1>3. CASE stack' = stack /\ (mode' = mode \/ (mode = "join" /\ mode' = "run"))
  <2>1. EvalTypes'
    BY <1>1, <1>3 DEF CompleteInv, EvalTypes
  <2>2. (TaskInv => TaskInv') /\ (StackInv => StackInv') /\ \A x \in ToSet(Targets) : Settled(x) => Settled(x)'
    BY <1>1, <1>3 DEF TaskInv, StackInv, Settled
  <2>3. QED
    BY <1>3, <2>1, <2>2 DEF CompleteInv, RunInv
<1>4. QED
  BY <1>1, <1>2, <1>3

-----------------------------------------------------------------------------
(* The theorems.                                                           *)

LEMMA CompleteInit == Init => CompleteInv
<1> SUFFICES ASSUME Init PROVE CompleteInv
  OBVIOUS
<1>1. EvalTypes
  BY DEF Init, EvalTypes
<1>2. QED
  BY <1>1 DEF Init, CompleteInv, RunInv

LEMMA CompleteKept == NoCycles /\ CompleteInv /\ [Next]_vars => CompleteInv'
<1> SUFFICES ASSUME NoCycles, CompleteInv, [Next]_vars PROVE CompleteInv'
  OBVIOUS
<1>1. CASE MainStep
  BY <1>1, BeginKept, StartKept, LowerArgsKept, JoinTaskKept, OutsideKept, SparkKept, SparkHitKept, DoneKept
     DEF MainStep
<1>2. CASE \E b \in Builder : TaskStep(b)
  BY <1>2, TaskStepKept
<1>3. CASE Exit \/ Crash \/ (\E c \in Call : Edit(c)) \/ Finished \/ UNCHANGED vars
  BY <1>3, OutsideKept
<1>4. QED
  BY <1>1, <1>2, <1>3 DEF Next

\* The targets, their arguments and what these return: all of it is lowered.
LEMMA LoweredIsNeeded == CompleteInv => SuccessIsComplete
<1> SUFFICES ASSUME CompleteInv, mode = "ok", NEW b \in Needed
             PROVE  valid[b] /\ task[b] \in {"none", "ok"}
  BY DEF SuccessIsComplete
<1>1. EvalTypes /\ TaskInv /\ \A x \in ToSet(Targets) : Settled(x)
  BY DEF CompleteInv, RunInv
<1> DEFINE S == {x \in Builder : Settled(x)}
<1>2. ToSet(Targets) \subseteq S
  BY <1>1, Description, ElementsOf
<1>3. ASSUME NEW c \in S PROVE Uses(c) \subseteq S
  <2>1. c \in Builder /\ valid[c] /\ valid[Final(c)]
    BY DEF Settled
  <2>2. ToSet(Deps[c]) \subseteq S
    BY <1>1, <2>1, Description DEF TaskInv
  <2>3. c \in Pure => Returns[c] \in S
    <3>1. ASSUME c \in Pure PROVE Returns[c] \in S
      <4>1. Returns[c] \in Builder /\ Final(c) = Returns[c] /\ Final(Returns[c]) = Returns[c]
        BY <2>1, <3>1, Description
      <4>2. QED
        BY <2>1, <4>1 DEF Settled
    <3>2. QED
      BY <3>1
  <2>4. QED
    BY <2>2, <2>3 DEF Uses
<1>4. b \in S
  BY <1>2, <1>3 DEF Needed
<1>5. b \in Builder /\ valid[b]
  BY <1>4 DEF Settled
<1>6. QED
  BY <1>1, <1>5 DEF TaskInv

\* Every reachable state of a build without cycles satisfies the invariant.
THEOREM CompleteInvariance ==
    ASSUME NoCycles
    PROVE  Spec => []CompleteInv
<1>1. CompleteInv /\ [Next]_vars => CompleteInv'
  BY CompleteKept
<1>2. QED
  BY <1>1, CompleteInit, PTL DEF Spec

\* A run that ends well has a value for every builder the targets need, and no
\* task that failed or was left behind, in every build without cycles.
THEOREM SuccessMeansAllBuilt ==
    ASSUME NoCycles
    PROVE  Spec => []SuccessIsComplete
<1>1. Spec => []CompleteInv
  BY CompleteInvariance
<1>2. QED
  BY <1>1, LoweredIsNeeded, PTL

-----------------------------------------------------------------------------
(* Build directories.                                                      *)

\* No two IO builders make the same call: their results have different keys.
DistinctCalls == \A b, c \in IO : CallOf[b] = CallOf[c] => b = c

\* The keys of results, and a cache entry by its shape.
Keys == Call \X Seq(Nat \cup {Nil})
Entry(e) == e \in [valid : {e.valid}, value : Nat \cup {Nil}, name : Nat, sources : {e.sources}]

\* A table of entries, no two of which have one build name.
Distinct(table, max) ==
    /\ max \in Nat
    /\ \A r \in DOMAIN table : Entry(table[r]) /\ table[r].name <= max
    /\ \A r, s \in DOMAIN table : r # s => table[r].name # table[s].name

ObjInv  == Distinct(obj, last)
DiskInv ==
    /\ disk \in [results : {disk.results}, last : {disk.last}, whole : BOOLEAN]
    /\ DOMAIN disk.results \subseteq Keys /\ Distinct(disk.results, disk.last)

\* In a run, a key refers to the entry loaded for it or to that of the one task
\* that computes it.
MemInv ==
    \A k \in DOMAIN mem :
        /\ k \in Keys /\ mem[k] \in DOMAIN obj
        /\ mem[k] = k \/ (mem[k] \in IO /\ task[mem[k]] # "none" /\ job[mem[k]].key = k)

\* A task has a key of its builder's call, and an entry that was loaded for this key
\* or is its own.
JobOf(b) ==
    /\ job[b].key \in Keys /\ job[b].key[1] = CallOf[b]
    /\ job[b].ref \in {b, job[b].key} /\ job[b].ref \in DOMAIN obj
JobInv ==
    /\ \A b \in IO : task[b] # "none" => JobOf(b)
    /\ \A b \in Pure : task[b] \notin {"running", "built"}

ExclusiveInv ==
    /\ DOMAIN job = Builder /\ value \in [Builder -> Nat \cup {Nil}]
    /\ ObjInv /\ DiskInv /\ JobInv
    /\ mode \in {"run", "join"} => MemInv

\* Changing fields of an entry other than its name.
LEMMA EntryFields ==
    ASSUME NEW e, Entry(e)
    PROVE  /\ e.name \in Nat /\ e.value \in Nat \cup {Nil}
           /\ \A v : Entry([e EXCEPT !.valid = v]) /\ [e EXCEPT !.valid = v].name = e.name
           /\ \A v : Entry([e EXCEPT !.sources = v]) /\ [e EXCEPT !.sources = v].name = e.name
BY DEF Entry

\* The entry of a result that has been made.
LEMMA DoneFields ==
    ASSUME NEW e, Entry(e), NEW w, NEW done, done = [e EXCEPT !.value = e.name, !.valid = TRUE, !.sources = w]
    PROVE  Entry(done) /\ done.name = e.name
BY DEF Entry

\* No builder is a key; the key of a builder begins with its call.
LEMMA KeyFacts ==
    ASSUME value \in [Builder -> Nat \cup {Nil}], NEW b \in IO
    PROVE  KeyOf(b) \in Keys /\ KeyOf(b)[1] = CallOf[b] /\ \A x \in Builder : x \notin Keys
<1>1. /\ b \in Builder /\ CallOf[b] \in Call /\ Deps[b] \in Seq(Builder)
      /\ \A x \in Builder : x \notin Keys
  BY FlakeAssumption DEF IO, Keys
<1>2. PICK n \in Nat : DOMAIN Deps[b] = 1..n
  BY <1>1
<1>3. \A i \in 1..n : Deps[b][i] \in Builder
  BY <1>1, <1>2
<1>4. \A i \in 1..n : Final(Deps[b][i]) \in Builder
  BY <1>3, Description
<1>5. PICK s : s = [i \in 1..n |-> value[Final(Deps[b][i])]]
  OBVIOUS
<1>6. s \in Seq(Nat \cup {Nil})
  BY <1>4, <1>5
<1>7. KeyOf(b) = <<CallOf[b], s>>
  BY <1>2, <1>5 DEF KeyOf
<1>8. QED
  BY <1>1, <1>6, <1>7 DEF Keys

\* Two builders with tasks work on different entries.
LEMMA EntriesDiffer ==
    ASSUME DistinctCalls, NEW b \in IO, NEW c \in IO, b # c, JobOf(b), JobOf(c)
    PROVE  job[b].ref # job[c].ref
<1>1. CallOf[b] # CallOf[c]
  BY DEF DistinctCalls
<1>2. job[b].key # job[c].key
  BY <1>1 DEF JobOf
<1>3. b \notin Keys /\ c \notin Keys
  BY FlakeAssumption DEF IO, Keys
<1>4. QED
  BY <1>2, <1>3 DEF JobOf

LEMMA ExclusiveFromInv == DistinctCalls /\ ExclusiveInv => OutputExclusive
<1> SUFFICES ASSUME DistinctCalls, ExclusiveInv, NEW b \in IO, NEW c \in IO, b # c,
                    task[b] \in {"running", "built"}, task[c] \in {"running", "built"}
             PROVE  obj[job[b].ref].name # obj[job[c].ref].name
  BY DEF OutputExclusive
<1>1. JobOf(b) /\ JobOf(c)
  BY DEF ExclusiveInv, JobInv
<1>2. job[b].ref # job[c].ref
  BY <1>1, EntriesDiffer
<1>3. job[b].ref \in DOMAIN obj /\ job[c].ref \in DOMAIN obj
  BY <1>1 DEF JobOf
<1>4. QED
  BY <1>2, <1>3 DEF ExclusiveInv, ObjInv, Distinct

-----------------------------------------------------------------------------
(* What the steps do to the tables.                                        *)

\* Nothing is forgotten while a run lasts, and tasks keep their jobs.
LEMMA StillReferred ==
    ASSUME DOMAIN obj \subseteq DOMAIN obj',
           \A b \in IO : task[b] # "none" => task'[b] # "none" /\ job'[b] = job[b]
    PROVE  /\ \A b \in IO : task[b] # "none" /\ JobOf(b) => JobOf(b)'
           /\ mem' = mem /\ MemInv => MemInv'
<1>1. \A b \in IO : task[b] # "none" /\ JobOf(b) => JobOf(b)'
  BY DEF JobOf
<1>2. mem' = mem /\ MemInv => MemInv'
  BY DEF MemInv
<1>3. QED
  BY <1>1, <1>2

\* A field other than the name changes in one entry.
LEMMA OneEntry ==
    ASSUME NEW table, NEW max, Distinct(table, max), NEW r, NEW e,
           r \in DOMAIN table => Entry(e) /\ e.name = table[r].name
    PROVE  /\ DOMAIN [table EXCEPT ![r] = e] = DOMAIN table
           /\ Distinct([table EXCEPT ![r] = e], max)
<1> DEFINE new == [table EXCEPT ![r] = e]
<1>1. DOMAIN new = DOMAIN table
  OBVIOUS
<1>2. \A s \in DOMAIN table : new[s] = IF s = r THEN e ELSE table[s]
  OBVIOUS
<1> HIDE DEF new
<1>3. \A s \in DOMAIN table : Entry(new[s]) /\ new[s].name = table[s].name
  BY <1>2 DEF Distinct
<1>4. Distinct(new, max)
  BY <1>1, <1>3 DEF Distinct
<1>5. QED
  BY <1>1, <1>4 DEF new

\* What save writes.
SavedAs(d, m, o) ==
    /\ d \in [results : {d.results}, last : {d.last}, whole : BOOLEAN]
    /\ d.results = [k \in DOMAIN m |-> o[m[k]]] /\ d.last = last

LEMMA SaveShape == \A m, o : SavedAs(Saved(m, o), m, o)
BY DEF Saved, SavedAs

LEMMA SavedDistinct ==
    ASSUME MemInv, NEW o, NEW max, Distinct(o, max), DOMAIN o = DOMAIN obj,
           NEW results, results = [k \in DOMAIN mem |-> o[mem[k]]]
    PROVE  DOMAIN results \subseteq Keys /\ Distinct(results, max)
<1>1. DOMAIN results = DOMAIN mem /\ \A k \in DOMAIN mem : results[k] = o[mem[k]] /\ mem[k] \in DOMAIN o
  BY DEF MemInv
<1>2. DOMAIN mem \subseteq Keys
  BY DEF MemInv
<1>3. \A b \in IO : b \notin Keys
  BY FlakeAssumption DEF IO, Keys
<1>4. ASSUME NEW k \in DOMAIN mem, NEW l \in DOMAIN mem, k # l
      PROVE  mem[k] # mem[l]
  <2>1. \/ mem[k] = k
        \/ mem[k] \in IO /\ job[mem[k]].key = k
    BY DEF MemInv
  <2>2. \/ mem[l] = l
        \/ mem[l] \in IO /\ job[mem[l]].key = l
    BY DEF MemInv
  <2>3. QED
    BY <1>2, <1>3, <1>4, <2>1, <2>2
<1>5. QED
  BY <1>1, <1>2, <1>4 DEF Distinct

LEMMA PutSame ==
    ASSUME NEW table, NEW max, Distinct(table, max), NEW r \in DOMAIN table,
           NEW e, Entry(e), e.name = table[r].name
    PROVE  Distinct(Put(table, r, e), max)
<1>1. \A s \in DOMAIN table : s # r => Put(table, r, e)[s] = table[s]
  BY DEF Put
<1>2. DOMAIN Put(table, r, e) = DOMAIN table /\ Put(table, r, e)[r] = e
  BY DEF Put
<1>3. \A s \in DOMAIN table : Entry(Put(table, r, e)[s]) /\ Put(table, r, e)[s].name = table[s].name
  BY <1>1, <1>2 DEF Distinct
<1>4. QED
  BY <1>2, <1>3 DEF Distinct

LEMMA PutNew ==
    ASSUME NEW table, NEW max, Distinct(table, max), NEW r, NEW e, Entry(e), e.name = max + 1
    PROVE  Distinct(Put(table, r, e), max + 1)
<1>1. \A s \in DOMAIN table : s # r => Put(table, r, e)[s] = table[s]
  BY DEF Put
<1>2. DOMAIN Put(table, r, e) = DOMAIN table \cup {r} /\ Put(table, r, e)[r] = e
  BY DEF Put
<1> DEFINE new == Put(table, r, e)
<1> HIDE DEF new
<1>3. max \in Nat /\ max + 1 \in Nat
  BY DEF Distinct
<1>4. \A s \in DOMAIN table : table[s].name \in Nat /\ table[s].name <= max
  BY EntryFields DEF Distinct
<1>5. \A s \in DOMAIN table : table[s].name <= max + 1 /\ table[s].name # max + 1
  BY <1>3, <1>4
<1>6. \A s \in DOMAIN new : Entry(new[s]) /\ new[s].name <= max + 1
  <2>1. max + 1 <= max + 1
    BY <1>3
  <2>2. ASSUME NEW s \in DOMAIN new PROVE Entry(new[s]) /\ new[s].name <= max + 1
    <3>1. CASE s = r
      BY <1>2, <2>1, <3>1 DEF new
    <3>2. CASE s # r
      BY <1>1, <1>2, <1>5, <3>2 DEF new, Distinct
    <3>3. QED
      BY <3>1, <3>2
  <2>3. QED
    BY <2>2
<1>7. ASSUME NEW s \in DOMAIN new, NEW u \in DOMAIN new, s # u PROVE new[s].name # new[u].name
  <2>1. CASE s # r /\ u # r
    <3>1. s \in DOMAIN table /\ u \in DOMAIN table /\ new[s] = table[s] /\ new[u] = table[u]
      BY <1>1, <1>2, <2>1 DEF new
    <3>2. QED
      BY <1>7, <3>1 DEF Distinct
  <2>2. CASE s = r
    <3>1. u \in DOMAIN table /\ new[u] = table[u] /\ new[s] = e
      BY <1>1, <1>2, <1>7, <2>2 DEF new
    <3>2. QED
      BY <1>5, <3>1
  <2>3. CASE u = r
    <3>1. s \in DOMAIN table /\ new[s] = table[s] /\ new[u] = e
      BY <1>1, <1>2, <1>7, <2>3 DEF new
    <3>2. QED
      BY <1>5, <3>1
  <2>4. QED
    BY <2>1, <2>2, <2>3
<1>8. QED
  BY <1>3, <1>6, <1>7 DEF Distinct, new

\* A new run begins with the saved cache, without tasks.
LEMMA BeginExclusive ==
    ASSUME ExclusiveInv, Begin
    PROVE  ExclusiveInv'
<1>1. /\ value' = [b \in Builder |-> Nil] /\ task' = [b \in Builder |-> "none"]
      /\ job' = [b \in Builder |-> Nil] /\ disk' = disk
      /\ \/ /\ mem' = [k \in DOMAIN disk.results |-> k] /\ obj' = disk.results /\ last' = disk.last
         \/ mode' = "err" /\ UNCHANGED <<mem, obj, last>>
  BY DEF Begin
<1>2. DOMAIN job' = Builder /\ value' \in [Builder -> Nat \cup {Nil}] /\ JobInv' /\ DiskInv'
  <2>1. JobInv'
    BY <1>1, FlakeAssumption DEF JobInv, IO
  <2>2. DiskInv'
    BY <1>1 DEF ExclusiveInv, DiskInv
  <2>3. QED
    BY <1>1, <2>1, <2>2
<1>3. CASE mode' = "err" /\ UNCHANGED <<mem, obj, last>>
  BY <1>2, <1>3 DEF ExclusiveInv, ObjInv, Distinct, Entry
<1>4. CASE mem' = [k \in DOMAIN disk.results |-> k] /\ obj' = disk.results /\ last' = disk.last
  <2>1. ObjInv'
    BY <1>4 DEF ObjInv, DiskInv, ExclusiveInv, Distinct, Entry
  <2>2. MemInv'
    BY <1>4 DEF MemInv, DiskInv, ExclusiveInv
  <2>3. QED
    BY <1>2, <2>1, <2>2 DEF ExclusiveInv
<1>5. QED
  BY <1>1, <1>3, <1>4

\* The steps that change no table and give no builder a task.
LEMMA OthersExclusive ==
    ASSUME ExclusiveInv, UNCHANGED <<mem, obj, last, task, job>>,
           DiskInv',
           value' \in [Builder -> Nat \cup {Nil}],
           mode' \in {"run", "join"} => mode \in {"run", "join"}
    PROVE  ExclusiveInv'
<1>1. ObjInv'
  BY DEF ExclusiveInv, ObjInv
<1>2. JobInv' /\ (MemInv => MemInv')
  BY StillReferred DEF ExclusiveInv, JobInv
<1>3. QED
  BY <1>1, <1>2 DEF ExclusiveInv

\* The builder that is sparked has no task yet.
LEMMA TopIdle ==
    ASSUME CompleteInv, Lowered, Top.of \in Builder
    PROVE  mode = "run" /\ task \in [Builder -> {"none", "new", "running", "built", "ok", "err"}] /\ task[Top.of] = "none"
<1>1. mode = "run"
  BY DEF Lowered, Running
<1>2. EvalTypes /\ StackInv
  BY <1>1 DEF CompleteInv, RunInv
<1>3. Top = stack[1] /\ Len(stack) \in Nat \ {0} /\ Len(stack) # 1
  BY <1>2, TopFacts, Description
<1>4. 1 \in 1..(Len(stack) - 1)
  BY <1>3
<1>5. QED
  BY <1>1, <1>2, <1>3, <1>4 DEF StackInv, EvalTypes

\* The entry that was found for the key of a builder without a task is a loaded one.
LEMMA LoadedEntry ==
    ASSUME DistinctCalls, ExclusiveInv, MemInv, NEW b \in IO, task[b] = "none",
           NEW k, k = KeyOf(b), k \in DOMAIN mem
    PROVE  mem[k] = k /\ k \in DOMAIN obj
<1>1. k[1] = CallOf[b]
  BY KeyFacts DEF ExclusiveInv
<1>2. ASSUME NEW x \in IO, task[x] # "none", job[x].key = k PROVE FALSE
  <2>1. job[x].key[1] = CallOf[x]
    BY <1>2 DEF ExclusiveInv, JobInv, JobOf
  <2>2. CallOf[x] = CallOf[b]
    BY <1>1, <1>2, <2>1
  <2>3. x = b
    BY <2>2 DEF DistinctCalls
  <2>4. QED
    BY <1>2, <2>3
<1>3. mem[k] = k
  BY <1>2 DEF MemInv
<1>4. QED
  BY <1>3 DEF MemInv

\* A builder gets its task.
LEMMA SpawnExclusive ==
    ASSUME ExclusiveInv, MemInv, NEW b \in Builder, task[b] = "none", NEW j,
           task \in [Builder -> {"none", "new", "running", "built", "ok", "err"}],
           task' = [task EXCEPT ![b] = "new"], job' = [job EXCEPT ![b] = j], mem' = mem,
           DOMAIN obj \subseteq DOMAIN obj',
           b \in IO => j.key \in Keys /\ j.key[1] = CallOf[b] /\ j.ref \in {b, j.key} /\ j.ref \in DOMAIN obj'
    PROVE  DOMAIN job' = Builder /\ JobInv' /\ MemInv'
<1>1. DOMAIN job = Builder
  BY DEF ExclusiveInv
<1>2. /\ DOMAIN job' = Builder /\ job'[b] = j /\ \A x \in Builder \ {b} : job'[x] = job[x] /\ task'[x] = task[x]
      /\ task'[b] = "new"
  BY <1>1
<1>3. \A x \in IO : task[x] # "none" => task'[x] # "none" /\ job'[x] = job[x]
  BY <1>2 DEF IO
<1>4. (\A x \in IO : task[x] # "none" /\ JobOf(x) => JobOf(x)') /\ MemInv'
  BY <1>3, StillReferred
<1>5. b \in IO => JobOf(b)'
  BY <1>2 DEF JobOf
<1>6. ASSUME NEW x \in IO, task'[x] # "none" PROVE JobOf(x)'
  <2>1. CASE x = b
    BY <1>5, <2>1
  <2>2. CASE x # b
    <3>1. task[x] # "none"
      BY <1>2, <1>6, <2>2 DEF IO
    <3>2. QED
      BY <1>4, <3>1 DEF ExclusiveInv, JobInv
  <2>3. QED
    BY <2>1, <2>2
<1>7. ASSUME NEW x \in Pure PROVE task'[x] \notin {"running", "built"}
  BY <1>2, FlakeAssumption DEF ExclusiveInv, JobInv
<1>8. QED
  BY <1>2, <1>4, <1>6, <1>7 DEF JobInv

LEMMA SparkPureExclusive ==
    ASSUME CompleteInv, ExclusiveInv, SparkPure
    PROVE  ExclusiveInv'
<1>1. /\ Lowered /\ Top.of \in Builder /\ Top.of \notin IO /\ UNCHANGED <<obj, last, disk, mem, value, mode>>
      /\ task' = [task EXCEPT ![Top.of] = "new"] /\ job' = [job EXCEPT ![Top.of] = Nil]
  BY FlakeAssumption DEF SparkPure, Spawn, cacheVars, IO
<1>2. PICK b \in Builder : b = Top.of
  BY <1>1
<1>3. /\ mode = "run" /\ task[b] = "none" /\ MemInv
      /\ task \in [Builder -> {"none", "new", "running", "built", "ok", "err"}]
  BY <1>1, <1>2, TopIdle DEF ExclusiveInv
<1>4. DOMAIN job' = Builder /\ JobInv' /\ MemInv'
  <2>1. b \notin IO /\ task' = [task EXCEPT ![b] = "new"] /\ job' = [job EXCEPT ![b] = Nil] /\ mem' = mem
    BY <1>1, <1>2
  <2>2. DOMAIN obj \subseteq DOMAIN obj'
    BY <1>1
  <2>3. QED
    BY <1>3, <2>1, <2>2, SpawnExclusive
<1>5. ObjInv' /\ DiskInv'
  BY <1>1 DEF ExclusiveInv, ObjInv, DiskInv
<1>6. QED
  BY <1>1, <1>4, <1>5 DEF ExclusiveInv

\* The entry that sparkIO works on: that of the key, or a new one with the next name.
LEMMA SparkFreshExclusive ==
    ASSUME DistinctCalls, CompleteInv, ExclusiveInv, SparkFresh
    PROVE  ExclusiveInv'
<1>1. PICK b \in IO : b = Top.of /\ b \in Builder
  BY DEF SparkFresh, SparkIO, IO
<1>2. /\ mode = "run" /\ task[b] = "none" /\ MemInv
      /\ task \in [Builder -> {"none", "new", "running", "built", "ok", "err"}]
  BY <1>1, TopIdle DEF ExclusiveInv, SparkFresh, SparkIO
<1>3. PICK k : k = Key /\ k = KeyOf(b)
  BY <1>1 DEF Key
<1>4. k \in Keys /\ k[1] = CallOf[b]
  BY <1>3, KeyFacts DEF ExclusiveInv
<1>5. PICK r : r = IF k \in DOMAIN mem THEN mem[k] ELSE b
  OBVIOUS
<1>6. PICK old : old = IF k \in DOMAIN mem THEN obj[r] ELSE NewEntry
  OBVIOUS
<1>7. PICK e : e = IF k[1] \notin Untracked THEN [old EXCEPT !.sources = Empty] ELSE old
  OBVIOUS
<1>8. /\ last' = IF k \in DOMAIN mem THEN last ELSE last + 1
      /\ obj' = Put(obj, r, e) /\ UNCHANGED <<disk, mem, value>>
      /\ \/ mode' = "err" /\ UNCHANGED <<task, job>>
         \/ /\ mode' = mode /\ task' = [task EXCEPT ![b] = "new"]
            /\ \E stale : job' = [job EXCEPT ![b] = [key |-> k, ref |-> r, stale |-> stale]]
  BY <1>1, <1>3, <1>5, <1>6, <1>7 DEF SparkFresh, Spawn
<1>9. Distinct(obj, last) /\ last \in Nat
  BY DEF ExclusiveInv, ObjInv, Distinct
<1>10. r \in {b, k} /\ (k \in DOMAIN mem => r = k /\ r \in DOMAIN obj)
  BY <1>2, <1>3, <1>5, LoadedEntry
<1>11. ObjInv'
  <2>1. CASE k \in DOMAIN mem
    <3>1. Entry(obj[r]) /\ old = obj[r] /\ r \in DOMAIN obj
      BY <1>6, <1>9, <1>10, <2>1 DEF Distinct
    <3>2. Entry(e) /\ e.name = obj[r].name
      BY <1>7, <3>1, EntryFields
    <3>3. QED
      BY <1>8, <1>9, <2>1, <3>1, <3>2, PutSame DEF ObjInv
  <2>2. CASE k \notin DOMAIN mem
    <3>1. Entry(NewEntry) /\ NewEntry.name = last + 1
      BY <1>9 DEF NewEntry, Entry
    <3>2. Entry(e) /\ e.name = last + 1
      BY <1>6, <1>7, <2>2, <3>1, EntryFields
    <3>3. QED
      BY <1>8, <1>9, <2>2, <3>2, PutNew DEF ObjInv
  <2>3. QED
    BY <2>1, <2>2
<1>12. DOMAIN obj' = DOMAIN obj \cup {r}
  BY <1>8 DEF Put
<1>13. DiskInv' /\ value' \in [Builder -> Nat \cup {Nil}]
  BY <1>8 DEF ExclusiveInv, DiskInv
<1>14. CASE mode' = "err" /\ UNCHANGED <<task, job>>
  <2>1. JobInv'
    BY <1>12, <1>14, StillReferred DEF ExclusiveInv, JobInv
  <2>2. QED
    BY <1>11, <1>13, <1>14, <2>1 DEF ExclusiveInv
<1>15. CASE /\ mode' = mode /\ task' = [task EXCEPT ![b] = "new"]
            /\ \E stale : job' = [job EXCEPT ![b] = [key |-> k, ref |-> r, stale |-> stale]]
  <2>1. PICK j : job' = [job EXCEPT ![b] = j] /\ j.key = k /\ j.ref = r
    <3>1. PICK stale : job' = [job EXCEPT ![b] = [key |-> k, ref |-> r, stale |-> stale]]
      BY <1>15
    <3>2. PICK j : j = [key |-> k, ref |-> r, stale |-> stale]
      OBVIOUS
    <3>3. job' = [job EXCEPT ![b] = j] /\ j.key = k
      BY <3>1, <3>2
    <3>4. j.ref = r
      BY <3>2
    <3>5. QED
      BY <3>3, <3>4
  <2>2. j.key \in Keys /\ j.key[1] = CallOf[b] /\ j.ref \in {b, j.key} /\ j.ref \in DOMAIN obj'
    BY <1>4, <1>10, <1>12, <2>1
  <2>3. DOMAIN obj \subseteq DOMAIN obj' /\ mem' = mem
    BY <1>8, <1>12
  <2>4. DOMAIN job' = Builder /\ JobInv' /\ MemInv'
    BY <1>1, <1>2, <1>15, <2>1, <2>2, <2>3, SpawnExclusive
  <2>5. QED
    BY <1>11, <1>13, <2>4 DEF ExclusiveInv
<1>16. QED
  BY <1>8, <1>14, <1>15

LEMMA SparkKnownExclusive ==
    ASSUME DistinctCalls, CompleteInv, ExclusiveInv, SparkKnown
    PROVE  ExclusiveInv'
<1>1. PICK b \in IO : b = Top.of /\ b \in Builder
  BY DEF SparkKnown, SparkIO, IO
<1>2. /\ mode = "run" /\ task[b] = "none" /\ MemInv
      /\ task \in [Builder -> {"none", "new", "running", "built", "ok", "err"}]
  BY <1>1, TopIdle DEF ExclusiveInv, SparkKnown, SparkIO
<1>3. PICK k : k = Key /\ k = KeyOf(b)
  BY <1>1 DEF Key
<1>4. k \in Keys /\ k[1] = CallOf[b] /\ k \in DOMAIN mem
  BY <1>3, KeyFacts DEF ExclusiveInv, SparkKnown, Known
<1>5. mem[k] = k /\ k \in DOMAIN obj
  BY <1>2, <1>3, <1>4, LoadedEntry
<1>6. /\ UNCHANGED <<obj, last, disk, mem, value>>
      /\ \/ mode' = "err" /\ UNCHANGED <<task, job>>
         \/ /\ mode' = mode /\ task' = [task EXCEPT ![b] = "new"]
            /\ \E stale : job' = [job EXCEPT ![b] = [key |-> k, ref |-> mem[k], stale |-> stale]]
  BY <1>1, <1>3 DEF SparkKnown, Spawn, cacheVars
<1>7. ObjInv' /\ DiskInv' /\ value' \in [Builder -> Nat \cup {Nil}]
  BY <1>6 DEF ExclusiveInv, ObjInv, DiskInv
<1>8. CASE mode' = "err" /\ UNCHANGED <<task, job>>
  BY <1>6, <1>7, <1>8, OthersExclusive
<1>9. CASE /\ mode' = mode /\ task' = [task EXCEPT ![b] = "new"]
           /\ \E stale : job' = [job EXCEPT ![b] = [key |-> k, ref |-> mem[k], stale |-> stale]]
  <2>1. PICK j : job' = [job EXCEPT ![b] = j] /\ j.key = k /\ j.ref = k
    <3>1. PICK stale : job' = [job EXCEPT ![b] = [key |-> k, ref |-> k, stale |-> stale]]
      BY <1>5, <1>9
    <3>2. PICK j : j = [key |-> k, ref |-> k, stale |-> stale]
      OBVIOUS
    <3>3. job' = [job EXCEPT ![b] = j] /\ j.key = k
      BY <3>1, <3>2
    <3>4. j.ref = k
      BY <1>5, <3>2
    <3>5. QED
      BY <3>3, <3>4
  <2>2. j.key \in Keys /\ j.key[1] = CallOf[b] /\ j.ref \in {b, j.key} /\ j.ref \in DOMAIN obj'
    BY <1>4, <1>5, <1>6, <2>1
  <2>3. DOMAIN obj \subseteq DOMAIN obj' /\ mem' = mem
    BY <1>6
  <2>4. DOMAIN job' = Builder /\ JobInv' /\ MemInv'
    BY <1>1, <1>2, <1>9, <2>1, <2>2, <2>3, SpawnExclusive
  <2>5. QED
    BY <1>7, <2>4 DEF ExclusiveInv
<1>10. QED
  BY <1>6, <1>8, <1>9

LEMMA SparkHitExclusive ==
    ASSUME CompleteInv, ExclusiveInv, SparkHit
    PROVE  ExclusiveInv'
<1>1. /\ UNCHANGED <<obj, last, disk, mem, task, job, mode>> /\ mode = "run" /\ Key \in DOMAIN mem
      /\ value' = [value EXCEPT ![Top.of] = obj[mem[Key]].value]
  BY DEF SparkHit, SparkIO, Known, Found, Lowered, Running, cacheVars
<1>2. mem[Key] \in DOMAIN obj
  BY <1>1 DEF ExclusiveInv, MemInv
<1>3. Entry(obj[mem[Key]])
  BY <1>2 DEF ExclusiveInv, ObjInv, Distinct
<1>4. obj[mem[Key]].value \in Nat \cup {Nil}
  BY <1>3, EntryFields
<1>5. value' \in [Builder -> Nat \cup {Nil}]
  BY <1>1, <1>4 DEF ExclusiveInv
<1>6. DiskInv'
  BY <1>1 DEF ExclusiveInv, DiskInv
<1>7. QED
  BY <1>1, <1>5, <1>6, OthersExclusive

-----------------------------------------------------------------------------
(* Build directories: the tasks.                                           *)

\* A task that runs keeps its job; the table may get its key.
LEMMA TaskMoves ==
    ASSUME ExclusiveInv, MemInv, NEW b \in Builder, task[b] # "none", NEW s, s # "none",
           s \in {"running", "built"} => b \in IO,
           task \in [Builder -> {"none", "new", "running", "built", "ok", "err"}],
           task' = [task EXCEPT ![b] = s], job' = job, DOMAIN obj' = DOMAIN obj
    PROVE  JobInv' /\ (mem' = mem => MemInv')
<1>1. \A x \in IO : (task[x] # "none" <=> task'[x] # "none") /\ job'[x] = job[x]
  BY DEF IO
<1>2. (\A x \in IO : task[x] # "none" /\ JobOf(x) => JobOf(x)') /\ (mem' = mem => MemInv')
  BY <1>1, StillReferred
<1>3. \A x \in IO : task'[x] # "none" => JobOf(x)'
  BY <1>1, <1>2 DEF ExclusiveInv, JobInv
<1>4. ASSUME NEW x \in Pure PROVE task'[x] \notin {"running", "built"}
  BY FlakeAssumption DEF ExclusiveInv, JobInv, IO
<1>5. QED
  BY <1>2, <1>3, <1>4 DEF JobInv

LEMMA StartExclusive ==
    ASSUME CompleteInv, ExclusiveInv, NEW b \in Builder, StartTask(b)
    PROVE  ExclusiveInv'
<1>1. /\ mode = "join" /\ task[b] = "new" /\ b \in IO /\ UNCHANGED <<disk, last, value, job, mode>>
      /\ obj' = [obj EXCEPT ![job[b].ref] = [obj[job[b].ref] EXCEPT !.valid = FALSE]]
      /\ mem' = Put(mem, job[b].key, job[b].ref) /\ task' = [task EXCEPT ![b] = "running"]
  BY DEF StartTask, Runs, mainVars
<1>2. /\ MemInv /\ JobOf(b) /\ Distinct(obj, last)
      /\ task \in [Builder -> {"none", "new", "running", "built", "ok", "err"}]
  BY <1>1 DEF ExclusiveInv, JobInv, ObjInv, CompleteInv, EvalTypes
<1>3. PICK r, k : r = job[b].ref /\ k = job[b].key
  OBVIOUS
<1>4. k \in Keys /\ r \in {b, k} /\ r \in DOMAIN obj
  BY <1>2, <1>3 DEF JobOf
<1>5. DOMAIN obj' = DOMAIN obj /\ ObjInv'
  <2>1. PICK e : e = [obj[r] EXCEPT !.valid = FALSE]
    OBVIOUS
  <2>2. Entry(e) /\ e.name = obj[r].name
    BY <1>2, <1>4, <2>1, EntryFields DEF Distinct
  <2>3. obj' = [obj EXCEPT ![r] = e]
    BY <1>1, <1>3, <2>1
  <2>4. DOMAIN obj' = DOMAIN obj /\ Distinct(obj', last)
    BY <1>2, <2>2, <2>3, OneEntry
  <2>5. QED
    BY <1>1, <2>4 DEF ObjInv
<1>6. JobInv'
  BY <1>1, <1>2, <1>5, TaskMoves
<1>7. MemInv'
  <2>1. DOMAIN mem' = DOMAIN mem \cup {k} /\ mem'[k] = r /\ \A x \in DOMAIN mem : x # k => mem'[x] = mem[x]
    BY <1>1, <1>3 DEF Put
  <2>2. \A x \in IO : task[x] # "none" => task'[x] # "none" /\ job'[x] = job[x]
    BY <1>1, <1>2 DEF IO
  <2>3. task'[b] # "none" /\ job'[b].key = k
    BY <1>1, <1>2, <1>3
  <2>4. ASSUME NEW x \in DOMAIN mem'
        PROVE  /\ x \in Keys /\ mem'[x] \in DOMAIN obj'
               /\ mem'[x] = x \/ (mem'[x] \in IO /\ task'[mem'[x]] # "none" /\ job'[mem'[x]].key = x)
    <3>1. CASE x = k
      BY <1>1, <1>4, <1>5, <2>1, <2>3, <3>1
    <3>2. CASE x # k
      <4>1. x \in DOMAIN mem /\ mem'[x] = mem[x]
        BY <2>1, <3>2
      <4>2. QED
        BY <1>2, <1>5, <2>2, <4>1 DEF MemInv
    <3>3. QED
      BY <3>1, <3>2
  <2>5. QED
    BY <2>4 DEF MemInv
<1>8. QED
  BY <1>1, <1>5, <1>6, <1>7 DEF ExclusiveInv, DiskInv

LEMMA OkExclusive ==
    ASSUME CompleteInv, ExclusiveInv, NEW b \in IO, TaskOk(b)
    PROVE  ExclusiveInv'
<1>1. PICK e, w : /\ e = obj[job[b].ref]
                  /\ obj' = [obj EXCEPT ![job[b].ref] = [e EXCEPT !.value = e.name, !.valid = TRUE, !.sources = w]]
  BY DEF TaskOk
<1>2. /\ mode = "join" /\ task[b] = "built" /\ UNCHANGED <<mem, last, job, mode>>
      /\ value' = [value EXCEPT ![b] = obj[job[b].ref].name]
      /\ disk' = Saved(mem, obj') /\ task' = [task EXCEPT ![b] = "ok"]
  BY DEF TaskOk, Runs, mainVars
<1>3. /\ MemInv /\ JobOf(b) /\ Distinct(obj, last) /\ b \in Builder
      /\ task \in [Builder -> {"none", "new", "running", "built", "ok", "err"}]
  BY <1>2 DEF ExclusiveInv, JobInv, ObjInv, CompleteInv, EvalTypes, IO
<1>4. PICK r : r = job[b].ref /\ r \in DOMAIN obj
  BY <1>3 DEF JobOf
<1>5. PICK done : done = [e EXCEPT !.value = e.name, !.valid = TRUE, !.sources = w]
  OBVIOUS
<1>6. Entry(done) /\ done.name = obj[r].name /\ e.name \in Nat
  <2>1. Entry(e) /\ e = obj[r]
    BY <1>1, <1>3, <1>4 DEF Distinct
  <2>2. Entry(done) /\ done.name = e.name
    BY <1>5, <2>1, DoneFields
  <2>3. e.name \in Nat
    BY <2>1, EntryFields
  <2>4. QED
    BY <2>1, <2>2, <2>3
<1>7. DOMAIN obj' = DOMAIN obj /\ Distinct(obj', last)
  BY <1>1, <1>3, <1>4, <1>5, <1>6, OneEntry
<1>8. JobInv' /\ MemInv'
  BY <1>2, <1>3, <1>7, TaskMoves
<1>9. DiskInv'
  <2>1. SavedAs(disk', mem, obj')
    BY <1>2, SaveShape
  <2>2. QED
    BY <1>2, <1>3, <1>7, <2>1, SavedDistinct DEF DiskInv, SavedAs
<1>10. value' \in [Builder -> Nat \cup {Nil}]
  BY <1>1, <1>2, <1>6 DEF ExclusiveInv
<1>11. QED
  BY <1>2, <1>7, <1>8, <1>9, <1>10 DEF ExclusiveInv, ObjInv

LEMMA ErrExclusive ==
    ASSUME CompleteInv, ExclusiveInv, NEW b \in Builder, TaskErr(b)
    PROVE  ExclusiveInv'
<1>1. /\ mode = "join" /\ task[b] # "none" /\ UNCHANGED <<mem, last, value, job, mode>>
      /\ disk' = Saved(mem, obj') /\ task' = [task EXCEPT ![b] = "err"]
      /\ \E r : obj' = [obj EXCEPT ![r] = [obj[r] EXCEPT !.valid = Nil]]
  BY DEF TaskErr, Runs, mainVars
<1>2. /\ MemInv /\ Distinct(obj, last)
      /\ task \in [Builder -> {"none", "new", "running", "built", "ok", "err"}]
  BY <1>1 DEF ExclusiveInv, ObjInv, CompleteInv, EvalTypes
<1>3. DOMAIN obj' = DOMAIN obj /\ Distinct(obj', last)
  <2>1. PICK r : obj' = [obj EXCEPT ![r] = [obj[r] EXCEPT !.valid = Nil]]
    BY <1>1
  <2>2. PICK e : e = [obj[r] EXCEPT !.valid = Nil]
    OBVIOUS
  <2>3. r \in DOMAIN obj => Entry(e) /\ e.name = obj[r].name
    BY <1>2, <2>2, EntryFields DEF Distinct
  <2>4. QED
    BY <1>2, <2>1, <2>2, <2>3, OneEntry
<1>4. JobInv' /\ MemInv'
  BY <1>1, <1>2, <1>3, TaskMoves
<1>5. DiskInv'
  <2>1. SavedAs(disk', mem, obj')
    BY <1>1, SaveShape
  <2>2. QED
    BY <1>1, <1>2, <1>3, <2>1, SavedDistinct DEF DiskInv, SavedAs
<1>6. QED
  BY <1>1, <1>3, <1>4, <1>5 DEF ExclusiveInv, ObjInv

\* The function of a builder runs; a pure one has no entry.
LEMMA BodyExclusive ==
    ASSUME CompleteInv, ExclusiveInv, NEW b \in Builder, Produce(b) \/ PureTask(b)
    PROVE  ExclusiveInv'
<1>1. /\ mode = "join" /\ task[b] # "none" /\ UNCHANGED <<cacheVars, value, job, mode>>
      /\ \E s \in {"built", "ok", "err"} : task' = [task EXCEPT ![b] = s] /\ (s = "built" => b \in IO)
  BY DEF Produce, PureTask, Runs, mainVars, ExclusiveInv, JobInv, IO
<1>2. MemInv /\ task \in [Builder -> {"none", "new", "running", "built", "ok", "err"}]
  BY <1>1 DEF ExclusiveInv, CompleteInv, EvalTypes
<1>3. JobInv' /\ MemInv'
  BY <1>1, <1>2, TaskMoves DEF cacheVars
<1>4. QED
  BY <1>1, <1>3 DEF ExclusiveInv, ObjInv, DiskInv, cacheVars

LEMMA ExclusiveInit == Init => ExclusiveInv
<1> SUFFICES ASSUME Init PROVE ExclusiveInv
  OBVIOUS
<1>1. DOMAIN obj = {} /\ DOMAIN disk.results = {} /\ last = 0 /\ disk.last = 0 /\ mode = "down"
  BY DEF Init, Empty
<1>2. disk \in [results : {disk.results}, last : {disk.last}, whole : BOOLEAN]
  BY DEF Init
<1>3. ObjInv /\ DiskInv
  BY <1>1, <1>2 DEF ObjInv, DiskInv, Distinct
<1>4. JobInv /\ DOMAIN job = Builder /\ value \in [Builder -> Nat \cup {Nil}]
  BY FlakeAssumption DEF Init, JobInv, IO
<1>5. QED
  BY <1>1, <1>3, <1>4 DEF ExclusiveInv

LEMMA ExclusiveKept == DistinctCalls /\ CompleteInv /\ ExclusiveInv /\ [Next]_vars => ExclusiveInv'
<1> SUFFICES ASSUME DistinctCalls, CompleteInv, ExclusiveInv, [Next]_vars PROVE ExclusiveInv'
  OBVIOUS
<1>1. CASE \/ StartActive \/ StartValid \/ LowerArgs \/ JoinTask \/ Resume \/ LowerMore \/ Done
           \/ Exit \/ Crash \/ (\E c \in Call : Edit(c)) \/ Finished \/ UNCHANGED vars
  <2>1. UNCHANGED <<mem, obj, last, task, job, value>>
    BY <1>1 DEF StartActive, StartValid, LowerArgs, JoinTask, Resume, LowerMore, Done, Exit, Crash, Edit, Finished,
                vars, cacheVars, evalVars
  <2>2. DiskInv'
    BY <1>1 DEF ExclusiveInv, DiskInv, StartActive, StartValid, LowerArgs, JoinTask, Resume, LowerMore, Done, Exit, Crash, Edit, Finished,
                vars, cacheVars
  <2>3. mode' \in {"run", "join"} => mode \in {"run", "join"}
    BY <1>1 DEF StartActive, StartValid, LowerArgs, JoinTask, Resume, LowerMore, Done, Exit, Crash, Edit, Finished,
                vars, mainVars, Running, Lowered
  <2>4. QED
    BY <2>1, <2>2, <2>3, OthersExclusive DEF ExclusiveInv
<1>2. CASE Begin
  BY <1>2, BeginExclusive
<1>3. CASE SparkPure \/ SparkFresh \/ SparkKnown \/ SparkHit
  BY <1>3, SparkPureExclusive, SparkFreshExclusive, SparkKnownExclusive, SparkHitExclusive
<1>4. CASE \E b \in Builder : TaskStep(b)
  <2>1. PICK b \in Builder : TaskStep(b)
    BY <1>4
  <2>2. CASE StartTask(b)
    BY <2>2, StartExclusive
  <2>3. CASE Produce(b) \/ PureTask(b)
    BY <2>3, BodyExclusive
  <2>4. CASE TaskErr(b)
    BY <2>4, ErrExclusive
  <2>5. CASE TaskOk(b)
    <3>1. b \in IO
      BY <2>5 DEF TaskOk, Runs, ExclusiveInv, JobInv, IO
    <3>2. QED
      BY <2>5, <3>1, OkExclusive
  <2>6. QED
    BY <2>1, <2>2, <2>3, <2>4, <2>5 DEF TaskStep
<1>5. QED
  BY <1>1, <1>2, <1>3, <1>4 DEF Next, MainStep

\* No two tasks that run at the same time write to one build directory, when no
\* two IO builders make the same call.
THEOREM OutputsAreExclusive ==
    ASSUME NoCycles, DistinctCalls
    PROVE  Spec => []OutputExclusive
<1>1. CompleteInv /\ [Next]_vars => CompleteInv'
  BY CompleteKept
<1>2. CompleteInv /\ ExclusiveInv /\ [Next]_vars => ExclusiveInv'
  BY ExclusiveKept
<1>3. ExclusiveInv => OutputExclusive
  BY ExclusiveFromInv
<1>4. QED
  BY <1>1, <1>2, <1>3, CompleteInit, ExclusiveInit, PTL DEF Spec

-----------------------------------------------------------------------------
(* What is built.                                                          *)

\* Nil is no table.
NilIsNoTable ==
    /\ Nil # Empty /\ \A t, u : Nil # PutAll(t, u)
    /\ \A c, s, a : Nil # [call |-> c, source |-> s, args |-> a]

\* No builder fails, the program is not killed, and edits come between runs.
Undisturbed == ~CanFail /\ ~CanCrash /\ Reverts

\* The paths a result is made from, what is made of these contents, and what a
\* build directory holds.
Inputs(k) == {k[1]} \cup ToSet(k[2])
MadeFrom(k, s) == [call |-> k[1], source |-> s[k[1]], args |-> [i \in DOMAIN k[2] |-> s[k[2][i]]]]
Holds(name, content) == name \in DOMAIN out /\ out[name] = content

\* A finished entry names a directory that holds what its digests are of.
Complete(k, e) ==
    /\ e.valid = TRUE /\ e.value = e.name
    /\ IF k[1] \in Untracked THEN e.sources = Nil
       ELSE e.sources # Nil /\ DOMAIN e.sources = Inputs(k) /\ Holds(e.name, MadeFrom(k, e.sources))

\* Each key of the table has a finished entry or a task that runs.
CacheInv ==
    \A k \in DOMAIN mem :
        \/ Complete(k, obj[mem[k]])
        \/ \E b \in IO : task[b] \in {"running", "built"} /\ job[b].key = k

\* A task has the key of its builder and, once they are merged, the digests of what
\* its builder function reads.
InFlight(b) == task[b] \in {"new", "running", "built"}
Digests(e, stale, k) ==
    IF k[1] \in Untracked THEN e.sources = Nil
    ELSE /\ e.sources # Nil /\ DOMAIN PutAll(e.sources, stale) = Inputs(k)
         /\ \A p \in Inputs(k) : PutAll(e.sources, stale)[p] = Content(p)
Computes(b) ==
    /\ job[b].key = KeyOf(b) /\ Digests(obj[job[b].ref], job[b].stale, job[b].key)
    /\ job[b].key \in DOMAIN mem => mem[job[b].key] = job[b].ref
    /\ task[b] # "new" => job[b].key \in DOMAIN mem
    /\ task[b] = "built" => Holds(obj[job[b].ref].name, Make(job[b].key))

\* A value names the directory of the builder's own entry, and it is there; the
\* entry has the digests of what it was made from.
Recorded(e, n, k) ==
    e.name = n /\ (k[1] \notin Untracked => \A p \in Inputs(k) : e.sources[p] = Content(p))
Built(b) ==
    /\ value[b] \in Nat /\ Holds(value[b], Make(KeyOf(b)))
    /\ KeyOf(b) \in DOMAIN mem /\ mem[KeyOf(b)] \in {b, KeyOf(b)}
    /\ Recorded(obj[mem[KeyOf(b)]], value[b], KeyOf(b))

\* A call of lower waits for each task.
Awaited(b) == \E i \in 1..Len(stack) : b \in ToSet(stack[i].tasks)

\* When no task is in flight the cache is saved.
SavedInv ==
    (\A b \in IO : ~InFlight(b)) =>
        DOMAIN disk.results = DOMAIN mem /\ \A k \in DOMAIN mem : disk.results[k] = obj[mem[k]]

\* What the file of the cache has is finished.
DiskComplete == \A k \in DOMAIN disk.results : Complete(k, disk.results[k])

ValidInv  == \A b \in IO : valid[b] => Built(b)
FlightInv == \A b \in IO : InFlight(b) => Computes(b) /\ Awaited(b)
CalmInv   ==
    /\ src \in [Call -> Nat] /\ edits \in Nat /\ disk.whole = TRUE /\ DOMAIN out \subseteq Nat
    /\ mode # "err" /\ \A b \in Builder : task[b] # "err"
BuiltInv ==
    /\ CalmInv
    /\ mode \in {"run", "join"} => CacheInv /\ FlightInv /\ ValidInv /\ SavedInv
    /\ mode = "ok" => ValidInv
    /\ mode \in {"ok", "down"} => DiskComplete

\* What a path holds.
LEMMA Contents ==
    ASSUME DOMAIN out \subseteq Nat
    PROVE  /\ \A c \in Call : Content(c) = src[c]
           /\ \A n \in DOMAIN out : Content(n) = out[n]
BY FlakeAssumption DEF Content

\* The key of a builder, argument by argument.
LEMMA KeyParts ==
    ASSUME NEW b \in IO
    PROVE  /\ KeyOf(b)[1] = CallOf[b] /\ CallOf[b] \in Call /\ b \in Builder
           /\ DOMAIN KeyOf(b)[2] = DOMAIN Deps[b]
           /\ \A i \in DOMAIN Deps[b] : /\ KeyOf(b)[2][i] = value[Final(Deps[b][i])]
                                        /\ Deps[b][i] \in ToSet(Deps[b]) /\ Final(Deps[b][i]) \in IO
<1>1. b \in Builder /\ CallOf[b] \in Call /\ Deps[b] \in Seq(Builder) /\ ToSet(Deps[b]) \subseteq Builder
  BY FlakeAssumption, Description DEF IO
<1>2. PICK s : s = [i \in DOMAIN Deps[b] |-> value[Final(Deps[b][i])]]
  OBVIOUS
<1>3. KeyOf(b) = <<CallOf[b], s>>
  BY <1>2 DEF KeyOf
<1>4. \A i \in DOMAIN Deps[b] : Deps[b][i] \in ToSet(Deps[b])
  BY DEF ToSet
<1>5. \A i \in DOMAIN Deps[b] : Final(Deps[b][i]) \in IO
  BY <1>1, <1>4, Description
<1>6. QED
  BY <1>1, <1>2, <1>3, <1>4, <1>5

\* Two keys with the same parts.
LEMMA SameKey ==
    ASSUME NEW b \in IO,
           \A i \in DOMAIN Deps[b] : value'[Final(Deps[b][i])] = value[Final(Deps[b][i])]
    PROVE  KeyOf(b)' = KeyOf(b)
<1>1. [i \in DOMAIN Deps[b] |-> value[Final(Deps[b][i])]]' = [i \in DOMAIN Deps[b] |-> value[Final(Deps[b][i])]]
  BY DEF Final
<1>2. QED
  BY <1>1 DEF KeyOf

\* When its arguments are lowered, what a builder reads is there.
LEMMA InputsAreThere ==
    ASSUME NilIsNoTable, CalmInv, ValidInv, NEW b \in IO, \A d \in ToSet(Deps[b]) : Settled(d)
    PROVE  /\ \A i \in DOMAIN Deps[b] : \E d \in IO : valid[d] /\ KeyOf(b)[2][i] = value[d]
           /\ \A p \in Inputs(KeyOf(b)) : /\ p \in Call \cup Nat /\ p # Nil /\ Content(p) # Nil
                                          /\ p \in Call \/ \E d \in IO : valid[d] /\ p = value[d]
           /\ InputFiles(KeyOf(b)) = Inputs(KeyOf(b))
<1>1. PICK k : k = KeyOf(b)
  OBVIOUS
<1>2. /\ k[1] \in Call /\ DOMAIN k[2] = DOMAIN Deps[b]
      /\ \A i \in DOMAIN Deps[b] : /\ k[2][i] = value[Final(Deps[b][i])]
                                   /\ Deps[b][i] \in ToSet(Deps[b]) /\ Final(Deps[b][i]) \in IO
  BY <1>1, KeyParts
<1>3. \A i \in DOMAIN Deps[b] : \E d \in IO : valid[d] /\ k[2][i] = value[d]
  BY <1>2 DEF Settled
<1>4. \A d \in IO : valid[d] => value[d] \in Nat /\ value[d] \in DOMAIN out /\ out[value[d]] # Nil
  <2>1. \A x : Make(x) # Nil
    BY DEF Make, NilIsNoTable
  <2>2. QED
    BY <2>1 DEF ValidInv, Built, Holds
<1>5. DOMAIN out \subseteq Nat /\ \A n \in Nat : n \notin Call /\ n # Nil
  BY FlakeAssumption DEF CalmInv
<1>6. \A p \in ToSet(k[2]) : \E d \in IO : valid[d] /\ p = value[d]
  BY <1>2, <1>3 DEF ToSet
<1>7. \A p \in ToSet(k[2]) : p \in Nat /\ p # Nil /\ Content(p) # Nil
  BY <1>4, <1>5, <1>6, Contents
<1>8. k[1] # Nil /\ Content(k[1]) # Nil
  <2>1. src[k[1]] \in Nat /\ DOMAIN out \subseteq Nat
    BY <1>2 DEF CalmInv
  <2>2. QED
    BY <1>2, <1>5, <2>1, FlakeAssumption, Contents
<1>9. \A p \in Inputs(k) : /\ p \in Call \cup Nat /\ p # Nil /\ Content(p) # Nil
                           /\ p \in Call \/ \E d \in IO : valid[d] /\ p = value[d]
  BY <1>2, <1>6, <1>7, <1>8 DEF Inputs
<1>10. InputFiles(k) = Inputs(k)
  BY <1>9 DEF InputFiles, Inputs
<1>11. QED
  BY <1>1, <1>2, <1>3, <1>9, <1>10

\* What a builder makes is made from the contents of its inputs.
LEMMA MakeIsMadeFrom ==
    ASSUME DOMAIN out \subseteq Nat, NEW k, NEW s, k[1] \in Call, \A p \in Inputs(k) : s[p] = Content(p)
    PROVE  MadeFrom(k, s) = Make(k)
<1>1. s[k[1]] = src[k[1]]
  BY Contents DEF Inputs
<1>2. \A i \in DOMAIN k[2] : s[k[2][i]] = Content(k[2][i])
  BY DEF Inputs, ToSet
<1>3. [i \in DOMAIN k[2] |-> s[k[2][i]]] = [i \in DOMAIN k[2] |-> Content(k[2][i])]
  BY <1>2
<1>4. QED
  BY <1>1, <1>3 DEF MadeFrom, Make

-----------------------------------------------------------------------------
(* What is built: main walks over the builders.                            *)

LEMMA AwaitedTop ==
    ASSUME EvalTypes, StackInv, NEW f \in Frames, stack' = <<f>> \o Tail(stack),
           NEW b, Awaited(b), b \in ToSet(Top.tasks) => b \in ToSet(f.tasks)
    PROVE  Awaited(b)'
<1>1. stack \in Seq(Frames) /\ stack # <<>> /\ Len(stack) \in Nat \ {0} /\ Top = stack[1]
  BY TopFacts DEF EvalTypes, StackInv
<1>2. /\ Len(stack') = Len(stack) /\ stack'[1] = f
      /\ \A i \in 2..Len(stack) : stack'[i] = stack[i]
  BY <1>1, ReplaceHead
<1>3. PICK i \in 1..Len(stack) : b \in ToSet(stack[i].tasks)
  BY DEF Awaited
<1>4. b \in ToSet(stack'[i].tasks)
  <2>1. CASE i = 1
    BY <1>1, <1>2, <1>3, <2>1
  <2>2. CASE i # 1
    <3>1. i \in 2..Len(stack)
      BY <1>1, <2>2
    <3>2. QED
      BY <1>2, <1>3, <3>1
  <2>3. QED
    BY <2>1, <2>2
<1>5. QED
  BY <1>2, <1>4 DEF Awaited

LEMMA AwaitedPush ==
    ASSUME EvalTypes, NEW f \in Frames, stack' = <<f>> \o stack, NEW b, Awaited(b)
    PROVE  Awaited(b)'
<1>1. stack \in Seq(Frames) /\ Len(stack) \in Nat
  BY DEF EvalTypes
<1>2. Len(stack') = Len(stack) + 1 /\ \A i \in 1..Len(stack) : stack'[i + 1] = stack[i]
  BY <1>1, PushProperties
<1>3. PICK i \in 1..Len(stack) : b \in ToSet(stack[i].tasks)
  BY DEF Awaited
<1>4. i + 1 \in 1..Len(stack') /\ stack'[i + 1] = stack[i]
  BY <1>1, <1>2
<1>5. QED
  BY <1>3, <1>4 DEF Awaited

\* The innermost call ends, and awaits nothing.
LEMMA AwaitedPop ==
    ASSUME EvalTypes, StackInv, Top.of # Nil, Top.tasks = <<>>, NEW h \in Frames,
           stack' = <<h>> \o Tail(Tail(stack)), ToSet(stack[2].tasks) \subseteq ToSet(h.tasks)
    PROVE  /\ \A b : Awaited(b) => Awaited(b)'
           /\ \A b \in ToSet(h.tasks) : Awaited(b)'
<1>1. /\ stack \in Seq(Frames) /\ Len(stack) \in Nat /\ Len(stack) >= 2 /\ Top = stack[1]
      /\ ToSet(Top.tasks) = {}
  <2>1. stack \in Seq(Frames) /\ Len(stack) \in Nat \ {0} /\ Len(stack) # 1 /\ Top = stack[1]
    BY TopFacts DEF EvalTypes
  <2>2. ToSet(<<>>) = {}
    BY DEF ToSet
  <2>3. Len(stack) >= 2
    BY <2>1
  <2>4. QED
    BY <2>1, <2>2, <2>3
<1>2. /\ Len(stack') = Len(stack) - 1 /\ stack'[1] = h
      /\ \A i \in 2..(Len(stack) - 1) : stack'[i] = stack[i + 1]
  BY <1>1, ReplaceTwo
<1>3. 1 \in 1..Len(stack')
  BY <1>1, <1>2
<1>4. \A b \in ToSet(h.tasks) : Awaited(b)'
  BY <1>2, <1>3 DEF Awaited
<1>5. ASSUME NEW b, Awaited(b) PROVE Awaited(b)'
  <2>1. PICK i \in 1..Len(stack) : b \in ToSet(stack[i].tasks)
    BY <1>5 DEF Awaited
  <2>2. i # 1
    BY <1>1, <2>1
  <2>3. CASE i = 2
    BY <1>4, <2>1, <2>3
  <2>4. CASE i # 2
    <3>1. PICK n \in Nat : n = Len(stack)
      BY <1>1
    <3>2. i \in 1..n
      BY <3>1
    <3>3. i - 1 \in 2..(n - 1) /\ i - 1 \in 1..(n - 1) /\ (i - 1) + 1 = i
      BY <2>2, <2>4, <3>2
    <3>4. stack'[i - 1] = stack[i] /\ i - 1 \in 1..Len(stack')
      BY <1>2, <3>1, <3>3
    <3>5. QED
      BY <2>1, <3>4 DEF Awaited
  <2>5. QED
    BY <2>3, <2>4
<1>6. QED
  BY <1>4, <1>5

\* No table changes, and no IO builder does.
LEMMA Walked ==
    ASSUME BuiltInv, UNCHANGED <<out, cacheVars, value, src, edits>>,
           mode \in {"run", "join"}, mode' \in {"run", "join"},
           \A b \in IO : task'[b] = task[b] /\ job'[b] = job[b] /\ valid'[b] = valid[b],
           \A b \in Builder : task'[b] # "err",
           \A b \in IO : InFlight(b) /\ Awaited(b) => Awaited(b)'
    PROVE  BuiltInv'
<1>1. CacheInv /\ FlightInv /\ ValidInv /\ SavedInv /\ CalmInv
  BY DEF BuiltInv
<1>2. UNCHANGED <<out, disk, mem, obj, value, src, edits>>
  BY DEF cacheVars
<1>3. CalmInv'
  BY <1>1, <1>2 DEF CalmInv
<1>4. CacheInv'
  <2>1. \A k, e : Complete(k, e)' <=> Complete(k, e)
    BY <1>2 DEF Complete, Holds
  <2>2. QED
    BY <1>1, <1>2, <2>1 DEF CacheInv, Complete, Holds
<1>5. SavedInv'
  BY <1>1, <1>2 DEF SavedInv, InFlight
<1>6. \A p : Content(p)' = Content(p)
  BY <1>2 DEF Content
<1>7. \A k : Make(k)' = Make(k)
  BY <1>2, <1>6 DEF Make
<1>8. \A b \in IO : KeyOf(b)' = KeyOf(b)
  BY <1>2 DEF KeyOf
<1>9. ValidInv'
  BY <1>1, <1>2, <1>6, <1>7, <1>8 DEF ValidInv, Built, Holds, Recorded
<1>10. FlightInv'
  <2>1. ASSUME NEW b \in IO, InFlight(b)' PROVE Computes(b)' /\ Awaited(b)'
    <3>1. InFlight(b) /\ Computes(b) /\ Awaited(b)
      BY <1>1, <1>2, <2>1 DEF FlightInv, InFlight
    <3>2. Computes(b)'
      BY <1>2, <1>6, <1>7, <1>8, <3>1 DEF Computes, Digests, Holds
    <3>3. QED
      BY <3>1, <3>2
  <2>2. QED
    BY <2>1 DEF FlightInv
<1>11. QED
  BY <1>3, <1>4, <1>5, <1>9, <1>10 DEF BuiltInv

LEMMA WalkBuilt ==
    ASSUME CompleteInv, BuiltInv,
           StartActive \/ StartValid \/ LowerArgs \/ JoinTask \/ Resume \/ LowerMore
    PROVE  BuiltInv'
<1>1. /\ UNCHANGED <<out, cacheVars, valid, value, task, job, src, edits>> /\ mode \in {"run", "join"}
      /\ mode' \in {"run", "join", "err"}
  BY DEF StartActive, StartValid, LowerArgs, JoinTask, Resume, LowerMore, evalVars, envVars, Running
<1>2. EvalTypes /\ StackInv /\ Top \in Frames /\ \A b \in Builder : task[b] # "err"
  BY <1>1, TopFacts DEF CompleteInv, RunInv, BuiltInv, CalmInv
<1>3. ASSUME NEW b \in IO, InFlight(b), Awaited(b) PROVE Awaited(b)'
  <2>1. CASE StartActive
    <3>1. First \in Builder /\ Top.tasks \in Seq(Builder)
      BY <1>2, <2>1, HeadAndTail DEF StartActive, First, Frames
    <3>2. PICK f : f = [Top EXCEPT !.todo = Tail(@), !.tasks = Append(@, First)] /\ stack' = <<f>> \o Tail(stack)
      BY <2>1 DEF StartActive, SetTop
    <3>3. f \in Frames /\ f.tasks = Append(Top.tasks, First)
      <4>1. Top.todo \in Seq(Builder) /\ Top.todo # <<>>
        BY <1>2, <2>1 DEF StartActive, Frames
      <4>2. Tail(Top.todo) \in Seq(Builder)
        BY <4>1, HeadAndTail
      <4>3. Append(Top.tasks, First) \in Seq(Builder)
        BY <3>1, AppendElements
      <4>4. QED
        BY <1>2, <3>2, <4>2, <4>3 DEF Frames
    <3>4. ToSet(Top.tasks) \subseteq ToSet(f.tasks)
      BY <3>1, <3>3, AppendElements
    <3>5. QED
      BY <1>2, <1>3, <3>2, <3>3, <3>4, AwaitedTop
  <2>2. CASE StartValid
    <3>1. First \in Builder /\ Top.more \in Seq(Builder)
      BY <1>2, <2>2, HeadAndTail DEF StartValid, First, Frames
    <3>2. PICK f : f = [Top EXCEPT !.todo = Tail(@), !.more = Again(First, @)] /\ stack' = <<f>> \o Tail(stack)
      BY <2>2 DEF StartValid, SetTop
    <3>3. Again(First, Top.more) \in Seq(Builder)
      BY <3>1, Description, AppendElements DEF Again
    <3>4. f \in Frames /\ f.tasks = Top.tasks
      BY <1>2, <2>2, <3>2, <3>3, HeadAndTail DEF Frames, StartValid
    <3>5. QED
      BY <1>2, <1>3, <3>2, <3>4, AwaitedTop
  <2>3. CASE LowerArgs
    <3>1. First \in Builder
      BY <1>2, <2>3, HeadAndTail DEF LowerArgs, First, Frames
    <3>2. Frame(First, Deps[First]) \in Frames
      BY <3>1, Description DEF Frame, Frames
    <3>3. QED
      BY <1>2, <1>3, <2>3, <3>2, AwaitedPush DEF LowerArgs
  <2>4. CASE JoinTask /\ stack' = stack
    BY <1>3, <2>4 DEF Awaited
  <2>5. CASE JoinTask /\ stack' # stack
    <3>1. PICK c : c = Head(Top.tasks)
      OBVIOUS
    <3>2. Top.tasks \in Seq(Builder) /\ Top.tasks # <<>> /\ Top.more \in Seq(Builder)
      BY <1>2, <2>5 DEF JoinTask, Frames
    <3>3. c \in Builder /\ Tail(Top.tasks) \in Seq(Builder) /\ ToSet(Top.tasks) = {c} \cup ToSet(Tail(Top.tasks))
      BY <3>1, <3>2, HeadAndTail
    <3>4. task[c] = "ok" /\ SetTop([Top EXCEPT !.tasks = Tail(@), !.more = Again(c, @)])
      BY <2>5, <3>1 DEF JoinTask
    <3>5. PICK f : f = [Top EXCEPT !.tasks = Tail(@), !.more = Again(c, @)] /\ stack' = <<f>> \o Tail(stack)
      BY <3>4 DEF SetTop
    <3>6. Again(c, Top.more) \in Seq(Builder)
      BY <3>2, <3>3, Description, AppendElements DEF Again
    <3>7. f \in Frames /\ f.tasks = Tail(Top.tasks)
      BY <1>2, <3>3, <3>5, <3>6 DEF Frames
    <3>8. b # c
      BY <1>3, <3>4 DEF InFlight
    <3>9. QED
      BY <1>2, <1>3, <3>3, <3>5, <3>7, <3>8, AwaitedTop
  <2>6. CASE Resume
    BY <1>3, <2>6 DEF Resume, Awaited
  <2>7. CASE LowerMore
    <3>1. PICK f : f = [Top EXCEPT !.todo = Top.more, !.more = <<>>] /\ stack' = <<f>> \o Tail(stack)
      BY <2>7 DEF LowerMore, SetTop
    <3>2. f \in Frames /\ f.tasks = Top.tasks
      <4>1. Top.more \in Seq(Builder) /\ <<>> \in Seq(Builder)
        BY <1>2 DEF Frames
      <4>2. QED
        BY <1>2, <3>1, <4>1 DEF Frames
    <3>3. QED
      BY <1>2, <1>3, <3>1, <3>2, AwaitedTop
  <2>8. QED
    BY <2>1, <2>2, <2>3, <2>4, <2>5, <2>6, <2>7
<1>4. mode' # "err"
  <2>1. CASE JoinTask
    <3>1. Top.tasks \in Seq(Builder) /\ Top.tasks # <<>>
      BY <1>2, <2>1 DEF JoinTask, Frames
    <3>2. Head(Top.tasks) \in Builder
      BY <3>1, HeadAndTail
    <3>3. QED
      BY <1>1, <1>2, <2>1, <3>2 DEF JoinTask
  <2>2. QED
    BY <1>1, <2>1 DEF StartActive, StartValid, LowerArgs, Resume, LowerMore
<1>5. /\ \A b \in IO : task'[b] = task[b] /\ job'[b] = job[b] /\ valid'[b] = valid[b]
      /\ \A b \in Builder : task'[b] # "err"
  BY <1>1, <1>2
<1>6. QED
  BY <1>1, <1>3, <1>4, <1>5, Walked

-----------------------------------------------------------------------------
(* What is built: runs begin and end.                                      *)

LEMMA BeginBuilt ==
    ASSUME BuiltInv, Begin
    PROVE  BuiltInv'
<1>1. /\ mode = "down" /\ CalmInv /\ DiskComplete
      /\ UNCHANGED <<out, disk, src, edits>>
  BY DEF BuiltInv, Begin
<1>2. /\ mem' = [k \in DOMAIN disk.results |-> k] /\ obj' = disk.results /\ mode' = "run"
      /\ task' = [b \in Builder |-> "none"] /\ valid' = [b \in Builder |-> FALSE]
  BY <1>1 DEF Begin, CalmInv
<1>3. \A b \in IO : b \in Builder
  BY DEF IO
<1>4. \A b \in IO : ~InFlight(b)' /\ ~valid'[b]
  BY <1>2, <1>3 DEF InFlight
<1>5. CalmInv'
  BY <1>1, <1>2 DEF CalmInv
<1>6. CacheInv'
  <2>1. \A k, e : Complete(k, e)' <=> Complete(k, e)
    BY <1>1 DEF Complete, Holds
  <2>2. DOMAIN mem' = DOMAIN disk.results /\ \A k \in DOMAIN mem' : mem'[k] = k
    BY <1>2
  <2>3. \A k \in DOMAIN mem' : Complete(k, disk.results[k])
    BY <1>1, <2>2 DEF DiskComplete
  <2>4. \A k \in DOMAIN mem' : obj'[mem'[k]] = disk.results[k]
    BY <1>2, <2>2
  <2>5. ASSUME NEW k \in DOMAIN mem', NEW e, e = obj'[mem'[k]] PROVE Complete(k, e)'
    BY <2>1, <2>3, <2>4, <2>5
  <2>6. QED
    BY <2>5 DEF CacheInv, Complete, Holds
<1>7. SavedInv'
  BY <1>1, <1>2 DEF SavedInv
<1>8. FlightInv' /\ ValidInv'
  BY <1>4 DEF FlightInv, ValidInv
<1>9. QED
  BY <1>2, <1>5, <1>6, <1>7, <1>8 DEF BuiltInv

\* No task is left when the targets are lowered: the cache that is saved is finished.
LEMMA DoneBuilt ==
    ASSUME CompleteInv, BuiltInv, Done
    PROVE  BuiltInv'
<1>1. /\ mode = "run" /\ Top.tasks = <<>> /\ Top.of = Nil /\ mode' = "ok"
      /\ UNCHANGED <<out, disk, mem, obj, valid, value, task, src, edits>>
  BY DEF Done, Lowered, Running, cacheVars, evalVars
<1>2. CacheInv /\ FlightInv /\ ValidInv /\ SavedInv /\ CalmInv /\ EvalTypes /\ StackInv
  BY <1>1 DEF BuiltInv, CompleteInv, RunInv
<1>3. Len(stack) = 1 /\ Top = stack[1]
  BY <1>1, <1>2, TopFacts
<1>4. \A b : ~Awaited(b)
  <2>1. ToSet(Top.tasks) = {}
    BY <1>1 DEF ToSet
  <2>2. 1..Len(stack) = {1}
    BY <1>3
  <2>3. QED
    BY <1>3, <2>1, <2>2 DEF Awaited
<1>5. \A b \in IO : ~InFlight(b)
  BY <1>2, <1>4 DEF FlightInv
<1>6. \A k \in DOMAIN mem : Complete(k, obj[mem[k]])
  BY <1>2, <1>5 DEF CacheInv, InFlight
<1>7. DiskComplete
  BY <1>2, <1>5, <1>6 DEF SavedInv, DiskComplete
<1>8. CalmInv' /\ ValidInv'
  <2>1. \A b \in IO : Built(b)' <=> Built(b)
    BY <1>1 DEF Built, Holds, Make, KeyOf, Content, Recorded
  <2>2. QED
    BY <1>1, <1>2, <2>1 DEF CalmInv, ValidInv
<1>9. DiskComplete'
  BY <1>1, <1>7 DEF DiskComplete, Complete, Holds
<1>10. QED
  BY <1>1, <1>8, <1>9 DEF BuiltInv

\* A run ends, files are edited between runs, or nothing happens.
LEMMA OutsideBuilt ==
    ASSUME Undisturbed, BuiltInv, Exit \/ Crash \/ (\E c \in Call : Edit(c))
    PROVE  BuiltInv'
<1>1. CASE Exit
  <2>1. mode = "ok" /\ mode' = "down" /\ UNCHANGED <<out, disk, task, src, edits>>
    BY <1>1 DEF Exit, cacheVars, evalVars, envVars, BuiltInv, CalmInv
  <2>2. CalmInv' /\ DiskComplete'
    BY <2>1 DEF BuiltInv, CalmInv, DiskComplete, Complete, Holds
  <2>3. QED
    BY <2>1, <2>2 DEF BuiltInv
<1>2. CASE \E c \in Call : Edit(c)
  <2>1. PICK c \in Call : Edit(c)
    BY <1>2
  <2>2. /\ mode = "down" /\ UNCHANGED <<out, disk, task, mode>> /\ edits' = edits + 1
        /\ \E v \in {edits + 1} \cup 0..edits : src' = [src EXCEPT ![c] = v]
    BY <2>1 DEF Undisturbed, Edit, cacheVars, evalVars, mainVars
  <2>3. edits \in Nat /\ src \in [Call -> Nat]
    BY DEF BuiltInv, CalmInv
  <2>4. PICK v : v \in {edits + 1} \cup 0..edits /\ src' = [src EXCEPT ![c] = v]
    BY <2>2
  <2>5. v \in Nat
    BY <2>3, <2>4
  <2>6. src' \in [Call -> Nat] /\ edits' \in Nat
    BY <2>2, <2>3, <2>4, <2>5
  <2>7. CalmInv' /\ DiskComplete'
    BY <2>2, <2>6 DEF BuiltInv, CalmInv, DiskComplete, Complete, Holds
  <2>8. QED
    BY <2>2, <2>7 DEF BuiltInv
<1>3. CASE Crash
  BY <1>3 DEF Crash, Undisturbed
<1>4. QED
  BY <1>1, <1>2, <1>3

LEMMA BuiltStays ==
    ASSUME BuiltInv, UNCHANGED vars
    PROVE  BuiltInv'
<1>1. UNCHANGED <<out, disk, mem, obj, valid, value, task, job, stack, mode, src, edits>>
  BY DEF vars, cacheVars, evalVars, mainVars, envVars
<1>2. /\ \A k, e : Complete(k, e)' <=> Complete(k, e)
      /\ \A b : Built(b)' <=> Built(b)
      /\ \A b : (Computes(b)' <=> Computes(b)) /\ (Awaited(b)' <=> Awaited(b)) /\ (InFlight(b)' <=> InFlight(b))
  <2>1. /\ \A p : Content(p)' = Content(p)
        /\ \A n, c : Holds(n, c)' <=> Holds(n, c)
    BY <1>1 DEF Content, Holds
  <2>2. \A k : Make(k)' = Make(k)
    BY <1>1, <2>1 DEF Make
  <2>3. \A b : KeyOf(b)' = KeyOf(b)
    BY <1>1 DEF KeyOf
  <2>4. \A k, e : Complete(k, e)' <=> Complete(k, e)
    BY <1>1 DEF Complete, Holds
  <2>5. \A b : Built(b)' <=> Built(b)
    BY <1>1, <2>1, <2>2, <2>3 DEF Built, Holds, Recorded
  <2>6. \A b : Computes(b)' <=> Computes(b)
    BY <1>1, <2>1, <2>2, <2>3 DEF Computes, Digests, Holds
  <2>7. \A b : (Awaited(b)' <=> Awaited(b)) /\ (InFlight(b)' <=> InFlight(b))
    BY <1>1 DEF Awaited, InFlight
  <2>8. QED
    BY <2>4, <2>5, <2>6, <2>7
<1>3. CalmInv' <=> CalmInv
  BY <1>1 DEF CalmInv
<1>4. (CacheInv' <=> CacheInv) /\ (SavedInv' <=> SavedInv)
  BY <1>1, <1>2 DEF CacheInv, SavedInv, Complete, Holds, InFlight
<1>5. (ValidInv' <=> ValidInv) /\ (FlightInv' <=> FlightInv)
  BY <1>1, <1>2 DEF ValidInv, FlightInv
<1>6. DiskComplete' <=> DiskComplete
  BY <1>1 DEF DiskComplete, Complete, Holds
<1>7. QED
  BY <1>1, <1>3, <1>4, <1>5, <1>6 DEF BuiltInv

-----------------------------------------------------------------------------
(* What is built: builders are sparked.                                    *)

\* The builder of the call that ends waits in the one below, without a task.
LEMMA SparkFacts ==
    ASSUME CompleteInv, Lowered, Top.of \in Builder
    PROVE  /\ mode = "run" /\ EvalTypes /\ TaskInv /\ StackInv
           /\ Top.of # Nil /\ Top.tasks = <<>>
           /\ stack[2] \in Frames /\ stack[2].todo # <<>> /\ Head(stack[2].todo) = Top.of
           /\ task[Top.of] = "none" /\ ~valid[Top.of]
           /\ \A d \in ToSet(Deps[Top.of]) : Settled(d)
<1>1. mode = "run" /\ Top.todo = <<>> /\ Top.tasks = <<>> /\ Top.more = <<>> /\ Top.of # Nil
  BY Description DEF Lowered, Running
<1>2. EvalTypes /\ TaskInv /\ StackInv
  BY <1>1 DEF CompleteInv, RunInv
<1>3. /\ Top = stack[1] /\ Top \in Frames /\ FrameInv(Top, valid)
      /\ Len(stack) \in Nat \ {0} /\ Len(stack) # 1 /\ \A i \in 1..Len(stack) : stack[i] \in Frames
  BY <1>1, <1>2, TopFacts
<1>4. \A d \in ToSet(Deps[Top.of]) : Settled(d)
  BY <1>1, <1>3, FrameDone DEF Args
<1>5. 1 \in 1..(Len(stack) - 1) /\ 1 + 1 = 2 /\ 2 \in 1..Len(stack)
  <2>1. \A n \in Nat \ {0} : n # 1 => 1 \in 1..(n - 1) /\ 1 + 1 = 2 /\ 2 \in 1..n
    OBVIOUS
  <2>2. QED
    BY <1>3, <2>1, Zenon
<1>6. /\ stack[2] \in Frames /\ stack[2].todo # <<>>
      /\ Head(stack[2].todo) = Top.of /\ task[Top.of] = "none" /\ ~valid[Top.of]
  BY <1>2, <1>3, <1>5 DEF StackInv
<1>7. QED
  BY <1>1, <1>2, <1>4, <1>6

\* The new task is awaited.
LEMMA SpawnAwaited ==
    ASSUME CompleteInv, Lowered, NEW b \in Builder, b = Top.of,
           stack' = <<[stack[2] EXCEPT !.todo = Tail(@), !.tasks = Append(@, b)]>> \o Tail(Tail(stack))
    PROVE  Awaited(b)' /\ \A c : Awaited(c) => Awaited(c)'
<1>1. /\ EvalTypes /\ StackInv /\ Top.of # Nil /\ Top.tasks = <<>>
      /\ stack[2] \in Frames /\ stack[2].todo # <<>>
  BY SparkFacts
<1>2. stack[2].todo \in Seq(Builder) /\ stack[2].tasks \in Seq(Builder)
  BY <1>1 DEF Frames
<1>3. /\ Tail(stack[2].todo) \in Seq(Builder)
      /\ Append(stack[2].tasks, b) \in Seq(Builder)
      /\ ToSet(Append(stack[2].tasks, b)) = ToSet(stack[2].tasks) \cup {b}
  BY <1>1, <1>2, HeadAndTail, AppendElements
<1>4. PICK h : h = [stack[2] EXCEPT !.todo = Tail(@), !.tasks = Append(@, b)]
  OBVIOUS
<1>5. h \in Frames /\ h.tasks = Append(stack[2].tasks, b)
  BY <1>1, <1>3, <1>4 DEF Frames
<1>6. ToSet(stack[2].tasks) \subseteq ToSet(h.tasks) /\ b \in ToSet(h.tasks)
  BY <1>3, <1>5
<1>7. stack' = <<h>> \o Tail(Tail(stack))
  BY <1>4
<1>8. QED
  BY <1>1, <1>5, <1>6, <1>7, AwaitedPop

LEMMA HitAwaited ==
    ASSUME CompleteInv, Lowered, Top.of \in Builder,
           stack' = <<[stack[2] EXCEPT !.todo = Tail(@)]>> \o Tail(Tail(stack))
    PROVE  \A b : Awaited(b) => Awaited(b)'
<1>1. /\ EvalTypes /\ StackInv /\ Top.of # Nil /\ Top.tasks = <<>>
      /\ stack[2] \in Frames /\ stack[2].todo # <<>>
  BY SparkFacts
<1>2. stack[2].todo \in Seq(Builder)
  BY <1>1 DEF Frames
<1>3. Tail(stack[2].todo) \in Seq(Builder)
  BY <1>1, <1>2, HeadAndTail
<1>4. PICK h : h = [stack[2] EXCEPT !.todo = Tail(@)]
  OBVIOUS
<1>5. h \in Frames /\ h.tasks = stack[2].tasks
  BY <1>1, <1>3, <1>4 DEF Frames
<1>6. QED
  BY <1>1, <1>4, <1>5, AwaitedPop

LEMMA PureBuilt ==
    ASSUME Undisturbed, CompleteInv, BuiltInv, SparkPure \/ \E b \in Builder : PureTask(b)
    PROVE  BuiltInv'
<1>1. CASE SparkPure
  <2>1. /\ Lowered /\ Top.of \in Builder /\ Top.of \notin IO
        /\ UNCHANGED <<out, cacheVars, valid, value, mode, src, edits>>
        /\ task' = [task EXCEPT ![Top.of] = "new"] /\ job' = [job EXCEPT ![Top.of] = Nil]
        /\ stack' = <<[stack[2] EXCEPT !.todo = Tail(@), !.tasks = Append(@, Top.of)]>> \o Tail(Tail(stack))
    BY <1>1, FlakeAssumption DEF SparkPure, Spawn, IO, envVars
  <2>2. mode = "run" /\ \A b : Awaited(b) => Awaited(b)'
    BY <2>1, SparkFacts, SpawnAwaited
  <2>3. /\ \A b \in IO : task'[b] = task[b] /\ job'[b] = job[b] /\ valid'[b] = valid[b]
        /\ \A b \in Builder : task'[b] # "err"
    BY <2>1 DEF BuiltInv, CalmInv, IO
  <2>4. QED
    BY <2>1, <2>2, <2>3, Walked
<1>2. CASE \E b \in Builder : PureTask(b)
  <2>1. PICK b \in Builder : PureTask(b)
    BY <1>2
  <2>2. /\ mode = "join" /\ b \in Pure /\ valid' = [valid EXCEPT ![b] = TRUE] /\ task' = [task EXCEPT ![b] = "ok"]
        /\ UNCHANGED <<out, cacheVars, value, job, stack, mode, src, edits>>
    BY <2>1 DEF PureTask, Runs, Undisturbed, mainVars, envVars
  <2>3. /\ \A x \in IO : task'[x] = task[x] /\ job'[x] = job[x] /\ valid'[x] = valid[x]
        /\ \A x \in Builder : task'[x] # "err"
    <3>1. valid \in [Builder -> BOOLEAN] /\ task \in [Builder -> {"none", "new", "running", "built", "ok", "err"}]
      BY DEF CompleteInv, EvalTypes
    <3>2. \A x \in IO : x \in Builder /\ x # b
      BY <2>2 DEF IO
    <3>3. QED
      BY <2>2, <3>1, <3>2 DEF BuiltInv, CalmInv
  <2>4. \A x : Awaited(x) => Awaited(x)'
    BY <2>2 DEF Awaited
  <2>5. QED
    BY <2>2, <2>3, <2>4, Walked
<1>3. QED
  BY <1>1, <1>2

-----------------------------------------------------------------------------
(* What is built: what the tasks leave alone.                              *)

\* The sources and the outputs of finished builders stay.
ReadsStay ==
    /\ src' = src /\ DOMAIN out' \subseteq Nat
    /\ \A y \in IO : valid[y] =>
          value'[y] = value[y] /\ value[y] \in DOMAIN out' /\ out'[value[y]] = out[value[y]]

LEMMA InputsStay ==
    ASSUME NilIsNoTable, CalmInv, ValidInv, ReadsStay, NEW c \in IO, \A d \in ToSet(Deps[c]) : Settled(d)
    PROVE  /\ KeyOf(c)' = KeyOf(c)
           /\ \A p \in Inputs(KeyOf(c)) : Content(p)' = Content(p)
           /\ Make(KeyOf(c))' = Make(KeyOf(c))
<1>1. /\ \A i \in DOMAIN Deps[c] : Deps[c][i] \in ToSet(Deps[c]) /\ Final(Deps[c][i]) \in IO
      /\ KeyOf(c)[1] = CallOf[c] /\ CallOf[c] \in Call /\ DOMAIN KeyOf(c)[2] = DOMAIN Deps[c]
  BY KeyParts
<1>2. \A i \in DOMAIN Deps[c] : value'[Final(Deps[c][i])] = value[Final(Deps[c][i])]
  BY <1>1 DEF Settled, ReadsStay
<1>3. KeyOf(c)' = KeyOf(c)
  BY <1>2, SameKey
<1>4. PICK k : k = KeyOf(c)
  OBVIOUS
<1>5. \A p \in Inputs(k) : p \in Call \/ \E d \in IO : valid[d] /\ p = value[d]
  BY <1>4, InputsAreThere
<1>6. DOMAIN out \subseteq Nat /\ DOMAIN out' \subseteq Nat /\ src' = src
  BY DEF CalmInv, ReadsStay
<1>7. \A x \in Call : Content(x)' = Content(x)
  <2>1. \A x \in Call : Content(x)' = src'[x]
    BY <1>6, FlakeAssumption DEF Content
  <2>2. QED
    BY <1>6, <2>1, Contents
<1>8. \A d \in IO : valid[d] => Content(value[d]) = out[value[d]]
  BY <1>6, Contents DEF ValidInv, Built, Holds
<1>9. ASSUME NEW p \in DOMAIN out' PROVE Content(p)' = out'[p]
  BY <1>6, <1>9, FlakeAssumption DEF Content
<1>10. \A p \in Inputs(k) : Content(p)' = Content(p)
  <2>1. ASSUME NEW p \in Inputs(k), p \notin Call PROVE Content(p)' = Content(p)
    <3>1. PICK d \in IO : valid[d] /\ p = value[d]
      BY <1>5, <2>1
    <3>2. p \in DOMAIN out' /\ out'[p] = out[p]
      BY <3>1 DEF ReadsStay
    <3>3. QED
      BY <1>8, <1>9, <3>1, <3>2
  <2>2. QED
    BY <1>7, <2>1
<1>11. Make(k)' = Make(k)
  <2>1. \A i \in DOMAIN k[2] : Content(k[2][i])' = Content(k[2][i])
    BY <1>10 DEF Inputs, ToSet
  <2>2. [i \in DOMAIN k[2] |-> Content(k[2][i])'] = [i \in DOMAIN k[2] |-> Content(k[2][i])]
    BY <2>1
  <2>3. src'[k[1]] = src[k[1]]
    BY <1>6
  <2>4. QED
    BY <2>2, <2>3 DEF Make
<1>12. Make(KeyOf(c))' = Make(k)'
  BY <1>3, <1>4 DEF Make, Content
<1>13. QED
  BY <1>3, <1>4, <1>10, <1>11, <1>12

LEMMA BuiltKept ==
    ASSUME NilIsNoTable, CalmInv, ValidInv, TaskInv, ReadsStay, NEW c \in IO, valid[c],
           KeyOf(c) \in DOMAIN mem' /\ mem'[KeyOf(c)] = mem[KeyOf(c)],
           obj'[mem[KeyOf(c)]] = obj[mem[KeyOf(c)]]
    PROVE  Built(c)'
<1>1. Built(c) /\ \A d \in ToSet(Deps[c]) : Settled(d)
  BY DEF ValidInv, TaskInv, IO
<1>2. /\ KeyOf(c)' = KeyOf(c) /\ Make(KeyOf(c))' = Make(KeyOf(c))
      /\ \A p \in Inputs(KeyOf(c)) : Content(p)' = Content(p)
  BY <1>1, InputsStay
<1>3. value'[c] = value[c] /\ value[c] \in DOMAIN out' /\ out'[value[c]] = out[value[c]]
  BY DEF ReadsStay
<1>4. QED
  <2>1. PICK k, e, n : k = KeyOf(c) /\ e = obj[mem[k]] /\ n = value[c]
    OBVIOUS
  <2>2. Recorded(e, n, k)
    BY <1>1, <2>1 DEF Built
  <2>3. Recorded(e, n, k)'
    BY <1>2, <2>1, <2>2 DEF Recorded
  <2>4. obj'[mem'[k]] = e /\ value'[c] = n /\ KeyOf(c)' = k
    BY <1>2, <1>3, <2>1
  <2>5. Recorded(obj[mem[KeyOf(c)]], value[c], KeyOf(c))'
    BY <2>3, <2>4 DEF Recorded, Content
  <2>6. Holds(value[c], Make(KeyOf(c)))'
    BY <1>1, <1>2, <1>3 DEF Built, Holds
  <2>7. QED
    BY <1>1, <1>2, <1>3, <2>1, <2>5, <2>6 DEF Built

LEMMA ComputesKept ==
    ASSUME NilIsNoTable, CalmInv, ValidInv, TaskInv, ReadsStay, NEW c \in IO, Computes(c),
           task[c] # "none", task'[c] = task[c], job'[c] = job[c],
           obj'[job[c].ref] = obj[job[c].ref],
           job[c].key \in DOMAIN mem' <=> job[c].key \in DOMAIN mem,
           job[c].key \in DOMAIN mem => mem'[job[c].key] = mem[job[c].key],
           LET n == obj[job[c].ref].name IN n \in DOMAIN out => n \in DOMAIN out' /\ out'[n] = out[n]
    PROVE  Computes(c)'
<1>1. \A d \in ToSet(Deps[c]) : Settled(d)
  BY DEF TaskInv, IO
<1>2. /\ KeyOf(c)' = KeyOf(c) /\ Make(KeyOf(c))' = Make(KeyOf(c))
      /\ \A p \in Inputs(KeyOf(c)) : Content(p)' = Content(p)
  BY <1>1, InputsStay
<1>3. PICK k, e, stale : k = KeyOf(c) /\ e = obj[job[c].ref] /\ stale = job[c].stale
  OBVIOUS
<1>4. job[c].key = k /\ job'[c].key = k /\ KeyOf(c)' = k
  BY <1>2, <1>3 DEF Computes
<1>5. Digests(e, stale, k)'
  <2>1. Digests(e, stale, k)
    BY <1>3, <1>4 DEF Computes
  <2>2. QED
    BY <1>2, <1>3, <2>1 DEF Digests
<1>6. Make(k)' = Make(k)
  BY <1>2, <1>3, <1>4 DEF Make, Content
<1>7. task[c] = "built" => Holds(e.name, Make(k)) /\ Holds(e.name, Make(k))'
  <2>1. task[c] = "built" => Holds(e.name, Make(k))
    BY <1>3, <1>4 DEF Computes
  <2>2. QED
    BY <1>3, <1>6, <2>1 DEF Holds
<1>8. obj'[job'[c].ref] = e /\ job'[c].stale = stale
  BY <1>3
<1>9. Digests(obj[job[c].ref], job[c].stale, job[c].key)'
  BY <1>4, <1>5, <1>8 DEF Digests, Content
<1>10. (task[c] # "new" => k \in DOMAIN mem') /\ (k \in DOMAIN mem' => mem'[k] = job'[c].ref)
  BY <1>3, <1>4 DEF Computes
<1>11. task[c] = "built" => Holds(obj[job[c].ref].name, Make(job[c].key))'
  <2>1. Make(job[c].key)' = Make(k)'
    BY <1>4 DEF Make, Content
  <2>2. QED
    BY <1>7, <1>8, <2>1 DEF Holds
<1>12. QED
  BY <1>4, <1>9, <1>10, <1>11 DEF Computes

\* A key whose entry is that of a task is the key of the task.
LEMMA OneKey ==
    ASSUME MemInv, NEW b \in IO, JobOf(b), NEW k \in DOMAIN mem, mem[k] = job[b].ref
    PROVE  k = job[b].key
<1>1. \A x \in IO : x \notin Keys
  BY FlakeAssumption DEF IO, Keys
<1>2. k \in Keys /\ (mem[k] = k \/ (mem[k] \in IO /\ job[mem[k]].key = k))
  BY DEF MemInv
<1>3. job[b].key \in Keys /\ job[b].ref \in {b, job[b].key}
  BY DEF JobOf
<1>4. QED
  BY <1>1, <1>2, <1>3

\* The entry of a task is not that of another builder.
LEMMA OwnEntry ==
    ASSUME DistinctCalls, value \in [Builder -> Nat \cup {Nil}], NEW b \in IO, JobOf(b), NEW c \in IO, b # c
    PROVE  job[b].ref # c /\ job[b].ref # KeyOf(c) /\ job[b].key # KeyOf(c)
<1>1. KeyOf(c) \in Keys /\ KeyOf(c)[1] = CallOf[c] /\ \A x \in Builder : x \notin Keys
  BY KeyFacts
<1>2. CallOf[b] # CallOf[c]
  BY DEF DistinctCalls
<1>3. job[b].key \in Keys /\ job[b].key[1] = CallOf[b] /\ job[b].ref \in {b, job[b].key}
  BY DEF JobOf
<1>4. b \in Builder /\ c \in Builder
  BY DEF IO
<1>5. QED
  BY <1>1, <1>2, <1>3, <1>4

-----------------------------------------------------------------------------
(* What is built: the steps of the tasks.                                  *)

\* A task in flight, and the invariants it works under.
LEMMA TaskFacts ==
    ASSUME CompleteInv, ExclusiveInv, BuiltInv, mode = "join", NEW b \in IO, InFlight(b)
    PROVE  /\ EvalTypes /\ TaskInv /\ StackInv /\ MemInv /\ Distinct(obj, last) /\ JobInv /\ JobOf(b)
           /\ value \in [Builder -> Nat \cup {Nil}] /\ DOMAIN job = Builder
           /\ CalmInv /\ CacheInv /\ FlightInv /\ ValidInv /\ SavedInv
           /\ Computes(b) /\ Awaited(b) /\ ~valid[b] /\ b \in Builder
           /\ \A d \in ToSet(Deps[b]) : Settled(d)
<1>1. EvalTypes /\ TaskInv /\ StackInv /\ b \in Builder
  BY DEF CompleteInv, RunInv, IO
<1>2. /\ MemInv /\ Distinct(obj, last) /\ JobInv
      /\ value \in [Builder -> Nat \cup {Nil}] /\ DOMAIN job = Builder
  BY DEF ExclusiveInv, ObjInv
<1>3. CalmInv /\ CacheInv /\ FlightInv /\ ValidInv /\ SavedInv
  BY DEF BuiltInv
<1>4. task[b] # "none" /\ task[b] # "ok"
  BY DEF InFlight
<1>5. JobOf(b) /\ Computes(b) /\ Awaited(b)
  BY <1>2, <1>3, <1>4 DEF JobInv, FlightInv
<1>6. ~valid[b] /\ \A d \in ToSet(Deps[b]) : Settled(d)
  BY <1>1, <1>4 DEF TaskInv
<1>7. QED
  BY <1>1, <1>2, <1>3, <1>5, <1>6

LEMMA StartBuilt ==
    ASSUME NilIsNoTable, DistinctCalls, CompleteInv, ExclusiveInv, BuiltInv, NEW b \in IO, StartTask(b)
    PROVE  BuiltInv'
<1>1. /\ mode = "join" /\ task[b] = "new" /\ UNCHANGED <<out, disk, last, value, valid, job, stack, mode, src, edits>>
      /\ obj' = [obj EXCEPT ![job[b].ref] = [obj[job[b].ref] EXCEPT !.valid = FALSE]]
      /\ mem' = Put(mem, job[b].key, job[b].ref) /\ task' = [task EXCEPT ![b] = "running"]
  BY DEF StartTask, Runs, mainVars, envVars
<1>2. InFlight(b)
  BY <1>1 DEF InFlight
<1>3. /\ EvalTypes /\ TaskInv /\ MemInv /\ Distinct(obj, last) /\ JobInv /\ JobOf(b)
      /\ value \in [Builder -> Nat \cup {Nil}]
      /\ CalmInv /\ CacheInv /\ FlightInv /\ ValidInv
      /\ Computes(b) /\ Awaited(b) /\ b \in Builder /\ ~valid[b]
      /\ \A d \in ToSet(Deps[b]) : Settled(d)
  BY <1>1, <1>2, TaskFacts
<1>4. PICK k, r : k = job[b].key /\ r = job[b].ref
  OBVIOUS
<1>5. r \in DOMAIN obj /\ Entry(obj[r]) /\ k = KeyOf(b) /\ k[1] = CallOf[b]
  BY <1>3, <1>4, KeyParts DEF JobOf, Distinct, Computes
<1>6. /\ DOMAIN obj' = DOMAIN obj /\ \A x \in DOMAIN obj : x # r => obj'[x] = obj[x]
      /\ obj'[r] = [obj[r] EXCEPT !.valid = FALSE]
  BY <1>1, <1>4, <1>5
<1>7. \A x \in DOMAIN obj : obj'[x].name = obj[x].name /\ obj'[x].sources = obj[x].sources
  BY <1>5, <1>6 DEF Entry
<1>8. DOMAIN mem' = DOMAIN mem \cup {k} /\ mem'[k] = r /\ \A x \in DOMAIN mem : x # k => mem'[x] = mem[x]
  BY <1>1, <1>4 DEF Put
<1>9. \A x \in Builder : x # b => task'[x] = task[x]
  BY <1>1
<1>10. task'[b] = "running"
  BY <1>1, <1>3 DEF EvalTypes
<1>11. CalmInv'
  BY <1>1, <1>3, <1>9, <1>10 DEF CalmInv
<1>12. ReadsStay
  BY <1>1, <1>3 DEF ReadsStay, CalmInv, ValidInv, Built, Holds
<1>13. CacheInv'
  <2>1. ASSUME NEW x \in DOMAIN mem', NEW e, e = obj'[mem'[x]]
        PROVE  \/ Complete(x, e)'
               \/ \E c \in IO : task'[c] \in {"running", "built"} /\ job'[c].key = x
    <3>1. CASE x = k
      BY <1>1, <1>4, <1>10, <3>1
    <3>2. CASE x # k
      <4>1. x \in DOMAIN mem /\ mem'[x] = mem[x] /\ mem[x] \in DOMAIN obj
        BY <1>3, <1>8, <3>2 DEF MemInv
      <4>2. mem[x] # r
        BY <1>3, <1>4, <3>2, <4>1, OneKey
      <4>3. e = obj[mem[x]]
        BY <1>6, <2>1, <4>1, <4>2
      <4>4. CASE Complete(x, obj[mem[x]])
        BY <1>1, <4>3, <4>4 DEF Complete, Holds
      <4>5. CASE \E c \in IO : task[c] \in {"running", "built"} /\ job[c].key = x
        <5>1. PICK c \in IO : task[c] \in {"running", "built"} /\ job[c].key = x
          BY <4>5
        <5>2. c # b /\ c \in Builder
          BY <1>1, <5>1 DEF IO
        <5>3. QED
          BY <1>1, <1>9, <5>1, <5>2
      <4>6. QED
        BY <1>3, <4>1, <4>4, <4>5 DEF CacheInv
    <3>3. QED
      BY <3>1, <3>2
  <2>2. QED
    BY <2>1 DEF CacheInv, Complete, Holds
<1>14. FlightInv'
  <2>1. ASSUME NEW c \in IO, InFlight(c)', c # b PROVE Computes(c)'
    <3>1. task'[c] = task[c] /\ InFlight(c)
      BY <1>9, <2>1 DEF IO, InFlight
    <3>2. Computes(c) /\ task[c] # "none" /\ JobOf(c)
      BY <1>3, <3>1 DEF FlightInv, InFlight, JobInv
    <3>3. job[c].ref # r /\ job[c].ref \in DOMAIN obj /\ job[c].key = KeyOf(c)
      BY <1>3, <1>4, <2>1, <3>2, EntriesDiffer DEF JobOf, Computes
    <3>4. job[c].key # k
      BY <1>3, <1>4, <2>1, <3>3, OwnEntry
    <3>5. obj'[job[c].ref] = obj[job[c].ref]
      BY <1>6, <3>3
    <3>6. (job[c].key \in DOMAIN mem' <=> job[c].key \in DOMAIN mem)
          /\ (job[c].key \in DOMAIN mem => mem'[job[c].key] = mem[job[c].key])
      BY <1>8, <3>4
    <3>7. QED
      BY <1>1, <1>3, <1>12, <3>1, <3>2, <3>5, <3>6, ComputesKept
  <2>2. Computes(b)'
    <3>1. KeyOf(b)' = KeyOf(b) /\ \A p \in Inputs(KeyOf(b)) : Content(p)' = Content(p)
      BY <1>3, <1>12, InputsStay
    <3>2. PICK e, f, stale : e = obj[r] /\ f = obj'[r] /\ stale = job[b].stale
      OBVIOUS
    <3>3. f.sources = e.sources
      BY <1>5, <1>7, <3>2
    <3>4. Digests(e, stale, k)
      BY <1>3, <1>4, <3>2 DEF Computes
    <3>5. Digests(f, stale, k)'
      BY <1>5, <3>1, <3>3, <3>4 DEF Digests
    <3>6. KeyOf(b)' = k /\ job'[b].key = k /\ job'[b].ref = r /\ job'[b].stale = stale
      BY <1>1, <1>4, <1>5, <3>1, <3>2
    <3>7. Digests(obj[job[b].ref], job[b].stale, job[b].key)'
      BY <3>2, <3>5, <3>6 DEF Digests, Content
    <3>8. QED
      BY <1>8, <1>10, <3>6, <3>7 DEF Computes
  <2>3. ASSUME NEW c \in IO, InFlight(c)' PROVE Computes(c)' /\ Awaited(c)'
    <3>1. Computes(c)'
      BY <2>1, <2>2, <2>3
    <3>2. InFlight(c)
      BY <1>2, <1>9, <2>3 DEF InFlight, IO
    <3>3. Awaited(c)'
      BY <1>1, <1>3, <3>2 DEF FlightInv, Awaited
    <3>4. QED
      BY <3>1, <3>3
  <2>4. QED
    BY <2>3 DEF FlightInv
<1>15. ValidInv'
  <2>1. ASSUME NEW c \in IO, valid'[c] PROVE Built(c)'
    <3>1. valid[c] /\ c # b /\ Built(c)
      BY <1>1, <1>3, <2>1 DEF ValidInv
    <3>2. KeyOf(c) # k /\ mem[KeyOf(c)] # r /\ KeyOf(c) \in DOMAIN mem
      BY <1>3, <1>4, <3>1, OwnEntry DEF Built
    <3>3. mem[KeyOf(c)] \in DOMAIN obj
      BY <1>3, <3>2 DEF MemInv
    <3>4. /\ KeyOf(c) \in DOMAIN mem' /\ mem'[KeyOf(c)] = mem[KeyOf(c)]
          /\ obj'[mem[KeyOf(c)]] = obj[mem[KeyOf(c)]]
      BY <1>6, <1>8, <3>2, <3>3
    <3>5. QED
      BY <1>3, <1>12, <3>1, <3>4, BuiltKept
  <2>2. QED
    BY <2>1 DEF ValidInv
<1>16. SavedInv'
  BY <1>10 DEF SavedInv, InFlight
<1>17. QED
  BY <1>1, <1>11, <1>13, <1>14, <1>15, <1>16 DEF BuiltInv

LEMMA ProduceBuilt ==
    ASSUME NilIsNoTable, DistinctCalls, CompleteInv, ExclusiveInv, BuiltInv, NEW b \in IO, Produce(b)
    PROVE  BuiltInv'
<1>1. /\ mode = "join" /\ task[b] = "running" /\ UNCHANGED <<disk, mem, obj, value, valid, job, stack, mode, src, edits>>
      /\ out' = Put(out, obj[job[b].ref].name, Make(job[b].key)) /\ task' = [task EXCEPT ![b] = "built"]
  BY DEF Produce, Runs, mainVars, envVars, cacheVars
<1>2. InFlight(b)
  BY <1>1 DEF InFlight
<1>3. /\ EvalTypes /\ TaskInv /\ MemInv /\ Distinct(obj, last) /\ JobInv /\ JobOf(b)
      /\ value \in [Builder -> Nat \cup {Nil}]
      /\ CalmInv /\ CacheInv /\ FlightInv /\ ValidInv
      /\ Computes(b) /\ Awaited(b) /\ b \in Builder /\ ~valid[b]
      /\ \A d \in ToSet(Deps[b]) : Settled(d)
  BY <1>1, <1>2, TaskFacts
<1>4. PICK k, r, n, made : k = job[b].key /\ r = job[b].ref /\ n = obj[r].name /\ made = Make(k)
  OBVIOUS
<1>5. r \in DOMAIN obj /\ Entry(obj[r]) /\ n \in Nat /\ k = KeyOf(b) /\ k[1] = CallOf[b]
  BY <1>3, <1>4, KeyParts, EntryFields DEF JobOf, Distinct, Computes
<1>6. DOMAIN out' = DOMAIN out \cup {n} /\ out'[n] = made /\ \A x \in DOMAIN out : x # n => out'[x] = out[x]
  BY <1>1, <1>4 DEF Put
<1>7. \A x \in DOMAIN obj : x # r => obj[x].name # n
  BY <1>3, <1>4, <1>5 DEF Distinct
<1>8. (\A x \in Builder : x # b => task'[x] = task[x]) /\ task'[b] = "built"
  BY <1>1, <1>3 DEF EvalTypes
<1>9. CalmInv'
  BY <1>1, <1>3, <1>5, <1>6, <1>8 DEF CalmInv
<1>10. ReadsStay
  <2>1. ASSUME NEW y \in IO, valid[y] PROVE value[y] \in DOMAIN out' /\ out'[value[y]] = out[value[y]]
    <3>1. Built(y) /\ y # b
      BY <1>3, <2>1 DEF ValidInv
    <3>2. PICK x \in {y, KeyOf(y)} : x \in DOMAIN obj /\ obj[x].name = value[y]
      BY <1>3, <3>1 DEF Built, MemInv, Recorded
    <3>3. x # r
      BY <1>3, <1>4, <3>1, OwnEntry
    <3>4. value[y] # n /\ value[y] \in DOMAIN out
      BY <1>7, <3>1, <3>2, <3>3 DEF Built, Holds
    <3>5. QED
      BY <1>6, <3>4
  <2>2. QED
    BY <1>1, <1>9, <2>1 DEF ReadsStay, CalmInv
<1>11. \A x, c : x # n /\ Holds(x, c) => Holds(x, c)'
  BY <1>6 DEF Holds
<1>12. CacheInv'
  <2>1. ASSUME NEW x \in DOMAIN mem, NEW e, e = obj[mem[x]]
        PROVE  \/ Complete(x, e)'
               \/ \E c \in IO : task'[c] \in {"running", "built"} /\ job'[c].key = x
    <3>1. CASE x = k
      BY <1>1, <1>4, <1>8, <3>1
    <3>2. CASE x # k
      <4>1. mem[x] # r /\ mem[x] \in DOMAIN obj
        BY <1>3, <1>4, <3>2, OneKey DEF MemInv
      <4>2. e.name # n
        BY <1>7, <2>1, <4>1
      <4>3. CASE Complete(x, obj[mem[x]])
        BY <1>11, <2>1, <4>2, <4>3 DEF Complete
      <4>4. CASE \E c \in IO : task[c] \in {"running", "built"} /\ job[c].key = x
        <5>1. PICK c \in IO : task[c] \in {"running", "built"} /\ job[c].key = x
          BY <4>4
        <5>2. c # b /\ c \in Builder
          BY <1>4, <3>2, <5>1 DEF IO
        <5>3. QED
          BY <1>1, <1>8, <5>1, <5>2
      <4>5. QED
        BY <1>3, <4>3, <4>4 DEF CacheInv
    <3>3. QED
      BY <3>1, <3>2
  <2>2. QED
    BY <1>1, <2>1 DEF CacheInv, Complete, Holds
<1>13. FlightInv'
  <2>1. ASSUME NEW c \in IO, InFlight(c)', c # b PROVE Computes(c)'
    <3>1. task'[c] = task[c] /\ InFlight(c)
      BY <1>8, <2>1 DEF IO, InFlight
    <3>2. Computes(c) /\ task[c] # "none" /\ JobOf(c)
      BY <1>3, <3>1 DEF FlightInv, InFlight, JobInv
    <3>3. job[c].ref # r /\ job[c].ref \in DOMAIN obj
      BY <1>3, <1>4, <2>1, <3>2, EntriesDiffer DEF JobOf
    <3>4. obj[job[c].ref].name # n
      BY <1>7, <3>3
    <3>5. LET m == obj[job[c].ref].name IN m \in DOMAIN out => m \in DOMAIN out' /\ out'[m] = out[m]
      BY <1>6, <3>4
    <3>6. /\ job'[c] = job[c] /\ obj'[job[c].ref] = obj[job[c].ref]
          /\ (job[c].key \in DOMAIN mem' <=> job[c].key \in DOMAIN mem)
          /\ (job[c].key \in DOMAIN mem => mem'[job[c].key] = mem[job[c].key])
      BY <1>1
    <3>7. QED
      BY <1>3, <1>10, <3>1, <3>2, <3>5, <3>6, ComputesKept
  <2>2. Computes(b)'
    <3>1. /\ KeyOf(b)' = KeyOf(b) /\ \A p \in Inputs(KeyOf(b)) : Content(p)' = Content(p)
          /\ Make(KeyOf(b))' = Make(KeyOf(b))
      BY <1>3, <1>10, InputsStay
    <3>2. PICK e, stale : e = obj[r] /\ stale = job[b].stale
      OBVIOUS
    <3>3. Digests(e, stale, k)
      BY <1>3, <1>4, <3>2 DEF Computes
    <3>4. Digests(e, stale, k)'
      BY <1>5, <3>1, <3>3 DEF Digests
    <3>5. KeyOf(b)' = k /\ job'[b].key = k /\ job'[b].ref = r /\ job'[b].stale = stale /\ obj'[r] = e
      BY <1>1, <1>4, <1>5, <3>1, <3>2
    <3>6. Digests(obj[job[b].ref], job[b].stale, job[b].key)'
      BY <3>4, <3>5 DEF Digests, Content
    <3>7. Make(job[b].key)' = made
      BY <1>4, <1>5, <3>1, <3>5 DEF Make, Content
    <3>8. Holds(obj[job[b].ref].name, Make(job[b].key))'
      BY <1>4, <1>6, <3>2, <3>5, <3>7 DEF Holds
    <3>9. k \in DOMAIN mem' /\ mem'[k] = r
      BY <1>1, <1>3, <1>4 DEF Computes
    <3>10. QED
      BY <3>5, <3>6, <3>8, <3>9 DEF Computes
  <2>3. ASSUME NEW c \in IO, InFlight(c)' PROVE Computes(c)' /\ Awaited(c)'
    <3>1. Computes(c)'
      BY <2>1, <2>2, <2>3
    <3>2. InFlight(c)
      BY <1>2, <1>8, <2>3 DEF InFlight, IO
    <3>3. Awaited(c)'
      BY <1>1, <1>3, <3>2 DEF FlightInv, Awaited
    <3>4. QED
      BY <3>1, <3>3
  <2>4. QED
    BY <2>3 DEF FlightInv
<1>14. ValidInv'
  <2>1. ASSUME NEW c \in IO, valid'[c] PROVE Built(c)'
    <3>1. valid[c] /\ Built(c)
      BY <1>1, <1>3, <2>1 DEF ValidInv
    <3>2. /\ KeyOf(c) \in DOMAIN mem' /\ mem'[KeyOf(c)] = mem[KeyOf(c)]
          /\ obj'[mem[KeyOf(c)]] = obj[mem[KeyOf(c)]]
      BY <1>1, <3>1 DEF Built
    <3>3. QED
      BY <1>3, <1>10, <3>1, <3>2, BuiltKept
  <2>2. QED
    BY <2>1 DEF ValidInv
<1>15. SavedInv'
  BY <1>8 DEF SavedInv, InFlight
<1>16. QED
  BY <1>1, <1>9, <1>12, <1>13, <1>14, <1>15 DEF BuiltInv

LEMMA OkBuilt ==
    ASSUME NilIsNoTable, DistinctCalls, CompleteInv, ExclusiveInv, BuiltInv, NEW b \in IO, TaskOk(b)
    PROVE  BuiltInv'
<1>1. /\ mode = "join" /\ task[b] = "built" /\ UNCHANGED <<out, mem, last, job, stack, mode, src, edits>>
      /\ value' = [value EXCEPT ![b] = obj[job[b].ref].name] /\ valid' = [valid EXCEPT ![b] = TRUE]
      /\ disk' = Saved(mem, obj') /\ task' = [task EXCEPT ![b] = "ok"]
  BY DEF TaskOk, Runs, mainVars, envVars
<1>2. InFlight(b)
  BY <1>1 DEF InFlight
<1>3. /\ EvalTypes /\ TaskInv /\ MemInv /\ Distinct(obj, last) /\ JobInv /\ JobOf(b)
      /\ value \in [Builder -> Nat \cup {Nil}]
      /\ CalmInv /\ CacheInv /\ FlightInv /\ ValidInv
      /\ Computes(b) /\ Awaited(b) /\ b \in Builder /\ ~valid[b]
      /\ \A d \in ToSet(Deps[b]) : Settled(d)
  BY <1>1, <1>2, TaskFacts
<1>4. PICK k, r, e, stale : k = job[b].key /\ r = job[b].ref /\ e = obj[r] /\ stale = job[b].stale
  OBVIOUS
<1>5. r \in DOMAIN obj /\ Entry(e) /\ e.name \in Nat /\ k = KeyOf(b) /\ k[1] \in Call
  BY <1>3, <1>4, KeyParts, EntryFields DEF JobOf, Distinct, Computes
<1>6. PICK w : w = IF e.sources = Nil THEN Nil ELSE PutAll(e.sources, stale)
  OBVIOUS
<1>7. PICK done : /\ done = [e EXCEPT !.value = e.name, !.valid = TRUE, !.sources = w]
                  /\ obj' = [obj EXCEPT ![r] = done]
  BY <1>4, <1>6 DEF TaskOk
<1>8. done.valid = TRUE /\ done.value = e.name /\ done.name = e.name /\ done.sources = w
  <2>1. done = [e EXCEPT !.value = e.name, !.valid = TRUE, !.sources = w]
    BY <1>7
  <2>2. Entry(e)
    BY <1>5
  <2>3. QED
    BY <2>1, <2>2 DEF Entry
<1>9. /\ DOMAIN obj' = DOMAIN obj /\ \A x \in DOMAIN obj : x # r => obj'[x] = obj[x]
      /\ obj'[r] = done /\ \A x \in DOMAIN obj : obj'[x].name = obj[x].name
  BY <1>4, <1>5, <1>7, <1>8
<1>10. /\ \A x \in Builder : x # b => task'[x] = task[x] /\ valid'[x] = valid[x] /\ value'[x] = value[x]
       /\ task'[b] = "ok" /\ valid'[b] /\ value'[b] = e.name
  BY <1>1, <1>3, <1>4 DEF EvalTypes
<1>11. CalmInv'
  <2>1. disk'.whole = TRUE
    BY <1>1 DEF Saved
  <2>2. QED
    BY <1>1, <1>3, <1>10, <2>1 DEF CalmInv
<1>12. ReadsStay
  <2>1. ASSUME NEW y \in IO, valid[y] PROVE value'[y] = value[y] /\ value[y] \in DOMAIN out
    <3>1. y # b /\ y \in Builder /\ Built(y)
      BY <1>3, <2>1 DEF IO, ValidInv
    <3>2. QED
      BY <1>10, <3>1 DEF Built, Holds
  <2>2. QED
    BY <1>1, <1>11, <2>1 DEF ReadsStay, CalmInv
<1>13. /\ KeyOf(b)' = k /\ Make(KeyOf(b))' = Make(k)
       /\ Digests(e, stale, k) /\ Holds(e.name, Make(k)) /\ k \in DOMAIN mem /\ mem[k] = r
  BY <1>1, <1>3, <1>4, <1>5, <1>12, InputsStay DEF Computes
<1>14. Complete(k, done)
  <2>1. CASE k[1] \in Untracked
    BY <1>6, <1>8, <1>13, <2>1 DEF Complete, Digests
  <2>2. CASE k[1] \notin Untracked
    <3>1. w = PutAll(e.sources, stale) /\ DOMAIN w = Inputs(k) /\ \A p \in Inputs(k) : w[p] = Content(p)
      BY <1>6, <1>13, <2>2 DEF Digests
    <3>2. w # Nil
      BY <3>1 DEF NilIsNoTable
    <3>3. MadeFrom(k, w) = Make(k)
      BY <1>3, <1>5, <3>1, MakeIsMadeFrom DEF CalmInv
    <3>4. QED
      BY <1>8, <1>13, <2>2, <3>1, <3>2, <3>3 DEF Complete
  <2>3. QED
    BY <2>1, <2>2
<1>15. CacheInv'
  <2>1. ASSUME NEW x \in DOMAIN mem, NEW f, f = obj'[mem[x]]
        PROVE  \/ Complete(x, f)'
               \/ \E c \in IO : task'[c] \in {"running", "built"} /\ job'[c].key = x
    <3>1. CASE x = k
      <4>1. f = done
        BY <1>9, <1>13, <2>1, <3>1
      <4>2. QED
        BY <1>1, <1>14, <3>1, <4>1 DEF Complete, Holds
    <3>2. CASE x # k
      <4>1. mem[x] # r /\ mem[x] \in DOMAIN obj
        BY <1>3, <1>4, <3>2, OneKey DEF MemInv
      <4>2. f = obj[mem[x]]
        BY <1>9, <2>1, <4>1
      <4>3. CASE Complete(x, obj[mem[x]])
        BY <1>1, <4>2, <4>3 DEF Complete, Holds
      <4>4. CASE \E c \in IO : task[c] \in {"running", "built"} /\ job[c].key = x
        <5>1. PICK c \in IO : task[c] \in {"running", "built"} /\ job[c].key = x
          BY <4>4
        <5>2. c # b /\ c \in Builder
          BY <1>4, <3>2, <5>1 DEF IO
        <5>3. QED
          BY <1>1, <1>10, <5>1, <5>2
      <4>5. QED
        BY <1>3, <4>3, <4>4 DEF CacheInv
    <3>3. QED
      BY <3>1, <3>2
  <2>2. QED
    BY <1>1, <2>1 DEF CacheInv, Complete, Holds
<1>16. FlightInv'
  <2>1. ASSUME NEW c \in IO, InFlight(c)' PROVE Computes(c)' /\ Awaited(c)'
    <3>1. c # b /\ task'[c] = task[c] /\ InFlight(c)
      BY <1>10, <2>1 DEF IO, InFlight
    <3>2. Computes(c) /\ Awaited(c) /\ task[c] # "none" /\ JobOf(c)
      BY <1>3, <3>1 DEF FlightInv, InFlight, JobInv
    <3>3. job[c].ref # r /\ job[c].ref \in DOMAIN obj
      BY <1>3, <1>4, <3>1, <3>2, EntriesDiffer DEF JobOf
    <3>4. LET m == obj[job[c].ref].name IN m \in DOMAIN out => m \in DOMAIN out' /\ out'[m] = out[m]
      BY <1>1
    <3>5. /\ job'[c] = job[c] /\ obj'[job[c].ref] = obj[job[c].ref]
          /\ (job[c].key \in DOMAIN mem' <=> job[c].key \in DOMAIN mem)
          /\ (job[c].key \in DOMAIN mem => mem'[job[c].key] = mem[job[c].key])
      BY <1>1, <1>9, <3>3
    <3>6. Computes(c)'
      BY <1>3, <1>12, <3>1, <3>2, <3>4, <3>5, ComputesKept
    <3>7. Awaited(c)'
      BY <1>1, <3>2 DEF Awaited
    <3>8. QED
      BY <3>6, <3>7
  <2>2. QED
    BY <2>1 DEF FlightInv
<1>17. ValidInv'
  <2>1. Built(b)'
    <3>1. Holds(e.name, Make(k)) /\ r \in {b, k} /\ r \in DOMAIN obj' /\ obj'[r].name = e.name
      BY <1>3, <1>4, <1>5, <1>8, <1>9, <1>13 DEF JobOf
    <3>2. PICK made : made = Make(k) /\ Make(KeyOf(b))' = made
      BY <1>13
    <3>3. Holds(e.name, made)'
      BY <1>1, <3>1, <3>2 DEF Holds
    <3>4. Holds(value[b], Make(KeyOf(b)))'
      BY <1>10, <3>2, <3>3 DEF Holds
    <3>5. \A p \in Inputs(k) : Content(p)' = Content(p)
      BY <1>3, <1>5, <1>12, InputsStay
    <3>6. k[1] \notin Untracked => \A p \in Inputs(k) : done.sources[p] = Content(p)
      BY <1>6, <1>8, <1>13 DEF Digests
    <3>7. PICK n : n = e.name
      OBVIOUS
    <3>8. Recorded(done, n, k)'
      BY <1>8, <3>5, <3>6, <3>7 DEF Recorded
    <3>9. obj'[mem'[KeyOf(b)']] = done /\ value'[b] = n /\ KeyOf(b)' = k
      BY <1>1, <1>9, <1>10, <1>13, <3>7
    <3>10. Recorded(obj[mem[KeyOf(b)]], value[b], KeyOf(b))'
      BY <3>8, <3>9 DEF Recorded, Content
    <3>11. KeyOf(b)' \in DOMAIN mem' /\ mem'[KeyOf(b)'] \in {b, KeyOf(b)'}
      BY <1>1, <1>13, <3>1
    <3>12. QED
      BY <1>5, <1>10, <3>4, <3>10, <3>11 DEF Built
  <2>2. ASSUME NEW c \in IO, valid'[c], c # b PROVE Built(c)'
    <3>1. valid[c] /\ Built(c)
      BY <1>3, <1>10, <2>2 DEF IO, ValidInv
    <3>2. mem[KeyOf(c)] # r /\ KeyOf(c) \in DOMAIN mem
      BY <1>3, <1>4, <2>2, <3>1, OwnEntry DEF Built
    <3>3. mem[KeyOf(c)] \in DOMAIN obj
      BY <1>3, <3>2 DEF MemInv
    <3>4. /\ KeyOf(c) \in DOMAIN mem' /\ mem'[KeyOf(c)] = mem[KeyOf(c)]
          /\ obj'[mem[KeyOf(c)]] = obj[mem[KeyOf(c)]]
      BY <1>1, <1>9, <3>2, <3>3
    <3>5. QED
      BY <1>3, <1>12, <3>1, <3>4, BuiltKept
  <2>3. QED
    BY <2>1, <2>2 DEF ValidInv
<1>18. SavedInv'
  <2>1. disk'.results = [x \in DOMAIN mem |-> obj'[mem[x]]]
    BY <1>1 DEF Saved
  <2>2. QED
    BY <1>1, <2>1 DEF SavedInv
<1>19. QED
  BY <1>1, <1>11, <1>15, <1>16, <1>17, <1>18 DEF BuiltInv

\* No builder fails: none is made to, and its source is there.
LEMMA NoErr ==
    ASSUME Undisturbed, CompleteInv, ExclusiveInv, BuiltInv, NEW b \in Builder, TaskErr(b)
    PROVE  FALSE
<1>1. mode = "join" /\ task[b] \in {"running", "built"} /\ src[job[b].key[1]] = Nil
  BY DEF TaskErr, Runs, Undisturbed
<1>2. b \in IO
  BY <1>1 DEF ExclusiveInv, JobInv, IO
<1>3. job[b].key[1] \in Call
  BY <1>1, <1>2, KeyParts DEF ExclusiveInv, JobInv, JobOf
<1>4. src[job[b].key[1]] \in Nat
  BY <1>3 DEF BuiltInv, CalmInv
<1>5. QED
  BY <1>1, <1>4, FlakeAssumption

-----------------------------------------------------------------------------
(* What is built: sparkIO.                                                 *)

\* What sparkIO finds: the key of Top.of, whose arguments are lowered and whose
\* input files all exist.
LEMMA SparkIOFacts ==
    ASSUME NilIsNoTable, DistinctCalls, CompleteInv, ExclusiveInv, BuiltInv, SparkIO, NEW b \in IO, b = Top.of
    PROVE  /\ mode = "run" /\ EvalTypes /\ TaskInv /\ MemInv /\ Distinct(obj, last) /\ JobInv
           /\ value \in [Builder -> Nat \cup {Nil}] /\ DOMAIN job = Builder
           /\ CalmInv /\ CacheInv /\ FlightInv /\ ValidInv /\ SavedInv
           /\ Lowered /\ b \in Builder /\ task[b] = "none" /\ ~valid[b]
           /\ \A d \in ToSet(Deps[b]) : Settled(d)
           /\ Key = KeyOf(b) /\ Key[1] \in Call
           /\ InputFiles(Key) = Inputs(Key) /\ \A p \in Inputs(Key) : Content(p) # Nil
           /\ Key \in DOMAIN mem => mem[Key] = Key /\ Key \in DOMAIN obj /\ Complete(Key, obj[Key])
<1>1. Lowered /\ b \in Builder
  BY DEF SparkIO, IO
<1>2. /\ mode = "run" /\ EvalTypes /\ TaskInv /\ task[b] = "none" /\ ~valid[b]
      /\ \A d \in ToSet(Deps[b]) : Settled(d)
  BY <1>1, SparkFacts
<1>3. /\ MemInv /\ Distinct(obj, last) /\ JobInv
      /\ value \in [Builder -> Nat \cup {Nil}] /\ DOMAIN job = Builder
  BY <1>2 DEF ExclusiveInv, ObjInv
<1>4. CalmInv /\ CacheInv /\ FlightInv /\ ValidInv /\ SavedInv
  BY <1>2 DEF BuiltInv
<1>5. PICK k : k = Key /\ k = KeyOf(b)
  BY DEF Key
<1>6. k[1] = CallOf[b] /\ k[1] \in Call
  BY <1>5, KeyParts
<1>7. InputFiles(k) = Inputs(k) /\ \A p \in Inputs(k) : Content(p) # Nil
  BY <1>2, <1>4, <1>5, InputsAreThere
<1>8. ASSUME k \in DOMAIN mem PROVE mem[k] = k /\ k \in DOMAIN obj /\ Complete(k, obj[k])
  <2>1. mem[k] = k /\ k \in DOMAIN obj
    BY <1>2, <1>3, <1>5, <1>8, LoadedEntry
  <2>2. ASSUME NEW c \in IO, task[c] \in {"running", "built"}, job[c].key = k PROVE FALSE
    <3>1. JobOf(c)
      BY <1>3, <2>2 DEF JobInv
    <3>2. c # b
      BY <1>2, <2>2
    <3>3. QED
      BY <1>3, <1>5, <2>2, <3>1, <3>2, OwnEntry
  <2>3. Complete(k, obj[mem[k]])
    BY <1>4, <1>8, <2>2 DEF CacheInv
  <2>4. QED
    BY <2>1, <2>3
<1>9. QED
  BY <1>1, <1>2, <1>3, <1>4, <1>5, <1>6, <1>7, <1>8

\* A builder gets a task with the digests of its inputs.
LEMMA SpawnBuilt ==
    ASSUME NilIsNoTable, DistinctCalls, CompleteInv, ExclusiveInv, BuiltInv, SparkIO, NEW b \in IO, b = Top.of,
           UNCHANGED <<out, disk, mem, value, valid, mode, src, edits>>,
           NEW r, NEW stale, job' = [job EXCEPT ![b] = [key |-> Key, ref |-> r, stale |-> stale]],
           task' = [task EXCEPT ![b] = "new"],
           stack' = <<[stack[2] EXCEPT !.todo = Tail(@), !.tasks = Append(@, b)]>> \o Tail(Tail(stack)),
           r \in {b, Key}, DOMAIN obj' = DOMAIN obj \cup {r}, \A x \in DOMAIN obj : x # b => obj'[x] = obj[x],
           Digests(obj'[r], stale, Key), Key \in DOMAIN mem => r = Key
    PROVE  BuiltInv'
<1>1. /\ mode = "run" /\ EvalTypes /\ TaskInv /\ MemInv /\ Distinct(obj, last) /\ JobInv
      /\ value \in [Builder -> Nat \cup {Nil}] /\ DOMAIN job = Builder
      /\ CalmInv /\ CacheInv /\ FlightInv /\ ValidInv /\ SavedInv
      /\ Lowered /\ b \in Builder /\ task[b] = "none" /\ ~valid[b]
      /\ \A d \in ToSet(Deps[b]) : Settled(d)
      /\ Key = KeyOf(b) /\ (Key \in DOMAIN mem => mem[Key] = Key)
  BY SparkIOFacts
<1>2. PICK k, j : k = KeyOf(b) /\ j = [key |-> k, ref |-> r, stale |-> stale]
  OBVIOUS
<1>3. j.key = k /\ j.ref = r /\ j.stale = stale /\ job'[b] = j
  BY <1>1, <1>2
<1>4. /\ \A x \in Builder : x # b => task'[x] = task[x] /\ job'[x] = job[x]
      /\ task'[b] = "new"
  BY <1>1 DEF EvalTypes
<1>5. Awaited(b)' /\ \A c : Awaited(c) => Awaited(c)'
  BY <1>1, SpawnAwaited
<1>6. CalmInv'
  BY <1>1, <1>4 DEF CalmInv
<1>7. ReadsStay
  BY <1>1 DEF ReadsStay, CalmInv, ValidInv, Built, Holds
<1>8. \A x \in DOMAIN mem : mem[x] # b /\ mem[x] \in DOMAIN obj
  <2>1. b \notin Keys
    BY <1>1, FlakeAssumption DEF Keys
  <2>2. QED
    BY <1>1, <2>1 DEF MemInv
<1>9. CacheInv'
  <2>1. ASSUME NEW x \in DOMAIN mem, NEW f, f = obj'[mem[x]]
        PROVE  \/ Complete(x, f)'
               \/ \E c \in IO : task'[c] \in {"running", "built"} /\ job'[c].key = x
    <3>1. f = obj[mem[x]]
      BY <1>8, <2>1
    <3>2. CASE Complete(x, obj[mem[x]])
      BY <3>1, <3>2 DEF Complete, Holds
    <3>3. CASE \E c \in IO : task[c] \in {"running", "built"} /\ job[c].key = x
      <4>1. PICK c \in IO : task[c] \in {"running", "built"} /\ job[c].key = x
        BY <3>3
      <4>2. c # b /\ c \in Builder
        BY <1>1, <4>1 DEF IO
      <4>3. QED
        BY <1>4, <4>1, <4>2
    <3>4. QED
      BY <1>1, <3>2, <3>3 DEF CacheInv
  <2>2. QED
    BY <2>1 DEF CacheInv, Complete, Holds
<1>10. FlightInv'
  <2>1. ASSUME NEW c \in IO, InFlight(c)', c # b PROVE Computes(c)' /\ Awaited(c)'
    <3>1. task'[c] = task[c] /\ job'[c] = job[c] /\ InFlight(c)
      BY <1>4, <2>1 DEF IO, InFlight
    <3>2. Computes(c) /\ Awaited(c) /\ task[c] # "none" /\ JobOf(c)
      BY <1>1, <3>1 DEF FlightInv, InFlight, JobInv
    <3>3. job[c].ref # b /\ job[c].ref \in DOMAIN obj
      BY <1>1, <2>1, <3>2, OwnEntry DEF JobOf
    <3>4. LET m == obj[job[c].ref].name IN m \in DOMAIN out => m \in DOMAIN out' /\ out'[m] = out[m]
      OBVIOUS
    <3>5. /\ obj'[job[c].ref] = obj[job[c].ref]
          /\ (job[c].key \in DOMAIN mem' <=> job[c].key \in DOMAIN mem)
          /\ (job[c].key \in DOMAIN mem => mem'[job[c].key] = mem[job[c].key])
      BY <3>3
    <3>6. Computes(c)'
      BY <1>1, <1>7, <3>1, <3>2, <3>4, <3>5, ComputesKept
    <3>7. QED
      BY <1>5, <3>2, <3>6
  <2>2. Computes(b)'
    <3>1. KeyOf(b)' = k /\ \A p \in Inputs(k) : Content(p)' = Content(p)
      BY <1>1, <1>2, <1>7, InputsStay
    <3>2. PICK e : e = obj'[r]
      OBVIOUS
    <3>3. Digests(e, stale, k)
      BY <1>1, <1>2, <3>2
    <3>4. Digests(e, stale, k)'
      BY <3>1, <3>3 DEF Digests
    <3>5. job'[b].key = k /\ job'[b].ref = r /\ job'[b].stale = stale
      BY <1>3
    <3>6. Digests(obj[job[b].ref], job[b].stale, job[b].key)'
      BY <3>2, <3>4, <3>5 DEF Digests, Content
    <3>7. k \in DOMAIN mem' => mem'[k] = r
      BY <1>1, <1>2
    <3>8. QED
      BY <1>4, <3>1, <3>5, <3>6, <3>7 DEF Computes
  <2>3. QED
    BY <1>5, <2>1, <2>2 DEF FlightInv
<1>11. ValidInv'
  <2>1. ASSUME NEW c \in IO, valid'[c] PROVE Built(c)'
    <3>1. valid[c] /\ c # b
      BY <1>1, <2>1
    <3>2. KeyOf(c) \in DOMAIN mem
      BY <1>1, <3>1 DEF ValidInv, Built
    <3>3. /\ KeyOf(c) \in DOMAIN mem' /\ mem'[KeyOf(c)] = mem[KeyOf(c)]
          /\ obj'[mem[KeyOf(c)]] = obj[mem[KeyOf(c)]]
      BY <1>8, <3>2
    <3>4. QED
      BY <1>1, <1>7, <3>1, <3>3, BuiltKept
  <2>2. QED
    BY <2>1 DEF ValidInv
<1>12. SavedInv'
  BY <1>4 DEF SavedInv, InFlight
<1>13. QED
  BY <1>1, <1>6, <1>9, <1>10, <1>11, <1>12 DEF BuiltInv

LEMMA SparkFreshBuilt ==
    ASSUME NilIsNoTable, DistinctCalls, CompleteInv, ExclusiveInv, BuiltInv, SparkFresh
    PROVE  BuiltInv'
<1>1. PICK b \in IO : b = Top.of
  BY DEF SparkFresh, SparkIO
<1>2. /\ DOMAIN job = Builder /\ b \in Builder /\ task[b] = "none" /\ Key = KeyOf(b)
      /\ InputFiles(Key) = Inputs(Key) /\ \A p \in Inputs(Key) : Content(p) # Nil
      /\ Key \in DOMAIN mem => mem[Key] = Key /\ Complete(Key, obj[Key])
  BY <1>1, SparkIOFacts DEF SparkFresh
<1>3. PICK k : k = Key
  OBVIOUS
<1>4. k \notin DOMAIN mem
  <2>1. k \in DOMAIN mem => obj[mem[k]].valid # Nil
    BY <1>2, <1>3, FlakeAssumption DEF Complete
  <2>2. QED
    BY <1>3, <2>1 DEF SparkFresh, Known
<1>5. PICK inputs : inputs = IF k[1] \notin Untracked THEN InputFiles(k) ELSE {}
  OBVIOUS
<1>6. PICK e : e = IF k[1] \notin Untracked THEN [NewEntry EXCEPT !.sources = Empty] ELSE NewEntry
  OBVIOUS
<1>7. PICK stale : stale = [p \in inputs |-> Content(p)]
  OBVIOUS
<1>8. /\ obj' = Put(obj, b, e) /\ SparkIO /\ UNCHANGED <<out, disk, mem, value, valid, mode, src, edits>>
      /\ job' = [job EXCEPT ![b] = [key |-> k, ref |-> b, stale |-> stale]]
      /\ task' = [task EXCEPT ![b] = "new"]
      /\ stack' = <<[stack[2] EXCEPT !.todo = Tail(@), !.tasks = Append(@, b)]>> \o Tail(Tail(stack))
  <2>1. \A p \in inputs : Content(p) # Nil
    BY <1>2, <1>3, <1>5
  <2>2. /\ obj' = Put(obj, b, e) /\ SparkIO /\ UNCHANGED <<out, disk, mem, value, valid, envVars>>
        /\ \/ \E p \in inputs : Content(p) = Nil
           \/ mode' = mode /\ Spawn([key |-> k, ref |-> b, stale |-> stale])
    BY <1>1, <1>3, <1>4, <1>5, <1>6, <1>7 DEF SparkFresh
  <2>3. QED
    BY <1>1, <2>1, <2>2 DEF Spawn, envVars
<1>9. DOMAIN obj' = DOMAIN obj \cup {b} /\ obj'[b] = e /\ \A x \in DOMAIN obj : x # b => obj'[x] = obj[x]
  BY <1>8 DEF Put
<1>10. Digests(e, stale, k)
  <2>1. CASE k[1] \in Untracked
    BY <1>6, <2>1 DEF Digests, NewEntry
  <2>2. CASE k[1] \notin Untracked
    <3>1. e.sources = Empty /\ Empty # Nil
      BY <1>6, <2>2 DEF NewEntry, NilIsNoTable
    <3>2. inputs = Inputs(k) /\ DOMAIN stale = Inputs(k) /\ \A p \in Inputs(k) : stale[p] = Content(p)
      BY <1>2, <1>3, <1>5, <1>7, <2>2
    <3>3. DOMAIN PutAll(Empty, stale) = Inputs(k) /\ \A p \in Inputs(k) : PutAll(Empty, stale)[p] = Content(p)
      BY <3>2 DEF PutAll, Empty
    <3>4. QED
      BY <2>2, <3>1, <3>3 DEF Digests
  <2>3. QED
    BY <2>1, <2>2
<1>11. Digests(obj'[b], stale, Key)
  BY <1>3, <1>9, <1>10
<1>12. QED
  BY <1>1, <1>3, <1>4, <1>8, <1>9, <1>11, SpawnBuilt

LEMMA SparkKnownBuilt ==
    ASSUME NilIsNoTable, DistinctCalls, CompleteInv, ExclusiveInv, BuiltInv, SparkKnown
    PROVE  BuiltInv'
<1>1. PICK b \in IO : b = Top.of
  BY DEF SparkKnown, SparkIO
<1>2. /\ DOMAIN job = Builder /\ b \in Builder /\ task[b] = "none" /\ Key = KeyOf(b)
      /\ InputFiles(Key) = Inputs(Key) /\ \A p \in Inputs(Key) : Content(p) # Nil
      /\ Key \in DOMAIN mem => mem[Key] = Key /\ Key \in DOMAIN obj /\ Complete(Key, obj[Key])
  BY <1>1, SparkIOFacts DEF SparkKnown
<1>3. PICK k : k = Key /\ k \in DOMAIN mem /\ mem[k] = k /\ k \in DOMAIN obj /\ Complete(k, obj[k])
  BY <1>2 DEF SparkKnown, Known
<1>4. PICK s, inputs : s = obj[k].sources /\ inputs = IF s = Nil THEN {} ELSE DOMAIN s
  OBVIOUS
<1>5. PICK changed : changed = {p \in inputs : Content(p) # s[p]}
  OBVIOUS
<1>6. PICK stale : stale = [p \in changed |-> Content(p)]
  OBVIOUS
<1>7. \A p \in inputs : Content(p) # Nil
  BY <1>2, <1>3, <1>4 DEF Complete
<1>8. /\ UNCHANGED <<out, disk, mem, obj, value, valid, mode, src, edits>> /\ SparkIO
      /\ job' = [job EXCEPT ![b] = [key |-> k, ref |-> k, stale |-> stale]]
      /\ task' = [task EXCEPT ![b] = "new"]
      /\ stack' = <<[stack[2] EXCEPT !.todo = Tail(@), !.tasks = Append(@, b)]>> \o Tail(Tail(stack))
  <2>1. Found = obj[k]
    BY <1>3 DEF Found
  <2>2. /\ SparkIO /\ UNCHANGED <<out, cacheVars, value, valid, envVars>>
        /\ \/ \E p \in inputs : Content(p) = Nil
           \/ mode' = mode /\ Spawn([key |-> k, ref |-> mem[k], stale |-> stale])
    BY <1>3, <1>4, <1>5, <1>6, <2>1 DEF SparkKnown
  <2>3. QED
    BY <1>1, <1>3, <1>7, <2>2 DEF Spawn, envVars, cacheVars
<1>9. Digests(obj[k], stale, k)
  <2>1. CASE k[1] \in Untracked
    BY <1>3, <2>1 DEF Complete, Digests
  <2>2. CASE k[1] \notin Untracked
    <3>1. s # Nil /\ DOMAIN s = Inputs(k) /\ inputs = Inputs(k)
      BY <1>3, <1>4, <2>2 DEF Complete
    <3>2. DOMAIN stale = changed /\ \A p \in changed : stale[p] = Content(p)
      BY <1>6
    <3>3. DOMAIN PutAll(s, stale) = Inputs(k) /\ \A p \in Inputs(k) : PutAll(s, stale)[p] = Content(p)
      BY <1>5, <3>1, <3>2 DEF PutAll
    <3>4. QED
      BY <1>4, <2>2, <3>1, <3>3 DEF Digests
  <2>3. QED
    BY <2>1, <2>2
<1>10. DOMAIN obj' = DOMAIN obj \cup {k} /\ \A x \in DOMAIN obj : obj'[x] = obj[x]
  BY <1>3, <1>8
<1>11. Digests(obj'[k], stale, Key)
  BY <1>3, <1>8, <1>9
<1>12. QED
  BY <1>1, <1>3, <1>8, <1>10, <1>11, SpawnBuilt

LEMMA SparkHitBuilt ==
    ASSUME NilIsNoTable, DistinctCalls, CompleteInv, ExclusiveInv, BuiltInv, SparkHit
    PROVE  BuiltInv'
<1>1. PICK b \in IO : b = Top.of
  BY DEF SparkHit, SparkIO
<1>2. /\ mode = "run" /\ EvalTypes /\ TaskInv /\ Distinct(obj, last)
      /\ value \in [Builder -> Nat \cup {Nil}]
      /\ CalmInv /\ CacheInv /\ FlightInv /\ ValidInv /\ SavedInv
      /\ Lowered /\ b \in Builder /\ ~valid[b] /\ task[b] = "none"
      /\ \A d \in ToSet(Deps[b]) : Settled(d)
      /\ Key = KeyOf(b) /\ Key[1] \in Call
      /\ Key \in DOMAIN mem => mem[Key] = Key /\ Key \in DOMAIN obj /\ Complete(Key, obj[Key])
  BY <1>1, SparkIOFacts DEF SparkHit
<1>3. PICK k : k = KeyOf(b) /\ k = Key /\ k \in DOMAIN mem /\ mem[k] = k /\ k \in DOMAIN obj /\ Complete(k, obj[k])
  BY <1>2 DEF SparkHit, Known
<1>4. PICK e : e = obj[k]
  OBVIOUS
<1>5. /\ UNCHANGED <<out, disk, mem, obj, task, job, mode, src, edits>>
      /\ value' = [value EXCEPT ![b] = e.value] /\ valid' = [valid EXCEPT ![b] = TRUE]
      /\ e.sources # Nil /\ \A p \in DOMAIN e.sources : Content(p) = e.sources[p]
      /\ stack' = <<[stack[2] EXCEPT !.todo = Tail(@)]>> \o Tail(Tail(stack))
  BY <1>1, <1>3, <1>4 DEF SparkHit, Found, cacheVars, envVars
<1>6. e.name \in Nat /\ e.value = e.name
  BY <1>2, <1>3, <1>4, EntryFields DEF Distinct, Complete
<1>7. Holds(e.name, Make(k))
  <2>1. DOMAIN e.sources = Inputs(k) /\ Holds(e.name, MadeFrom(k, e.sources))
    BY <1>3, <1>4, <1>5 DEF Complete
  <2>2. k[1] \in Call /\ DOMAIN out \subseteq Nat /\ \A p \in Inputs(k) : e.sources[p] = Content(p)
    BY <1>2, <1>3, <1>5, <2>1 DEF CalmInv
  <2>3. MadeFrom(k, e.sources) = Make(k)
    BY <2>2, MakeIsMadeFrom
  <2>4. QED
    BY <2>1, <2>3
<1>8. /\ \A x \in Builder : x # b => value'[x] = value[x] /\ valid'[x] = valid[x]
      /\ value'[b] = e.name
  BY <1>2, <1>5, <1>6 DEF EvalTypes
<1>9. \A c : Awaited(c) => Awaited(c)'
  BY <1>1, <1>2, <1>5, HitAwaited
<1>10. CalmInv'
  BY <1>2, <1>5 DEF CalmInv
<1>11. ReadsStay
  <2>1. ASSUME NEW y \in IO, valid[y] PROVE value'[y] = value[y] /\ value[y] \in DOMAIN out
    <3>1. y # b /\ y \in Builder /\ Built(y)
      BY <1>2, <2>1 DEF IO, ValidInv
    <3>2. QED
      BY <1>8, <3>1 DEF Built, Holds
  <2>2. QED
    BY <1>5, <1>10, <2>1 DEF ReadsStay, CalmInv
<1>12. CacheInv'
  <2>1. \A x, f : Complete(x, f)' <=> Complete(x, f)
    BY <1>5 DEF Complete, Holds
  <2>2. QED
    BY <1>2, <1>5, <2>1 DEF CacheInv, Complete, Holds
<1>13. FlightInv'
  <2>1. ASSUME NEW c \in IO, InFlight(c)' PROVE Computes(c)' /\ Awaited(c)'
    <3>1. InFlight(c)
      BY <1>5, <2>1 DEF InFlight
    <3>2. Computes(c) /\ Awaited(c) /\ task[c] # "none"
      BY <1>2, <3>1 DEF FlightInv, InFlight
    <3>3. LET m == obj[job[c].ref].name IN m \in DOMAIN out => m \in DOMAIN out' /\ out'[m] = out[m]
      BY <1>5
    <3>4. /\ task'[c] = task[c] /\ job'[c] = job[c] /\ obj'[job[c].ref] = obj[job[c].ref]
          /\ (job[c].key \in DOMAIN mem' <=> job[c].key \in DOMAIN mem)
          /\ (job[c].key \in DOMAIN mem => mem'[job[c].key] = mem[job[c].key])
      BY <1>5
    <3>5. Computes(c)'
      BY <1>2, <1>11, <3>2, <3>3, <3>4, ComputesKept
    <3>6. QED
      BY <1>9, <3>2, <3>5
  <2>2. QED
    BY <2>1 DEF FlightInv
<1>14. ValidInv'
  <2>1. Built(b)'
    <3>1. KeyOf(b)' = k /\ Make(KeyOf(b))' = Make(k)
      BY <1>2, <1>3, <1>11, InputsStay
    <3>2. PICK made : made = Make(k) /\ Make(KeyOf(b))' = made
      BY <3>1
    <3>3. Holds(e.name, made)'
      BY <1>5, <1>7, <3>2 DEF Holds
    <3>4. Holds(value[b], Make(KeyOf(b)))'
      BY <1>8, <3>2, <3>3 DEF Holds
    <3>5. \A p \in Inputs(k) : Content(p)' = Content(p)
      BY <1>2, <1>3, <1>11, InputsStay
    <3>6. k[1] \notin Untracked => \A p \in Inputs(k) : e.sources[p] = Content(p)
      BY <1>3, <1>4, <1>5 DEF Complete
    <3>7. PICK n : n = e.name
      OBVIOUS
    <3>8. Recorded(e, n, k)'
      BY <3>5, <3>6, <3>7 DEF Recorded
    <3>9. obj'[mem'[KeyOf(b)']] = e /\ value'[b] = n /\ KeyOf(b)' = k
      BY <1>3, <1>4, <1>5, <1>8, <3>1, <3>7
    <3>10. Recorded(obj[mem[KeyOf(b)]], value[b], KeyOf(b))'
      BY <3>8, <3>9 DEF Recorded, Content
    <3>11. KeyOf(b)' \in DOMAIN mem' /\ mem'[KeyOf(b)'] \in {b, KeyOf(b)'}
      BY <1>3, <1>5, <3>1
    <3>12. QED
      BY <1>6, <1>8, <3>4, <3>10, <3>11 DEF Built
  <2>2. ASSUME NEW c \in IO, valid'[c], c # b PROVE Built(c)'
    <3>1. valid[c] /\ Built(c)
      BY <1>2, <1>8, <2>2 DEF IO, ValidInv
    <3>2. /\ KeyOf(c) \in DOMAIN mem' /\ mem'[KeyOf(c)] = mem[KeyOf(c)]
          /\ obj'[mem[KeyOf(c)]] = obj[mem[KeyOf(c)]]
      BY <1>5, <3>1 DEF Built
    <3>3. QED
      BY <1>2, <1>11, <3>1, <3>2, BuiltKept
  <2>3. QED
    BY <2>1, <2>2 DEF ValidInv
<1>15. SavedInv'
  BY <1>2, <1>5 DEF SavedInv, InFlight
<1>16. QED
  BY <1>2, <1>5, <1>10, <1>12, <1>13, <1>14, <1>15 DEF BuiltInv

-----------------------------------------------------------------------------
(* What is built: the theorem.                                             *)

\* The equation of Fresh.
Remade(b, f) ==
    [call |-> CallOf[b], source |-> src[CallOf[b]],
     args |-> [i \in DOMAIN Deps[b] |-> f[Final(Deps[b][i])]]]

LEMMA HeightBounds ==
    ASSUME NoCycles
    PROVE  /\ Cardinality(Builder) \in Nat
           /\ \A b \in IO : Height[b] \in Nat /\ Height[b] <= Cardinality(Builder)
           /\ \A b \in IO : \A i \in DOMAIN Deps[b] :
                 Final(Deps[b][i]) \in IO /\ Height[Final(Deps[b][i])] < Height[b]
<1>1. Cardinality(Builder) \in Nat
  BY FlakeAssumption, FS_CardinalityType
<1>2. /\ Height \in [Builder -> 0..Cardinality(Builder)]
      /\ \A b \in Builder : \A d \in ToSet(Deps[b]) : Height[Final(d)] < Height[b]
  BY DEF NoCycles, Height
<1>3. \A b \in IO : b \in Builder
  BY DEF IO
<1>4. \A b \in IO : Height[b] \in Nat /\ Height[b] <= Cardinality(Builder)
  BY <1>1, <1>2, <1>3
<1>5. ASSUME NEW b \in IO, NEW i \in DOMAIN Deps[b]
      PROVE  Final(Deps[b][i]) \in IO /\ Height[Final(Deps[b][i])] < Height[b]
  <2>1. Deps[b][i] \in ToSet(Deps[b]) /\ Final(Deps[b][i]) \in IO
    BY <1>5, KeyParts
  <2>2. QED
    BY <1>2, <1>3, <2>1
<1>6. QED
  BY <1>1, <1>4, <1>5

\* It has a solution, height by height.
LEMMA FreshExists ==
    ASSUME NoCycles
    PROVE  \E f : f = [b \in IO |-> Remade(b, f)]
<1> DEFINE UpTo(n, f) == DOMAIN f = IO /\ f = [b \in IO |-> f[b]] /\ \A b \in IO : Height[b] < n => f[b] = Remade(b, f)
           S == {n \in Nat : ~\E f : UpTo(n, f)}
<1>1. /\ Cardinality(Builder) \in Nat
      /\ \A b \in IO : Height[b] \in Nat /\ Height[b] <= Cardinality(Builder)
      /\ \A b \in IO : \A i \in DOMAIN Deps[b] :
            Final(Deps[b][i]) \in IO /\ Height[Final(Deps[b][i])] < Height[b]
  BY HeightBounds
<1>2. S = {}
  <2> SUFFICES ASSUME S # {} PROVE FALSE
    OBVIOUS
  <2>1. PICK m \in S : \A k \in S : m <= k
    <3>1. S \in SUBSET Nat
      OBVIOUS
    <3> HIDE DEF S
    <3>2. QED
      BY <3>1, Least
  <2>2. m \in Nat /\ ~\E f : UpTo(m, f)
    BY <2>1
  <2>3. m # 0
    <3>1. PICK f : f = [b \in IO |-> 0]
      OBVIOUS
    <3>2. UpTo(0, f)
      BY <1>1, <3>1
    <3>3. QED
      BY <2>2, <3>2
  <2>4. m - 1 \in Nat /\ m - 1 \notin S
    BY <2>1, <2>2, <2>3
  <2>5. PICK f : UpTo(m - 1, f)
    BY <2>4
  <2>6. PICK g : g = [b \in IO |-> Remade(b, f)]
    OBVIOUS
  <2>7. ASSUME NEW b \in IO, Height[b] < m PROVE g[b] = Remade(b, g)
    <3>1. ASSUME NEW i \in DOMAIN Deps[b] PROVE g[Final(Deps[b][i])] = f[Final(Deps[b][i])]
      <4>1. PICK d : d = Final(Deps[b][i])
        OBVIOUS
      <4>2. d \in IO /\ Height[d] < Height[b] /\ Height[d] \in Nat /\ Height[b] \in Nat
        BY <1>1, <3>1, <4>1
      <4>3. Height[d] < m - 1
        BY <2>2, <2>7, <4>2
      <4>4. f[d] = Remade(d, f)
        BY <2>5, <4>2, <4>3
      <4>5. g[d] = Remade(d, f)
        BY <2>6, <4>2
      <4>6. QED
        BY <4>1, <4>4, <4>5
    <3>2. [i \in DOMAIN Deps[b] |-> g[Final(Deps[b][i])]] = [i \in DOMAIN Deps[b] |-> f[Final(Deps[b][i])]]
      BY <3>1
    <3>3. Remade(b, g) = Remade(b, f)
      BY <3>2 DEF Remade
    <3>4. QED
      BY <2>6, <3>3
  <2>8. UpTo(m, g)
    BY <2>6, <2>7
  <2>9. QED
    BY <2>2, <2>8
<1>3. Cardinality(Builder) + 1 \in Nat /\ Cardinality(Builder) + 1 \notin S
  BY <1>1, <1>2
<1>4. PICK f : UpTo(Cardinality(Builder) + 1, f)
  BY <1>3
<1>5. \A b \in IO : Height[b] < Cardinality(Builder) + 1
  BY <1>1
<1>6. \A b \in IO : f[b] = Remade(b, f)
  BY <1>4, <1>5
<1>7. f = [b \in IO |-> Remade(b, f)]
  BY <1>4, <1>6
<1>8. QED
  BY <1>7

LEMMA FreshEquation ==
    ASSUME NoCycles
    PROVE  \A b \in IO : Fresh[b] = Remade(b, Fresh)
<1>1. Fresh = CHOOSE f : f = [b \in IO |-> Remade(b, f)]
  BY DEF Fresh, Remade
<1>2. Fresh = [b \in IO |-> Remade(b, Fresh)]
  BY <1>1, FreshExists
<1>3. QED
  BY <1>2

\* The file that a value names is what a build from nothing would make, if this is
\* so for the arguments.
LEMMA ValuesAreFresh ==
    ASSUME NoCycles, CalmInv, ValidInv, TaskInv
    PROVE  \A b \in IO : valid[b] => Content(value[b]) = Fresh[b]
<1> DEFINE S == {h \in Nat : \E b \in IO : Height[b] = h /\ valid[b] /\ Content(value[b]) # Fresh[b]}
<1> SUFFICES ASSUME S # {} PROVE FALSE
  BY HeightBounds
<1>1. PICK m \in S : \A k \in S : m <= k
  <2>1. S \in SUBSET Nat
    OBVIOUS
  <2> HIDE DEF S
  <2>2. QED
    BY <2>1, Least
<1>2. PICK b \in IO : Height[b] = m /\ valid[b] /\ Content(value[b]) # Fresh[b]
  BY <1>1
<1>3. /\ Holds(value[b], Make(KeyOf(b))) /\ value[b] \in DOMAIN out
      /\ \A d \in ToSet(Deps[b]) : Settled(d)
  BY <1>2 DEF ValidInv, Built, Holds, TaskInv, IO
<1>4. Content(value[b]) = Make(KeyOf(b))
  BY <1>3, Contents DEF Holds, CalmInv
<1>5. /\ KeyOf(b)[1] = CallOf[b] /\ DOMAIN KeyOf(b)[2] = DOMAIN Deps[b]
      /\ \A i \in DOMAIN Deps[b] : KeyOf(b)[2][i] = value[Final(Deps[b][i])] /\ Deps[b][i] \in ToSet(Deps[b])
  BY KeyParts
<1>6. ASSUME NEW i \in DOMAIN Deps[b] PROVE Content(KeyOf(b)[2][i]) = Fresh[Final(Deps[b][i])]
  <2>1. PICK d : d = Final(Deps[b][i])
    OBVIOUS
  <2>2. d \in IO /\ Height[d] < Height[b] /\ Height[d] \in Nat /\ Height[b] \in Nat
    BY <1>6, <2>1, HeightBounds
  <2>3. valid[d]
    BY <1>3, <1>5, <1>6, <2>1 DEF Settled
  <2>4. Height[d] \notin S
    BY <1>1, <1>2, <2>2
  <2>5. Content(value[d]) = Fresh[d]
    BY <2>2, <2>3, <2>4
  <2>6. QED
    BY <1>5, <1>6, <2>1, <2>5
<1>7. PICK k : k = KeyOf(b)
  OBVIOUS
<1>8. [i \in DOMAIN k[2] |-> Content(k[2][i])] = [i \in DOMAIN Deps[b] |-> Fresh[Final(Deps[b][i])]]
  BY <1>5, <1>6, <1>7
<1>9. Make(k) = Remade(b, Fresh)
  BY <1>5, <1>7, <1>8 DEF Make, Remade
<1>10. QED
  BY <1>2, <1>4, <1>7, <1>9, FreshEquation

LEMMA BuiltInit == Init => BuiltInv
<1> SUFFICES ASSUME Init PROVE BuiltInv
  OBVIOUS
<1>1. mode = "down" /\ DOMAIN disk.results = {} /\ disk.whole = TRUE /\ DOMAIN out = {}
  BY DEF Init, Empty
<1>2. CalmInv
  BY <1>1 DEF Init, CalmInv
<1>3. DiskComplete
  BY <1>1 DEF DiskComplete
<1>4. QED
  BY <1>1, <1>2, <1>3 DEF BuiltInv

LEMMA BuiltStep ==
    NilIsNoTable /\ DistinctCalls /\ Undisturbed /\ CompleteInv /\ ExclusiveInv /\ BuiltInv /\ [Next]_vars
    => BuiltInv'
<1> SUFFICES ASSUME NilIsNoTable, DistinctCalls, Undisturbed, CompleteInv, ExclusiveInv, BuiltInv, [Next]_vars
             PROVE  BuiltInv'
  OBVIOUS
<1>1. CASE MainStep
  BY <1>1, BeginBuilt, WalkBuilt, PureBuilt, SparkFreshBuilt, SparkKnownBuilt, SparkHitBuilt, DoneBuilt DEF MainStep
<1>2. CASE \E b \in Builder : TaskStep(b)
  <2>1. PICK b \in Builder : TaskStep(b)
    BY <1>2
  <2>2. CASE PureTask(b)
    BY <2>2, PureBuilt
  <2>3. CASE TaskErr(b)
    BY <2>3, NoErr
  <2>4. CASE StartTask(b) \/ Produce(b) \/ TaskOk(b)
    <3>1. b \in IO
      BY <2>4 DEF StartTask, Produce, TaskOk, Runs, ExclusiveInv, JobInv, IO
    <3>2. QED
      BY <2>4, <3>1, StartBuilt, ProduceBuilt, OkBuilt
  <2>5. QED
    BY <2>1, <2>2, <2>3, <2>4 DEF TaskStep
<1>3. CASE Exit \/ Crash \/ \E c \in Call : Edit(c)
  BY <1>3, OutsideBuilt
<1>4. CASE Finished \/ UNCHANGED vars
  BY <1>4, BuiltStays DEF Finished
<1>5. QED
  BY <1>1, <1>2, <1>3, <1>4 DEF Next

LEMMA BuiltMeans == NoCycles /\ CompleteInv /\ BuiltInv => ValidMeansBuilt
<1> SUFFICES ASSUME NoCycles, CompleteInv, BuiltInv, mode # "down", NEW b \in IO, valid[b]
             PROVE  value[b] # Nil /\ Content(value[b]) = Fresh[b]
  BY DEF ValidMeansBuilt
<1>1. CalmInv /\ ValidInv /\ TaskInv
  BY DEF BuiltInv, CalmInv, CompleteInv, EvalTypes, RunInv
<1>2. Content(value[b]) = Fresh[b]
  BY <1>1, ValuesAreFresh
<1>3. value[b] \in Nat
  BY <1>1 DEF ValidInv, Built
<1>4. QED
  BY <1>2, <1>3, FlakeAssumption

\* What is marked valid, by a task of this run or from the cache of an earlier one,
\* is what a build from nothing would make: for every build without cycles or two
\* builders of one call, whose builders do not fail, that is not killed, and whose
\* sources are edited in any way between runs.
THEOREM ValidIsBuilt ==
    ASSUME NilIsNoTable, NoCycles, DistinctCalls, Undisturbed
    PROVE  Spec => []ValidMeansBuilt
<1>1. CompleteInv /\ [Next]_vars => CompleteInv'
  BY CompleteKept
<1>2. CompleteInv /\ ExclusiveInv /\ [Next]_vars => ExclusiveInv'
  BY ExclusiveKept
<1>3. CompleteInv /\ ExclusiveInv /\ BuiltInv /\ [Next]_vars => BuiltInv'
  BY BuiltStep
<1>4. CompleteInv /\ BuiltInv => ValidMeansBuilt
  BY BuiltMeans
<1>5. QED
  BY <1>1, <1>2, <1>3, <1>4, CompleteInit, ExclusiveInit, BuiltInit, PTL DEF Spec

-----------------------------------------------------------------------------
(* What is recomputed.                                                     *)

\* The key that a builder has when its arguments have these values, and an entry
\* that names val[b], where it has what a build of these arguments would make, and
\* has the digests of all that was read.
KeyWith(b, val) == <<CallOf[b], [i \in DOMAIN Deps[b] |-> val[Final(Deps[b][i])]]>>
Kept(b, val, e) == Holds(val[b], Make(KeyWith(b, val))) /\ Recorded(e, val[b], KeyWith(b, val))

\* When nothing was edited since the last successful run, the cache has the values
\* of that run; a run gives the builders these values again, and tasks only to the
\* untracked ones.
Follows(val) ==
    /\ \A b \in IO \cap Needed : /\ KeyWith(b, val) \in DOMAIN mem
                                 /\ Kept(b, val, obj[mem[KeyWith(b, val)]])
                                 /\ valid[b] => value[b] = val[b]
    /\ \A b \in IO : task[b] # "none" => b \in Needed /\ CallOf[b] \in Untracked
Saves(val) ==
    \A b \in IO \cap Needed : /\ KeyWith(b, val) \in DOMAIN disk.results
                              /\ Kept(b, val, disk.results[KeyWith(b, val)])
RememberInv ==
    clean => \E val : /\ mode \in {"run", "join"} => Follows(val)
                      /\ mode \in {"ok", "down"} => Saves(val)

\* What the targets or a needed builder ask for is needed.
LEMMA WithinNeeded ==
    ASSUME NEW b \in Needed \cup {Nil}
    PROVE  Within(b) \subseteq Needed
<1> SUFFICES ASSUME NEW x \in Args(b) PROVE x \in Needed /\ Final(x) \in Needed
  BY DEF Within
<1>1. Needed \subseteq Builder
  BY DEF Needed
<1>2. x \in Builder /\ Final(x) \in Builder
  BY <1>1, Description
<1>3. ASSUME NEW S \in SUBSET Builder, ToSet(Targets) \subseteq S, \A c \in S : Uses(c) \subseteq S
      PROVE  x \in S /\ Final(x) \in S
  <2>1. x \in S
    <3>1. CASE b = Nil
      BY <1>3, <3>1 DEF Args
    <3>2. CASE b # Nil
      BY <1>3, <3>2 DEF Args, Needed, Uses
    <3>3. QED
      BY <3>1, <3>2
  <2>2. Final(x) \in S
    BY <1>2, <1>3, <2>1 DEF Final, Uses
  <2>3. QED
    BY <2>1, <2>2
<1>4. QED
  BY <1>2, <1>3 DEF Needed

\* Only needed builders are lowered.
LEMMA OfNeeded ==
    ASSUME EvalTypes, StackInv, Top.of # Nil
    PROVE  Top.of \in Needed
<1> DEFINE S == {n \in Nat : n < Len(stack) /\ stack[Len(stack) - n].of \notin Needed \cup {Nil}}
<1>1. /\ Len(stack) \in Nat \ {0} /\ Top = stack[1]
      /\ \A i \in 1..Len(stack) : stack[i] \in Frames
  BY TopFacts
<1>2. S = {}
  <2> SUFFICES ASSUME S # {} PROVE FALSE
    OBVIOUS
  <2>1. PICK m \in S : \A k \in S : m <= k
    <3>1. S \in SUBSET Nat
      OBVIOUS
    <3> HIDE DEF S
    <3>2. QED
      BY <3>1, Least
  <2>2. PICK i : i = Len(stack) - m
    OBVIOUS
  <2>3. m \in Nat /\ m < Len(stack) /\ i \in 1..Len(stack) /\ stack[i].of \notin Needed \cup {Nil}
    BY <1>1, <2>1, <2>2
  <2>4. stack[i].of = Nil <=> i = Len(stack)
    BY <2>3 DEF StackInv
  <2>5. i \in 1..(Len(stack) - 1) /\ i + 1 \in 1..Len(stack) /\ m - 1 \in Nat /\ Len(stack) - (m - 1) = i + 1
    BY <1>1, <2>2, <2>3, <2>4
  <2>6. m - 1 \notin S
    BY <2>1, <2>3, <2>5
  <2>7. stack[i + 1].of \in Needed \cup {Nil}
    BY <1>1, <2>3, <2>5, <2>6
  <2>8. /\ stack[i + 1].todo # <<>> /\ Head(stack[i + 1].todo) = stack[i].of
        /\ stack[i + 1] \in Frames /\ FrameInv(stack[i + 1], valid)
    BY <1>1, <2>5 DEF StackInv
  <2>9. stack[i].of \in ToSet(stack[i + 1].todo)
    BY <2>8, HeadAndTail DEF Frames
  <2>10. stack[i].of \in Within(stack[i + 1].of)
    BY <2>8, <2>9 DEF FrameInv, Pending
  <2>11. QED
    BY <2>3, <2>7, <2>10, WithinNeeded
<1>3. Len(stack) - 1 \in Nat /\ Len(stack) - 1 < Len(stack) /\ Len(stack) - (Len(stack) - 1) = 1
  BY <1>1
<1>4. QED
  BY <1>1, <1>2, <1>3

\* The parts of a key, and what they name.
LEMMA KeyWithParts ==
    ASSUME NEW val, NEW b \in IO
    PROVE  /\ KeyWith(b, val)[1] = CallOf[b] /\ CallOf[b] \in Call
           /\ DOMAIN KeyWith(b, val)[2] = DOMAIN Deps[b]
           /\ \A i \in DOMAIN Deps[b] : /\ KeyWith(b, val)[2][i] = val[Final(Deps[b][i])]
                                        /\ Deps[b][i] \in ToSet(Deps[b]) /\ Final(Deps[b][i]) \in IO
                                        /\ b \in Needed => Final(Deps[b][i]) \in Needed
           /\ (\A i \in DOMAIN Deps[b] : value[Final(Deps[b][i])] = val[Final(Deps[b][i])])
                 => KeyOf(b) = KeyWith(b, val)
<1>1. PICK s : s = [i \in DOMAIN Deps[b] |-> val[Final(Deps[b][i])]]
  OBVIOUS
<1>2. KeyWith(b, val) = <<CallOf[b], s>>
  BY <1>1 DEF KeyWith
<1>3. /\ CallOf[b] \in Call
      /\ \A i \in DOMAIN Deps[b] : Deps[b][i] \in ToSet(Deps[b]) /\ Final(Deps[b][i]) \in IO
  BY KeyParts
<1>4. ASSUME b \in Needed, NEW i \in DOMAIN Deps[b] PROVE Final(Deps[b][i]) \in Needed
  <2>1. Within(b) \subseteq Needed /\ b # Nil
    BY <1>4, WithinNeeded, Description DEF IO
  <2>2. QED
    BY <1>3, <1>4, <2>1 DEF Within, Args
<1>5. ASSUME \A i \in DOMAIN Deps[b] : value[Final(Deps[b][i])] = val[Final(Deps[b][i])]
      PROVE  KeyOf(b) = KeyWith(b, val)
  <2>1. [i \in DOMAIN Deps[b] |-> value[Final(Deps[b][i])]] = s
    BY <1>1, <1>5
  <2>2. QED
    BY <1>2, <2>1 DEF KeyOf
<1>6. QED
  BY <1>1, <1>2, <1>3, <1>4, <1>5

\* An entry is as good as it was when the files it is about are there.
LEMMA KeptStays ==
    ASSUME NEW val, NEW b \in IO \cap Needed, NEW e, NEW f, Kept(b, val, e),
           f.name = e.name, CallOf[b] \notin Untracked => f.sources = e.sources,
           \A d \in IO \cap Needed : /\ val[d] \in DOMAIN out /\ val[d] \in DOMAIN out'
                                     /\ out'[val[d]] = out[val[d]],
           src' = src, DOMAIN out \subseteq Nat, DOMAIN out' \subseteq Nat
    PROVE  Kept(b, val, f)'
<1>1. PICK k : k = KeyWith(b, val)
  OBVIOUS
<1>2. /\ k[1] = CallOf[b] /\ k[1] \in Call /\ DOMAIN k[2] = DOMAIN Deps[b]
      /\ \A i \in DOMAIN k[2] : \E d \in IO \cap Needed : k[2][i] = val[d]
  BY <1>1, KeyWithParts
<1>3. \A p \in Inputs(k) : p \in Call \/ \E d \in IO \cap Needed : p = val[d]
  BY <1>2 DEF Inputs, ToSet
<1>4. \A p \in Call : Content(p)' = Content(p)
  BY DEF Content
<1>5. ASSUME NEW p \in DOMAIN out', p \in DOMAIN out, out'[p] = out[p] PROVE Content(p)' = Content(p)
  BY <1>5, FlakeAssumption DEF Content
<1>6. \A p \in Inputs(k) : Content(p)' = Content(p)
  BY <1>3, <1>4, <1>5
<1>7. Make(k)' = Make(k)
  <2>1. \A i \in DOMAIN k[2] : Content(k[2][i])' = Content(k[2][i])
    BY <1>6 DEF Inputs, ToSet
  <2>2. [i \in DOMAIN k[2] |-> Content(k[2][i])'] = [i \in DOMAIN k[2] |-> Content(k[2][i])]
    BY <2>1
  <2>3. QED
    BY <2>2 DEF Make
<1>8. Holds(val[b], Make(k)) /\ Recorded(e, val[b], k)
  BY <1>1 DEF Kept
<1>9. Holds(val[b], Make(k))'
  BY <1>7, <1>8 DEF Holds
<1>10. Recorded(f, val[b], k)'
  BY <1>2, <1>6, <1>8 DEF Recorded
<1>11. QED
  BY <1>1, <1>9, <1>10 DEF Kept, Holds, Recorded, Make, Content

\* A step that leaves the files, the keys and what the entries name and digest.
LEMMA FollowsKept ==
    ASSUME NEW val, Follows(val), CalmInv, CalmInv', src' = src,
           \A n \in DOMAIN out : n \in DOMAIN out',
           \A b \in IO \cap Needed : val[b] \in DOMAIN out => out'[val[b]] = out[val[b]],
           \A k \in DOMAIN mem : /\ k \in DOMAIN mem' /\ mem'[k] = mem[k]
                                 /\ obj'[mem[k]].name = obj[mem[k]].name
                                 /\ k[1] \notin Untracked => obj'[mem[k]].sources = obj[mem[k]].sources,
           \A b \in IO \cap Needed : valid'[b] => value'[b] = val[b],
           \A b \in IO : task'[b] # "none" => b \in Needed /\ CallOf[b] \in Untracked
    PROVE  Follows(val)'
<1>1. DOMAIN out \subseteq Nat /\ DOMAIN out' \subseteq Nat
  BY DEF CalmInv
<1>2. \A d \in IO \cap Needed : /\ val[d] \in DOMAIN out /\ val[d] \in DOMAIN out'
                                /\ out'[val[d]] = out[val[d]]
  BY DEF Follows, Kept, Holds
<1>3. ASSUME NEW b \in IO \cap Needed
      PROVE  KeyWith(b, val) \in DOMAIN mem' /\ Kept(b, val, obj[mem[KeyWith(b, val)]])'
  <2>1. PICK k, e, f : k = KeyWith(b, val) /\ e = obj[mem[k]] /\ f = obj'[mem'[k]]
    OBVIOUS
  <2>2. k \in DOMAIN mem /\ Kept(b, val, e) /\ k[1] = CallOf[b]
    BY <2>1, KeyWithParts DEF Follows
  <2>3. k \in DOMAIN mem' /\ f.name = e.name /\ (CallOf[b] \notin Untracked => f.sources = e.sources)
    BY <2>1, <2>2
  <2>4. Kept(b, val, f)'
    BY <1>1, <1>2, <2>2, <2>3, KeptStays
  <2>5. QED
    BY <2>1, <2>3, <2>4 DEF Kept, Recorded, Holds, Make, Content
<1>4. QED
  BY <1>3 DEF Follows, KeyWith

-----------------------------------------------------------------------------
(* What is recomputed: the steps.                                          *)

\* Where nothing was edited, a builder that is sparked has the key it had, and the
\* entry of that key is finished.
LEMMA SparkRemembers ==
    ASSUME NilIsNoTable, DistinctCalls, CompleteInv, ExclusiveInv, BuiltInv, SparkIO, NEW b \in IO, b = Top.of,
           NEW val, Follows(val)
    PROVE  /\ b \in Needed /\ Key = KeyOf(b) /\ KeyOf(b) = KeyWith(b, val)
           /\ Key \in DOMAIN mem /\ mem[Key] = Key /\ Complete(Key, obj[Key])
           /\ Known /\ Kept(b, val, Found) /\ Found = obj[Key]
<1>1. /\ mode = "run" /\ EvalTypes /\ b \in Builder /\ Key = KeyOf(b)
      /\ \A d \in ToSet(Deps[b]) : Settled(d)
      /\ Key \in DOMAIN mem => mem[Key] = Key /\ Complete(Key, obj[Key])
  BY SparkIOFacts
<1>2. b \in Needed
  BY <1>1, OfNeeded, Description DEF CompleteInv, RunInv
<1>3. \A i \in DOMAIN Deps[b] : value[Final(Deps[b][i])] = val[Final(Deps[b][i])]
  <2>1. \A i \in DOMAIN Deps[b] : /\ Deps[b][i] \in ToSet(Deps[b]) /\ Final(Deps[b][i]) \in IO
                                  /\ Final(Deps[b][i]) \in Needed
    BY <1>2, KeyWithParts
  <2>2. QED
    BY <1>1, <2>1 DEF Settled, Follows
<1>4. KeyOf(b) = KeyWith(b, val)
  BY <1>3, KeyWithParts
<1>5. Key \in DOMAIN mem /\ Kept(b, val, obj[mem[Key]])
  BY <1>1, <1>2, <1>4 DEF Follows
<1>6. Known
  <2>1. obj[mem[Key]].valid # Nil
    BY <1>1, <1>5, FlakeAssumption DEF Complete
  <2>2. QED
    BY <1>5, <2>1 DEF Known
<1>7. QED
  BY <1>1, <1>2, <1>4, <1>5, <1>6 DEF Found

\* Steps that leave the files, the cache, and what is known of the builders.
LEMMA WalkRemembers ==
    ASSUME NEW val, Follows(val), CalmInv, CalmInv', UNCHANGED <<out, mem, obj, src>>,
           \A b \in IO : value'[b] = value[b] /\ valid'[b] = valid[b] /\ task'[b] = task[b]
    PROVE  Follows(val)'
<1>1. /\ \A b \in IO \cap Needed : valid'[b] => value'[b] = val[b]
      /\ \A b \in IO : task'[b] # "none" => b \in Needed /\ CallOf[b] \in Untracked
  BY DEF Follows
<1>2. QED
  BY <1>1, FollowsKept

LEMMA MainRemembers ==
    ASSUME NilIsNoTable, DistinctCalls, CompleteInv, ExclusiveInv, BuiltInv, BuiltInv',
           SparkPure \/ SparkFresh \/ SparkKnown \/ SparkHit \/ StartActive \/ StartValid \/ LowerArgs
           \/ JoinTask \/ Resume \/ LowerMore,
           NEW val, Follows(val)
    PROVE  Follows(val)'
<1>1. CalmInv /\ CalmInv' /\ EvalTypes
  BY DEF BuiltInv, CompleteInv
<1>2. CASE StartActive \/ StartValid \/ LowerArgs \/ JoinTask \/ Resume \/ LowerMore
  <2>1. UNCHANGED <<out, mem, obj, src, value, valid, task>>
    BY <1>2 DEF StartActive, StartValid, LowerArgs, JoinTask, Resume, LowerMore, cacheVars, evalVars, envVars
  <2>2. QED
    BY <1>1, <2>1, WalkRemembers
<1>3. CASE SparkPure
  <2>1. UNCHANGED <<out, mem, obj, src, value, valid>> /\ task' = [task EXCEPT ![Top.of] = "new"] /\ Top.of \notin IO
    BY <1>3 DEF SparkPure, Spawn, cacheVars, envVars, IO
  <2>2. QED
    BY <1>1, <2>1, WalkRemembers
<1>4. CASE SparkFresh
  <2>1. PICK b \in IO : b = Top.of
    BY <1>4 DEF SparkFresh, SparkIO
  <2>2. SparkIO /\ ~Known
    BY <1>4 DEF SparkFresh
  <2>3. QED
    BY <2>1, <2>2, SparkRemembers
<1>5. CASE SparkKnown
  <2>1. PICK b \in IO : b = Top.of
    BY <1>5 DEF SparkKnown, SparkIO
  <2>2. SparkIO /\ UNCHANGED <<out, mem, obj, src, value, valid>>
    BY <1>5 DEF SparkKnown, cacheVars, envVars
  <2>3. /\ b \in Needed /\ Key = KeyOf(b) /\ KeyOf(b) = KeyWith(b, val) /\ Complete(Key, obj[Key])
        /\ Kept(b, val, Found) /\ Found = obj[Key] /\ Key[1] = CallOf[b]
    BY <2>1, <2>2, SparkRemembers, KeyParts
  <2>4. CallOf[b] \in Untracked \/ mode' = "err"
    <3>1. ASSUME CallOf[b] \notin Untracked
          PROVE  /\ Found.sources # Nil /\ DOMAIN Found.sources = Inputs(Key)
                 /\ \A p \in Inputs(Key) : Found.sources[p] = Content(p)
      <4>1. Recorded(Found, val[b], Key)
        BY <2>3 DEF Kept
      <4>2. QED
        BY <2>3, <3>1, <4>1 DEF Complete, Recorded
    <3>2. PICK s, inputs : s = Found.sources /\ inputs = IF s = Nil THEN {} ELSE DOMAIN s
      OBVIOUS
    <3>3. \/ mode' = "err"
          \/ {p \in inputs : Content(p) # s[p]} # {}
          \/ s = Nil
      BY <1>5, <3>2 DEF SparkKnown
    <3>4. QED
      BY <3>1, <3>2, <3>3
  <2>5. mode' # "err"
    BY <1>1 DEF CalmInv
  <2>6. task' = [task EXCEPT ![b] = "new"]
    BY <1>5, <2>1, <2>5 DEF SparkKnown, Spawn
  <2>7. /\ \A c \in IO \cap Needed : valid'[c] => value'[c] = val[c]
        /\ \A c \in IO : task'[c] # "none" => c \in Needed /\ CallOf[c] \in Untracked
    <3>1. \A c \in IO : task'[c] = task[c] \/ c = b
      BY <2>6
    <3>2. QED
      BY <2>2, <2>3, <2>4, <2>5, <3>1 DEF Follows
  <2>8. QED
    BY <1>1, <2>2, <2>7, FollowsKept
<1>6. CASE SparkHit
  <2>1. PICK b \in IO : b = Top.of
    BY <1>6 DEF SparkHit, SparkIO
  <2>2. /\ SparkIO /\ UNCHANGED <<out, mem, obj, src, task>>
        /\ value' = [value EXCEPT ![b] = Found.value] /\ valid' = [valid EXCEPT ![b] = TRUE]
    BY <1>6, <2>1 DEF SparkHit, cacheVars, envVars
  <2>3. Complete(Key, Found) /\ Kept(b, val, Found)
    BY <2>1, <2>2, SparkRemembers
  <2>4. Found.value = val[b]
    BY <2>3 DEF Complete, Kept, Recorded
  <2>5. /\ \A c \in Builder : c # b => value'[c] = value[c] /\ valid'[c] = valid[c]
        /\ value'[b] = val[b]
    BY <1>1, <2>1, <2>2, <2>4 DEF EvalTypes, IO, ExclusiveInv, ObjInv
  <2>6. /\ \A c \in IO \cap Needed : valid'[c] => value'[c] = val[c]
        /\ \A c \in IO : task'[c] # "none" => c \in Needed /\ CallOf[c] \in Untracked
    BY <2>2, <2>5 DEF Follows, IO
  <2>7. QED
    BY <1>1, <2>2, <2>6, FollowsKept
<1>7. QED
  BY <1>2, <1>3, <1>4, <1>5, <1>6

LEMMA TaskRemembers ==
    ASSUME Undisturbed, NilIsNoTable, CompleteInv, ExclusiveInv, BuiltInv, BuiltInv',
           NEW b \in Builder, TaskStep(b), NEW val, Follows(val)
    PROVE  Follows(val)'
<1>1. CalmInv /\ CalmInv' /\ EvalTypes
  BY DEF BuiltInv, CompleteInv
<1>2. CASE PureTask(b)
  <2>1. /\ UNCHANGED <<out, mem, obj, src, value>> /\ b \notin IO
        /\ valid' = [valid EXCEPT ![b] = TRUE] /\ task' = [task EXCEPT ![b] = "ok"]
    BY <1>2 DEF PureTask, Undisturbed, cacheVars, envVars, IO
  <2>2. QED
    BY <1>1, <2>1, WalkRemembers DEF EvalTypes, IO
<1>3. CASE StartTask(b) \/ Produce(b) \/ TaskOk(b)
  <2>1. b \in IO /\ InFlight(b) /\ mode = "join"
    BY <1>3 DEF StartTask, Produce, TaskOk, Runs, ExclusiveInv, JobInv, IO, InFlight
  <2>2. /\ TaskInv /\ MemInv /\ Distinct(obj, last) /\ JobOf(b)
        /\ value \in [Builder -> Nat \cup {Nil}]
        /\ Computes(b) /\ \A d \in ToSet(Deps[b]) : Settled(d)
    BY <2>1, TaskFacts
  <2>3. PICK k, r, e : k = job[b].key /\ r = job[b].ref /\ e = obj[r]
    OBVIOUS
  <2>4. /\ b \in Needed /\ CallOf[b] \in Untracked /\ k = KeyOf(b) /\ k[1] = CallOf[b]
        /\ r \in DOMAIN obj /\ (k \in DOMAIN mem => mem[k] = r)
        /\ e.sources = Nil /\ (task[b] = "built" => Holds(e.name, Make(k)))
    BY <2>1, <2>2, <2>3, KeyParts DEF Follows, InFlight, Computes, Digests, JobOf
  <2>5. k = KeyWith(b, val)
    <3>1. \A i \in DOMAIN Deps[b] : value[Final(Deps[b][i])] = val[Final(Deps[b][i])]
      <4>1. \A i \in DOMAIN Deps[b] : /\ Deps[b][i] \in ToSet(Deps[b]) /\ Final(Deps[b][i]) \in IO
                                      /\ Final(Deps[b][i]) \in Needed
        BY <2>1, <2>4, KeyWithParts
      <4>2. QED
        BY <2>2, <4>1 DEF Settled, Follows
    <3>2. QED
      BY <2>1, <2>4, <3>1, KeyWithParts
  <2>6. k \in DOMAIN mem /\ mem[k] = r /\ e.name = val[b] /\ Holds(val[b], Make(k))
    BY <2>1, <2>3, <2>4, <2>5 DEF Follows, Kept, Recorded
  <2>7. \A x \in DOMAIN obj : Entry(obj[x])
    BY <2>2 DEF Distinct
  <2>8. CASE StartTask(b)
    <3>1. /\ UNCHANGED <<out, src, value, valid>> /\ obj' = [obj EXCEPT ![r].valid = FALSE]
          /\ mem' = Put(mem, k, r) /\ task' = [task EXCEPT ![b] = "running"]
      BY <2>3, <2>8 DEF StartTask, envVars
    <3>2. \A x \in DOMAIN mem : x \in DOMAIN mem' /\ mem'[x] = mem[x]
      BY <2>6, <3>1 DEF Put
    <3>3. \A x \in DOMAIN obj : obj'[x].name = obj[x].name /\ obj'[x].sources = obj[x].sources
      <4>1. obj'[r].name = e.name /\ obj'[r].sources = e.sources
        BY <2>3, <2>4, <2>7, <3>1 DEF Entry
      <4>2. QED
        BY <2>3, <3>1, <4>1
    <3>4. /\ \A c \in IO \cap Needed : valid'[c] => value'[c] = val[c]
          /\ \A c \in IO : task'[c] # "none" => c \in Needed /\ CallOf[c] \in Untracked
      <4>1. \A c \in IO : task'[c] = task[c] \/ c = b
        BY <3>1
      <4>2. QED
        BY <2>4, <3>1, <4>1 DEF Follows
    <3>5. \A x \in DOMAIN mem : mem[x] \in DOMAIN obj
      BY <2>2 DEF MemInv
    <3>6. QED
      BY <1>1, <3>1, <3>2, <3>3, <3>4, <3>5, FollowsKept
  <2>9. CASE Produce(b)
    <3>1. /\ UNCHANGED <<src, value, valid, mem, obj>> /\ out' = Put(out, val[b], Make(k))
          /\ task' = [task EXCEPT ![b] = "built"]
      BY <2>3, <2>6, <2>9 DEF Produce, envVars, cacheVars
    <3>2. DOMAIN out' = DOMAIN out /\ \A n \in DOMAIN out : out'[n] = out[n]
      BY <2>6, <3>1 DEF Put, Holds
    <3>3. /\ \A c \in IO \cap Needed : valid'[c] => value'[c] = val[c]
          /\ \A c \in IO : task'[c] # "none" => c \in Needed /\ CallOf[c] \in Untracked
      <4>1. \A c \in IO : task'[c] = task[c] \/ c = b
        BY <3>1
      <4>2. QED
        BY <2>4, <3>1, <4>1 DEF Follows
    <3>4. QED
      BY <1>1, <3>1, <3>2, <3>3, FollowsKept
  <2>10. CASE TaskOk(b)
    <3>1. PICK w : w = IF e.sources = Nil THEN Nil ELSE PutAll(e.sources, job[b].stale)
      OBVIOUS
    <3>2. PICK done : /\ done = [e EXCEPT !.value = e.name, !.valid = TRUE, !.sources = w]
                      /\ obj' = [obj EXCEPT ![r] = done]
      BY <2>3, <2>10, <3>1 DEF TaskOk
    <3>3. done.name = e.name /\ done.sources = Nil
      BY <2>3, <2>4, <2>7, <3>1, <3>2 DEF Entry
    <3>4. \A x \in DOMAIN obj : obj'[x].name = obj[x].name /\ obj'[x].sources = obj[x].sources
      BY <2>3, <2>4, <3>2, <3>3
    <3>5. /\ UNCHANGED <<out, src, mem>>
          /\ value' = [value EXCEPT ![b] = val[b]] /\ valid' = [valid EXCEPT ![b] = TRUE]
          /\ task' = [task EXCEPT ![b] = "ok"]
      BY <2>3, <2>6, <2>10 DEF TaskOk, envVars
    <3>6. /\ \A c \in IO \cap Needed : valid'[c] => value'[c] = val[c]
          /\ \A c \in IO : task'[c] # "none" => c \in Needed /\ CallOf[c] \in Untracked
      <4>1. \A c \in IO : c # b => task'[c] = task[c] /\ value'[c] = value[c] /\ valid'[c] = valid[c]
        BY <3>5
      <4>2. value'[b] = val[b]
        BY <2>2, <3>5
      <4>3. QED
        BY <2>4, <4>1, <4>2 DEF Follows
    <3>7. \A x \in DOMAIN mem : mem[x] \in DOMAIN obj
      BY <2>2 DEF MemInv
    <3>8. QED
      BY <1>1, <3>4, <3>5, <3>6, <3>7, FollowsKept
  <2>11. QED
    BY <1>3, <2>8, <2>9, <2>10
<1>4. QED
  BY <1>2, <1>3, NoErr DEF TaskStep

\* The saved cache is left as it is.
LEMMA SavedStays ==
    ASSUME NEW val, Saves(val), UNCHANGED <<out, disk, src>>, DOMAIN out \subseteq Nat
    PROVE  Saves(val)'
<1>1. ASSUME NEW b \in IO \cap Needed
      PROVE  KeyWith(b, val) \in DOMAIN disk'.results /\ Kept(b, val, disk.results[KeyWith(b, val)])'
  <2>1. PICK e : e = disk.results[KeyWith(b, val)]
    OBVIOUS
  <2>2. KeyWith(b, val) \in DOMAIN disk.results /\ Kept(b, val, e) /\ e = disk'.results[KeyWith(b, val)]
    BY <2>1 DEF Saves
  <2>3. \A d \in IO \cap Needed : val[d] \in DOMAIN out
    BY DEF Saves, Kept, Holds
  <2>4. Kept(b, val, e)'
    BY <2>2, <2>3, KeptStays
  <2>5. QED
    BY <2>2, <2>4 DEF Kept, Recorded, Holds, Make, Content, KeyWith
<1>2. QED
  BY <1>1 DEF Saves, KeyWith

\* A run begins with the cache that was saved.
LEMMA BeginRemembers ==
    ASSUME BuiltInv, BuiltInv', Begin, NEW val, Saves(val)
    PROVE  Follows(val)'
<1>1. /\ CalmInv /\ CalmInv' /\ DOMAIN out \subseteq Nat /\ DOMAIN out' \subseteq Nat /\ UNCHANGED <<out, src>>
      /\ mem' = [k \in DOMAIN disk.results |-> k] /\ obj' = disk.results
      /\ task' = [b \in Builder |-> "none"] /\ valid' = [b \in Builder |-> FALSE]
  BY DEF BuiltInv, Begin, CalmInv
<1>2. \A d \in IO \cap Needed : val[d] \in DOMAIN out
  BY DEF Saves, Kept, Holds
<1>3. ASSUME NEW b \in IO \cap Needed
      PROVE  KeyWith(b, val) \in DOMAIN mem' /\ Kept(b, val, obj[mem[KeyWith(b, val)]])'
  <2>1. PICK k, e : k = KeyWith(b, val) /\ e = disk.results[k]
    OBVIOUS
  <2>2. k \in DOMAIN disk.results /\ Kept(b, val, e)
    BY <2>1 DEF Saves
  <2>3. k \in DOMAIN mem' /\ e = obj'[mem'[k]]
    BY <1>1, <2>1, <2>2
  <2>4. Kept(b, val, e)'
    BY <1>1, <1>2, <2>2, KeptStays
  <2>5. QED
    BY <2>1, <2>3, <2>4 DEF Kept, Recorded, Holds, Make, Content
<1>4. \A b \in IO : b \in Builder
  BY DEF IO
<1>5. QED
  BY <1>1, <1>3, <1>4 DEF Follows, KeyWith

\* A successful run leaves its values in the cache.
LEMMA DoneRemembers ==
    ASSUME CompleteInv, CompleteInv', BuiltInv, BuiltInv', Done
    PROVE  \E val : Saves(val)'
<1>1. /\ mode = "run" /\ Top.tasks = <<>> /\ Top.of = Nil /\ mode' = "ok"
      /\ UNCHANGED <<out, disk, mem, obj, valid, value, task, src, edits>>
  BY DEF Done, Lowered, Running, cacheVars, evalVars
<1>2. FlightInv /\ ValidInv /\ SavedInv /\ CalmInv /\ CalmInv' /\ EvalTypes /\ StackInv
  BY <1>1 DEF BuiltInv, CompleteInv, RunInv
<1>3. \A b \in IO : ~InFlight(b)
  <2>1. Len(stack) = 1 /\ Top = stack[1]
    BY <1>1, <1>2, TopFacts
  <2>2. ToSet(Top.tasks) = {} /\ 1..Len(stack) = {1}
    BY <1>1, <2>1 DEF ToSet
  <2>3. \A b : ~Awaited(b)
    BY <2>1, <2>2 DEF Awaited
  <2>4. QED
    BY <1>2, <2>3 DEF FlightInv
<1>4. DOMAIN disk.results = DOMAIN mem /\ \A k \in DOMAIN mem : disk.results[k] = obj[mem[k]]
  BY <1>2, <1>3 DEF SavedInv
<1>5. \A b \in IO \cap Needed : valid[b]
  <2>1. SuccessIsComplete'
    BY LoweredIsNeeded, PTL
  <2>2. QED
    BY <1>1, <2>1 DEF SuccessIsComplete
<1>6. PICK val : val = value
  OBVIOUS
<1>7. ASSUME NEW b \in IO \cap Needed
      PROVE  KeyWith(b, val) \in DOMAIN disk.results /\ Kept(b, val, disk.results[KeyWith(b, val)])
  <2>1. Built(b) /\ KeyOf(b) = KeyWith(b, val)
    BY <1>2, <1>5, <1>6, KeyWithParts DEF ValidInv
  <2>2. QED
    BY <1>4, <1>6, <2>1 DEF Built, Kept
<1>8. Saves(val)
  BY <1>7 DEF Saves
<1>9. Saves(val)'
  <2>1. UNCHANGED <<out, disk, src>> /\ DOMAIN out \subseteq Nat
    BY <1>1, <1>2 DEF CalmInv
  <2>2. QED
    BY <1>8, <2>1, SavedStays
<1>10. QED
  BY <1>9

LEMMA RememberInit == Init => RememberInv
BY DEF Init, RememberInv

LEMMA RememberStep ==
    /\ NilIsNoTable /\ DistinctCalls /\ Undisturbed
    /\ CompleteInv /\ ExclusiveInv /\ BuiltInv /\ RememberInv /\ [Next]_vars
    /\ CompleteInv' /\ BuiltInv'
    => RememberInv'
<1> SUFFICES ASSUME NilIsNoTable, DistinctCalls, Undisturbed, CompleteInv, ExclusiveInv, BuiltInv,
                    RememberInv, [Next]_vars, CompleteInv', BuiltInv', clean'
             PROVE  \E val : /\ mode' \in {"run", "join"} => Follows(val)'
                             /\ mode' \in {"ok", "down"} => Saves(val)'
  BY DEF RememberInv
<1>1. CASE Done
  BY <1>1, DoneRemembers DEF Done
<1>2. CASE ~Done
  <2>1. clean
    BY <1>2 DEF Next, MainStep, TaskStep, Begin, StartActive, StartValid, LowerArgs, JoinTask, Resume, LowerMore,
           SparkPure, SparkFresh, SparkKnown, SparkHit, StartTask, Produce, TaskOk, TaskErr, PureTask,
           Exit, Crash, Edit, Finished, envVars, vars
  <2>2. PICK val : /\ mode \in {"run", "join"} => Follows(val)
                   /\ mode \in {"ok", "down"} => Saves(val)
    BY <2>1 DEF RememberInv
  <2>3. CASE Begin
    <3>1. mode = "down" /\ mode' \in {"run", "err"}
      BY <2>3 DEF Begin
    <3>2. QED
      BY <2>2, <2>3, <3>1, BeginRemembers
  <2>4. CASE SparkPure \/ SparkFresh \/ SparkKnown \/ SparkHit \/ StartActive \/ StartValid \/ LowerArgs
             \/ JoinTask \/ Resume \/ LowerMore
    <3>1. mode \in {"run", "join"} /\ mode' \in {"run", "join", "err"}
      BY <2>4 DEF SparkPure, SparkFresh, SparkKnown, SparkHit, StartActive, StartValid, LowerArgs, JoinTask,
                  Resume, LowerMore, SparkIO, Lowered, Running
    <3>2. Follows(val)'
      BY <2>2, <2>4, <3>1, MainRemembers
    <3>3. QED
      BY <3>1, <3>2
  <2>5. CASE \E b \in Builder : TaskStep(b)
    <3>1. PICK b \in Builder : TaskStep(b)
      BY <2>5
    <3>2. mode = "join" /\ mode' = "join"
      BY <3>1 DEF TaskStep, StartTask, Produce, TaskOk, TaskErr, PureTask, Runs, mainVars
    <3>3. QED
      BY <2>2, <3>1, <3>2, TaskRemembers
  <2>6. CASE Exit \/ Crash \/ (\E c \in Call : Edit(c)) \/ Finished \/ UNCHANGED vars
    <3>1. ~(\E c \in Call : Edit(c)) /\ ~Crash
      BY DEF Edit, Crash, Undisturbed
    <3>2. UNCHANGED <<out, disk, src, mem, obj, value, valid, task>>
      BY <2>6, <3>1 DEF Exit, Finished, vars, cacheVars, evalVars, envVars
    <3>3. CalmInv /\ CalmInv' /\ DOMAIN out \subseteq Nat
      BY DEF BuiltInv, CalmInv
    <3>4. ASSUME Saves(val) PROVE Saves(val)'
      <4>1. UNCHANGED <<out, disk, src>>
        BY <3>2
      <4>2. QED
        BY <3>3, <3>4, <4>1, SavedStays
    <3>5. ASSUME Follows(val) PROVE Follows(val)'
      <4>1. /\ UNCHANGED <<out, mem, obj, src>>
            /\ \A b \in IO : value'[b] = value[b] /\ valid'[b] = valid[b] /\ task'[b] = task[b]
        BY <3>2
      <4>2. QED
        BY <3>3, <3>5, <4>1, WalkRemembers
    <3>6. mode' = mode \/ (mode = "ok" /\ mode' = "down")
      BY <2>6, <3>1, <3>3 DEF Exit, Finished, vars, mainVars, CalmInv
    <3>7. QED
      BY <2>2, <3>4, <3>5, <3>6
  <2>7. QED
    BY <1>2, <2>3, <2>4, <2>5, <2>6 DEF Next, MainStep
<1>3. QED
  BY <1>1, <1>2

LEMMA RememberMeans == RememberInv => NothingRecomputed
BY DEF RememberInv, Follows, NothingRecomputed

\* A run after a successful one, with nothing edited in between, makes a task for no
\* builder whose inputs are tracked: under the same conditions.
THEOREM NothingIsRecomputed ==
    ASSUME NilIsNoTable, NoCycles, DistinctCalls, Undisturbed
    PROVE  Spec => []NothingRecomputed
<1>1. CompleteInv /\ [Next]_vars => CompleteInv'
  BY CompleteKept
<1>2. CompleteInv /\ ExclusiveInv /\ [Next]_vars => ExclusiveInv'
  BY ExclusiveKept
<1>3. CompleteInv /\ ExclusiveInv /\ BuiltInv /\ [Next]_vars => BuiltInv'
  BY BuiltStep
<1>4. /\ CompleteInv /\ ExclusiveInv /\ BuiltInv /\ RememberInv /\ [Next]_vars /\ CompleteInv' /\ BuiltInv'
      => RememberInv'
  BY RememberStep
<1>5. QED
  BY <1>1, <1>2, <1>3, <1>4, CompleteInit, ExclusiveInit, BuiltInit, RememberInit, RememberMeans, PTL DEF Spec

-----------------------------------------------------------------------------
(* The working directory.                                                  *)

Codes == [old : Dir, dir : Dir]
Threads == [st : {"none", "new", "live", "yielded", "done"}, cwd : Dir, db : Dir \cup {None},
            frames : Seq(Codes)]

DirTypes ==
    /\ cwd \in Dir /\ running \in Task \cup {None}
    /\ thread \in [Task -> Threads]

\* Frames nest: each was entered from the directory of the one below it, and a
\* database belongs to the outermost.
Nested(s, db) ==
    /\ s # <<>>
    /\ \A i \in 1..(Len(s) - 1) : s[i].old = s[i + 1].dir
    /\ db # None => s[Len(s)].dir = db

\* A coroutine that was suspended, or is a new task of sparkIO, is to go on in the
\* directory of its innermost frame.
ThreadInv(r) ==
    /\ r.st \in {"new", "live", "yielded"} => Nested(r.frames, r.db)
    /\ r.st = "new" => Len(r.frames) = 1
    /\ r.st = "yielded" \/ (r.st = "new" /\ r.db # None) => r.cwd = r.frames[1].dir

DirInv ==
    /\ DirTypes
    /\ \A t \in Task : ThreadInv(thread[t]) /\ (running = t <=> thread[t].st = "live")
    /\ OwnDirectory

\* The fields of a coroutine.
LEMMA ThreadTypes ==
    ASSUME NEW r \in Threads
    PROVE  /\ r.st \in {"none", "new", "live", "yielded", "done"}
           /\ r.cwd \in Dir /\ r.db \in Dir \cup {None} /\ r.frames \in Seq(Codes)
BY DEF Threads

LEMMA FrameTypes ==
    ASSUME NEW s \in Seq(Codes), s # <<>>
    PROVE  /\ Head(s) = s[1] /\ Len(s) \in Nat /\ Len(s) >= 1
           /\ \A i \in 1..Len(s) : s[i] \in Codes /\ s[i].old \in Dir /\ s[i].dir \in Dir
<1>1. Head(s) = s[1] /\ Len(s) \in Nat /\ Len(s) >= 1 /\ \A i \in 1..Len(s) : s[i] \in Codes
  OBVIOUS
<1>2. QED
  BY <1>1 DEF Codes

\* One coroutine changes, and control stays with the one that runs unless it is
\* this one.
LEMMA OneThread ==
    ASSUME DirInv, NEW t \in Task, NEW r \in Threads, ThreadInv(r),
           thread' = [thread EXCEPT ![t] = r], cwd' \in Dir, running' \in Task \cup {None},
           running' = t <=> r.st = "live",
           \A u \in Task \ {t} : running' = u <=> running = u,
           running' = t => cwd' = r.frames[1].dir,
           running' \in Task \ {t} => cwd' = cwd
    PROVE  DirInv'
<1>1. thread \in [Task -> Threads] /\ None \notin Task
  BY DirAssumption DEF DirInv, DirTypes
<1>2. thread'[t] = r /\ \A u \in Task \ {t} : thread'[u] = thread[u]
  BY <1>1
<1>3. DirTypes'
  BY <1>1 DEF DirTypes
<1>4. ASSUME NEW u \in Task PROVE ThreadInv(thread'[u]) /\ (running' = u <=> thread'[u].st = "live")
  BY <1>2 DEF DirInv
<1>5. ASSUME running' # None PROVE cwd' = Head(thread'[running'].frames).dir
  <2>1. CASE running' = t
    <3>1. r.frames \in Seq(Codes) /\ r.frames # <<>>
      BY <2>1, ThreadTypes DEF ThreadInv, Nested
    <3>2. QED
      BY <1>2, <2>1, <3>1, FrameTypes
  <2>2. CASE running' # t
    <3>1. running' \in Task \ {t} /\ running = running'
      BY <1>5, <2>2
    <3>2. QED
      BY <1>1, <1>2, <3>1 DEF DirInv, OwnDirectory, Innermost
  <2>3. QED
    BY <2>1, <2>2
<1>6. OwnDirectory'
  BY <1>5 DEF OwnDirectory, Innermost
<1>7. ThreadInv(r)' <=> ThreadInv(r)
  BY DEF ThreadInv, Nested
<1>8. QED
  BY <1>3, <1>4, <1>6 DEF DirInv, ThreadInv, Nested

\* The coroutine that runs.
LEMMA RunningFacts ==
    ASSUME DirInv, running # None
    PROVE  /\ running \in Task /\ thread[running] \in Threads /\ thread[running].st = "live"
           /\ thread[running].frames \in Seq(Codes) /\ Nested(thread[running].frames, thread[running].db)
           /\ cwd = thread[running].frames[1].dir /\ cwd \in Dir
<1>1. running \in Task /\ thread[running] \in Threads /\ cwd \in Dir
  BY DEF DirInv, DirTypes
<1>2. thread[running].st = "live" /\ Nested(thread[running].frames, thread[running].db)
  BY <1>1 DEF DirInv, ThreadInv
<1>3. thread[running].frames \in Seq(Codes) /\ thread[running].frames # <<>>
  BY <1>1, <1>2, ThreadTypes DEF Nested
<1>4. cwd = Head(thread[running].frames).dir
  BY DEF DirInv, OwnDirectory, Innermost
<1>5. QED
  BY <1>1, <1>2, <1>3, <1>4, FrameTypes

\* The saved directories are those the databases belong to.
LEMMA SavesKept ==
    ASSUME DirInv, SavedInPlace, running # None, SavesHere, Len(thread[running].frames) = 1
    PROVE  SavedInPlace'
<1>1. /\ thread[running].frames \in Seq(Codes) /\ Nested(thread[running].frames, thread[running].db)
      /\ cwd = thread[running].frames[1].dir
  BY RunningFacts
<1>2. thread[running].db # None => thread[running].db = cwd
  BY <1>1 DEF Nested
<1>3. QED
  BY <1>2 DEF SavesHere, SavedInPlace

\* Resuming: a new coroutine enters its directory, another goes back to where it was.
LEMMA ResumeKept ==
    ASSUME DirInv, NEW t \in Task, ResumeThread(t)
    PROVE  DirInv'
<1>1. /\ running = None /\ thread[t].st \in {"new", "yielded"} /\ running' = t /\ None \notin Task
      /\ thread \in [Task -> Threads] /\ ThreadInv(thread[t])
  BY DirAssumption DEF ResumeThread, DirInv, DirTypes
<1>2. PICK s : s = thread[t].frames
  OBVIOUS
<1>3. s \in Seq(Codes) /\ Nested(s, thread[t].db) /\ s # <<>>
  BY <1>1, <1>2, ThreadTypes DEF ThreadInv, Nested
<1>4. PICK back : back = IF thread[t].st = "new" THEN thread[t].cwd ELSE s[1].old
  OBVIOUS
<1>5. back \in Dir /\ s[1] \in Codes /\ s[1].dir \in Dir /\ Len(s) \in Nat /\ Len(s) >= 1 /\ Head(s) = s[1]
  BY <1>1, <1>3, <1>4, FrameTypes, ThreadTypes
<1>6. PICK c : c = [s[1] EXCEPT !.old = back]
  OBVIOUS
<1>7. c \in Codes /\ c.dir = s[1].dir /\ c.old = back
  BY <1>5, <1>6 DEF Codes
<1>8. PICK w : w = [s EXCEPT ![1] = c]
  OBVIOUS
<1>9. w \in Seq(Codes) /\ Len(w) = Len(s) /\ w[1] = c /\ (\A i \in 2..Len(s) : w[i] = s[i]) /\ w # <<>>
  BY <1>3, <1>5, <1>7, <1>8
<1>10. PICK r : r = [thread[t] EXCEPT !.st = "live", !.frames = w]
  OBVIOUS
<1>11. r \in Threads /\ r.st = "live" /\ r.frames = w /\ r.db = thread[t].db
  BY <1>1, <1>9, <1>10 DEF Threads
<1>12. thread' = [thread EXCEPT ![t] = r]
  <2>1. thread' = [thread EXCEPT ![t] = [thread[t] EXCEPT !.st = "live",
                      !.frames = [thread[t].frames EXCEPT ![1] = [thread[t].frames[1] EXCEPT
                          !.old = IF thread[t].st = "new" THEN thread[t].cwd ELSE thread[t].frames[1].old]]]]
    BY DEF ResumeThread, restored
  <2>2. QED
    BY <1>2, <1>4, <1>6, <1>8, <1>10, <2>1
<1>13. cwd' = s[1].dir
  <2>1. cwd' = IF thread[t].st = "new" /\ thread[t].db = None THEN Head(s).dir ELSE thread[t].cwd
    BY <1>2 DEF ResumeThread, Innermost, restored
  <2>2. thread[t].st = "yielded" \/ (thread[t].st = "new" /\ thread[t].db # None) => thread[t].cwd = s[1].dir
    BY <1>1, <1>2 DEF ThreadInv
  <2>3. QED
    BY <1>1, <1>5, <2>1, <2>2
<1>14. Nested(w, r.db)
  <2>1. ASSUME NEW i \in 1..(Len(w) - 1) PROVE w[i].old = w[i + 1].dir
    <3>1. i \in 1..(Len(s) - 1) /\ s[i].old = s[i + 1].dir /\ i + 1 \in 2..Len(s)
      BY <1>3, <1>5, <1>9, <2>1 DEF Nested
    <3>2. w[i + 1] = s[i + 1] /\ (i # 1 => w[i] = s[i])
      BY <1>5, <1>9, <3>1
    <3>3. CASE i = 1
      <4>1. thread[t].st = "yielded"
        BY <1>1, <1>2, <1>5, <3>1, <3>3 DEF ThreadInv
      <4>2. QED
        BY <1>4, <1>7, <1>9, <3>1, <3>2, <3>3, <4>1
    <3>4. QED
      BY <3>1, <3>2, <3>3
  <2>2. w[Len(w)].dir = s[Len(s)].dir
    BY <1>5, <1>7, <1>9
  <2>3. QED
    BY <1>3, <1>9, <1>11, <2>1, <2>2 DEF Nested
<1>15. ThreadInv(r)
  BY <1>11, <1>14 DEF ThreadInv
<1>16. QED
  <2>1. r.frames[1].dir = cwd' /\ cwd' \in Dir /\ running' = t
    BY <1>1, <1>5, <1>7, <1>9, <1>11, <1>13
  <2>2. \A u \in Task \ {t} : running' = u <=> running = u
    BY <1>1
  <2>3. QED
    BY <1>1, <1>11, <1>12, <1>15, <2>1, <2>2, OneThread

\* Suspending: the wrapper keeps the directory the coroutine is in.
LEMMA YieldKept ==
    ASSUME DirInv, Yield
    PROVE  DirInv'
<1>1. /\ running # None /\ running' = None /\ cwd' = cwd
      /\ thread' = [thread EXCEPT ![running] = [thread[running] EXCEPT !.st = "yielded", !.cwd = cwd]]
  BY DEF Yield
<1>2. PICK t \in Task : t = running
  BY <1>1, RunningFacts
<1>3. /\ thread[t] \in Threads /\ thread[t].frames \in Seq(Codes) /\ Nested(thread[t].frames, thread[t].db)
      /\ cwd = thread[t].frames[1].dir /\ cwd \in Dir
  BY <1>1, <1>2, RunningFacts
<1>4. PICK r : r = [thread[t] EXCEPT !.st = "yielded", !.cwd = cwd]
  OBVIOUS
<1>5. r \in Threads /\ r.st = "yielded" /\ r.cwd = cwd /\ r.db = thread[t].db /\ r.frames = thread[t].frames
  BY <1>3, <1>4 DEF Threads
<1>6. ThreadInv(r)
  BY <1>3, <1>5 DEF ThreadInv
<1>7. QED
  <2>1. thread' = [thread EXCEPT ![t] = r] /\ cwd' \in Dir /\ running' = None /\ None \notin Task
    BY <1>1, <1>2, <1>3, <1>4, DirAssumption
  <2>2. \A u \in Task \ {t} : running' = u <=> running = u
    BY <1>2, <2>1
  <2>3. QED
    BY <1>5, <1>6, <2>1, <2>2, OneThread

\* A new task begins in the directory of its creator, or of its database.
LEMMA SparksKept ==
    ASSUME DirInv, NEW t \in Task, NEW d \in Dir, SparkPureIn(t, d) \/ SparkIOIn(t, d)
    PROVE  DirInv'
<1>1. /\ running # None /\ thread[t].st = "none" /\ cwd' = cwd /\ running' = running /\ None \notin Dir
      /\ cwd \in Dir /\ running \in Task /\ thread[running].st = "live"
  BY RunningFacts, DirAssumption DEF SparkPureIn, SparkIOIn
<1>2. PICK old \in Dir, db \in Dir \cup {None} :
          thread' = [thread EXCEPT ![t] = createIn(old, db, d)] /\ (db # None => old = d /\ db = d)
  BY <1>1 DEF SparkPureIn, SparkIOIn
<1>3. PICK c : c = Code(old, d)
  OBVIOUS
<1>4. c \in Codes /\ c.dir = d
  BY <1>3 DEF Code, Codes
<1>5. PICK s : s = <<c>>
  OBVIOUS
<1>6. s \in Seq(Codes) /\ Len(s) = 1 /\ s[1] = c /\ s # <<>>
  BY <1>4, <1>5
<1>7. PICK r : r = [st |-> "new", cwd |-> old, db |-> db, frames |-> s]
  OBVIOUS
<1>8. r \in Threads /\ r.st = "new" /\ r.cwd = old /\ r.db = db /\ r.frames = s
  BY <1>6, <1>7 DEF Threads
<1>9. ThreadInv(r)
  <2>1. Nested(s, db)
    BY <1>2, <1>4, <1>6 DEF Nested
  <2>2. QED
    BY <1>2, <1>4, <1>6, <1>8, <2>1 DEF ThreadInv
<1>10. QED
  <2>1. thread' = [thread EXCEPT ![t] = r]
    BY <1>2, <1>3, <1>5, <1>7 DEF createIn
  <2>2. t # running
    BY <1>1
  <2>3. QED
    BY <1>1, <1>8, <1>9, <2>1, <2>2, OneThread

\* Entering a directory, and coming back from it.
LEMMA EnterKept ==
    ASSUME DirInv, NEW d \in Dir, Enter(d)
    PROVE  DirInv'
<1>1. /\ running # None /\ running' = running /\ cwd' = d
      /\ thread' = [thread EXCEPT ![running] = [thread[running] EXCEPT
                        !.frames = <<Code(cwd, d)>> \o thread[running].frames]]
  BY DEF Enter
<1>2. PICK t \in Task : t = running
  BY <1>1, RunningFacts
<1>3. PICK s : s = thread[t].frames
  OBVIOUS
<1>4. /\ thread[t] \in Threads /\ thread[t].st = "live" /\ s \in Seq(Codes) /\ Nested(s, thread[t].db)
      /\ cwd = s[1].dir /\ cwd \in Dir
  BY <1>1, <1>2, <1>3, RunningFacts
<1>5. PICK c : c = Code(cwd, d)
  OBVIOUS
<1>6. c \in Codes /\ c.dir = d /\ c.old = cwd
  BY <1>4, <1>5 DEF Code, Codes
<1>7. PICK w : w = <<c>> \o s
  OBVIOUS
<1>8. w \in Seq(Codes) /\ Len(w) = Len(s) + 1 /\ w[1] = c /\ (\A i \in 1..Len(s) : w[i + 1] = s[i])
  BY <1>4, <1>6, <1>7, PushProperties
<1>9. PICK r : r = [thread[t] EXCEPT !.frames = w]
  OBVIOUS
<1>10. r \in Threads /\ r.st = "live" /\ r.frames = w /\ r.db = thread[t].db
  BY <1>4, <1>8, <1>9 DEF Threads
<1>11. Nested(w, r.db)
  <2>1. Len(s) \in Nat /\ Len(s) >= 1 /\ s # <<>>
    BY <1>4, FrameTypes DEF Nested
  <2>2. ASSUME NEW i \in 1..(Len(w) - 1) PROVE w[i].old = w[i + 1].dir
    <3>1. i \in 1..Len(s) /\ w[i + 1] = s[i]
      BY <1>8, <2>1, <2>2
    <3>2. CASE i = 1
      BY <1>4, <1>6, <1>8, <3>1, <3>2
    <3>3. CASE i # 1
      <4>1. PICK j \in 1..(Len(s) - 1) : i = j + 1
        <5>1. i - 1 \in 1..(Len(s) - 1) /\ i = (i - 1) + 1
          BY <2>1, <3>1, <3>3
        <5>2. QED
          BY <5>1
      <4>2. s[j].old = s[j + 1].dir
        BY <1>4 DEF Nested
      <4>3. j \in 1..Len(s) /\ w[i] = s[j]
        BY <1>8, <2>1, <4>1
      <4>4. QED
        BY <3>1, <4>1, <4>2, <4>3
    <3>4. QED
      BY <3>2, <3>3
  <2>3. w # <<>> /\ w[Len(w)] = s[Len(s)]
    BY <1>8, <2>1
  <2>4. QED
    BY <1>4, <1>10, <2>2, <2>3 DEF Nested
<1>12. QED
  <2>1. thread' = [thread EXCEPT ![t] = r]
    BY <1>1, <1>2, <1>3, <1>5, <1>7, <1>9
  <2>2. ThreadInv(r)
    BY <1>10, <1>11 DEF ThreadInv
  <2>3. cwd' \in Dir /\ running' = t /\ running = t /\ r.frames[1].dir = cwd'
    BY <1>1, <1>2, <1>6, <1>8, <1>10
  <2>4. QED
    BY <1>10, <2>1, <2>2, <2>3, OneThread

LEMMA LeaveKept ==
    ASSUME DirInv, Leave
    PROVE  DirInv'
<1>1. /\ running # None /\ running' = running /\ Len(thread[running].frames) > 1
      /\ cwd' = Head(thread[running].frames).old
      /\ thread' = [thread EXCEPT ![running] = [thread[running] EXCEPT !.frames = Tail(thread[running].frames)]]
  BY DEF Leave, Innermost
<1>2. PICK t \in Task : t = running
  BY <1>1, RunningFacts
<1>3. PICK s : s = thread[t].frames
  OBVIOUS
<1>4. /\ thread[t] \in Threads /\ thread[t].st = "live" /\ s \in Seq(Codes) /\ Nested(s, thread[t].db)
      /\ s # <<>> /\ Len(s) > 1
  BY <1>1, <1>2, <1>3, RunningFacts DEF Nested
<1>5. /\ Head(s) = s[1] /\ Len(s) \in Nat /\ s[1].old \in Dir
  BY <1>4, FrameTypes
<1>6. PICK w : w = Tail(s)
  OBVIOUS
<1>7. w \in Seq(Codes) /\ Len(w) = Len(s) - 1 /\ (\A i \in 1..(Len(s) - 1) : w[i] = s[i + 1])
  BY <1>4, <1>6, HeadAndTail
<1>8. PICK r : r = [thread[t] EXCEPT !.frames = w]
  OBVIOUS
<1>9. r \in Threads /\ r.st = "live" /\ r.frames = w /\ r.db = thread[t].db
  BY <1>4, <1>7, <1>8 DEF Threads
<1>10. Nested(w, r.db)
  <2>1. ASSUME NEW i \in 1..(Len(w) - 1) PROVE w[i].old = w[i + 1].dir
    <3>1. PICK j \in 1..(Len(s) - 1) : j = i + 1
      BY <1>4, <1>5, <1>7, <2>1
    <3>2. s[j].old = s[j + 1].dir
      BY <1>4 DEF Nested
    <3>3. w[i] = s[j] /\ w[j] = s[j + 1]
      BY <1>4, <1>5, <1>7, <2>1, <3>1
    <3>4. QED
      BY <3>1, <3>2, <3>3
  <2>2. w # <<>> /\ w[Len(w)] = s[Len(s)]
    BY <1>4, <1>5, <1>7
  <2>3. QED
    BY <1>4, <1>9, <2>1, <2>2 DEF Nested
<1>11. QED
  <2>1. thread' = [thread EXCEPT ![t] = r]
    BY <1>1, <1>2, <1>3, <1>6, <1>8
  <2>2. ThreadInv(r)
    BY <1>9, <1>10 DEF ThreadInv
  <2>3. s[1].old = s[2].dir /\ w[1] = s[2]
    BY <1>4, <1>5, <1>7 DEF Nested
  <2>4. cwd' \in Dir /\ running' = t /\ running = t /\ r.frames[1].dir = cwd'
    BY <1>1, <1>2, <1>3, <1>5, <1>9, <2>3
  <2>5. QED
    BY <1>9, <2>1, <2>2, <2>4, OneThread

LEMMA NoFrames == <<>> \in Seq(Codes)
OBVIOUS

\* A task ends, in whatever directory.
LEMMA EndKept ==
    ASSUME DirInv, Return \/ Raise
    PROVE  DirInv'
<1>1. /\ running # None /\ running' = None /\ None \notin Task
      /\ thread' = [thread EXCEPT ![running] = [thread[running] EXCEPT !.st = "done", !.frames = <<>>]]
  BY DirAssumption DEF Return, Raise
<1>2. PICK t \in Task : t = running
  BY <1>1, RunningFacts
<1>3. /\ thread[t] \in Threads /\ thread[t].frames \in Seq(Codes) /\ thread[t].frames # <<>> /\ cwd \in Dir
  BY <1>1, <1>2, RunningFacts DEF Nested
<1>4. Head(thread[t].frames).old \in Dir
  BY <1>3, FrameTypes
<1>5. cwd' \in Dir
  BY <1>1, <1>2, <1>3, <1>4 DEF Return, Raise, Innermost
<1>6. PICK r : r = [thread[t] EXCEPT !.st = "done", !.frames = <<>>]
  OBVIOUS
<1>7. r \in Threads /\ r.st = "done"
  BY <1>3, <1>6, NoFrames DEF Threads
<1>8. QED
  <2>1. thread' = [thread EXCEPT ![t] = r] /\ ThreadInv(r)
    BY <1>1, <1>2, <1>6, <1>7 DEF ThreadInv
  <2>2. \A u \in Task \ {t} : running' = u <=> running = u
    BY <1>1, <1>2
  <2>3. QED
    BY <1>1, <1>5, <1>7, <2>1, <2>2, OneThread

LEMMA FatalKept ==
    ASSUME DirInv, Fatal
    PROVE  DirInv'
<1>1. /\ running' = None /\ cwd' = cwd /\ None \notin Task /\ cwd \in Dir
      /\ thread' = [t \in Task |-> [thread[t] EXCEPT !.st = "done", !.frames = <<>>]]
      /\ thread \in [Task -> Threads]
  BY DirAssumption DEF Fatal, DirInv, DirTypes
<1>2. ASSUME NEW t \in Task
      PROVE  thread'[t] \in Threads /\ thread'[t].st = "done"
  <2>1. PICK r \in Threads : r = thread[t]
    BY <1>1
  <2>2. thread'[t] = [r EXCEPT !.st = "done", !.frames = <<>>]
    BY <1>1, <2>1
  <2>3. QED
    BY <2>2, NoFrames DEF Threads
<1>3. DirTypes'
  BY <1>1, <1>2 DEF DirTypes
<1>4. QED
  BY <1>1, <1>2, <1>3 DEF DirInv, ThreadInv, OwnDirectory

LEMMA DirInitInv == DirInit => DirInv /\ SavedInPlace
<1> SUFFICES ASSUME DirInit PROVE DirInv /\ SavedInPlace
  OBVIOUS
<1>1. Code(Root, Root) \in Codes /\ Code(Root, Root).dir = Root
  BY DirAssumption DEF Code, Codes
<1>2. PICK s : s = <<Code(Root, Root)>>
  OBVIOUS
<1>3. s \in Seq(Codes) /\ Len(s) = 1 /\ s # <<>>
  BY <1>1, <1>2
<1>4. PICK r : r = [NoThread EXCEPT !.st = "new", !.frames = s]
  OBVIOUS
<1>5. r \in Threads /\ r.st = "new" /\ r.frames = s /\ r.db = None
  BY <1>3, <1>4, DirAssumption DEF NoThread, Threads
<1>6. NoThread \in Threads /\ NoThread.st = "none"
  BY DirAssumption DEF NoThread, Threads
<1>7. \A t \in Task : thread[t] = IF t = Main THEN r ELSE NoThread
  BY <1>2, <1>4 DEF DirInit
<1>8. ThreadInv(r) /\ ThreadInv(NoThread)
  <2>1. Nested(s, None)
    BY <1>3 DEF Nested
  <2>2. QED
    BY <1>3, <1>5, <1>6, <2>1 DEF ThreadInv
<1>9. DirTypes /\ OwnDirectory /\ SavedInPlace /\ running = None /\ None \notin Task
  BY <1>2, <1>4, <1>5, <1>6, DirAssumption DEF DirInit, DirTypes, OwnDirectory, SavedInPlace
<1>10. QED
  BY <1>5, <1>6, <1>7, <1>8, <1>9 DEF DirInv

LEMMA DirKept == DirInv /\ [DirNext]_dirVars => DirInv'
<1> SUFFICES ASSUME DirInv, [DirNext]_dirVars PROVE DirInv'
  OBVIOUS
<1>1. CASE UNCHANGED dirVars \/ DirDone
  BY <1>1 DEF DirDone, dirVars, DirInv, DirTypes, ThreadInv, Nested, OwnDirectory, Innermost
<1>2. CASE \E t \in Task : ResumeThread(t)
  BY <1>2, ResumeKept
<1>3. CASE \E d \in Dir : Enter(d) \/ \E t \in Task : SparkPureIn(t, d) \/ SparkIOIn(t, d)
  BY <1>3, EnterKept, SparksKept
<1>4. CASE Yield \/ Leave \/ Return \/ Raise \/ Fatal
  BY <1>4, YieldKept, LeaveKept, EndKept, FatalKept
<1>5. QED
  BY <1>1, <1>2, <1>3, <1>4 DEF DirNext

\* Without errors in code that an IO builder runs in another directory, what ends
\* a task saves its database where it belongs.
LEMMA DirSavesKept ==
    ASSUME ~RaiseNested
    PROVE  DirInv /\ SavedInPlace /\ [DirNext]_dirVars => SavedInPlace'
<1> SUFFICES ASSUME DirInv, SavedInPlace, [DirNext]_dirVars PROVE SavedInPlace'
  OBVIOUS
<1>1. CASE saves' = saves
  BY <1>1 DEF SavedInPlace
<1>2. CASE Return
  BY <1>2, SavesKept DEF Return
<1>3. CASE Raise
  <2>1. running # None /\ SavesHere /\ (thread[running].db # None => ~(Len(thread[running].frames) > 1))
    BY <1>3 DEF Raise
  <2>2. CASE thread[running].db = None
    BY <1>1, <2>1, <2>2 DEF SavesHere
  <2>3. CASE thread[running].db # None
    <3>1. thread[running].frames \in Seq(Codes) /\ thread[running].frames # <<>>
      BY <2>1, RunningFacts DEF Nested
    <3>2. PICK s \in Seq(Codes) : s = thread[running].frames /\ s # <<>>
      BY <3>1
    <3>3. Len(s) \in Nat /\ Len(s) >= 1 /\ ~(Len(s) > 1)
      BY <2>1, <2>3, <3>2, FrameTypes
    <3>4. Len(s) = 1
      <4>1. PICK n \in Nat : n = Len(s)
        BY <3>3
      <4>2. n >= 1 /\ ~(n > 1)
        BY <3>3, <4>1
      <4>3. QED
        BY <4>1, <4>2
    <3>5. QED
      BY <2>1, <3>2, <3>4, SavesKept
  <2>4. QED
    BY <2>2, <2>3
<1>4. QED
  BY <1>1, <1>2, <1>3
     DEF DirNext, ResumeThread, Yield, Leave, Fatal, DirDone, Enter, SparkPureIn, SparkIOIn, dirVars

\* A coroutine always runs in the directory it has entered and not left, whatever
\* the others do.
THEOREM OwnDirectoryKept == DirSpec => []OwnDirectory
<1>1. DirInv => OwnDirectory
  BY DEF DirInv
<1>2. QED
  BY <1>1, DirInitInv, DirKept, PTL DEF DirSpec

\* Each database is saved in its own directory, too, unless code fails that an IO
\* builder runs in another one.
THEOREM DirectoriesAreKept ==
    ASSUME ~RaiseNested
    PROVE  DirSpec => []DirectoriesKept
<1>1. DirInv /\ SavedInPlace => DirectoriesKept
  BY DEF DirInv, DirectoriesKept
<1>2. DirInit => DirInv /\ SavedInPlace
  BY DirInitInv
<1>3. DirInv /\ SavedInPlace /\ [DirNext]_dirVars => DirInv' /\ SavedInPlace'
  BY DirKept, DirSavesKept
<1>4. QED
  BY <1>1, <1>2, <1>3, PTL DEF DirSpec

=============================================================================
