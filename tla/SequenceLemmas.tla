--------------------------- MODULE SequenceLemmas ---------------------------
(* What the operators on sequences, and on sets of numbers, that the models *)
(* are built from return.                                                   *)
EXTENDS Integers, SequencesExt, SequenceTheorems, FiniteSetTheorems, WellFoundedInduction, TLAPS

\* RemoveAt takes out one position and closes the gap, as table.remove and the
\* shifting loop of Queue:remove do.
LEMMA RemoveAtProperties ==
    ASSUME NEW S, NEW s \in Seq(S), NEW n \in 1..Len(s)
    PROVE  /\ RemoveAt(s, n) \in Seq(S)
           /\ Len(RemoveAt(s, n)) = Len(s) - 1
           /\ \A i \in 1..(Len(s) - 1) :
                 RemoveAt(s, n)[i] = IF i < n THEN s[i] ELSE s[i + 1]
<1> DEFINE u == SubSeq(s, 1, n - 1)
           v == SubSeq(s, n + 1, Len(s))
<1>1. /\ u \in Seq(S) /\ Len(u) = n - 1 /\ \A i \in 1..(n - 1) : u[i] = s[i]
      /\ v \in Seq(S) /\ Len(v) = Len(s) - n
      /\ \A i \in 1..(Len(s) - n) : v[i] = s[i + n]
  OBVIOUS
<1>2. RemoveAt(s, n) = u \o v
  BY DEF RemoveAt
<1> HIDE DEF u, v
<1>3. /\ u \o v \in Seq(S) /\ Len(u \o v) = Len(u) + Len(v)
      /\ \A i \in 1..(Len(u) + Len(v)) :
            (u \o v)[i] = IF i <= Len(u) THEN u[i] ELSE v[i - Len(u)]
  BY <1>1, ConcatProperties
<1> DEFINE w == u \o v
<1> HIDE DEF w
<1>4. /\ w \in Seq(S) /\ Len(w) = Len(s) - 1
      /\ \A i \in 1..(Len(s) - 1) : w[i] = IF i < n THEN s[i] ELSE s[i + 1]
  <2>1. Len(w) = Len(u) + Len(v) /\ w \in Seq(S)
        /\ \A i \in 1..(Len(u) + Len(v)) :
            w[i] = IF i <= Len(u) THEN u[i] ELSE v[i - Len(u)]
    BY <1>3 DEF w
  <2>2. Len(w) = Len(s) - 1
    BY <2>1, <1>1
  <2>3. ASSUME NEW i \in 1..(Len(s) - 1)
        PROVE  w[i] = IF i < n THEN s[i] ELSE s[i + 1]
    <3>1. CASE i < n
      <4>1. i <= n - 1 /\ i \in 1..(n - 1) /\ i \in 1..(Len(u) + Len(v)) /\ Len(u) = n - 1
        BY <3>1, <1>1
      <4>2. w[i] = IF i <= Len(u) THEN u[i] ELSE v[i - Len(u)]
        BY <4>1, <2>1
      <4>3. u[i] = s[i]
        BY <4>1, <1>1
      <4>4. QED
        BY <3>1, <4>1, <4>2, <4>3
    <3>2. CASE ~(i < n)
      <4>0. ~(i <= n - 1) /\ i \in 1..(Len(u) + Len(v)) /\ Len(u) = n - 1
        BY <3>2, <1>1
      <4>1. w[i] = v[i - (n - 1)]
        <5>1. w[i] = IF i <= Len(u) THEN u[i] ELSE v[i - Len(u)]
          BY <4>0, <2>1
        <5>2. QED
          BY <5>1, <4>0
      <4>2. i - (n - 1) \in 1..(Len(s) - n)
        BY <3>2
      <4>3. v[i - (n - 1)] = s[i - (n - 1) + n]
        BY <4>2, <1>1
      <4>4. i - (n - 1) + n = i + 1
        OBVIOUS
      <4>5. QED
        BY <3>2, <4>1, <4>3, <4>4
    <3>3. QED
      BY <3>1, <3>2
  <2>4. QED
    BY <2>1, <2>2, <2>3
<1>5. QED
  BY <1>2, <1>4 DEF w

\* Removing an element that occurs once removes its position.
LEMMA RemoveFirstUnique ==
    ASSUME NEW S, NEW s \in Seq(S), NEW n \in 1..Len(s), NEW e, s[n] = e,
           \A i \in 1..Len(s) : s[i] = e => i = n
    PROVE  RemoveFirst(s, e) = RemoveAt(s, n)
<1> DEFINE I == {i \in 1..Len(s) : s[i] = e}
<1>1. I = {n}
  OBVIOUS
<1>2. Min(I) = n
  BY <1>1 DEF Min
<1>3. SelectInSeq(s, LAMBDA v : v = e) = n
  BY <1>1, <1>2, Zenon DEF SelectInSeq
<1>4. QED
  BY <1>3, Zenon DEF RemoveFirst

\* Front drops the last position.
LEMMA FrontProperties ==
    ASSUME NEW S, NEW s \in Seq(S), s # <<>>
    PROVE  /\ Front(s) \in Seq(S)
           /\ Len(Front(s)) = Len(s) - 1
           /\ \A i \in 1..(Len(s) - 1) : Front(s)[i] = s[i]
           /\ Last(s) \in S
           /\ Len(s) \in 1..Len(s) /\ Last(s) = s[Len(s)]
<1>1. Len(s) \in 1..Len(s)
  OBVIOUS
<1>2. Front(s) = SubSeq(s, 1, Len(s) - 1) /\ Last(s) = s[Len(s)]
  BY DEF Front, Last
<1>3. /\ SubSeq(s, 1, Len(s) - 1) \in Seq(S)
      /\ Len(SubSeq(s, 1, Len(s) - 1)) = Len(s) - 1
      /\ \A i \in 1..(Len(s) - 1) : SubSeq(s, 1, Len(s) - 1)[i] = s[i]
  <2>1. ASSUME NEW m \in 0..Len(s)
        PROVE  /\ SubSeq(s, 1, m) \in Seq(S) /\ Len(SubSeq(s, 1, m)) = m
               /\ \A i \in 1..m : SubSeq(s, 1, m)[i] = s[i]
    OBVIOUS
  <2>2. Len(s) - 1 \in 0..Len(s)
    BY <1>1
  <2>3. QED
    BY <2>1, <2>2
<1>4. s[Len(s)] \in S
  BY <1>1
<1>5. QED
  BY <1>1, <1>2, <1>3, <1>4

\* Dropping the last position is removing it.
LEMMA FrontIsRemoveAt ==
    ASSUME NEW S, NEW s \in Seq(S), s # <<>>
    PROVE  Front(s) = RemoveAt(s, Len(s))
<1>1. SubSeq(s, Len(s) + 1, Len(s)) = <<>>
  <2>1. Len(s) \in Int /\ Len(s) + 1 \in Int /\ Len(s) < Len(s) + 1
    OBVIOUS
  <2>2. QED
    BY <2>1, SubSeqEmpty
<1>2. Front(s) \in Seq(S)
  BY FrontProperties
<1>3. Front(s) \o <<>> = Front(s)
  BY <1>2, ConcatEmptySeq
<1>4. QED
  BY <1>1, <1>3 DEF Front, RemoveAt

\* The elements of a sequence are its head and those of its tail.
LEMMA HeadAndTail ==
    ASSUME NEW S, NEW s \in Seq(S), s # <<>>
    PROVE  /\ Head(s) \in S /\ Head(s) = s[1] /\ Len(s) \in Nat \ {0}
           /\ Tail(s) \in Seq(S) /\ Len(Tail(s)) = Len(s) - 1
           /\ \A i \in 1..(Len(s) - 1) : Tail(s)[i] = s[i + 1]
           /\ ToSet(s) = {Head(s)} \cup ToSet(Tail(s))
<1>1. /\ Head(s) \in S /\ Head(s) = s[1] /\ Len(s) \in Nat \ {0}
      /\ Tail(s) \in Seq(S) /\ Len(Tail(s)) = Len(s) - 1
      /\ \A i \in 1..(Len(s) - 1) : Tail(s)[i] = s[i + 1]
  OBVIOUS
<1>2. ASSUME NEW i \in DOMAIN s PROVE s[i] \in {Head(s)} \cup ToSet(Tail(s))
  <2>1. CASE i = 1
    BY <1>1, <2>1
  <2>2. CASE i # 1
    <3>1. i - 1 \in 1..(Len(s) - 1) /\ (i - 1) + 1 = i
      BY <1>1, <1>2, <2>2
    <3>2. i - 1 \in DOMAIN Tail(s) /\ Tail(s)[i - 1] = s[i]
      BY <1>1, <3>1
    <3>3. QED
      BY <3>2 DEF ToSet
  <2>3. QED
    BY <2>1, <2>2
<1>3. ASSUME NEW i \in DOMAIN Tail(s) PROVE Tail(s)[i] \in ToSet(s)
  <2>1. i \in 1..(Len(s) - 1)
    BY <1>1
  <2>2. i + 1 \in DOMAIN s /\ Tail(s)[i] = s[i + 1]
    BY <1>1, <2>1
  <2>3. QED
    BY <2>2 DEF ToSet
<1>4. Head(s) \in ToSet(s)
  BY <1>1 DEF ToSet
<1>5. QED
  BY <1>1, <1>2, <1>3, <1>4 DEF ToSet

\* Append adds one element.
LEMMA AppendElements ==
    ASSUME NEW S, NEW s \in Seq(S), NEW x \in S
    PROVE  Append(s, x) \in Seq(S) /\ ToSet(Append(s, x)) = ToSet(s) \cup {x}
<1>1. /\ Append(s, x) \in Seq(S) /\ DOMAIN Append(s, x) = 1..(Len(s) + 1) /\ DOMAIN s = 1..Len(s)
      /\ \A i \in 1..Len(s) : Append(s, x)[i] = s[i]
      /\ Append(s, x)[Len(s) + 1] = x
  OBVIOUS
<1>2. QED
  BY <1>1 DEF ToSet

\* The elements of a sequence over S are in S, and the empty one has none.
LEMMA ElementsOf ==
    ASSUME NEW S, NEW s \in Seq(S)
    PROVE  ToSet(s) \subseteq S /\ (s = <<>> => ToSet(s) = {})
BY DEF ToSet

\* Putting one element in front moves the others up.
LEMMA PushProperties ==
    ASSUME NEW S, NEW s \in Seq(S), NEW x \in S
    PROVE  /\ <<x>> \o s \in Seq(S) /\ Len(<<x>> \o s) = Len(s) + 1
           /\ (<<x>> \o s)[1] = x
           /\ \A i \in 1..Len(s) : (<<x>> \o s)[i + 1] = s[i]
<1>1. <<x>> \in Seq(S) /\ Len(<<x>>) = 1 /\ <<x>>[1] = x /\ Len(s) \in Nat
  OBVIOUS
<1>2. /\ <<x>> \o s \in Seq(S) /\ Len(<<x>> \o s) = 1 + Len(s)
      /\ \A i \in 1..(1 + Len(s)) : (<<x>> \o s)[i] = IF i <= 1 THEN <<x>>[i] ELSE s[i - 1]
  BY <1>1, ConcatProperties
<1>3. QED
  BY <1>1, <1>2

\* The head is replaced and the rest stays.
LEMMA ReplaceHead ==
    ASSUME NEW S, NEW s \in Seq(S), NEW x \in S, s # <<>>
    PROVE  /\ <<x>> \o Tail(s) \in Seq(S) /\ Len(<<x>> \o Tail(s)) = Len(s)
           /\ (<<x>> \o Tail(s))[1] = x
           /\ \A i \in 2..Len(s) : (<<x>> \o Tail(s))[i] = s[i]
<1>1. /\ Tail(s) \in Seq(S) /\ Len(Tail(s)) = Len(s) - 1 /\ Len(s) \in Nat \ {0}
      /\ \A i \in 1..(Len(s) - 1) : Tail(s)[i] = s[i + 1]
  BY HeadAndTail
<1> DEFINE u == Tail(s)
           w == <<x>> \o u
<1>2. /\ w \in Seq(S) /\ Len(w) = Len(u) + 1 /\ w[1] = x
      /\ \A i \in 1..Len(u) : w[i + 1] = u[i]
  <2> HIDE DEF u
  <2>1. u \in Seq(S)
    BY <1>1 DEF u
  <2>2. QED
    BY <2>1, PushProperties
<1> HIDE DEF w
<1>3. ASSUME NEW i \in 2..Len(s) PROVE w[i] = s[i]
  <2>1. i - 1 \in 1..(Len(s) - 1) /\ (i - 1) + 1 = i
    BY <1>1
  <2>2. w[(i - 1) + 1] = u[i - 1] /\ u[i - 1] = s[(i - 1) + 1]
    BY <1>1, <1>2, <2>1
  <2>3. QED
    BY <2>1, <2>2
<1>4. QED
  BY <1>1, <1>2, <1>3 DEF w

\* The first two elements give way to one.
LEMMA ReplaceTwo ==
    ASSUME NEW S, NEW s \in Seq(S), NEW x \in S, Len(s) >= 2
    PROVE  /\ <<x>> \o Tail(Tail(s)) \in Seq(S) /\ Len(<<x>> \o Tail(Tail(s))) = Len(s) - 1
           /\ (<<x>> \o Tail(Tail(s)))[1] = x
           /\ \A i \in 2..(Len(s) - 1) : (<<x>> \o Tail(Tail(s)))[i] = s[i + 1]
<1> DEFINE u == Tail(s)
<1>1. /\ u \in Seq(S) /\ Len(u) = Len(s) - 1 /\ u # <<>> /\ Len(s) \in Nat
      /\ \A i \in 1..(Len(s) - 1) : u[i] = s[i + 1]
  <2>1. s # <<>> /\ Len(s) \in Nat
    OBVIOUS
  <2>2. /\ u \in Seq(S) /\ Len(u) = Len(s) - 1
        /\ \A i \in 1..(Len(s) - 1) : u[i] = s[i + 1]
    BY <2>1, HeadAndTail
  <2> HIDE DEF u
  <2>3. u # <<>>
    BY <2>1, <2>2
  <2>4. QED
    BY <2>1, <2>2, <2>3
<1> HIDE DEF u
<1> DEFINE w == <<x>> \o Tail(u)
<1>2. /\ w \in Seq(S) /\ Len(w) = Len(u) /\ w[1] = x
      /\ \A i \in 2..Len(u) : w[i] = u[i]
  BY <1>1, ReplaceHead
<1> HIDE DEF w
<1>3. /\ w \in Seq(S) /\ Len(w) = Len(s) - 1 /\ w[1] = x
      /\ \A i \in 2..(Len(s) - 1) : w[i] = s[i + 1]
  BY <1>1, <1>2
<1>4. QED
  BY <1>3 DEF w, u

-----------------------------------------------------------------------------
\* A set of natural numbers has a least one.
LEMMA Least ==
    ASSUME NEW S \in SUBSET Nat, S # {}
    PROVE  \E m \in S : \A k \in S : m <= k
<1> DEFINE R == {ss \in Nat \X Nat : ss[1] < ss[2]}
<1>1. IsWellFoundedOn(R, Nat)
  BY NatLessThanWellFounded DEF OpToRel
<1>2. \A k, m \in Nat : <<k, m>> \in R <=> k < m
  OBVIOUS
<1> HIDE DEF R
<1>3. PICK m \in S : \A k \in S : <<k, m>> \notin R
  BY <1>1, WFMin
<1>4. ASSUME NEW k \in S PROVE m <= k
  <2>1. k \in Nat /\ m \in Nat /\ ~(k < m)
    BY <1>2, <1>3
  <2>2. QED
    BY <2>1
<1>5. QED
  BY <1>4

\* The lowest number of a set, as descriptors are handed out.
LEMMA MinProperties ==
    ASSUME NEW S \in SUBSET Nat, S # {}
    PROVE  Min(S) \in S /\ \A k \in S : Min(S) <= k
BY Least DEF Min

\* Two different members.
LEMMA AtLeastTwo ==
    ASSUME NEW S, Cardinality(S) >= 2, NEW x
    PROVE  \E y \in S : y # x
<1> SUFFICES ASSUME \A y \in S : y = x PROVE FALSE
  OBVIOUS
<1>1. S = {} \/ S = {x}
  OBVIOUS
<1>2. Cardinality(S) = 0 \/ Cardinality(S) = 1
  BY <1>1, FS_EmptySet, FS_Singleton
<1>3. QED
  BY <1>2
=============================================================================
