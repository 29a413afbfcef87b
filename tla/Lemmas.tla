------------------------------- MODULE Lemmas -------------------------------
(***************************************************************************)
(* Facts about numbers and sequences that more than one proof needs.       *)
(***************************************************************************)
EXTENDS Integers, SequencesExt, TLAPS, FiniteSetTheorems, SequenceTheorems,
        WellFoundedInduction

\* A set of naturals has a smallest element: the sets of its elements up to
\* each of them are well-founded under inclusion.
LEMMA Smallest ==
  ASSUME NEW S \in SUBSET Nat, S # {}
  PROVE  \E x \in S : \A y \in S : x =< y
<1> DEFINE T(x) == {y \in S : y =< x}
           F == {T(x) : x \in S}
<1>1. \A x \in S : T(x) \in FiniteSubsetsOf(Nat)
  <2> SUFFICES ASSUME NEW x \in S PROVE IsFiniteSet(T(x))
    BY DEF FiniteSubsetsOf
  <2>1. T(x) \in SUBSET Nat /\ x \in Nat /\ \A s \in T(x) : s <= x
    OBVIOUS
  <2> QED
    BY <2>1, FS_BoundedSetOfNaturals
<1>2. F \subseteq FiniteSubsetsOf(Nat) /\ F # {}
  BY <1>1
<1>3. \E A \in F : \A B \in F : ~(<<B, A>> \in StrictSubsetOrdering(Nat))
  <2> HIDE DEF F
  <2> QED
    BY <1>2, FS_StrictSubsetOrderingWellFounded, WFMin
<1>4. PICK x \in S :
        \A y \in S : ~(<<T(y), T(x)>> \in StrictSubsetOrdering(Nat))
  BY <1>3
<1>5. ASSUME NEW y \in S, y < x
      PROVE  FALSE
  <2>1. \A z \in S : z \in Nat
    OBVIOUS
  <2>2. \A z \in S : z =< y => z =< x
    BY <1>5, <2>1
  <2>3. x =< x /\ ~(x =< y)
    BY <1>5, <2>1
  <2>4. T(y) \subseteq T(x) /\ T(y) # T(x)
    BY <2>2, <2>3
  <2>5. T(y) \in SUBSET Nat /\ T(x) \in SUBSET Nat
    OBVIOUS
  <2>6. \A A, B \in SUBSET Nat :
          A \subseteq B /\ A # B => <<A, B>> \in StrictSubsetOrdering(Nat)
    BY DEF StrictSubsetOrdering
  <2> HIDE DEF T
  <2> QED
    BY <1>4, <2>4, <2>5, <2>6
<1> QED
  BY <1>4, <1>5

\* Min chooses an element of a non-empty set of naturals.
LEMMA MinIn ==
  ASSUME NEW S \in SUBSET Nat, S # {}
  PROVE  Min(S) \in S /\ \A y \in S : Min(S) <= y
BY Smallest DEF Min

\* What a sequence holds, and how often, after Append, Head and Tail, and
\* RemoveAt.
Single(s, x) == \A i, j \in DOMAIN s : s[i] = x /\ s[j] = x => i = j

LEMMA EmptyFacts ==
  ASSUME NEW S
  PROVE  <<>> \in Seq(S) /\ ToSet(<<>>) = {} /\ \A x : Single(<<>>, x)
BY DEF ToSet, Single

LEMMA AppendFacts ==
  ASSUME NEW S, NEW s \in Seq(S), NEW e \in S
  PROVE  /\ Append(s, e) \in Seq(S)
         /\ ToSet(Append(s, e)) = ToSet(s) \cup {e}
         /\ \A x : Single(s, x) /\ (x = e => x \notin ToSet(s))
                     => Single(Append(s, e), x)
<1> DEFINE t == Append(s, e)
<1>1. /\ t \in Seq(S) /\ Len(t) = Len(s) + 1 /\ Len(s) \in Nat
      /\ DOMAIN s = 1 .. Len(s) /\ DOMAIN t = 1 .. Len(s) + 1
      /\ \A i \in 1 .. Len(s) : t[i] = s[i]
      /\ t[Len(s) + 1] = e
  OBVIOUS
<1>2. ToSet(t) = ToSet(s) \cup {e}
  BY <1>1 DEF ToSet
<1>3. \A x : Single(s, x) /\ (x = e => x \notin ToSet(s)) => Single(t, x)
  <2> HIDE DEF t
  <2> SUFFICES ASSUME NEW x, Single(s, x), x = e => x \notin ToSet(s),
                      NEW i \in DOMAIN t, NEW j \in DOMAIN t,
                      t[i] = x, t[j] = x
               PROVE  i = j
    BY DEF Single
  <2>1. CASE x = e
    <3>1. \A k \in 1 .. Len(s) : s[k] # x
      BY <1>1, <2>1 DEF ToSet
    <3> QED
      BY <1>1, <3>1
  <2>2. CASE x # e
    BY <1>1, <2>2 DEF Single
  <2> QED
    BY <2>1, <2>2
<1> QED
  BY <1>1, <1>2, <1>3

LEMMA TailFacts ==
  ASSUME NEW S, NEW s \in Seq(S), s # <<>>
  PROVE  /\ Head(s) \in S /\ Tail(s) \in Seq(S)
         /\ ToSet(s) = ToSet(Tail(s)) \cup {Head(s)}
         /\ \A x : Single(s, x) => Single(Tail(s), x)
         /\ Single(s, Head(s)) => Head(s) \notin ToSet(Tail(s))
<1> DEFINE t == Tail(s)
<1>1. /\ t \in Seq(S) /\ Len(t) = Len(s) - 1 /\ Len(s) \in Nat
      /\ Len(s) >= 1
      /\ DOMAIN s = 1 .. Len(s) /\ DOMAIN t = 1 .. Len(s) - 1
      /\ \A i \in 1 .. Len(s) - 1 : t[i] = s[i + 1]
      /\ Head(s) = s[1] /\ s[1] \in S
  OBVIOUS
<1> HIDE DEF t
<1>2. ToSet(s) = ToSet(t) \cup {Head(s)}
  <2>1. ASSUME NEW i \in DOMAIN s
        PROVE  s[i] \in ToSet(t) \cup {Head(s)}
    <3>1. CASE i = 1
      BY <1>1, <3>1
    <3>2. CASE i # 1
      <4>1. i - 1 \in DOMAIN t /\ t[i - 1] = s[i]
        BY <1>1, <2>1, <3>2
      <4> QED
        BY <4>1 DEF ToSet
    <3> QED
      BY <3>1, <3>2
  <2>2. ASSUME NEW i \in DOMAIN t
        PROVE  t[i] \in ToSet(s)
    <3>1. i + 1 \in DOMAIN s /\ t[i] = s[i + 1]
      BY <1>1, <2>2
    <3> QED
      BY <3>1 DEF ToSet
  <2>3. Head(s) \in ToSet(s)
    BY <1>1 DEF ToSet
  <2> QED
    BY <2>1, <2>2, <2>3 DEF ToSet
<1>3. \A x : Single(s, x) => Single(t, x)
  <2> SUFFICES ASSUME NEW x, Single(s, x), NEW i \in DOMAIN t,
                      NEW j \in DOMAIN t, t[i] = x, t[j] = x
               PROVE  i = j
    BY DEF Single
  <2>1. i + 1 \in DOMAIN s /\ j + 1 \in DOMAIN s
    BY <1>1
  <2>2. s[i + 1] = x /\ s[j + 1] = x
    BY <1>1
  <2>3. i + 1 = j + 1
    BY <2>1, <2>2 DEF Single
  <2> QED
    BY <2>3, <1>1
<1>4. Single(s, Head(s)) => Head(s) \notin ToSet(t)
  <2> SUFFICES ASSUME Single(s, s[1]), NEW i \in DOMAIN t, t[i] = s[1]
               PROVE  FALSE
    BY <1>1 DEF ToSet
  <2>1. i + 1 \in DOMAIN s /\ 1 \in DOMAIN s /\ s[i + 1] = s[1]
    BY <1>1
  <2>2. i + 1 = 1
    BY <2>1 DEF Single
  <2> QED
    BY <2>2, <1>1
<1> QED
  BY <1>1, <1>2, <1>3, <1>4 DEF t

LEMMA RemoveAtFacts ==
  ASSUME NEW S, NEW s \in Seq(S), NEW k \in DOMAIN s
  PROVE  /\ RemoveAt(s, k) \in Seq(S)
         /\ ToSet(s) = ToSet(RemoveAt(s, k)) \cup {s[k]}
         /\ \A x : Single(s, x) => Single(RemoveAt(s, k), x)
         /\ Single(s, s[k]) => s[k] \notin ToSet(RemoveAt(s, k))
<1> DEFINE t == RemoveAt(s, k)
           a == SubSeq(s, 1, k - 1)
           b == SubSeq(s, k + 1, Len(s))
           Old(i) == IF i < k THEN i ELSE i + 1
<1>1. /\ Len(s) \in Nat /\ DOMAIN s = 1 .. Len(s) /\ k \in 1 .. Len(s)
      /\ \A i \in 1 .. Len(s) : s[i] \in S
  OBVIOUS
<1>2. /\ a \in Seq(S) /\ Len(a) = k - 1
      /\ \A i \in 1 .. k - 1 : a[i] = s[i]
  BY <1>1
<1>3. /\ b \in Seq(S) /\ Len(b) = Len(s) - k
      /\ \A i \in 1 .. Len(s) - k : b[i] = s[i + k]
  BY <1>1
<1>4. /\ t \in Seq(S) /\ Len(t) = Len(s) - 1 /\ DOMAIN t = 1 .. Len(s) - 1
      /\ \A i \in DOMAIN t : t[i] = s[Old(i)] /\ Old(i) \in DOMAIN s
  <2> HIDE DEF a, b
  <2>0. t = a \o b
    BY DEF RemoveAt, a, b
  <2>1. /\ t \in Seq(S) /\ Len(t) = Len(a) + Len(b)
        /\ \A i \in 1 .. Len(a) + Len(b) :
             t[i] = IF i <= Len(a) THEN a[i] ELSE b[i - Len(a)]
    BY <1>2, <1>3, <2>0, ConcatProperties
  <2>2. /\ t \in Seq(S) /\ Len(t) = Len(s) - 1 /\ DOMAIN t = 1 .. Len(s) - 1
    BY <1>1, <1>2, <1>3, <2>1
  <2>3. ASSUME NEW i \in DOMAIN t
        PROVE  t[i] = s[Old(i)] /\ Old(i) \in DOMAIN s
    <3>1. CASE i < k
      <4>0. i \in Int /\ i \in 1 .. Len(a) /\ Old(i) = i /\ Old(i) \in DOMAIN s
        BY <1>1, <1>2, <2>2, <3>1
      <4>1. t[i] = a[i]
        BY <2>1, <2>2, <4>0
      <4> QED
        BY <1>2, <4>0, <4>1
    <3>2. CASE ~(i < k)
      <4>0. i \in Int /\ i - (k - 1) \in 1 .. Len(s) - k /\ ~(i <= Len(a))
        BY <1>1, <1>2, <2>2, <3>2
      <4>a. i \in 1 .. Len(a) + Len(b)
        BY <2>1, <2>2, <1>1, <1>2, <1>3
      <4>1. i - (k - 1) \in 1 .. Len(s) - k /\ t[i] = b[i - (k - 1)]
        BY <1>2, <2>1, <4>0, <4>a
      <4>2. b[i - (k - 1)] = s[i - (k - 1) + k] /\ i - (k - 1) + k = i + 1
        BY <1>1, <1>3, <4>1, <2>2
      <4> QED
        BY <1>1, <4>1, <4>2, <2>2, <3>2
    <3> QED
      BY <3>1, <3>2
  <2> QED
    BY <2>2, <2>3
<1> HIDE DEF t, a, b
<1>5. \A i \in DOMAIN s : i # k => \E j \in DOMAIN t : Old(j) = i
  <2> SUFFICES ASSUME NEW i \in DOMAIN s, i # k
               PROVE  \E j \in DOMAIN t : Old(j) = i
    OBVIOUS
  <2>1. CASE i < k
    BY <1>1, <1>4, <2>1
  <2>2. CASE i > k
    <3>1. i - 1 \in DOMAIN t /\ Old(i - 1) = i
      BY <1>1, <1>4, <2>2
    <3> QED
      BY <3>1
  <2> QED
    BY <1>1, <2>1, <2>2
<1>6. ToSet(s) = ToSet(t) \cup {s[k]}
  BY <1>4, <1>5 DEF ToSet
<1>7. \A i, j \in DOMAIN t : Old(i) = Old(j) => i = j
  BY <1>1, <1>4
<1>8. \A i \in DOMAIN t : Old(i) # k
  BY <1>1, <1>4
<1>9. \A x : Single(s, x) => Single(t, x)
  <2> HIDE DEF Old
  <2> QED
    BY <1>4, <1>7 DEF Single
<1>10. Single(s, s[k]) => s[k] \notin ToSet(t)
  <2> HIDE DEF Old
  <2> QED
    BY <1>4, <1>8 DEF Single, ToSet
<1> QED
  BY <1>4, <1>6, <1>9, <1>10 DEF t
=============================================================================
