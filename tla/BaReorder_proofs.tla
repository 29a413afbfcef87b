-------------------------- MODULE BaReorder_proofs --------------------------
(***************************************************************************)
(* Proofs about BaReorder, for every number and size of MPDUs, every       *)
(* window and every sequence number space at least twice as large: types,  *)
(* the window, nothing ready left behind, no write to a freed block, and   *)
(* delivery in order.                                                      *)
(***************************************************************************)
EXTENDS BaReorder, Lemmas

-----------------------------------------------------------------------------
(***************************************************************************)
(* Sequence numbers.  Dist(a, b) is how far a lies ahead of b, modulo the  *)
(* space; SEQ_SMALLER compares by it.                                      *)
(***************************************************************************)
\* From this distance on SEQ_SMALLER calls a number smaller.
Half == SeqSpace \div 2
\* How far a lies ahead of b.
Dist(a, b) == (a - b) % SeqSpace

LEMMA Space ==
  /\ SeqSpace \in Nat /\ BAWinSize \in Nat /\ Half \in Nat
  /\ BAWinSize >= 1 /\ BAWinSize + 1 <= Half
  /\ 2 * Half <= SeqSpace /\ SeqSpace <= 2 * Half + 1
  /\ StartSeq \in SeqNums
BY SpaceAssumption DEF Half, SeqNums

LEMMA WrapIs ==
  ASSUME NEW x \in Int
  PROVE  /\ Wrap(x) \in SeqNums
         /\ 0 <= x /\ x < SeqSpace => Wrap(x) = x
         /\ -SeqSpace <= x /\ x < 0 => Wrap(x) = x + SeqSpace
         /\ SeqSpace <= x /\ x < 2 * SeqSpace => Wrap(x) = x - SeqSpace
<1> SeqSpace \in Nat /\ SeqSpace > 0
  BY Space
<1>1. x % SeqSpace \in 0 .. SeqSpace - 1
  OBVIOUS
<1>2. 0 <= x /\ x < SeqSpace => x % SeqSpace = x
  OBVIOUS
<1>3. -SeqSpace <= x /\ x < 0 => x % SeqSpace = x + SeqSpace
  OBVIOUS
<1>4. SeqSpace <= x /\ x < 2 * SeqSpace => x % SeqSpace = x - SeqSpace
  OBVIOUS
<1> QED
  BY <1>1, <1>2, <1>3, <1>4 DEF Wrap, SeqNums

LEMMA DistIs ==
  ASSUME NEW a \in SeqNums, NEW b \in SeqNums
  PROVE  /\ Dist(a, b) \in SeqNums
         /\ Dist(a, b) = IF b <= a THEN a - b ELSE a - b + SeqSpace
<1>1. a \in Int /\ b \in Int /\ a - b \in Int
      /\ -SeqSpace <= a - b /\ a - b < SeqSpace
  BY Space DEF SeqNums
<1>2. Dist(a, b) = Wrap(a - b)
  BY DEF Dist, Wrap
<1> QED
  BY <1>1, <1>2, WrapIs, Space

LEMMA DistNat ==
  ASSUME NEW a \in SeqNums, NEW b \in SeqNums
  PROVE  Dist(a, b) \in Nat /\ Dist(a, b) < SeqSpace
<1>1. Dist(a, b) \in SeqNums
  BY DistIs
<1> QED
  BY <1>1, Space DEF SeqNums

LEMMA SmallerIs ==
  ASSUME NEW a, NEW b
  PROVE  SEQ_SMALLER(a, b) <=> Dist(a, b) >= Half
BY DEF SEQ_SMALLER, Dist, Half

\* The number q places after s.
LEMMA AheadIs ==
  ASSUME NEW s \in SeqNums, NEW q \in SeqNums
  PROVE  /\ Wrap(s + q) \in SeqNums
         /\ Dist(Wrap(s + q), s) = q
<1>1. s \in Int /\ q \in Int /\ s + q \in Int /\ s + q >= 0
      /\ s + q < 2 * SeqSpace /\ SeqSpace \in Nat
  BY Space DEF SeqNums
<1>2. Wrap(s + q) \in SeqNums
      /\ Wrap(s + q) = IF s + q < SeqSpace THEN s + q ELSE s + q - SeqSpace
  BY <1>1, WrapIs
<1>3. Dist(Wrap(s + q), s) = IF s <= Wrap(s + q) THEN Wrap(s + q) - s
                             ELSE Wrap(s + q) - s + SeqSpace
  BY <1>2, DistIs
<1> QED
  BY <1>1, <1>2, <1>3 DEF SeqNums

LEMMA DistSum ==
  ASSUME NEW a \in SeqNums, NEW b \in SeqNums, NEW c \in SeqNums
  PROVE  Dist(a, c) = IF Dist(a, b) + Dist(b, c) < SeqSpace
                      THEN Dist(a, b) + Dist(b, c)
                      ELSE Dist(a, b) + Dist(b, c) - SeqSpace
<1>1. /\ Dist(a, b) = IF b <= a THEN a - b ELSE a - b + SeqSpace
      /\ Dist(b, c) = IF c <= b THEN b - c ELSE b - c + SeqSpace
      /\ Dist(a, c) = IF c <= a THEN a - c ELSE a - c + SeqSpace
  BY DistIs
<1>2. /\ a \in Int /\ b \in Int /\ c \in Int /\ SeqSpace \in Int
      /\ 0 <= a /\ a < SeqSpace /\ 0 <= b /\ b < SeqSpace
      /\ 0 <= c /\ c < SeqSpace
  BY Space DEF SeqNums
<1> QED
  BY <1>1, <1>2

LEMMA DistZero ==
  ASSUME NEW a \in SeqNums, NEW b \in SeqNums
  PROVE  /\ Dist(a, b) = 0 <=> a = b
         /\ a # b => Dist(b, a) = SeqSpace - Dist(a, b)
         /\ Wrap(b + Dist(a, b)) = a
<1>1. /\ Dist(a, b) = IF b <= a THEN a - b ELSE a - b + SeqSpace
      /\ Dist(b, a) = IF a <= b THEN b - a ELSE b - a + SeqSpace
  BY DistIs
<1>2. /\ a \in Int /\ b \in Int /\ SeqSpace \in Int
      /\ 0 <= a /\ a < SeqSpace /\ 0 <= b /\ b < SeqSpace
  BY Space DEF SeqNums
<1>3. Wrap(b + Dist(a, b)) = a
  <2>1. b + Dist(a, b) \in Int /\ b + Dist(a, b) = IF b <= a THEN a ELSE a + SeqSpace
    BY <1>1, <1>2
  <2> QED
    BY <2>1, <1>2, WrapIs
<1> QED
  BY <1>1, <1>2, <1>3

-----------------------------------------------------------------------------
(***************************************************************************)
(* The list.  It lies behind a number when its blocks have ascending       *)
(* distances of 1 up to the window from it.                                *)
(***************************************************************************)
\* Blocks as the list holds them: one per MPDU, never empty.
Block == [Sequence : SeqNums, pkts : Seq(MSDUs) \ {<<>>}]
\* The list ascends and lies in the window that begins behind s.
Behind(list, s) ==
  /\ \A i \in DOMAIN list : Dist(list[i].Sequence, s) \in 1 .. BAWinSize
  /\ \A i, j \in DOMAIN list :
       i < j => Dist(list[i].Sequence, s) < Dist(list[j].Sequence, s)

LEMMA RestFacts ==
  ASSUME NEW T, NEW s \in Seq(T), NEW k \in 0 .. Len(s)
  PROVE  /\ SubSeq(s, k + 1, Len(s)) \in Seq(T)
         /\ Len(SubSeq(s, k + 1, Len(s))) = Len(s) - k
         /\ DOMAIN SubSeq(s, k + 1, Len(s)) = 1 .. Len(s) - k
         /\ \A i \in 1 .. Len(s) - k : SubSeq(s, k + 1, Len(s))[i] = s[i + k]
         /\ k = 0 => SubSeq(s, k + 1, Len(s)) = s
<1>1. Len(s) \in Nat /\ k \in Int /\ \A i \in 1 .. Len(s) : s[i] \in T
  OBVIOUS
<1> QED
  BY <1>1

\* What is left of the list lies behind t when t lies before all of it.
LEMMA BehindMove ==
  ASSUME NEW list \in Seq(Block), NEW s \in SeqNums, NEW t \in SeqNums,
         Behind(list, s), NEW k \in 0 .. Len(list),
         \A i \in k + 1 .. Len(list) : Dist(list[i].Sequence, s) > Dist(t, s)
  PROVE  /\ Behind(SubSeq(list, k + 1, Len(list)), t)
         /\ \A i \in 1 .. Len(list) - k :
              Dist(SubSeq(list, k + 1, Len(list))[i].Sequence, t)
                = Dist(list[i + k].Sequence, s) - Dist(t, s)
<1> DEFINE rest == SubSeq(list, k + 1, Len(list))
<1>1. /\ rest \in Seq(Block) /\ Len(rest) = Len(list) - k
      /\ DOMAIN rest = 1 .. Len(list) - k
      /\ \A i \in 1 .. Len(list) - k : rest[i] = list[i + k]
      /\ Len(list) \in Nat /\ k \in Int /\ DOMAIN list = 1 .. Len(list)
  BY RestFacts
<1> HIDE DEF rest
<1>2. ASSUME NEW i \in 1 .. Len(list) - k
      PROVE  /\ i + k \in k + 1 .. Len(list) /\ i + k \in DOMAIN list
             /\ Dist(rest[i].Sequence, t)
                  = Dist(list[i + k].Sequence, s) - Dist(t, s)
             /\ Dist(rest[i].Sequence, t) \in 1 .. BAWinSize
  <2>1. i + k \in k + 1 .. Len(list) /\ i + k \in 1 .. Len(list)
    BY <1>1
  <2>2. list[i + k].Sequence \in SeqNums
    <3>1. list[i + k] \in Block
      BY <2>1
    <3> QED
      BY <3>1 DEF Block
  <2>3. /\ Dist(list[i + k].Sequence, s) > Dist(t, s)
        /\ Dist(list[i + k].Sequence, s) \in 1 .. BAWinSize
    BY <2>1, <1>1 DEF Behind
  <2> DEFINE x == list[i + k].Sequence
  <2> HIDE DEF x
  <2>4. Dist(x, t) \in SeqNums /\ Dist(t, s) \in SeqNums /\ x \in SeqNums
    BY <2>2, DistIs DEF x
  <2>5. Dist(x, s) = IF Dist(x, t) + Dist(t, s) < SeqSpace
                     THEN Dist(x, t) + Dist(t, s)
                     ELSE Dist(x, t) + Dist(t, s) - SeqSpace
    BY <2>4, DistSum
  <2>6. Dist(x, t) = Dist(x, s) - Dist(t, s)
    <3>1. /\ Dist(x, t) \in Nat /\ Dist(x, t) < SeqSpace
          /\ Dist(t, s) \in Nat
      BY <2>4, DistNat
    <3>2. Dist(x, s) > Dist(t, s)
      BY <2>3 DEF x
    <3> QED
      BY <2>5, <3>1, <3>2, Space
  <2>7. Dist(x, t) \in 1 .. BAWinSize
    <3>1. Dist(x, s) \in 1 .. BAWinSize /\ Dist(x, s) > Dist(t, s)
      BY <2>3 DEF x
    <3>2. Dist(x, t) \in Nat /\ Dist(t, s) \in Nat
      BY <2>4, DistNat
    <3> QED
      BY <2>6, <3>1, <3>2, Space
  <2>8. rest[i].Sequence = x /\ i + k \in DOMAIN list
    BY <1>1, <2>1 DEF x
  <2> QED
    BY <2>1, <2>6, <2>7, <2>8 DEF x
<1>3. ASSUME NEW i \in DOMAIN rest, NEW j \in DOMAIN rest, i < j
      PROVE  Dist(rest[i].Sequence, t) < Dist(rest[j].Sequence, t)
  <2>1. i + k \in DOMAIN list /\ j + k \in DOMAIN list /\ i + k < j + k
    BY <1>1, <1>2, <1>3
  <2>2. Dist(list[i + k].Sequence, s) < Dist(list[j + k].Sequence, s)
    BY <2>1 DEF Behind
  <2>3. Dist(list[i + k].Sequence, s) \in Int
        /\ Dist(list[j + k].Sequence, s) \in Int
    BY <2>1 DEF Behind
  <2>4. Dist(t, s) \in Int
    BY DistIs DEF SeqNums
  <2>5. /\ Dist(rest[i].Sequence, t) = Dist(list[i + k].Sequence, s) - Dist(t, s)
        /\ Dist(rest[j].Sequence, t) = Dist(list[j + k].Sequence, s) - Dist(t, s)
    BY <1>1, <1>2
  <2> QED
    BY <2>2, <2>3, <2>4, <2>5
<1>4. Behind(rest, t)
  BY <1>1, <1>2, <1>3 DEF Behind
<1> QED
  BY <1>2, <1>4 DEF rest

\* The same list behind the same number, with less in it.
LEMMA BehindRest ==
  ASSUME NEW list \in Seq(Block), NEW s \in SeqNums, Behind(list, s),
         NEW k \in 0 .. Len(list)
  PROVE  Behind(SubSeq(list, k + 1, Len(list)), s)
<1>1. Dist(s, s) = 0
  BY DistZero
<1>2. \A i \in k + 1 .. Len(list) : Dist(list[i].Sequence, s) > Dist(s, s)
  <2>1. \A i \in k + 1 .. Len(list) : i \in DOMAIN list
    OBVIOUS
  <2> QED
    BY <1>1, <2>1 DEF Behind
<1> QED
  BY <1>2, BehindMove

\* An ascending list within the window is no longer than the window, and
\* the i-th block lies at least i behind.
LEMMA BehindLen ==
  ASSUME NEW list \in Seq(Block), NEW s \in SeqNums, Behind(list, s)
  PROVE  /\ Len(list) <= BAWinSize
         /\ \A i \in 1 .. Len(list) : i <= Dist(list[i].Sequence, s)
<1> DEFINE D(i) == Dist(list[i].Sequence, s)
           Bad == {i \in 1 .. Len(list) : D(i) < i}
<1>1. /\ Len(list) \in Nat /\ DOMAIN list = 1 .. Len(list)
      /\ \A i \in 1 .. Len(list) : D(i) \in 1 .. BAWinSize
      /\ \A i, j \in 1 .. Len(list) : i < j => D(i) < D(j)
  BY DEF Behind
<1> HIDE DEF D
<1>2. Bad = {}
  <2> SUFFICES ASSUME Bad # {} PROVE FALSE
    OBVIOUS
  <2>1. Bad \subseteq Nat
    BY <1>1
  <2>2. PICK m \in Bad : \A y \in Bad : m <= y
    BY <2>1, Smallest
  <2>3. m \in 1 .. Len(list) /\ D(m) < m /\ D(m) \in 1 .. BAWinSize /\ m > 1
    BY <1>1, Space
  <2>4. m - 1 \in 1 .. Len(list) /\ m - 1 < m /\ m - 1 \notin Bad
    BY <1>1, <2>2, <2>3
  <2>5. D(m - 1) >= m - 1 /\ D(m - 1) < D(m)
    BY <1>1, <2>3, <2>4, Space, SMTT(20)
  <2> QED
    BY <1>1, <2>3, <2>4, <2>5, Space
<1>3. \A i \in 1 .. Len(list) : i <= D(i)
  BY <1>1, <1>2, Space
<1>4. Len(list) <= BAWinSize
  <2>1. CASE Len(list) = 0
    BY <2>1, Space
  <2>2. CASE Len(list) # 0
    <3>1. Len(list) \in 1 .. Len(list)
      BY <1>1, <2>2
    <3> QED
      BY <1>1, <1>3, <3>1, Space
  <2> QED
    BY <2>1, <2>2
<1> QED
  BY <1>3, <1>4 DEF D

\* Leading: the longest stretch from 1 on of the indexes in G.
LEMMA LeadingIs ==
  ASSUME NEW n \in Nat, NEW G
  PROVE  LET m == Max({k \in 0 .. n : \A i \in 1 .. k : i \in G}) IN
         /\ m \in 0 .. n /\ \A i \in 1 .. m : i \in G
         /\ m < n => m + 1 \notin G
<1> DEFINE K == {k \in 0 .. n : \A i \in 1 .. k : i \in G}
           C == {n - k : k \in K}
<1>1. C \subseteq Nat /\ 0 \in K /\ n \in C
  OBVIOUS
<1>2. PICK c \in C : \A y \in C : c <= y
  BY <1>1, Smallest
<1>3. PICK m \in K : c = n - m
  BY <1>2
<1>4. \A k \in K : k \in Int /\ n - k \in C
  OBVIOUS
<1> HIDE DEF K, C
<1>5. m \in K /\ \A k \in K : k <= m
  BY <1>2, <1>3, <1>4
<1> USE DEF K
<1>6. Max(K) \in K /\ \A k \in K : Max(K) >= k
  BY <1>4, <1>5 DEF Max
<1>7. Max(K) \in 0 .. n /\ \A i \in 1 .. Max(K) : i \in G
  BY <1>6
<1>8. ASSUME Max(K) < n, Max(K) + 1 \in G
      PROVE  FALSE
  <2>1. Max(K) + 1 \in 0 .. n
    BY <1>7, <1>8
  <2>2. \A i \in 1 .. Max(K) + 1 : i \in 1 .. Max(K) \/ i = Max(K) + 1
    BY <1>7
  <2>3. Max(K) + 1 \in K
    BY <1>7, <1>8, <2>1, <2>2
  <2> QED
    BY <1>6, <1>7, <2>3
<1> QED
  BY <1>7, <1>8

-----------------------------------------------------------------------------
(***************************************************************************)
(* What Announce, Release and FlattenSeq do.                               *)
(***************************************************************************)
\* FlattenSeq is the last of the sequences that concatenate the first one,
\* the first two, and so on.
LEMMA FlattenIs ==
  ASSUME NEW n \in Nat \ {0}, NEW s \in [1 .. n -> Seq(MSDUs)]
  PROVE  \E f \in [1 .. n -> Seq(MSDUs)] :
           /\ f[1] = s[1]
           /\ \A i \in 2 .. n : f[i] = f[i - 1] \o s[i]
           /\ FlattenSeq(s) = f[n]
<1> DEFINE Eq(f, m) ==
             f = [i \in 1 .. m |-> IF i = 1 THEN s[i] ELSE f[i - 1] \o s[i]]
           Bad == {m \in 1 .. n : ~ \E f : Eq(f, m)}
<1>0. \A i \in 1 .. n : s[i] \in Seq(MSDUs)
  OBVIOUS
<1> HIDE DEF Eq
<1>1. Bad = {}
  <2> SUFFICES ASSUME Bad # {} PROVE FALSE
    OBVIOUS
  <2>1. Bad \subseteq Nat
    OBVIOUS
  <2>2. PICK m \in Bad : \A y \in Bad : m <= y
    BY <2>1, Smallest
  <2>3. m \in 1 .. n /\ ~ \E f : Eq(f, m)
    OBVIOUS
  <2>4. CASE m = 1
    <3>1. Eq([i \in 1 .. 1 |-> s[i]], 1)
      BY DEF Eq
    <3> QED
      BY <2>3, <2>4, <3>1
  <2>5. CASE m # 1
    <3>1. m - 1 \in 1 .. n
      BY <2>3, <2>5
    <3>a. m - 1 \notin Bad
      <4> HIDE DEF Bad
      <4> QED
        BY <2>2, <2>3
    <3>2. PICK g : Eq(g, m - 1)
      BY <3>1, <3>a
    <3> DEFINE f == [i \in 1 .. m |-> IF i = m THEN g[m - 1] \o s[m] ELSE g[i]]
               h == [i \in 1 .. m |-> IF i = 1 THEN s[i] ELSE f[i - 1] \o s[i]]
    <3>3. ASSUME NEW i \in 1 .. m
          PROVE  f[i] = h[i]
      <4>1. CASE i = m
        <5>1. f[i - 1] = g[m - 1]
          BY <2>3, <2>5, <4>1
        <5> QED
          BY <2>3, <2>5, <4>1, <5>1
      <4>2. CASE i # m
        <5>1. i \in 1 .. m - 1 /\ f[i] = g[i]
          BY <2>3, <4>2
        <5>2. g[i] = IF i = 1 THEN s[i] ELSE g[i - 1] \o s[i]
          BY <3>2, <5>1 DEF Eq
        <5>3. i # 1 => f[i - 1] = g[i - 1]
          BY <2>3, <5>1
        <5> QED
          BY <5>1, <5>2, <5>3
      <4> QED
        BY <4>1, <4>2
    <3>4. f = h
      BY <3>3
    <3>5. Eq(f, m)
      BY <3>4 DEF Eq
    <3> QED
      BY <2>3, <3>5
  <2> QED
    BY <2>4, <2>5
<1>2. n \in 1 .. n
  OBVIOUS
<1>3. \E f : Eq(f, n)
  BY <1>1, <1>2
<1> DEFINE F == CHOOSE f : Eq(f, n)
<1>4. Eq(F, n)
  BY <1>3
<1>5. s = [i \in 1 .. n |-> s[i]] /\ n \in Nat /\ s \in Seq(Seq(MSDUs))
      /\ Len(s) = n
  BY <1>0
<1>6. FlattenSeq(s) = F[n]
  BY <1>5 DEF FlattenSeq, Eq
<1> HIDE DEF F, Bad
<1>7. /\ DOMAIN F = 1 .. n /\ F = [i \in 1 .. n |-> F[i]]
      /\ F[1] = s[1] /\ \A i \in 2 .. n : F[i] = F[i - 1] \o s[i]
  <2>1. 1 \in 1 .. n /\ \A i \in 2 .. n : i \in 1 .. n /\ i # 1
    OBVIOUS
  <2>2. F = [i \in 1 .. n |-> IF i = 1 THEN s[i] ELSE F[i - 1] \o s[i]]
    BY <1>4 DEF Eq
  <2> QED
    BY <2>1, <2>2
<1> DEFINE Off == {m \in 1 .. n : F[m] \notin Seq(MSDUs)}
<1>8. Off = {}
  <2> SUFFICES ASSUME Off # {} PROVE FALSE
    OBVIOUS
  <2>1. Off \subseteq Nat
    OBVIOUS
  <2>2. PICK m \in Off : \A y \in Off : m <= y
    BY <2>1, Smallest
  <2>3. CASE m = 1
    BY <1>0, <1>7, <2>3
  <2>4. CASE m # 1
    <3>1. m \in 2 .. n /\ m - 1 \in 1 .. n /\ m - 1 \notin Off
      BY <2>2, <2>4
    <3>2. F[m - 1] \in Seq(MSDUs) /\ s[m] \in Seq(MSDUs) /\ F[m] = F[m - 1] \o s[m]
      BY <1>0, <1>7, <3>1
    <3>3. F[m] \in Seq(MSDUs)
      BY <3>2
    <3> QED
      BY <3>3
  <2> QED
    BY <2>3, <2>4
<1>9. F \in [1 .. n -> Seq(MSDUs)]
  BY <1>7, <1>8
<1> QED
  BY <1>6, <1>7, <1>9

LEMMA FlattenNone ==
  ASSUME NEW s, Len(s) = 0
  PROVE  FlattenSeq(s) = s
BY DEF FlattenSeq

\* BA_REC_ENTRY with its history.
Session ==
  [REC_BA_Status : {"Initialization", "Established"},
   LastIndSeq : SeqNums, list : Seq(Block),
   CurMpdu : SeqNums \cup {Nothing}, age : 0 .. 2,
   PreviousAmsduState : States, PreviousSN : SeqNums,
   PreviousReorderCase : Cases, top : [n : Nat, k : Nat],
   late : BOOLEAN, pulled : BOOLEAN, dry : BOOLEAN, spoilt : BOOLEAN]

\* b and c differ in list, window, age and what was announced only.
SameRest(b, c) ==
  /\ c.REC_BA_Status = b.REC_BA_Status /\ c.CurMpdu = b.CurMpdu
  /\ c.PreviousAmsduState = b.PreviousAmsduState
  /\ c.PreviousSN = b.PreviousSN
  /\ c.PreviousReorderCase = b.PreviousReorderCase
  /\ c.pulled = b.pulled /\ c.dry = b.dry /\ c.spoilt = b.spoilt

\* The session gone on to sequence number t and age a, with the list, the
\* last MSDU announced and whether one was late as given.
At(b, list, top, late, t, a) ==
  [b EXCEPT !.list = list, !.top = top, !.late = late,
            !.LastIndSeq = t, !.age = a]

LEMMA AtIs ==
  ASSUME NEW b \in Session, NEW list \in Seq(Block),
         NEW top \in [n : Nat, k : Nat], NEW late \in BOOLEAN,
         NEW t \in SeqNums, NEW a \in 0 .. 2
  PROVE  LET c == At(b, list, top, late, t, a) IN
         /\ c \in Session /\ SameRest(b, c)
         /\ c.list = list /\ c.top = top /\ c.late = late
         /\ c.LastIndSeq = t /\ c.age = a
BY DEF Session, SameRest, At

LEMMA MsduIs ==
  ASSUME NEW p
  PROVE  p \in MSDUs <=> \E n \in MPDUs : \E k \in 1 .. Msdus[n] : p = [n |-> n, k |-> k]
<1>1. \A n : p \in [n : {n}, k : 1 .. Msdus[n]] <=> \E k \in 1 .. Msdus[n] : p = [n |-> n, k |-> k]
  OBVIOUS
<1> QED
  BY <1>1 DEF MSDUs

LEMMA MsduType == MSDUs \subseteq [n : Nat, k : Nat]
<1> SUFFICES ASSUME NEW n \in MPDUs, NEW k \in 1 .. Msdus[n]
             PROVE  [n |-> n, k |-> k] \in [n : Nat, k : Nat]
  BY MsduIs
<1>1. n \in Nat /\ Msdus[n] \in Nat
  BY MsduAssumption DEF MPDUs
<1> QED
  BY <1>1

LEMMA AnnounceIs ==
  ASSUME NEW b \in Session, NEW pkts \in Seq(MSDUs)
  PROVE  /\ \E top \in [n : Nat, k : Nat], late \in BOOLEAN :
              Announce(b, pkts) = [b EXCEPT !.top = top, !.late = late]
         /\ pkts = <<>> => Announce(b, pkts) = b
<1> DEFINE up == <<b.top>> \o pkts
           late == b.late \/ \E i \in 1 .. Len(pkts) : ~Before(up[i], up[i + 1])
<1>1. b.top \in [n : Nat, k : Nat] /\ b.late \in BOOLEAN
  BY DEF Session
<1> DEFINE T == [n : Nat, k : Nat]
<1>2. pkts \in Seq(T)
  <2> HIDE DEF T
  <2>1. MSDUs \subseteq T
    BY MsduType DEF T
  <2> QED
    BY <2>1
<1>3. up \in Seq(T) /\ Len(up) = Len(pkts) + 1
  <2> HIDE DEF T
  <2> QED
    BY <1>1, <1>2 DEF T
<1>4. Last(up) \in [n : Nat, k : Nat]
  <2> HIDE DEF T, up
  <2>1. Len(up) \in 1 .. Len(up)
    BY <1>3
  <2>2. up[Len(up)] \in T
    BY <1>3, <2>1
  <2> QED
    BY <2>2 DEF Last, T
<1>5. Announce(b, pkts) = [b EXCEPT !.top = Last(up), !.late = late]
  BY DEF Announce
<1>6. pkts = <<>> => Last(up) = b.top /\ late = b.late
  <2> SUFFICES ASSUME pkts = <<>> PROVE Last(up) = b.top /\ late = b.late
    OBVIOUS
  <2>1. Len(pkts) = 0 /\ up = <<b.top>>
    OBVIOUS
  <2> QED
    BY <1>1, <2>1 DEF Last
<1>7. [b EXCEPT !.top = b.top, !.late = b.late] = b
  BY DEF Session
<1>8. late \in BOOLEAN
  BY <1>1
<1> HIDE DEF up, late
<1> QED
  BY <1>4, <1>5, <1>6, <1>7, <1>8

LEMMA ReleasedIs ==
  ASSUME NEW b \in Session, NEW k \in 0 .. Len(b.list)
  PROVE  FlattenSeq([i \in 1 .. k |-> b.list[i].pkts]) \in Seq(MSDUs)
<1> DEFINE s == [i \in 1 .. k |-> b.list[i].pkts]
<1>1. \A i \in 1 .. k : b.list[i] \in Block
  BY DEF Session
<1>2. \A i \in 1 .. k : b.list[i].pkts \in Seq(MSDUs)
  BY <1>1 DEF Block
<1>3. s \in [1 .. k -> Seq(MSDUs)]
  BY <1>2
<1>4. CASE k = 0
  <2>1. s = <<>> /\ Len(s) = 0
    BY <1>4
  <2> HIDE DEF s
  <2>2. FlattenSeq(s) = <<>>
    BY <2>1, FlattenNone
  <2> QED
    BY <2>2 DEF s
<1>5. CASE k # 0
  <2>1. k \in Nat \ {0} /\ k \in 1 .. k
    BY <1>5
  <2> HIDE DEF s
  <2>2. PICK f \in [1 .. k -> Seq(MSDUs)] :
          /\ f[1] = s[1]
          /\ \A i \in 2 .. k : f[i] = f[i - 1] \o s[i]
          /\ FlattenSeq(s) = f[k]
    BY <1>3, <2>1, FlattenIs
  <2> QED
    BY <2>1, <2>2 DEF s
<1> QED
  BY <1>4, <1>5

LEMMA ReleaseIs ==
  ASSUME NEW b \in Session, NEW k \in 0 .. Len(b.list)
  PROVE  /\ \E top \in [n : Nat, k : Nat], late \in BOOLEAN :
              Release(b, k) = [b EXCEPT !.list = SubSeq(b.list, k + 1, Len(b.list)),
                                        !.top = top, !.late = late]
         /\ Release(b, 0) = b
<1> DEFINE rest == SubSeq(b.list, k + 1, Len(b.list))
           c == [b EXCEPT !.list = rest]
           pkts == FlattenSeq([i \in 1 .. k |-> b.list[i].pkts])
<1>1. b.list \in Seq(Block)
  BY DEF Session
<1>2. rest \in Seq(Block)
  BY <1>1, RestFacts
<1>3. pkts \in Seq(MSDUs)
  BY ReleasedIs
<1>4. Release(b, k) = Announce(c, pkts)
  BY DEF Release
<1>5. c \in Session
  <2> HIDE DEF rest
  <2> QED
    BY <1>2 DEF Session
<1>6. \E top \in [n : Nat, k : Nat], late \in BOOLEAN :
        Release(b, k) = [b EXCEPT !.list = rest, !.top = top, !.late = late]
  <2> HIDE DEF pkts, rest
  <2>1. PICK top \in [n : Nat, k : Nat], late \in BOOLEAN :
          Announce(c, pkts) = [c EXCEPT !.top = top, !.late = late]
    BY <1>3, <1>5, AnnounceIs
  <2> QED
    BY <1>4, <2>1
<1>7. Release(b, 0) = b
  <2> DEFINE s == [i \in 1 .. 0 |-> b.list[i].pkts]
  <2>1. SubSeq(b.list, 1, Len(b.list)) = b.list
    BY <1>1
  <2>2. [b EXCEPT !.list = b.list] = b
    BY DEF Session
  <2>3. s = <<>> /\ Len(s) = 0
    OBVIOUS
  <2>4. FlattenSeq(s) = <<>>
    <3> HIDE DEF s
    <3> QED
      BY <2>3, FlattenNone
  <2>5. <<>> \in Seq(MSDUs) /\ 0 + 1 = 1
    OBVIOUS
  <2>6. Announce(b, <<>>) = b
    BY <2>5, AnnounceIs
  <2> HIDE DEF s
  <2>7. Release(b, 0) = Announce([b EXCEPT !.list = SubSeq(b.list, 0 + 1, Len(b.list))], FlattenSeq(s))
    BY DEF Release, s
  <2> QED
    BY <2>1, <2>2, <2>4, <2>5, <2>6, <2>7
<1> QED
  BY <1>6, <1>7

-----------------------------------------------------------------------------
(***************************************************************************)
(* Order.  What ascends within each of several sequences, and from each to *)
(* the next, ascends through all of them: so does what a run of blocks     *)
(* releases.  MPDU n has the number Num(n); Held ties the list to MPDUs.   *)
(***************************************************************************)
\* MSDUs in the peer's order.
Ascends(s) == \A i \in 1 .. Len(s) - 1 : Before(s[i], s[i + 1])

LEMMA ConcatAscends ==
  ASSUME NEW s \in Seq(MSDUs) \ {<<>>}, NEW t \in Seq(MSDUs) \ {<<>>},
         Ascends(s), Ascends(t), Before(s[Len(s)], t[1])
  PROVE  /\ s \o t \in Seq(MSDUs) \ {<<>>} /\ Ascends(s \o t)
         /\ (s \o t)[1] = s[1] /\ (s \o t)[Len(s \o t)] = t[Len(t)]
<1> DEFINE u == s \o t
<1>1. /\ u \in Seq(MSDUs) /\ Len(u) = Len(s) + Len(t)
      /\ Len(s) \in Nat /\ Len(s) >= 1 /\ Len(t) \in Nat /\ Len(t) >= 1
  OBVIOUS
<1>2. \A i \in 1 .. Len(s) + Len(t) : u[i] = IF i <= Len(s) THEN s[i] ELSE t[i - Len(s)]
  OBVIOUS
<1> HIDE DEF u
<1>3. u[1] = s[1] /\ u[Len(u)] = t[Len(t)] /\ u # <<>>
  BY <1>1, <1>2
<1>4. ASSUME NEW i \in 1 .. Len(u) - 1
      PROVE  Before(u[i], u[i + 1])
  <2>1. i \in 1 .. Len(s) + Len(t) /\ i + 1 \in 1 .. Len(s) + Len(t)
    BY <1>1
  <2>2. CASE i < Len(s)
    <3>1. i \in 1 .. Len(s) - 1 /\ u[i] = s[i] /\ u[i + 1] = s[i + 1]
      BY <1>1, <1>2, <2>1, <2>2
    <3> QED
      BY <3>1 DEF Ascends
  <2>3. CASE i = Len(s)
    <3>1. u[i] = s[Len(s)] /\ u[i + 1] = t[1]
      BY <1>1, <1>2, <2>1, <2>3
    <3> QED
      BY <3>1
  <2>4. CASE i > Len(s)
    <3>1. i - Len(s) \in 1 .. Len(t) - 1 /\ u[i] = t[i - Len(s)]
          /\ u[i + 1] = t[(i - Len(s)) + 1]
      BY <1>1, <1>2, <2>1, <2>4
    <3> QED
      BY <3>1 DEF Ascends
  <2> QED
    BY <1>1, <2>2, <2>3, <2>4
<1> QED
  BY <1>1, <1>3, <1>4 DEF u, Ascends

\* What ascends within each sequence and from each to the next ascends
\* through all of them.
LEMMA FlattenAscends ==
  ASSUME NEW n \in Nat \ {0}, NEW s \in [1 .. n -> Seq(MSDUs) \ {<<>>}],
         \A i \in 1 .. n : Ascends(s[i]),
         \A i \in 1 .. n - 1 : Before(s[i][Len(s[i])], s[i + 1][1])
  PROVE  /\ FlattenSeq(s) \in Seq(MSDUs) \ {<<>>}
         /\ Ascends(FlattenSeq(s))
         /\ FlattenSeq(s)[1] = s[1][1]
         /\ FlattenSeq(s)[Len(FlattenSeq(s))] = s[n][Len(s[n])]
<1>1. s \in [1 .. n -> Seq(MSDUs)]
  OBVIOUS
<1>2. PICK f \in [1 .. n -> Seq(MSDUs)] :
        /\ f[1] = s[1]
        /\ \A i \in 2 .. n : f[i] = f[i - 1] \o s[i]
        /\ FlattenSeq(s) = f[n]
  BY <1>1, FlattenIs
<1> DEFINE Good(t, m) ==
             /\ t \in Seq(MSDUs) \ {<<>>} /\ Ascends(t)
             /\ t[1] = s[1][1] /\ t[Len(t)] = s[m][Len(s[m])]
           Bad == {m \in 1 .. n : ~Good(f[m], m)}
<1>3. \A m \in 1 .. n : s[m] \in Seq(MSDUs) \ {<<>>} /\ Ascends(s[m])
  OBVIOUS
<1> HIDE DEF Good
<1>4. Bad = {}
  <2> SUFFICES ASSUME Bad # {} PROVE FALSE
    OBVIOUS
  <2>1. Bad \subseteq Nat
    OBVIOUS
  <2>2. PICK m \in Bad : \A y \in Bad : m <= y
    BY <2>1, Smallest
  <2>3. m \in 1 .. n /\ ~Good(f[m], m)
    OBVIOUS
  <2> HIDE DEF Bad
  <2>4. CASE m = 1
    <3>1. Good(s[1], 1)
      BY <1>3, <2>3, <2>4 DEF Good
    <3> QED
      BY <1>2, <2>3, <2>4, <3>1
  <2>5. CASE m # 1
    <3>1. m - 1 \in 1 .. n /\ m - 1 \in 1 .. n - 1 /\ m \in 2 .. n
          /\ m - 1 < m /\ (m - 1) + 1 = m
      BY <2>3, <2>5
    <3>2. m - 1 \notin Bad
      BY <2>2, <3>1
    <3>3. Good(f[m - 1], m - 1)
      BY <3>1, <3>2 DEF Bad
    <3>4. Before(s[m - 1][Len(s[m - 1])], s[m][1])
      BY <3>1
    <3>5. f[m] = f[m - 1] \o s[m]
      BY <1>2, <3>1
    <3>6. f[m - 1] \in Seq(MSDUs) \ {<<>>} /\ Ascends(f[m - 1])
          /\ Before(f[m - 1][Len(f[m - 1])], s[m][1])
      BY <3>3, <3>4 DEF Good
    <3>7. s[m] \in Seq(MSDUs) \ {<<>>} /\ Ascends(s[m])
      BY <1>3, <2>3
    <3>8. Good(f[m - 1] \o s[m], m)
      BY <3>3, <3>6, <3>7, ConcatAscends DEF Good
    <3> QED
      BY <2>3, <3>5, <3>8
  <2> QED
    BY <2>4, <2>5
<1>5. n \in 1 .. n
  OBVIOUS
<1>6. Good(f[n], n)
  BY <1>4, <1>5
<1> QED
  BY <1>2, <1>6 DEF Good

\* The sequence number of MPDU n.
Num(n) == Wrap(StartSeq + n - 1)
\* The MPDU of the i-th block when LastIndSeq is the number of MPDU l.
Number(b, l, i) == l + Dist(b.list[i].Sequence, b.LastIndSeq)
\* LastIndSeq is the number of MPDU l, and each block holds the first MSDUs
\* of its MPDU in order.
Held(b, l) ==
  /\ b.LastIndSeq = Num(l)
  /\ \A i \in DOMAIN b.list : \A j \in DOMAIN b.list[i].pkts :
       b.list[i].pkts[j] = [n |-> Number(b, l, i), k |-> j]
\* What is held is newer than what was announced last.
Newer(b, l) == \A i \in DOMAIN b.list : b.top.n < Number(b, l, i)

LEMMA ReleaseOrder ==
  ASSUME NEW b \in Session, NEW l \in Nat, NEW k \in 0 .. Len(b.list),
         Behind(b.list, b.LastIndSeq), Held(b, l), Newer(b, l)
  PROVE  /\ Release(b, k).late = b.late
         /\ k = 0 => Release(b, k).top = b.top
         /\ k > 0 => Release(b, k).top
                       = [n |-> Number(b, l, k), k |-> Len(b.list[k].pkts)]
<1>1. CASE k = 0
  <2>1. Release(b, 0) = b
    BY <1>1, ReleaseIs
  <2> QED
    BY <1>1, <2>1
<1>2. CASE k # 0
  <2> DEFINE s == [i \in 1 .. k |-> b.list[i].pkts]
             pkts == FlattenSeq(s)
             N(i) == Number(b, l, i)
             P(i) == b.list[i].pkts
  <2>1. /\ k \in Nat \ {0} /\ k \in 1 .. k /\ 1 \in 1 .. k
        /\ DOMAIN b.list = 1 .. Len(b.list) /\ Len(b.list) \in Nat
        /\ \A i \in 1 .. k : i \in DOMAIN b.list
    BY <1>2 DEF Session
  <2>2. \A i \in 1 .. k : P(i) \in Seq(MSDUs) \ {<<>>}
    <3>1. \A i \in 1 .. k : b.list[i] \in Block
      BY DEF Session
    <3> QED
      BY <3>1 DEF Block
  <2>3. \A i \in 1 .. k : N(i) \in Nat
    <3> TAKE i \in 1 .. k
    <3>1. i \in DOMAIN b.list
      BY <2>1
    <3>2. Dist(b.list[i].Sequence, b.LastIndSeq) \in 1 .. BAWinSize
      BY <3>1 DEF Behind
    <3>3. Dist(b.list[i].Sequence, b.LastIndSeq) \in Nat
      BY <3>2, Space
    <3> QED
      BY <3>3 DEF Number
  <2>4. \A i \in 1 .. k - 1 : i \in 1 .. k /\ i + 1 \in 1 .. k /\ N(i) < N(i + 1)
    <3> TAKE i \in 1 .. k - 1
    <3>1. i \in 1 .. k /\ i + 1 \in 1 .. k /\ i < i + 1
      BY <2>1
    <3>2. Dist(b.list[i].Sequence, b.LastIndSeq) < Dist(b.list[i + 1].Sequence, b.LastIndSeq)
      BY <2>1, <3>1 DEF Behind
    <3>3. i \in DOMAIN b.list /\ i + 1 \in DOMAIN b.list
      BY <2>1, <3>1
    <3>4. /\ Dist(b.list[i].Sequence, b.LastIndSeq) \in 1 .. BAWinSize
          /\ Dist(b.list[i + 1].Sequence, b.LastIndSeq) \in 1 .. BAWinSize
      BY <3>3 DEF Behind
    <3>5. /\ Dist(b.list[i].Sequence, b.LastIndSeq) \in Nat
          /\ Dist(b.list[i + 1].Sequence, b.LastIndSeq) \in Nat
      BY <3>4, Space
    <3> QED
      BY <3>1, <3>2, <3>5 DEF Number
  <2>5. \A i \in 1 .. k : \A j \in 1 .. Len(P(i)) : P(i)[j] = [n |-> N(i), k |-> j]
    <3>1. \A i \in 1 .. k : DOMAIN P(i) = 1 .. Len(P(i))
      BY <2>2
    <3> QED
      BY <2>1, <3>1 DEF Held
  <2>6. \A i \in 1 .. k : b.top.n < N(i)
    BY <2>1 DEF Newer
  <2> HIDE DEF N, P
  <2>7. s = [i \in 1 .. k |-> P(i)]
    BY DEF P
  <2> HIDE DEF s
  <2>8. s \in [1 .. k -> Seq(MSDUs) \ {<<>>}] /\ \A i \in 1 .. k : s[i] = P(i)
    BY <2>2, <2>7
  <2>9. \A i \in 1 .. k : Len(P(i)) \in Nat /\ Len(P(i)) >= 1
    BY <2>2
  <2>10. \A i \in 1 .. k : Ascends(s[i])
    <3> SUFFICES ASSUME NEW i \in 1 .. k, NEW j \in 1 .. Len(P(i)) - 1
                 PROVE  Before(P(i)[j], P(i)[j + 1])
      BY <2>8 DEF Ascends
    <3>1. j \in 1 .. Len(P(i)) /\ j + 1 \in 1 .. Len(P(i)) /\ j < j + 1
      BY <2>9
    <3>2. P(i)[j] = [n |-> N(i), k |-> j] /\ P(i)[j + 1] = [n |-> N(i), k |-> j + 1]
      BY <2>5, <3>1
    <3> QED
      BY <3>1, <3>2 DEF Before
  <2>11. \A i \in 1 .. k - 1 : Before(s[i][Len(s[i])], s[i + 1][1])
    <3> TAKE i \in 1 .. k - 1
    <3>1. i \in 1 .. k /\ i + 1 \in 1 .. k /\ N(i) < N(i + 1)
      BY <2>4
    <3>2. Len(P(i)) \in 1 .. Len(P(i)) /\ 1 \in 1 .. Len(P(i + 1))
      BY <2>9, <3>1
    <3>3. s[i][Len(s[i])] = [n |-> N(i), k |-> Len(P(i))]
          /\ s[i + 1][1] = [n |-> N(i + 1), k |-> 1]
      BY <2>5, <2>8, <3>1, <3>2
    <3> QED
      BY <3>1, <3>3 DEF Before
  <2>12. /\ pkts \in Seq(MSDUs) \ {<<>>} /\ Ascends(pkts)
         /\ pkts[1] = s[1][1] /\ pkts[Len(pkts)] = s[k][Len(s[k])]
    BY <2>1, <2>8, <2>10, <2>11, FlattenAscends
  <2>13. /\ pkts[1].n = N(1)
         /\ pkts[Len(pkts)] = [n |-> N(k), k |-> Len(P(k))]
    <3>1. 1 \in 1 .. Len(P(1)) /\ Len(P(k)) \in 1 .. Len(P(k))
      BY <2>1, <2>9
    <3>2. /\ P(1)[1] = [n |-> N(1), k |-> 1]
          /\ P(k)[Len(P(k))] = [n |-> N(k), k |-> Len(P(k))]
      BY <2>1, <2>5, <3>1
    <3>3. s[1] = P(1) /\ s[k] = P(k)
      BY <2>1, <2>8
    <3> HIDE DEF pkts
    <3> QED
      BY <2>12, <3>2, <3>3
  <2> DEFINE c == [b EXCEPT !.list = SubSeq(@, k + 1, Len(@))]
             up == <<c.top>> \o pkts
  <2>14. Release(b, k) = [c EXCEPT !.top = Last(up),
             !.late = c.late \/ \E i \in 1 .. Len(pkts) : ~Before(up[i], up[i + 1])]
    BY DEF Release, Announce, s
  <2>15. c.top = b.top /\ c.late = b.late
    BY DEF Session
  <2> HIDE DEF pkts
  <2>16. /\ Len(pkts) \in Nat /\ Len(pkts) >= 1 /\ Len(up) = Len(pkts) + 1
         /\ up[1] = b.top /\ \A i \in 1 .. Len(pkts) : up[i + 1] = pkts[i]
    <3>1. Len(pkts) \in Nat /\ Len(pkts) >= 1 /\ pkts \in Seq(MSDUs)
      BY <2>12
    <3>2. Len(up) = Len(pkts) + 1 /\ up[1] = c.top
          /\ \A i \in 1 .. Len(pkts) : up[i + 1] = pkts[i]
      <4> DEFINE ct == c.top
      <4> HIDE DEF ct
      <4> QED
        BY <3>1 DEF ct
    <3> QED
      BY <2>15, <3>1, <3>2
  <2> HIDE DEF up
  <2>17. \A i \in 1 .. Len(pkts) : Before(up[i], up[i + 1])
    <3> TAKE i \in 1 .. Len(pkts)
    <3>1. CASE i = 1
      <4>1. up[i] = b.top /\ up[i + 1] = pkts[1] /\ b.top.n < pkts[1].n
        BY <2>1, <2>6, <2>13, <2>16, <3>1
      <4> QED
        BY <4>1 DEF Before
    <3>2. CASE i # 1
      <4>1. i - 1 \in 1 .. Len(pkts) - 1 /\ (i - 1) + 1 = i
            /\ i - 1 \in 1 .. Len(pkts)
        BY <2>16, <3>2
      <4>2. up[i] = pkts[i - 1] /\ up[i + 1] = pkts[i]
        BY <2>16, <4>1
      <4>3. Before(pkts[i - 1], pkts[(i - 1) + 1])
        BY <2>12, <4>1 DEF Ascends
      <4> QED
        BY <4>1, <4>2, <4>3
    <3> QED
      BY <3>1, <3>2
  <2>18. Last(up) = pkts[Len(pkts)]
    BY <2>16 DEF Last
  <2>19. Release(b, k).late = (b.late \/ FALSE) /\ Release(b, k).top = pkts[Len(pkts)]
    <3>1. c \in Session
      <4>1. SubSeq(b.list, k + 1, Len(b.list)) \in Seq(Block)
        BY RestFacts DEF Session
      <4> QED
        BY <4>1 DEF Session
    <3> HIDE DEF c
    <3>2. (\E i \in 1 .. Len(pkts) : ~Before(up[i], up[i + 1])) = FALSE
      BY <2>17
    <3> QED
      BY <2>14, <2>15, <2>18, <3>1, <3>2 DEF Session
  <2> QED
    BY <1>2, <2>13, <2>19 DEF N, P, Session
<1> QED
  BY <1>1, <1>2

-----------------------------------------------------------------------------
(***************************************************************************)
(* Advance: the window goes q numbers on and the blocks it passes go up.   *)
(* InOrder, LeSeq, Shift, Refresh and the flush are all such steps.        *)
(***************************************************************************)
LEMMA NumIs ==
  ASSUME NEW m \in Int, NEW q \in Int
  PROVE  Num(m) \in SeqNums /\ Wrap(Num(m) + q) = Num(m + q)
<1>1. StartSeq \in Int /\ SeqSpace \in Nat /\ SeqSpace > 0
  BY Space DEF SeqNums
<1>2. Num(m) \in SeqNums
  BY <1>1, WrapIs DEF Num
<1> DEFINE x == StartSeq + m - 1
<1>3. x \in Int /\ StartSeq + (m + q) - 1 = x + q
  BY <1>1
<1> HIDE DEF x
<1>4. ((x % SeqSpace) + q) % SeqSpace = (x + q) % SeqSpace
  BY <1>1, <1>3
<1> QED
  BY <1>2, <1>3, <1>4 DEF Num, Wrap, x

LEMMA NumDist ==
  ASSUME NEW m \in Int, NEW l \in Int
  PROVE  /\ 0 <= m - l /\ m - l < SeqSpace => Dist(Num(m), Num(l)) = m - l
         /\ -SeqSpace <= m - l /\ m - l < 0
              => Dist(Num(m), Num(l)) = m - l + SeqSpace
<1>1. Num(l) \in SeqNums /\ Wrap(Num(l) + (m - l)) = Num(m)
  <2>1. l + (m - l) = m /\ m - l \in Int
    OBVIOUS
  <2> QED
    BY <2>1, NumIs
<1>2. CASE 0 <= m - l /\ m - l < SeqSpace
  <2>1. m - l \in SeqNums
    BY <1>2, Space DEF SeqNums
  <2> QED
    BY <1>1, <1>2, <2>1, AheadIs, Space
<1>3. CASE -SeqSpace <= m - l /\ m - l < 0
  <2>1. m - l + SeqSpace \in SeqNums
    BY <1>3, Space DEF SeqNums
  <2>2. Wrap(Num(l) + (m - l + SeqSpace)) = Num(m)
    <3>1. Num(l) \in Int /\ 0 <= Num(l) /\ Num(l) < SeqSpace /\ SeqSpace \in Int
      BY <1>1, Space DEF SeqNums
    <3>2. /\ Num(l) + (m - l) \in Int
          /\ Num(l) + (m - l + SeqSpace) = Num(l) + (m - l) + SeqSpace
          /\ -SeqSpace <= Num(l) + (m - l) /\ Num(l) + (m - l) < SeqSpace
      BY <1>3, <3>1
    <3> DEFINE y == Num(l) + (m - l)
    <3> HIDE DEF y
    <3>3. Wrap(y + SeqSpace) = Wrap(y)
      <4>1. y \in Int /\ y + SeqSpace \in Int /\ -SeqSpace <= y /\ y < SeqSpace
        BY <3>1, <3>2 DEF y
      <4>2. CASE y < 0
        <5>1. Wrap(y) = y + SeqSpace
          BY <4>1, <4>2, WrapIs
        <5>2. Wrap(y + SeqSpace) = y + SeqSpace
          BY <3>1, <4>1, <4>2, WrapIs
        <5> QED
          BY <5>1, <5>2
      <4>3. CASE y >= 0
        <5>1. Wrap(y) = y
          BY <4>1, <4>3, WrapIs
        <5>2. Wrap(y + SeqSpace) = y + SeqSpace - SeqSpace
          BY <3>1, <4>1, <4>3, WrapIs
        <5> QED
          BY <3>1, <4>1, <5>1, <5>2
      <4> QED
        BY <4>1, <4>2, <4>3
    <3> QED
      BY <1>1, <3>2, <3>3 DEF y
  <2> QED
    BY <1>1, <1>3, <2>1, <2>2, AheadIs, Space
<1> QED
  BY <1>2, <1>3

\* The first k blocks, and no others, lie at most q behind.
Passed(b, k, q) ==
  /\ \A i \in 1 .. k : Dist(b.list[i].Sequence, b.LastIndSeq) <= q
  /\ \A i \in k + 1 .. Len(b.list) :
       Dist(b.list[i].Sequence, b.LastIndSeq) > q

\* c's last MSDU announced is b's or the last one of a block passed.
Announced(b, c, l, q) ==
  \/ c.top = b.top
  \/ \E i \in 1 .. Len(b.list) :
       /\ Dist(b.list[i].Sequence, b.LastIndSeq) <= q
       /\ c.top = [n |-> Number(b, l, i), k |-> Len(b.list[i].pkts)]

\* c is what b becomes when its window starts q numbers later: the blocks it
\* has passed have gone up, in order when what b holds and has announced is.
Advance(b, c, q) ==
  /\ c \in Session /\ SameRest(b, c)
  /\ Dist(c.LastIndSeq, b.LastIndSeq) = q
  /\ Behind(c.list, c.LastIndSeq)
  /\ \E k \in 0 .. Len(b.list) :
       c.list = SubSeq(b.list, k + 1, Len(b.list)) /\ Passed(b, k, q)
  /\ \A l \in Nat : Held(b, l) /\ Newer(b, l) =>
       /\ Held(c, l + q) /\ Newer(c, l + q) /\ c.late = b.late
       /\ Announced(b, c, l, q)
  /\ b.list = <<>> => c.top = b.top /\ c.late = b.late

\* The session with the first k blocks gone up and the window behind t.
Moved(b, k, t, a) == [Release(b, k) EXCEPT !.LastIndSeq = t, !.age = a]

LEMMA MoveTo ==
  ASSUME NEW b \in Session, Behind(b.list, b.LastIndSeq),
         NEW k \in 0 .. Len(b.list), NEW t \in SeqNums, NEW a \in 0 .. 2,
         Passed(b, k, Dist(t, b.LastIndSeq))
  PROVE  LET c == Moved(b, k, t, a) IN
         /\ Advance(b, c, Dist(t, b.LastIndSeq))
         /\ c.age = a /\ c.LastIndSeq = t
         /\ c.list = SubSeq(b.list, k + 1, Len(b.list))
<1> DEFINE c == Moved(b, k, t, a)
           rest == SubSeq(b.list, k + 1, Len(b.list))
           L == b.LastIndSeq
           q == Dist(t, L)
           D(i) == Dist(b.list[i].Sequence, L)
<1>0. b.list \in Seq(Block) /\ L \in SeqNums /\ Len(b.list) \in Nat
      /\ DOMAIN b.list = 1 .. Len(b.list)
  BY DEF Session
<1>p. /\ \A i \in 1 .. k : D(i) <= q
      /\ \A i \in k + 1 .. Len(b.list) : D(i) > q
  BY DEF Passed
<1>1. q \in Nat
  <2>1. q \in SeqNums
    BY <1>0, DistIs
  <2> QED
    BY <2>1, Space DEF SeqNums
<1>2. /\ rest \in Seq(Block) /\ DOMAIN rest = 1 .. Len(b.list) - k
      /\ \A i \in 1 .. Len(b.list) - k : rest[i] = b.list[i + k]
  BY <1>0, RestFacts
<1>3. /\ Behind(rest, t)
      /\ \A i \in 1 .. Len(b.list) - k : Dist(rest[i].Sequence, t) = D(i + k) - q
  BY <1>0, <1>p, BehindMove
<1>4. PICK top \in [n : Nat, k : Nat], late \in BOOLEAN :
        Release(b, k) = [b EXCEPT !.list = rest, !.top = top, !.late = late]
  BY ReleaseIs
<1> HIDE DEF rest, D, L, q, c
<1>5. Release(b, k).top = top /\ Release(b, k).late = late
  BY <1>4 DEF Session
<1>6. c = At(b, rest, top, late, t, a)
  BY <1>4 DEF At, Moved, c
<1>7. /\ c \in Session /\ SameRest(b, c)
      /\ c.list = rest /\ c.top = top /\ c.late = late
      /\ c.LastIndSeq = t /\ c.age = a
  BY <1>2, <1>6, AtIs
<1>8. ASSUME NEW l \in Nat, Held(b, l), Newer(b, l)
      PROVE  /\ Held(c, l + q) /\ Newer(c, l + q) /\ c.late = b.late
             /\ Announced(b, c, l, q)
  <2>1. /\ late = b.late
        /\ k = 0 => top = b.top
        /\ k > 0 => top = [n |-> Number(b, l, k), k |-> Len(b.list[k].pkts)]
    BY <1>5, <1>8, ReleaseOrder
  <2>2. \A i \in 1 .. Len(b.list) : D(i) \in Nat /\ Number(b, l, i) = l + D(i)
    <3>1. \A i \in 1 .. Len(b.list) : D(i) \in 1 .. BAWinSize
      BY <1>0 DEF Behind, D, L
    <3>2. \A i : Number(b, l, i) = l + D(i)
      BY DEF Number, D, L
    <3> QED
      BY <3>1, <3>2, Space
  <2>3. \A i \in DOMAIN rest : i + k \in 1 .. Len(b.list) /\ i + k \in Int
          /\ Number(c, l + q, i) = Number(b, l, i + k)
    <3> TAKE i \in DOMAIN rest
    <3>1. i \in 1 .. Len(b.list) - k /\ i + k \in 1 .. Len(b.list) /\ i + k \in Int
      BY <1>0, <1>2
    <3>2. Number(c, l + q, i) = l + q + (D(i + k) - q)
      BY <1>3, <1>7, <3>1 DEF Number
    <3> QED
      BY <1>1, <2>2, <3>1, <3>2
  <2>4. t = Num(l + q)
    <3>1. L = Num(l) /\ Wrap(L + q) = t
      BY <1>0, <1>8, DistZero DEF Held, L, q
    <3> QED
      BY <1>1, <3>1, NumIs
  <2>5. Held(c, l + q)
    <3>1. \A i \in DOMAIN rest : \A j \in DOMAIN rest[i].pkts :
            rest[i].pkts[j] = [n |-> Number(c, l + q, i), k |-> j]
      <4> TAKE i \in DOMAIN rest
      <4> TAKE j \in DOMAIN rest[i].pkts
      <4>1. rest[i] = b.list[i + k] /\ i + k \in DOMAIN b.list
        BY <1>0, <1>2, <2>3
      <4>2. b.list[i + k].pkts[j] = [n |-> Number(b, l, i + k), k |-> j]
        BY <1>8, <4>1 DEF Held
      <4> QED
        BY <2>3, <4>1, <4>2
    <3> QED
      BY <1>7, <2>4, <3>1 DEF Held
  <2>6. Newer(c, l + q)
    <3> SUFFICES ASSUME NEW i \in DOMAIN rest
                 PROVE  top.n < Number(c, l + q, i)
      BY <1>7 DEF Newer
    <3>1. i + k \in DOMAIN b.list /\ Number(c, l + q, i) = Number(b, l, i + k)
      BY <1>0, <2>3
    <3>2. CASE k = 0
      BY <1>8, <2>1, <3>1, <3>2 DEF Newer
    <3>3. CASE k > 0
      <4>0. top.n = Number(b, l, k)
        BY <2>1, <3>3
      <4>1. k \in 1 .. Len(b.list) /\ k < i + k /\ i + k \in 1 .. Len(b.list)
        BY <1>0, <1>2, <2>3, <3>3
      <4>2. D(k) < D(i + k)
        BY <1>0, <4>1 DEF Behind, D, L
      <4> QED
        BY <2>2, <3>1, <4>0, <4>1, <4>2
    <3> QED
      BY <3>2, <3>3
  <2>7. Announced(b, c, l, q)
    <3>1. CASE k = 0
      BY <1>7, <2>1, <3>1 DEF Announced
    <3>2. CASE k > 0
      <4>1. k \in 1 .. k /\ k \in 1 .. Len(b.list)
        BY <1>0, <3>2
      <4>2. D(k) <= q
        BY <1>p, <4>1
      <4> QED
        BY <1>7, <2>1, <3>2, <4>1, <4>2 DEF Announced, D, L
    <3> QED
      BY <3>1, <3>2
  <2> QED
    BY <1>7, <2>1, <2>5, <2>6, <2>7
<1>9. Dist(c.LastIndSeq, b.LastIndSeq) = q
  BY <1>7 DEF q, L
<1>10. \E m \in 0 .. Len(b.list) :
        c.list = SubSeq(b.list, m + 1, Len(b.list)) /\ Passed(b, m, q)
  BY <1>7 DEF rest, q, L
<1>a. b.list = <<>> => c.top = b.top /\ c.late = b.late
  <2> SUFFICES ASSUME b.list = <<>> PROVE c.top = b.top /\ c.late = b.late
    OBVIOUS
  <2>1. k = 0
    OBVIOUS
  <2>2. Release(b, k) = b
    BY <2>1, ReleaseIs
  <2> QED
    BY <1>5, <1>7, <2>2
<1>11. Advance(b, c, q)
  BY <1>3, <1>7, <1>8, <1>9, <1>10, <1>a DEF Advance
<1> QED
  BY <1>7, <1>11 DEF q, L, rest, c

LEMMA SessionIs ==
  ASSUME NEW b \in Session
  PROVE  /\ b.LastIndSeq \in SeqNums /\ b.LastIndSeq \in Int
         /\ b.list \in Seq(Block) /\ Len(b.list) \in Nat
         /\ DOMAIN b.list = 1 .. Len(b.list)
         /\ \A i \in 1 .. Len(b.list) : b.list[i].Sequence \in SeqNums
         /\ b.age \in 0 .. 2 /\ b.late \in BOOLEAN /\ b.top.n \in Nat
         /\ b.PreviousSN \in SeqNums
<1>1. b.LastIndSeq \in SeqNums /\ b.list \in Seq(Block)
      /\ b.age \in 0 .. 2 /\ b.late \in BOOLEAN /\ b.top.n \in Nat
      /\ b.PreviousSN \in SeqNums
  BY DEF Session
<1>2. b.LastIndSeq \in Int
  BY <1>1, Space DEF SeqNums
<1>3. \A i \in 1 .. Len(b.list) : b.list[i] \in Block
  BY <1>1
<1> QED
  BY <1>1, <1>2, <1>3 DEF Block

LEMMA RestRest ==
  ASSUME NEW T, NEW s \in Seq(T), NEW k \in 0 .. Len(s), NEW m \in 0 .. Len(s) - k
  PROVE  LET t == SubSeq(s, k + 1, Len(s)) IN
         SubSeq(t, m + 1, Len(t)) = SubSeq(s, (k + m) + 1, Len(s))
<1> DEFINE t == SubSeq(s, k + 1, Len(s))
           u == SubSeq(t, m + 1, Len(t))
           v == SubSeq(s, (k + m) + 1, Len(s))
<1>0. Len(s) \in Nat /\ k \in Int /\ m \in Int /\ k + m \in 0 .. Len(s)
  OBVIOUS
<1>1. /\ t \in Seq(T) /\ Len(t) = Len(s) - k
      /\ \A i \in 1 .. Len(s) - k : t[i] = s[i + k]
  BY RestFacts
<1>2. m \in 0 .. Len(t)
  BY <1>0, <1>1
<1> HIDE DEF t
<1>3. /\ u \in Seq(T) /\ Len(u) = Len(s) - k - m
      /\ \A i \in 1 .. Len(s) - k - m : u[i] = t[i + m]
  <2>1. /\ u \in Seq(T) /\ Len(u) = Len(t) - m
        /\ \A i \in 1 .. Len(t) - m : u[i] = t[i + m]
    BY <1>1, <1>2, RestFacts
  <2> QED
    BY <1>0, <1>1, <2>1
<1>4. /\ v \in Seq(T) /\ Len(v) = Len(s) - (k + m)
      /\ \A i \in 1 .. Len(s) - (k + m) : v[i] = s[i + (k + m)]
  BY <1>0, RestFacts
<1> HIDE DEF u, v
<1>5. Len(u) = Len(v) /\ Len(u) \in Nat
  BY <1>0, <1>3, <1>4
<1>6. ASSUME NEW i \in 1 .. Len(u)
      PROVE  u[i] = v[i]
  <2>1. i \in 1 .. Len(s) - k - m /\ i \in 1 .. Len(s) - (k + m)
        /\ i + m \in 1 .. Len(s) - k /\ (i + m) + k = i + (k + m)
    BY <1>0, <1>3
  <2> QED
    BY <1>1, <1>3, <1>4, <2>1
<1>7. u = v
  BY <1>3, <1>4, <1>5, <1>6, SeqEqual
<1> QED
  BY <1>7 DEF u, v, t

LEMMA AdvanceTrans ==
  ASSUME NEW b \in Session, Behind(b.list, b.LastIndSeq),
         NEW c, NEW d, NEW q \in Nat, NEW r \in Nat,
         Advance(b, c, q), Advance(c, d, r), q + r < SeqSpace
  PROVE  Advance(b, d, q + r)
<1> DEFINE D(i) == Dist(b.list[i].Sequence, b.LastIndSeq)
           E(i) == Dist(c.list[i].Sequence, c.LastIndSeq)
<1>0. /\ c \in Session /\ d \in Session /\ SameRest(b, d)
      /\ b.LastIndSeq \in SeqNums /\ c.LastIndSeq \in SeqNums
      /\ d.LastIndSeq \in SeqNums
      /\ b.list \in Seq(Block) /\ c.list \in Seq(Block)
      /\ Len(b.list) \in Nat /\ Len(c.list) \in Nat
      /\ Dist(c.LastIndSeq, b.LastIndSeq) = q
      /\ Dist(d.LastIndSeq, c.LastIndSeq) = r
      /\ Behind(d.list, d.LastIndSeq)
  <2>1. c \in Session /\ d \in Session /\ SameRest(b, d)
    BY DEF Advance, SameRest
  <2>2. /\ Dist(c.LastIndSeq, b.LastIndSeq) = q
        /\ Dist(d.LastIndSeq, c.LastIndSeq) = r
        /\ Behind(d.list, d.LastIndSeq)
    BY DEF Advance
  <2> QED
    BY <2>1, <2>2, SessionIs
<1>1. Dist(d.LastIndSeq, b.LastIndSeq) = q + r
  <2>1. r + q = q + r /\ r + q < SeqSpace
    OBVIOUS
  <2> QED
    BY <1>0, <2>1, DistSum
<1>2. PICK k \in 0 .. Len(b.list) :
       /\ c.list = SubSeq(b.list, k + 1, Len(b.list))
       /\ \A i \in 1 .. k : D(i) <= q
       /\ \A i \in k + 1 .. Len(b.list) : D(i) > q
  BY DEF Advance, Passed
<1>3. PICK m \in 0 .. Len(c.list) :
       /\ d.list = SubSeq(c.list, m + 1, Len(c.list))
       /\ \A i \in 1 .. m : E(i) <= r
       /\ \A i \in m + 1 .. Len(c.list) : E(i) > r
  BY DEF Advance, Passed
<1>4. /\ Len(c.list) = Len(b.list) - k
      /\ \A i \in 1 .. Len(b.list) - k : E(i) = D(i + k) - q
  <2>1. \A i \in k + 1 .. Len(b.list) :
          Dist(b.list[i].Sequence, b.LastIndSeq) > Dist(c.LastIndSeq, b.LastIndSeq)
    BY <1>0, <1>2
  <2> DEFINE rest == SubSeq(b.list, k + 1, Len(b.list))
  <2>2. \A i \in 1 .. Len(b.list) - k :
          Dist(rest[i].Sequence, c.LastIndSeq)
            = Dist(b.list[i + k].Sequence, b.LastIndSeq) - Dist(c.LastIndSeq, b.LastIndSeq)
    BY <1>0, <2>1, BehindMove
  <2>3. Len(rest) = Len(b.list) - k
    BY <1>0, RestFacts
  <2> QED
    BY <1>0, <1>2, <2>2, <2>3
<1>5. k + m \in 0 .. Len(b.list) /\ m \in 0 .. Len(b.list) - k
      /\ d.list = SubSeq(b.list, (k + m) + 1, Len(b.list))
  <2>1. k + m \in 0 .. Len(b.list) /\ m \in 0 .. Len(b.list) - k
    BY <1>0, <1>4
  <2> QED
    BY <1>0, <1>2, <1>3, <2>1, RestRest
<1>6. \A i \in 1 .. Len(b.list) : D(i) \in Nat
  <2>1. DOMAIN b.list = 1 .. Len(b.list)
    BY <1>0
  <2> QED
    BY <2>1, Space DEF Behind
<1>a. \A i \in 1 .. Len(c.list) : E(i) \in Nat
  <2>1. DOMAIN c.list = 1 .. Len(c.list) /\ Behind(c.list, c.LastIndSeq)
    BY <1>0 DEF Advance
  <2> QED
    BY <2>1, Space DEF Behind
<1> HIDE DEF D, E
<1>7. ASSUME NEW i \in 1 .. k + m
      PROVE  D(i) <= q + r
  <2>1. CASE i <= k
    <3>1. D(i) <= q /\ D(i) \in Nat
      BY <1>0, <1>2, <1>6, <2>1
    <3> QED
      BY <3>1
  <2>2. CASE i > k
    <3>1. i - k \in 1 .. m /\ i - k \in 1 .. Len(b.list) - k /\ (i - k) + k = i
          /\ i \in 1 .. Len(b.list)
      BY <1>0, <1>4, <1>5, <2>2
    <3>2. E(i - k) = D(i) - q /\ E(i - k) <= r
      BY <1>3, <1>4, <3>1
    <3> QED
      BY <1>6, <3>1, <3>2
  <2> QED
    BY <2>1, <2>2
<1>8. ASSUME NEW i \in (k + m) + 1 .. Len(b.list)
      PROVE  D(i) > q + r
  <2>1. i - k \in m + 1 .. Len(c.list) /\ i - k \in 1 .. Len(b.list) - k
        /\ (i - k) + k = i /\ i \in 1 .. Len(b.list)
    BY <1>0, <1>4, <1>5
  <2>2. E(i - k) = D(i) - q /\ E(i - k) > r
    BY <1>3, <1>4, <2>1
  <2> QED
    BY <1>6, <2>1, <2>2
<1>9. ASSUME NEW l \in Nat, Held(b, l), Newer(b, l)
      PROVE  /\ Held(d, l + (q + r)) /\ Newer(d, l + (q + r)) /\ d.late = b.late
             /\ Announced(b, d, l, q + r)
  <2>1. /\ Held(c, l + q) /\ Newer(c, l + q) /\ c.late = b.late
        /\ Announced(b, c, l, q)
    BY <1>9 DEF Advance
  <2>2. l + q \in Nat /\ (l + q) + r = l + (q + r)
    OBVIOUS
  <2>3. /\ Held(d, (l + q) + r) /\ Newer(d, (l + q) + r) /\ d.late = c.late
        /\ Announced(c, d, l + q, r)
    BY <2>1, <2>2 DEF Advance
  <2>4. Announced(b, d, l, q + r)
    <3>1. CASE d.top = c.top /\ c.top = b.top
      BY <3>1 DEF Announced
    <3>2. CASE d.top = c.top /\ c.top # b.top
      <4>1. PICK i \in 1 .. Len(b.list) :
              D(i) <= q /\ c.top = [n |-> Number(b, l, i), k |-> Len(b.list[i].pkts)]
        BY <2>1, <3>2 DEF Announced, D
      <4>2. D(i) <= q + r
        BY <1>6, <4>1
      <4> QED
        BY <3>2, <4>1, <4>2 DEF Announced, D
    <3>3. CASE d.top # c.top
      <4>1. PICK i \in 1 .. Len(c.list) :
              /\ E(i) <= r
              /\ d.top = [n |-> Number(c, l + q, i), k |-> Len(c.list[i].pkts)]
        BY <2>3, <3>3 DEF Announced, E
      <4>2. /\ i \in 1 .. Len(b.list) - k /\ i + k \in 1 .. Len(b.list)
            /\ E(i) = D(i + k) - q /\ D(i + k) \in Nat
        BY <1>0, <1>4, <1>6, <4>1
      <4>3. c.list[i] = b.list[i + k]
        <5> DEFINE rest == SubSeq(b.list, k + 1, Len(b.list))
        <5>1. rest[i] = b.list[i + k]
          BY <1>0, <4>2, RestFacts
        <5> QED
          BY <1>2, <5>1
      <4>4. Number(c, l + q, i) = Number(b, l, i + k)
        <5>1. Number(c, l + q, i) = l + q + E(i) /\ Number(b, l, i + k) = l + D(i + k)
          BY DEF Number, D, E
        <5> QED
          BY <4>2, <5>1
      <4>5. D(i + k) <= q + r
        BY <4>1, <4>2
      <4> QED
        BY <4>1, <4>2, <4>3, <4>4, <4>5 DEF Announced, D
    <3> QED
      BY <3>1, <3>2, <3>3
  <2> QED
    BY <2>1, <2>2, <2>3, <2>4
<1>b. b.list = <<>> => d.top = b.top /\ d.late = b.late
  <2> SUFFICES ASSUME b.list = <<>> PROVE d.top = b.top /\ d.late = b.late
    OBVIOUS
  <2>1. Len(b.list) = 0
    OBVIOUS
  <2>2. Len(c.list) = 0
    BY <1>0, <1>4, <2>1
  <2>3. c.list = <<>>
    BY <1>0, <2>2
  <2> QED
    BY <2>3 DEF Advance
<1>10. \E j \in 0 .. Len(b.list) :
        d.list = SubSeq(b.list, j + 1, Len(b.list)) /\ Passed(b, j, q + r)
  BY <1>5, <1>7, <1>8 DEF Passed, D
<1> QED
  BY <1>0, <1>1, <1>9, <1>10, <1>b DEF Advance

\* No block is ready that has not gone up.
Quiet(b) == \A i \in DOMAIN b.list : b.list[i].Sequence # Wrap(b.LastIndSeq + 1)

LEMMA NextIs ==
  ASSUME NEW s \in SeqNums
  PROVE  /\ Wrap(s + 1) \in SeqNums /\ Dist(Wrap(s + 1), s) = 1
         /\ \A t \in SeqNums : t = Wrap(s + 1) <=> Dist(t, s) = 1
<1>1. 1 \in SeqNums
  BY Space DEF SeqNums
<1>2. Wrap(s + 1) \in SeqNums /\ Dist(Wrap(s + 1), s) = 1
  BY <1>1, AheadIs
<1>3. ASSUME NEW t \in SeqNums, Dist(t, s) = 1
      PROVE  t = Wrap(s + 1)
  BY <1>3, DistZero
<1> QED
  BY <1>2, <1>3

LEMMA MovedSame ==
  ASSUME NEW b \in Session
  PROVE  Moved(b, 0, b.LastIndSeq, b.age) = b
<1>1. Release(b, 0) = b
  <2>1. 0 \in 0 .. Len(b.list)
    BY SessionIs
  <2> QED
    BY <2>1, ReleaseIs
<1>2. [b EXCEPT !.LastIndSeq = b.LastIndSeq, !.age = b.age] = b
  BY DEF Session
<1> QED
  BY <1>1, <1>2 DEF Moved

LEMMA ReleaseAge ==
  ASSUME NEW b \in Session, NEW k \in 0 .. Len(b.list), NEW t
  PROVE  [Release(b, k) EXCEPT !.LastIndSeq = t] = Moved(b, k, t, b.age)
<1> DEFINE rest == SubSeq(b.list, k + 1, Len(b.list))
<1>1. PICK top \in [n : Nat, k : Nat], late \in BOOLEAN :
        Release(b, k) = [b EXCEPT !.list = rest, !.top = top, !.late = late]
  BY ReleaseIs
<1> HIDE DEF rest
<1> DEFINE r == [b EXCEPT !.list = rest, !.top = top, !.late = late]
<1>2. [r EXCEPT !.LastIndSeq = t] = [r EXCEPT !.LastIndSeq = t, !.age = b.age]
  BY DEF Session
<1> QED
  BY <1>1, <1>2 DEF Moved

\* InOrder moves the window over the blocks without a gap behind it, and
\* leaves none whose turn it is.
LEMMA InOrderIs ==
  ASSUME NEW b \in Session, Behind(b.list, b.LastIndSeq)
  PROVE  \E k \in 0 .. Len(b.list) :
           /\ Advance(b, InOrder(b), k) /\ Quiet(InOrder(b))
           /\ InOrder(b).age = b.age
           /\ InOrder(b).LastIndSeq = Wrap(b.LastIndSeq + k)
           /\ \A i \in 1 .. k : Dist(b.list[i].Sequence, b.LastIndSeq) = i
           /\ k <= BAWinSize
<1> DEFINE list == b.list
           L == b.LastIndSeq
           D(i) == Dist(list[i].Sequence, L)
           G == {i \in 1 .. Len(list) : list[i].Sequence = Wrap(L + i)}
           K == {k \in 0 .. Len(list) :
                   \A i \in 1 .. k : list[i].Sequence = Wrap(L + i)}
           k == Max(K)
           t == Wrap(L + k)
           c == Moved(b, k, t, b.age)
<1>0. /\ L \in SeqNums /\ L \in Int /\ list \in Seq(Block) /\ Len(list) \in Nat
      /\ DOMAIN list = 1 .. Len(list)
      /\ \A i \in 1 .. Len(list) : list[i].Sequence \in SeqNums
      /\ b.age \in 0 .. 2
  BY SessionIs
<1>1. InOrder(b) = IF k = 0 THEN b
                   ELSE [Release(b, k) EXCEPT !.LastIndSeq = list[k].Sequence]
  BY DEF InOrder, Leading
<1>2. /\ k \in 0 .. Len(list) /\ \A i \in 1 .. k : i \in G
      /\ k < Len(list) => k + 1 \notin G
  <2>1. K = {j \in 0 .. Len(list) : \A i \in 1 .. j : i \in G}
    BY <1>0
  <2> HIDE DEF K, G
  <2> QED
    BY <1>0, <2>1, LeadingIs
<1> HIDE DEF K, k
<1>3. /\ Len(list) <= BAWinSize /\ BAWinSize < SeqSpace
      /\ \A i \in 1 .. Len(list) : i <= D(i) /\ D(i) \in 1 .. BAWinSize
      /\ \A i \in 0 .. Len(list) : i \in SeqNums
  <2>1. BAWinSize < SeqSpace /\ BAWinSize \in Nat /\ SeqSpace \in Nat
    BY Space
  <2>2. Len(list) <= BAWinSize /\ \A i \in 1 .. Len(list) : i <= D(i)
    BY <1>0, BehindLen
  <2>3. \A i \in 1 .. Len(list) : D(i) \in 1 .. BAWinSize
    BY <1>0 DEF Behind
  <2> QED
    BY <1>0, <2>1, <2>2, <2>3 DEF SeqNums
<1>4. \A i \in 1 .. k : D(i) = i /\ list[i].Sequence = Wrap(L + i)
  <2> TAKE i \in 1 .. k
  <2>1. i \in 1 .. Len(list) /\ i \in SeqNums /\ list[i].Sequence = Wrap(L + i)
    BY <1>0, <1>2, <1>3
  <2> QED
    BY <1>0, <2>1, AheadIs
<1>5. k \in SeqNums /\ t \in SeqNums /\ Dist(t, L) = k
  BY <1>0, <1>2, <1>3, AheadIs
<1>6. \A i \in k + 1 .. Len(list) : D(i) > k + 1
  <2> TAKE i \in k + 1 .. Len(list)
  <2>1. k + 1 \in 1 .. Len(list) /\ i \in 1 .. Len(list) /\ k < Len(list)
    BY <1>0, <1>2
  <2>2. list[k + 1].Sequence # Wrap(L + (k + 1))
    BY <1>2, <2>1
  <2>3. D(k + 1) # k + 1
    BY <1>0, <2>1, <2>2, DistZero
  <2>4. D(k + 1) > k + 1
    BY <1>2, <1>3, <2>1, <2>3, Space
  <2>5. CASE i = k + 1
    BY <2>4, <2>5
  <2>6. CASE i # k + 1
    BY <1>2, <1>3, <2>1, <2>6, Space
  <2> QED
    BY <2>5, <2>6
<1>7. InOrder(b) = c
  <2>1. CASE k = 0
    <3>1. t = L
      BY <1>0, <1>5, <2>1, DistZero
    <3> QED
      BY <1>1, <2>1, <3>1, MovedSame
  <2>2. CASE k # 0
    <3>1. k \in 1 .. k /\ list[k].Sequence = t
      BY <1>2, <1>4, <2>2
    <3> QED
      BY <1>1, <1>2, <2>2, <3>1, ReleaseAge
  <2> QED
    BY <2>1, <2>2
<1> HIDE DEF c
<1>8. /\ Advance(b, c, Dist(t, L)) /\ c.age = b.age /\ c.LastIndSeq = t
      /\ c.list = SubSeq(list, k + 1, Len(list))
  <2>1. \A i \in 1 .. k : D(i) <= Dist(t, L)
    BY <1>4, <1>5, <1>2
  <2>2. \A i \in k + 1 .. Len(list) : D(i) > Dist(t, L)
    <3> TAKE i \in k + 1 .. Len(list)
    <3>1. D(i) > k + 1 /\ D(i) \in Int
      BY <1>2, <1>3, <1>6, Space
    <3> QED
      BY <1>2, <1>5, <3>1
  <2>3. Passed(b, k, Dist(t, L))
    BY <2>1, <2>2 DEF Passed
  <2> HIDE DEF t
  <2> QED
    BY <1>0, <1>2, <1>5, <2>3, MoveTo DEF c
<1>9. Quiet(c)
  <2> SUFFICES ASSUME NEW i \in DOMAIN c.list
               PROVE  c.list[i].Sequence # Wrap(t + 1)
    BY <1>8 DEF Quiet
  <2>1. /\ i \in 1 .. Len(list) - k /\ c.list[i] = list[i + k]
        /\ i + k \in 1 .. Len(list) /\ i + k \in k + 1 .. Len(list)
    <3> DEFINE rest == SubSeq(list, k + 1, Len(list))
    <3>a. /\ DOMAIN rest = 1 .. Len(list) - k
          /\ \A j \in 1 .. Len(list) - k : rest[j] = list[j + k]
      BY <1>0, <1>2, RestFacts
    <3>1. DOMAIN c.list = 1 .. Len(list) - k
          /\ \A j \in 1 .. Len(list) - k : c.list[j] = list[j + k]
      BY <1>8, <3>a
    <3> QED
      BY <1>0, <1>2, <3>1
  <2>2. D(i + k) > k + 1 /\ D(i + k) \in Nat
    BY <1>3, <1>6, <2>1, Space
  <2> DEFINE x == list[i + k].Sequence
  <2>3. x \in SeqNums /\ Dist(x, L) > k + 1 /\ Dist(x, L) \in Nat
    BY <1>0, <2>1, <2>2
  <2> HIDE DEF x, t
  <2>4. Dist(x, L) = IF Dist(x, t) + Dist(t, L) < SeqSpace
                     THEN Dist(x, t) + Dist(t, L)
                     ELSE Dist(x, t) + Dist(t, L) - SeqSpace
    BY <1>0, <1>5, <2>3, DistSum
  <2>5. Dist(x, t) # 1
    BY <1>2, <1>5, <2>3, <2>4, Space
  <2> QED
    BY <1>5, <2>1, <2>3, <2>5, NextIs DEF x
<1>10. k <= BAWinSize
  BY <1>0, <1>2, <1>3, Space
<1> QED
  BY <1>2, <1>4, <1>5, <1>7, <1>8, <1>9, <1>10

LEMMA PassedIs ==
  ASSUME NEW b \in Session, Behind(b.list, b.LastIndSeq),
         NEW q \in Int, NEW k \in 0 .. Len(b.list),
         \A i \in 1 .. k : Dist(b.list[i].Sequence, b.LastIndSeq) <= q,
         k < Len(b.list) => Dist(b.list[k + 1].Sequence, b.LastIndSeq) > q
  PROVE  Passed(b, k, q)
<1> SUFFICES ASSUME NEW i \in k + 1 .. Len(b.list)
             PROVE  Dist(b.list[i].Sequence, b.LastIndSeq) > q
  BY DEF Passed
<1>1. DOMAIN b.list = 1 .. Len(b.list) /\ Len(b.list) \in Nat
  BY SessionIs
<1>2. k + 1 \in 1 .. Len(b.list) /\ i \in 1 .. Len(b.list) /\ k < Len(b.list)
  BY <1>1
<1>3. /\ Dist(b.list[i].Sequence, b.LastIndSeq) \in 1 .. BAWinSize
      /\ Dist(b.list[k + 1].Sequence, b.LastIndSeq) \in 1 .. BAWinSize
      /\ k + 1 < i => Dist(b.list[k + 1].Sequence, b.LastIndSeq)
                        < Dist(b.list[i].Sequence, b.LastIndSeq)
  BY <1>1, <1>2 DEF Behind
<1>4. i = k + 1 \/ k + 1 < i
  BY <1>1
<1> QED
  BY <1>2, <1>3, <1>4, Space

\* Up to half the space ahead, comparing with seq tells the blocks up to it.
LEMMA UpToIs ==
  ASSUME NEW s \in SeqNums, NEW seq \in SeqNums, NEW L \in SeqNums,
         Dist(s, L) \in 1 .. BAWinSize, Dist(seq, L) <= Half
  PROVE  /\ (s = seq \/ SEQ_SMALLER(s, seq)) <=> Dist(s, L) <= Dist(seq, L)
         /\ SEQ_SMALLER(s, seq) <=> Dist(s, L) < Dist(seq, L)
<1> DEFINE o == Dist(s, L)
           q == Dist(seq, L)
           x == Dist(s, seq)
<1>1. o \in SeqNums /\ q \in SeqNums /\ x \in SeqNums /\ SeqSpace \in Nat
      /\ Half \in Nat /\ BAWinSize \in Nat
  BY DistIs, Space
<1>2. o = IF x + q < SeqSpace THEN x + q ELSE x + q - SeqSpace
  BY DistSum
<1>3. x = 0 <=> s = seq
  BY DistZero
<1>4. SEQ_SMALLER(s, seq) <=> x >= Half
  BY SmallerIs
<1>5. o \in 1 .. BAWinSize /\ q <= Half
  OBVIOUS
<1> HIDE DEF o, q, x
<1> QED
  BY <1>1, <1>2, <1>3, <1>4, <1>5, Space DEF SeqNums, o, q

LEMMA LeSeqIs ==
  ASSUME NEW b \in Session, Behind(b.list, b.LastIndSeq),
         NEW seq \in SeqNums, Dist(seq, b.LastIndSeq) <= Half
  PROVE  \E k \in 0 .. Len(b.list) :
           LeSeq(b, seq) = Release(b, k) /\ Passed(b, k, Dist(seq, b.LastIndSeq))
<1> DEFINE list == b.list
           L == b.LastIndSeq
           q == Dist(seq, L)
           D(i) == Dist(list[i].Sequence, L)
           Ok(i) == list[i].Sequence = seq \/ SEQ_SMALLER(list[i].Sequence, seq)
           G == {i \in 1 .. Len(list) : Ok(i)}
           K == {k \in 0 .. Len(list) : \A i \in 1 .. k : Ok(i)}
           k == Max(K)
<1>0. /\ L \in SeqNums /\ Len(list) \in Nat /\ DOMAIN list = 1 .. Len(list)
      /\ \A i \in 1 .. Len(list) : list[i].Sequence \in SeqNums
  BY SessionIs
<1>1. LeSeq(b, seq) = Release(b, k)
  BY DEF LeSeq, Leading
<1>2. \A i \in 1 .. Len(list) : Ok(i) <=> D(i) <= q
  <2> TAKE i \in 1 .. Len(list)
  <2>1. D(i) \in 1 .. BAWinSize
    BY <1>0 DEF Behind
  <2> QED
    BY <1>0, <2>1, UpToIs
<1> HIDE DEF Ok, D
<1>3. /\ k \in 0 .. Len(list) /\ \A i \in 1 .. k : i \in G
      /\ k < Len(list) => k + 1 \notin G
  <2>1. K = {j \in 0 .. Len(list) : \A i \in 1 .. j : i \in G}
    BY <1>0
  <2> HIDE DEF K, G
  <2> QED
    BY <1>0, <2>1, LeadingIs
<1> HIDE DEF k
<1>4. \A i \in 1 .. k : D(i) <= q
  BY <1>2, <1>3
<1>5. k < Len(list) => D(k + 1) > q
  <2> SUFFICES ASSUME k < Len(list) PROVE D(k + 1) > q
    OBVIOUS
  <2>1. k + 1 \in 1 .. Len(list)
    BY <1>0, <1>3
  <2>2. ~(D(k + 1) <= q)
    BY <1>2, <1>3, <2>1
  <2>3. D(k + 1) \in 1 .. BAWinSize /\ q \in SeqNums
    BY <1>0, <2>1, DistIs DEF Behind, D
  <2> QED
    BY <2>2, <2>3, Space DEF SeqNums
<1>6. q \in Int
  BY <1>0, DistNat
<1>7. Passed(b, k, q)
  BY <1>3, <1>4, <1>5, <1>6, PassedIs DEF D
<1> QED
  BY <1>1, <1>3, <1>7

\* The window goes to seq and on over what has no gap behind it.
LEMMA ShiftIs ==
  ASSUME NEW b \in Session, Behind(b.list, b.LastIndSeq),
         NEW seq \in SeqNums, Dist(seq, b.LastIndSeq) <= Half
  PROVE  \E r \in 0 .. BAWinSize :
           /\ Advance(b, Shift(b, seq), Dist(seq, b.LastIndSeq) + r)
           /\ Quiet(Shift(b, seq)) /\ Shift(b, seq).age = 0
           /\ \/ r = 0
              \/ \E i \in 1 .. Len(b.list) :
                   Dist(b.list[i].Sequence, b.LastIndSeq)
                     = Dist(seq, b.LastIndSeq) + r
<1> DEFINE L == b.LastIndSeq
           q == Dist(seq, L)
<1>0. /\ b.list \in Seq(Block) /\ L \in SeqNums /\ Len(b.list) \in Nat
  BY SessionIs
<1>1. q \in Nat /\ q <= Half
  BY <1>0, DistNat
<1>2. PICK k \in 0 .. Len(b.list) :
        LeSeq(b, seq) = Release(b, k) /\ Passed(b, k, q)
  BY LeSeqIs
<1> DEFINE m == Moved(b, k, seq, 0)
<1>3. Shift(b, seq) = InOrder(m)
  BY <1>2 DEF Shift, Moved
<1>4. /\ Advance(b, m, q) /\ m.age = 0 /\ m.LastIndSeq = seq
      /\ m.list = SubSeq(b.list, k + 1, Len(b.list))
  <2>1. 0 \in 0 .. 2
    OBVIOUS
  <2> QED
    BY <1>2, <2>1, MoveTo
<1> HIDE DEF m
<1>5. m \in Session /\ Behind(m.list, m.LastIndSeq)
  BY <1>4 DEF Advance
<1>6. PICK r \in 0 .. Len(m.list) :
           /\ Advance(m, InOrder(m), r) /\ Quiet(InOrder(m))
           /\ InOrder(m).age = m.age
           /\ \A i \in 1 .. r : Dist(m.list[i].Sequence, m.LastIndSeq) = i
           /\ r <= BAWinSize
  BY <1>5, InOrderIs
<1>7. r \in Nat /\ r \in 0 .. BAWinSize /\ q + r < SeqSpace
  BY <1>1, <1>5, <1>6, SessionIs, Space
<1>8. Advance(b, InOrder(m), q + r)
  BY <1>1, <1>4, <1>6, <1>7, AdvanceTrans
<1>9. ASSUME r # 0
      PROVE  \E i \in 1 .. Len(b.list) : Dist(b.list[i].Sequence, L) = q + r
  <2>1. r \in 1 .. r /\ Dist(m.list[r].Sequence, seq) = r
    BY <1>4, <1>6, <1>7, <1>9
  <2>2. Len(m.list) = Len(b.list) - k
    BY <1>0, <1>4, RestFacts
  <2>3. r \in 1 .. Len(b.list) - k /\ r + k \in 1 .. Len(b.list)
    BY <1>0, <1>6, <1>7, <1>9, <2>2
  <2>4. Dist(m.list[r].Sequence, seq) = Dist(b.list[r + k].Sequence, L) - q
    <3>1. \A i \in k + 1 .. Len(b.list) : Dist(b.list[i].Sequence, L) > Dist(seq, L)
      BY <1>2 DEF Passed
    <3> DEFINE rest == SubSeq(b.list, k + 1, Len(b.list))
    <3>2. \A i \in 1 .. Len(b.list) - k :
            Dist(rest[i].Sequence, seq) = Dist(b.list[i + k].Sequence, L) - Dist(seq, L)
      BY <1>0, <3>1, BehindMove
    <3> QED
      BY <1>4, <2>3, <3>2
  <2>5. Dist(b.list[r + k].Sequence, L) \in Int
    <3>1. b.list[r + k].Sequence \in SeqNums
      BY <2>3, SessionIs
    <3> QED
      BY <1>0, <3>1, DistNat
  <2> QED
    BY <1>1, <1>7, <2>1, <2>3, <2>4, <2>5
<1> QED
  BY <1>3, <1>4, <1>6, <1>7, <1>8, <1>9

-----------------------------------------------------------------------------
(***************************************************************************)
(* What holds between two calls, Good, and what flush and amsdu_sanity     *)
(* leave of it.                                                            *)
(***************************************************************************)
\* The states of an MSDU that is not the last one of its MPDU.
Partial == {"FIRST", "MIDDLE"}
\* The MPDU of the last MSDU goes up as it comes and has not ended.
Started(b) ==
  b.PreviousReorderCase = "STEP_ONE" /\ b.PreviousAmsduState \in Partial
\* The MPDU with number s has a block.
Buffered(b, s) == \E i \in DOMAIN b.list : b.list[i].Sequence = s
\* The window has passed the number s, and not by far.
LeftBehind(b, s) == Dist(b.LastIndSeq, s) <= BAWinSize /\ Behind(b.list, s)
\* CurMpdu is the block of the MPDU under way, if it is still there.
CurOK(b) ==
  b.CurMpdu # Nothing =>
    /\ b.CurMpdu = b.PreviousSN /\ b.PreviousAmsduState \in Partial
    /\ Buffered(b, b.CurMpdu) \/ LeftBehind(b, b.CurMpdu)
\* Where amsdu_sanity may set LastIndSeq, the list lies behind it.
PullOK(b) == Started(b) => Behind(b.list, b.PreviousSN)
\* A session just renewed holds nothing.
NewOK(b) ==
  b.REC_BA_Status = "Initialization" => b.list = <<>> /\ b.CurMpdu = Nothing

\* What every step of a handler keeps, and what the handler leaves.
Sound(b) ==
  /\ b \in Session /\ Behind(b.list, b.LastIndSeq)
  /\ CurOK(b) /\ PullOK(b) /\ NewOK(b) /\ ~b.spoilt
Good(b) == Sound(b) /\ Quiet(b)

\* The window goes no further than the blocks reach.
Within(b, q) ==
  q = 0 \/ \E i \in 1 .. Len(b.list) :
             q <= Dist(b.list[i].Sequence, b.LastIndSeq)

LEMMA ForgottenIs ==
  ASSUME NEW b \in Session
  PROVE  /\ Forgotten(b) \in Session /\ Forgotten(b).CurMpdu = Nothing
         /\ Forgotten(b).list = b.list /\ Forgotten(b).LastIndSeq = b.LastIndSeq
         /\ Forgotten(b).top = b.top /\ Forgotten(b).late = b.late
         /\ Forgotten(b).age = b.age /\ Forgotten(b).pulled = b.pulled
         /\ Forgotten(b).dry = b.dry /\ Forgotten(b).spoilt = b.spoilt
         /\ Forgotten(b).REC_BA_Status = b.REC_BA_Status
         /\ Forgotten(b).PreviousAmsduState = b.PreviousAmsduState
         /\ Forgotten(b).PreviousSN = b.PreviousSN
         /\ Forgotten(b).PreviousReorderCase = b.PreviousReorderCase
BY DEF Forgotten, Session

LEMMA AdvanceRefl ==
  ASSUME NEW b \in Session, Behind(b.list, b.LastIndSeq)
  PROVE  Advance(b, b, 0)
<1>1. b.LastIndSeq \in SeqNums /\ b.age \in 0 .. 2 /\ Len(b.list) \in Nat
      /\ DOMAIN b.list = 1 .. Len(b.list)
  BY SessionIs
<1>2. Dist(b.LastIndSeq, b.LastIndSeq) = 0 /\ 0 \in 0 .. Len(b.list)
  BY <1>1, DistZero
<1>3. Passed(b, 0, 0)
  <2>1. \A i \in 1 .. Len(b.list) : Dist(b.list[i].Sequence, b.LastIndSeq) > 0
    BY <1>1 DEF Behind
  <2> QED
    BY <2>1 DEF Passed
<1>4. Advance(b, Moved(b, 0, b.LastIndSeq, b.age), 0)
  BY <1>1, <1>2, <1>3, MoveTo
<1> QED
  BY <1>4, MovedSame

LEMMA RefreshIs ==
  ASSUME NEW b \in Session, Behind(b.list, b.LastIndSeq), NEW a \in 0 .. 2
  PROVE  \E m : \E q \in 0 .. BAWinSize :
           /\ Advance(b, m, q) /\ Within(b, q)
           /\ m.list = <<>> /\ m.age = a
           /\ [Refresh(b) EXCEPT !.age = a] = Forgotten(m)
<1> DEFINE k == Len(b.list)
           L == b.LastIndSeq
           D(i) == Dist(b.list[i].Sequence, L)
           t == IF k = 0 THEN L ELSE b.list[k].Sequence
           q == Dist(t, L)
           m == Moved(b, k, t, a)
<1>0. /\ b.list \in Seq(Block) /\ L \in SeqNums /\ k \in Nat
      /\ DOMAIN b.list = 1 .. k
      /\ \A i \in 1 .. k : b.list[i].Sequence \in SeqNums
      /\ k \in 0 .. k
  BY SessionIs
<1>1. t \in SeqNums
  BY <1>0
<1>2. q \in 0 .. BAWinSize /\ Within(b, q)
  <2>1. CASE k = 0
    <3>1. q = 0
      BY <1>0, <2>1, DistZero
    <3> QED
      BY <3>1, Space DEF Within
  <2>2. CASE k # 0
    <3>1. k \in 1 .. k /\ q = D(k)
      BY <1>0, <2>2
    <3>2. D(k) \in 1 .. BAWinSize
      BY <1>0, <3>1 DEF Behind
    <3> HIDE DEF q
    <3>3. q <= q
      BY <3>1, <3>2
    <3> QED
      BY <3>1, <3>2, <3>3 DEF Within
  <2> QED
    BY <2>1, <2>2
<1>3. Passed(b, k, q)
  <2>1. \A i \in 1 .. k : D(i) <= q
    <3> TAKE i \in 1 .. k
    <3>1. k \in 1 .. k /\ q = D(k)
      BY <1>0
    <3>2. D(k) \in 1 .. BAWinSize /\ D(i) \in 1 .. BAWinSize /\ (i < k => D(i) < D(k))
      BY <1>0, <3>1 DEF Behind
    <3>3. i = k \/ i < k
      BY <1>0
    <3> HIDE DEF q, D
    <3> QED
      BY <3>1, <3>2, <3>3
  <2>2. k + 1 .. Len(b.list) = {}
    BY <1>0
  <2> QED
    BY <2>1, <2>2 DEF Passed
<1>4. /\ Advance(b, m, q) /\ m.age = a
      /\ m.list = SubSeq(b.list, k + 1, Len(b.list))
  <2> HIDE DEF t
  <2>1. k \in 0 .. Len(b.list)
    BY <1>0
  <2> HIDE DEF k
  <2> QED
    BY <1>1, <1>3, <2>1, MoveTo
<1>5. m.list = <<>>
  <2>1. Len(m.list) = k - k /\ m.list \in Seq(Block)
    <3> DEFINE rest == SubSeq(b.list, k + 1, Len(b.list))
    <3>1. Len(rest) = k - k /\ rest \in Seq(Block)
      BY <1>0, RestFacts
    <3> HIDE DEF m, rest
    <3> QED
      BY <1>4, <3>1 DEF rest
  <2> QED
    BY <1>0, <2>1
<1>6. [Refresh(b) EXCEPT !.age = a] = Forgotten(m)
  <2> DEFINE rest == SubSeq(b.list, k + 1, Len(b.list))
  <2>1. PICK top \in [n : Nat, k : Nat], late \in BOOLEAN :
          Release(b, k) = [b EXCEPT !.list = rest, !.top = top, !.late = late]
    BY <1>0, ReleaseIs
  <2> HIDE DEF rest
  <2> DEFINE r == [b EXCEPT !.list = rest, !.top = top, !.late = late]
  <2>2. r.LastIndSeq = L
    BY DEF Session
  <2>3. Refresh(b) = [r EXCEPT !.LastIndSeq = t, !.CurMpdu = Nothing]
    BY <2>1, <2>2 DEF Refresh
  <2>4. m = [r EXCEPT !.LastIndSeq = t, !.age = a]
    BY <2>1 DEF Moved
  <2> HIDE DEF t, m
  <2>5. [[r EXCEPT !.LastIndSeq = t, !.CurMpdu = Nothing] EXCEPT !.age = a]
          = [[r EXCEPT !.LastIndSeq = t, !.age = a] EXCEPT !.CurMpdu = Nothing]
    BY DEF Session
  <2> QED
    BY <2>3, <2>4, <2>5 DEF Forgotten
<1> QED
  BY <1>2, <1>4, <1>5, <1>6

LEMMA FlushTimeoutIs ==
  ASSUME NEW b, Good(b)
  PROVE  \E m : \E q \in Nat :
           /\ Advance(b, m, q) /\ Within(b, q) /\ Quiet(m)
           /\ FlushTimeout(b) = m \/ FlushTimeout(b) = Forgotten(m)
           /\ q <= BAWinSize
<1>0. b \in Session /\ Behind(b.list, b.LastIndSeq) /\ Quiet(b)
  BY DEF Good, Sound
<1>1. CASE b.list # <<>> /\ b.age = 2
  <2>1. FlushTimeout(b) = [Refresh(b) EXCEPT !.age = 0]
    BY <1>1 DEF FlushTimeout
  <2>a. PICK m : \E q \in 0 .. BAWinSize :
           /\ Advance(b, m, q) /\ Within(b, q)
           /\ m.list = <<>>
           /\ [Refresh(b) EXCEPT !.age = 0] = Forgotten(m)
    <3>1. 0 \in 0 .. 2
      OBVIOUS
    <3> QED
      BY <1>0, <3>1, RefreshIs
  <2>2. PICK q \in 0 .. BAWinSize :
           /\ Advance(b, m, q) /\ Within(b, q)
           /\ m.list = <<>>
           /\ [Refresh(b) EXCEPT !.age = 0] = Forgotten(m)
    BY <2>a
  <2>3. Quiet(m)
    BY <2>2 DEF Quiet
  <2>4. q \in Nat /\ q <= BAWinSize
    BY Space
  <2> QED
    BY <2>1, <2>2, <2>3, <2>4
<1>2. CASE b.list # <<>> /\ b.age = 1
  <2> DEFINE L == b.LastIndSeq
             s == Wrap(L + 1)
  <2>1. FlushTimeout(b) = Shift(b, s)
    BY <1>2 DEF FlushTimeout
  <2>2. s \in SeqNums /\ Dist(s, L) = 1 /\ 1 <= Half /\ L \in SeqNums
    BY <1>0, SessionIs, NextIs, Space
  <2>3. PICK r \in 0 .. BAWinSize :
           /\ Advance(b, Shift(b, s), Dist(s, L) + r)
           /\ Quiet(Shift(b, s))
           /\ \/ r = 0
              \/ \E i \in 1 .. Len(b.list) :
                   Dist(b.list[i].Sequence, L) = Dist(s, L) + r
    <3> HIDE DEF s
    <3> QED
      BY <1>0, <2>2, ShiftIs
  <2>4. Within(b, 1 + r) /\ 1 + r <= BAWinSize
    <3> DEFINE D(i) == Dist(b.list[i].Sequence, L)
    <3>0. /\ Len(b.list) \in Nat /\ \A i \in 1 .. Len(b.list) : D(i) \in 1 .. BAWinSize
      BY <1>0, SessionIs DEF Behind
    <3>1. 1 \in 1 .. Len(b.list)
      <4>1. b.list \in Seq(Block)
        BY <1>0, SessionIs
      <4> QED
        BY <1>2, <4>1
    <3> HIDE DEF D
    <3>2. CASE r = 0
      <4>1. 1 + r <= D(1) /\ 1 + r <= BAWinSize
        BY <3>0, <3>1, <3>2, Space
      <4> QED
        BY <3>1, <4>1 DEF Within, D
    <3>3. CASE r # 0
      <4>1. PICK i \in 1 .. Len(b.list) : D(i) = 1 + r
        BY <2>2, <2>3, <3>3 DEF D
      <4>2. 1 + r <= D(i) /\ 1 + r <= BAWinSize
        BY <3>0, <4>1, Space
      <4> QED
        BY <4>2 DEF Within, D
    <3> QED
      BY <3>2, <3>3
  <2>5. Advance(b, Shift(b, s), 1 + r) /\ 1 + r \in Nat
    BY <2>2, <2>3, Space
  <2> QED
    BY <2>1, <2>3, <2>4, <2>5
<1>3. CASE ~(b.list # <<>> /\ b.age = 2) /\ ~(b.list # <<>> /\ b.age = 1)
  <2>1. FlushTimeout(b) = b
    BY <1>3 DEF FlushTimeout
  <2>2. Advance(b, b, 0) /\ Within(b, 0)
    BY <1>0, AdvanceRefl DEF Within
  <2> QED
    BY <1>0, <2>1, <2>2, Space
<1> QED
  BY <1>1, <1>2, <1>3

LEMMA DistLess ==
  ASSUME NEW a \in SeqNums, NEW b \in SeqNums, NEW c \in SeqNums,
         Dist(b, c) <= Dist(a, c)
  PROVE  Dist(a, b) = Dist(a, c) - Dist(b, c)
<1>1. Dist(a, b) \in Nat /\ Dist(b, c) \in Nat /\ Dist(a, c) \in Nat
      /\ Dist(a, b) < SeqSpace /\ SeqSpace \in Nat
  BY DistNat, Space
<1>2. Dist(a, c) = IF Dist(a, b) + Dist(b, c) < SeqSpace
                      THEN Dist(a, b) + Dist(b, c)
                      ELSE Dist(a, b) + Dist(b, c) - SeqSpace
  BY DistSum
<1> QED
  BY <1>1, <1>2

LEMMA DistAdd ==
  ASSUME NEW a \in SeqNums, NEW b \in SeqNums, NEW c \in SeqNums,
         Dist(a, b) + Dist(b, c) < SeqSpace
  PROVE  Dist(a, c) = Dist(a, b) + Dist(b, c)
BY DistSum

LEMMA SoundIs ==
  ASSUME NEW b, Sound(b)
  PROVE  /\ b \in Session /\ Behind(b.list, b.LastIndSeq)
         /\ b.LastIndSeq \in SeqNums /\ b.PreviousSN \in SeqNums
         /\ b.list \in Seq(Block) /\ Len(b.list) \in Nat
         /\ DOMAIN b.list = 1 .. Len(b.list)
BY SessionIs DEF Good, Sound

\* The block of CurMpdu is in the list or the window has passed it.
LEMMA AdvanceCur ==
  ASSUME NEW b \in Session, Behind(b.list, b.LastIndSeq),
         NEW s \in SeqNums, Buffered(b, s) \/ LeftBehind(b, s),
         NEW m, NEW q \in Nat, Advance(b, m, q), Within(b, q), q <= BAWinSize
  PROVE  Buffered(m, s) \/ LeftBehind(m, s)
<1> DEFINE L == b.LastIndSeq
           D(i) == Dist(b.list[i].Sequence, L)
<1>0. /\ b.list \in Seq(Block) /\ L \in SeqNums /\ Len(b.list) \in Nat
      /\ DOMAIN b.list = 1 .. Len(b.list)
      /\ \A i \in 1 .. Len(b.list) : b.list[i].Sequence \in SeqNums
  BY SessionIs
<1>1. PICK k \in 0 .. Len(b.list) :
        m.list = SubSeq(b.list, k + 1, Len(b.list)) /\ Passed(b, k, q)
  BY DEF Advance
<1>2. m.LastIndSeq \in SeqNums /\ Dist(m.LastIndSeq, L) = q
  <2>1. m \in Session
    BY DEF Advance
  <2> QED
    BY <2>1, SessionIs DEF Advance
<1>3. \A i \in 1 .. Len(b.list) : D(i) \in 1 .. BAWinSize
  BY <1>0 DEF Behind
<1>6. CASE Buffered(b, s)
  <2>1. PICK j \in 1 .. Len(b.list) : b.list[j].Sequence = s
    BY <1>0, <1>6 DEF Buffered
  <2>2. Dist(s, L) = D(j)
    BY <2>1
  <2>3. CASE j > k
    <3>1. j - k \in 1 .. Len(b.list) - k /\ (j - k) + k = j
      BY <1>0, <2>3
    <3> DEFINE rest == SubSeq(b.list, k + 1, Len(b.list))
    <3>2. DOMAIN rest = 1 .. Len(b.list) - k /\ rest[j - k] = b.list[(j - k) + k]
      BY <1>0, <3>1, RestFacts
    <3>3. j - k \in DOMAIN m.list /\ m.list[j - k].Sequence = s
      BY <1>1, <2>1, <3>1, <3>2
    <3> QED
      BY <3>3 DEF Buffered
  <2>4. CASE ~(j > k)
    <3>1. j \in 1 .. k /\ D(j) <= q
      BY <1>0, <1>1, <2>4 DEF Passed
    <3>2. \A i \in k + 1 .. Len(b.list) : D(i) > Dist(s, L)
      <4> TAKE i \in k + 1 .. Len(b.list)
      <4>1. D(i) > q /\ i \in 1 .. Len(b.list)
        BY <1>0, <1>1 DEF Passed
      <4>2. D(i) \in Int /\ D(j) \in Int
        BY <1>3, <2>1, <4>1, Space
      <4> HIDE DEF D
      <4> QED
        BY <2>2, <3>1, <4>1, <4>2
    <3>3. Behind(m.list, s)
      BY <1>0, <1>1, <3>2, BehindMove
    <3>4. Dist(m.LastIndSeq, s) = q - Dist(s, L)
      <4>1. Dist(s, L) <= Dist(m.LastIndSeq, L)
        BY <1>2, <2>2, <3>1
      <4> QED
        BY <1>0, <1>2, <4>1, DistLess
    <3>5. Dist(m.LastIndSeq, s) <= BAWinSize
      BY <1>0, <3>4, DistNat, Space
    <3> QED
      BY <3>3, <3>5 DEF LeftBehind
  <2> QED
    BY <2>3, <2>4
<1>7. CASE LeftBehind(b, s)
  <2>1. Behind(m.list, s)
    BY <1>0, <1>1, <1>7, BehindRest DEF LeftBehind
  <2>2. q + Dist(L, s) <= BAWinSize
    <3>0. Dist(L, s) \in Nat /\ Dist(L, s) <= BAWinSize
      BY <1>0, <1>7, DistNat DEF LeftBehind
    <3>1. CASE q = 0
      BY <3>0, <3>1
    <3>2. CASE q # 0
      <4>1. PICK i \in 1 .. Len(b.list) : q <= D(i)
        BY <3>2 DEF Within
      <4> DEFINE y == b.list[i].Sequence
      <4>2. y \in SeqNums /\ Dist(y, s) \in 1 .. BAWinSize
            /\ Dist(y, L) \in 1 .. BAWinSize /\ q <= Dist(y, L)
        BY <1>0, <1>3, <1>7, <4>1 DEF LeftBehind, Behind
      <4> HIDE DEF y
      <4>3. Dist(y, L) + Dist(L, s) < SeqSpace
        BY <3>0, <4>2, Space
      <4>4. Dist(y, s) = Dist(y, L) + Dist(L, s)
        BY <1>0, <4>2, <4>3, DistAdd
      <4> QED
        BY <3>0, <4>2, <4>4, Space
    <3> QED
      BY <3>1, <3>2
  <2>3. Dist(m.LastIndSeq, s) = q + Dist(L, s)
    <3>1. Dist(m.LastIndSeq, L) + Dist(L, s) < SeqSpace
      <4>1. /\ SeqSpace \in Nat /\ BAWinSize \in Nat /\ BAWinSize < SeqSpace
            /\ Dist(L, s) \in Nat
        BY <1>0, DistNat, Space
      <4> HIDE DEF L
      <4> QED
        BY <1>2, <2>2, <4>1
    <3> QED
      BY <1>0, <1>2, <3>1, DistAdd
  <2>4. Dist(m.LastIndSeq, s) <= BAWinSize
    BY <2>2, <2>3
  <2> QED
    BY <2>1, <2>4 DEF LeftBehind
<1> QED
  BY <1>6, <1>7

LEMMA AdvanceGood ==
  ASSUME NEW b, Sound(b), NEW m, NEW q \in Nat,
         Advance(b, m, q), Within(b, q), Quiet(m), q <= BAWinSize
  PROVE  Good(m) /\ Good(Forgotten(m))
<1>1. /\ b \in Session /\ Behind(b.list, b.LastIndSeq)
      /\ b.list \in Seq(Block) /\ b.PreviousSN \in SeqNums
  BY SoundIs
<1>2. /\ m \in Session /\ SameRest(b, m) /\ Behind(m.list, m.LastIndSeq)
  BY DEF Advance
<1>3. PICK k \in 0 .. Len(b.list) :
        m.list = SubSeq(b.list, k + 1, Len(b.list))
  BY DEF Advance
<1>4. CurOK(m)
  <2> SUFFICES ASSUME m.CurMpdu # Nothing
               PROVE  /\ m.CurMpdu = m.PreviousSN
                      /\ m.PreviousAmsduState \in Partial
                      /\ Buffered(m, m.CurMpdu) \/ LeftBehind(m, m.CurMpdu)
    BY DEF CurOK
  <2>1. /\ b.CurMpdu # Nothing /\ m.CurMpdu = b.CurMpdu
        /\ m.PreviousSN = b.PreviousSN
        /\ m.PreviousAmsduState = b.PreviousAmsduState
    BY <1>2 DEF SameRest
  <2>2. /\ b.CurMpdu = b.PreviousSN /\ b.PreviousAmsduState \in Partial
        /\ Buffered(b, b.CurMpdu) \/ LeftBehind(b, b.CurMpdu)
    BY <2>1 DEF Sound, CurOK
  <2> QED
    BY <1>1, <2>1, <2>2, AdvanceCur
<1>5. PullOK(m)
  <2>1. Started(m) => Started(b) /\ m.PreviousSN = b.PreviousSN
    BY <1>2 DEF SameRest, Started
  <2>2. Started(b) => Behind(b.list, b.PreviousSN)
    BY DEF Sound, PullOK
  <2> QED
    BY <1>1, <1>3, <2>1, <2>2, BehindRest DEF PullOK
<1>6. NewOK(m)
  <2> SUFFICES ASSUME m.REC_BA_Status = "Initialization"
               PROVE  m.list = <<>> /\ m.CurMpdu = Nothing
    BY DEF NewOK
  <2>1. b.list = <<>> /\ b.CurMpdu = Nothing /\ m.CurMpdu = b.CurMpdu
    BY <1>2 DEF SameRest, Sound, NewOK
  <2>2. k = 0 /\ m.list = b.list
    BY <1>3, <2>1, RestFacts
  <2> QED
    BY <2>1, <2>2
<1>7. ~m.spoilt
  BY <1>2 DEF SameRest, Sound
<1>8. Good(m)
  BY <1>2, <1>4, <1>5, <1>6, <1>7 DEF Good, Sound
<1>9. Good(Forgotten(m))
  BY <1>2, <1>8, ForgottenIs
     DEF Good, Sound, Quiet, CurOK, PullOK, NewOK, Started
<1> QED
  BY <1>8, <1>9

LEMMA PulledIs ==
  ASSUME NEW b \in Session
  PROVE  LET c == [Forgotten(b) EXCEPT
                     !.LastIndSeq = b.PreviousSN, !.age = 0,
                     !.pulled = @ \/ SEQ_SMALLER(b.PreviousSN, b.LastIndSeq)]
         IN /\ c \in Session /\ c.list = b.list /\ c.CurMpdu = Nothing
            /\ c.LastIndSeq = b.PreviousSN /\ c.spoilt = b.spoilt
            /\ c.top = b.top /\ c.late = b.late /\ c.dry = b.dry
            /\ c.pulled = (b.pulled \/ SEQ_SMALLER(b.PreviousSN, b.LastIndSeq))
            /\ c.REC_BA_Status = b.REC_BA_Status
            /\ c.PreviousSN = b.PreviousSN
            /\ c.PreviousAmsduState = b.PreviousAmsduState
            /\ c.PreviousReorderCase = b.PreviousReorderCase
<1> DEFINE x == SEQ_SMALLER(b.PreviousSN, b.LastIndSeq)
<1>1. x \in BOOLEAN
  BY DEF SEQ_SMALLER
<1> HIDE DEF x
<1>2. b.PreviousSN \in SeqNums /\ Forgotten(b) \in Session
  BY SessionIs, ForgottenIs
<1> DEFINE f == Forgotten(b)
           c == [f EXCEPT !.LastIndSeq = b.PreviousSN, !.age = 0, !.pulled = @ \/ x]
<1>3. /\ c \in Session /\ c.list = f.list /\ c.CurMpdu = f.CurMpdu
      /\ c.LastIndSeq = b.PreviousSN /\ c.spoilt = f.spoilt
      /\ c.top = f.top /\ c.late = f.late /\ c.dry = f.dry
      /\ c.pulled = (f.pulled \/ x)
      /\ c.REC_BA_Status = f.REC_BA_Status
      /\ c.PreviousSN = f.PreviousSN
      /\ c.PreviousAmsduState = f.PreviousAmsduState
      /\ c.PreviousReorderCase = f.PreviousReorderCase
  <2> DEFINE v == f.pulled \/ x
             s == b.PreviousSN
             z == 0
             d == [f EXCEPT !.LastIndSeq = s, !.age = z, !.pulled = v]
  <2>1. f \in Session /\ s \in SeqNums
    BY <1>2
  <2>2. v \in BOOLEAN /\ z \in 0 .. 2
    OBVIOUS
  <2>3. c = d
    OBVIOUS
  <2> HIDE DEF f, v, s, c, z
  <2>4. /\ d \in Session /\ d.list = f.list /\ d.CurMpdu = f.CurMpdu
        /\ d.LastIndSeq = s /\ d.spoilt = f.spoilt
        /\ d.top = f.top /\ d.late = f.late /\ d.dry = f.dry
        /\ d.pulled = v
        /\ d.REC_BA_Status = f.REC_BA_Status
        /\ d.PreviousSN = f.PreviousSN
        /\ d.PreviousAmsduState = f.PreviousAmsduState
        /\ d.PreviousReorderCase = f.PreviousReorderCase
    BY <2>1, <2>2 DEF Session
  <2> QED
    BY <2>3, <2>4 DEF s, v
<1> QED
  BY <1>3, ForgottenIs DEF x

LEMMA InOrderWithin ==
  ASSUME NEW b \in Session, NEW k \in 0 .. Len(b.list),
         \A i \in 1 .. k : Dist(b.list[i].Sequence, b.LastIndSeq) = i
  PROVE  Within(b, k)
<1>1. Len(b.list) \in Nat
  BY SessionIs
<1>2. CASE k # 0
  <2>1. k \in 1 .. k /\ k \in 1 .. Len(b.list) /\ k <= k
    BY <1>1, <1>2
  <2> QED
    BY <2>1 DEF Within
<1> QED
  BY <1>2 DEF Within

LEMMA InOrderGood ==
  ASSUME NEW b, Sound(b)
  PROVE  Good(InOrder(b)) /\ SameRest(b, InOrder(b))
<1>1. b \in Session /\ Behind(b.list, b.LastIndSeq)
  BY SoundIs
<1>2. PICK k \in 0 .. Len(b.list) :
           /\ Advance(b, InOrder(b), k) /\ Quiet(InOrder(b))
           /\ \A i \in 1 .. k : Dist(b.list[i].Sequence, b.LastIndSeq) = i
           /\ k <= BAWinSize
  BY <1>1, InOrderIs
<1>3. k \in Nat /\ Within(b, k)
  BY <1>1, <1>2, InOrderWithin, SessionIs
<1> QED
  BY <1>2, <1>3, AdvanceGood DEF Advance

LEMMA SanityGood ==
  ASSUME NEW b, Good(b), NEW seq, NEW state
  PROVE  LET c == amsdu_sanity(b, seq, state) IN
         /\ Good(c) /\ (~AmsduMiss(b, seq, state) => c = b)
         /\ AmsduMiss(b, seq, state) => c.CurMpdu = Nothing
<1> DEFINE p == [Forgotten(b) EXCEPT
                   !.LastIndSeq = b.PreviousSN, !.age = 0,
                   !.pulled = @ \/ SEQ_SMALLER(b.PreviousSN, b.LastIndSeq)]
<1>0. b \in Session /\ Behind(b.list, b.LastIndSeq) /\ Sound(b)
  BY SoundIs DEF Good
<1>1. CASE ~AmsduMiss(b, seq, state)
  BY <1>1 DEF amsdu_sanity
<1>2. CASE AmsduMiss(b, seq, state) /\ b.PreviousReorderCase = "STEP_ONE"
  <2>1. amsdu_sanity(b, seq, state) = InOrder(p)
    BY <1>2 DEF amsdu_sanity
  <2>2. /\ p \in Session /\ p.list = b.list /\ p.CurMpdu = Nothing
        /\ p.LastIndSeq = b.PreviousSN /\ p.spoilt = b.spoilt
        /\ p.REC_BA_Status = b.REC_BA_Status /\ p.PreviousSN = b.PreviousSN
    BY <1>0, PulledIs
  <2> HIDE DEF p
  <2>3. Started(b)
    BY <1>2 DEF AmsduMiss, Started, Partial
  <2>4. Behind(b.list, b.PreviousSN)
    BY <2>3 DEF Good, Sound, PullOK
  <2>5. Sound(p)
    BY <1>0, <2>2, <2>4 DEF Sound, CurOK, PullOK, NewOK
  <2>6. Good(InOrder(p)) /\ InOrder(p).CurMpdu = Nothing
    BY <2>2, <2>5, InOrderGood DEF SameRest
  <2> QED
    BY <1>2, <2>1, <2>6
<1>3. CASE AmsduMiss(b, seq, state) /\ b.PreviousReorderCase # "STEP_ONE"
  <2>1. amsdu_sanity(b, seq, state) = Forgotten(b)
    BY <1>3 DEF amsdu_sanity
  <2>2. Good(Forgotten(b)) /\ Forgotten(b).CurMpdu = Nothing
    BY <1>0, ForgottenIs
       DEF Good, Sound, Quiet, CurOK, PullOK, NewOK, Started
  <2> QED
    BY <1>3, <2>1, <2>2
<1> QED
  BY <1>1, <1>2, <1>3

LEMMA FlushTimeoutGood ==
  ASSUME NEW b, Good(b)
  PROVE  /\ Good(FlushTimeout(b))
         /\ FlushTimeout(b).CurMpdu \in {b.CurMpdu, Nothing}
         /\ FlushTimeout(b).PreviousSN = b.PreviousSN
         /\ FlushTimeout(b).PreviousAmsduState = b.PreviousAmsduState
<1>1. PICK m : \E q \in Nat :
           /\ Advance(b, m, q) /\ Within(b, q) /\ Quiet(m)
           /\ FlushTimeout(b) = m \/ FlushTimeout(b) = Forgotten(m)
           /\ q <= BAWinSize
  BY FlushTimeoutIs
<1>2. m \in Session /\ SameRest(b, m)
  BY <1>1 DEF Advance
<1>3. Good(m) /\ Good(Forgotten(m))
  BY <1>1, AdvanceGood DEF Good
<1> QED
  BY <1>1, <1>2, <1>3, ForgottenIs DEF SameRest

-----------------------------------------------------------------------------
(***************************************************************************)
(* The cases of ba_reorder, from what the check finds (Ready) to what it   *)
(* leaves (Placed).                                                        *)
(***************************************************************************)
\* What ba_reorder brings to the check of the sequence number s.
Ready(b, s) ==
  /\ b \in Session /\ Behind(b.list, b.LastIndSeq) /\ Quiet(b) /\ ~b.spoilt
  /\ b.REC_BA_Status = "Established"
  /\ b.CurMpdu # Nothing =>
       b.CurMpdu = s /\ (Buffered(b, s) \/ LeftBehind(b, s))

\* What the check leaves of it.
Placed(b, p) ==
  /\ b \in Session /\ Behind(b.list, b.LastIndSeq) /\ Quiet(b) /\ ~b.spoilt
  /\ b.REC_BA_Status = "Established"
  /\ ~Complete(p) /\ b.CurMpdu # Nothing =>
       b.CurMpdu = SN(p) /\ (Buffered(b, SN(p)) \/ LeftBehind(b, SN(p)))
  /\ ~Complete(p) /\ b.PreviousReorderCase = "STEP_ONE" =>
       Behind(b.list, SN(p))

LEMMA MsduHas ==
  ASSUME NEW p \in MSDUs
  PROVE  /\ SN(p) \in SeqNums /\ AmsduState(p) \in States
         /\ ~Complete(p) <=> AmsduState(p) \in Partial
         /\ p.n \in Nat /\ p.k \in Nat /\ p.n >= 1 /\ p.k >= 1
         /\ p.n \in MPDUs /\ p.k \in 1 .. Msdus[p.n]
         /\ p = [n |-> p.n, k |-> p.k]
         /\ SN(p) = Num(p.n)
<1>1. PICK n \in MPDUs : \E k \in 1 .. Msdus[n] : p = [n |-> n, k |-> k]
  BY MsduIs
<1>2. PICK k \in 1 .. Msdus[n] : p = [n |-> n, k |-> k]
  BY <1>1
<1>3. n \in Nat /\ n >= 1 /\ Msdus[n] \in Nat
  BY MsduAssumption DEF MPDUs
<1>4. k \in Nat /\ k >= 1
  BY <1>3
<1>5. p.n = n /\ p.k = k
  BY <1>2
<1>6. SN(p) = Num(p.n)
  BY DEF SN, Num
<1>7. SN(p) \in SeqNums
  BY <1>3, <1>5, <1>6, NumIs
<1>8. AmsduState(p) \in States
  BY DEF AmsduState, States
<1>9. ~Complete(p) <=> AmsduState(p) \in Partial
  BY <1>8 DEF Complete, States, Partial
<1> QED
  BY <1>2, <1>3, <1>4, <1>5, <1>6, <1>7, <1>8, <1>9

LEMMA InitializedReady ==
  ASSUME NEW b, Good(b), NEW p \in MSDUs,
         b.CurMpdu # Nothing => b.CurMpdu = SN(p)
  PROVE  LET c == Initialized(b, p) IN
         /\ Ready(c, SN(p)) /\ c.pulled = b.pulled /\ c.dry = b.dry
         /\ b.REC_BA_Status # "Initialization" => c = b
         /\ b.REC_BA_Status = "Initialization" =>
              /\ c.list = <<>> /\ c.LastIndSeq = Wrap(SN(p) - 1)
              /\ c.top = b.top /\ c.late = b.late
<1>0. /\ b \in Session /\ Behind(b.list, b.LastIndSeq) /\ Sound(b)
      /\ SN(p) \in SeqNums /\ AmsduState(p) \in States
      /\ b.REC_BA_Status \in {"Initialization", "Established"}
  BY SoundIs, MsduHas DEF Good, Session
<1>1. CASE b.REC_BA_Status = "Established"
  <2>1. Initialized(b, p) = b
    BY <1>1 DEF Initialized
  <2> QED
    <3>1. Ready(b, SN(p))
      BY <1>0, <1>1 DEF Ready, Good, Sound, CurOK
    <3> QED
      BY <1>1, <2>1, <3>1
<1>2. CASE b.REC_BA_Status = "Initialization"
  <2>1. PICK m : \E q \in 0 .. BAWinSize :
           /\ Advance(b, m, q) /\ m.list = <<>>
           /\ [Refresh(b) EXCEPT !.age = b.age] = Forgotten(m)
    BY <1>0, RefreshIs, SessionIs
  <2>2. /\ m \in Session /\ ~m.spoilt /\ m.pulled = b.pulled
        /\ m.dry = b.dry /\ m.top = b.top /\ m.late = b.late
    BY <1>2, <2>1 DEF Advance, SameRest, Good, Sound, NewOK
  <2> DEFINE f == Forgotten(m)
             s == Wrap(SN(p) - 1)
             c == [f EXCEPT
                     !.LastIndSeq = s, !.age = 0,
                     !.PreviousAmsduState = AmsduState(p), !.PreviousSN = SN(p),
                     !.REC_BA_Status = "Established"]
  <2>3. /\ f \in Session /\ f.list = <<>> /\ f.CurMpdu = Nothing /\ ~f.spoilt
        /\ f.pulled = b.pulled /\ f.dry = b.dry
        /\ f.top = b.top /\ f.late = b.late
    BY <2>1, <2>2, ForgottenIs
  <2>4. Initialized(b, p) = c
    <3> DEFINE r == Refresh(b)
    <3> HIDE DEF r, f
    <3>1. [r EXCEPT !.age = b.age] = f
      BY <2>1 DEF r, f
    <3>2. [r EXCEPT
             !.LastIndSeq = s, !.age = 0,
             !.PreviousAmsduState = AmsduState(p), !.PreviousSN = SN(p),
             !.REC_BA_Status = "Established"]
          = [[r EXCEPT !.age = b.age] EXCEPT
             !.LastIndSeq = s, !.age = 0,
             !.PreviousAmsduState = AmsduState(p), !.PreviousSN = SN(p),
             !.REC_BA_Status = "Established"]
      OBVIOUS
    <3>3. Initialized(b, p) = [r EXCEPT
             !.LastIndSeq = s, !.age = 0,
             !.PreviousAmsduState = AmsduState(p), !.PreviousSN = SN(p),
             !.REC_BA_Status = "Established"]
      BY <1>2 DEF Initialized, r
    <3> QED
      BY <3>1, <3>2, <3>3
  <2>5. s \in SeqNums
    BY <1>0, WrapIs, Space DEF SeqNums
  <2> DEFINE a == AmsduState(p)
             n == SN(p)
             z == 0
  <2>a. a \in States /\ n \in SeqNums /\ z \in 0 .. 2
    BY <1>0
  <2> HIDE DEF f, s, a, n, z
  <2>6. /\ c \in Session /\ c.list = <<>> /\ c.CurMpdu = Nothing /\ ~c.spoilt
        /\ c.REC_BA_Status = "Established" /\ c.LastIndSeq = s
        /\ c.pulled = b.pulled /\ c.dry = b.dry
        /\ c.top = b.top /\ c.late = b.late
    <3>1. LET d == [f EXCEPT !.LastIndSeq = s, !.age = z,
                       !.PreviousAmsduState = a, !.PreviousSN = n,
                       !.REC_BA_Status = "Established"]
          IN /\ d \in Session /\ d.list = f.list /\ d.CurMpdu = f.CurMpdu
             /\ d.spoilt = f.spoilt /\ d.REC_BA_Status = "Established"
             /\ d.LastIndSeq = s /\ d.pulled = f.pulled /\ d.dry = f.dry
             /\ d.top = f.top /\ d.late = f.late
      BY <2>3, <2>5, <2>a DEF Session
    <3> QED
      BY <2>3, <3>1 DEF a, n, z
  <2> HIDE DEF c
  <2>7. Ready(c, SN(p))
    BY <2>6 DEF Ready, Behind, Quiet
  <2> QED
    BY <1>2, <2>4, <2>6, <2>7 DEF s
<1> QED
  BY <1>0, <1>1, <1>2

LEMMA AnnounceOne ==
  ASSUME NEW b \in Session, NEW p \in MSDUs
  PROVE  LET c == Announce(b, <<p>>) IN
         /\ c \in Session /\ SameRest(b, c)
         /\ c.list = b.list /\ c.LastIndSeq = b.LastIndSeq /\ c.age = b.age
         /\ c.top = p /\ (c.late <=> b.late \/ ~Before(b.top, p))
<1> DEFINE up == <<b.top>> \o <<p>>
           late == b.late \/ \E i \in 1 .. Len(<<p>>) : ~Before(up[i], up[i + 1])
           d == [b EXCEPT !.top = p, !.late = late]
<1>1. Len(up) = 2 /\ up[1] = b.top /\ up[2] = p /\ Len(<<p>>) = 1
  <2> DEFINE t == b.top
  <2> HIDE DEF t
  <2> QED
    BY DEF t
<1> HIDE DEF up
<1>2. Last(up) = p
  BY <1>1 DEF Last
<1>3. Announce(b, <<p>>) = d
  BY <1>2 DEF Announce, up
<1>4. late <=> b.late \/ ~Before(b.top, p)
  <2>1. (\E i \in 1 .. Len(<<p>>) : ~Before(up[i], up[i + 1])) <=> ~Before(up[1], up[1 + 1])
    <3>1. \A i : i \in 1 .. Len(<<p>>) <=> i = 1
      BY <1>1
    <3> QED
      BY <3>1
  <2>2. 1 + 1 = 2
    OBVIOUS
  <2> QED
    BY <1>1, <2>1, <2>2
<1>5. late \in BOOLEAN /\ p \in [n : Nat, k : Nat]
  BY MsduType, SessionIs
<1> HIDE DEF late
<1>6. /\ d \in Session /\ SameRest(b, d)
      /\ d.list = b.list /\ d.LastIndSeq = b.LastIndSeq /\ d.age = b.age
      /\ d.top = p /\ d.late = late
  BY <1>5 DEF Session, SameRest
<1> HIDE DEF d
<1> QED
  BY <1>3, <1>4, <1>6

LEMMA GoToIs ==
  ASSUME NEW b \in Session, NEW s \in SeqNums
  PROVE  LET c == [b EXCEPT !.LastIndSeq = s, !.age = 0] IN
         /\ c \in Session /\ SameRest(b, c) /\ c.list = b.list
         /\ c.LastIndSeq = s /\ c.age = 0 /\ c.top = b.top /\ c.late = b.late
<1> DEFINE z == 0
<1>1. z \in 0 .. 2
  OBVIOUS
<1> HIDE DEF z
<1>2. LET c == [b EXCEPT !.LastIndSeq = s, !.age = z] IN
         /\ c \in Session /\ SameRest(b, c) /\ c.list = b.list
         /\ c.LastIndSeq = s /\ c.age = z /\ c.top = b.top /\ c.late = b.late
  BY <1>1 DEF Session, SameRest
<1> QED
  BY <1>2 DEF z

LEMMA CaseIs ==
  ASSUME NEW b \in Session, NEW x \in Cases
  PROVE  /\ Case(b, x) \in Session /\ Case(b, x).list = b.list
         /\ Case(b, x).LastIndSeq = b.LastIndSeq
         /\ Case(b, x).CurMpdu = b.CurMpdu
         /\ Case(b, x).REC_BA_Status = b.REC_BA_Status
         /\ Case(b, x).PreviousReorderCase = x
         /\ Case(b, x).spoilt = b.spoilt /\ Case(b, x).top = b.top
         /\ Case(b, x).late = b.late /\ Case(b, x).pulled = b.pulled
         /\ Case(b, x).dry = b.dry /\ Case(b, x).age = b.age
BY DEF Case, Session

\* Behind the number after LastIndSeq when its block is not there.
LEMMA BehindNext ==
  ASSUME NEW b \in Session, Behind(b.list, b.LastIndSeq), Quiet(b),
         NEW s \in SeqNums, Dist(s, b.LastIndSeq) = 1
  PROVE  /\ Behind(b.list, s)
         /\ \A i \in 1 .. Len(b.list) :
              /\ Dist(b.list[i].Sequence, b.LastIndSeq) > 1
              /\ Dist(b.list[i].Sequence, s)
                   = Dist(b.list[i].Sequence, b.LastIndSeq) - 1
<1> DEFINE L == b.LastIndSeq
           rest == SubSeq(b.list, 0 + 1, Len(b.list))
<1>0. /\ b.list \in Seq(Block) /\ L \in SeqNums /\ Len(b.list) \in Nat
      /\ DOMAIN b.list = 1 .. Len(b.list)
      /\ \A i \in 1 .. Len(b.list) : b.list[i].Sequence \in SeqNums
      /\ 0 \in 0 .. Len(b.list)
  BY SessionIs
<1>1. \A i \in 1 .. Len(b.list) : Dist(b.list[i].Sequence, L) > 1
  <2> TAKE i \in 1 .. Len(b.list)
  <2>1. Dist(b.list[i].Sequence, L) \in 1 .. BAWinSize
    BY <1>0 DEF Behind
  <2>2. Dist(b.list[i].Sequence, L) # 1
    BY <1>0, NextIs DEF Quiet
  <2> QED
    BY <2>1, <2>2, Space
<1>2. \A i \in 0 + 1 .. Len(b.list) : Dist(b.list[i].Sequence, L) > Dist(s, L)
  BY <1>1
<1>3. /\ Behind(rest, s)
      /\ \A i \in 1 .. Len(b.list) - 0 :
           Dist(rest[i].Sequence, s) = Dist(b.list[i + 0].Sequence, L) - Dist(s, L)
  BY <1>0, <1>2, BehindMove
<1>4. rest = b.list
  BY <1>0, RestFacts
<1>5. ASSUME NEW i \in 1 .. Len(b.list)
      PROVE  Dist(b.list[i].Sequence, s) = Dist(b.list[i].Sequence, L) - 1
  <2>1. i \in 1 .. Len(b.list) - 0 /\ i + 0 = i
    BY <1>0
  <2> QED
    BY <1>3, <1>4, <2>1
<1> QED
  BY <1>1, <1>3, <1>4, <1>5

LEMMA StepOnePlaced ==
  ASSUME NEW b, NEW p \in MSDUs, Ready(b, SN(p)),
         SN(p) = Wrap(b.LastIndSeq + 1)
  PROVE  Placed(Case(InOrderStep(b, p), "STEP_ONE"), p)
<1> DEFINE s == SN(p)
           a == Announce(b, <<p>>)
           c == [a EXCEPT !.LastIndSeq = s, !.age = 0]
<1>0. /\ b \in Session /\ Behind(b.list, b.LastIndSeq) /\ Quiet(b) /\ ~b.spoilt
      /\ b.REC_BA_Status = "Established" /\ s \in SeqNums
      /\ "STEP_ONE" \in Cases
  BY MsduHas DEF Ready, Cases
<1>1. Dist(s, b.LastIndSeq) = 1
  BY <1>0, NextIs, SessionIs
<1>2. Behind(b.list, s)
  BY <1>0, <1>1, BehindNext
<1>3. /\ a \in Session /\ SameRest(b, a)
      /\ a.list = b.list /\ a.LastIndSeq = b.LastIndSeq
  BY <1>0, AnnounceOne
<1>4. CASE Complete(p)
  <2>1. /\ c \in Session /\ SameRest(a, c) /\ c.list = a.list
        /\ c.LastIndSeq = s
    <3> HIDE DEF a
    <3> QED
      BY <1>0, <1>3, GoToIs
  <2>2. InOrderStep(b, p) = InOrder(c)
    BY <1>4 DEF InOrderStep
  <2> HIDE DEF c, a
  <2>3. c \in Session /\ Behind(c.list, c.LastIndSeq)
    BY <1>2, <1>3, <2>1
  <2> DEFINE d == InOrder(c)
  <2>4. PICK k \in 0 .. Len(c.list) : Advance(c, d, k) /\ Quiet(d)
    BY <2>3, InOrderIs
  <2> HIDE DEF d
  <2>5. /\ d \in Session /\ Behind(d.list, d.LastIndSeq) /\ Quiet(d)
        /\ ~d.spoilt /\ d.REC_BA_Status = "Established"
    BY <1>0, <1>3, <2>1, <2>4 DEF Advance, SameRest
  <2>6. Placed(Case(d, "STEP_ONE"), p)
    BY <1>0, <1>4, <2>5, CaseIs DEF Placed, Quiet
  <2> QED
    BY <2>2, <2>6 DEF d
<1>5. CASE ~Complete(p)
  <2>1. InOrderStep(b, p) = a
    BY <1>5 DEF InOrderStep
  <2> HIDE DEF a
  <2>2. /\ Quiet(a) /\ ~a.spoilt /\ a.REC_BA_Status = "Established"
        /\ a.CurMpdu = b.CurMpdu
    BY <1>0, <1>3 DEF Quiet, SameRest
  <2>3. a.CurMpdu # Nothing => a.CurMpdu = s /\ (Buffered(a, s) \/ LeftBehind(a, s))
    BY <1>3, <2>2 DEF Ready, Buffered, LeftBehind
  <2> DEFINE e == Case(a, "STEP_ONE")
  <2>4. /\ e \in Session /\ e.list = a.list /\ e.LastIndSeq = a.LastIndSeq
        /\ e.CurMpdu = a.CurMpdu /\ e.REC_BA_Status = a.REC_BA_Status
        /\ e.spoilt = a.spoilt
    BY <1>0, <1>3, CaseIs
  <2> HIDE DEF e
  <2>5. Placed(e, p)
    BY <1>0, <1>2, <1>3, <2>2, <2>3, <2>4
       DEF Placed, Quiet, Buffered, LeftBehind
  <2> QED
    BY <2>1, <2>5 DEF e
<1> QED
  BY <1>4, <1>5

\* The other way round, the numbers of the window lie far apart.
LEMMA DistBack ==
  ASSUME NEW a \in SeqNums, NEW b \in SeqNums,
         Dist(a, b) \in 1 .. Half
  PROVE  ~(Dist(b, a) <= BAWinSize)
<1>1. a # b
  BY DistZero, Space
<1>2. Dist(b, a) = SeqSpace - Dist(a, b) /\ Dist(a, b) \in Nat
  BY <1>1, DistZero, Space
<1> QED
  BY <1>2, Space

LEMMA SurpassesIs ==
  ASSUME NEW b \in Session, NEW s \in SeqNums
  PROVE  Surpasses(b, s) <=>
           BAWinSize < Dist(s, b.LastIndSeq) /\ Dist(s, b.LastIndSeq) < Half
<1> DEFINE L == b.LastIndSeq
           W == BAWinSize + 1
           x == Wrap(L + BAWinSize + 1)
           d == Dist(s, L)
           e == Dist(s, x)
<1>0. L \in SeqNums /\ L \in Int /\ BAWinSize \in Nat /\ W \in SeqNums
  BY SessionIs, Space DEF SeqNums
<1>1. x \in SeqNums /\ Dist(x, L) = W
  <2>1. L + BAWinSize + 1 = L + W
    BY <1>0
  <2> QED
    BY <1>0, <2>1, AheadIs
<1>2. s \notin {L, Wrap(L + 1)} <=> d # 0 /\ d # 1
  BY <1>0, DistZero, NextIs
<1>3. ~SEQ_SMALLER(s, L) <=> ~(d >= Half)
  BY <1>0, SmallerIs
<1>4. ~SEQ_SMALLER(s, x) <=> ~(e >= Half)
  BY <1>1, SmallerIs
<1>5. d = IF e + W < SeqSpace THEN e + W ELSE e + W - SeqSpace
  BY <1>0, <1>1, DistSum
<1>6. Surpasses(b, s) <=> d # 0 /\ d # 1 /\ ~(d >= Half) /\ ~(e >= Half)
  BY <1>2, <1>3, <1>4 DEF Surpasses
<1>7. d \in Nat /\ e \in Nat /\ d < SeqSpace /\ e < SeqSpace
  BY <1>0, <1>1, DistNat
<1> HIDE DEF d, e, x
<1>8. Surpasses(b, s) <=> BAWinSize < d /\ d < Half
  BY <1>5, <1>6, <1>7, Space
<1> QED
  BY <1>8 DEF d

\* Case V: the window moves on until the number lies in it.
LEMMA CheckShift ==
  ASSUME NEW b, NEW s \in SeqNums, Ready(b, s), Surpasses(b, s)
  PROVE  LET c == Shift(b, Wrap(s - BAWinSize)) IN
         /\ Ready(c, s) /\ Dist(s, c.LastIndSeq) \in 1 .. BAWinSize
         /\ c.age = 0
         /\ Advance(b, c, Dist(s, b.LastIndSeq) - Dist(s, c.LastIndSeq))
<1> DEFINE L == b.LastIndSeq
           d == Dist(s, L)
           t == Wrap(s - BAWinSize)
           c == Shift(b, t)
<1>0. /\ b \in Session /\ Behind(b.list, L) /\ L \in SeqNums
      /\ Len(b.list) \in Nat /\ DOMAIN b.list = 1 .. Len(b.list)
      /\ ~b.spoilt /\ b.REC_BA_Status = "Established"
  BY SessionIs DEF Ready
<1>1. d \in Nat /\ BAWinSize < d /\ d < Half
  BY <1>0, SurpassesIs, DistNat
<1>2. t \in SeqNums /\ Dist(t, L) = d - BAWinSize /\ Dist(s, t) = BAWinSize
  <2>1. s \in Int /\ 0 <= s /\ s < SeqSpace /\ BAWinSize \in Nat
        /\ BAWinSize < SeqSpace /\ SeqSpace \in Nat
    BY Space DEF SeqNums
  <2>2. /\ t \in SeqNums
        /\ t = IF s >= BAWinSize THEN s - BAWinSize ELSE s - BAWinSize + SeqSpace
    BY <2>1, WrapIs
  <2> HIDE DEF t
  <2>3. Dist(s, t) = BAWinSize
    <3>1. Dist(s, t) = IF t <= s THEN s - t ELSE s - t + SeqSpace
      BY <2>2, DistIs
    <3> QED
      BY <2>1, <2>2, <3>1, Space
  <2>4. Dist(s, t) <= Dist(s, L)
    BY <1>1, <2>3, Space
  <2>5. d = IF BAWinSize + Dist(t, L) < SeqSpace THEN BAWinSize + Dist(t, L)
            ELSE BAWinSize + Dist(t, L) - SeqSpace
    <3>1. Dist(s, L) = IF Dist(s, t) + Dist(t, L) < SeqSpace
                       THEN Dist(s, t) + Dist(t, L)
                       ELSE Dist(s, t) + Dist(t, L) - SeqSpace
      BY <1>0, <2>2, DistSum
    <3> QED
      BY <2>3, <3>1
  <2>6. Dist(t, L) \in Nat /\ Dist(t, L) < SeqSpace
    BY <1>0, <2>2, DistNat
  <2> QED
    BY <1>1, <2>1, <2>2, <2>3, <2>5, <2>6
<1> HIDE DEF t
<1>3. PICK r \in 0 .. BAWinSize :
           /\ Advance(b, c, Dist(t, L) + r)
           /\ Quiet(c) /\ c.age = 0
           /\ \/ r = 0
              \/ \E i \in 1 .. Len(b.list) :
                   Dist(b.list[i].Sequence, L) = Dist(t, L) + r
  <2>1. Dist(t, L) <= Half
    BY <1>1, <1>2, Space
  <2> QED
    BY <1>0, <1>2, <2>1, ShiftIs
<1>4. r < BAWinSize
  <2>1. CASE r = 0
    BY <2>1, Space
  <2>2. CASE r # 0
    <3>1. PICK i \in 1 .. Len(b.list) : Dist(b.list[i].Sequence, L) = Dist(t, L) + r
      BY <1>3, <2>2
    <3>2. Dist(b.list[i].Sequence, L) \in 1 .. BAWinSize
      BY <1>0 DEF Behind
    <3> QED
      BY <1>1, <1>2, <3>1, <3>2, Space
  <2> QED
    BY <2>1, <2>2
<1> HIDE DEF c
<1>5. c \in Session /\ SameRest(b, c) /\ Behind(c.list, c.LastIndSeq)
      /\ Dist(c.LastIndSeq, L) = Dist(t, L) + r
  BY <1>3 DEF Advance
<1>6. Dist(s, c.LastIndSeq) = BAWinSize - r
  <2>1. c.LastIndSeq \in SeqNums
    BY <1>5, SessionIs
  <2>2. Dist(c.LastIndSeq, L) <= Dist(s, L) /\ Dist(c.LastIndSeq, L) = d - BAWinSize + r
    BY <1>1, <1>2, <1>4, <1>5, Space
  <2>3. Dist(s, c.LastIndSeq) = Dist(s, L) - Dist(c.LastIndSeq, L)
    BY <1>0, <2>1, <2>2, DistLess
  <2> QED
    BY <1>1, <2>2, <2>3, Space
<1>7. b.CurMpdu = Nothing
  <2> SUFFICES ASSUME b.CurMpdu # Nothing PROVE FALSE
    OBVIOUS
  <2>1. Buffered(b, s) \/ LeftBehind(b, s)
    BY DEF Ready
  <2>2. CASE Buffered(b, s)
    <3>1. PICK i \in DOMAIN b.list : b.list[i].Sequence = s
      BY <2>2 DEF Buffered
    <3>2. d \in 1 .. BAWinSize
      BY <1>0, <3>1 DEF Behind
    <3> QED
      BY <1>1, <3>2, Space
  <2>3. CASE LeftBehind(b, s)
    <3>1. Dist(s, L) \in 1 .. Half
      BY <1>1, Space
    <3> QED
      BY <1>0, <2>3, <3>1, DistBack DEF LeftBehind
  <2> QED
    BY <2>1, <2>2, <2>3
<1>8. Ready(c, s)
  <2>1. /\ ~c.spoilt /\ c.CurMpdu = Nothing /\ c.REC_BA_Status = "Established"
    BY <1>0, <1>5, <1>7 DEF SameRest
  <2> QED
    BY <1>3, <1>5, <2>1 DEF Ready
<1>9. Dist(t, L) + r = Dist(s, b.LastIndSeq) - Dist(s, c.LastIndSeq)
      /\ Dist(s, c.LastIndSeq) \in 1 .. BAWinSize
  BY <1>1, <1>2, <1>4, <1>6, Space
<1> QED
  BY <1>3, <1>8, <1>9 DEF c, t

\* Behind looks at the sequence numbers only.
LEMMA BehindSame ==
  ASSUME NEW list \in Seq(Block), NEW other \in Seq(Block), NEW s,
         Len(other) = Len(list),
         \A i \in 1 .. Len(list) : other[i].Sequence = list[i].Sequence
  PROVE  Behind(other, s) <=> Behind(list, s)
<1>1. DOMAIN list = 1 .. Len(list) /\ DOMAIN other = 1 .. Len(list)
  OBVIOUS
<1> QED
  BY <1>1 DEF Behind

\* Appending makes the block of CurMpdu longer and changes nothing else.
LEMMA AppendIs ==
  ASSUME NEW b \in Session, NEW p \in MSDUs, Buffered(b, b.CurMpdu)
  PROVE  LET c == AppendToCur(b, p) IN
         /\ c \in Session /\ SameRest(b, c) /\ c.LastIndSeq = b.LastIndSeq
         /\ c.top = b.top /\ c.late = b.late
         /\ Len(c.list) = Len(b.list)
         /\ \A i \in 1 .. Len(b.list) :
              /\ c.list[i].Sequence = b.list[i].Sequence
              /\ c.list[i].pkts = IF b.list[i].Sequence = b.CurMpdu
                                  THEN Append(b.list[i].pkts, p)
                                  ELSE b.list[i].pkts
<1> DEFINE here == {i \in DOMAIN b.list : b.list[i].Sequence = b.CurMpdu}
           list == [i \in DOMAIN b.list |->
                      IF i \in here THEN Longer(b.list[i], p) ELSE b.list[i]]
           c == AppendToCur(b, p)
<1>0. /\ b.list \in Seq(Block) /\ Len(b.list) \in Nat
      /\ DOMAIN b.list = 1 .. Len(b.list)
  BY SessionIs
<1>1. here # {}
  BY DEF Buffered
<1>2. ASSUME NEW i \in 1 .. Len(b.list)
      PROVE  /\ list[i] \in Block /\ list[i].Sequence = b.list[i].Sequence
             /\ list[i].pkts = IF b.list[i].Sequence = b.CurMpdu
                               THEN Append(b.list[i].pkts, p) ELSE b.list[i].pkts
  <2>1. /\ b.list[i] \in Block
        /\ list[i] = IF b.list[i].Sequence = b.CurMpdu
                     THEN Longer(b.list[i], p) ELSE b.list[i]
    BY <1>0
  <2> DEFINE x == b.list[i]
  <2> HIDE DEF x
  <2>2. x \in Block => /\ Longer(x, p) \in Block
                       /\ Longer(x, p).Sequence = x.Sequence
                       /\ Longer(x, p).pkts = Append(x.pkts, p)
    <3>1. ASSUME NEW q \in Seq(MSDUs)
          PROVE  Append(q, p) \in Seq(MSDUs) \ {<<>>}
      OBVIOUS
    <3> QED
      BY <3>1 DEF Block, Longer
  <2> DEFINE y == list[i]
  <2>3. y = IF x.Sequence = b.CurMpdu THEN Longer(x, p) ELSE x
    BY <2>1 DEF x
  <2> HIDE DEF y
  <2>4. x \in Block
    BY <2>1 DEF x
  <2>5. /\ y \in Block /\ y.Sequence = x.Sequence
        /\ y.pkts = IF x.Sequence = b.CurMpdu THEN Append(x.pkts, p) ELSE x.pkts
    BY <2>2, <2>3, <2>4
  <2> QED
    BY <2>5 DEF x, y
<1>3. DOMAIN list = 1 .. Len(b.list)
  BY <1>0
<1>4. list \in [1 .. Len(b.list) -> Block]
  BY <1>2, <1>3
<1>5. c = [b EXCEPT !.list = list, !.spoilt = @ \/ here = {}]
  BY DEF AppendToCur
<1>6. c = [b EXCEPT !.list = list]
  BY <1>1, <1>5 DEF Session
<1> HIDE DEF c, list
<1>7. list \in Seq(Block) /\ Len(list) = Len(b.list)
  BY <1>0, <1>4
<1>8. /\ c \in Session /\ SameRest(b, c) /\ c.LastIndSeq = b.LastIndSeq
      /\ c.top = b.top /\ c.late = b.late /\ c.list = list
  BY <1>6, <1>7 DEF Session, SameRest
<1> QED
  BY <1>2, <1>7, <1>8 DEF c

LEMMA AppendPlaced ==
  ASSUME NEW b, NEW p \in MSDUs, Ready(b, SN(p)), b.CurMpdu # Nothing,
         Dist(SN(p), b.LastIndSeq) \in 2 .. BAWinSize
  PROVE  Placed(Case(AppendToCur(b, p), "WITHIN"), p) /\ Buffered(b, b.CurMpdu)
<1> DEFINE s == SN(p)
           L == b.LastIndSeq
           c == AppendToCur(b, p)
<1>0. /\ b \in Session /\ Behind(b.list, L) /\ Quiet(b) /\ ~b.spoilt
      /\ b.REC_BA_Status = "Established" /\ s \in SeqNums
      /\ L \in SeqNums /\ b.list \in Seq(Block) /\ Len(b.list) \in Nat
      /\ DOMAIN b.list = 1 .. Len(b.list) /\ "WITHIN" \in Cases
  BY MsduHas, SessionIs DEF Ready, Cases
<1>1. b.CurMpdu = s /\ Buffered(b, s)
  <2>1. Dist(s, L) \in 1 .. Half
    BY Space
  <2>2. ~LeftBehind(b, s)
    BY <1>0, <2>1, DistBack DEF LeftBehind
  <2> QED
    BY <2>2 DEF Ready
<1>2. /\ c \in Session /\ SameRest(b, c) /\ c.LastIndSeq = L
      /\ Len(c.list) = Len(b.list)
      /\ \A i \in 1 .. Len(b.list) : c.list[i].Sequence = b.list[i].Sequence
  BY <1>0, <1>1, AppendIs
<1> HIDE DEF c
<1>3. /\ ~c.spoilt /\ c.CurMpdu = s /\ c.REC_BA_Status = "Established"
  BY <1>0, <1>1, <1>2 DEF SameRest
<1>4. c.list \in Seq(Block) /\ DOMAIN c.list = 1 .. Len(b.list)
  BY <1>2, SessionIs
<1>5. Behind(c.list, L) /\ Quiet(c) /\ Buffered(c, s)
  BY <1>0, <1>1, <1>2, <1>4, BehindSame DEF Quiet, Buffered
<1> DEFINE e == Case(c, "WITHIN")
<1>6. /\ e \in Session /\ e.list = c.list /\ e.LastIndSeq = c.LastIndSeq
      /\ e.CurMpdu = c.CurMpdu /\ e.REC_BA_Status = c.REC_BA_Status
      /\ e.spoilt = c.spoilt /\ e.PreviousReorderCase = "WITHIN"
  BY <1>0, <1>2, CaseIs
<1> HIDE DEF e
<1>7. Placed(e, p)
  BY <1>2, <1>3, <1>5, <1>6 DEF Placed, Quiet, Buffered
<1> QED
  BY <1>1, <1>7 DEF e, c

LEMMA InsertAtIs ==
  ASSUME NEW list \in Seq(Block), NEW k \in 0 .. Len(list), NEW x \in Block
  PROVE  LET new == InsertAt(list, k + 1, x) IN
         /\ new \in Seq(Block) /\ Len(new) = Len(list) + 1
         /\ \A i \in 1 .. Len(list) + 1 :
              new[i] = IF i <= k THEN list[i]
                       ELSE IF i = k + 1 THEN x ELSE list[i - 1]
<1> DEFINE u == SubSeq(list, 1, k)
           v == SubSeq(list, k + 1, Len(list))
           w == u \o <<x>>
<1>0. Len(list) \in Nat /\ k \in Nat
  OBVIOUS
<1>1. u \in Seq(Block) /\ Len(u) = k /\ \A i \in 1 .. k : u[i] = list[i]
  BY <1>0
<1>2. /\ v \in Seq(Block) /\ Len(v) = Len(list) - k
      /\ \A i \in 1 .. Len(list) - k : v[i] = list[i + k]
  BY RestFacts
<1>3. InsertAt(list, k + 1, x) = w \o v
  <2>1. (k + 1) - 1 = k
    BY <1>0
  <2> QED
    BY <2>1 DEF InsertAt
<1> HIDE DEF u, v
<1>4. /\ w \in Seq(Block) /\ Len(w) = k + 1
      /\ \A i \in 1 .. k + 1 : w[i] = IF i <= k THEN list[i] ELSE x
  BY <1>0, <1>1
<1> HIDE DEF w
<1>5. /\ w \o v \in Seq(Block) /\ Len(w \o v) = Len(list) + 1
      /\ \A i \in 1 .. Len(list) + 1 :
           (w \o v)[i] = IF i <= k + 1 THEN w[i] ELSE v[i - (k + 1)]
  BY <1>0, <1>2, <1>4
<1>6. ASSUME NEW i \in 1 .. Len(list) + 1
      PROVE  (w \o v)[i] = IF i <= k THEN list[i]
                           ELSE IF i = k + 1 THEN x ELSE list[i - 1]
  <2>1. CASE i <= k + 1
    <3>1. i \in 1 .. k + 1
      BY <1>0, <2>1
    <3> QED
      BY <1>0, <1>4, <1>5, <2>1, <3>1
  <2>2. CASE ~(i <= k + 1)
    <3>1. i - (k + 1) \in 1 .. Len(list) - k /\ (i - (k + 1)) + k = i - 1
          /\ ~(i <= k) /\ i # k + 1
      BY <1>0, <2>2
    <3> QED
      BY <1>2, <1>5, <2>2, <3>1
  <2> QED
    BY <2>1, <2>2
<1> DEFINE new == InsertAt(list, k + 1, x)
           cat == w \o v
<1>7. new = cat /\ cat \in Seq(Block) /\ Len(cat) = Len(list) + 1
  BY <1>3, <1>5
<1>8. \A i \in 1 .. Len(list) + 1 :
        cat[i] = IF i <= k THEN list[i]
                 ELSE IF i = k + 1 THEN x ELSE list[i - 1]
  BY <1>6
<1> HIDE DEF new, cat
<1>9. /\ new \in Seq(Block) /\ Len(new) = Len(list) + 1
      /\ \A i \in 1 .. Len(list) + 1 :
           new[i] = IF i <= k THEN list[i]
                    ELSE IF i = k + 1 THEN x ELSE list[i - 1]
  BY <1>7, <1>8
<1> QED
  BY <1>9 DEF new

\* Where a number of the window goes in the list.
LEMMA PlaceIs ==
  ASSUME NEW b \in Session, Behind(b.list, b.LastIndSeq),
         NEW s \in SeqNums, Dist(s, b.LastIndSeq) \in 1 .. BAWinSize
  PROVE  \E k \in 0 .. Len(b.list) :
           /\ Leading(b.list, LAMBDA j, t : SEQ_SMALLER(t, s)) = k
           /\ \A i \in 1 .. k : Dist(b.list[i].Sequence, b.LastIndSeq)
                                  < Dist(s, b.LastIndSeq)
           /\ \/ k < Len(b.list) /\ b.list[k + 1].Sequence = s
              \/ /\ ~(k < Len(b.list) /\ b.list[k + 1].Sequence = s)
                 /\ Passed(b, k, Dist(s, b.LastIndSeq))
<1> DEFINE list == b.list
           L == b.LastIndSeq
           d == Dist(s, L)
           D(i) == Dist(list[i].Sequence, L)
           Ok(i) == SEQ_SMALLER(list[i].Sequence, s)
           G == {i \in 1 .. Len(list) : Ok(i)}
           K == {k \in 0 .. Len(list) : \A i \in 1 .. k : Ok(i)}
           k == Max(K)
<1>0. /\ L \in SeqNums /\ Len(list) \in Nat /\ DOMAIN list = 1 .. Len(list)
      /\ \A i \in 1 .. Len(list) : list[i].Sequence \in SeqNums
  BY SessionIs
<1>1. Leading(list, LAMBDA j, t : SEQ_SMALLER(t, s)) = k
  BY DEF Leading
<1>2. \A i \in 1 .. Len(list) : (Ok(i) <=> D(i) < d) /\ D(i) \in 1 .. BAWinSize
  <2> TAKE i \in 1 .. Len(list)
  <2>1. D(i) \in 1 .. BAWinSize
    BY <1>0 DEF Behind
  <2>2. d <= Half
    BY Space
  <2> QED
    BY <1>0, <2>1, <2>2, UpToIs
<1>a. \A i \in 1 .. Len(list) : D(i) = d => list[i].Sequence = s
  BY <1>0, DistZero
<1> HIDE DEF Ok, D
<1>3. /\ k \in 0 .. Len(list) /\ \A i \in 1 .. k : i \in G
      /\ k < Len(list) => k + 1 \notin G
  <2>1. K = {j \in 0 .. Len(list) : \A i \in 1 .. j : i \in G}
    BY <1>0
  <2> HIDE DEF K, G
  <2> QED
    BY <1>0, <2>1, LeadingIs
<1> HIDE DEF k
<1>4. \A i \in 1 .. k : D(i) < d /\ D(i) \in 1 .. BAWinSize
  BY <1>2, <1>3
<1>5. d \in Nat
  BY Space
<1>6. CASE ~(k < Len(list) /\ list[k + 1].Sequence = s)
  <2>1. k < Len(list) => D(k + 1) > d
    <3> SUFFICES ASSUME k < Len(list) PROVE D(k + 1) > d
      OBVIOUS
    <3>1. k + 1 \in 1 .. Len(list)
      BY <1>0, <1>3
    <3>2. ~(D(k + 1) < d) /\ D(k + 1) # d /\ D(k + 1) \in 1 .. BAWinSize
      BY <1>2, <1>3, <1>6, <1>a, <3>1
    <3> QED
      BY <1>5, <3>2, Space
  <2>2. \A i \in 1 .. k : D(i) <= d
    BY <1>4, <1>5, Space
  <2>3. Passed(b, k, d)
    BY <1>3, <1>5, <2>1, <2>2, PassedIs DEF D
  <2> QED
    BY <1>1, <1>3, <1>4, <1>6, <2>3 DEF D
<1>7. CASE k < Len(list) /\ list[k + 1].Sequence = s
  BY <1>1, <1>3, <1>4, <1>7 DEF D
<1> QED
  BY <1>6, <1>7

\* The list with a block of its own for a number of the window.
LEMMA BehindInsert ==
  ASSUME NEW b \in Session, Behind(b.list, b.LastIndSeq),
         NEW x \in Block, Dist(x.Sequence, b.LastIndSeq) \in 1 .. BAWinSize,
         NEW k \in 0 .. Len(b.list),
         Passed(b, k, Dist(x.Sequence, b.LastIndSeq)),
         \A i \in 1 .. k : Dist(b.list[i].Sequence, b.LastIndSeq)
                             < Dist(x.Sequence, b.LastIndSeq)
  PROVE  Behind(InsertAt(b.list, k + 1, x), b.LastIndSeq)
<1> DEFINE list == b.list
           L == b.LastIndSeq
           new == InsertAt(list, k + 1, x)
           D(i) == Dist(list[i].Sequence, L)
           E(i) == Dist(new[i].Sequence, L)
           d == Dist(x.Sequence, L)
<1>0. /\ list \in Seq(Block) /\ Len(list) \in Nat /\ DOMAIN list = 1 .. Len(list)
      /\ k \in Nat
  BY SessionIs
<1>1. /\ new \in Seq(Block) /\ Len(new) = Len(list) + 1
      /\ \A i \in 1 .. Len(list) + 1 :
           new[i] = IF i <= k THEN list[i]
                    ELSE IF i = k + 1 THEN x ELSE list[i - 1]
  <2>1. list \in Seq(Block) /\ k \in 0 .. Len(list) /\ x \in Block
    BY <1>0
  <2> HIDE DEF list, L, D, E, d
  <2> QED
    BY <2>1, InsertAtIs
<1> HIDE DEF new
<1>2. DOMAIN new = 1 .. Len(list) + 1
  BY <1>0, <1>1
<1>3. /\ \A i \in 1 .. k : E(i) = D(i)
      /\ E(k + 1) = d
      /\ \A i \in k + 2 .. Len(list) + 1 : E(i) = D(i - 1)
  <2>1. ASSUME NEW i \in 1 .. k PROVE E(i) = D(i)
    <3>1. i \in 1 .. Len(list) + 1 /\ i <= k
      BY <1>0
    <3> QED
      BY <1>1, <3>1
  <2>2. E(k + 1) = d
    <3>1. k + 1 \in 1 .. Len(list) + 1 /\ ~(k + 1 <= k)
      BY <1>0
    <3> QED
      BY <1>1, <3>1
  <2>3. ASSUME NEW i \in k + 2 .. Len(list) + 1 PROVE E(i) = D(i - 1)
    <3>1. i \in 1 .. Len(list) + 1 /\ ~(i <= k) /\ i # k + 1
      BY <1>0
    <3> QED
      BY <1>1, <3>1
  <2> QED
    BY <2>1, <2>2, <2>3
<1>4. /\ \A i \in 1 .. Len(list) : D(i) \in 1 .. BAWinSize
      /\ \A i, j \in 1 .. Len(list) : i < j => D(i) < D(j)
  BY <1>0 DEF Behind
<1>5. /\ \A i \in 1 .. k : D(i) < d
      /\ \A i \in k + 1 .. Len(list) : D(i) > d
  BY DEF Passed
<1> HIDE DEF D, E, d
<1>6. d \in 1 .. BAWinSize
  BY DEF d
<1>7. \A i \in 1 .. Len(list) + 1 : E(i) \in 1 .. BAWinSize
  <2> TAKE i \in 1 .. Len(list) + 1
  <2>1. CASE i \in 1 .. k
    BY <1>0, <1>3, <1>4, <2>1
  <2>2. CASE i = k + 1
    BY <1>3, <1>6, <2>2
  <2>3. CASE i \in k + 2 .. Len(list) + 1
    <3>1. i - 1 \in 1 .. Len(list)
      BY <1>0, <2>3
    <3> QED
      BY <1>3, <1>4, <2>3, <3>1
  <2> QED
    BY <1>0, <2>1, <2>2, <2>3
<1>8. \A i, j \in 1 .. Len(list) + 1 : i < j => E(i) < E(j)
  <2> SUFFICES ASSUME NEW i \in 1 .. Len(list) + 1, NEW j \in 1 .. Len(list) + 1,
                      i < j
               PROVE  E(i) < E(j)
    OBVIOUS
  <2>1. CASE j \in 1 .. k
    <3>1. i \in 1 .. k /\ i \in 1 .. Len(list) /\ j \in 1 .. Len(list)
      BY <1>0, <2>1
    <3> QED
      BY <1>3, <1>4, <2>1, <3>1
  <2>2. CASE j = k + 1
    <3>1. i \in 1 .. k
      BY <1>0, <2>2
    <3> QED
      BY <1>3, <1>5, <2>2, <3>1
  <2>3. CASE j \in k + 2 .. Len(list) + 1
    <3>1. j - 1 \in k + 1 .. Len(list) /\ j - 1 \in 1 .. Len(list)
      BY <1>0, <2>3
    <3>2. E(j) = D(j - 1) /\ D(j - 1) > d /\ D(j - 1) \in Int
      BY <1>3, <1>4, <1>5, <2>3, <3>1, Space
    <3>3. CASE i \in 1 .. k
      <4>1. E(i) = D(i) /\ D(i) < d /\ D(i) \in Int
        <5>1. i \in 1 .. Len(list)
          BY <1>0, <3>3
        <5> QED
          BY <1>3, <1>4, <1>5, <3>3, <5>1, Space
      <4> QED
        BY <1>6, <3>2, <4>1, Space
    <3>4. CASE i = k + 1
      BY <1>3, <3>2, <3>4, <1>6, Space
    <3>5. CASE i \in k + 2 .. Len(list) + 1
      <4>1. i - 1 \in 1 .. Len(list) /\ i - 1 < j - 1
        BY <1>0, <3>5
      <4> QED
        BY <1>3, <1>4, <3>1, <3>2, <3>5, <4>1
    <3> QED
      BY <1>0, <3>3, <3>4, <3>5
  <2> QED
    BY <1>0, <2>1, <2>2, <2>3
<1>9. Behind(new, L)
  BY <1>2, <1>7, <1>8 DEF Behind, E
<1> QED
  BY <1>9 DEF new

LEMMA BlockIs ==
  ASSUME NEW p \in MSDUs
  PROVE  LET x == [Sequence |-> SN(p), pkts |-> <<p>>] IN
         x \in Block /\ x.Sequence = SN(p) /\ x.pkts = <<p>>
<1>1. SN(p) \in SeqNums
  BY MsduHas
<1>2. <<p>> \in Seq(MSDUs) \ {<<>>}
  OBVIOUS
<1> QED
  BY <1>1, <1>2 DEF Block

\* A repeated MSDU changes CurMpdu only; a new one gets a block of its own.
LEMMA InsertIs ==
  ASSUME NEW b \in Session, Behind(b.list, b.LastIndSeq), NEW p \in MSDUs,
         Dist(SN(p), b.LastIndSeq) \in 1 .. BAWinSize
  PROVE  LET c == Insert(b, p) IN
         \/ c = Forgotten(b) /\ Buffered(b, SN(p))
         \/ /\ ~Buffered(b, SN(p))
            /\ c \in Session /\ c.LastIndSeq = b.LastIndSeq
            /\ c.spoilt = b.spoilt /\ c.REC_BA_Status = b.REC_BA_Status
            /\ c.top = b.top /\ c.late = b.late
            /\ c.pulled = b.pulled /\ c.dry = b.dry
            /\ c.CurMpdu = SN(p) /\ Behind(c.list, b.LastIndSeq)
            /\ \E k \in 0 .. Len(b.list) :
                 /\ Len(c.list) = Len(b.list) + 1
                 /\ \A i \in 1 .. Len(b.list) + 1 :
                      c.list[i] = IF i <= k THEN b.list[i]
                                  ELSE IF i = k + 1
                                    THEN [Sequence |-> SN(p), pkts |-> <<p>>]
                                  ELSE b.list[i - 1]
<1> DEFINE s == SN(p)
           L == b.LastIndSeq
           x == [Sequence |-> SN(p), pkts |-> <<p>>]
           c == Insert(b, p)
<1>0. /\ s \in SeqNums /\ b.list \in Seq(Block) /\ Len(b.list) \in Nat
      /\ DOMAIN b.list = 1 .. Len(b.list) /\ L \in SeqNums
  BY MsduHas, SessionIs
<1>1. x \in Block /\ x.Sequence = s
  BY BlockIs
<1>3. PICK k \in 0 .. Len(b.list) :
           /\ Leading(b.list, LAMBDA j, t : SEQ_SMALLER(t, s)) = k
           /\ \A i \in 1 .. k : Dist(b.list[i].Sequence, L) < Dist(s, L)
           /\ \/ k < Len(b.list) /\ b.list[k + 1].Sequence = s
              \/ /\ ~(k < Len(b.list) /\ b.list[k + 1].Sequence = s)
                 /\ Passed(b, k, Dist(s, L))
  BY <1>0, PlaceIs
<1>4. k + 1 <= Len(b.list) <=> k < Len(b.list)
  BY <1>0
<1>5. CASE k < Len(b.list) /\ b.list[k + 1].Sequence = s
  <2>1. c = Forgotten(b)
    BY <1>3, <1>4, <1>5 DEF Insert, Forgotten
  <2>2. Buffered(b, s)
    BY <1>0, <1>5 DEF Buffered
  <2> QED
    BY <2>1, <2>2
<1>6. CASE ~(k < Len(b.list) /\ b.list[k + 1].Sequence = s)
  <2> DEFINE new == InsertAt(b.list, k + 1, x)
  <2>1. c = [b EXCEPT !.list = new, !.CurMpdu = s]
    BY <1>3, <1>4, <1>6 DEF Insert
  <2>2. Behind(new, L)
    <3> HIDE DEF x
    <3> QED
      BY <1>0, <1>1, <1>3, <1>6, BehindInsert
  <2>3. /\ new \in Seq(Block) /\ Len(new) = Len(b.list) + 1
        /\ \A i \in 1 .. Len(b.list) + 1 :
              new[i] = IF i <= k THEN b.list[i]
                       ELSE IF i = k + 1 THEN x ELSE b.list[i - 1]
    <3> HIDE DEF x
    <3> QED
      BY <1>0, <1>1, InsertAtIs, ZenonT(40)
  <2>4. ~Buffered(b, s)
    <3> SUFFICES ASSUME NEW i \in 1 .. Len(b.list), b.list[i].Sequence = s
                 PROVE  FALSE
      BY <1>0 DEF Buffered
    <3> DEFINE D == Dist(s, L)
    <3>1. D \in Nat /\ Dist(b.list[i].Sequence, L) = D
      BY <1>0, DistNat
    <3>2. \A j \in 1 .. k : Dist(b.list[j].Sequence, L) < D
      BY <1>3
    <3>3. \A j \in k + 1 .. Len(b.list) : Dist(b.list[j].Sequence, L) > D
      BY <1>3, <1>6 DEF Passed
    <3> HIDE DEF D
    <3>4. ~(i \in 1 .. k)
      BY <3>1, <3>2
    <3>5. ~(i \in k + 1 .. Len(b.list))
      BY <3>1, <3>3
    <3> QED
      BY <1>0, <3>4, <3>5
  <2> HIDE DEF new, c
  <2>5. /\ c \in Session /\ c.list = new /\ c.LastIndSeq = L
        /\ c.spoilt = b.spoilt /\ c.CurMpdu = s
        /\ c.REC_BA_Status = b.REC_BA_Status
        /\ c.top = b.top /\ c.late = b.late
        /\ c.pulled = b.pulled /\ c.dry = b.dry
    <3> DEFINE n == s
    <3>1. n \in SeqNums
      BY <1>0
    <3> HIDE DEF n
    <3>2. LET d == [b EXCEPT !.list = new, !.CurMpdu = n]
          IN /\ d \in Session /\ d.list = new /\ d.LastIndSeq = L
             /\ d.spoilt = b.spoilt /\ d.CurMpdu = n
             /\ d.REC_BA_Status = b.REC_BA_Status
             /\ d.top = b.top /\ d.late = b.late
             /\ d.pulled = b.pulled /\ d.dry = b.dry
      BY <2>3, <3>1 DEF Session
    <3> QED
      BY <2>1, <3>2 DEF n
  <2> QED
    BY <2>2, <2>3, <2>4, <2>5 DEF c
<1> QED
  BY <1>5, <1>6

LEMMA InsertPlaced ==
  ASSUME NEW b, NEW p \in MSDUs, Ready(b, SN(p)),
         Dist(SN(p), b.LastIndSeq) \in 2 .. BAWinSize
  PROVE  Placed(Case(Insert(b, p), "WITHIN"), p)
<1> DEFINE s == SN(p)
           L == b.LastIndSeq
           c == Insert(b, p)
           e == Case(c, "WITHIN")
<1>0. /\ b \in Session /\ Behind(b.list, L) /\ Quiet(b) /\ ~b.spoilt
      /\ b.REC_BA_Status = "Established" /\ s \in SeqNums
      /\ L \in SeqNums /\ b.list \in Seq(Block) /\ Len(b.list) \in Nat
      /\ DOMAIN b.list = 1 .. Len(b.list) /\ "WITHIN" \in Cases
      /\ s = SN(p) /\ Dist(s, L) \in 1 .. BAWinSize
  BY MsduHas, SessionIs, Space DEF Ready, Cases
<1>1. CASE c = Forgotten(b)
  <2>2. /\ c \in Session /\ c.list = b.list /\ c.LastIndSeq = L
        /\ c.CurMpdu = Nothing /\ ~c.spoilt /\ c.REC_BA_Status = "Established"
    BY <1>0, <1>1, ForgottenIs
  <2> HIDE DEF c
  <2>3. /\ e \in Session /\ e.list = c.list /\ e.LastIndSeq = c.LastIndSeq
        /\ e.CurMpdu = c.CurMpdu /\ e.REC_BA_Status = c.REC_BA_Status
        /\ e.spoilt = c.spoilt /\ e.PreviousReorderCase = "WITHIN"
    BY <1>0, <2>2, CaseIs
  <2> HIDE DEF e
  <2>4. Placed(e, p)
    BY <1>0, <2>2, <2>3 DEF Placed, Quiet
  <2> QED
    BY <2>4 DEF e, c
<1>2. CASE c # Forgotten(b)
  <2>1. /\ c \in Session /\ c.LastIndSeq = L /\ c.spoilt = b.spoilt
        /\ c.REC_BA_Status = b.REC_BA_Status
        /\ c.CurMpdu = s /\ Behind(c.list, L)
        /\ \E k \in 0 .. Len(b.list) :
                 /\ Len(c.list) = Len(b.list) + 1
                 /\ \A i \in 1 .. Len(b.list) + 1 :
                      c.list[i] = IF i <= k THEN b.list[i]
                                  ELSE IF i = k + 1
                                    THEN [Sequence |-> s, pkts |-> <<p>>]
                                  ELSE b.list[i - 1]
    BY <1>0, <1>2, InsertIs
  <2>2. PICK k \in 0 .. Len(b.list) :
               /\ Len(c.list) = Len(b.list) + 1
               /\ \A i \in 1 .. Len(b.list) + 1 :
                    c.list[i] = IF i <= k THEN b.list[i]
                                ELSE IF i = k + 1
                                  THEN [Sequence |-> s, pkts |-> <<p>>]
                                ELSE b.list[i - 1]
    BY <2>1
  <2> HIDE DEF c
  <2>5. DOMAIN c.list = 1 .. Len(b.list) + 1
    BY <2>1, <2>2, SessionIs
  <2>6. Buffered(c, s)
    <3>1. k + 1 \in 1 .. Len(b.list) + 1 /\ ~(k + 1 <= k)
      BY <1>0
    <3>2. c.list[k + 1].Sequence = s
      BY <2>2, <3>1
    <3> QED
      BY <2>5, <3>1, <3>2 DEF Buffered
  <2>7. Quiet(c)
    <3> SUFFICES ASSUME NEW i \in 1 .. Len(b.list) + 1
                 PROVE  c.list[i].Sequence # Wrap(L + 1)
      BY <2>1, <2>5 DEF Quiet
    <3>1. CASE i = k + 1
      <4>1. c.list[i].Sequence = s /\ Dist(s, L) # 1
        BY <1>0, <2>2, <3>1
      <4> QED
        BY <1>0, <4>1, NextIs
    <3>2. CASE i <= k
      <4>1. i \in DOMAIN b.list /\ c.list[i] = b.list[i]
        BY <1>0, <2>2, <3>2
      <4> QED
        BY <1>0, <4>1 DEF Quiet
    <3>3. CASE ~(i <= k) /\ i # k + 1
      <4>1. i - 1 \in DOMAIN b.list /\ c.list[i] = b.list[i - 1]
        BY <1>0, <2>2, <3>3
      <4> QED
        BY <1>0, <4>1 DEF Quiet
    <3> QED
      BY <3>1, <3>2, <3>3
  <2>8. /\ e \in Session /\ e.list = c.list /\ e.LastIndSeq = c.LastIndSeq
        /\ e.CurMpdu = c.CurMpdu /\ e.REC_BA_Status = c.REC_BA_Status
        /\ e.spoilt = c.spoilt /\ e.PreviousReorderCase = "WITHIN"
    BY <1>0, <2>1, CaseIs
  <2> HIDE DEF e
  <2>9. Placed(e, p)
    BY <1>0, <2>1, <2>6, <2>7, <2>8 DEF Placed, Quiet, Buffered
  <2> QED
    BY <2>9 DEF e, c
<1> QED
  BY <1>1, <1>2

\* What Enqueue notes when there is no room; x, that a copy is held.
NoRoom(b, x) == [b EXCEPT !.CurMpdu = Nothing, !.dry = @ \/ x]

LEMMA NoRoomIs ==
  ASSUME NEW b \in Session, NEW x \in BOOLEAN
  PROVE  LET c == NoRoom(b, x) IN
         /\ c \in Session /\ c.list = b.list /\ c.LastIndSeq = b.LastIndSeq
         /\ c.CurMpdu = Nothing /\ c.REC_BA_Status = b.REC_BA_Status
         /\ c.spoilt = b.spoilt /\ c.top = b.top /\ c.late = b.late
         /\ c.pulled = b.pulled /\ (c.dry <=> b.dry \/ x)
<1> DEFINE y == b.dry \/ x
           c == [b EXCEPT !.CurMpdu = Nothing, !.dry = y]
<1>1. y \in BOOLEAN
  OBVIOUS
<1> HIDE DEF y
<1>2. /\ c \in Session /\ c.list = b.list /\ c.LastIndSeq = b.LastIndSeq
         /\ c.CurMpdu = Nothing /\ c.REC_BA_Status = b.REC_BA_Status
         /\ c.spoilt = b.spoilt /\ c.top = b.top /\ c.late = b.late
         /\ c.pulled = b.pulled /\ c.dry = y
  BY <1>1 DEF Session
<1> QED
  BY <1>1, <1>2 DEF y, NoRoom

\* What is announced last without room goes up after all that lies before it.
LEMMA NoRoomStep ==
  ASSUME NEW b \in Session, Behind(b.list, b.LastIndSeq), NEW p \in MSDUs,
         Dist(SN(p), b.LastIndSeq) \in 1 .. BAWinSize
  PROVE  \E m, a :
           /\ Enqueue(b, p, FALSE) = InOrder(a)
           /\ Advance(b, m, Dist(SN(p), b.LastIndSeq)) /\ m.LastIndSeq = SN(p)
           /\ a \in Session /\ a.list = m.list /\ a.LastIndSeq = SN(p)
           /\ a.CurMpdu = Nothing /\ a.REC_BA_Status = m.REC_BA_Status
           /\ a.spoilt = m.spoilt /\ a.pulled = m.pulled
           /\ a.top = p /\ (a.late <=> m.late \/ ~Before(m.top, p))
           /\ a.dry <=> m.dry \/ \E i \in DOMAIN b.list :
                                    Contains(b.list[i].pkts, p)
<1> DEFINE s == SN(p)
           L == b.LastIndSeq
           x == \E i \in DOMAIN b.list : Contains(b.list[i].pkts, p)
           r == LeSeq(b, s)
           c == [r EXCEPT !.LastIndSeq = s, !.age = 0, !.CurMpdu = Nothing,
                          !.dry = @ \/ x]
           a == Announce(c, <<p>>)
<1>0. s \in SeqNums /\ x \in BOOLEAN /\ 0 \in 0 .. 2
  BY MsduHas
<1>1. Enqueue(b, p, FALSE) = InOrder(a)
  BY DEF Enqueue
<1>2. PICK k \in 0 .. Len(b.list) : r = Release(b, k) /\ Passed(b, k, Dist(s, L))
  <2>1. Dist(s, L) <= Half
    BY Space
  <2> QED
    BY <1>0, <2>1, LeSeqIs
<1> DEFINE m == Moved(b, k, s, 0)
<1>3. /\ Advance(b, m, Dist(s, L)) /\ m.LastIndSeq = s
  BY <1>0, <1>2, MoveTo
<1>4. m \in Session /\ m = [r EXCEPT !.LastIndSeq = s, !.age = 0]
  BY <1>2, <1>3 DEF Advance, Moved
<1>5. r \in Session
  <2> DEFINE rest == SubSeq(b.list, k + 1, Len(b.list))
  <2>1. PICK top \in [n : Nat, k : Nat], late \in BOOLEAN :
          Release(b, k) = [b EXCEPT !.list = rest, !.top = top, !.late = late]
    BY ReleaseIs
  <2>2. rest \in Seq(Block)
    BY SessionIs, RestFacts
  <2> HIDE DEF rest, r
  <2>3. [b EXCEPT !.list = rest, !.top = top, !.late = late] \in Session
    BY <2>2 DEF Session
  <2> QED
    BY <1>2, <2>1, <2>3
<1> DEFINE d == NoRoom(m, x)
<1>6. c = d
  <2> HIDE DEF r, x, s
  <2>1. m.dry = r.dry
    BY <1>4, <1>5 DEF Session
  <2> HIDE DEF m
  <2>2. [m EXCEPT !.CurMpdu = Nothing, !.dry = m.dry \/ x]
         = [r EXCEPT !.LastIndSeq = s, !.age = 0, !.CurMpdu = Nothing,
                     !.dry = r.dry \/ x]
    <3> DEFINE y == r.dry \/ x
    <3> HIDE DEF y
    <3>1. [m EXCEPT !.CurMpdu = Nothing, !.dry = y]
           = [r EXCEPT !.LastIndSeq = s, !.age = 0, !.CurMpdu = Nothing,
                       !.dry = y]
      BY <1>4, <1>5 DEF Session
    <3>2. (m.dry \/ x) = y
      BY <2>1 DEF y
    <3> QED
      BY <3>1, <3>2 DEF y
  <2> QED
    BY <2>2 DEF NoRoom
<1> HIDE DEF m, r, c, x
<1>7. /\ d \in Session /\ d.list = m.list /\ d.LastIndSeq = m.LastIndSeq
      /\ d.CurMpdu = Nothing /\ d.REC_BA_Status = m.REC_BA_Status
      /\ d.spoilt = m.spoilt /\ d.top = m.top /\ d.late = m.late
      /\ d.pulled = m.pulled /\ (d.dry <=> m.dry \/ x)
  BY <1>0, <1>4, NoRoomIs
<1> HIDE DEF d
<1>8. /\ a \in Session /\ SameRest(d, a)
      /\ a.list = d.list /\ a.LastIndSeq = d.LastIndSeq
      /\ a.top = p /\ (a.late <=> d.late \/ ~Before(d.top, p))
  BY <1>6, <1>7, AnnounceOne
<1> HIDE DEF a
<1>9. /\ a \in Session /\ a.list = m.list /\ a.LastIndSeq = s
      /\ a.CurMpdu = Nothing /\ a.REC_BA_Status = m.REC_BA_Status
      /\ a.spoilt = m.spoilt /\ a.pulled = m.pulled
      /\ a.top = p /\ (a.late <=> m.late \/ ~Before(m.top, p))
      /\ a.dry <=> m.dry \/ x
  BY <1>3, <1>7, <1>8 DEF SameRest
<1> QED
  BY <1>1, <1>3, <1>9 DEF x

LEMMA NoRoomPlaced ==
  ASSUME NEW b, NEW p \in MSDUs, Ready(b, SN(p)),
         Dist(SN(p), b.LastIndSeq) \in 2 .. BAWinSize
  PROVE  Placed(Case(Enqueue(b, p, FALSE), "WITHIN"), p)
<1>0. /\ b \in Session /\ Behind(b.list, b.LastIndSeq) /\ ~b.spoilt
      /\ b.REC_BA_Status = "Established" /\ "WITHIN" \in Cases
      /\ Dist(SN(p), b.LastIndSeq) \in 1 .. BAWinSize
  BY Space DEF Ready, Cases
<1>1. PICK m, a :
           /\ Enqueue(b, p, FALSE) = InOrder(a)
           /\ Advance(b, m, Dist(SN(p), b.LastIndSeq)) /\ m.LastIndSeq = SN(p)
           /\ a \in Session /\ a.list = m.list /\ a.LastIndSeq = SN(p)
           /\ a.CurMpdu = Nothing /\ a.REC_BA_Status = m.REC_BA_Status
           /\ a.spoilt = m.spoilt /\ a.pulled = m.pulled
           /\ a.top = p /\ (a.late <=> m.late \/ ~Before(m.top, p))
           /\ a.dry <=> m.dry \/ \E i \in DOMAIN b.list :
                                    Contains(b.list[i].pkts, p)
  BY <1>0, NoRoomStep
<1>2. Behind(a.list, a.LastIndSeq)
  BY <1>1 DEF Advance
<1> DEFINE d == InOrder(a)
<1>3. PICK k \in 0 .. Len(a.list) : Advance(a, d, k) /\ Quiet(d)
  BY <1>1, <1>2, InOrderIs
<1> HIDE DEF d
<1>4. /\ d \in Session /\ Behind(d.list, d.LastIndSeq) /\ Quiet(d)
      /\ ~d.spoilt /\ d.REC_BA_Status = "Established" /\ d.CurMpdu = Nothing
  BY <1>0, <1>1, <1>3 DEF Advance, SameRest
<1> DEFINE e == Case(d, "WITHIN")
<1>5. /\ e \in Session /\ e.list = d.list /\ e.LastIndSeq = d.LastIndSeq
      /\ e.CurMpdu = d.CurMpdu /\ e.REC_BA_Status = d.REC_BA_Status
      /\ e.spoilt = d.spoilt /\ e.PreviousReorderCase = "WITHIN"
  BY <1>0, <1>4, CaseIs
<1> HIDE DEF e
<1>6. Placed(e, p)
  BY <1>4, <1>5 DEF Placed, Quiet
<1> QED
  BY <1>1, <1>6 DEF e, d

-----------------------------------------------------------------------------
(***************************************************************************)
(* The handlers keep Good.                                                 *)
(***************************************************************************)
LEMMA PlacePlaced ==
  ASSUME NEW b, NEW p \in MSDUs, Ready(b, SN(p)), ~Surpasses(b, SN(p)),
         NEW room \in BOOLEAN
  PROVE  Placed(Place(b, p, room), p)
<1> DEFINE s == SN(p)
           L == b.LastIndSeq
<1>0. /\ b \in Session /\ s \in SeqNums /\ L \in SeqNums
      /\ Cases = {"STEP_ONE", "REPEAT", "OLDPKT", "WITHIN"}
  BY MsduHas, SessionIs DEF Ready, Cases
<1>1. /\ s = Wrap(L + 1) <=> Dist(s, L) = 1
      /\ s = L <=> Dist(s, L) = 0
      /\ Old(b, s) <=> Dist(s, L) >= Half
      /\ Dist(s, L) \in Nat /\ ~(BAWinSize < Dist(s, L) /\ Dist(s, L) < Half)
  BY <1>0, NextIs, DistZero, SmallerIs, DistNat, SurpassesIs DEF Old
<1>2. ASSUME NEW x \in Cases, x # "STEP_ONE"
      PROVE  Placed(Case(b, x), p)
  <2> DEFINE e == Case(b, x)
  <2>1. /\ e \in Session /\ e.list = b.list /\ e.LastIndSeq = L
        /\ e.CurMpdu = b.CurMpdu /\ e.REC_BA_Status = b.REC_BA_Status
        /\ e.spoilt = b.spoilt /\ e.PreviousReorderCase = x
    BY <1>0, CaseIs
  <2> HIDE DEF e
  <2>2. Placed(e, p)
    BY <1>2, <2>1 DEF Ready, Placed, Quiet, Buffered, LeftBehind
  <2> QED
    BY <2>2 DEF e
<1>3. CASE Dist(s, L) = 1
  <2>1. s = Wrap(L + 1) /\ s # L /\ ~Old(b, s)
    BY <1>1, <1>3, Space
  <2>2. Place(b, p, room) = Case(InOrderStep(b, p), "STEP_ONE")
    BY <2>1 DEF Place
  <2> QED
    BY <2>1, <2>2, StepOnePlaced
<1>4. CASE Dist(s, L) = 0
  <2>1. s # Wrap(L + 1) /\ s = L /\ ~Old(b, s)
    BY <1>1, <1>4, Space
  <2>2. Place(b, p, room) = Case(b, "REPEAT")
    BY <2>1 DEF Place
  <2> QED
    BY <1>0, <1>2, <2>2
<1>5. CASE Dist(s, L) >= Half
  <2>1. s # Wrap(L + 1) /\ s # L /\ Old(b, s)
    BY <1>1, <1>5, Space
  <2>2. Place(b, p, room) = Case(b, "OLDPKT")
    BY <2>1 DEF Place
  <2> QED
    BY <1>0, <1>2, <2>2
<1>6. CASE Dist(s, L) \in 2 .. BAWinSize
  <2>1. s # Wrap(L + 1) /\ s # L /\ ~Old(b, s)
    BY <1>1, <1>6, Space
  <2>2. Place(b, p, room) = Case(Enqueue(b, p, room), "WITHIN")
    BY <2>1 DEF Place
  <2>3. CASE room = FALSE
    BY <1>6, <2>2, <2>3, NoRoomPlaced
  <2>4. CASE room = TRUE /\ b.CurMpdu = Nothing
    <3>1. Enqueue(b, p, room) = Insert(b, p)
      BY <2>4 DEF Enqueue
    <3> QED
      BY <1>6, <2>2, <3>1, InsertPlaced
  <2>5. CASE room = TRUE /\ b.CurMpdu # Nothing
    <3>1. Enqueue(b, p, room) = AppendToCur(b, p)
      BY <2>5 DEF Enqueue
    <3> QED
      BY <1>6, <2>2, <2>5, <3>1, AppendPlaced
  <2> QED
    BY <2>3, <2>4, <2>5
<1>7. Dist(s, L) = 0 \/ Dist(s, L) = 1 \/ Dist(s, L) \in 2 .. BAWinSize
      \/ Dist(s, L) >= Half
  BY <1>1, Space
<1> QED
  BY <1>3, <1>4, <1>5, <1>6, <1>7

LEMMA CheckPlaced ==
  ASSUME NEW b, NEW p \in MSDUs, Ready(b, SN(p)), NEW room \in BOOLEAN
  PROVE  Placed(Check(b, p, room), p)
<1>1. SN(p) \in SeqNums
  BY MsduHas
<1>2. CASE ~Surpasses(b, SN(p))
  BY <1>2, PlacePlaced DEF Check
<1>3. CASE Surpasses(b, SN(p))
  <2> DEFINE c == Shift(b, Wrap(SN(p) - BAWinSize))
  <2>1. Ready(c, SN(p)) /\ Dist(SN(p), c.LastIndSeq) \in 1 .. BAWinSize
    BY <1>1, <1>3, CheckShift
  <2>2. Check(b, p, room) = Place(c, p, room)
    BY <1>3 DEF Check
  <2> HIDE DEF c
  <2>3. ~Surpasses(c, SN(p))
    <3>1. c \in Session
      BY <2>1 DEF Ready
    <3> QED
      BY <1>1, <2>1, <3>1, SurpassesIs, Space
  <2> QED
    BY <2>1, <2>2, <2>3, PlacePlaced
<1> QED
  BY <1>2, <1>3

\* The assignments at the end of ba_reorder.
Finished(d, p) ==
  [d EXCEPT !.PreviousAmsduState = AmsduState(p), !.PreviousSN = SN(p),
            !.CurMpdu = IF Complete(p) THEN Nothing ELSE @]

LEMMA FinishedIs ==
  ASSUME NEW d \in Session, NEW p \in MSDUs
  PROVE  LET e == Finished(d, p) IN
         /\ e \in Session /\ e.list = d.list /\ e.LastIndSeq = d.LastIndSeq
         /\ e.CurMpdu = IF Complete(p) THEN Nothing ELSE d.CurMpdu
         /\ e.PreviousAmsduState = AmsduState(p) /\ e.PreviousSN = SN(p)
         /\ e.PreviousReorderCase = d.PreviousReorderCase
         /\ e.REC_BA_Status = d.REC_BA_Status /\ e.spoilt = d.spoilt
         /\ e.top = d.top /\ e.late = d.late /\ e.pulled = d.pulled
         /\ e.dry = d.dry /\ e.age = d.age
<1> DEFINE a == AmsduState(p)
           s == SN(p)
           m == IF Complete(p) THEN Nothing ELSE d.CurMpdu
           e == [d EXCEPT !.PreviousAmsduState = a, !.PreviousSN = s, !.CurMpdu = m]
<1>1. a \in States /\ s \in SeqNums /\ m \in SeqNums \cup {Nothing}
  BY MsduHas DEF Session
<1>2. Finished(d, p) = e
  BY DEF Finished
<1> HIDE DEF a, s, m
<1>3. /\ e \in Session /\ e.list = d.list /\ e.LastIndSeq = d.LastIndSeq
      /\ e.CurMpdu = m
      /\ e.PreviousAmsduState = a /\ e.PreviousSN = s
      /\ e.PreviousReorderCase = d.PreviousReorderCase
      /\ e.REC_BA_Status = d.REC_BA_Status /\ e.spoilt = d.spoilt
      /\ e.top = d.top /\ e.late = d.late /\ e.pulled = d.pulled
      /\ e.dry = d.dry /\ e.age = d.age
  BY <1>1 DEF Session
<1> HIDE DEF e
<1> QED
  BY <1>2, <1>3 DEF a, s, m

LEMMA FinishedGood ==
  ASSUME NEW d, NEW p \in MSDUs, Placed(d, p)
  PROVE  Good(Finished(d, p))
<1> DEFINE e == Finished(d, p)
<1>0. d \in Session
  BY DEF Placed
<1>1. /\ e \in Session /\ e.list = d.list /\ e.LastIndSeq = d.LastIndSeq
      /\ e.CurMpdu = IF Complete(p) THEN Nothing ELSE d.CurMpdu
      /\ e.PreviousAmsduState = AmsduState(p) /\ e.PreviousSN = SN(p)
      /\ e.PreviousReorderCase = d.PreviousReorderCase
      /\ e.REC_BA_Status = d.REC_BA_Status /\ e.spoilt = d.spoilt
  BY <1>0, FinishedIs
<1>2. ~Complete(p) <=> AmsduState(p) \in Partial
  BY MsduHas
<1> HIDE DEF e
<1>3. CurOK(e)
  BY <1>1, <1>2 DEF CurOK, Placed, Buffered, LeftBehind
<1>4. PullOK(e)
  BY <1>1, <1>2 DEF PullOK, Started, Placed
<1>5. NewOK(e) /\ Quiet(e) /\ ~e.spoilt /\ Behind(e.list, e.LastIndSeq)
  BY <1>1 DEF NewOK, Quiet, Placed
<1>6. Good(e)
  BY <1>1, <1>3, <1>4, <1>5 DEF Good, Sound
<1> QED
  BY <1>6 DEF e

\* What ba_reorder makes of the session before it looks at its state.
Kept(b, p) ==
  LET sane == amsdu_sanity(b, SN(p), AmsduState(p)) IN
  IF Complete(p) \/ AmsduMiss(b, SN(p), AmsduState(p))
    THEN FlushTimeout(sane) ELSE sane

LEMMA ReorderIs ==
  ASSUME NEW b, NEW p, NEW room
  PROVE  ba_reorder(b, p, room)
           = Finished(Check(Initialized(Kept(b, p), p), p, room), p)
BY DEF ba_reorder, Kept, Finished

LEMMA KeptGood ==
  ASSUME NEW b, Good(b), NEW p \in MSDUs
  PROVE  /\ Good(Kept(b, p))
         /\ Kept(b, p).CurMpdu # Nothing => Kept(b, p).CurMpdu = SN(p)
<1> DEFINE sane == amsdu_sanity(b, SN(p), AmsduState(p))
<1>1. /\ Good(sane)
      /\ ~AmsduMiss(b, SN(p), AmsduState(p)) => sane = b
      /\ AmsduMiss(b, SN(p), AmsduState(p)) => sane.CurMpdu = Nothing
  BY SanityGood
<1>2. b.CurMpdu # Nothing =>
        b.CurMpdu = b.PreviousSN /\ b.PreviousAmsduState \in Partial
  BY DEF Good, Sound, CurOK
<1>3. sane.CurMpdu # Nothing => sane.CurMpdu = SN(p)
  <2> SUFFICES ASSUME sane.CurMpdu # Nothing PROVE sane.CurMpdu = SN(p)
    OBVIOUS
  <2>1. ~AmsduMiss(b, SN(p), AmsduState(p)) /\ sane = b
    BY <1>1
  <2> HIDE DEF sane
  <2> QED
    BY <1>2, <2>1 DEF AmsduMiss, Partial
<1> HIDE DEF sane
<1>4. CASE Complete(p) \/ AmsduMiss(b, SN(p), AmsduState(p))
  <2>1. Kept(b, p) = FlushTimeout(sane)
    BY <1>4 DEF Kept, sane
  <2>2. Good(FlushTimeout(sane)) /\ FlushTimeout(sane).CurMpdu \in {sane.CurMpdu, Nothing}
    BY <1>1, FlushTimeoutGood
  <2> QED
    BY <1>3, <2>1, <2>2
<1>5. CASE ~(Complete(p) \/ AmsduMiss(b, SN(p), AmsduState(p)))
  <2>1. Kept(b, p) = sane
    BY <1>5 DEF Kept, sane
  <2> QED
    BY <1>1, <1>3, <2>1
<1> QED
  BY <1>4, <1>5

LEMMA ReorderGood ==
  ASSUME NEW b, Good(b), NEW p \in MSDUs, NEW room \in BOOLEAN
  PROVE  Good(ba_reorder(b, p, room))
<1> DEFINE k == Kept(b, p)
           i == Initialized(k, p)
           d == Check(i, p, room)
<1>1. Good(k) /\ (k.CurMpdu # Nothing => k.CurMpdu = SN(p))
  BY KeptGood
<1> HIDE DEF k
<1>2. Ready(i, SN(p))
  BY <1>1, InitializedReady
<1> HIDE DEF i
<1>3. Placed(d, p)
  BY <1>2, CheckPlaced
<1> HIDE DEF d
<1>4. Good(Finished(d, p))
  BY <1>3, FinishedGood
<1> QED
  BY <1>4, ReorderIs DEF d, i, k

\* Without a current block, the window may go on beyond the blocks.
LEMMA AdvanceNone ==
  ASSUME NEW b, Sound(b), b.CurMpdu = Nothing,
         NEW m, NEW q, Advance(b, m, q), Quiet(m)
  PROVE  Good(m)
<1>1. b.list \in Seq(Block) /\ b.PreviousSN \in SeqNums /\ b \in Session
  BY SoundIs
<1>2. m \in Session /\ SameRest(b, m) /\ Behind(m.list, m.LastIndSeq)
  BY DEF Advance
<1>3. PICK k \in 0 .. Len(b.list) : m.list = SubSeq(b.list, k + 1, Len(b.list))
  BY DEF Advance
<1>4. CurOK(m)
  BY <1>2 DEF SameRest, CurOK
<1>5. PullOK(m)
  <2>1. Started(m) => Started(b) /\ m.PreviousSN = b.PreviousSN
    BY <1>2 DEF SameRest, Started
  <2>2. Started(b) => Behind(b.list, b.PreviousSN)
    BY DEF Sound, PullOK
  <2> QED
    BY <1>1, <1>3, <2>1, <2>2, BehindRest DEF PullOK
<1>6. NewOK(m)
  <2> SUFFICES ASSUME m.REC_BA_Status = "Initialization"
               PROVE  m.list = <<>> /\ m.CurMpdu = Nothing
    BY DEF NewOK
  <2>1. b.list = <<>> /\ m.CurMpdu = b.CurMpdu
    BY <1>2 DEF SameRest, Sound, NewOK
  <2>2. k = 0 /\ m.list = b.list
    BY <1>1, <1>3, <2>1, RestFacts
  <2> QED
    BY <2>1, <2>2
<1>7. ~m.spoilt
  BY <1>2 DEF SameRest, Sound
<1> QED
  BY <1>2, <1>4, <1>5, <1>6, <1>7 DEF Good, Sound

\* A block-ack request that moves the window.
LEMMA BarStep ==
  ASSUME NEW b \in Session, Behind(b.list, b.LastIndSeq),
         NEW seq \in SeqNums, SEQ_SMALLER(b.LastIndSeq, seq)
  PROVE  \E q \in Nat :
           /\ Advance(b, Shift(b, Wrap(seq - 1)), q)
           /\ Quiet(Shift(b, Wrap(seq - 1))) /\ Shift(b, Wrap(seq - 1)).age = 0
           /\ q + 1 >= Dist(seq, b.LastIndSeq)
           /\ \/ q + 1 = Dist(seq, b.LastIndSeq)
              \/ \E i \in 1 .. Len(b.list) :
                   Dist(b.list[i].Sequence, b.LastIndSeq) = q
<1> DEFINE L == b.LastIndSeq
           t == Wrap(seq - 1)
           d == Dist(seq, L)
<1>0. L \in SeqNums
  BY SessionIs
<1>1. Dist(L, seq) >= Half /\ Dist(L, seq) \in Nat
  BY <1>0, SmallerIs, DistNat
<1>2. d = SeqSpace - Dist(L, seq) /\ d \in Nat
  <2>1. L # seq
    BY <1>0, <1>1, DistZero, Space
  <2> QED
    BY <1>0, <2>1, DistZero, DistNat
<1>3. d >= 1 /\ d <= Half + 1
  <2>1. Dist(L, seq) < SeqSpace
    BY <1>0, DistNat
  <2> HIDE DEF d
  <2> QED
    BY <1>1, <1>2, <2>1, Space
<1>4. t \in SeqNums /\ Dist(t, L) = d - 1
  <2>1. 1 \in SeqNums /\ seq \in Int /\ 0 <= seq /\ seq < SeqSpace
        /\ SeqSpace \in Nat /\ SeqSpace > 2
    BY Space DEF SeqNums
  <2>2. t \in SeqNums /\ t = IF seq >= 1 THEN seq - 1 ELSE seq - 1 + SeqSpace
    BY <2>1, WrapIs
  <2> HIDE DEF t
  <2>3. Dist(seq, t) = 1
    <3>1. Dist(seq, t) = IF t <= seq THEN seq - t ELSE seq - t + SeqSpace
      BY <2>2, DistIs
    <3> QED
      BY <2>1, <2>2, <3>1
  <2>4. Dist(t, L) \in Nat /\ Dist(t, L) < SeqSpace
    BY <1>0, <2>2, DistNat
  <2>5. Dist(seq, L) = IF Dist(seq, t) + Dist(t, L) < SeqSpace
                       THEN Dist(seq, t) + Dist(t, L)
                       ELSE Dist(seq, t) + Dist(t, L) - SeqSpace
    BY <1>0, <2>2, DistSum, ZenonT(40)
  <2> QED
    BY <1>3, <2>1, <2>2, <2>3, <2>4, <2>5
<1> HIDE DEF t, d
<1>5. PICK r \in 0 .. BAWinSize :
           /\ Advance(b, Shift(b, t), Dist(t, L) + r)
           /\ Quiet(Shift(b, t)) /\ Shift(b, t).age = 0
           /\ \/ r = 0
              \/ \E i \in 1 .. Len(b.list) :
                   Dist(b.list[i].Sequence, L) = Dist(t, L) + r
  <2>1. Dist(t, L) <= Half
    BY <1>2, <1>3, <1>4, Space
  <2> QED
    BY <1>4, <2>1, ShiftIs
<1> DEFINE q == Dist(t, L) + r
<1>6. q \in Nat /\ q + 1 >= d /\ (r = 0 => q + 1 = d)
  BY <1>2, <1>3, <1>4, Space
<1> QED
  BY <1>5, <1>6 DEF t, d

LEMMA BarGood ==
  ASSUME NEW b, Good(b), NEW seq \in SeqNums
  PROVE  Good(bar_process(b, seq))
<1> DEFINE c == amsdu_sanity(b, seq, "FIRST")
<1>1. /\ Good(c)
      /\ ~AmsduMiss(b, seq, "FIRST") => c = b
      /\ AmsduMiss(b, seq, "FIRST") => c.CurMpdu = Nothing
  BY SanityGood
<1>2. c.CurMpdu = Nothing
  <2>1. ~AmsduMiss(b, seq, "FIRST") => b.PreviousAmsduState \notin Partial
    BY DEF AmsduMiss, Partial
  <2>2. b.PreviousAmsduState \notin Partial => b.CurMpdu = Nothing
    BY DEF Good, Sound, CurOK
  <2> HIDE DEF c
  <2> QED
    BY <1>1, <2>1, <2>2
<1>3. bar_process(b, seq) = IF SEQ_SMALLER(c.LastIndSeq, seq)
                              THEN Shift(c, Wrap(seq - 1)) ELSE c
  BY DEF bar_process
<1> HIDE DEF c
<1>4. c \in Session /\ Behind(c.list, c.LastIndSeq) /\ Sound(c)
  BY <1>1, SoundIs DEF Good
<1>5. CASE SEQ_SMALLER(c.LastIndSeq, seq)
  <2> DEFINE d == Shift(c, Wrap(seq - 1))
  <2>1. PICK q \in Nat : Advance(c, d, q) /\ Quiet(d)
    BY <1>4, <1>5, BarStep
  <2>2. Good(d)
    BY <1>2, <1>4, <2>1, AdvanceNone
  <2> QED
    BY <1>3, <1>5, <2>2
<1>6. CASE ~SEQ_SMALLER(c.LastIndSeq, seq)
  BY <1>1, <1>3, <1>6
<1> QED
  BY <1>5, <1>6

-----------------------------------------------------------------------------
(***************************************************************************)
(* Types, the window, nothing ready that waits, no write to a freed block. *)
(***************************************************************************)
\* The types of the other variables.
Others ==
  /\ due \in [check : BOOLEAN, bit : BOOLEAN]
  /\ air \in MSDUs \cup {Nothing}
  /\ wo \in MPDUs /\ renewals \in 0 .. MaxRenewals
  /\ heard \in [newest : 0 .. Len(Msdus), lapped : BOOLEAN]
\* The inductive invariant of the types and of all but delivery in order.
IInv == Good(ba) /\ Others

LEMMA MpdusAre ==
  /\ Len(Msdus) \in Nat /\ Len(Msdus) >= 1 /\ MPDUs = 1 .. Len(Msdus)
  /\ \A n \in MPDUs : n \in Nat /\ n >= 1 /\ Msdus[n] \in Nat /\ Msdus[n] >= 1
  /\ MaxRenewals \in Nat
<1>1. Len(Msdus) \in Nat /\ Len(Msdus) >= 1
  BY MsduAssumption
<1> QED
  BY <1>1, MsduAssumption DEF MPDUs

LEMMA InitInv ==
  ASSUME Init
  PROVE  IInv
<1> DEFINE L == (StartSeq - 1) % SeqSpace
<1>1. L \in SeqNums
  BY Space DEF SeqNums
<1>2. 0 \in SeqNums /\ [n |-> 0, k |-> 0] \in [n : Nat, k : Nat]
      /\ <<>> \in Seq(Block) /\ 0 \in 0 .. 2
      /\ "Initialization" \in {"Initialization", "Established"}
      /\ "MSDU" \in States /\ "STEP_ONE" \in Cases
  BY Space DEF SeqNums, States, Cases
<1>3. /\ ba \in Session /\ ba.list = <<>> /\ ba.CurMpdu = Nothing
      /\ ba.spoilt = FALSE
  <2> DEFINE z == 0
             t == [n |-> 0, k |-> 0]
             e == <<>>
             u == "MSDU"
             c == "STEP_ONE"
  <2>1. ba = [REC_BA_Status |-> "Initialization", LastIndSeq |-> L,
           list |-> e, CurMpdu |-> Nothing, age |-> z,
           PreviousAmsduState |-> u, PreviousSN |-> z,
           PreviousReorderCase |-> c, top |-> t,
           late |-> FALSE, pulled |-> FALSE, dry |-> FALSE, spoilt |-> FALSE]
    BY DEF Init
  <2>2. z \in SeqNums /\ z \in 0 .. 2 /\ t \in [n : Nat, k : Nat]
        /\ e \in Seq(Block) /\ u \in States /\ c \in Cases
    BY <1>2
  <2> HIDE DEF z, t, L, e, u, c
  <2>3. /\ ba \in Session /\ ba.list = e /\ ba.CurMpdu = Nothing
        /\ ba.spoilt = FALSE
    BY <1>1, <2>1, <2>2 DEF Session
  <2> QED
    BY <2>3 DEF e
<1>4. Good(ba)
  BY <1>3 DEF Good, Sound, Behind, Quiet, CurOK, PullOK, NewOK
<1>5. Others
  <2>1. 1 \in MPDUs /\ 0 \in 0 .. MaxRenewals /\ 0 \in 0 .. Len(Msdus)
    BY MpdusAre
  <2> QED
    BY <2>1 DEF Init, Others
<1> QED
  BY <1>4, <1>5 DEF IInv

LEMMA FollowingIs ==
  ASSUME NEW n \in MPDUs, NEW k \in 1 .. Msdus[n]
  PROVE  LET p == [n |-> n, k |-> k] IN
         /\ p \in MSDUs /\ Following(p) \in MSDUs \cup {Nothing}
         /\ Following(p) # Nothing => Following(p) = [n |-> n, k |-> k + 1]
<1> DEFINE p == [n |-> n, k |-> k]
<1>1. p \in MSDUs /\ p.n = n /\ p.k = k
  BY MsduIs
<1>2. CASE k = Msdus[n]
  BY <1>1, <1>2 DEF Following
<1>3. CASE k # Msdus[n]
  <2>1. k + 1 \in 1 .. Msdus[n] /\ k \in Nat
    BY <1>3, MpdusAre
  <2>2. Following(p) = [p EXCEPT !.k = k + 1]
    BY <1>1, <1>3 DEF Following
  <2>3. [p EXCEPT !.k = k + 1] = [n |-> n, k |-> k + 1]
    OBVIOUS
  <2>4. [n |-> n, k |-> k + 1] \in MSDUs
    BY <2>1, MsduIs
  <2> QED
    BY <1>1, <2>2, <2>3, <2>4
<1> QED
  BY <1>2, <1>3

LEMMA TickGood ==
  ASSUME NEW b, Good(b), b.age < 2
  PROVE  Good([b EXCEPT !.age = @ + 1])
<1> DEFINE a == b.age + 1
           c == [b EXCEPT !.age = a]
<1>1. b \in Session /\ a \in 0 .. 2
  BY SessionIs DEF Good, Sound
<1> HIDE DEF a
<1>2. /\ c \in Session /\ c.list = b.list /\ c.LastIndSeq = b.LastIndSeq
      /\ c.CurMpdu = b.CurMpdu /\ c.PreviousSN = b.PreviousSN
      /\ c.PreviousAmsduState = b.PreviousAmsduState
      /\ c.PreviousReorderCase = b.PreviousReorderCase
      /\ c.REC_BA_Status = b.REC_BA_Status /\ c.spoilt = b.spoilt
  BY <1>1 DEF Session
<1> HIDE DEF c
<1>3. Good(c)
  BY <1>2 DEF Good, Sound, Quiet, CurOK, PullOK, NewOK, Started, Buffered, LeftBehind
<1> QED
  BY <1>3 DEF c, a

\* What ba_rec_session_add makes of the session.
Renewed(b, s) ==
  [Refresh(b) EXCEPT !.REC_BA_Status = "Initialization", !.LastIndSeq = s]

LEMMA RenewedIs ==
  ASSUME NEW b, Good(b), NEW s \in SeqNums
  PROVE  LET c == Renewed(b, s)
         IN \E m : \E q \in 0 .. BAWinSize :
              /\ Advance(b, m, q) /\ Within(b, q)
              /\ c \in Session /\ c.list = <<>> /\ c.CurMpdu = Nothing
              /\ ~c.spoilt /\ c.REC_BA_Status = "Initialization"
              /\ c.LastIndSeq = s /\ c.top = m.top /\ c.late = m.late
              /\ c.pulled = b.pulled /\ c.dry = b.dry
<1>0. b \in Session /\ Behind(b.list, b.LastIndSeq) /\ b.age \in 0 .. 2
  BY SessionIs DEF Good, Sound
<1>1. PICK m : \E q \in 0 .. BAWinSize :
        /\ Advance(b, m, q) /\ Within(b, q) /\ m.list = <<>>
        /\ [Refresh(b) EXCEPT !.age = b.age] = Forgotten(m)
  BY <1>0, RefreshIs
<1> DEFINE r == Refresh(b)
           f == Forgotten(m)
           x == "Initialization"
           c == [f EXCEPT !.REC_BA_Status = x, !.LastIndSeq = s]
<1>2. m \in Session /\ ~m.spoilt /\ m.pulled = b.pulled /\ m.dry = b.dry
  BY <1>1 DEF Advance, SameRest, Good, Sound
<1>3. f \in Session /\ f.list = <<>> /\ f.CurMpdu = Nothing /\ ~f.spoilt
      /\ f.top = m.top /\ f.late = m.late
      /\ f.pulled = m.pulled /\ f.dry = m.dry
  BY <1>1, <1>2, ForgottenIs
<1>4. r = f
  <2>1. b.age = r.age
    <3> DEFINE k == Len(b.list)
               rest == SubSeq(b.list, k + 1, k)
    <3>1. PICK top \in [n : Nat, k : Nat], late \in BOOLEAN :
            Release(b, k) = [b EXCEPT !.list = rest, !.top = top, !.late = late]
      <4>1. k \in 0 .. Len(b.list)
        BY <1>0, SessionIs
      <4> QED
        BY <1>0, <4>1, ReleaseIs
    <3> HIDE DEF rest, k
    <3>2. Release(b, k).age = b.age
      BY <1>0, <3>1 DEF Session
    <3> HIDE DEF r
    <3> QED
      BY <3>2 DEF Refresh, k, r
  <2>2. [r EXCEPT !.age = r.age] = r
    BY DEF Refresh
  <2> HIDE DEF r, f
  <2> QED
    BY <1>1, <2>1, <2>2 DEF r, f
<1>5. x \in {"Initialization", "Established"}
  OBVIOUS
<1> HIDE DEF f, r
<1>6. /\ c \in Session /\ c.list = f.list /\ c.CurMpdu = f.CurMpdu
      /\ c.spoilt = f.spoilt /\ c.REC_BA_Status = x
      /\ c.LastIndSeq = s /\ c.top = f.top /\ c.late = f.late
      /\ c.pulled = f.pulled /\ c.dry = f.dry
  BY <1>3, <1>5 DEF Session
<1>7. /\ c \in Session /\ c.list = <<>> /\ c.CurMpdu = Nothing
      /\ ~c.spoilt /\ c.REC_BA_Status = "Initialization"
      /\ c.LastIndSeq = s /\ c.top = m.top /\ c.late = m.late
      /\ c.pulled = b.pulled /\ c.dry = b.dry
  BY <1>2, <1>3, <1>6
<1> HIDE DEF c
<1> QED
  BY <1>1, <1>4, <1>7 DEF c, r, Renewed

LEMMA RenewedGood ==
  ASSUME NEW b, Good(b), NEW s \in SeqNums
  PROVE  Good(Renewed(b, s))
<1> DEFINE c == Renewed(b, s)
<1>1. /\ c \in Session /\ c.list = <<>> /\ c.CurMpdu = Nothing /\ ~c.spoilt
  BY RenewedIs
<1> HIDE DEF c
<1>2. Good(c)
  BY <1>1 DEF Good, Sound, Behind, Quiet, CurOK, PullOK, NewOK
<1> QED
  BY <1>2 DEF c

LEMMA HearType ==
  ASSUME heard \in [newest : 0 .. Len(Msdus), lapped : BOOLEAN],
         NEW n \in 0 .. Len(Msdus), Hear(n)
  PROVE  heard' \in [newest : 0 .. Len(Msdus), lapped : BOOLEAN]
<1> DEFINE x == IF n > heard.newest THEN n ELSE heard.newest
           y == heard.lapped \/ n >= heard.newest - BAWinSize + SeqSpace \div 2
<1>1. x \in 0 .. Len(Msdus) /\ y \in BOOLEAN
  OBVIOUS
<1>2. heard' = [newest |-> x, lapped |-> y]
  BY DEF Hear
<1> HIDE DEF x, y
<1> QED
  BY <1>1, <1>2

LEMMA NextInv ==
  ASSUME IInv, [Next]_vars
  PROVE  IInv'
<1>0. Good(ba) /\ Others /\ ba \in Session
  BY DEF IInv, Good, Sound
<1> SUFFICES Good(ba') /\ Others'
  BY DEF IInv, Good, Sound, Session, Block, Behind, Dist, CurOK, PullOK, NewOK,
         Quiet, Started, Buffered, LeftBehind
<1>1. ASSUME NEW n \in MPDUs, NEW k \in 1 .. Msdus[n],
             Receive([n |-> n, k |-> k])
      PROVE  Good(ba') /\ Others'
  <2> DEFINE p == [n |-> n, k |-> k]
  <2>1. p \in MSDUs /\ Following(p) \in MSDUs \cup {Nothing} /\ p.n = n
    BY FollowingIs
  <2>2. PICK room \in BOOLEAN : ba' = ba_reorder(ba, p, room)
    BY <1>1 DEF Receive
  <2>3. Good(ba')
    <3> HIDE DEF p
    <3> QED
      BY <1>0, <2>1, <2>2, ReorderGood
  <2>4. Others'
    <3>1. air' = Following(p) /\ Hear(n) /\ UNCHANGED <<due, wo, renewals>>
      BY <1>1, <2>1 DEF Receive
    <3>2. n \in 0 .. Len(Msdus)
      BY MpdusAre
    <3>3. heard' \in [newest : 0 .. Len(Msdus), lapped : BOOLEAN]
      BY <1>0, <3>1, <3>2, HearType DEF Others
    <3> HIDE DEF p
    <3> QED
      BY <1>0, <2>1, <3>1, <3>3 DEF Others
  <2> QED
    BY <2>3, <2>4
<1>2. CASE ReceiveBAR
  <2>1. wo \in Int /\ wo - 1 \in 0 .. Len(Msdus) /\ StartSeq + wo - 1 \in Int
    BY <1>0, MpdusAre, Space DEF Others, SeqNums
  <2>2. Wrap(StartSeq + wo - 1) \in SeqNums
    BY <2>1, WrapIs
  <2>3. Good(ba')
    BY <1>0, <1>2, <2>2, BarGood DEF ReceiveBAR
  <2>4. heard' \in [newest : 0 .. Len(Msdus), lapped : BOOLEAN]
    BY <1>0, <1>2, <2>1, HearType DEF Others, ReceiveBAR
  <2> QED
    BY <1>0, <1>2, <2>3, <2>4 DEF Others, ReceiveBAR
<1>3. CASE ba_timeout_monitor
  BY <1>0, <1>3 DEF Others, ba_timeout_monitor
<1>4. CASE ba_timeout_flush
  <2>1. Good(FlushTimeout(ba))
    BY <1>0, FlushTimeoutGood
  <2> QED
    BY <1>0, <1>4, <2>1 DEF Others, ba_timeout_flush, CheckDone
<1>5. CASE ba_rec_session_add
  <2>1. wo \in Int /\ wo' = wo + BAWinSize /\ wo' \in MPDUs
        /\ wo' - 1 \in 0 .. Len(Msdus)
        /\ StartSeq + wo' - 2 \in Int /\ renewals + 1 \in 0 .. MaxRenewals
    <3>1. wo \in 1 .. Len(Msdus) /\ renewals \in 0 .. MaxRenewals
      BY <1>0, MpdusAre DEF Others
    <3>2. /\ wo' = wo + BAWinSize /\ wo + BAWinSize <= Len(Msdus)
          /\ renewals < MaxRenewals
      BY <1>5 DEF ba_rec_session_add
    <3>3. StartSeq \in Int /\ BAWinSize \in Nat
      BY Space DEF SeqNums
    <3> QED
      BY <3>1, <3>2, <3>3, MpdusAre
  <2>2. Wrap(StartSeq + wo' - 2) \in SeqNums
    BY <2>1, WrapIs
  <2>3. Good(ba')
    BY <1>0, <1>5, <2>2, RenewedGood DEF ba_rec_session_add, Renewed
  <2>4. heard' \in [newest : 0 .. Len(Msdus), lapped : BOOLEAN]
    BY <1>0, <1>5, <2>1 DEF Others, ba_rec_session_add
  <2> QED
    BY <1>0, <1>5, <2>1, <2>3, <2>4 DEF Others, ba_rec_session_add
<1>6. CASE LoseRest
  BY <1>0, <1>6 DEF Others, LoseRest
<1>7. CASE SlideWindow
  <2>1. wo + 1 \in MPDUs
    BY <1>0, <1>7, MpdusAre DEF Others, SlideWindow
  <2> QED
    BY <1>0, <1>7, <2>1 DEF Others, SlideWindow
<1>8. CASE Tick
  BY <1>0, <1>8, TickGood DEF Others, Tick
<1>9. CASE UNCHANGED vars
  BY <1>0, <1>9 DEF Others, vars
<1> QED
  BY <1>1, <1>2, <1>3, <1>4, <1>5, <1>6, <1>7, <1>8, <1>9 DEF Next

LEMMA GoodAlways == Spec => []IInv
BY InitInv, NextInv, PTL DEF Spec

LEMMA IInvType == IInv => TypeOK
<1> SUFFICES ASSUME IInv PROVE TypeOK
  OBVIOUS
<1>1. ba \in Session /\ Others
  BY DEF IInv, Good, Sound
<1>2. ASSUME NEW i \in DOMAIN ba.list
      PROVE  BlockOK(ba.list[i])
  <2>1. ba.list[i] \in Block
    BY <1>1 DEF Session
  <2> QED
    BY <2>1 DEF Block, BlockOK, ToSet
<1> QED
  BY <1>1, <1>2 DEF Session, Others, TypeOK

\* Every variable keeps its type; sequence numbers stay below SeqSpace
\* however often they wrap.
THEOREM TypeCorrect == Spec => []TypeOK
BY GoodAlways, IInvType, PTL

\* Reordering buffer: what is buffered lies in the window behind LastIndSeq,
\* ascending, so the assertion on qlen in ba_enqueue_reordering_packet holds,
\* also where amsdu_sanity has set LastIndSeq back.
THEOREM WindowAlwaysHeld == Spec => []WindowHeld
<1>1. ASSUME IInv PROVE WindowHeld
  <2>1. ba.list \in Seq(Block) /\ ba.LastIndSeq \in SeqNums
        /\ Behind(ba.list, ba.LastIndSeq)
    BY <1>1, SoundIs DEF IInv, Good
  <2>2. Len(ba.list) <= BAWinSize
    BY <2>1, BehindLen
  <2> QED
    BY <2>1, <2>2 DEF WindowHeld, Offset, Behind, Dist
<1> QED
  BY <1>1, GoodAlways, PTL

\* Reordering buffer: every path that moves LastIndSeq also releases what now
\* follows it; no block whose turn it is stays behind.
THEOREM NothingReadyEverWaits == Spec => []NothingReadyWaits
<1>1. ASSUME IInv PROVE NothingReadyWaits
  BY <1>1 DEF IInv, Good, Quiet, NothingReadyWaits
<1> QED
  BY <1>1, GoodAlways, PTL

\* Reordering buffer: CurMpdu never leads ba_enqueue_reordering_packet to a
\* block that a flush, a block-ack request, a renewal or a moved window has
\* given back to the pool.
THEOREM NeverWritesToFreed == Spec => []NoWriteToFreed
<1>1. ASSUME IInv PROVE NoWriteToFreed
  BY <1>1 DEF IInv, Good, Sound, NoWriteToFreed
<1> QED
  BY <1>1, GoodAlways, PTL

-----------------------------------------------------------------------------
(***************************************************************************)
(* Delivery in order.  l is the MPDU at LastIndSeq; Below, Tops and Known  *)
(* say how an MSDU fits what is held and was announced; Fits is what the   *)
(* check needs (Enter), Leave what it leaves.                              *)
(***************************************************************************)
\* What is held, and the start of the window, belong to MPDUs up to M, and
\* nothing has been late.
Below(b, l, M) ==
  /\ Held(b, l) /\ ~b.late /\ l <= M
  /\ \A i \in DOMAIN b.list : Number(b, l, i) <= M

\* p comes after what was announced last.
Tops(b, l, p) ==
  \/ b.top.n <= l
  \/ b.top.n = l + 1 /\ p.n = l + 1 /\ p.k = b.top.k + 1

\* The MSDUs of p's MPDU before p have been announced or are held.
Known(b, l, p) ==
  \/ p.k = 1 \/ p.n <= l
  \/ p.n = l + 1 /\ b.top.n = l + 1
  \/ \E i \in DOMAIN b.list : Number(b, l, i) = p.n

LEMMA NumberIs ==
  ASSUME NEW b \in Session, Behind(b.list, b.LastIndSeq), NEW l \in Nat,
         NEW i \in DOMAIN b.list
  PROVE  /\ Number(b, l, i) = l + Dist(b.list[i].Sequence, b.LastIndSeq)
         /\ Number(b, l, i) \in Nat /\ Number(b, l, i) >= l + 1
         /\ Number(b, l, i) <= l + BAWinSize
         /\ Quiet(b) => Number(b, l, i) >= l + 2
<1>1. /\ Dist(b.list[i].Sequence, b.LastIndSeq) \in 1 .. BAWinSize
      /\ b.list[i].Sequence \in SeqNums /\ b.LastIndSeq \in SeqNums
  BY SessionIs DEF Behind
<1>2. Quiet(b) => Dist(b.list[i].Sequence, b.LastIndSeq) # 1
  BY <1>1, NextIs DEF Quiet
<1> QED
  BY <1>1, <1>2, Space DEF Number

LEMMA NewerIs ==
  ASSUME NEW b \in Session, Behind(b.list, b.LastIndSeq), NEW l \in Nat,
         b.top.n <= l \/ (b.top.n <= l + 1 /\ Quiet(b))
  PROVE  Newer(b, l)
<1> SUFFICES ASSUME NEW i \in DOMAIN b.list
             PROVE  b.top.n < Number(b, l, i)
  BY DEF Newer
<1>1. b.top.n \in Nat
  BY SessionIs
<1>2. /\ Number(b, l, i) \in Nat /\ Number(b, l, i) >= l + 1
      /\ Quiet(b) => Number(b, l, i) >= l + 2
  BY NumberIs
<1> QED
  BY <1>1, <1>2

\* The blocks not passed stay, with their numbers.
LEMMA AdvanceNumber ==
  ASSUME NEW b \in Session, Behind(b.list, b.LastIndSeq), NEW l \in Nat,
         NEW c, NEW q \in Nat, Advance(b, c, q)
  PROVE  /\ \A i \in DOMAIN c.list : \E j \in DOMAIN b.list :
              c.list[i] = b.list[j] /\ Number(c, l + q, i) = Number(b, l, j)
         /\ \A j \in DOMAIN b.list : Number(b, l, j) > l + q =>
              \E i \in DOMAIN c.list :
                c.list[i] = b.list[j] /\ Number(c, l + q, i) = Number(b, l, j)
<1> DEFINE D(i) == Dist(b.list[i].Sequence, b.LastIndSeq)
           E(i) == Dist(c.list[i].Sequence, c.LastIndSeq)
           rest(k) == SubSeq(b.list, k + 1, Len(b.list))
<1>0. /\ b.list \in Seq(Block) /\ b.LastIndSeq \in SeqNums
      /\ DOMAIN b.list = 1 .. Len(b.list) /\ Len(b.list) \in Nat
      /\ c.LastIndSeq \in SeqNums /\ DOMAIN c.list = 1 .. Len(c.list)
      /\ Len(c.list) \in Nat /\ Dist(c.LastIndSeq, b.LastIndSeq) = q
  <2>1. c \in Session /\ Dist(c.LastIndSeq, b.LastIndSeq) = q
    BY DEF Advance
  <2> QED
    BY <2>1, SessionIs
<1>1. PICK k \in 0 .. Len(b.list) : c.list = rest(k) /\ Passed(b, k, q)
  BY DEF Advance
<1>2. /\ \A i \in 1 .. k : D(i) <= q
      /\ \A i \in k + 1 .. Len(b.list) : D(i) > q
  BY <1>1 DEF Passed
<1>3. /\ Len(c.list) = Len(b.list) - k
      /\ \A i \in 1 .. Len(b.list) - k : c.list[i] = b.list[i + k]
  <2>1. /\ Len(rest(k)) = Len(b.list) - k
        /\ \A i \in 1 .. Len(b.list) - k : rest(k)[i] = b.list[i + k]
    BY <1>0, RestFacts
  <2> HIDE DEF rest
  <2> QED
    BY <1>1, <2>1
<1>4. \A i \in 1 .. Len(b.list) - k : E(i) = D(i + k) - q
  <2>1. \A i \in k + 1 .. Len(b.list) :
          Dist(b.list[i].Sequence, b.LastIndSeq) > Dist(c.LastIndSeq, b.LastIndSeq)
    BY <1>0, <1>2
  <2>2. \A i \in 1 .. Len(b.list) - k :
          Dist(rest(k)[i].Sequence, c.LastIndSeq)
            = Dist(b.list[i + k].Sequence, b.LastIndSeq) - Dist(c.LastIndSeq, b.LastIndSeq)
    BY <1>0, <2>1, BehindMove
  <2> HIDE DEF rest
  <2> QED
    BY <1>0, <1>1, <2>2
<1>5. \A j \in 1 .. Len(b.list) : D(j) \in Nat /\ Number(b, l, j) = l + D(j)
  <2>1. \A j \in 1 .. Len(b.list) : D(j) \in 1 .. BAWinSize
    BY <1>0 DEF Behind
  <2> QED
    BY <2>1, Space DEF Number
<1>6. \A i : Number(c, l + q, i) = l + q + E(i)
  BY DEF Number
<1> HIDE DEF D, E, rest
<1>7. ASSUME NEW i \in 1 .. Len(c.list)
      PROVE  /\ i + k \in 1 .. Len(b.list) /\ c.list[i] = b.list[i + k]
             /\ Number(c, l + q, i) = Number(b, l, i + k)
  <2>1. i \in 1 .. Len(b.list) - k /\ i + k \in 1 .. Len(b.list)
    BY <1>0, <1>3
  <2>2. D(i + k) \in Nat /\ Number(b, l, i + k) = l + D(i + k)
        /\ E(i) = D(i + k) - q /\ Number(c, l + q, i) = l + q + E(i)
    BY <1>4, <1>5, <1>6, <2>1
  <2> QED
    BY <1>3, <2>1, <2>2
<1>8. ASSUME NEW j \in 1 .. Len(b.list), Number(b, l, j) > l + q
      PROVE  \E i \in 1 .. Len(c.list) :
                c.list[i] = b.list[j] /\ Number(c, l + q, i) = Number(b, l, j)
  <2>1. ~(j \in 1 .. k)
    BY <1>2, <1>5, <1>8
  <2>2. j - k \in 1 .. Len(c.list) /\ (j - k) + k = j
    BY <1>0, <1>3, <2>1
  <2> QED
    BY <1>7, <2>2
<1> QED
  BY <1>0, <1>7, <1>8

LEMMA WithinBelow ==
  ASSUME NEW b \in Session, Behind(b.list, b.LastIndSeq),
         NEW l \in Nat, NEW M \in Nat, Below(b, l, M),
         NEW q \in Nat, Within(b, q)
  PROVE  l + q <= M
<1>1. CASE q = 0
  BY <1>1 DEF Below
<1>2. CASE q # 0
  <2>1. PICK i \in 1 .. Len(b.list) : q <= Dist(b.list[i].Sequence, b.LastIndSeq)
    BY <1>2 DEF Within
  <2>2. i \in DOMAIN b.list
    BY SessionIs
  <2>3. Number(b, l, i) = l + Dist(b.list[i].Sequence, b.LastIndSeq)
        /\ Number(b, l, i) <= M /\ Dist(b.list[i].Sequence, b.LastIndSeq) \in 1 .. BAWinSize
    BY <2>2, NumberIs DEF Below, Behind
  <2> QED
    BY <2>1, <2>3, Space
<1> QED
  BY <1>1, <1>2

LEMMA AdvanceBelow ==
  ASSUME NEW b \in Session, Behind(b.list, b.LastIndSeq),
         NEW l \in Nat, NEW M \in Nat, Below(b, l, M), Newer(b, l),
         NEW c, NEW q \in Nat, Advance(b, c, q), l + q <= M
  PROVE  Below(c, l + q, M) /\ Newer(c, l + q) /\ Announced(b, c, l, q)
<1>1. Held(b, l) /\ ~b.late
  BY DEF Below
<1>2. Held(c, l + q) /\ Newer(c, l + q) /\ c.late = b.late /\ Announced(b, c, l, q)
  BY <1>1 DEF Advance
<1>3. ASSUME NEW i \in DOMAIN c.list
      PROVE  Number(c, l + q, i) <= M
  <2>1. PICK j \in DOMAIN b.list : Number(c, l + q, i) = Number(b, l, j)
    BY AdvanceNumber
  <2> QED
    BY <2>1 DEF Below
<1> QED
  BY <1>1, <1>2, <1>3 DEF Below

LEMMA AnnouncedTop ==
  ASSUME NEW b \in Session, Behind(b.list, b.LastIndSeq), NEW l \in Nat,
         NEW c, NEW q \in Nat, Announced(b, c, l, q)
  PROVE  c.top = b.top \/ (q >= 1 /\ c.top.n <= l + q)
<1> SUFFICES ASSUME c.top # b.top PROVE q >= 1 /\ c.top.n <= l + q
  OBVIOUS
<1>1. PICK i \in 1 .. Len(b.list) :
       /\ Dist(b.list[i].Sequence, b.LastIndSeq) <= q
       /\ c.top = [n |-> Number(b, l, i), k |-> Len(b.list[i].pkts)]
  BY DEF Announced
<1>2. i \in DOMAIN b.list
  BY SessionIs
<1>3. /\ Number(b, l, i) = l + Dist(b.list[i].Sequence, b.LastIndSeq)
      /\ Dist(b.list[i].Sequence, b.LastIndSeq) \in 1 .. BAWinSize
  BY <1>2, NumberIs DEF Behind
<1> QED
  BY <1>1, <1>3, Space

LEMMA AdvanceTops ==
  ASSUME NEW b \in Session, Behind(b.list, b.LastIndSeq), NEW l \in Nat,
         NEW c, NEW q \in Nat, Announced(b, c, l, q),
         NEW p, Tops(b, l, p)
  PROVE  Tops(c, l + q, p)
<1>1. c.top = b.top \/ (q >= 1 /\ c.top.n <= l + q)
  BY AnnouncedTop
<1>2. b.top.n \in Nat
  BY SessionIs
<1>3. CASE b.top.n <= l
  BY <1>1, <1>2, <1>3 DEF Tops
<1>4. CASE b.top.n = l + 1 /\ p.n = l + 1 /\ p.k = b.top.k + 1
  <2>1. CASE q = 0
    BY <1>1, <1>4, <2>1 DEF Tops
  <2>2. CASE q # 0
    BY <1>1, <1>4, <2>2 DEF Tops
  <2> QED
    BY <2>1, <2>2
<1> QED
  BY <1>3, <1>4 DEF Tops

LEMMA AdvanceKnown ==
  ASSUME NEW b \in Session, Behind(b.list, b.LastIndSeq), NEW l \in Nat,
         NEW c, NEW q \in Nat, Advance(b, c, q), Announced(b, c, l, q),
         NEW p \in MSDUs, Known(b, l, p)
  PROVE  Known(c, l + q, p)
<1>0. p.n \in Nat /\ p.k \in Nat
  BY MsduHas
<1>1. CASE p.k = 1 \/ p.n <= l
  BY <1>0, <1>1 DEF Known
<1>2. CASE p.n = l + 1 /\ b.top.n = l + 1
  <2>1. CASE q = 0
    <3>1. c.top = b.top
      BY <2>1, AnnouncedTop
    <3> QED
      BY <1>2, <2>1, <3>1 DEF Known
  <2>2. CASE q # 0
    BY <1>2, <2>2 DEF Known
  <2> QED
    BY <2>1, <2>2
<1>3. ASSUME NEW j \in DOMAIN b.list, Number(b, l, j) = p.n
      PROVE  Known(c, l + q, p)
  <2>1. CASE p.n <= l + q
    BY <2>1 DEF Known
  <2>2. CASE ~(p.n <= l + q)
    <3>1. Number(b, l, j) > l + q
      BY <1>0, <1>3, <2>2
    <3>2. \E i \in DOMAIN c.list : Number(c, l + q, i) = Number(b, l, j)
      BY <3>1, AdvanceNumber
    <3> QED
      BY <1>3, <3>2 DEF Known
  <2> QED
    BY <2>1, <2>2
<1> QED
  BY <1>1, <1>2, <1>3 DEF Known

\* Appending to the block of CurMpdu continues it.
CurFits(b, p) ==
  \A i \in DOMAIN b.list :
    b.list[i].Sequence = b.CurMpdu => p.k = Len(b.list[i].pkts) + 1

\* p fits what b holds and has announced; M is the newest MPDU with p, O
\* the newest one before it.
Fits(b, l, M, O, p) ==
  /\ Below(b, l, M) /\ Newer(b, l)
  /\ Tops(b, l, p) /\ Known(b, l, p) /\ CurFits(b, p)
  /\ p.n <= M /\ O <= l + BAWinSize
  /\ l < p.n + BAWinSize /\ p.n < l + Half

\* What the check of an MSDU finds.
Enter(b, l, M, O, p) == Ready(b, SN(p)) /\ Fits(b, l, M, O, p)

\* What it leaves.
Leave(d, l, M, O, p) ==
  /\ Below(d, l, M) /\ p.n <= l + BAWinSize /\ O <= l + BAWinSize
  /\ \/ d.top.n <= l
     \/ /\ ~Complete(p) /\ d.PreviousReorderCase = "STEP_ONE"
        /\ p.n = l + 1 /\ d.top = p
  /\ d.PreviousReorderCase = "STEP_ONE" =>
       O < p.n + BAWinSize /\ p.n <= l + 1
  /\ \/ p.n <= l
     \/ p.n = l + 1 /\ d.top.n = l + 1
     \/ \E i \in DOMAIN d.list : Number(d, l, i) = p.n
  /\ ~Complete(p) =>
       \A i \in DOMAIN d.list : d.list[i].Sequence = d.CurMpdu =>
         Number(d, l, i) = p.n /\ Len(d.list[i].pkts) = p.k

LEMMA BelowSame ==
  ASSUME NEW b, NEW c, c.list = b.list, c.LastIndSeq = b.LastIndSeq,
         NEW l, NEW M
  PROVE  /\ \A i : Number(c, l, i) = Number(b, l, i)
         /\ Below(b, l, M) /\ ~c.late => Below(c, l, M)
<1>1. \A i : Number(c, l, i) = Number(b, l, i)
  BY DEF Number
<1>2. Held(b, l) => Held(c, l)
  BY <1>1 DEF Held
<1> QED
  BY <1>1, <1>2 DEF Below

LEMMA EnterIs ==
  ASSUME NEW b, NEW l \in Nat, NEW M \in Nat, NEW O \in Nat, NEW p \in MSDUs,
         Enter(b, l, M, O, p)
  PROVE  /\ b \in Session /\ Behind(b.list, b.LastIndSeq) /\ Quiet(b)
         /\ SN(p) \in SeqNums /\ b.LastIndSeq \in SeqNums
         /\ p.n \in Nat /\ p.k \in Nat /\ p.n >= 1 /\ p.k >= 1
         /\ SN(p) = Num(p.n)
BY MsduHas, SessionIs DEF Enter, Fits, Ready

LEMMA EnterNum ==
  ASSUME NEW b, NEW l \in Nat, NEW M \in Nat, NEW O \in Nat, NEW p \in MSDUs,
         Enter(b, l, M, O, p)
  PROVE  /\ p.n >= l => Dist(SN(p), b.LastIndSeq) = p.n - l
         /\ p.n < l => Dist(SN(p), b.LastIndSeq) >= Half
<1>1. p.n \in Nat /\ SN(p) = Num(p.n)
  BY EnterIs
<1>2. b.LastIndSeq = Num(l) /\ l < p.n + BAWinSize /\ p.n < l + Half
  BY DEF Enter, Fits, Below, Held
<1>3. p.n >= l => Dist(SN(p), b.LastIndSeq) = p.n - l
  <2>1. p.n >= l => 0 <= p.n - l /\ p.n - l < SeqSpace
    BY <1>1, <1>2, Space
  <2> QED
    BY <1>1, <1>2, <2>1, NumDist
<1>4. p.n < l => Dist(SN(p), b.LastIndSeq) = p.n - l + SeqSpace
  <2>1. p.n < l => -SeqSpace <= p.n - l /\ p.n - l < 0
    BY <1>1, <1>2, Space
  <2> QED
    BY <1>1, <1>2, <2>1, NumDist
<1>5. p.n < l => Dist(SN(p), b.LastIndSeq) >= Half
  BY <1>1, <1>2, <1>4, Space
<1> QED
  BY <1>3, <1>5

LEMMA EnterTop ==
  ASSUME NEW b, NEW l \in Nat, NEW M \in Nat, NEW O \in Nat, NEW p \in MSDUs,
         Enter(b, l, M, O, p)
  PROVE  /\ p.n # l + 1 => b.top.n <= l
         /\ ~(p.n \in l + 2 .. l + BAWinSize) =>
              \A i \in DOMAIN b.list : b.list[i].Sequence # b.CurMpdu
<1>1. /\ b \in Session /\ Behind(b.list, b.LastIndSeq) /\ Quiet(b)
      /\ SN(p) \in SeqNums /\ b.LastIndSeq \in SeqNums /\ p.n \in Nat
  BY EnterIs
<1>2. p.n # l + 1 => b.top.n <= l
  BY DEF Enter, Fits, Tops
<1>3. /\ p.n >= l => Dist(SN(p), b.LastIndSeq) = p.n - l
      /\ p.n < l => Dist(SN(p), b.LastIndSeq) >= Half
  BY EnterNum
<1>4. ASSUME ~(p.n \in l + 2 .. l + BAWinSize),
             NEW i \in DOMAIN b.list, b.list[i].Sequence = b.CurMpdu
      PROVE  FALSE
  <2>1. b.list[i].Sequence \in SeqNums
    BY <1>1, SessionIs
  <2>2. b.list[i].Sequence = SN(p)
    BY <1>4, <2>1, NothingAssumption DEF Enter, Fits, Ready
  <2>3. Dist(SN(p), b.LastIndSeq) \in 1 .. BAWinSize /\ Dist(SN(p), b.LastIndSeq) # 1
    BY <1>1, <2>1, <2>2, NextIs DEF Behind, Quiet
  <2> QED
    BY <1>1, <1>3, <1>4, <2>3, Space
<1> QED
  BY <1>2, <1>4

LEMMA EnterDist ==
  ASSUME NEW b, NEW l \in Nat, NEW M \in Nat, NEW O \in Nat, NEW p \in MSDUs,
         Enter(b, l, M, O, p)
  PROVE  /\ SN(p) = Wrap(b.LastIndSeq + 1) <=> p.n = l + 1
         /\ SN(p) = b.LastIndSeq <=> p.n = l
         /\ Old(b, SN(p)) <=> p.n < l
         /\ p.n \in l + 1 .. l + BAWinSize
              <=> Dist(SN(p), b.LastIndSeq) \in 1 .. BAWinSize
         /\ p.n \in l .. l + BAWinSize => Dist(SN(p), b.LastIndSeq) = p.n - l
<1> DEFINE D == Dist(SN(p), b.LastIndSeq)
<1>1. /\ SN(p) \in SeqNums /\ b.LastIndSeq \in SeqNums /\ p.n \in Nat
      /\ p.n >= l => D = p.n - l
      /\ p.n < l => D >= Half
  BY EnterIs, EnterNum
<1>2. /\ SN(p) = Wrap(b.LastIndSeq + 1) <=> D = 1
      /\ SN(p) = b.LastIndSeq <=> D = 0
      /\ Old(b, SN(p)) <=> D >= Half
      /\ D \in Nat
  BY <1>1, NextIs, DistZero, SmallerIs, DistNat DEF Old
<1>3. p.n < l + Half
  BY DEF Enter, Fits
<1> HIDE DEF D
<1>4. D = 1 <=> p.n = l + 1
  BY <1>1, <1>2, <1>3, Space
<1>5. D = 0 <=> p.n = l
  BY <1>1, <1>2, <1>3, Space
<1>6. D >= Half <=> p.n < l
  BY <1>1, <1>2, <1>3, Space
<1>7. /\ p.n \in l + 1 .. l + BAWinSize <=> D \in 1 .. BAWinSize
      /\ p.n \in l .. l + BAWinSize => D = p.n - l
  BY <1>1, <1>2, <1>3, Space
<1> QED
  BY <1>2, <1>4, <1>5, <1>6, <1>7 DEF D

LEMMA StayLeave ==
  ASSUME NEW b, NEW l \in Nat, NEW M \in Nat, NEW O \in Nat, NEW p \in MSDUs,
         Enter(b, l, M, O, p), p.n <= l, NEW x \in Cases, x # "STEP_ONE"
  PROVE  Leave(Case(b, x), l, M, O, p)
<1> DEFINE d == Case(b, x)
<1>0. /\ b \in Session /\ p.n \in Nat /\ b.top.n <= l
      /\ \A i \in DOMAIN b.list : b.list[i].Sequence # b.CurMpdu
  <2>1. p.n \in Nat
    BY EnterIs
  <2>2. p.n # l + 1 /\ ~(p.n \in l + 2 .. l + BAWinSize)
    BY <2>1
  <2>3. b \in Session
    BY EnterIs
  <2>4. b.top.n <= l
    BY <2>2, EnterTop
  <2>5. \A i \in DOMAIN b.list : b.list[i].Sequence # b.CurMpdu
    BY <2>2, EnterTop
  <2> QED
    BY <2>1, <2>3, <2>4, <2>5
<1>1. /\ d.list = b.list /\ d.LastIndSeq = b.LastIndSeq /\ d.late = b.late
      /\ d.PreviousReorderCase = x /\ d.CurMpdu = b.CurMpdu /\ d.top = b.top
  BY <1>0, CaseIs
<1> HIDE DEF d
<1>2. Below(b, l, M) /\ O <= l + BAWinSize /\ ~b.late
  BY DEF Enter, Fits, Below
<1>3. Below(d, l, M)
  BY <1>1, <1>2, BelowSame
<1>4. p.n <= l + BAWinSize
  BY <1>0, Space
<1>5. Leave(d, l, M, O, p)
  BY <1>0, <1>1, <1>2, <1>3, <1>4 DEF Leave
<1> QED
  BY <1>5 DEF d

LEMMA TopBefore ==
  ASSUME NEW b, NEW l \in Nat, NEW M \in Nat, NEW O \in Nat, NEW p \in MSDUs,
         Enter(b, l, M, O, p), p.n > l
  PROVE  Before(b.top, p)
<1>1. p.n \in Nat /\ b.top \in [n : Nat, k : Nat]
  <2>1. p.n \in Nat /\ b \in Session
    BY EnterIs
  <2> QED
    BY <2>1 DEF Session
<1>2. CASE b.top.n <= l
  BY <1>1, <1>2 DEF Before
<1>3. CASE b.top.n = l + 1 /\ p.n = l + 1 /\ p.k = b.top.k + 1
  BY <1>1, <1>3 DEF Before
<1> QED
  BY <1>2, <1>3 DEF Enter, Fits, Tops

\* InOrder keeps the order.
LEMMA InOrderBelow ==
  ASSUME NEW b \in Session, Behind(b.list, b.LastIndSeq),
         NEW l \in Nat, NEW M \in Nat, Below(b, l, M), b.top.n <= l
  PROVE  \E k \in Nat : /\ Advance(b, InOrder(b), k)
                        /\ Below(InOrder(b), l + k, M)
                        /\ InOrder(b).top.n <= l + k
<1> DEFINE d == InOrder(b)
<1>1. PICK k \in 0 .. Len(b.list) :
        /\ Advance(b, d, k)
        /\ \A i \in 1 .. k : Dist(b.list[i].Sequence, b.LastIndSeq) = i
  BY InOrderIs
<1> HIDE DEF d
<1>2. k \in Nat /\ Within(b, k)
  BY <1>1, InOrderWithin, SessionIs
<1>3. l + k <= M
  BY <1>2, WithinBelow
<1>4. Newer(b, l)
  BY NewerIs
<1>5. Below(d, l + k, M) /\ Announced(b, d, l, k)
  BY <1>1, <1>2, <1>3, <1>4, AdvanceBelow
<1>6. d.top = b.top \/ (k >= 1 /\ d.top.n <= l + k)
  BY <1>2, <1>5, AnnouncedTop
<1>7. d.top.n <= l + k
  <2>1. b.top.n \in Nat
    BY SessionIs
  <2> QED
    BY <1>2, <1>6, <2>1
<1> QED
  BY <1>1, <1>2, <1>5, <1>7 DEF d

LEMMA StepOneLeave ==
  ASSUME NEW b, NEW l \in Nat, NEW M \in Nat, NEW O \in Nat, NEW p \in MSDUs,
         Enter(b, l, M, O, p), p.n = l + 1
  PROVE  \E m \in Nat : Leave(Case(InOrderStep(b, p), "STEP_ONE"), m, M, O, p)
<1> DEFINE s == SN(p)
           L == b.LastIndSeq
           a == Announce(b, <<p>>)
           c == [a EXCEPT !.LastIndSeq = s, !.age = 0]
<1>0. /\ b \in Session /\ Behind(b.list, L) /\ Quiet(b) /\ "STEP_ONE" \in Cases
      /\ s \in SeqNums /\ L \in SeqNums /\ Dist(s, L) = 1
      /\ DOMAIN b.list = 1 .. Len(b.list)
      /\ Below(b, l, M) /\ Held(b, l) /\ ~b.late
      /\ p.n <= M /\ O <= l + BAWinSize
  <2>1. p.n >= l /\ p.n - l = 1
    OBVIOUS
  <2>2. /\ b \in Session /\ Behind(b.list, L) /\ Quiet(b)
        /\ s \in SeqNums /\ L \in SeqNums
    BY EnterIs
  <2>3. /\ Below(b, l, M) /\ Held(b, l) /\ ~b.late
        /\ p.n <= M /\ O <= l + BAWinSize
    BY DEF Enter, Fits, Below
  <2>4. DOMAIN b.list = 1 .. Len(b.list)
    BY <2>2, SessionIs
  <2>5. Dist(s, L) = 1
    <3>1. p.n \in l .. l + BAWinSize
      BY <2>1, Space
    <3>2. p.n \in l .. l + BAWinSize => Dist(SN(p), b.LastIndSeq) = p.n - l
      BY EnterDist
    <3> QED
      BY <2>1, <3>1, <3>2
  <2>6. "STEP_ONE" \in Cases
    BY DEF Cases
  <2> QED
    BY <2>2, <2>3, <2>4, <2>5, <2>6
<1>1. Before(b.top, p)
  BY TopBefore
<1>2. /\ a \in Session /\ SameRest(b, a) /\ ~a.late /\ a.top = p
      /\ a.list = b.list /\ a.LastIndSeq = b.LastIndSeq
  BY <1>0, <1>1, AnnounceOne
<1>3. CASE Complete(p)
  <2>1. /\ c \in Session /\ SameRest(a, c) /\ c.list = a.list
        /\ c.LastIndSeq = s /\ c.top = a.top /\ c.late = a.late
    <3> HIDE DEF a
    <3> QED
      BY <1>0, <1>2, GoToIs, ZenonT(40)
  <2>2. InOrderStep(b, p) = InOrder(c)
    BY <1>3 DEF InOrderStep
  <2> HIDE DEF c, a
  <2>3. Behind(b.list, s) /\ \A i \in 1 .. Len(b.list) :
              Dist(b.list[i].Sequence, s) = Dist(b.list[i].Sequence, L) - 1
    BY <1>0, BehindNext
  <2>4. Below(c, l + 1, M)
    <3>1. \A i \in DOMAIN b.list : Number(c, l + 1, i) = Number(b, l, i)
      <4> TAKE i \in DOMAIN b.list
      <4>1. Number(c, l + 1, i) = l + 1 + (Dist(b.list[i].Sequence, L) - 1)
        BY <1>0, <1>2, <2>1, <2>3 DEF Number
      <4>2. Number(b, l, i) = l + Dist(b.list[i].Sequence, L)
            /\ Dist(b.list[i].Sequence, L) \in 1 .. BAWinSize
        BY <1>0 DEF Number, Behind
      <4> QED
        BY <4>1, <4>2, Space
    <3>2. s = Num(l + 1)
      BY MsduHas
    <3> QED
      BY <1>0, <1>2, <2>1, <3>1, <3>2 DEF Below, Held
  <2>5. c.top.n <= l + 1 /\ l + 1 \in Nat
    BY <1>2, <2>1
  <2>6. c \in Session /\ Behind(c.list, c.LastIndSeq)
    BY <1>2, <2>1, <2>3
  <2> DEFINE d == InOrder(c)
  <2>7. PICK k \in Nat : /\ Advance(c, d, k) /\ Below(d, (l + 1) + k, M)
                         /\ d.top.n <= (l + 1) + k
    BY <2>4, <2>5, <2>6, InOrderBelow
  <2> HIDE DEF d
  <2> DEFINE e == Case(d, "STEP_ONE")
             m == (l + 1) + k
  <2>8. /\ e.list = d.list /\ e.LastIndSeq = d.LastIndSeq /\ e.late = d.late
        /\ e.top = d.top
    <3>1. d \in Session
      BY <2>7 DEF Advance
    <3> QED
      BY <1>0, <3>1, CaseIs
  <2> HIDE DEF e
  <2>9. Below(e, m, M)
    <3>1. ~e.late
      BY <2>7, <2>8 DEF Below
    <3> QED
      BY <2>7, <2>8, <3>1, BelowSame
  <2>10. m \in Nat /\ p.n <= m /\ p.n <= m + BAWinSize /\ O <= m + BAWinSize
         /\ O < p.n + BAWinSize /\ p.n <= m + 1
    BY <1>0, Space
  <2>11. Leave(e, m, M, O, p)
    BY <1>3, <2>7, <2>8, <2>9, <2>10 DEF Leave
  <2> QED
    BY <2>2, <2>10, <2>11 DEF e, d
<1>4. CASE ~Complete(p)
  <2>1. InOrderStep(b, p) = a
    BY <1>4 DEF InOrderStep
  <2> HIDE DEF a
  <2> DEFINE e == Case(a, "STEP_ONE")
  <2>2. /\ e.list = b.list /\ e.LastIndSeq = b.LastIndSeq /\ ~e.late
        /\ e.top = p /\ e.CurMpdu = b.CurMpdu
        /\ e.PreviousReorderCase = "STEP_ONE"
    BY <1>0, <1>2, CaseIs DEF SameRest
  <2> HIDE DEF e
  <2>3. Below(e, l, M)
    BY <1>0, <2>2, BelowSame
  <2>4. \A i \in DOMAIN e.list : e.list[i].Sequence # e.CurMpdu
    <3>1. ~(p.n \in l + 2 .. l + BAWinSize)
      OBVIOUS
    <3>2. \A i \in DOMAIN b.list : b.list[i].Sequence # b.CurMpdu
      BY <3>1, EnterTop
    <3> QED
      BY <2>2, <3>2
  <2>5. p.n <= l + BAWinSize /\ O < p.n + BAWinSize /\ p.n <= l + 1
    BY <1>0, Space
  <2>6. Leave(e, l, M, O, p)
    BY <1>0, <1>4, <2>2, <2>3, <2>4, <2>5 DEF Leave
  <2> QED
    BY <2>1, <2>6 DEF e
<1> QED
  BY <1>3, <1>4

\* The window may go on as long as it does not go past the newest MPDU.
LEMMA AdvanceFits ==
  ASSUME NEW b \in Session, Behind(b.list, b.LastIndSeq),
         NEW l \in Nat, NEW M \in Nat, NEW O \in Nat, NEW p \in MSDUs,
         Fits(b, l, M, O, p),
         NEW c, NEW q \in Nat, Advance(b, c, q),
         l + q <= M, l + q < p.n + BAWinSize
  PROVE  Fits(c, l + q, M, O, p) /\ Fits(Forgotten(c), l + q, M, O, p)
<1>0. /\ Below(b, l, M) /\ Newer(b, l) /\ Tops(b, l, p) /\ Known(b, l, p)
      /\ CurFits(b, p) /\ p.n <= M /\ O <= l + BAWinSize /\ p.n < l + Half
  BY DEF Fits
<1>1. Below(c, l + q, M) /\ Newer(c, l + q) /\ Announced(b, c, l, q)
  BY <1>0, AdvanceBelow
<1>2. Tops(c, l + q, p) /\ Known(c, l + q, p)
  BY <1>0, <1>1, AdvanceTops, AdvanceKnown
<1>3. CurFits(c, p)
  <2>1. c.CurMpdu = b.CurMpdu
    BY DEF Advance, SameRest
  <2>2. \A i \in DOMAIN c.list : \E j \in DOMAIN b.list : c.list[i] = b.list[j]
    BY AdvanceNumber
  <2> QED
    BY <1>0, <2>1, <2>2 DEF CurFits
<1>4. O <= l + q + BAWinSize /\ p.n < l + q + Half
  <2>1. p.n \in Nat
    BY MsduHas
  <2> QED
    BY <1>0, <2>1, Space
<1>5. Fits(c, l + q, M, O, p)
  BY <1>0, <1>1, <1>2, <1>3, <1>4 DEF Fits
<1> DEFINE f == Forgotten(c)
<1>6. /\ c \in Session /\ f.list = c.list /\ f.LastIndSeq = c.LastIndSeq
      /\ f.top = c.top /\ f.late = c.late /\ f.CurMpdu = Nothing
  <2>1. c \in Session
    BY DEF Advance
  <2> QED
    BY <2>1, ForgottenIs
<1> HIDE DEF f
<1>7. \A i \in DOMAIN c.list : c.list[i].Sequence # Nothing
  BY <1>6, SessionIs, NothingAssumption
<1>8. Fits(f, l + q, M, O, p)
  <2> DEFINE m == l + q
  <2>0. Below(c, m, M) /\ ~f.late
    BY <1>1, <1>6 DEF Below
  <2> HIDE DEF m
  <2>1a. Below(f, m, M) /\ \A i : Number(f, m, i) = Number(c, m, i)
    BY <1>6, <2>0, BelowSame
  <2>1. Below(f, l + q, M) /\ \A i : Number(f, l + q, i) = Number(c, l + q, i)
    BY <2>1a DEF m
  <2>2. /\ Newer(f, l + q) /\ Tops(f, l + q, p) /\ Known(f, l + q, p)
        /\ CurFits(f, p)
    BY <1>1, <1>2, <1>6, <1>7, <2>1 DEF Newer, Tops, Known, CurFits
  <2> QED
    BY <1>5, <2>1, <2>2 DEF Fits
<1> QED
  BY <1>5, <1>8 DEF f

\* The block of a sequence number of the window has the number of its MPDU.
LEMMA NumberOf ==
  ASSUME NEW b, NEW l \in Nat, NEW M \in Nat, NEW O \in Nat, NEW p \in MSDUs,
         Enter(b, l, M, O, p), p.n \in l + 1 .. l + BAWinSize
  PROVE  \A i \in DOMAIN b.list :
           b.list[i].Sequence = SN(p) <=> Number(b, l, i) = p.n
<1> SUFFICES ASSUME NEW i \in DOMAIN b.list
             PROVE  b.list[i].Sequence = SN(p) <=> Number(b, l, i) = p.n
  OBVIOUS
<1>1. /\ b \in Session /\ SN(p) \in SeqNums /\ b.LastIndSeq \in SeqNums
      /\ p.n \in Nat
  BY EnterIs
<1>2. Dist(SN(p), b.LastIndSeq) = p.n - l
  <2>1. p.n \in l .. l + BAWinSize
    BY <1>1
  <2>2. p.n \in l .. l + BAWinSize => Dist(SN(p), b.LastIndSeq) = p.n - l
    BY EnterDist
  <2> QED
    BY <2>1, <2>2
<1>3. b.list[i].Sequence \in SeqNums
  BY <1>1, SessionIs
<1> DEFINE s == b.list[i].Sequence
           L == b.LastIndSeq
<1>4. /\ Dist(s, L) \in Nat
      /\ Wrap(L + Dist(s, L)) = s /\ Wrap(L + Dist(SN(p), L)) = SN(p)
  BY <1>1, <1>3, DistNat, DistZero
<1>5. Dist(s, L) = Dist(SN(p), L) <=> s = SN(p)
  BY <1>4
<1>6. Number(b, l, i) = l + Dist(s, L)
  BY DEF Number
<1> HIDE DEF s, L
<1>7. Dist(SN(p), L) = p.n - l
  BY <1>2 DEF L
<1>8. Number(b, l, i) = p.n <=> Dist(s, L) = Dist(SN(p), L)
  BY <1>1, <1>4, <1>6, <1>7
<1> QED
  BY <1>5, <1>8 DEF s

\* What all the ways to keep an MSDU within the window leave.
LEMMA WithinLeave ==
  ASSUME NEW b, NEW l \in Nat, NEW M \in Nat, NEW O \in Nat, NEW p \in MSDUs,
         Enter(b, l, M, O, p), p.n \in l + 2 .. l + BAWinSize,
         NEW c \in Session, Below(c, l, M), c.top = b.top,
         \E i \in DOMAIN c.list : Number(c, l, i) = p.n,
         \A i \in DOMAIN c.list : c.list[i].Sequence = c.CurMpdu =>
           Number(c, l, i) = p.n /\ Len(c.list[i].pkts) = p.k
  PROVE  Leave(Case(c, "WITHIN"), l, M, O, p)
<1> DEFINE e == Case(c, "WITHIN")
<1>1. /\ e.list = c.list /\ e.LastIndSeq = c.LastIndSeq /\ e.late = c.late
      /\ e.top = b.top /\ e.CurMpdu = c.CurMpdu
      /\ e.PreviousReorderCase = "WITHIN"
  <2>1. "WITHIN" \in Cases
    BY DEF Cases
  <2> QED
    BY <2>1, CaseIs
<1> HIDE DEF e
<1>2. Below(e, l, M) /\ \A i : Number(e, l, i) = Number(c, l, i)
  BY <1>1, BelowSame DEF Below
<1>3. b.top.n <= l /\ O <= l + BAWinSize /\ p.n <= l + BAWinSize
  <2>1. p.n # l + 1
    BY Space
  <2>2. b.top.n <= l
    BY <2>1 DEF Enter, Fits, Tops
  <2> QED
    BY <2>2 DEF Enter, Fits
<1>4. Leave(e, l, M, O, p)
  BY <1>1, <1>2, <1>3 DEF Leave
<1> QED
  BY <1>4 DEF e

LEMMA AppendLeave ==
  ASSUME NEW b, NEW l \in Nat, NEW M \in Nat, NEW O \in Nat, NEW p \in MSDUs,
         Enter(b, l, M, O, p), p.n \in l + 2 .. l + BAWinSize,
         b.CurMpdu # Nothing, Buffered(b, b.CurMpdu)
  PROVE  Leave(Case(AppendToCur(b, p), "WITHIN"), l, M, O, p)
<1> DEFINE c == AppendToCur(b, p)
<1>0. /\ b \in Session /\ b.CurMpdu = SN(p) /\ DOMAIN b.list = 1 .. Len(b.list)
      /\ Below(b, l, M) /\ Held(b, l) /\ ~b.late /\ CurFits(b, p)
      /\ p = [n |-> p.n, k |-> p.k] /\ b.list \in Seq(Block)
  <2>1. b \in Session
    BY DEF Enter, Ready
  <2> QED
    BY <2>1, SessionIs, MsduHas DEF Enter, Fits, Ready, Below
<1>1. /\ c \in Session /\ SameRest(b, c) /\ c.LastIndSeq = b.LastIndSeq
      /\ c.top = b.top /\ c.late = b.late
      /\ Len(c.list) = Len(b.list)
      /\ \A i \in 1 .. Len(b.list) :
           /\ c.list[i].Sequence = b.list[i].Sequence
           /\ c.list[i].pkts = IF b.list[i].Sequence = b.CurMpdu
                               THEN Append(b.list[i].pkts, p)
                               ELSE b.list[i].pkts
  BY <1>0, AppendIs
<1> HIDE DEF c
<1>2. DOMAIN c.list = DOMAIN b.list /\ c.CurMpdu = SN(p)
  BY <1>0, <1>1, SessionIs DEF SameRest
<1>3. \A i \in DOMAIN b.list : Number(c, l, i) = Number(b, l, i)
  BY <1>0, <1>1 DEF Number
<1>4. \A i \in DOMAIN b.list :
        b.list[i].Sequence = SN(p) <=> Number(b, l, i) = p.n
  <2>1. p.n \in l + 1 .. l + BAWinSize
    OBVIOUS
  <2> QED
    BY <2>1, NumberOf, ZenonT(40)
<1>5. ASSUME NEW i \in DOMAIN b.list
      PROVE  /\ \A j \in DOMAIN c.list[i].pkts :
                  c.list[i].pkts[j] = [n |-> Number(b, l, i), k |-> j]
             /\ c.list[i].Sequence = SN(p) => Len(c.list[i].pkts) = p.k
  <2> DEFINE old == b.list[i].pkts
             new == c.list[i].pkts
  <2>1. old \in Seq(MSDUs)
    <3> DEFINE x == b.list[i]
    <3>1. x \in Block
      BY <1>0
    <3> HIDE DEF x
    <3>2. x.pkts \in Seq(MSDUs)
      BY <3>1 DEF Block
    <3> QED
      BY <3>2 DEF x
  <2>2. \A j \in DOMAIN old : old[j] = [n |-> Number(b, l, i), k |-> j]
    BY <1>0 DEF Held
  <2>3. CASE b.list[i].Sequence = SN(p)
    <3>1. new = Append(old, p)
      BY <1>0, <1>1, <2>3
    <3>2. p.k = Len(old) + 1 /\ Number(b, l, i) = p.n
      BY <1>0, <1>4, <2>3 DEF CurFits
    <3> HIDE DEF old, new
    <3>3. /\ Len(new) = Len(old) + 1 /\ DOMAIN new = 1 .. Len(old) + 1
          /\ \A j \in 1 .. Len(old) + 1 :
               new[j] = IF j = Len(old) + 1 THEN p ELSE old[j]
      BY <2>1, <3>1
    <3>4. \A j \in DOMAIN new : new[j] = [n |-> Number(b, l, i), k |-> j]
      <4> TAKE j \in DOMAIN new
      <4>1. CASE j = Len(old) + 1
        BY <1>0, <3>2, <3>3, <4>1
      <4>2. CASE j # Len(old) + 1
        <5>1. j \in DOMAIN old
          BY <2>1, <3>3, <4>2
        <5> QED
          BY <2>2, <3>3, <4>2, <5>1
      <4> QED
        BY <4>1, <4>2
    <3> QED
      BY <3>2, <3>3, <3>4 DEF new
  <2>4. CASE b.list[i].Sequence # SN(p)
    <3>1. new = old /\ c.list[i].Sequence # SN(p)
      BY <1>0, <1>1, <2>4
    <3> QED
      BY <2>2, <3>1
  <2> QED
    BY <2>3, <2>4
<1>6. Below(c, l, M)
  BY <1>0, <1>1, <1>2, <1>3, <1>5 DEF Below, Held
<1>7. \E i \in DOMAIN c.list : Number(c, l, i) = p.n
  BY <1>0, <1>2, <1>3, <1>4 DEF Buffered
<1>8. \A i \in DOMAIN c.list : c.list[i].Sequence = c.CurMpdu =>
        Number(c, l, i) = p.n /\ Len(c.list[i].pkts) = p.k
  BY <1>0, <1>1, <1>2, <1>3, <1>4, <1>5
<1>9. Leave(Case(c, "WITHIN"), l, M, O, p)
  BY <1>1, <1>6, <1>7, <1>8, WithinLeave
<1> QED
  BY <1>9 DEF c

LEMMA InsertLeave ==
  ASSUME NEW b, NEW l \in Nat, NEW M \in Nat, NEW O \in Nat, NEW p \in MSDUs,
         Enter(b, l, M, O, p), p.n \in l + 2 .. l + BAWinSize
  PROVE  Leave(Case(Insert(b, p), "WITHIN"), l, M, O, p)
<1> DEFINE c == Insert(b, p)
           s == SN(p)
           x == [Sequence |-> s, pkts |-> <<p>>]
<1>0. /\ b \in Session /\ Behind(b.list, b.LastIndSeq)
      /\ DOMAIN b.list = 1 .. Len(b.list) /\ Len(b.list) \in Nat
      /\ Below(b, l, M) /\ Held(b, l) /\ ~b.late /\ Known(b, l, p)
      /\ p = [n |-> p.n, k |-> p.k] /\ p.n \in Nat
      /\ p.n <= M /\ s \in SeqNums /\ b.list \in Seq(Block)
  <2>1. b \in Session /\ Behind(b.list, b.LastIndSeq)
    BY DEF Enter, Ready
  <2> QED
    BY <2>1, SessionIs, MsduHas DEF Enter, Fits, Below
<1>1. p.n \in l + 1 .. l + BAWinSize
  BY <1>0
<1>2. \A i \in DOMAIN b.list :
        b.list[i].Sequence = s <=> Number(b, l, i) = p.n
  BY <1>1, NumberOf, ZenonT(40)
<1>3. Dist(s, b.LastIndSeq) \in 1 .. BAWinSize
      /\ Dist(s, b.LastIndSeq) = p.n - l
  <2>1. p.n \in l .. l + BAWinSize
    BY <1>1
  <2>2. /\ p.n \in l + 1 .. l + BAWinSize
             <=> Dist(SN(p), b.LastIndSeq) \in 1 .. BAWinSize
        /\ p.n \in l .. l + BAWinSize => Dist(SN(p), b.LastIndSeq) = p.n - l
    BY EnterDist
  <2> QED
    BY <1>1, <2>1, <2>2
<1>4. CASE c = Forgotten(b) /\ Buffered(b, s)
  <2>1. /\ c \in Session /\ c.list = b.list /\ c.LastIndSeq = b.LastIndSeq
        /\ c.CurMpdu = Nothing /\ c.top = b.top /\ c.late = b.late
    BY <1>0, <1>4, ForgottenIs
  <2> HIDE DEF c
  <2>2. Below(c, l, M) /\ \A i : Number(c, l, i) = Number(b, l, i)
    BY <1>0, <2>1, BelowSame
  <2>3. \E i \in DOMAIN c.list : Number(c, l, i) = p.n
    BY <1>2, <1>4, <2>1, <2>2 DEF Buffered
  <2>4. \A i \in DOMAIN c.list : c.list[i].Sequence # c.CurMpdu
    BY <2>1, SessionIs, NothingAssumption
  <2>5. Leave(Case(c, "WITHIN"), l, M, O, p)
    BY <2>1, <2>2, <2>3, <2>4, WithinLeave
  <2> QED
    BY <2>5 DEF c
<1>5. CASE ~Buffered(b, s)
  <2>1. /\ c \in Session /\ c.LastIndSeq = b.LastIndSeq
        /\ c.top = b.top /\ c.late = b.late /\ c.CurMpdu = s
        /\ \E k \in 0 .. Len(b.list) :
                 /\ Len(c.list) = Len(b.list) + 1
                 /\ \A i \in 1 .. Len(b.list) + 1 :
                      c.list[i] = IF i <= k THEN b.list[i]
                                  ELSE IF i = k + 1 THEN x
                                  ELSE b.list[i - 1]
    BY <1>0, <1>3, <1>5, InsertIs
  <2>2. PICK k \in 0 .. Len(b.list) :
               /\ Len(c.list) = Len(b.list) + 1
               /\ \A i \in 1 .. Len(b.list) + 1 :
                    c.list[i] = IF i <= k THEN b.list[i]
                                ELSE IF i = k + 1 THEN x ELSE b.list[i - 1]
    BY <2>1
  <2>3. x.Sequence = s /\ x.pkts = <<p>>
    BY BlockIs
  <2> HIDE DEF c, x
  <2>4. DOMAIN c.list = 1 .. Len(b.list) + 1
    BY <2>1, <2>2, SessionIs
  <2>5. p.k = 1
    <3>1. ~(p.n <= l) /\ p.n # l + 1
      BY <1>0
    <3>2. ~\E i \in DOMAIN b.list : Number(b, l, i) = p.n
      BY <1>2, <1>5 DEF Buffered
    <3> QED
      BY <1>0, <3>1, <3>2 DEF Known
  <2>6. ASSUME NEW i \in DOMAIN c.list
        PROVE  \/ c.list[i] = x /\ i = k + 1
               \/ \E j \in DOMAIN b.list : c.list[i] = b.list[j]
    <3>1. CASE i = k + 1
      BY <1>0, <2>2, <2>4, <3>1
    <3>2. CASE i <= k
      <4>1. i \in DOMAIN b.list /\ c.list[i] = b.list[i]
        BY <1>0, <2>2, <2>4, <3>2
      <4> QED
        BY <4>1
    <3>3. CASE ~(i <= k) /\ i # k + 1
      <4>1. i - 1 \in DOMAIN b.list /\ c.list[i] = b.list[i - 1]
        BY <1>0, <2>2, <2>4, <3>3, SMTT(20)
      <4> QED
        BY <4>1
    <3> QED
      BY <3>1, <3>2, <3>3
  <2>7. c.list[k + 1] = x /\ k + 1 \in DOMAIN c.list
    BY <1>0, <2>2, <2>4, SMTT(20)
  <2>8. \A i \in DOMAIN c.list : c.list[i] = x => Number(c, l, i) = p.n
    <3> TAKE i \in DOMAIN c.list
    <3> SUFFICES ASSUME c.list[i] = x PROVE Number(c, l, i) = p.n
      OBVIOUS
    <3>1. Number(c, l, i) = l + Dist(s, b.LastIndSeq)
      BY <2>1, <2>3 DEF Number
    <3> QED
      BY <1>0, <1>3, <3>1
  <2>9. \A i \in DOMAIN c.list : \A j \in DOMAIN b.list :
          c.list[i] = b.list[j] => Number(c, l, i) = Number(b, l, j)
    BY <2>1 DEF Number
  <2>10. ASSUME NEW i \in DOMAIN c.list
         PROVE  /\ \A j \in DOMAIN c.list[i].pkts :
                     c.list[i].pkts[j] = [n |-> Number(c, l, i), k |-> j]
                /\ Number(c, l, i) <= M
    <3>1. CASE c.list[i] = x
      <4>1. \A j \in DOMAIN <<p>> : <<p>>[j] = [n |-> p.n, k |-> j]
        <5>1. \A j \in DOMAIN <<p>> : j = 1 /\ <<p>>[j] = p
          OBVIOUS
        <5> QED
          BY <1>0, <2>5, <5>1
      <4>2. c.list[i].pkts = <<p>> /\ Number(c, l, i) = p.n
        BY <2>3, <2>8, <3>1
      <4> QED
        BY <1>0, <4>1, <4>2
    <3>2. ASSUME NEW j \in DOMAIN b.list, c.list[i] = b.list[j]
          PROVE  /\ \A m \in DOMAIN c.list[i].pkts :
                      c.list[i].pkts[m] = [n |-> Number(c, l, i), k |-> m]
                 /\ Number(c, l, i) <= M
      BY <1>0, <2>9, <3>2 DEF Held, Below
    <3> QED
      BY <2>6, <3>1, <3>2
  <2>11. Below(c, l, M)
    BY <1>0, <2>1, <2>10 DEF Below, Held
  <2>12. \A i \in DOMAIN c.list : c.list[i].Sequence = c.CurMpdu =>
          Number(c, l, i) = p.n /\ Len(c.list[i].pkts) = p.k
    <3> TAKE i \in DOMAIN c.list
    <3> SUFFICES ASSUME c.list[i].Sequence = s
                 PROVE  Number(c, l, i) = p.n /\ Len(c.list[i].pkts) = p.k
      BY <2>1
    <3>1. c.list[i] = x
      BY <1>5, <2>6 DEF Buffered
    <3>2. Len(<<p>>) = 1
      OBVIOUS
    <3> QED
      BY <2>3, <2>5, <2>8, <3>1, <3>2
  <2>13. Leave(Case(c, "WITHIN"), l, M, O, p)
    BY <2>1, <2>7, <2>8, <2>11, <2>12, WithinLeave
  <2> QED
    BY <2>13 DEF c
<1>6. (c = Forgotten(b) /\ Buffered(b, s)) \/ ~Buffered(b, s)
  BY <1>0, <1>3, InsertIs
<1> QED
  BY <1>4, <1>5, <1>6

\* Without room p goes up after all that is kept before it, unless a copy of
\* p was kept.
LEMMA NoRoomLeave ==
  ASSUME NEW b, NEW l \in Nat, NEW M \in Nat, NEW O \in Nat, NEW p \in MSDUs,
         Enter(b, l, M, O, p), p.n \in l + 2 .. l + BAWinSize,
         ~Enqueue(b, p, FALSE).dry
  PROVE  \E m \in Nat : Leave(Case(Enqueue(b, p, FALSE), "WITHIN"), m, M, O, p)
<1>0. /\ b \in Session /\ Behind(b.list, b.LastIndSeq)
      /\ DOMAIN b.list = 1 .. Len(b.list) /\ Len(b.list) \in Nat
      /\ Below(b, l, M) /\ Held(b, l) /\ ~b.late /\ Newer(b, l)
      /\ p = [n |-> p.n, k |-> p.k] /\ p.n \in Nat /\ p.k \in Nat /\ p.k >= 1
      /\ p.n <= M /\ b.list \in Seq(Block) /\ O <= l + BAWinSize
      /\ SN(p) = Num(p.n)
  <2>1. b \in Session /\ Behind(b.list, b.LastIndSeq)
    BY DEF Enter, Ready
  <2> QED
    BY <2>1, SessionIs, MsduHas DEF Enter, Fits, Below
<1>1. b.top.n <= l /\ b.top \in [n : Nat, k : Nat]
  <2>1. p.n # l + 1
    OBVIOUS
  <2> QED
    BY <1>0, <2>1 DEF Enter, Fits, Tops, Session
<1>2. Dist(SN(p), b.LastIndSeq) \in 1 .. BAWinSize
      /\ Dist(SN(p), b.LastIndSeq) = p.n - l
  <2>1. p.n \in l .. l + BAWinSize /\ p.n \in l + 1 .. l + BAWinSize
    BY <1>0
  <2>2. /\ p.n \in l + 1 .. l + BAWinSize
             <=> Dist(SN(p), b.LastIndSeq) \in 1 .. BAWinSize
        /\ p.n \in l .. l + BAWinSize => Dist(SN(p), b.LastIndSeq) = p.n - l
    BY EnterDist
  <2> QED
    BY <2>1, <2>2
<1> DEFINE q == p.n - l
           d == Enqueue(b, p, FALSE)
<1>3. q \in Nat /\ l + q = p.n /\ Dist(SN(p), b.LastIndSeq) = q
  BY <1>0, <1>2
<1> HIDE DEF q
<1>4. PICK m, a :
           /\ d = InOrder(a)
           /\ Advance(b, m, q) /\ m.LastIndSeq = SN(p)
           /\ a \in Session /\ a.list = m.list /\ a.LastIndSeq = SN(p)
           /\ a.CurMpdu = Nothing /\ a.REC_BA_Status = m.REC_BA_Status
           /\ a.spoilt = m.spoilt /\ a.pulled = m.pulled
           /\ a.top = p /\ (a.late <=> m.late \/ ~Before(m.top, p))
           /\ a.dry <=> m.dry \/ \E i \in DOMAIN b.list :
                                    Contains(b.list[i].pkts, p)
  BY <1>0, <1>2, <1>3, NoRoomStep
<1> HIDE DEF d
<1>5. Below(m, p.n, M) /\ Announced(b, m, l, q) /\ Behind(m.list, m.LastIndSeq)
  <2>1. Below(m, l + q, M) /\ Announced(b, m, l, q)
    BY <1>0, <1>3, <1>4, AdvanceBelow
  <2> QED
    BY <1>3, <1>4, <2>1 DEF Advance
<1>6. Behind(a.list, a.LastIndSeq)
  BY <1>4, <1>5
<1>7. ~a.dry
  <2> DEFINE e == InOrder(a)
  <2>1. PICK k \in 0 .. Len(a.list) : Advance(a, e, k)
    BY <1>4, <1>6, InOrderIs
  <2>2. e.dry = a.dry
    BY <2>1 DEF Advance, SameRest
  <2> QED
    BY <1>4, <2>2 DEF d
<1>8. \A i \in DOMAIN b.list : ~Contains(b.list[i].pkts, p)
  BY <1>4, <1>7
<1>9. Before(m.top, p)
  <2>1. CASE m.top = b.top
    <3>1. m.top.n < p.n
      BY <1>0, <1>1, <2>1
    <3> QED
      BY <3>1 DEF Before
  <2>2. ASSUME NEW i \in 1 .. Len(b.list),
               Dist(b.list[i].Sequence, b.LastIndSeq) <= q,
               m.top = [n |-> Number(b, l, i), k |-> Len(b.list[i].pkts)]
        PROVE  Before(m.top, p)
    <3> DEFINE pkts == b.list[i].pkts
               N == Number(b, l, i)
    <3>1. pkts \in Seq(MSDUs) \ {<<>>}
      <4> DEFINE x == b.list[i]
      <4>1. x \in Block
        BY <1>0
      <4> HIDE DEF x
      <4>2. x.pkts \in Seq(MSDUs) \ {<<>>}
        BY <4>1 DEF Block
      <4> QED
        BY <4>2 DEF x
    <3>2. \A j \in DOMAIN pkts : pkts[j] = [n |-> N, k |-> j]
      BY <1>0 DEF Held
    <3>3. N \in Nat /\ N = l + Dist(b.list[i].Sequence, b.LastIndSeq)
          /\ Dist(b.list[i].Sequence, b.LastIndSeq) \in 1 .. BAWinSize
      BY <1>0, NumberIs DEF Behind
    <3>4. ~\E j \in 1 .. Len(pkts) : pkts[j] = p
      BY <1>0, <1>8 DEF Contains
    <3>5. m.top.n = N /\ m.top.k = Len(pkts) /\ Len(pkts) \in Nat
      BY <2>2, <3>1
    <3> HIDE DEF pkts, N
    <3>6. N <= p.n
      BY <1>0, <1>3, <2>2, <3>3, Space
    <3>7. CASE N < p.n
      BY <3>5, <3>7 DEF Before
    <3>8. CASE N = p.n
      <4>1. ~(p.k \in 1 .. Len(pkts))
        <5> SUFFICES ASSUME p.k \in 1 .. Len(pkts) PROVE FALSE
          OBVIOUS
        <5>1. p.k \in DOMAIN pkts
          BY <3>1
        <5>2. pkts[p.k] = p
          BY <1>0, <3>2, <3>8, <5>1
        <5> QED
          BY <3>4, <5>2
      <4> QED
        BY <1>0, <3>5, <3>8, <4>1 DEF Before
    <3> QED
      BY <1>0, <3>3, <3>6, <3>7, <3>8
  <2> QED
    BY <1>5, <2>1, <2>2 DEF Announced
<1>10. Below(a, p.n, M) /\ a.top.n <= p.n
  <2>1. ~m.late
    BY <1>5 DEF Below
  <2>2. ~a.late
    BY <1>4, <1>9, <2>1
  <2> QED
    BY <1>0, <1>4, <1>5, <2>2, BelowSame
<1>11. PICK k \in Nat : /\ Advance(a, d, k) /\ Below(d, p.n + k, M)
                        /\ d.top.n <= p.n + k
  BY <1>0, <1>4, <1>6, <1>10, InOrderBelow
<1> DEFINE e == Case(d, "WITHIN")
           r == p.n + k
<1>12. /\ e.list = d.list /\ e.LastIndSeq = d.LastIndSeq /\ e.late = d.late
       /\ e.top = d.top /\ e.CurMpdu = Nothing
       /\ e.PreviousReorderCase = "WITHIN" /\ d \in Session
  <2>1. "WITHIN" \in Cases /\ d \in Session /\ d.CurMpdu = Nothing
    BY <1>4, <1>11 DEF Cases, Advance, SameRest
  <2> QED
    BY <2>1, CaseIs
<1> HIDE DEF e
<1>13. Below(e, r, M)
  <2>1. ~e.late
    BY <1>11, <1>12 DEF Below
  <2> QED
    BY <1>11, <1>12, <2>1, BelowSame
<1>14. /\ r \in Nat /\ p.n <= r /\ p.n <= r + BAWinSize /\ O <= r + BAWinSize
       /\ e.top.n <= r
  <2>1. p.n >= l
    BY <1>0
  <2>2. r \in Nat /\ p.n <= r
    BY <1>0, <1>11
  <2>3. e.top.n <= r
    BY <1>11, <1>12
  <2>4. p.n \in Nat /\ O <= l + BAWinSize
    BY <1>0
  <2> HIDE DEF r
  <2>5. p.n <= r + BAWinSize /\ O <= r + BAWinSize
    BY <2>1, <2>2, <2>4, Space
  <2> QED
    BY <2>2, <2>3, <2>5
<1>15. \A i \in DOMAIN e.list : e.list[i].Sequence # e.CurMpdu
  BY <1>12, SessionIs, NothingAssumption
<1>16. Leave(e, r, M, O, p)
  BY <1>12, <1>13, <1>14, <1>15 DEF Leave
<1> QED
  BY <1>14, <1>16 DEF e, d

LEMMA PlaceLeave ==
  ASSUME NEW b, NEW l \in Nat, NEW M \in Nat, NEW O \in Nat, NEW p \in MSDUs,
         Enter(b, l, M, O, p), p.n <= l + BAWinSize, NEW room \in BOOLEAN,
         ~Place(b, p, room).dry
  PROVE  \E m \in Nat : Leave(Place(b, p, room), m, M, O, p)
<1> DEFINE s == SN(p)
           L == b.LastIndSeq
<1>0. /\ b \in Session /\ Cases = {"STEP_ONE", "REPEAT", "OLDPKT", "WITHIN"}
      /\ p.n \in Nat
  BY MsduHas DEF Enter, Ready, Cases
<1>1. /\ s = Wrap(L + 1) <=> p.n = l + 1
      /\ s = L <=> p.n = l
      /\ Old(b, s) <=> p.n < l
  BY EnterDist
<1>2. CASE p.n = l + 1
  <2>1. Place(b, p, room) = Case(InOrderStep(b, p), "STEP_ONE")
    BY <1>1, <1>2 DEF Place
  <2> QED
    BY <1>2, <2>1, StepOneLeave
<1>3. CASE p.n = l
  <2>1. Place(b, p, room) = Case(b, "REPEAT")
    BY <1>1, <1>3 DEF Place
  <2>2. "REPEAT" \in Cases /\ p.n <= l
    BY <1>0, <1>3
  <2> QED
    BY <2>1, <2>2, StayLeave
<1>4. CASE p.n < l
  <2>1. p.n # l /\ p.n # l + 1 /\ p.n <= l
    BY <1>0, <1>4
  <2>2. Place(b, p, room) = Case(b, "OLDPKT")
    BY <1>1, <1>4, <2>1 DEF Place
  <2>3. "OLDPKT" \in Cases
    BY <1>0
  <2> QED
    BY <2>1, <2>2, <2>3, StayLeave
<1>5. CASE p.n \in l + 2 .. l + BAWinSize
  <2>1. p.n # l /\ p.n # l + 1 /\ ~(p.n < l)
    BY <1>0, <1>5
  <2>2. Place(b, p, room) = Case(Enqueue(b, p, room), "WITHIN")
    BY <1>1, <2>1 DEF Place
  <2>3. CASE room = FALSE
    <3> DEFINE d == Enqueue(b, p, FALSE)
    <3>1. Place(b, p, room) = Case(d, "WITHIN")
      BY <2>2, <2>3
    <3>2. ~Case(d, "WITHIN").dry
      BY <3>1
    <3> HIDE DEF d
    <3>3. Case(d, "WITHIN").dry = d.dry
      BY DEF Case
    <3> QED
      BY <1>5, <3>1, <3>2, <3>3, NoRoomLeave DEF d
  <2>4. CASE room = TRUE /\ b.CurMpdu = Nothing
    <3>1. Enqueue(b, p, room) = Insert(b, p)
      BY <2>4 DEF Enqueue
    <3> QED
      BY <1>5, <2>2, <3>1, InsertLeave
  <2>5. CASE room = TRUE /\ b.CurMpdu # Nothing
    <3>1. Enqueue(b, p, room) = AppendToCur(b, p)
      BY <2>5 DEF Enqueue
    <3>2. Dist(SN(p), b.LastIndSeq) \in 2 .. BAWinSize
      <4>1. p.n \in l .. l + BAWinSize
        BY <1>5
      <4>2. p.n \in l .. l + BAWinSize => Dist(SN(p), b.LastIndSeq) = p.n - l
        BY EnterDist
      <4> QED
        BY <1>0, <1>5, <4>1, <4>2, Space
    <3>3. Buffered(b, b.CurMpdu)
      <4>1. Ready(b, SN(p))
        BY DEF Enter
      <4> QED
        BY <2>5, <3>2, <4>1, AppendPlaced
    <3> QED
      BY <1>5, <2>2, <2>5, <3>1, <3>3, AppendLeave
  <2> QED
    BY <2>3, <2>4, <2>5
<1>6. p.n < l \/ p.n = l \/ p.n = l + 1 \/ p.n \in l + 2 .. l + BAWinSize
  BY <1>0, Space
<1> QED
  BY <1>2, <1>3, <1>4, <1>5, <1>6

LEMMA CheckLeave ==
  ASSUME NEW b, NEW l \in Nat, NEW M \in Nat, NEW O \in Nat, NEW p \in MSDUs,
         Enter(b, l, M, O, p), NEW room \in BOOLEAN,
         ~Check(b, p, room).dry
  PROVE  \E m \in Nat : Leave(Check(b, p, room), m, M, O, p)
<1>0. /\ b \in Session /\ Behind(b.list, b.LastIndSeq) /\ p.n \in Nat
      /\ SN(p) \in SeqNums /\ Ready(b, SN(p)) /\ Fits(b, l, M, O, p)
      /\ p.n < l + Half /\ p.n <= M
      /\ p.n >= l => Dist(SN(p), b.LastIndSeq) = p.n - l
      /\ p.n < l => Dist(SN(p), b.LastIndSeq) >= Half
  <2>1. /\ b \in Session /\ Behind(b.list, b.LastIndSeq) /\ p.n \in Nat
        /\ SN(p) \in SeqNums
    BY EnterIs
  <2>2. /\ p.n >= l => Dist(SN(p), b.LastIndSeq) = p.n - l
        /\ p.n < l => Dist(SN(p), b.LastIndSeq) >= Half
    BY EnterNum
  <2> QED
    BY <2>1, <2>2 DEF Enter, Fits
<1>1. CASE ~Surpasses(b, SN(p))
  <2>1. ~(BAWinSize < Dist(SN(p), b.LastIndSeq)
           /\ Dist(SN(p), b.LastIndSeq) < Half)
    BY <1>0, <1>1, SurpassesIs
  <2>2. p.n <= l + BAWinSize
    BY <1>0, <2>1, Space
  <2>3. Check(b, p, room) = Place(b, p, room)
    BY <1>1 DEF Check
  <2> QED
    BY <2>2, <2>3, PlaceLeave
<1>2. CASE Surpasses(b, SN(p))
  <2> DEFINE c == Shift(b, Wrap(SN(p) - BAWinSize))
             q == Dist(SN(p), b.LastIndSeq) - Dist(SN(p), c.LastIndSeq)
  <2>1. /\ Ready(c, SN(p)) /\ Dist(SN(p), c.LastIndSeq) \in 1 .. BAWinSize
        /\ Advance(b, c, q)
    BY <1>0, <1>2, CheckShift
  <2>2. BAWinSize < Dist(SN(p), b.LastIndSeq)
        /\ Dist(SN(p), b.LastIndSeq) < Half
    BY <1>0, <1>2, SurpassesIs
  <2>3. Check(b, p, room) = Place(c, p, room)
    BY <1>2 DEF Check
  <2> DEFINE D == Dist(SN(p), c.LastIndSeq)
  <2>4. D \in 1 .. BAWinSize /\ q = Dist(SN(p), b.LastIndSeq) - D
    BY <2>1
  <2> HIDE DEF c, D, q
  <2>5. Dist(SN(p), b.LastIndSeq) = p.n - l
    <3>1. ~(p.n < l)
      BY <1>0, <2>2, Space, DistNat, SessionIs
    <3>2. p.n >= l
      BY <1>0, <3>1
    <3> QED
      BY <1>0, <3>2
  <2>6. q \in Nat /\ l + q \in Nat /\ l + q <= M /\ l + q < p.n + BAWinSize
        /\ p.n <= (l + q) + BAWinSize
    BY <1>0, <2>2, <2>4, <2>5, Space
  <2>7. Fits(c, l + q, M, O, p)
    BY <1>0, <2>1, <2>6, AdvanceFits
  <2>8. Enter(c, l + q, M, O, p)
    BY <2>1, <2>7 DEF Enter
  <2> QED
    BY <2>3, <2>6, <2>8, PlaceLeave
<1> QED
  BY <1>1, <1>2

-----------------------------------------------------------------------------
(***************************************************************************)
(* The two exceptions of delivery in order are never taken back.           *)
(***************************************************************************)
\* LastIndSeq has not gone backwards, and no repeated MSDU lacked room.
Clear(b) == ~b.pulled /\ ~b.dry

LEMMA SameClear ==
  ASSUME NEW b, NEW c, SameRest(b, c)
  PROVE  Clear(c) <=> Clear(b)
BY DEF SameRest, Clear

LEMMA StepOneClear ==
  ASSUME NEW b, NEW p \in MSDUs, Ready(b, SN(p)),
         SN(p) = Wrap(b.LastIndSeq + 1)
  PROVE  Clear(Case(InOrderStep(b, p), "STEP_ONE")) <=> Clear(b)
<1> DEFINE s == SN(p)
           a == Announce(b, <<p>>)
           c == [a EXCEPT !.LastIndSeq = s, !.age = 0]
           d == InOrderStep(b, p)
<1>0. /\ b \in Session /\ Behind(b.list, b.LastIndSeq) /\ Quiet(b)
      /\ s \in SeqNums /\ "STEP_ONE" \in Cases
  BY MsduHas DEF Ready, Cases
<1>1. Dist(s, b.LastIndSeq) = 1
  BY <1>0, NextIs, SessionIs
<1>2. Behind(b.list, s)
  BY <1>0, <1>1, BehindNext
<1>3. /\ a \in Session /\ SameRest(b, a)
      /\ a.list = b.list /\ a.LastIndSeq = b.LastIndSeq
  BY <1>0, AnnounceOne
<1>4. d \in Session /\ (Clear(d) <=> Clear(b))
  <2>1. CASE Complete(p)
    <3>1. /\ c \in Session /\ SameRest(a, c) /\ c.list = a.list
          /\ c.LastIndSeq = s
      <4> HIDE DEF a
      <4> QED
        BY <1>0, <1>3, GoToIs
    <3>2. d = InOrder(c)
      BY <2>1 DEF InOrderStep
    <3> HIDE DEF c, a, d
    <3>3. PICK k \in 0 .. Len(c.list) : Advance(c, InOrder(c), k)
      BY <1>2, <1>3, <3>1, InOrderIs
    <3> QED
      BY <1>3, <3>1, <3>2, <3>3, SameClear DEF Advance
  <2>2. CASE ~Complete(p)
    <3>1. d = a
      BY <2>2 DEF InOrderStep
    <3> HIDE DEF a, d
    <3> QED
      BY <1>3, <3>1, SameClear
  <2> QED
    BY <2>1, <2>2
<1> HIDE DEF d
<1> QED
  BY <1>0, <1>4, CaseIs DEF Clear, d

LEMMA EnqueueClear ==
  ASSUME NEW b, NEW p \in MSDUs, Ready(b, SN(p)),
         Dist(SN(p), b.LastIndSeq) \in 2 .. BAWinSize,
         NEW room \in BOOLEAN, Clear(Enqueue(b, p, room))
  PROVE  Clear(b)
<1>0. /\ b \in Session /\ Behind(b.list, b.LastIndSeq)
      /\ Dist(SN(p), b.LastIndSeq) \in 1 .. BAWinSize
  BY Space DEF Ready
<1>1. CASE room = FALSE
  <2> DEFINE d == Enqueue(b, p, FALSE)
  <2>1. PICK m, a :
           /\ d = InOrder(a)
           /\ Advance(b, m, Dist(SN(p), b.LastIndSeq)) /\ m.LastIndSeq = SN(p)
           /\ a \in Session /\ a.list = m.list /\ a.LastIndSeq = SN(p)
           /\ a.CurMpdu = Nothing /\ a.REC_BA_Status = m.REC_BA_Status
           /\ a.spoilt = m.spoilt /\ a.pulled = m.pulled
           /\ a.top = p /\ (a.late <=> m.late \/ ~Before(m.top, p))
           /\ a.dry <=> m.dry \/ \E i \in DOMAIN b.list :
                                    Contains(b.list[i].pkts, p)
    BY <1>0, NoRoomStep
  <2>2. Clear(d)
    BY <1>1
  <2> HIDE DEF d
  <2>3. PICK k \in 0 .. Len(a.list) : Advance(a, InOrder(a), k)
    <3>1. Behind(a.list, a.LastIndSeq)
      BY <2>1 DEF Advance
    <3> QED
      BY <2>1, <3>1, InOrderIs
  <2>4. Clear(a)
    BY <2>1, <2>2, <2>3, SameClear DEF Advance
  <2>5. Clear(m)
    BY <2>1, <2>4 DEF Clear
  <2> QED
    BY <2>1, <2>5, SameClear DEF Advance
<1>2. CASE room = TRUE /\ b.CurMpdu = Nothing
  <2> DEFINE c == Insert(b, p)
  <2>1. Enqueue(b, p, room) = c
    BY <1>2 DEF Enqueue
  <2>2. c = Forgotten(b) \/ (c.pulled = b.pulled /\ c.dry = b.dry)
    BY <1>0, InsertIs
  <2> HIDE DEF c
  <2> QED
    BY <1>0, <2>1, <2>2, ForgottenIs DEF Clear
<1>3. CASE room = TRUE /\ b.CurMpdu # Nothing
  <2> DEFINE c == AppendToCur(b, p)
  <2>1. Enqueue(b, p, room) = c
    BY <1>3 DEF Enqueue
  <2>2. Buffered(b, b.CurMpdu)
    BY <1>3, AppendPlaced
  <2>3. SameRest(b, c)
    BY <1>0, <2>2, AppendIs
  <2> HIDE DEF c
  <2> QED
    BY <2>1, <2>3, SameClear
<1> QED
  BY <1>1, <1>2, <1>3

LEMMA PlaceClear ==
  ASSUME NEW b, NEW p \in MSDUs, Ready(b, SN(p)), ~Surpasses(b, SN(p)),
         NEW room \in BOOLEAN, Clear(Place(b, p, room))
  PROVE  Clear(b)
<1> DEFINE s == SN(p)
           L == b.LastIndSeq
<1>0. /\ b \in Session /\ s \in SeqNums /\ L \in SeqNums
  BY MsduHas, SessionIs DEF Ready
<1>1. /\ s = Wrap(L + 1) <=> Dist(s, L) = 1
      /\ s = L <=> Dist(s, L) = 0
      /\ Old(b, s) <=> Dist(s, L) >= Half
      /\ Dist(s, L) \in Nat /\ ~(BAWinSize < Dist(s, L) /\ Dist(s, L) < Half)
  BY <1>0, NextIs, DistZero, SmallerIs, DistNat, SurpassesIs DEF Old
<1>2. \A d, x : Clear(Case(d, x)) <=> Clear(d)
  BY DEF Case, Clear
<1>3. CASE s = Wrap(L + 1)
  <2>1. Place(b, p, room) = Case(InOrderStep(b, p), "STEP_ONE")
    <3>1. s # L /\ ~Old(b, s)
      BY <1>1, <1>3, Space
    <3> QED
      BY <1>3, <3>1 DEF Place
  <2> QED
    BY <1>3, <2>1, StepOneClear
<1>4. CASE s # Wrap(L + 1) /\ s = L
  <2>1. Place(b, p, room) = Case(b, "REPEAT")
    <3>1. ~Old(b, s)
      BY <1>1, <1>4, Space
    <3> QED
      BY <1>4, <3>1 DEF Place
  <2> QED
    BY <1>2, <2>1
<1>5. CASE s # Wrap(L + 1) /\ s # L /\ Old(b, s)
  <2>1. Place(b, p, room) = Case(b, "OLDPKT")
    BY <1>5 DEF Place
  <2> QED
    BY <1>2, <2>1
<1>6. CASE s # Wrap(L + 1) /\ s # L /\ ~Old(b, s)
  <2>1. Place(b, p, room) = Case(Enqueue(b, p, room), "WITHIN")
    BY <1>6 DEF Place
  <2>2. Dist(SN(p), b.LastIndSeq) \in 2 .. BAWinSize
    BY <1>1, <1>6, Space
  <2> QED
    BY <1>2, <2>1, <2>2, EnqueueClear
<1> QED
  BY <1>3, <1>4, <1>5, <1>6

LEMMA CheckClear ==
  ASSUME NEW b, NEW p \in MSDUs, Ready(b, SN(p)), NEW room \in BOOLEAN,
         Clear(Check(b, p, room))
  PROVE  Clear(b)
<1>1. SN(p) \in SeqNums
  BY MsduHas
<1>2. CASE ~Surpasses(b, SN(p))
  BY <1>2, PlaceClear DEF Check
<1>3. CASE Surpasses(b, SN(p))
  <2> DEFINE c == Shift(b, Wrap(SN(p) - BAWinSize))
  <2>1. /\ Ready(c, SN(p)) /\ Dist(SN(p), c.LastIndSeq) \in 1 .. BAWinSize
        /\ SameRest(b, c)
    BY <1>1, <1>3, CheckShift DEF Advance
  <2>2. Check(b, p, room) = Place(c, p, room)
    BY <1>3 DEF Check
  <2> HIDE DEF c
  <2>3. ~Surpasses(c, SN(p))
    <3>1. c \in Session
      BY <2>1 DEF Ready
    <3> QED
      BY <1>1, <2>1, <3>1, SurpassesIs, Space
  <2>4. Clear(c)
    BY <2>1, <2>2, <2>3, PlaceClear
  <2> QED
    BY <2>1, <2>4, SameClear
<1> QED
  BY <1>2, <1>3

-----------------------------------------------------------------------------
(***************************************************************************)
(* Between two calls: Order, with the newest MPDU heard of and the MSDU on *)
(* the air, and what amsdu_sanity makes of it.                             *)
(***************************************************************************)
\* The last MSDU announced, when the newest MPDU heard of is N and a is on the
\* air: of an MPDU behind the window, or of the next one, inside it.
TopIs(b, l, N, a) ==
  \/ b.top.n <= l
  \/ /\ b.top.n = l + 1 /\ l + 1 <= N /\ b.PreviousSN = Num(l + 1) /\ Started(b)
     /\ b.top.k >= 1 /\ b.top.k < Msdus[l + 1]
     /\ a \in {Nothing, [n |-> l + 1, k |-> b.top.k + 1]}

\* Where amsdu_sanity would pull LastIndSeq to.
PullsTo(b, l, N) ==
  Started(b) => \E m \in 0 .. l + 1 : b.PreviousSN = Num(m) /\ m <= N /\ N - m < Half

\* The MSDU on the air goes on with the MPDU of the previous one.
Expects(b, l, N, a) ==
  a # Nothing =>
    /\ a.k > 1 /\ a.n <= N /\ Known(b, l, a)
    /\ b.PreviousSN = Num(a.n) /\ b.PreviousAmsduState \in Partial

\* The block of CurMpdu lacks MSDUs; the one on the air comes next.
CurNext(b, l, a) ==
  \A i \in DOMAIN b.list : b.list[i].Sequence = b.CurMpdu =>
    /\ Len(b.list[i].pkts) < Msdus[Number(b, l, i)]
    /\ a # Nothing => a.k = Len(b.list[i].pkts) + 1

\* The session is in order: N is the newest MPDU heard of, a the MSDU on the
\* air.
Order(b, l, N, a) ==
  /\ Below(b, l, N) /\ N <= l + BAWinSize
  /\ TopIs(b, l, N, a) /\ PullsTo(b, l, N)
  /\ Expects(b, l, N, a) /\ CurNext(b, l, a)

LEMMA SanityIs ==
  ASSUME NEW b, Good(b), NEW seq, NEW state
  PROVE  LET c == amsdu_sanity(b, seq, state) IN
         /\ c.REC_BA_Status = b.REC_BA_Status /\ c.PreviousSN = b.PreviousSN
         /\ c.PreviousAmsduState = b.PreviousAmsduState
         /\ c.PreviousReorderCase = b.PreviousReorderCase
         /\ c.dry = b.dry /\ (~c.pulled => ~b.pulled)
         /\ b.list = <<>> => c.list = <<>> /\ c.top = b.top /\ c.late = b.late
<1> DEFINE p == [Forgotten(b) EXCEPT
                   !.LastIndSeq = b.PreviousSN, !.age = 0,
                   !.pulled = @ \/ SEQ_SMALLER(b.PreviousSN, b.LastIndSeq)]
<1>0. b \in Session /\ Behind(b.list, b.LastIndSeq) /\ Sound(b)
  BY SoundIs DEF Good
<1>1. CASE ~AmsduMiss(b, seq, state)
  BY <1>1 DEF amsdu_sanity
<1>2. CASE AmsduMiss(b, seq, state) /\ b.PreviousReorderCase = "STEP_ONE"
  <2>1. amsdu_sanity(b, seq, state) = InOrder(p)
    BY <1>2 DEF amsdu_sanity
  <2>2. /\ p \in Session /\ p.list = b.list
        /\ p.LastIndSeq = b.PreviousSN
        /\ p.REC_BA_Status = b.REC_BA_Status /\ p.PreviousSN = b.PreviousSN
        /\ p.top = b.top /\ p.late = b.late /\ p.dry = b.dry
        /\ p.pulled = (b.pulled \/ SEQ_SMALLER(b.PreviousSN, b.LastIndSeq))
        /\ p.PreviousAmsduState = b.PreviousAmsduState
        /\ p.PreviousReorderCase = b.PreviousReorderCase
    BY <1>0, PulledIs
  <2> HIDE DEF p
  <2>3. Started(b)
    BY <1>2 DEF AmsduMiss, Started, Partial
  <2>4. Behind(p.list, p.LastIndSeq)
    BY <2>2, <2>3 DEF Good, Sound, PullOK
  <2> DEFINE c == InOrder(p)
  <2>5. PICK k \in 0 .. Len(p.list) : Advance(p, c, k)
    BY <2>2, <2>4, InOrderIs
  <2> HIDE DEF c
  <2>6. p.list = <<>> => c.list = <<>> /\ c.top = p.top /\ c.late = p.late
    <3> SUFFICES ASSUME p.list = <<>>
                 PROVE  c.list = <<>> /\ c.top = p.top /\ c.late = p.late
      OBVIOUS
    <3>1. c.top = p.top /\ c.late = p.late
      BY <2>5 DEF Advance
    <3>2. \A i \in 0 .. Len(p.list) : SubSeq(p.list, i + 1, Len(p.list)) = <<>>
      <4>1. Len(p.list) = 0 /\ p.list \in Seq(Block)
        BY <2>2, SessionIs
      <4> QED
        BY <4>1, RestFacts
    <3> QED
      BY <2>5, <3>1, <3>2 DEF Advance
  <2>7. SameRest(p, c)
    BY <2>5 DEF Advance
  <2> QED
    BY <2>1, <2>2, <2>6, <2>7 DEF SameRest, c
<1>3. CASE AmsduMiss(b, seq, state) /\ b.PreviousReorderCase # "STEP_ONE"
  <2>1. amsdu_sanity(b, seq, state) = Forgotten(b)
    BY <1>3 DEF amsdu_sanity
  <2> QED
    BY <1>0, <2>1, ForgottenIs
<1> QED
  BY <1>1, <1>2, <1>3

\* LastIndSeq is pulled to where the window starts already or to the next
\* MPDU, unless it goes backwards.
LEMMA PulledOrder ==
  ASSUME NEW b, Good(b), NEW l \in Nat, NEW N \in Nat, NEW a,
         Order(b, l, N, a), Started(b),
         ~SEQ_SMALLER(b.PreviousSN, b.LastIndSeq),
         NEW c \in Session, c.list = b.list, c.LastIndSeq = b.PreviousSN,
         c.top = b.top, c.late = b.late
  PROVE  \E m \in {l, l + 1} :
           /\ b.PreviousSN = Num(m) /\ m <= N
           /\ Below(c, m, N) /\ c.top.n <= m
           /\ Behind(c.list, c.LastIndSeq)
<1>0. /\ b \in Session /\ Behind(b.list, b.LastIndSeq) /\ Quiet(b)
      /\ Below(b, l, N) /\ Held(b, l) /\ ~b.late /\ b.LastIndSeq = Num(l)
      /\ Behind(b.list, b.PreviousSN) /\ l <= N
      /\ b.LastIndSeq \in SeqNums /\ b.PreviousSN \in SeqNums
      /\ DOMAIN b.list = 1 .. Len(b.list)
  BY SoundIs DEF Good, Sound, PullOK, Order, Below, Held
<1>1. PICK m \in 0 .. l + 1 : b.PreviousSN = Num(m) /\ m <= N /\ N - m < Half
  BY DEF Order, PullsTo
<1>2. ~(Dist(Num(m), Num(l)) >= Half)
  BY <1>0, <1>1, SmallerIs
<1>3. m \in {l, l + 1}
  <2>1. CASE m < l
    <3>1. -SeqSpace <= m - l /\ m - l < 0
      BY <1>0, <1>1, <2>1, Space
    <3>2. Dist(Num(m), Num(l)) = m - l + SeqSpace
      BY <3>1, NumDist
    <3>3. m - l + SeqSpace >= Half
      BY <1>0, <1>1, Space
    <3> QED
      BY <1>2, <3>2, <3>3
  <2> QED
    BY <2>1
<1>4. CASE m = l
  <2>1. b.top.n <= l
    <3> SUFFICES ASSUME b.PreviousSN = Num(l + 1) PROVE FALSE
      BY DEF Order, TopIs
    <3>1. Dist(Num(l + 1), Num(l)) = 1 /\ Dist(Num(l), Num(l)) = 0
      <4>1. 0 <= (l + 1) - l /\ (l + 1) - l < SeqSpace /\ (l + 1) - l = 1
            /\ 0 <= l - l /\ l - l < SeqSpace /\ l - l = 0
        BY Space
      <4> QED
        BY <4>1, NumDist
    <3> QED
      BY <1>1, <1>4, <3>1
  <2>2. c.LastIndSeq = b.LastIndSeq /\ ~c.late
    BY <1>0, <1>1, <1>4
  <2>3. Below(c, l, N)
    BY <1>0, <2>2, BelowSame
  <2> QED
    BY <1>0, <1>1, <1>4, <2>1, <2>2, <2>3
<1>5. CASE m = l + 1
  <2>1. Dist(b.PreviousSN, b.LastIndSeq) = 1
    <3>1. 0 <= m - l /\ m - l < SeqSpace /\ m - l = 1
      BY <1>5, Space
    <3> QED
      BY <1>0, <1>1, <3>1, NumDist
  <2>2. \A i \in 1 .. Len(b.list) :
          /\ Dist(b.list[i].Sequence, b.LastIndSeq) > 1
          /\ Dist(b.list[i].Sequence, b.PreviousSN)
               = Dist(b.list[i].Sequence, b.LastIndSeq) - 1
    BY <1>0, <2>1, BehindNext
  <2>3. \A i \in DOMAIN c.list : Number(c, m, i) = Number(b, l, i)
    <3> TAKE i \in DOMAIN c.list
    <3>1. i \in 1 .. Len(b.list)
      BY <1>0
    <3>2. Number(c, m, i) = l + 1 + (Dist(b.list[i].Sequence, b.LastIndSeq) - 1)
      BY <1>5, <2>2, <3>1 DEF Number
    <3>3. Number(b, l, i) = l + Dist(b.list[i].Sequence, b.LastIndSeq)
          /\ Dist(b.list[i].Sequence, b.LastIndSeq) \in 1 .. BAWinSize
      BY <1>0, <3>1 DEF Number, Behind
    <3> QED
      BY <3>2, <3>3, Space
  <2>4. Below(c, m, N)
    BY <1>0, <1>1, <2>3 DEF Below, Held
  <2>5. c.top.n <= m
    <3>1. b.top.n \in Nat
      BY <1>0, SessionIs
    <3> QED
      BY <1>5, <3>1 DEF Order, TopIs
  <2> QED
    BY <1>0, <1>1, <1>3, <2>4, <2>5
<1> QED
  BY <1>3, <1>4, <1>5

\* amsdu_sanity keeps the order unless it pulls LastIndSeq back.
LEMMA SanityOrder ==
  ASSUME NEW b, Good(b), NEW l \in Nat, NEW N \in Nat, NEW a,
         Order(b, l, N, a), NEW seq, NEW state,
         AmsduMiss(b, seq, state), ~amsdu_sanity(b, seq, state).pulled
  PROVE  \E r \in Nat :
           /\ l <= r /\ Below(amsdu_sanity(b, seq, state), r, N)
           /\ amsdu_sanity(b, seq, state).top.n <= r
           /\ Started(b) => \E m \in {l, l + 1} : b.PreviousSN = Num(m) /\ m <= N
<1> DEFINE p == [Forgotten(b) EXCEPT
                   !.LastIndSeq = b.PreviousSN, !.age = 0,
                   !.pulled = @ \/ SEQ_SMALLER(b.PreviousSN, b.LastIndSeq)]
           c == amsdu_sanity(b, seq, state)
<1>0. /\ b \in Session /\ Behind(b.list, b.LastIndSeq) /\ Sound(b)
      /\ Below(b, l, N) /\ ~b.late /\ l <= N
  BY SoundIs DEF Good, Order, Below
<1>1. CASE b.PreviousReorderCase = "STEP_ONE"
  <2>1. c = InOrder(p)
    BY <1>1 DEF amsdu_sanity
  <2>2. /\ p \in Session /\ p.list = b.list
        /\ p.LastIndSeq = b.PreviousSN /\ p.top = b.top /\ p.late = b.late
        /\ p.pulled = (b.pulled \/ SEQ_SMALLER(b.PreviousSN, b.LastIndSeq))
    BY <1>0, PulledIs
  <2>3. ~c.pulled
    OBVIOUS
  <2> HIDE DEF p, c
  <2>4. Started(b)
    BY <1>1 DEF AmsduMiss, Started, Partial
  <2>5. Behind(p.list, p.LastIndSeq)
    BY <2>2, <2>4 DEF Good, Sound, PullOK
  <2>6. c.pulled = p.pulled
    <3> DEFINE d == InOrder(p)
    <3>1. PICK k \in 0 .. Len(p.list) : Advance(p, d, k)
      BY <2>2, <2>5, InOrderIs
    <3> HIDE DEF d
    <3>2. d.pulled = p.pulled
      BY <3>1 DEF Advance, SameRest
    <3> QED
      BY <2>1, <3>2 DEF d
  <2>7. ~SEQ_SMALLER(b.PreviousSN, b.LastIndSeq)
    BY <2>2, <2>3, <2>6
  <2>8. PICK m \in {l, l + 1} :
           /\ b.PreviousSN = Num(m) /\ m <= N
           /\ Below(p, m, N) /\ p.top.n <= m
           /\ Behind(p.list, p.LastIndSeq)
    BY <2>2, <2>4, <2>7, PulledOrder
  <2>9. m \in Nat
    OBVIOUS
  <2>10. PICK k \in Nat : Below(c, m + k, N) /\ c.top.n <= m + k
    BY <2>1, <2>2, <2>8, <2>9, InOrderBelow
  <2>11. m + k \in Nat /\ l <= m + k
    BY <2>8, <2>10
  <2> QED
    BY <2>8, <2>10, <2>11 DEF c
<1>2. CASE b.PreviousReorderCase # "STEP_ONE"
  <2>1. c = Forgotten(b)
    BY <1>2 DEF amsdu_sanity
  <2>2. /\ c.list = b.list /\ c.LastIndSeq = b.LastIndSeq
        /\ c.top = b.top /\ c.late = b.late
    BY <1>0, <2>1, ForgottenIs
  <2> HIDE DEF c
  <2>3. Below(c, l, N)
    BY <1>0, <2>2, BelowSame
  <2>4. ~Started(b) /\ b.top.n <= l
    BY <1>2 DEF Started, Order, TopIs
  <2> QED
    BY <2>2, <2>3, <2>4 DEF c
<1> QED
  BY <1>1, <1>2

-----------------------------------------------------------------------------
(***************************************************************************)
(* From one MSDU to the next.                                              *)
(***************************************************************************)
LEMMA StateIs ==
  ASSUME NEW p \in MSDUs
  PROVE  /\ p.k > 1 => AmsduState(p) # "FIRST"
         /\ p.k = 1 /\ AmsduState(p) # "FIRST" => Msdus[p.n] = 1
         /\ Complete(p) <=> p.k = Msdus[p.n]
<1> DEFINE m == Msdus[p.n]
<1>1. /\ p.n \in MPDUs /\ p.k \in 1 .. m /\ p.k \in Nat
  BY MsduHas
<1>2. m \in Nat /\ m >= 1
  BY <1>1, MpdusAre
<1>3. AmsduState(p) =
        CASE m = 1 -> "MSDU"
          [] p.k = 1 /\ m > 1 -> "FIRST"
          [] p.k = m /\ p.k > 1 -> "FINAL"
          [] OTHER -> "MIDDLE"
  BY DEF AmsduState
<1> HIDE DEF m
<1>4. CASE m = 1
  <2>1. AmsduState(p) = "MSDU" /\ p.k = m
    BY <1>1, <1>3, <1>4
  <2> QED
    BY <1>4, <2>1 DEF Complete, m
<1>5. CASE m # 1 /\ p.k = 1
  <2>1. AmsduState(p) = "FIRST" /\ p.k # m
    BY <1>2, <1>3, <1>5
  <2> QED
    BY <1>5, <2>1 DEF Complete, m
<1>6. CASE m # 1 /\ p.k # 1 /\ p.k = m
  <2>1. AmsduState(p) = "FINAL"
    BY <1>1, <1>3, <1>6
  <2> QED
    BY <1>6, <2>1 DEF Complete, m
<1>7. CASE m # 1 /\ p.k # 1 /\ p.k # m
  <2>1. AmsduState(p) = "MIDDLE"
    BY <1>1, <1>3, <1>7
  <2> QED
    BY <1>7, <2>1 DEF Complete, m
<1> QED
  BY <1>4, <1>5, <1>6, <1>7

\* MPDUs that are not too far from the window have their own numbers.
LEMMA NumNear ==
  ASSUME NEW l \in Nat, NEW n \in Nat, l < n + BAWinSize, n < l + Half
  PROVE  /\ Dist(Num(n), Num(l)) = IF n >= l THEN n - l ELSE n - l + SeqSpace
         /\ Num(n) = Num(l + 1) => n = l + 1
<1>1. CASE n >= l
  <2>1. 0 <= n - l /\ n - l < SeqSpace
    BY <1>1, Space
  <2> QED
    <3>1. Dist(Num(n), Num(l)) = n - l
      BY <2>1, NumDist
    <3>2. Dist(Num(l + 1), Num(l)) = 1
      <4>1. 0 <= (l + 1) - l /\ (l + 1) - l < SeqSpace /\ (l + 1) - l = 1
        BY Space
      <4> QED
        BY <4>1, NumDist
    <3> QED
      BY <1>1, <3>1, <3>2
<1>2. CASE n < l
  <2>1. -SeqSpace <= n - l /\ n - l < 0
    BY <1>2, Space
  <2>2. Dist(Num(n), Num(l)) = n - l + SeqSpace
    BY <2>1, NumDist
  <2>3. Dist(Num(l + 1), Num(l)) = 1
    <3>1. 0 <= (l + 1) - l /\ (l + 1) - l < SeqSpace /\ (l + 1) - l = 1
      BY Space
    <3> QED
      BY <3>1, NumDist
  <2>4. n - l + SeqSpace # 1
    BY Space
  <2> QED
    BY <1>2, <2>2, <2>3, <2>4
<1> QED
  BY <1>1, <1>2

\* An MSDU that ends no MPDU early fits.
LEMMA GoesOn ==
  ASSUME NEW b, Good(b), NEW l \in Nat, NEW N \in Nat, NEW a,
         Order(b, l, N, a), NEW p \in MSDUs,
         a = p \/ (a = Nothing /\ p.k = 1),
         l < p.n + BAWinSize, p.n < l + Half,
         ~AmsduMiss(b, SN(p), AmsduState(p))
  PROVE  Newer(b, l) /\ Tops(b, l, p) /\ Known(b, l, p) /\ CurFits(b, p)
<1>0. /\ b \in Session /\ Behind(b.list, b.LastIndSeq) /\ Quiet(b)
      /\ p.n \in Nat /\ p.k \in Nat /\ SN(p) = Num(p.n) /\ p # Nothing
      /\ b.LastIndSeq = Num(l) /\ b.list \in Seq(Block)
      /\ DOMAIN b.list = 1 .. Len(b.list) /\ b.top.n \in Nat
  <2>1. b \in Session /\ Behind(b.list, b.LastIndSeq) /\ Quiet(b)
        /\ b.list \in Seq(Block) /\ DOMAIN b.list = 1 .. Len(b.list)
    BY SoundIs DEF Good
  <2>2. b.LastIndSeq = Num(l)
    BY DEF Order, Below, Held
  <2>3. b.top.n \in Nat
    BY <2>1, SessionIs
  <2> QED
    BY <2>1, <2>2, <2>3, MsduHas, NothingAssumption
<1>1. Newer(b, l)
  <2>1. b.top.n <= l \/ (b.top.n <= l + 1 /\ Quiet(b))
    BY <1>0 DEF Order, TopIs
  <2> QED
    BY <1>0, <2>1, NewerIs
<1>2. Known(b, l, p)
  BY <1>0 DEF Order, Expects, Known
<1>3. b.PreviousAmsduState \in Partial /\ a = Nothing =>
        b.PreviousSN = SN(p) /\ Msdus[p.n] = 1
  BY <1>0, StateIs DEF AmsduMiss, Partial
<1>4. Tops(b, l, p)
  <2>1. CASE b.top.n <= l
    BY <2>1 DEF Tops
  <2>2. CASE /\ b.top.n = l + 1 /\ b.PreviousSN = Num(l + 1) /\ Started(b)
             /\ b.top.k >= 1 /\ b.top.k < Msdus[l + 1]
             /\ a \in {Nothing, [n |-> l + 1, k |-> b.top.k + 1]}
    <3>1. CASE a = p
      BY <1>0, <2>2, <3>1 DEF Tops
    <3>2. CASE a = Nothing
      <4>1. Num(p.n) = Num(l + 1) /\ Msdus[p.n] = 1
        BY <1>0, <1>3, <2>2, <3>2 DEF Started
      <4>2. p.n = l + 1
        BY <1>0, <4>1, NumNear
      <4>3. b.top.k \in Nat
        BY <1>0 DEF Session
      <4> QED
        BY <2>2, <4>1, <4>2, <4>3
    <3> QED
      BY <3>1, <3>2
  <2> QED
    BY <2>1, <2>2 DEF Order, TopIs
<1>5. CurFits(b, p)
  <2> SUFFICES ASSUME NEW i \in DOMAIN b.list, b.list[i].Sequence = b.CurMpdu
               PROVE  p.k = Len(b.list[i].pkts) + 1
    BY DEF CurFits
  <2>1. /\ Len(b.list[i].pkts) < Msdus[Number(b, l, i)]
        /\ a # Nothing => a.k = Len(b.list[i].pkts) + 1
    BY DEF Order, CurNext
  <2>2. CASE a = p
    BY <1>0, <2>1, <2>2
  <2>3. CASE a = Nothing
    <3>1. b.CurMpdu # Nothing /\ b.CurMpdu \in SeqNums
      BY <1>0, SessionIs, NothingAssumption
    <3>2. b.CurMpdu = b.PreviousSN /\ b.PreviousAmsduState \in Partial
      BY <3>1 DEF Good, Sound, CurOK
    <3>3. b.CurMpdu = Num(p.n) /\ Msdus[p.n] = 1
      BY <1>0, <1>3, <2>3, <3>2
    <3>4. Dist(Num(p.n), Num(l)) \in 1 .. BAWinSize
      BY <1>0, <3>3 DEF Behind
    <3>5. Dist(Num(p.n), Num(l)) = IF p.n >= l THEN p.n - l ELSE p.n - l + SeqSpace
      BY <1>0, NumNear
    <3>6. p.n >= l /\ Dist(Num(p.n), Num(l)) = p.n - l
      BY <1>0, <3>4, <3>5, Space
    <3>7. Number(b, l, i) = p.n
      <4>1. Number(b, l, i) = l + Dist(Num(p.n), Num(l))
        BY <1>0, <3>3 DEF Number
      <4> QED
        BY <1>0, <3>6, <4>1
    <3>8. Len(b.list[i].pkts) \in Nat /\ Len(b.list[i].pkts) >= 1
      <4> DEFINE x == b.list[i]
      <4>1. x \in Block
        BY <1>0
      <4> HIDE DEF x
      <4>2. x.pkts \in Seq(MSDUs) \ {<<>>}
        BY <4>1 DEF Block
      <4>3. Len(x.pkts) \in Nat /\ Len(x.pkts) >= 1
        BY <4>2
      <4> QED
        BY <4>3 DEF x
    <3> QED
      BY <2>1, <3>3, <3>7, <3>8
  <2> QED
    BY <2>2, <2>3
<1> QED
  BY <1>1, <1>2, <1>4, <1>5

\* So does the first MSDU after an early end.
LEMMA SaneFits ==
  ASSUME NEW b, Good(b), NEW l \in Nat, NEW N \in Nat, NEW a,
         Order(b, l, N, a), NEW p \in MSDUs,
         a = p \/ (a = Nothing /\ p.k = 1),
         N < p.n + BAWinSize, p.n < l + Half,
         NEW M \in Nat, N <= M, p.n <= M,
         ~amsdu_sanity(b, SN(p), AmsduState(p)).pulled
  PROVE  \E r \in Nat :
           /\ Below(amsdu_sanity(b, SN(p), AmsduState(p)), r, N)
           /\ Fits(amsdu_sanity(b, SN(p), AmsduState(p)), r, M, N, p)
<1> DEFINE c == amsdu_sanity(b, SN(p), AmsduState(p))
           miss == AmsduMiss(b, SN(p), AmsduState(p))
<1>0. /\ Below(b, l, N) /\ l <= N /\ N <= l + BAWinSize
      /\ p.n \in Nat /\ p.k \in Nat /\ SN(p) = Num(p.n) /\ p # Nothing
  BY MsduHas, NothingAssumption DEF Order, Below
<1>1. Good(c) /\ (~miss => c = b) /\ (miss => c.CurMpdu = Nothing)
  BY SanityGood
<1>2. CASE ~miss
  <2>1. l < p.n + BAWinSize
    BY <1>0, Space
  <2>2. Newer(b, l) /\ Tops(b, l, p) /\ Known(b, l, p) /\ CurFits(b, p)
    BY <1>2, <2>1, GoesOn
  <2>3. Below(b, l, M)
    BY <1>0, NumberIs, SoundIs DEF Below, Good
  <2>4. Fits(b, l, M, N, p)
    BY <1>0, <2>1, <2>2, <2>3 DEF Fits
  <2> HIDE DEF c
  <2> QED
    BY <1>0, <1>1, <1>2, <2>4 DEF c
<1>3. CASE miss
  <2>1. p.k = 1
    <3> SUFFICES ASSUME a = p PROVE FALSE
      OBVIOUS
    <3>1. p.k > 1 /\ b.PreviousSN = SN(p)
      BY <1>0 DEF Order, Expects
    <3> QED
      BY <1>3, <3>1, StateIs DEF AmsduMiss
  <2>2. PICK r \in Nat : l <= r /\ Below(c, r, N) /\ c.top.n <= r
    BY <1>3, SanityOrder
  <2>3. c.CurMpdu = Nothing /\ Good(c)
    BY <1>1, <1>3
  <2> HIDE DEF c
  <2>4. c \in Session /\ Behind(c.list, c.LastIndSeq)
    BY <2>3, SoundIs DEF Good
  <2>5. r <= N
    BY <2>2 DEF Below
  <2>6. Below(c, r, M)
    BY <2>2, <2>4, NumberIs DEF Below
  <2>7. Newer(c, r)
    BY <2>2, <2>4, NewerIs
  <2>8. Tops(c, r, p) /\ Known(c, r, p)
    BY <2>1, <2>2 DEF Tops, Known
  <2>9. CurFits(c, p)
    BY <2>3, <2>4, SessionIs, NothingAssumption DEF CurFits
  <2>10. N <= r + BAWinSize /\ r < p.n + BAWinSize /\ p.n < r + Half
    BY <1>0, <2>2, <2>5, Space
  <2>11. Fits(c, r, M, N, p)
    BY <2>6, <2>7, <2>8, <2>9, <2>10 DEF Fits
  <2> QED
    BY <2>2, <2>11 DEF c
<1> QED
  BY <1>2, <1>3

LEMMA KeptFits ==
  ASSUME NEW b, Good(b), NEW l \in Nat, NEW N \in Nat, NEW a,
         Order(b, l, N, a), NEW p \in MSDUs,
         a = p \/ (a = Nothing /\ p.k = 1),
         N < p.n + BAWinSize, p.n < l + Half,
         NEW M \in Nat, N <= M, p.n <= M,
         ~Kept(b, p).pulled
  PROVE  \E r \in Nat : Fits(Kept(b, p), r, M, N, p)
<1> DEFINE c == amsdu_sanity(b, SN(p), AmsduState(p))
           flush == Complete(p) \/ AmsduMiss(b, SN(p), AmsduState(p))
<1>0. p.n \in Nat
  BY MsduHas
<1>1. Good(c)
  BY SanityGood
<1>2. Kept(b, p) = IF flush THEN FlushTimeout(c) ELSE c
  BY DEF Kept
<1>3. c.pulled => Kept(b, p).pulled
  <2> HIDE DEF c, flush
  <2>1. CASE flush
    <3>1. PICK m : \E q \in Nat :
           /\ Advance(c, m, q) /\ Within(c, q) /\ Quiet(m)
           /\ FlushTimeout(c) = m \/ FlushTimeout(c) = Forgotten(m)
           /\ q <= BAWinSize
      BY <1>1, FlushTimeoutIs
    <3>2. m \in Session /\ m.pulled = c.pulled
      BY <3>1 DEF Advance, SameRest
    <3>3. Forgotten(m).pulled = m.pulled
      BY <3>2, ForgottenIs
    <3> QED
      BY <1>2, <2>1, <3>1, <3>2, <3>3
  <2>2. CASE ~flush
    BY <1>2, <2>2
  <2> QED
    BY <2>1, <2>2
<1>4. PICK r \in Nat : Below(c, r, N) /\ Fits(c, r, M, N, p)
  BY <1>3, SaneFits
<1> HIDE DEF c, flush
<1>5. CASE ~flush
  BY <1>2, <1>4, <1>5
<1>6. CASE flush
  <2>1. c \in Session /\ Behind(c.list, c.LastIndSeq)
    BY <1>1, SoundIs DEF Good
  <2>2. PICK m : \E q \in Nat :
         /\ Advance(c, m, q) /\ Within(c, q) /\ Quiet(m)
         /\ FlushTimeout(c) = m \/ FlushTimeout(c) = Forgotten(m)
         /\ q <= BAWinSize
    BY <1>1, FlushTimeoutIs
  <2>3. PICK q \in Nat : Advance(c, m, q) /\ Within(c, q)
    BY <2>2
  <2>4. r + q <= N
    BY <1>4, <2>1, <2>3, WithinBelow
  <2>5. r + q <= M /\ r + q < p.n + BAWinSize /\ r + q \in Nat
    BY <1>0, <2>4, Space
  <2>6. Fits(m, r + q, M, N, p) /\ Fits(Forgotten(m), r + q, M, N, p)
    BY <1>4, <2>1, <2>3, <2>5, AdvanceFits
  <2> QED
    BY <1>2, <1>6, <2>2, <2>5, <2>6
<1> QED
  BY <1>5, <1>6

LEMMA KeptIs ==
  ASSUME NEW b, Good(b), NEW p \in MSDUs
  PROVE  LET c == Kept(b, p) IN
         /\ c.REC_BA_Status = b.REC_BA_Status /\ (Clear(c) => Clear(b))
         /\ b.list = <<>> => c.list = <<>> /\ c.top = b.top /\ c.late = b.late
<1> DEFINE s == amsdu_sanity(b, SN(p), AmsduState(p))
           flush == Complete(p) \/ AmsduMiss(b, SN(p), AmsduState(p))
           c == Kept(b, p)
<1>1. /\ s.REC_BA_Status = b.REC_BA_Status
      /\ s.dry = b.dry /\ (~s.pulled => ~b.pulled)
      /\ b.list = <<>> => s.list = <<>> /\ s.top = b.top /\ s.late = b.late
  BY SanityIs
<1>2. c = IF flush THEN FlushTimeout(s) ELSE s
  BY DEF Kept
<1>3. Good(s)
  BY SanityGood
<1> HIDE DEF s, flush, c
<1>4. CASE ~flush
  BY <1>1, <1>2, <1>4 DEF Clear, c
<1>5. CASE flush
  <2>1. PICK m : \E q \in Nat :
         /\ Advance(s, m, q) /\ Within(s, q) /\ Quiet(m)
         /\ FlushTimeout(s) = m \/ FlushTimeout(s) = Forgotten(m)
         /\ q <= BAWinSize
    BY <1>3, FlushTimeoutIs
  <2>2. /\ m \in Session /\ m.REC_BA_Status = s.REC_BA_Status
        /\ m.dry = s.dry /\ m.pulled = s.pulled
    BY <2>1 DEF Advance, SameRest
  <2>3. /\ Forgotten(m).REC_BA_Status = m.REC_BA_Status
        /\ Forgotten(m).dry = m.dry /\ Forgotten(m).pulled = m.pulled
    BY <2>2, ForgottenIs
  <2>4. /\ c.REC_BA_Status = b.REC_BA_Status
        /\ c.dry = s.dry /\ c.pulled = s.pulled
    BY <1>1, <1>2, <1>5, <2>1, <2>2, <2>3
  <2>5. b.list = <<>> => c = s
    BY <1>1, <1>2, <1>5 DEF FlushTimeout
  <2> QED
    BY <1>1, <2>4, <2>5 DEF Clear, c
<1> QED
  BY <1>4, <1>5

LEMMA FollowingAre ==
  ASSUME NEW p \in MSDUs
  PROVE  /\ Following(p) \in MSDUs \cup {Nothing}
         /\ p.k = Msdus[p.n] => Following(p) = Nothing
         /\ p.k # Msdus[p.n] => Following(p) = [n |-> p.n, k |-> p.k + 1]
<1>1. p.n \in MPDUs /\ p.k \in 1 .. Msdus[p.n] /\ p = [n |-> p.n, k |-> p.k]
  BY MsduHas
<1>2. Following(p) \in MSDUs \cup {Nothing}
  BY <1>1, FollowingIs
<1>3. p.k # Msdus[p.n] => Following(p) = [n |-> p.n, k |-> p.k + 1]
  <2>1. [p EXCEPT !.k = @ + 1] = [n |-> p.n, k |-> p.k + 1]
    BY <1>1
  <2> QED
    BY <2>1 DEF Following
<1> QED
  BY <1>2, <1>3 DEF Following

\* What the check of an MSDU leaves is in order once the handler ends.
LEMMA AfterOrder ==
  ASSUME NEW d \in Session, NEW p \in MSDUs, NEW l \in Nat, NEW N \in Nat,
         NEW M \in {N, p.n}, N <= M, p.n <= M, Leave(d, l, M, N, p)
  PROVE  Order(Finished(d, p), l, M, Following(p))
<1> DEFINE e == Finished(d, p)
           a == Following(p)
<1>0. /\ p.n \in Nat /\ p.k \in Nat /\ p.n >= 1 /\ p.k >= 1
      /\ p.k \in 1 .. Msdus[p.n] /\ Msdus[p.n] \in Nat /\ p.n \in MPDUs
      /\ SN(p) = Num(p.n) /\ p = [n |-> p.n, k |-> p.k]
      /\ (Complete(p) <=> p.k = Msdus[p.n])
      /\ (~Complete(p) <=> AmsduState(p) \in Partial)
  <2>1. p.n \in MPDUs
    BY MsduHas
  <2>2. Msdus[p.n] \in Nat
    BY <2>1, MpdusAre
  <2> QED
    BY <2>1, <2>2, MsduHas, StateIs
<1>1. /\ e.list = d.list /\ e.LastIndSeq = d.LastIndSeq
      /\ e.CurMpdu = IF Complete(p) THEN Nothing ELSE d.CurMpdu
      /\ e.PreviousAmsduState = AmsduState(p) /\ e.PreviousSN = SN(p)
      /\ e.PreviousReorderCase = d.PreviousReorderCase
      /\ e.top = d.top /\ e.late = d.late
  BY FinishedIs
<1>2. /\ a \in MSDUs \cup {Nothing}
      /\ Complete(p) => a = Nothing
      /\ ~Complete(p) => a = [n |-> p.n, k |-> p.k + 1]
  BY <1>0, FollowingAre
<1> HIDE DEF e, a
<1>3. Below(e, l, M) /\ \A i : Number(e, l, i) = Number(d, l, i)
  <2>1. Below(d, l, M) /\ ~d.late
    BY DEF Leave, Below
  <2> QED
    BY <1>1, <2>1, BelowSame
<1>4. M <= l + BAWinSize
  BY DEF Leave
<1>5. Started(e) => ~Complete(p) /\ d.PreviousReorderCase = "STEP_ONE"
  BY <1>0, <1>1 DEF Started
<1>6. TopIs(e, l, M, a)
  <2>1. CASE d.top.n <= l
    BY <1>1, <2>1 DEF TopIs
  <2>2. CASE /\ ~Complete(p) /\ d.PreviousReorderCase = "STEP_ONE"
             /\ p.n = l + 1 /\ d.top = p
    <3>1. Started(e)
      BY <1>0, <1>1, <2>2 DEF Started
    <3>2. e.top.k < Msdus[l + 1] /\ e.top.k >= 1 /\ e.top.n = l + 1
      BY <1>0, <1>1, <2>2
    <3>3. a = [n |-> l + 1, k |-> e.top.k + 1]
      BY <1>1, <1>2, <2>2
    <3> QED
      BY <1>0, <1>1, <2>2, <3>1, <3>2, <3>3 DEF TopIs
  <2> QED
    BY <2>1, <2>2 DEF Leave
<1>7. PullsTo(e, l, M)
  <2> SUFFICES ASSUME Started(e)
               PROVE  \E m \in 0 .. l + 1 :
                        e.PreviousSN = Num(m) /\ m <= M /\ M - m < Half
    BY DEF PullsTo
  <2>1. N < p.n + BAWinSize /\ p.n <= l + 1
    BY <1>5 DEF Leave
  <2>2. p.n \in 0 .. l + 1 /\ M - p.n < Half
    BY <1>0, <2>1, Space
  <2> QED
    BY <1>0, <1>1, <2>2
<1>8. Expects(e, l, M, a)
  <2> SUFFICES ASSUME ~Complete(p)
               PROVE  /\ a.k > 1 /\ a.n <= M /\ Known(e, l, a)
                      /\ e.PreviousSN = Num(a.n)
                      /\ e.PreviousAmsduState \in Partial
    BY <1>2 DEF Expects
  <2>1. a.n = p.n /\ a.k = p.k + 1
    BY <1>2
  <2>2. Known(e, l, a)
    BY <1>1, <1>3, <2>1 DEF Leave, Known
  <2> QED
    BY <1>0, <1>1, <2>1, <2>2
<1>9. CurNext(e, l, a)
  <2>1. CASE Complete(p)
    <3>1. e.CurMpdu = Nothing
      BY <1>1, <2>1
    <3> QED
      BY <1>1, <3>1, SessionIs, NothingAssumption DEF CurNext
  <2>2. CASE ~Complete(p)
    <3> SUFFICES ASSUME NEW i \in DOMAIN e.list, e.list[i].Sequence = e.CurMpdu
                 PROVE  /\ Len(e.list[i].pkts) < Msdus[Number(e, l, i)]
                        /\ a # Nothing => a.k = Len(e.list[i].pkts) + 1
      BY DEF CurNext
    <3>1. Number(d, l, i) = p.n /\ Len(d.list[i].pkts) = p.k
      BY <1>1, <2>2 DEF Leave
    <3> QED
      BY <1>0, <1>1, <1>2, <1>3, <2>2, <3>1
  <2> QED
    BY <2>1, <2>2
<1>10. Order(e, l, M, a)
  BY <1>3, <1>4, <1>6, <1>7, <1>8, <1>9 DEF Order
<1> QED
  BY <1>10 DEF e, a

\* The window may go on as long as it does not go past the newest MPDU.
LEMMA AdvanceOrder ==
  ASSUME NEW b \in Session, Behind(b.list, b.LastIndSeq), Quiet(b),
         NEW l \in Nat, NEW N \in Nat, NEW a \in MSDUs \cup {Nothing},
         Order(b, l, N, a), NEW c, NEW q \in Nat, Advance(b, c, q), l + q <= N
  PROVE  Order(c, l + q, N, a) /\ Order(Forgotten(c), l + q, N, a)
<1>0. /\ Below(b, l, N) /\ N <= l + BAWinSize /\ b.top.n \in Nat
      /\ c \in Session /\ SameRest(b, c)
  BY SessionIs DEF Order, Advance
<1>1. Newer(b, l)
  <2>1. b.top.n <= l \/ (b.top.n <= l + 1 /\ Quiet(b))
    BY <1>0 DEF Order, TopIs
  <2> QED
    BY <2>1, NewerIs
<1>2. Below(c, l + q, N) /\ Announced(b, c, l, q)
  BY <1>0, <1>1, AdvanceBelow
<1>3. c.top = b.top \/ (q >= 1 /\ c.top.n <= l + q)
  BY <1>2, AnnouncedTop
<1>4. /\ c.PreviousSN = b.PreviousSN /\ (Started(c) <=> Started(b))
      /\ c.PreviousAmsduState = b.PreviousAmsduState /\ c.CurMpdu = b.CurMpdu
  BY <1>0 DEF SameRest, Started
<1>5. TopIs(c, l + q, N, a)
  <2>1. CASE c.top.n <= l + q
    BY <2>1 DEF TopIs
  <2>2. CASE ~(c.top.n <= l + q)
    <3>1. c.top = b.top /\ b.top.n > l + q
      BY <1>0, <1>3, <2>2
    <3>2. b.top.n = l + 1 /\ q = 0
      BY <1>0, <3>1 DEF Order, TopIs
    <3>3. ~(b.top.n <= l)
      BY <3>2
    <3>4. l + q = l
      BY <3>2
    <3> QED
      BY <1>4, <3>1, <3>3, <3>4 DEF Order, TopIs
  <2> QED
    BY <2>1, <2>2
<1>6. PullsTo(c, l + q, N)
  <2> SUFFICES ASSUME Started(b)
               PROVE  \E m \in 0 .. l + q + 1 :
                        b.PreviousSN = Num(m) /\ m <= N /\ N - m < Half
    BY <1>4 DEF PullsTo
  <2>1. PICK m \in 0 .. l + 1 : b.PreviousSN = Num(m) /\ m <= N /\ N - m < Half
    BY DEF Order, PullsTo
  <2>2. m \in 0 .. l + q + 1
    OBVIOUS
  <2> QED
    BY <2>1, <2>2
<1>7. a # Nothing => a.k > 1 /\ a.n <= N /\ Known(c, l + q, a)
        /\ b.PreviousSN = Num(a.n) /\ b.PreviousAmsduState \in Partial
  <2> SUFFICES ASSUME a # Nothing PROVE Known(c, l + q, a)
    BY DEF Order, Expects
  <2>1. a \in MSDUs /\ Known(b, l, a)
    BY DEF Order, Expects
  <2> QED
    BY <1>2, <2>1, AdvanceKnown
<1>8. CurNext(c, l + q, a)
  <2>1. \A i \in DOMAIN c.list : \E j \in DOMAIN b.list :
          c.list[i] = b.list[j] /\ Number(c, l + q, i) = Number(b, l, j)
    BY AdvanceNumber
  <2>2. CurNext(b, l, a)
    BY DEF Order
  <2> QED
    BY <1>4, <2>1, <2>2 DEF CurNext
<1>9. Order(c, l + q, N, a)
  <2>1. N <= l + q + BAWinSize
    BY <1>0, Space
  <2>2. Expects(c, l + q, N, a)
    BY <1>4, <1>7 DEF Expects
  <2> QED
    BY <1>2, <1>5, <1>6, <1>8, <2>1, <2>2 DEF Order
<1> DEFINE f == Forgotten(c)
           r == l + q
<1>10. /\ f.list = c.list /\ f.LastIndSeq = c.LastIndSeq
       /\ f.top = c.top /\ f.late = c.late /\ f.CurMpdu = Nothing
       /\ f.PreviousSN = c.PreviousSN
       /\ f.PreviousAmsduState = c.PreviousAmsduState
       /\ f.PreviousReorderCase = c.PreviousReorderCase
  BY <1>0, ForgottenIs
<1>11. Order(c, r, N, a)
  BY <1>9
<1> HIDE DEF f, r
<1>12. Order(f, r, N, a)
  <2>1. Below(f, r, N) /\ \A i : Number(f, r, i) = Number(c, r, i)
    <3>1. Below(c, r, N) /\ ~c.late
      BY <1>11 DEF Order, Below
    <3> QED
      BY <1>10, <3>1, BelowSame
  <2>2. TopIs(f, r, N, a) /\ PullsTo(f, r, N)
    BY <1>10, <1>11 DEF Order, TopIs, PullsTo, Started
  <2>3. Expects(f, r, N, a)
    BY <1>10, <1>11, <2>1 DEF Order, Expects, Known
  <2>4. CurNext(f, r, a)
    BY <1>0, <1>10, SessionIs, NothingAssumption DEF CurNext
  <2> QED
    BY <1>11, <2>1, <2>2, <2>3, <2>4 DEF Order
<1> QED
  BY <1>9, <1>12 DEF f, r

-----------------------------------------------------------------------------
(***************************************************************************)
(* The handlers keep the order while no frame laps the recipient.          *)
(***************************************************************************)
\* While LastIndSeq has not been pulled back, no repeated MSDU has lacked room
\* and no frame has lapped the recipient: the window, what is kept and what
\* has gone up belong to consecutive MPDUs, of which N is the newest one heard
\* of, w the start of the peer's window and a the MSDU on the air.
Ordered(b, N, w, a) ==
  /\ ~b.late /\ N < w + BAWinSize
  /\ a # Nothing => N < a.n + BAWinSize
  /\ b.REC_BA_Status = "Initialization" =>
       a = Nothing /\ b.top.n <= N /\ N < w
  /\ b.REC_BA_Status = "Established" => \E l \in Nat : Order(b, l, N, a)

LEMMA FirstFits ==
  ASSUME NEW b \in Session, NEW p \in MSDUs, NEW N \in Nat, N < p.n, p.k = 1,
         b.list = <<>>, b.LastIndSeq = Wrap(SN(p) - 1), b.top.n <= N, ~b.late
  PROVE  Fits(b, p.n - 1, p.n, N, p)
<1> DEFINE l == p.n - 1
<1>0. /\ p.n \in Nat /\ p.n >= 1 /\ SN(p) = Num(p.n) /\ b.top.n \in Nat
      /\ DOMAIN b.list = {}
  BY MsduHas, SessionIs
<1>1. b.LastIndSeq = Num(l)
  <2> DEFINE j == -1
  <2>0. j \in Int /\ p.n \in Int
    BY <1>0
  <2> HIDE DEF j
  <2>1. Wrap(Num(p.n) + j) = Num(p.n + j)
    BY <2>0, NumIs
  <2>2. SN(p) - 1 = SN(p) + j /\ p.n - 1 = p.n + j
    <3>1. SN(p) \in Int
      BY MsduHas DEF SeqNums
    <3> QED
      BY <1>0, <3>1 DEF j
  <2> QED
    BY <1>0, <2>1, <2>2
<1>2. l \in Nat /\ N <= l /\ l <= p.n /\ p.n < l + Half
      /\ N <= l + BAWinSize /\ l < p.n + BAWinSize /\ b.top.n <= l
  BY <1>0, Space
<1> HIDE DEF l
<1>3. Below(b, l, p.n) /\ Newer(b, l) /\ CurFits(b, p)
  BY <1>0, <1>1, <1>2 DEF Below, Held, Newer, CurFits
<1>4. Fits(b, l, p.n, N, p)
  BY <1>0, <1>2, <1>3 DEF Fits, Tops, Known
<1> QED
  BY <1>4 DEF l

\* The handler of an MSDU keeps the order.
LEMMA ReceiveOrder ==
  ASSUME NEW b, Good(b), NEW N \in Nat, NEW w \in Nat,
         NEW a \in MSDUs \cup {Nothing}, NEW p \in MSDUs, NEW room \in BOOLEAN,
         \/ a = p
         \/ a = Nothing /\ p.k = 1 /\ w <= p.n /\ p.n < w + BAWinSize,
         p.n < N - BAWinSize + Half,
         NEW M \in {N, p.n}, N <= M, p.n <= M,
         Clear(ba_reorder(b, p, room))
  PROVE  /\ Clear(b)
         /\ Ordered(b, N, w, a) =>
              Ordered(ba_reorder(b, p, room), M, w, Following(p))
<1> DEFINE k == Kept(b, p)
           i == Initialized(k, p)
           d == Check(i, p, room)
           e == Finished(d, p)
<1>0. /\ p.n \in Nat /\ p.k \in Nat /\ p.n >= 1 /\ p # Nothing /\ M \in Nat
      /\ b.REC_BA_Status \in {"Initialization", "Established"}
  <2>1. b \in Session
    BY SoundIs DEF Good
  <2> QED
    BY <2>1, MsduHas, NothingAssumption DEF Session
<1>1. Good(k) /\ (k.CurMpdu # Nothing => k.CurMpdu = SN(p))
  BY KeptGood
<1>2. /\ k.REC_BA_Status = b.REC_BA_Status /\ (Clear(k) => Clear(b))
      /\ b.list = <<>> => k.list = <<>> /\ k.top = b.top /\ k.late = b.late
  BY KeptIs
<1>3. e = ba_reorder(b, p, room)
  BY ReorderIs
<1> HIDE DEF k
<1>4. /\ Ready(i, SN(p)) /\ i.pulled = k.pulled /\ i.dry = k.dry
      /\ k.REC_BA_Status # "Initialization" => i = k
      /\ k.REC_BA_Status = "Initialization" =>
           /\ i.list = <<>> /\ i.LastIndSeq = Wrap(SN(p) - 1)
           /\ i.top = k.top /\ i.late = k.late
  BY <1>1, InitializedReady
<1> HIDE DEF i
<1>5. Placed(d, p)
  BY <1>4, CheckPlaced
<1>6. /\ d \in Session /\ d.REC_BA_Status = "Established"
      /\ e.REC_BA_Status = "Established" /\ e.late = d.late
      /\ e.pulled = d.pulled /\ e.dry = d.dry
  <2>1. d \in Session /\ d.REC_BA_Status = "Established"
    BY <1>5 DEF Placed
  <2> HIDE DEF d
  <2> QED
    BY <2>1, FinishedIs
<1>7. Clear(d) /\ Clear(i) /\ Clear(k) /\ Clear(b)
  <2>1. Clear(d)
    BY <1>3, <1>6 DEF Clear
  <2>2. Clear(i)
    BY <1>4, <2>1, CheckClear
  <2>3. Clear(k)
    BY <1>4, <2>2 DEF Clear
  <2> QED
    BY <1>2, <2>1, <2>2, <2>3
<1> SUFFICES ASSUME Ordered(b, N, w, a)
             PROVE  Ordered(e, M, w, Following(p))
  BY <1>3, <1>7
<1>8. N < w + BAWinSize /\ N < p.n + BAWinSize
  BY <1>0, Space DEF Ordered
<1>9. \E l \in Nat : Fits(i, l, M, N, p) /\ p.n < w + BAWinSize
  <2>1. CASE b.REC_BA_Status = "Established"
    <3>1. PICK l \in Nat : Order(b, l, N, a)
      BY <2>1 DEF Ordered
    <3>2. N <= l + BAWinSize
      BY <3>1 DEF Order
    <3>3. p.n < l + Half
      BY <1>0, <3>2, Space
    <3>4. p.n < w + BAWinSize
      <4>1. a = p => p.n <= N
        BY <1>0, <3>1 DEF Order, Expects
      <4> QED
        BY <1>0, <1>8, <4>1, Space
    <3>5. ~k.pulled /\ i = k
      BY <1>2, <1>4, <1>7, <2>1 DEF Clear
    <3>6. \E r \in Nat : Fits(k, r, M, N, p)
      <4>1. a = p \/ (a = Nothing /\ p.k = 1)
        OBVIOUS
      <4>2. ~Kept(b, p).pulled
        BY <3>5 DEF k
      <4> QED
        BY <1>0, <1>8, <3>1, <3>3, <4>1, <4>2, KeptFits DEF k
    <3> QED
      BY <3>4, <3>5, <3>6
  <2>2. CASE b.REC_BA_Status = "Initialization"
    <3>1. a = Nothing /\ b.top.n <= N /\ N < w /\ ~b.late
      BY <2>2 DEF Ordered
    <3>2. N < p.n /\ p.k = 1 /\ p.n < w + BAWinSize
      BY <1>0, <3>1
    <3>3. M = p.n
      BY <1>0, <3>2
    <3>4. b.list = <<>>
      BY <2>2 DEF Good, Sound, NewOK
    <3>5. /\ i \in Session /\ i.list = <<>> /\ i.LastIndSeq = Wrap(SN(p) - 1)
          /\ i.top.n <= N /\ ~i.late
      BY <1>2, <1>4, <2>2, <3>1, <3>4 DEF Ready
    <3>6. Fits(i, p.n - 1, p.n, N, p)
      BY <3>2, <3>5, FirstFits
    <3>7. p.n - 1 \in Nat
      BY <1>0
    <3> QED
      BY <3>2, <3>3, <3>6, <3>7
  <2> QED
    BY <1>0, <2>1, <2>2
<1>10. PICK l \in Nat : Enter(i, l, M, N, p)
  BY <1>4, <1>9 DEF Enter
<1>11. PICK m \in Nat : Leave(d, m, M, N, p)
  <2>1. ~Check(i, p, room).dry
    BY <1>7 DEF Clear
  <2> QED
    BY <1>0, <1>10, <2>1, CheckLeave
<1> HIDE DEF d
<1>12. Order(e, m, M, Following(p))
  BY <1>6, <1>11, AfterOrder
<1> HIDE DEF e
<1>13. ~e.late
  BY <1>12 DEF Order, Below
<1>14. M < w + BAWinSize /\ M < p.n + BAWinSize
  BY <1>0, <1>8, <1>9, Space
<1>15. Following(p) # Nothing => Following(p).n = p.n
  BY FollowingAre
<1>16. Ordered(e, M, w, Following(p))
  BY <1>6, <1>12, <1>13, <1>14, <1>15 DEF Ordered
<1> QED
  BY <1>16

\* So does the timeout.
LEMMA FlushOrder ==
  ASSUME NEW b, Good(b), NEW N \in Nat, NEW w \in Nat,
         NEW a \in MSDUs \cup {Nothing}
  PROVE  /\ Clear(FlushTimeout(b)) <=> Clear(b)
         /\ Ordered(b, N, w, a) => Ordered(FlushTimeout(b), N, w, a)
<1> DEFINE c == FlushTimeout(b)
<1>0. b \in Session /\ Behind(b.list, b.LastIndSeq) /\ Quiet(b)
  BY SoundIs DEF Good
<1>1. PICK m : \E q \in Nat :
       /\ Advance(b, m, q) /\ Within(b, q) /\ Quiet(m)
       /\ FlushTimeout(b) = m \/ FlushTimeout(b) = Forgotten(m)
       /\ q <= BAWinSize
  BY FlushTimeoutIs
<1>2. PICK q \in Nat : Advance(b, m, q) /\ Within(b, q)
  BY <1>1
<1>3. c = m \/ c = Forgotten(m)
  BY <1>1
<1>4. b.list = <<>> => c = b
  BY DEF FlushTimeout
<1> HIDE DEF c
<1>5. m \in Session /\ SameRest(b, m)
  BY <1>2 DEF Advance
<1>6. /\ c.REC_BA_Status = b.REC_BA_Status
      /\ c.dry = b.dry /\ c.pulled = b.pulled
  BY <1>3, <1>5, ForgottenIs DEF SameRest
<1>7. ASSUME Ordered(b, N, w, a) PROVE Ordered(c, N, w, a)
  <2>1. CASE b.REC_BA_Status = "Established"
    <3>1. PICK l \in Nat : Order(b, l, N, a)
      BY <1>7, <2>1 DEF Ordered
    <3>2. l + q <= N /\ l + q \in Nat
      <4>1. Below(b, l, N)
        BY <3>1 DEF Order
      <4> QED
        BY <1>0, <1>2, <4>1, WithinBelow
    <3>3. Order(m, l + q, N, a) /\ Order(Forgotten(m), l + q, N, a)
      BY <1>0, <1>2, <3>1, <3>2, AdvanceOrder
    <3>4. Order(c, l + q, N, a)
      BY <1>3, <3>3
    <3>5. ~c.late
      BY <3>4 DEF Order, Below
    <3> QED
      BY <1>6, <1>7, <2>1, <3>2, <3>4, <3>5 DEF Ordered
  <2>2. CASE b.REC_BA_Status = "Initialization"
    <3>1. b.list = <<>>
      BY <2>2 DEF Good, Sound, NewOK
    <3> QED
      BY <1>4, <1>7, <3>1
  <2> QED
    BY <1>0, <2>1, <2>2 DEF Session
<1> QED
  BY <1>6, <1>7 DEF Clear, c

\* And so does a renewal, which leaves the window to the peer.
LEMMA RenewedOrder ==
  ASSUME NEW b, Good(b), NEW N \in Nat, NEW w \in Nat, NEW s \in SeqNums
  PROVE  /\ Clear(Renewed(b, s)) <=> Clear(b)
         /\ Ordered(b, N, w, Nothing) =>
              Ordered(Renewed(b, s), w + BAWinSize - 1, w + BAWinSize, Nothing)
<1> DEFINE c == Renewed(b, s)
<1>0. b \in Session /\ Behind(b.list, b.LastIndSeq) /\ Quiet(b)
  BY SoundIs DEF Good
<1>1. PICK m : \E q \in 0 .. BAWinSize :
        /\ Advance(b, m, q) /\ Within(b, q)
        /\ c \in Session /\ c.list = <<>> /\ c.CurMpdu = Nothing
        /\ ~c.spoilt /\ c.REC_BA_Status = "Initialization"
        /\ c.LastIndSeq = s /\ c.top = m.top /\ c.late = m.late
        /\ c.pulled = b.pulled /\ c.dry = b.dry
  BY RenewedIs
<1>2. PICK q \in 0 .. BAWinSize : Advance(b, m, q) /\ Within(b, q)
  BY <1>1
<1> HIDE DEF c
<1>3. q \in Nat /\ b.top.n \in Nat
  BY <1>0, SessionIs, Space
<1>4. ASSUME Ordered(b, N, w, Nothing)
      PROVE  ~m.late /\ m.top.n <= N
  <2>1. CASE b.REC_BA_Status = "Established"
    <3>1. PICK l \in Nat : Order(b, l, N, Nothing)
      BY <1>4, <2>1 DEF Ordered
    <3>2. Below(b, l, N) /\ l <= N /\ b.top.n <= N
          /\ (b.top.n <= l \/ (b.top.n <= l + 1 /\ Quiet(b)))
      <4>1. Below(b, l, N) /\ l <= N
        BY <3>1 DEF Order, Below
      <4>2. b.top.n <= l \/ (b.top.n = l + 1 /\ l + 1 <= N)
        BY <3>1 DEF Order, TopIs
      <4> QED
        BY <1>0, <1>3, <4>1, <4>2
    <3>3. Newer(b, l)
      BY <1>0, <3>2, NewerIs
    <3>4. l + q <= N
      BY <1>0, <1>2, <1>3, <3>2, WithinBelow
    <3>5. Below(m, l + q, N) /\ Announced(b, m, l, q)
      BY <1>0, <1>2, <1>3, <3>2, <3>3, <3>4, AdvanceBelow
    <3>6. m.top = b.top \/ (q >= 1 /\ m.top.n <= l + q)
      BY <1>0, <1>3, <3>5, AnnouncedTop
    <3>7. m.top.n \in Nat
      <4>1. m \in Session
        BY <1>2 DEF Advance
      <4> QED
        BY <4>1, SessionIs
    <3> QED
      BY <1>3, <3>2, <3>4, <3>5, <3>6, <3>7 DEF Below
  <2>2. CASE b.REC_BA_Status = "Initialization"
    <3>1. b.list = <<>>
      BY <2>2 DEF Good, Sound, NewOK
    <3>2. m.top = b.top /\ m.late = b.late
      BY <1>2, <3>1 DEF Advance
    <3> QED
      BY <1>4, <2>2, <3>2 DEF Ordered
  <2> QED
    BY <1>0, <2>1, <2>2 DEF Session
<1>5. ASSUME Ordered(b, N, w, Nothing)
      PROVE  Ordered(c, w + BAWinSize - 1, w + BAWinSize, Nothing)
  <2>1. ~c.late /\ c.top.n <= N /\ c.REC_BA_Status = "Initialization"
    BY <1>1, <1>4, <1>5
  <2>2. N < w + BAWinSize
    BY <1>5 DEF Ordered
  <2>3. c.top.n \in Nat
    BY <1>1, SessionIs
  <2>4. c.top.n <= w + BAWinSize - 1 /\ w + BAWinSize - 1 < w + BAWinSize
        /\ w + BAWinSize - 1 < w + BAWinSize + BAWinSize
    BY <2>1, <2>2, <2>3, Space
  <2> QED
    BY <2>1, <2>4 DEF Ordered
<1> QED
  BY <1>1, <1>5 DEF Clear, c

\* Raising the newest MPDU heard of changes nothing in what is held.
LEMMA BelowMore ==
  ASSUME NEW b \in Session, Behind(b.list, b.LastIndSeq),
         NEW l \in Nat, NEW N \in Nat, NEW M \in Nat, N <= M, Below(b, l, N)
  PROVE  Below(b, l, M)
<1>1. ASSUME NEW i \in DOMAIN b.list
      PROVE  Number(b, l, i) <= M
  <2>1. Number(b, l, i) \in Nat
    BY NumberIs
  <2>2. Number(b, l, i) <= N
    BY DEF Below
  <2> QED
    BY <2>1, <2>2
<1>2. l <= M
  BY DEF Below
<1> QED
  BY <1>1, <1>2 DEF Below

\* Between two MPDUs what is announced and held is all that matters.
LEMMA BetweenOrder ==
  ASSUME NEW b \in Session, NEW l \in Nat, NEW M \in Nat,
         Below(b, l, M), M <= l + BAWinSize, b.top.n <= l,
         PullsTo(b, l, M), b.CurMpdu = Nothing
  PROVE  Order(b, l, M, Nothing)
<1>1. CurNext(b, l, Nothing)
  BY SessionIs, NothingAssumption DEF CurNext
<1> QED
  BY <1>1 DEF Order, TopIs, Expects

\* What a block-ack request finds once amsdu_sanity has run.
Paused(s, r, N, M) ==
  /\ Below(s, r, N) /\ N <= r + BAWinSize /\ s.top.n <= r
  /\ PullsTo(s, r, M) /\ s.CurMpdu = Nothing

LEMMA BarSane ==
  ASSUME NEW b, Good(b), NEW l \in Nat, NEW N \in Nat,
         Order(b, l, N, Nothing), NEW seq,
         ~amsdu_sanity(b, seq, "FIRST").pulled,
         NEW M \in Nat, N <= M, M < l + Half
  PROVE  \E r \in Nat : Paused(amsdu_sanity(b, seq, "FIRST"), r, N, M)
<1> DEFINE s == amsdu_sanity(b, seq, "FIRST")
<1>0. /\ b \in Session /\ Below(b, l, N) /\ N <= l + BAWinSize
      /\ TopIs(b, l, N, Nothing) /\ CurOK(b)
  BY SoundIs DEF Good, Sound, Order
<1>1. CASE AmsduMiss(b, seq, "FIRST")
  <2>1. PICK r \in Nat :
           /\ l <= r /\ Below(s, r, N) /\ s.top.n <= r
           /\ Started(b) => \E m \in {l, l + 1} : b.PreviousSN = Num(m) /\ m <= N
    BY <1>1, SanityOrder
  <2>2. /\ s.PreviousSN = b.PreviousSN
        /\ s.PreviousAmsduState = b.PreviousAmsduState
        /\ s.PreviousReorderCase = b.PreviousReorderCase
    BY SanityIs
  <2>3. s.CurMpdu = Nothing
    BY <1>1, SanityGood
  <2> HIDE DEF s
  <2>4. PullsTo(s, r, M)
    <3> SUFFICES ASSUME Started(b)
                 PROVE  \E m \in 0 .. r + 1 :
                          b.PreviousSN = Num(m) /\ m <= M /\ M - m < Half
      BY <2>2 DEF PullsTo, Started
    <3>1. PICK m \in {l, l + 1} : b.PreviousSN = Num(m) /\ m <= N
      BY <2>1
    <3>2. m \in 0 .. r + 1 /\ m <= M /\ M - m < Half
      BY <2>1, <3>1, Space
    <3> QED
      BY <3>1, <3>2
  <2>5. N <= r + BAWinSize
    BY <1>0, <2>1, Space
  <2> QED
    BY <2>1, <2>3, <2>4, <2>5 DEF Paused, s
<1>2. CASE ~AmsduMiss(b, seq, "FIRST")
  <2>1. s = b
    BY <1>2, SanityGood
  <2>2. b.PreviousAmsduState \notin Partial
    BY <1>2 DEF AmsduMiss, Partial
  <2>3. ~Started(b) /\ b.CurMpdu = Nothing /\ b.top.n <= l
    BY <1>0, <2>2 DEF Started, CurOK, TopIs
  <2> HIDE DEF s
  <2>4. Paused(b, l, N, M)
    BY <1>0, <2>3 DEF Paused, PullsTo
  <2> QED
    BY <2>1, <2>4 DEF s
<1> QED
  BY <1>1, <1>2

\* How the number of a request compares with the window.
LEMMA BarNumbers ==
  ASSUME NEW r \in Nat, NEW w \in Nat, r < w + BAWinSize, w <= r + Half
  PROVE  /\ SEQ_SMALLER(Num(r), Num(w)) <=> r < w
         /\ r < w => Dist(Num(w), Num(r)) = w - r
<1>1. Num(r) \in SeqNums /\ Num(w) \in SeqNums
  <2>1. r \in Int /\ w \in Int /\ 0 \in Int
    OBVIOUS
  <2> QED
    BY <2>1, NumIs
<1>2. SEQ_SMALLER(Num(r), Num(w)) <=> Dist(Num(r), Num(w)) >= Half
  BY SmallerIs
<1>3. CASE r < w
  <2>1. -SeqSpace <= r - w /\ r - w < 0 /\ 0 <= w - r /\ w - r < SeqSpace
    BY <1>3, Space
  <2>2. Dist(Num(r), Num(w)) = r - w + SeqSpace
        /\ Dist(Num(w), Num(r)) = w - r
    BY <2>1, NumDist
  <2>3. r - w + SeqSpace >= Half
    BY Space
  <2> QED
    BY <1>2, <1>3, <2>2, <2>3
<1>4. CASE ~(r < w)
  <2>1. 0 <= r - w /\ r - w < SeqSpace /\ r - w < Half
    BY <1>4, Space
  <2>2. Dist(Num(r), Num(w)) = r - w
    BY <2>1, NumDist
  <2>3. r - w \in Int /\ Half \in Int
    BY Space
  <2> QED
    BY <1>2, <1>4, <2>1, <2>2, <2>3
<1> QED
  BY <1>3, <1>4

\* Moving the window to the start of the peer's keeps the order.
LEMMA BarMoves ==
  ASSUME NEW s, Good(s), NEW r \in Nat, NEW N \in Nat, NEW M \in Nat,
         NEW w \in Nat, Paused(s, r, N, M), w >= 1, r < w,
         Dist(Num(w), s.LastIndSeq) = w - r,
         SEQ_SMALLER(s.LastIndSeq, Num(w)),
         M \in {N, w - 1}, N <= M, w - 1 <= M
  PROVE  \E x \in Nat : Order(Shift(s, Wrap(Num(w) - 1)), x, M, Nothing)
<1> DEFINE seq == Num(w)
           c == Shift(s, Wrap(seq - 1))
<1>0. /\ s \in Session /\ Behind(s.list, s.LastIndSeq)
      /\ Len(s.list) \in Nat /\ s.top.n \in Nat
      /\ Below(s, r, N) /\ N <= r + BAWinSize /\ s.top.n <= r
      /\ PullsTo(s, r, M) /\ s.CurMpdu = Nothing
  BY SoundIs, SessionIs DEF Good, Paused
<1>1. seq \in SeqNums
  <2>1. w \in Int /\ 0 \in Int
    OBVIOUS
  <2> QED
    BY <2>1, NumIs
<1> HIDE DEF seq
<1>2. PICK q \in Nat :
        /\ Advance(s, c, q)
        /\ q + 1 >= Dist(seq, s.LastIndSeq)
        /\ \/ q + 1 = Dist(seq, s.LastIndSeq)
           \/ \E i \in 1 .. Len(s.list) :
                Dist(s.list[i].Sequence, s.LastIndSeq) = q
  BY <1>0, <1>1, BarStep DEF seq
<1>3. q + 1 >= w - r /\ Dist(seq, s.LastIndSeq) = w - r
  BY <1>2 DEF seq
<1> HIDE DEF c
<1>4. r + q <= M
  <2>1. CASE q + 1 = w - r
    BY <2>1
  <2>2. CASE \E i \in 1 .. Len(s.list) :
                Dist(s.list[i].Sequence, s.LastIndSeq) = q
    <3>1. Within(s, q)
      BY <2>2 DEF Within
    <3>2. r + q <= N
      BY <1>0, <3>1, WithinBelow
    <3> QED
      BY <3>2
  <2> QED
    BY <1>2, <1>3, <2>1, <2>2
<1>5. Below(s, r, M) /\ Newer(s, r)
  BY <1>0, BelowMore, NewerIs
<1>6. Below(c, r + q, M) /\ Announced(s, c, r, q)
  BY <1>0, <1>2, <1>4, <1>5, AdvanceBelow
<1>7. c \in Session /\ SameRest(s, c)
  BY <1>2 DEF Advance
<1>8. c.top.n <= r + q
  <2>1. c.top = s.top \/ c.top.n <= r + q
    BY <1>0, <1>6, AnnouncedTop
  <2> QED
    BY <1>0, <2>1
<1>9. PullsTo(c, r + q, M)
  <2> SUFFICES ASSUME Started(s)
               PROVE  \E m \in 0 .. r + q + 1 :
                        s.PreviousSN = Num(m) /\ m <= M /\ M - m < Half
    BY <1>7 DEF PullsTo, Started, SameRest
  <2>1. PICK m \in 0 .. r + 1 : s.PreviousSN = Num(m) /\ m <= M /\ M - m < Half
    BY <1>0 DEF PullsTo
  <2>2. m \in 0 .. r + q + 1
    OBVIOUS
  <2> QED
    BY <2>1, <2>2
<1>10. M <= r + q + BAWinSize
  BY <1>0, <1>3, Space
<1>11. c.CurMpdu = Nothing /\ r + q \in Nat
  BY <1>0, <1>7 DEF SameRest
<1>12. Order(c, r + q, M, Nothing)
  BY <1>6, <1>7, <1>8, <1>9, <1>10, <1>11, BetweenOrder
<1> QED
  BY <1>11, <1>12 DEF c, seq

\* The handler of a block-ack request keeps the order.
LEMMA BarOrder ==
  ASSUME NEW b, Good(b), NEW N \in Nat, NEW w \in Nat, w >= 1,
         w - 1 < N - BAWinSize + Half,
         NEW M \in {N, w - 1}, N <= M, w - 1 <= M,
         Clear(bar_process(b, Num(w)))
  PROVE  /\ Clear(b)
         /\ Ordered(b, N, w, Nothing) =>
              Ordered(bar_process(b, Num(w)), M, w, Nothing)
<1> DEFINE seq == Num(w)
           s == amsdu_sanity(b, seq, "FIRST")
           c == bar_process(b, seq)
           t == Shift(s, Wrap(seq - 1))
<1>0. /\ M \in Nat /\ seq \in SeqNums /\ b \in Session
      /\ b.REC_BA_Status \in {"Initialization", "Established"}
  <2>1. w \in Int /\ 0 \in Int /\ M \in Nat
    OBVIOUS
  <2>2. b \in Session
    BY SoundIs DEF Good
  <2> QED
    BY <2>1, <2>2, NumIs DEF Session
<1>1. /\ s.REC_BA_Status = b.REC_BA_Status
      /\ s.dry = b.dry /\ (~s.pulled => ~b.pulled)
      /\ b.list = <<>> => s.list = <<>> /\ s.top = b.top /\ s.late = b.late
  BY SanityIs
<1>2. Good(s)
  BY SanityGood
<1>3. c = IF SEQ_SMALLER(s.LastIndSeq, seq) THEN t ELSE s
  BY DEF bar_process
<1>4. Clear(c)
  OBVIOUS
<1>5. s \in Session /\ Behind(s.list, s.LastIndSeq) /\ s.LastIndSeq \in SeqNums
  BY <1>2, SoundIs DEF Good
<1> HIDE DEF seq, s, c
<1>6. SEQ_SMALLER(s.LastIndSeq, seq) => \E q \in Nat : Advance(s, t, q)
  BY <1>0, <1>5, BarStep
<1> HIDE DEF t
<1>7. /\ c.REC_BA_Status = b.REC_BA_Status
      /\ c.dry = s.dry /\ c.pulled = s.pulled
      /\ s.list = <<>> => c.top = s.top /\ c.late = s.late
  <2>1. CASE SEQ_SMALLER(s.LastIndSeq, seq)
    <3>1. PICK q \in Nat : Advance(s, t, q)
      BY <1>6, <2>1
    <3>2. SameRest(s, t) /\ (s.list = <<>> => t.top = s.top /\ t.late = s.late)
      BY <3>1 DEF Advance
    <3> QED
      BY <1>1, <1>3, <2>1, <3>2 DEF SameRest
  <2>2. CASE ~SEQ_SMALLER(s.LastIndSeq, seq)
    BY <1>1, <1>3, <2>2
  <2> QED
    BY <2>1, <2>2
<1>8. ~s.pulled /\ Clear(b)
  BY <1>1, <1>4, <1>7 DEF Clear
<1> SUFFICES ASSUME Ordered(b, N, w, Nothing)
             PROVE  Ordered(c, M, w, Nothing)
  BY <1>8 DEF c, seq
<1>a. N < w + BAWinSize /\ M < w + BAWinSize
  <2>1. N < w + BAWinSize
    BY DEF Ordered
  <2> QED
    BY <2>1, Space
<1>9. CASE b.REC_BA_Status = "Initialization"
  <2>1. b.list = <<>>
    BY <1>9 DEF Good, Sound, NewOK
  <2>2. c.top = b.top /\ c.late = b.late
    BY <1>1, <1>7, <2>1
  <2>3. ~b.late /\ b.top.n <= N /\ N < w
    BY <1>9 DEF Ordered
  <2>4. b.top.n \in Nat
    BY <1>0, SessionIs
  <2>5. b.top.n <= M /\ M < w
    BY <2>3, <2>4
  <2>6. Ordered(c, M, w, Nothing)
    BY <1>0, <1>a, <1>7, <1>9, <2>2, <2>3, <2>5 DEF Ordered
  <2> QED
    BY <2>6
<1>10. CASE b.REC_BA_Status = "Established"
  <2>1. PICK l \in Nat : Order(b, l, N, Nothing)
    BY <1>10 DEF Ordered
  <2>2. N <= l + BAWinSize
    BY <2>1 DEF Order
  <2>3. M < l + Half
    BY <2>2, Space
  <2>4. PICK r \in Nat : Paused(s, r, N, M)
    BY <1>0, <1>8, <2>1, <2>3, BarSane DEF s
  <2>5. Below(s, r, N) /\ r <= N /\ N <= r + BAWinSize /\ s.LastIndSeq = Num(r)
    BY <2>4 DEF Paused, Below, Held
  <2>6. r < w + BAWinSize /\ w <= r + Half
    BY <1>a, <2>5, Space
  <2>7. /\ SEQ_SMALLER(s.LastIndSeq, seq) <=> r < w
        /\ r < w => Dist(seq, s.LastIndSeq) = w - r
    BY <2>5, <2>6, BarNumbers DEF seq
  <2>8. \E x \in Nat : Order(c, x, M, Nothing)
    <3>1. CASE r < w
      <4>1. \E x \in Nat : Order(t, x, M, Nothing)
        BY <1>0, <1>2, <2>4, <2>7, <3>1, BarMoves DEF t, seq
      <4> QED
        BY <1>3, <2>7, <3>1, <4>1
    <3>2. CASE ~(r < w)
      <4>1. M <= r + BAWinSize
        BY <2>5, <3>2, Space
      <4>2. Below(s, r, M)
        BY <1>0, <1>5, <2>5, BelowMore
      <4>3. Order(s, r, M, Nothing)
        BY <1>0, <1>5, <2>4, <4>1, <4>2, BetweenOrder DEF Paused
      <4> QED
        BY <1>3, <2>7, <3>2, <4>3
    <3> QED
      BY <3>1, <3>2
  <2>9. ~c.late
    BY <2>8 DEF Order, Below
  <2>10. Ordered(c, M, w, Nothing)
    BY <1>0, <1>a, <1>7, <1>10, <2>8, <2>9 DEF Ordered
  <2> QED
    BY <2>10
<1> QED
  BY <1>0, <1>9, <1>10

LEMMA TickOrder ==
  ASSUME NEW b, Good(b), b.age < 2
  PROVE  LET c == [b EXCEPT !.age = @ + 1] IN
         /\ Clear(c) <=> Clear(b)
         /\ \A N, w, a : Ordered(b, N, w, a) => Ordered(c, N, w, a)
<1> DEFINE g == b.age + 1
           c == [b EXCEPT !.age = g]
<1>1. b \in Session /\ g \in 0 .. 2
  BY SessionIs DEF Good, Sound
<1> HIDE DEF g
<1>2. /\ c.list = b.list /\ c.LastIndSeq = b.LastIndSeq
      /\ c.CurMpdu = b.CurMpdu /\ c.PreviousSN = b.PreviousSN
      /\ c.PreviousAmsduState = b.PreviousAmsduState
      /\ c.PreviousReorderCase = b.PreviousReorderCase
      /\ c.REC_BA_Status = b.REC_BA_Status
      /\ c.top = b.top /\ c.late = b.late
      /\ c.pulled = b.pulled /\ c.dry = b.dry
  BY <1>1 DEF Session
<1> HIDE DEF c
<1>3. ASSUME NEW N, NEW l, NEW a, Order(b, l, N, a)
      PROVE  Order(c, l, N, a)
  <2>0. Below(b, l, N) /\ ~c.late
    BY <1>2, <1>3 DEF Order, Below
  <2>1. Below(c, l, N) /\ \A i : Number(c, l, i) = Number(b, l, i)
    BY <1>2, <2>0, BelowSame
  <2>2. TopIs(c, l, N, a) /\ PullsTo(c, l, N)
    BY <1>2, <1>3 DEF Order, TopIs, PullsTo, Started
  <2>3. Expects(c, l, N, a)
    BY <1>2, <1>3, <2>1 DEF Order, Expects, Known
  <2>4. CurNext(c, l, a)
    BY <1>2, <1>3, <2>1 DEF Order, CurNext
  <2> QED
    BY <1>3, <2>1, <2>2, <2>3, <2>4 DEF Order
<1>4. ASSUME NEW N, NEW w, NEW a, Ordered(b, N, w, a)
      PROVE  Ordered(c, N, w, a)
  BY <1>2, <1>3, <1>4 DEF Ordered
<1> QED
  BY <1>2, <1>4 DEF Clear, c, g

-----------------------------------------------------------------------------
(***************************************************************************)
(* Delivery in order, of every behaviour.                                  *)
(***************************************************************************)
\* The inductive invariant of delivery in order, with IInv.
OrderInv == Clear(ba) /\ ~heard.lapped => Ordered(ba, heard.newest, wo, air)

LEMMA InitOrder ==
  ASSUME Init
  PROVE  OrderInv
<1>1. /\ ba.top.n = 0 /\ ba.late = FALSE
      /\ ba.REC_BA_Status = "Initialization"
      /\ air = Nothing /\ wo = 1 /\ heard.newest = 0
  BY DEF Init
<1>2. 0 <= 0 /\ 0 < 1 /\ 0 < 1 + BAWinSize
  BY Space
<1> QED
  BY <1>1, <1>2 DEF OrderInv, Ordered

\* What a frame that does not lap the recipient tells of.
LEMMA HearIs ==
  ASSUME Others, NEW n \in 0 .. Len(Msdus), Hear(n), ~heard'.lapped
  PROVE  /\ ~heard.lapped /\ n < heard.newest - BAWinSize + Half
         /\ heard.newest \in Nat /\ heard'.newest \in {heard.newest, n}
         /\ heard.newest <= heard'.newest /\ n <= heard'.newest
<1>1. heard.newest \in Nat /\ n \in Nat /\ Len(Msdus) \in Nat
  BY MpdusAre DEF Others
<1>2. /\ heard'.newest = IF n > heard.newest THEN n ELSE heard.newest
      /\ heard'.lapped = (heard.lapped \/ n >= heard.newest - BAWinSize + Half)
  BY DEF Hear, Half
<1>3. ~(n >= heard.newest - BAWinSize + Half) /\ ~heard.lapped
  BY <1>2
<1> QED
  BY <1>1, <1>2, <1>3, Space

LEMMA NextOrder ==
  ASSUME IInv, OrderInv, [Next]_vars
  PROVE  OrderInv'
<1>0. /\ Good(ba) /\ Others /\ ba \in Session /\ wo \in Nat /\ wo >= 1
      /\ air \in MSDUs \cup {Nothing} /\ heard.newest \in Nat
  BY MpdusAre DEF IInv, Good, Sound, Others
<1> SUFFICES ASSUME Clear(ba'), ~heard'.lapped
             PROVE  Ordered(ba', heard'.newest, wo', air')
  BY DEF OrderInv, Clear, Ordered, Order, Below, Held, TopIs, PullsTo, Expects,
         CurNext, Known, Number, Dist, Started
<1>1. ASSUME NEW n \in MPDUs, NEW k \in 1 .. Msdus[n],
             Receive([n |-> n, k |-> k])
      PROVE  Ordered(ba', heard'.newest, wo', air')
  <2> DEFINE p == [n |-> n, k |-> k]
  <2>1. p \in MSDUs /\ p.n = n /\ p.k = k /\ n \in 0 .. Len(Msdus) /\ n \in Nat
    <3>1. n \in 0 .. Len(Msdus) /\ n \in Nat
      BY MpdusAre
    <3>2. p \in MSDUs
      BY FollowingIs
    <3> QED
      BY <3>1, <3>2
  <2>2. PICK room \in BOOLEAN : ba' = ba_reorder(ba, p, room)
    BY <1>1 DEF Receive
  <2>3. /\ air' = Following(p) /\ wo' = wo /\ Hear(n)
        /\ \/ air = p
           \/ air = Nothing /\ p.k = 1 /\ p.n \in wo .. wo + BAWinSize - 1
    BY <1>1, <2>1 DEF Receive
  <2> HIDE DEF p
  <2>4. /\ ~heard.lapped /\ n < heard.newest - BAWinSize + Half
        /\ heard'.newest \in {heard.newest, n}
        /\ heard.newest <= heard'.newest /\ n <= heard'.newest
    BY <1>0, <2>1, <2>3, HearIs
  <2>5. \/ air = p
        \/ air = Nothing /\ p.k = 1 /\ wo <= p.n /\ p.n < wo + BAWinSize
    BY <1>0, <2>1, <2>3, Space
  <2>6. /\ Clear(ba)
        /\ Ordered(ba, heard.newest, wo, air) =>
             Ordered(ba_reorder(ba, p, room), heard'.newest, wo, Following(p))
    BY <1>0, <2>1, <2>2, <2>4, <2>5, ReceiveOrder
  <2> QED
    BY <2>2, <2>3, <2>4, <2>6 DEF OrderInv
<1>2. CASE ReceiveBAR
  <2> DEFINE v == wo - 1
  <2>1. v \in 0 .. Len(Msdus) /\ v \in Nat /\ wo >= 1
    BY <1>0, MpdusAre DEF Others
  <2>2. /\ air = Nothing /\ air' = Nothing /\ wo' = wo /\ Hear(v)
        /\ ba' = bar_process(ba, Num(wo))
    BY <1>2 DEF ReceiveBAR, Num
  <2> HIDE DEF v
  <2>3. /\ ~heard.lapped /\ v < heard.newest - BAWinSize + Half
        /\ heard'.newest \in {heard.newest, v}
        /\ heard.newest <= heard'.newest /\ v <= heard'.newest
    BY <1>0, <2>1, <2>2, HearIs
  <2>4. /\ Clear(ba)
        /\ Ordered(ba, heard.newest, wo, Nothing) =>
             Ordered(bar_process(ba, Num(wo)), heard'.newest, wo, Nothing)
    BY <1>0, <2>1, <2>2, <2>3, BarOrder DEF v
  <2> QED
    BY <2>2, <2>3, <2>4 DEF OrderInv
<1>3. CASE ba_timeout_monitor
  BY <1>3 DEF OrderInv, ba_timeout_monitor
<1>4. CASE ba_timeout_flush
  <2>1. /\ ba' = (IF due.bit THEN FlushTimeout(ba) ELSE ba)
        /\ UNCHANGED <<air, wo, heard>>
    BY <1>4 DEF ba_timeout_flush
  <2>2. /\ Clear(FlushTimeout(ba)) <=> Clear(ba)
        /\ Ordered(ba, heard.newest, wo, air) =>
             Ordered(FlushTimeout(ba), heard.newest, wo, air)
    BY <1>0, FlushOrder
  <2> QED
    BY <2>1, <2>2 DEF OrderInv
<1>5. CASE ba_rec_session_add
  <2> DEFINE s == Wrap(StartSeq + wo' - 2)
  <2>1. /\ air = Nothing /\ air' = Nothing /\ wo' = wo + BAWinSize
        /\ ba' = Renewed(ba, s)
        /\ heard'.newest = wo' - 1 /\ heard'.lapped = heard.lapped
    BY <1>0, <1>5 DEF ba_rec_session_add, Renewed, Others
  <2>2. s \in SeqNums
    <3>1. StartSeq + wo' - 2 \in Int
      BY <1>0, <2>1, Space DEF SeqNums
    <3> QED
      BY <3>1, WrapIs
  <2> HIDE DEF s
  <2>3. /\ Clear(Renewed(ba, s)) <=> Clear(ba)
        /\ Ordered(ba, heard.newest, wo, Nothing) =>
             Ordered(Renewed(ba, s), wo + BAWinSize - 1, wo + BAWinSize, Nothing)
    BY <1>0, <2>2, RenewedOrder
  <2>4. heard'.newest = wo + BAWinSize - 1
    BY <1>0, <2>1, Space
  <2>5. Clear(ba) /\ Ordered(ba, heard.newest, wo, Nothing)
    BY <2>1, <2>3 DEF OrderInv
  <2> QED
    BY <2>1, <2>3, <2>4, <2>5
<1>6. CASE LoseRest
  <2>1. /\ ba' = ba /\ wo' = wo /\ heard' = heard /\ air' = Nothing
    BY <1>6 DEF LoseRest
  <2>2. Ordered(ba, heard.newest, wo, air)
    BY <2>1 DEF OrderInv
  <2>3. Ordered(ba, heard.newest, wo, Nothing)
    BY <2>2 DEF Ordered, Order, TopIs, Expects, CurNext
  <2> QED
    BY <2>1, <2>3
<1>7. CASE SlideWindow
  <2>1. ba' = ba /\ wo' = wo + 1 /\ heard' = heard /\ air' = air
    BY <1>7 DEF SlideWindow
  <2>2. Ordered(ba, heard.newest, wo, air)
    BY <2>1 DEF OrderInv
  <2>3. /\ heard.newest < wo + BAWinSize => heard.newest < wo + 1 + BAWinSize
        /\ heard.newest < wo => heard.newest < wo + 1
    BY <1>0, Space
  <2>4. Ordered(ba, heard.newest, wo + 1, air)
    BY <2>2, <2>3 DEF Ordered
  <2> QED
    BY <2>1, <2>4
<1>8. CASE Tick
  <2>1. /\ ba.age < 2 /\ ba' = [ba EXCEPT !.age = @ + 1]
        /\ air' = air /\ wo' = wo /\ heard' = heard
    BY <1>8 DEF Tick
  <2> DEFINE c == [ba EXCEPT !.age = @ + 1]
  <2>2. /\ Clear(c) <=> Clear(ba)
        /\ \A N, w, a : Ordered(ba, N, w, a) => Ordered(c, N, w, a)
    BY <1>0, <2>1, TickOrder
  <2>3. ba' = c
    BY <2>1
  <2> HIDE DEF c
  <2> QED
    BY <2>1, <2>2, <2>3 DEF OrderInv
<1>9. CASE UNCHANGED vars
  BY <1>9 DEF OrderInv, vars
<1> QED
  BY <1>1, <1>2, <1>3, <1>4, <1>5, <1>6, <1>7, <1>8, <1>9 DEF Next

\* Reordering buffer: MSDUs go up in the peer's order, each at most once,
\* whatever is lost, repeated, timed out or asked for by block-ack requests,
\* unless amsdu_sanity has set LastIndSeq back, a repeated MSDU found no room
\* beside its first copy, or the peer got half the sequence numbers ahead
\* unheard.
THEOREM UpInOrder == Spec => []InOrderUnlessPulled
<1>1. Spec => [](IInv /\ OrderInv)
  <2>1. Init => IInv /\ OrderInv
    BY InitInv, InitOrder
  <2>2. IInv /\ OrderInv /\ [Next]_vars => IInv' /\ OrderInv'
    BY NextInv, NextOrder
  <2> QED
    BY <2>1, <2>2, PTL DEF Spec
<1>2. ASSUME IInv, OrderInv PROVE InOrderUnlessPulled
  <2> SUFFICES ASSUME ~ba.pulled, ~ba.dry, ~heard.lapped PROVE ~ba.late
    BY DEF InOrderUnlessPulled
  <2>1. Ordered(ba, heard.newest, wo, air)
    BY <1>2 DEF OrderInv, Clear
  <2> QED
    BY <2>1 DEF Ordered
<1> QED
  BY <1>1, <1>2, PTL
=============================================================================
