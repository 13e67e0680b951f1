---------------------------- MODULE SlicesProofs ------------------------------
(***************************************************************************)
(* What the operators that the modules of the instances build their slices   *)
(* with return, whatever the slice.                                         *)
(***************************************************************************)
EXTENDS Slices, Integers, SequencesExt, FiniteSetTheorems, SequenceTheorems, WellFoundedInduction, TLAPS

(* A set of natural numbers that is not empty has a least element. *)
LEMMA LeastElement ==
  ASSUME NEW S \in SUBSET Nat, S # {}
  PROVE  \E m \in S : \A n \in S : m <= n
  <1> DEFINE R == OpToRel(<, Nat)
  <1>1. IsWellFoundedOn(R, Nat)
    BY NatLessThanWellFounded
  <1>2. \A j, k \in Nat : j < k => <<j, k>> \in R
    BY DEF OpToRel
  <1> HIDE DEF R
  <1>3. PICK m \in S : \A n \in S : ~(<<n, m>> \in R)
    BY <1>1, WFMin
  <1>4. ASSUME NEW n \in S PROVE m <= n
    <2>1. m \in Nat /\ n \in Nat
      OBVIOUS
    <2>2. ~(n < m)
      BY <1>2, <1>3, <2>1
    <2> QED
      BY <2>1, <2>2
  <1> QED
    BY <1>4

(* The places of a slice whose elements are wanted are numbered one by one.  *)
LEMMA RankBijection ==
  ASSUME NEW n \in Nat, NEW I \in SUBSET (1..n)
  PROVE  LET Rank(k) == Cardinality({j \in I : j <= k})
         IN  /\ IsFiniteSet(I) /\ Cardinality(I) \in 0..n
             /\ \A k \in I : Rank(k) \in 1..Cardinality(I)
             /\ \A k, l \in I : k < l => Rank(k) < Rank(l)
             /\ \A i \in 1..Cardinality(I) : \E k \in I : Rank(k) = i
  <1> DEFINE Upto(k) == {j \in I : j <= k}
             Rank(k) == Cardinality(Upto(k))
             c == Cardinality(I)
  <1>1. IsFiniteSet(I) /\ c \in 0..n
    <2>1. IsFiniteSet(1..n) /\ Cardinality(1..n) = n
      BY FS_Interval
    <2>2. IsFiniteSet(I) /\ Cardinality(I) <= n
      BY <2>1, FS_Subset
    <2>3. Cardinality(I) \in Nat
      BY <2>2, FS_CardinalityType
    <2> QED
      BY <2>2, <2>3
  <1>2. \A k \in I : IsFiniteSet(Upto(k)) /\ Rank(k) \in 1..c
    <2> SUFFICES ASSUME NEW k \in I PROVE IsFiniteSet(Upto(k)) /\ Rank(k) \in 1..c
      OBVIOUS
    <2>1. Upto(k) \in SUBSET I /\ Upto(k) # {}
      OBVIOUS
    <2>2. IsFiniteSet(Upto(k)) /\ Rank(k) \in Nat /\ Rank(k) <= c
      BY <1>1, <2>1, FS_Subset, FS_CardinalityType
    <2>3. Rank(k) # 0
      BY <2>1, <2>2, FS_EmptySet
    <2> QED
      BY <1>1, <2>2, <2>3
  <1>3. \A k, l \in I : k < l => Rank(k) < Rank(l)
    <2> SUFFICES ASSUME NEW k \in I, NEW l \in I, k < l PROVE Rank(k) < Rank(l)
      OBVIOUS
    <2>1. Upto(k) \in SUBSET Upto(l) /\ l \in Upto(l) /\ l \notin Upto(k)
      <3>1. k \in Int /\ l \in Int /\ \A j \in I : j \in Int
        OBVIOUS
      <3>2. \A j \in I : j <= k => j <= l
        BY <3>1
      <3>3. l <= l /\ ~(l <= k)
        BY <3>1
      <3> QED
        BY <3>2, <3>3
    <2>2. Rank(k) <= Rank(l) /\ Rank(k) # Rank(l)
      BY <1>2, <2>1, FS_Subset
    <2> QED
      BY <1>2, <2>2
  <1>4. \A i \in 1..c : \E k \in I : Rank(k) = i
    <2> DEFINE f == [k \in I |-> Rank(k)]
    <2>1. f \in [I -> 1..c] /\ \A k, l \in I : f[k] = f[l] => k = l
      <3>1. \A k, l \in I : Rank(k) = Rank(l) => k = l
        <4> SUFFICES ASSUME NEW k \in I, NEW l \in I, k # l PROVE Rank(k) # Rank(l)
          OBVIOUS
        <4>1. k \in Int /\ l \in Int
          OBVIOUS
        <4>2. k < l \/ l < k
          BY <4>1
        <4> QED
          BY <1>2, <1>3, <4>2
      <3> QED
        BY <1>2, <3>1
    <2>2. f \in Injection(I, 1..c)
      BY <2>1 DEF Injection, IsInjective
    <2>3. IsFiniteSet(1..c) /\ Cardinality(1..c) = c
      BY <1>1, FS_Interval
    <2>4. f \in Surjection(I, 1..c)
      BY <1>1, <2>2, <2>3, FS_Injection
    <2> QED
      BY <2>4 DEF Surjection
  <1> QED
    BY <1>1, <1>2, <1>3, <1>4
-----------------------------------------------------------------------------
(* How Filter picks: at growing places, each wanted one once. *)
LEMMA FilterPlaces ==
  ASSUME NEW S, NEW s \in Seq(S), NEW wanted
  PROVE  LET t == Filter(s, wanted)
         IN  /\ t \in Seq(S)
             /\ \E f \in [DOMAIN t -> {k \in DOMAIN s : s[k] \in wanted}] :
                  /\ \A n \in DOMAIN t : t[n] = s[f[n]]
                  /\ \A m, n \in DOMAIN t : m < n => f[m] < f[n]
                  /\ \A k \in DOMAIN s : s[k] \in wanted => \E n \in DOMAIN t : f[n] = k
  <1> DEFINE I == {k \in DOMAIN s : s[k] \in wanted}
             Rank(k) == Cardinality({j \in I : j <= k})
             c == Cardinality(I)
             f == [n \in 1..c |-> CHOOSE k \in I : Rank(k) = n]
             t == Filter(s, wanted)
  <1>1. DOMAIN s = 1..Len(s) /\ Len(s) \in Nat /\ \A k \in DOMAIN s : s[k] \in S
    BY LenProperties, ElementOfSeq
  <1>2. /\ c \in Nat
        /\ \A k \in I : Rank(k) \in 1..c
        /\ \A k, l \in I : k < l => Rank(k) < Rank(l)
        /\ \A i \in 1..c : \E k \in I : Rank(k) = i
    <2>1. I \in SUBSET (1..Len(s))
      BY <1>1
    <2> HIDE DEF I
    <2>2. Len(s) \in Nat
      BY <1>1
    <2>3. /\ IsFiniteSet(I) /\ c \in 0..Len(s)
          /\ \A k \in I : Rank(k) \in 1..c
          /\ \A k, l \in I : k < l => Rank(k) < Rank(l)
          /\ \A i \in 1..c : \E k \in I : Rank(k) = i
      BY ONLY <2>1, <2>2, RankBijection
    <2> HIDE DEF c, Rank
    <2>4. c \in Nat
      BY <2>2, <2>3
    <2> QED
      BY <2>3, <2>4
  <1>3. t = [n \in 1..c |-> s[CHOOSE k \in I : Rank(k) = n]]
    BY DEF Filter
  <1>4. \A k \in I : k \in Int /\ k \in DOMAIN s
    BY <1>1
  <1> HIDE DEF I, Rank, t
  <1>5. \A n \in 1..c : f[n] \in I /\ Rank(f[n]) = n
    BY <1>2
  <1>6. DOMAIN t = 1..c /\ \A n \in 1..c : t[n] = s[f[n]]
    BY <1>3
  <1> HIDE DEF f, c
  <1>7. t \in Seq(S)
    <2>1. t \in [1..c -> S]
      <3>1. \A n \in 1..c : t[n] \in S
        BY <1>1, <1>4, <1>5, <1>6
      <3> QED
        BY <1>3, <1>6, <3>1
    <2> QED
      BY <1>2, <2>1, SeqDef
  <1>8. \A m, n \in 1..c : m < n => f[m] < f[n]
    <2> SUFFICES ASSUME NEW m \in 1..c, NEW n \in 1..c, m < n PROVE f[m] < f[n]
      OBVIOUS
    <2>1. m \in Int /\ n \in Int /\ f[m] \in Int /\ f[n] \in Int
      BY <1>2, <1>4, <1>5
    <2>2. CASE f[m] = f[n]
      BY <2>1, <2>2, <1>5
    <2>3. CASE f[n] < f[m]
      <3>1. n < m
        BY <2>3, <1>2, <1>5
      <3> QED
        BY <2>1, <3>1
    <2> QED
      BY <2>1, <2>2, <2>3
  <1>9. \A k \in I : \E n \in 1..c : f[n] = k
    <2> SUFFICES ASSUME NEW k \in I PROVE f[Rank(k)] = k /\ Rank(k) \in 1..c
      OBVIOUS
    <2>1. Rank(k) \in 1..c /\ Rank(k) \in Int
      BY <1>2
    <2>2. f[Rank(k)] \in I /\ Rank(f[Rank(k)]) = Rank(k)
      BY <1>5, <2>1
    <2>3. ~(f[Rank(k)] < k) /\ ~(k < f[Rank(k)])
      BY <1>2, <2>1, <2>2
    <2> QED
      BY <1>4, <2>1, <2>2, <2>3
  <1>10. f \in [DOMAIN t -> I]
    BY <1>5, <1>6 DEF f
  <1>11. \A k \in DOMAIN s : s[k] \in wanted => k \in I
    BY DEF I
  <1>12. \E g \in [DOMAIN t -> I] :
           /\ \A n \in DOMAIN t : t[n] = s[g[n]]
           /\ \A m, n \in DOMAIN t : m < n => g[m] < g[n]
           /\ \A k \in DOMAIN s : s[k] \in wanted => \E n \in DOMAIN t : g[n] = k
    <2> WITNESS f \in [DOMAIN t -> I]
    <2> QED
      BY <1>6, <1>8, <1>9, <1>11
  <1> QED
    BY <1>7, <1>12 DEF I, t

(* What is wanted of a slice, and no more often than it was there. *)
LEMMA FilterProperties ==
  ASSUME NEW S, NEW s \in Seq(S), NEW wanted
  PROVE  /\ Filter(s, wanted) \in Seq(S)
         /\ ToSet(Filter(s, wanted)) = ToSet(s) \cap wanted
         /\ IsInjective(s) => IsInjective(Filter(s, wanted))
  <1> DEFINE t == Filter(s, wanted)
             I == {k \in DOMAIN s : s[k] \in wanted}
  <1>1. /\ t \in Seq(S)
        /\ \E f \in [DOMAIN t -> I] :
             /\ \A n \in DOMAIN t : t[n] = s[f[n]]
             /\ \A m, n \in DOMAIN t : m < n => f[m] < f[n]
             /\ \A k \in DOMAIN s : s[k] \in wanted => \E n \in DOMAIN t : f[n] = k
    BY ONLY s \in Seq(S), FilterPlaces
  <1>2. PICK f \in [DOMAIN t -> I] :
             /\ \A n \in DOMAIN t : t[n] = s[f[n]]
             /\ \A m, n \in DOMAIN t : m < n => f[m] < f[n]
             /\ \A k \in DOMAIN s : s[k] \in wanted => \E n \in DOMAIN t : f[n] = k
    BY <1>1
  <1>3. DOMAIN t = 1..Len(t) /\ DOMAIN s = 1..Len(s)
    BY <1>1, LenProperties
  <1> HIDE DEF t
  <1>4. ToSet(t) = ToSet(s) \cap wanted
    <2>1. ASSUME NEW n \in DOMAIN t PROVE t[n] \in ToSet(s) \cap wanted
      BY <1>2 DEF ToSet
    <2>2. ASSUME NEW k \in DOMAIN s, s[k] \in wanted PROVE s[k] \in ToSet(t)
      BY <1>2, <2>2 DEF ToSet
    <2> QED
      BY <2>1, <2>2 DEF ToSet
  <1>5. IsInjective(s) => IsInjective(t)
    <2> SUFFICES ASSUME IsInjective(s), NEW m \in DOMAIN t, NEW n \in DOMAIN t, t[m] = t[n]
                 PROVE  m = n
      BY DEF IsInjective
    <2>1. f[m] = f[n] /\ f[m] \in Int
      BY <1>2, <1>3 DEF IsInjective
    <2>2. ~(m < n) /\ ~(n < m)
      BY <1>2, <2>1
    <2> QED
      BY <1>3, <2>2
  <1> QED
    BY <1>1, <1>4, <1>5 DEF t

(* A filter that wants every element copies the slice. *)
LEMMA FilterAll ==
  ASSUME NEW S, NEW s \in Seq(S), NEW wanted, \A k \in DOMAIN s : s[k] \in wanted
  PROVE  Filter(s, wanted) = s
  <1> DEFINE n == Len(s)
             I == {k \in DOMAIN s : s[k] \in wanted}
             Rank(k) == Cardinality({j \in I : j <= k})
             t == Filter(s, wanted)
  <1>1. DOMAIN s = 1..n /\ n \in Nat
    BY LenProperties
  <1>2. I = 1..n /\ Cardinality(I) = n
    <2>1. I = 1..n
      BY <1>1
    <2>2. Cardinality(1..n) = n
      BY <1>1, FS_Interval
    <2> HIDE DEF n, I
    <2> QED
      BY <2>1, <2>2
  <1>3. ASSUME NEW k \in 1..n PROVE Rank(k) = k
    <2>1. {j \in I : j <= k} = 1..k
      BY <1>1, <1>2
    <2>2. Cardinality(1..k) = k
      BY FS_Interval
    <2> QED
      BY <2>1, <2>2
  <1>4. t = [m \in 1..n |-> s[CHOOSE k \in I : Rank(k) = m]]
    BY <1>2 DEF Filter
  <1> HIDE DEF Rank, I
  <1>5. \A m \in 1..n : (CHOOSE k \in I : Rank(k) = m) = m
    BY <1>2, <1>3
  <1>6. t = [m \in 1..n |-> s[m]]
    BY <1>4, <1>5
  <1>7. s = [m \in 1..n |-> s[m]]
    BY <1>1, SeqDef
  <1> QED
    BY <1>6, <1>7

(* Head, Tail and Append, seen as sets. *)
LEMMA TailProperties ==
  ASSUME NEW S, NEW s \in Seq(S), s # <<>>
  PROVE  /\ Head(s) \in S /\ Head(s) \in ToSet(s)
         /\ Tail(s) \in Seq(S)
         /\ ToSet(s) = {Head(s)} \cup ToSet(Tail(s))
         /\ IsInjective(s) => IsInjective(Tail(s)) /\ Head(s) \notin ToSet(Tail(s))
  <1>1. /\ Len(s) \in Nat \ {0} /\ DOMAIN s = 1..Len(s)
        /\ Head(s) \in S /\ Tail(s) \in Seq(S) /\ Len(Tail(s)) = Len(s) - 1
        /\ \A i \in 1..Len(Tail(s)) : Tail(s)[i] = s[i + 1]
    BY HeadTailProperties, EmptySeq, LenProperties
  <1>2. Head(s) = s[1] /\ 1 \in DOMAIN s
    BY <1>1
  <1>3. DOMAIN Tail(s) = 1..(Len(s) - 1)
    BY <1>1, LenProperties
  <1> DEFINE t == Tail(s)
  <1> HIDE DEF t
  <1>4. \A i \in DOMAIN t : i + 1 \in DOMAIN s /\ i + 1 # 1 /\ t[i] = s[i + 1] /\ i \in Int
    BY <1>1, <1>3 DEF t
  <1>5. \A k \in DOMAIN s : k = 1 \/ (k - 1 \in DOMAIN t /\ s[k] = t[k - 1])
    BY <1>1, <1>3 DEF t
  <1>6. ToSet(s) = {Head(s)} \cup ToSet(t)
    <2>1. ASSUME NEW k \in DOMAIN s PROVE s[k] \in {Head(s)} \cup ToSet(t)
      BY <1>2, <1>5 DEF ToSet
    <2>2. ASSUME NEW i \in DOMAIN t PROVE t[i] \in ToSet(s)
      BY <1>4 DEF ToSet
    <2> QED
      BY <1>2, <2>1, <2>2 DEF ToSet
  <1>7. ASSUME IsInjective(s) PROVE IsInjective(t) /\ Head(s) \notin ToSet(t)
    <2>1. \A i, j \in DOMAIN t : t[i] = t[j] => i = j
      <3> SUFFICES ASSUME NEW i \in DOMAIN t, NEW j \in DOMAIN t, t[i] = t[j] PROVE i = j
        OBVIOUS
      <3>1. i + 1 = j + 1
        BY <1>4, <1>7 DEF IsInjective
      <3> QED
        BY <1>4, <3>1
    <2>2. \A i \in DOMAIN t : t[i] # s[1]
      BY <1>2, <1>4, <1>7 DEF IsInjective
    <2> QED
      BY <1>2, <2>1, <2>2 DEF IsInjective, ToSet
  <1> QED
    BY <1>1, <1>2, <1>6, <1>7 DEF t, ToSet

LEMMA AppendSet ==
  ASSUME NEW S, NEW s \in Seq(S), NEW e \in S
  PROVE  /\ Append(s, e) \in Seq(S)
         /\ ToSet(Append(s, e)) = ToSet(s) \cup {e}
         /\ IsInjective(s) /\ e \notin ToSet(s) => IsInjective(Append(s, e))
  <1> DEFINE t == Append(s, e)
  <1>1. /\ t \in Seq(S) /\ Len(t) = Len(s) + 1 /\ Len(s) \in Nat
        /\ \A i \in 1..Len(s) : t[i] = s[i]
        /\ t[Len(s) + 1] = e
    BY AppendProperties, LenProperties
  <1>2. DOMAIN s = 1..Len(s) /\ DOMAIN t = 1..(Len(s) + 1)
    BY <1>1, LenProperties
  <1> HIDE DEF t
  <1>3. \A i \in DOMAIN t : i = Len(s) + 1 \/ (i \in DOMAIN s /\ t[i] = s[i])
    BY <1>1, <1>2
  <1>4. Len(s) + 1 \in DOMAIN t /\ \A i \in DOMAIN s : i \in DOMAIN t /\ t[i] = s[i]
    BY <1>1, <1>2
  <1>5. ToSet(t) = ToSet(s) \cup {e}
    BY <1>1, <1>3, <1>4 DEF ToSet
  <1>6. IsInjective(s) /\ e \notin ToSet(s) => IsInjective(t)
    BY <1>1, <1>3 DEF IsInjective, ToSet
  <1> QED
    BY <1>1, <1>5, <1>6 DEF t

(* The element at place k leaves, and what is behind it moves up. *)
LEMMA RemoveAtProperties ==
  ASSUME NEW S, NEW s \in Seq(S), NEW k \in 1..Len(s)
  PROVE  /\ RemoveAt(s, k) \in Seq(S) /\ Len(RemoveAt(s, k)) = Len(s) - 1
         /\ \A j \in 1..(Len(s) - 1) : RemoveAt(s, k)[j] = IF j < k THEN s[j] ELSE s[j + 1]
  <1> DEFINE a == SubSeq(s, 1, k - 1)
             b == SubSeq(s, k + 1, Len(s))
  <1>1. Len(s) \in Nat /\ k \in Nat /\ \A i \in 1..Len(s) : s[i] \in S
    BY LenProperties, ElementOfSeq
  <1>2. a \in Seq(S) /\ Len(a) = k - 1 /\ \A i \in 1..(k - 1) : a[i] = s[i]
    <2>1. \A i \in 1..(k - 1) : s[i] \in S
      BY <1>1
    <2>2. /\ a \in Seq(S) /\ Len(a) = IF 1 <= k - 1 THEN k - 1 - 1 + 1 ELSE 0
          /\ \A i \in 1..(k - 1 - 1 + 1) : a[i] = s[1 + i - 1]
      BY <1>1, <2>1, SubSeqProperties
    <2> HIDE DEF a
    <2> QED
      BY <1>1, <2>2
  <1>3. b \in Seq(S) /\ Len(b) = Len(s) - k /\ \A i \in 1..(Len(s) - k) : b[i] = s[k + i]
    <2>1. \A i \in (k + 1)..Len(s) : s[i] \in S
      BY <1>1
    <2>2. /\ b \in Seq(S) /\ Len(b) = IF k + 1 <= Len(s) THEN Len(s) - (k + 1) + 1 ELSE 0
          /\ \A i \in 1..(Len(s) - (k + 1) + 1) : b[i] = s[k + 1 + i - 1]
      BY <1>1, <2>1, SubSeqProperties
    <2> HIDE DEF b
    <2> QED
      BY <1>1, <2>2
  <1> HIDE DEF a, b
  <1>4. /\ a \o b \in Seq(S) /\ Len(a \o b) = Len(a) + Len(b)
        /\ \A i \in 1..(Len(a) + Len(b)) :
             (a \o b)[i] = IF i <= Len(a) THEN a[i] ELSE b[i - Len(a)]
    BY <1>2, <1>3, ConcatProperties
  <1>5. Len(a) + Len(b) = Len(s) - 1
    BY <1>1, <1>2, <1>3
  <1>6. ASSUME NEW j \in 1..(Len(s) - 1)
        PROVE  (a \o b)[j] = IF j < k THEN s[j] ELSE s[j + 1]
    <2>1. CASE j < k
      <3>1. j \in 1..(k - 1) /\ j <= Len(a) /\ j \in 1..(Len(a) + Len(b))
        BY <1>1, <1>2, <1>5, <2>1
      <3> QED
        BY <1>2, <1>4, <2>1, <3>1
    <2>2. CASE ~(j < k)
      <3>1. /\ j - (k - 1) \in 1..(Len(s) - k) /\ ~(j <= Len(a)) /\ j \in 1..(Len(a) + Len(b))
            /\ k + (j - (k - 1)) = j + 1 /\ j - Len(a) = j - (k - 1)
        BY <1>1, <1>2, <1>5, <2>2
      <3> QED
        BY <1>3, <1>4, <2>2, <3>1
    <2> QED
      BY <2>1, <2>2
  <1> QED
    BY <1>4, <1>5, <1>6 DEF RemoveAt, a, b

LEMMA RemoveAtSet ==
  ASSUME NEW S, NEW s \in Seq(S), NEW k \in 1..Len(s), IsInjective(s)
  PROVE  ToSet(RemoveAt(s, k)) = ToSet(s) \ {s[k]} /\ IsInjective(RemoveAt(s, k))
  <1> DEFINE t == RemoveAt(s, k)
  <1>1. /\ t \in Seq(S) /\ Len(t) = Len(s) - 1 /\ Len(s) \in Nat
        /\ \A j \in 1..(Len(s) - 1) : t[j] = IF j < k THEN s[j] ELSE s[j + 1]
    BY RemoveAtProperties, LenProperties
  <1>2. DOMAIN s = 1..Len(s) /\ DOMAIN t = 1..(Len(s) - 1)
    BY <1>1, LenProperties
  <1> HIDE DEF t
  <1> DEFINE from(j) == IF j < k THEN j ELSE j + 1
  <1>3. \A j \in DOMAIN t : from(j) \in DOMAIN s /\ from(j) # k /\ t[j] = s[from(j)]
    BY <1>1, <1>2
  <1>4. \A i, j \in DOMAIN t : from(i) = from(j) => i = j
    BY <1>1, <1>2
  <1>5. \A i \in DOMAIN s : i # k => \E j \in DOMAIN t : from(j) = i
    <2> SUFFICES ASSUME NEW i \in DOMAIN s, i # k PROVE \E j \in DOMAIN t : from(j) = i
      OBVIOUS
    <2>1. CASE i < k
      BY <1>1, <1>2, <2>1
    <2>2. CASE i > k
      <3>1. i - 1 \in DOMAIN t /\ from(i - 1) = i
        BY <1>1, <1>2, <2>2
      <3> QED
        BY <3>1
    <2> QED
      BY <1>2, <2>1, <2>2
  <1> HIDE DEF from
  <1>6. ToSet(t) = ToSet(s) \ {s[k]}
    <2>1. ASSUME NEW j \in DOMAIN t PROVE t[j] \in ToSet(s) \ {s[k]}
      BY <1>2, <1>3 DEF ToSet, IsInjective
    <2>2. ASSUME NEW i \in DOMAIN s, s[i] # s[k] PROVE s[i] \in ToSet(t)
      BY <1>3, <1>5, <2>2 DEF ToSet
    <2> QED
      BY <2>1, <2>2 DEF ToSet
  <1>7. IsInjective(t)
    BY <1>3, <1>4 DEF IsInjective
  <1> QED
    BY <1>6, <1>7 DEF t
=============================================================================
