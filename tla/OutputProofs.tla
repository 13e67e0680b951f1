---------------------------- MODULE OutputProofs ------------------------------
(***************************************************************************)
(* Theorems of Output, for any size of the buffer, any number of metrics and *)
(* any interleaving of the goroutines that add with the sender that flushes, *)
(* and of SelfMon: the buffer keeps its promises with the self monitor as    *)
(* one of the goroutines, and the differences the self monitor sends are     *)
(* right for a counter of any width.                                        *)
(***************************************************************************)
EXTENDS SelfMon, SequenceTheorems, TLAPS

(* Everything that left the buffer for stdout, written or not. *)
Taken == stdout \o out

(* The number of the last metric that has left the buffer. *)
Base == sent - Len(buffer)

(* The buffer holds the metrics after Base, all of them,                    *)
Contiguous == /\ Len(buffer) <= sent
              /\ \A i \in 1..Len(buffer) : buffer[i] = Base + i

(* those up to Base were taken, in their order, or else dropped,             *)
Split == /\ \A i, j \in 1..Len(Taken) : i < j => Taken[i] < Taken[j]
         /\ \A i \in 1..Len(Taken) : Taken[i] \in 1..Base /\ Taken[i] \notin dropped
         /\ \A m \in dropped : m \in 1..Base
         /\ \A m \in 1..Base : m \in dropped \/ \E i \in 1..Len(Taken) : Taken[i] = m

(* and a flush that has counted n metrics leaves none behind that had arrived *)
(* by then, were others added and dropped meanwhile or not.                  *)
Flushes == /\ flushed <= Base
           /\ pc = "batch" => flushing <= Base + n

Inv == TypeOK /\ Contiguous /\ Split /\ Flushes

-----------------------------------------------------------------------------
LEMMA LeastProperty ==
  ASSUME NEW a \in Nat, NEW b \in Nat
  PROVE  Least(a, b) \in Nat /\ Least(a, b) <= a /\ Least(a, b) <= b /\ Least(a, b) \in {a, b}
  BY DEF Least

(* A sequence is the same cut anywhere in two. *)
LEMMA Cut ==
  ASSUME NEW s \in Seq(Metrics), NEW k \in 0..Len(s)
  PROVE  /\ SubSeq(s, 1, k) \in Seq(Metrics) /\ Len(SubSeq(s, 1, k)) = k
         /\ SubSeq(s, k + 1, Len(s)) \in Seq(Metrics)
         /\ Len(SubSeq(s, k + 1, Len(s))) = Len(s) - k
         /\ \A i \in 1..k : SubSeq(s, 1, k)[i] = s[i]
         /\ \A i \in 1..(Len(s) - k) : SubSeq(s, k + 1, Len(s))[i] = s[k + i]
         /\ SubSeq(s, 1, k) \o SubSeq(s, k + 1, Len(s)) = s
  <1>1. \A i \in 1..Len(s) : s[i] \in Metrics
    BY ElementOfSeq
  <1>2. Len(s) \in Nat
    BY LenProperties
  <1>3. /\ SubSeq(s, 1, k) \in Seq(Metrics) /\ Len(SubSeq(s, 1, k)) = k
        /\ \A i \in 1..k : SubSeq(s, 1, k)[i] = s[i]
    BY <1>1, <1>2, SubSeqProperties
  <1>4. /\ SubSeq(s, k + 1, Len(s)) \in Seq(Metrics)
        /\ Len(SubSeq(s, k + 1, Len(s))) = Len(s) - k
        /\ \A i \in 1..(Len(s) - k) : SubSeq(s, k + 1, Len(s))[i] = s[k + i]
    <2>1. /\ SubSeq(s, k + 1, Len(s)) \in Seq(Metrics)
          /\ Len(SubSeq(s, k + 1, Len(s))) = IF k + 1 <= Len(s) THEN Len(s) - (k + 1) + 1 ELSE 0
          /\ \A i \in 1..(Len(s) - (k + 1) + 1) :
               SubSeq(s, k + 1, Len(s))[i] = s[k + 1 + i - 1]
      BY <1>1, <1>2, SubSeqProperties
    <2> QED
      BY <1>2, <2>1
  <1>5. SubSeq(s, 1, k) \o SubSeq(s, k + 1, Len(s)) = SubSeq(s, 1, Len(s))
    <2>1. /\ 1 \in 1..(Len(s) + 1) /\ k \in (1 - 1)..Len(s) /\ Len(s) \in k..Len(s)
      BY <1>2
    <2> QED
      BY <2>1, ConcatAdjacentSubSeq
  <1> QED
    BY <1>3, <1>4, <1>5, SubSeqFull
-----------------------------------------------------------------------------
LEMMA InvInit == Init => Inv
  <1> SUFFICES ASSUME Init PROVE Inv
    OBVIOUS
  <1>1. /\ <<>> \in Seq(Metrics) /\ Len(<<>>) = 0
        /\ Taken = <<>> /\ Base = 0
    <2>1. <<>> \in Seq(Metrics) /\ Len(<<>>) = 0
      BY EmptySeq
    <2>2. <<>> \o <<>> = <<>>
      BY <2>1, ConcatEmptySeq
    <2>3. Taken = <<>>
      BY <2>2 DEF Init, Taken
    <2>4. Base = 0
      <3>1. sent = 0 /\ Len(buffer) = 0
        BY <2>1 DEF Init
      <3> QED
        BY <3>1 DEF Base
    <2> QED
      BY <2>1, <2>3, <2>4
  <1>2. TypeOK
    BY <1>1, OutputAssumption DEF Init, TypeOK, Metrics
  <1>3. Contiguous /\ Split /\ Flushes
    BY <1>1 DEF Init, Contiguous, Split, Flushes
  <1> QED
    BY <1>2, <1>3 DEF Inv

(* Whoever adds pushes the oldest out: what is dropped and what stays are    *)
(* again two stretches of the numbers of the metrics, without a gap.         *)
LEMMA SendMetricsNext ==
  ASSUME Inv, NEW k \in Nat, SendMetrics(k)
  PROVE  Inv' /\ (dropped' # dropped => sent' - flushed > BufferSize)
  <1> DEFINE more == Numbers(sent, sent + k)
             all == buffer \o more
             keep == Least(BufferSize, Len(all))
             cut == Len(all) - keep
  <1>1. /\ sent \in Nat /\ Len(buffer) \in Nat /\ Base \in Nat /\ BufferSize \in Nat \ {0}
        /\ MaxMetrics \in Nat /\ sent + k <= MaxMetrics /\ Len(buffer) <= BufferSize
        /\ buffer \in Seq(Metrics)
    BY OutputAssumption, LenProperties DEF Inv, TypeOK, Contiguous, Base, SendMetrics
  <1>2. more \in Seq(Metrics) /\ Len(more) = k /\ \A i \in 1..k : more[i] = sent + i
    <2>1. more = [i \in 1..k |-> sent + i]
      BY <1>1 DEF Numbers
    <2>2. \A i \in 1..k : sent + i \in Metrics
      BY <1>1 DEF Metrics
    <2> QED
      BY <2>1, <2>2
  <1> HIDE DEF more
  <1>3. /\ all \in Seq(Metrics) /\ Len(all) = Len(buffer) + k
        /\ \A i \in 1..Len(all) : all[i] = Base + i
    <2>1. /\ all \in Seq(Metrics) /\ Len(all) = Len(buffer) + Len(more)
          /\ \A i \in 1..(Len(buffer) + Len(more)) :
               all[i] = IF i <= Len(buffer) THEN buffer[i] ELSE more[i - Len(buffer)]
      BY <1>1, <1>2, ConcatProperties
    <2> QED
      BY <1>1, <1>2, <2>1 DEF Inv, Contiguous, Base
  <1> HIDE DEF all
  <1>4. /\ keep \in Nat /\ keep <= BufferSize /\ keep <= Len(all)
        /\ cut \in Nat /\ cut <= Len(all)
        /\ cut > 0 => keep = BufferSize
    <2>1. Len(all) \in Nat
      BY <1>1, <1>3
    <2>2. /\ keep \in Nat /\ keep <= BufferSize /\ keep <= Len(all)
          /\ keep = BufferSize \/ keep = Len(all)
      BY <1>1, <2>1, LeastProperty
    <2> HIDE DEF keep
    <2> QED
      BY <1>1, <2>1, <2>2
  <1>5. /\ buffer' = SubSeq(all, cut + 1, Len(all))
        /\ dropped' = dropped \cup ToSet(SubSeq(all, 1, cut))
        /\ sent' = sent + k
        /\ UNCHANGED <<pc, n, out, stdout, flushing, flushed>>
    BY DEF SendMetrics, all, more
  <1> HIDE DEF keep, cut
  <1>6. /\ SubSeq(all, 1, cut) \in Seq(Metrics) /\ Len(SubSeq(all, 1, cut)) = cut
        /\ \A i \in 1..cut : SubSeq(all, 1, cut)[i] = Base + i
        /\ buffer' \in Seq(Metrics) /\ Len(buffer') = Len(all) - cut
        /\ \A i \in 1..(Len(all) - cut) : buffer'[i] = Base + cut + i
    <2>1. Len(all) \in Nat /\ cut \in 0..Len(all)
      BY <1>1, <1>3, <1>4
    <2>2. /\ SubSeq(all, 1, cut) \in Seq(Metrics) /\ Len(SubSeq(all, 1, cut)) = cut
          /\ \A i \in 1..cut : SubSeq(all, 1, cut)[i] = all[i]
          /\ buffer' \in Seq(Metrics) /\ Len(buffer') = Len(all) - cut
          /\ \A i \in 1..(Len(all) - cut) : buffer'[i] = all[cut + i]
      BY <1>3, <1>5, <2>1, Cut
    <2>3. \A i \in 1..cut : i \in 1..Len(all)
      BY <2>1
    <2>4. \A i \in 1..(Len(all) - cut) : cut + i \in 1..Len(all)
      BY <2>1
    <2>5. \A i \in 1..(Len(all) - cut) : Base + (cut + i) = Base + cut + i
      BY <2>1, <1>1
    <2>6. \A i \in 1..cut : SubSeq(all, 1, cut)[i] = Base + i
      BY <1>3, <2>2, <2>3
    <2>7. \A i \in 1..(Len(all) - cut) : buffer'[i] = Base + cut + i
      BY <1>3, <2>2, <2>4, <2>5
    <2> QED
      BY <2>2, <2>6, <2>7
  <1>7. Base' = Base + cut /\ Len(buffer') = keep /\ Base' + keep = sent'
    <2>1. cut = Len(all) - keep
      BY DEF cut
    <2>2. Len(buffer') = Len(all) - cut /\ sent' = sent + k
      BY <1>5, <1>6
    <2>3. Base = sent - Len(buffer) /\ Base' = sent' - Len(buffer')
      BY DEF Base
    <2> QED
      BY <1>1, <1>3, <1>4, <2>1, <2>2, <2>3
  <1>8. \A m : m \in dropped' <=> m \in dropped \/ m \in (Base + 1)..(Base + cut)
    <2>1. ToSet(SubSeq(all, 1, cut)) = {SubSeq(all, 1, cut)[i] : i \in 1..cut}
      BY <1>6, LenProperties DEF ToSet
    <2>2. ToSet(SubSeq(all, 1, cut)) = (Base + 1)..(Base + cut)
      <3>1. \A m \in (Base + 1)..(Base + cut) : m - Base \in 1..cut /\ m = Base + (m - Base)
        BY <1>1, <1>4
      <3>2. \A i \in 1..cut : Base + i \in (Base + 1)..(Base + cut)
        BY <1>1, <1>4
      <3>3. ToSet(SubSeq(all, 1, cut)) = {Base + i : i \in 1..cut}
        BY <1>6, <2>1
      <3> QED
        BY <3>1, <3>2, <3>3
    <2> QED
      BY <1>5, <2>2
  <1>9. TypeOK'
    <2>1. \A m \in dropped' : m \in Metrics
      <3>1. \A m \in (Base + 1)..(Base + cut) : m \in Metrics
        <4>1. Base + cut <= MaxMetrics
          BY <1>1, <1>3, <1>4 DEF Base
        <4> QED
          BY <4>1, <1>1, <1>4 DEF Metrics
      <3> QED
        BY <3>1, <1>8 DEF Inv, TypeOK
    <2> QED
      BY <1>1, <1>4, <1>5, <1>6, <1>7, <2>1 DEF Inv, TypeOK
  <1>10. Contiguous'
    BY <1>1, <1>4, <1>6, <1>7 DEF Contiguous
  <1>11. Split'
    <2>1. Taken' = Taken
      BY <1>5 DEF Taken
    <2>2. \A m : m \in 1..Base' <=> m \in 1..Base \/ m \in (Base + 1)..(Base + cut)
      BY <1>1, <1>4, <1>7
    <2>3. \A m : ~(m \in 1..Base /\ m \in (Base + 1)..(Base + cut))
      BY <1>1, <1>4
    <2> QED
      BY <2>1, <2>2, <2>3, <1>8 DEF Inv, Split
  <1>12. Flushes'
    BY <1>1, <1>4, <1>5, <1>7 DEF Inv, TypeOK, Flushes
  <1>13. dropped' # dropped => sent' - flushed > BufferSize
    <2> SUFFICES ASSUME dropped' # dropped PROVE sent' - flushed > BufferSize
      OBVIOUS
    <2>1. cut > 0
      <3>1. cut = 0 => (Base + 1)..(Base + cut) = {}
        BY <1>1
      <3>2. cut = 0 => dropped' = dropped
        BY <1>8, <3>1
      <3> QED
        BY <3>2, <1>4
    <2> QED
      BY <2>1, <1>1, <1>4, <1>7 DEF Inv, TypeOK, Flushes
  <1> QED
    BY <1>9, <1>10, <1>11, <1>12, <1>13 DEF Inv
(* The sender moves metrics along, in their order. *)
LEMMA TickNext == Inv /\ Tick => Inv'
  <1> SUFFICES ASSUME Inv, Tick PROVE Inv'
    OBVIOUS
  <1>1. Taken' = Taken /\ Base' = Base /\ Base \in Nat /\ Base + Len(buffer) = sent
    BY LenProperties DEF Inv, TypeOK, Contiguous, Tick, Taken, Base
  <1>2. TypeOK'
    BY LenProperties, OutputAssumption DEF Inv, TypeOK, Tick
  <1>3. Contiguous' /\ Split' /\ Flushes'
    BY <1>1 DEF Inv, Contiguous, Split, Flushes, Tick
  <1> QED
    BY <1>2, <1>3 DEF Inv

LEMMA BatchNext == Inv /\ Batch => Inv'
  <1> SUFFICES ASSUME Inv, Batch PROVE Inv'
    OBVIOUS
  <1> DEFINE k == Least(n, Len(buffer))
  <1>1. /\ n \in Nat /\ Len(buffer) \in Nat /\ sent \in Nat /\ Base \in Nat
        /\ Base + Len(buffer) = sent /\ Len(buffer) <= BufferSize /\ BufferSize \in Nat
        /\ buffer \in Seq(Metrics) /\ stdout \in Seq(Metrics) /\ out = <<>>
        /\ flushing \in 0..sent /\ flushing <= Base + n
    BY OutputAssumption, LenProperties
       DEF Inv, TypeOK, Contiguous, Flushes, Base, Batch
  <1>2. k \in 0..Len(buffer) /\ k <= n /\ (k = n \/ k = Len(buffer))
    <2>1. k \in Nat /\ k <= n /\ k <= Len(buffer) /\ (k = n \/ k = Len(buffer))
      BY <1>1, LeastProperty
    <2> HIDE DEF k
    <2> QED
      BY <1>1, <2>1
  <1>3. /\ out' = SubSeq(buffer, 1, k) /\ buffer' = SubSeq(buffer, k + 1, Len(buffer))
        /\ flushed' = flushing /\ pc' = "write"
        /\ UNCHANGED <<n, stdout, sent, dropped, flushing>>
    BY DEF Batch
  <1> HIDE DEF k
  <1>4. /\ out' \in Seq(Metrics) /\ Len(out') = k
        /\ buffer' \in Seq(Metrics) /\ Len(buffer') = Len(buffer) - k
        /\ \A i \in 1..k : out'[i] = buffer[i]
        /\ \A i \in 1..(Len(buffer) - k) : buffer'[i] = buffer[k + i]
    BY <1>1, <1>2, <1>3, Cut
  <1>5. Base' = Base + k
    <2>1. Base = sent - Len(buffer) /\ Base' = sent - (Len(buffer) - k)
      BY <1>3, <1>4 DEF Base
    <2> QED
      BY <1>1, <1>2, <2>1
  <1>6. TypeOK'
    BY <1>1, <1>2, <1>3, <1>4 DEF Inv, TypeOK
  <1>7. Contiguous'
    <2>1. \A i \in 1..(Len(buffer) - k) : k + i \in 1..Len(buffer)
      BY <1>1, <1>2
    <2>2. \A i \in 1..(Len(buffer) - k) : Base + (k + i) = Base + k + i
      BY <1>1, <1>2
    <2>3. \A i \in 1..(Len(buffer) - k) : buffer'[i] = Base + k + i
      BY <2>1, <2>2, <1>4 DEF Inv, Contiguous
    <2>4. Len(buffer') <= sent
      BY <1>1, <1>2, <1>4
    <2> QED
      BY <2>3, <2>4, <1>3, <1>4, <1>5 DEF Contiguous
  <1>8. Split'
    <2>1. /\ Taken = stdout /\ Taken' = stdout \o out'
      BY <1>1, <1>3, ConcatEmptySeq DEF Taken
    <2>2. /\ Len(stdout) \in Nat /\ Len(Taken') = Len(stdout) + k
          /\ \A i \in 1..(Len(stdout) + k) :
               Taken'[i] = IF i <= Len(stdout) THEN stdout[i] ELSE out'[i - Len(stdout)]
      <3>1. stdout \in Seq(Metrics) /\ out' \in Seq(Metrics) /\ Len(out') = k
        BY <1>1, <1>4
      <3> HIDE <1>1, <1>4
      <3>2. /\ Len(stdout \o out') = Len(stdout) + Len(out')
            /\ \A i \in 1..(Len(stdout) + Len(out')) :
                 (stdout \o out')[i] = IF i <= Len(stdout) THEN stdout[i]
                                      ELSE out'[i - Len(stdout)]
        BY <3>1, ConcatProperties
      <3>3. Len(stdout) \in Nat
        BY <3>1, LenProperties
      <3> QED
        BY <2>1, <3>1, <3>2, <3>3
    <2>3. \A i \in 1..k : out'[i] = Base + i
      <3>1. \A i \in 1..k : i \in 1..Len(buffer)
        BY <1>1, <1>2
      <3> QED
        BY <1>4, <3>1 DEF Inv, Contiguous
    <2>4. \A i \in 1..(Len(stdout) + k) :
            Taken'[i] = IF i <= Len(stdout) THEN Taken[i] ELSE Base + (i - Len(stdout))
      <3> SUFFICES ASSUME NEW i \in 1..(Len(stdout) + k)
                   PROVE  Taken'[i] = IF i <= Len(stdout) THEN Taken[i]
                                      ELSE Base + (i - Len(stdout))
        OBVIOUS
      <3>1. ~(i <= Len(stdout)) => i - Len(stdout) \in 1..k
        BY <1>2, <2>2
      <3> QED
        BY <2>1, <2>2, <2>3, <3>1
    <2>5. /\ \A i \in 1..Len(stdout) : Taken[i] \in 1..Base
          /\ \A i, j \in 1..Len(stdout) : i < j => Taken[i] < Taken[j]
          /\ \A i \in 1..Len(stdout) : Taken[i] \notin dropped
          /\ \A m \in dropped : m \in 1..Base
          /\ \A m \in 1..Base : m \in dropped \/ \E i \in 1..Len(stdout) : Taken[i] = m
      BY <2>1 DEF Inv, Split
    <2>6. \A i, j \in 1..(Len(stdout) + k) : i < j => Taken'[i] < Taken'[j]
      <3> SUFFICES ASSUME NEW i \in 1..(Len(stdout) + k), NEW j \in 1..(Len(stdout) + k), i < j
                   PROVE  Taken'[i] < Taken'[j]
        OBVIOUS
      <3>1. CASE j <= Len(stdout)
        <4>1. i \in 1..Len(stdout) /\ j \in 1..Len(stdout)
          BY <1>2, <2>2, <3>1
        <4>2. Taken'[i] = Taken[i] /\ Taken'[j] = Taken[j]
          BY <2>4, <4>1
        <4> QED
          BY <2>5, <4>1, <4>2
      <3>2. CASE i <= Len(stdout) /\ ~(j <= Len(stdout))
        <4>1. i \in 1..Len(stdout) /\ Taken'[i] = Taken[i]
          BY <1>2, <2>2, <2>4, <3>2
        <4>2. Taken'[j] = Base + (j - Len(stdout))
          BY <2>4, <3>2
        <4>3. Taken[i] \in 1..Base
          BY <2>5, <4>1
        <4> QED
          BY <1>1, <1>2, <2>2, <3>2, <4>1, <4>2, <4>3
      <3>3. CASE ~(i <= Len(stdout))
        <4>1. ~(j <= Len(stdout))
          BY <1>2, <2>2, <3>3
        <4>2. Taken'[i] = Base + (i - Len(stdout)) /\ Taken'[j] = Base + (j - Len(stdout))
          BY <2>4, <3>3, <4>1
        <4> QED
          BY <1>1, <1>2, <2>2, <4>2
      <3> QED
        BY <1>2, <2>2, <3>1, <3>2, <3>3
    <2>7. \A i \in 1..(Len(stdout) + k) : Taken'[i] \in 1..(Base + k) /\ Taken'[i] \notin dropped
      <3> SUFFICES ASSUME NEW i \in 1..(Len(stdout) + k)
                   PROVE  Taken'[i] \in 1..(Base + k) /\ Taken'[i] \notin dropped
        OBVIOUS
      <3>1. CASE i <= Len(stdout)
        <4>1. i \in 1..Len(stdout) /\ Taken'[i] = Taken[i]
          BY <1>2, <2>2, <2>4, <3>1
        <4>2. Taken[i] \in 1..Base /\ Taken[i] \notin dropped
          BY <2>5, <4>1
        <4> QED
          BY <1>1, <1>2, <4>1, <4>2
      <3>2. CASE ~(i <= Len(stdout))
        <4>1. Taken'[i] = Base + (i - Len(stdout))
          BY <2>4, <3>2
        <4>2. Taken'[i] \in 1..(Base + k) /\ Taken'[i] \notin 1..Base
          BY <1>1, <1>2, <2>2, <3>2, <4>1
        <4> QED
          BY <2>5, <4>2
      <3> QED
        BY <3>1, <3>2
    <2>8. \A m \in dropped : m \in 1..(Base + k)
      BY <1>1, <1>2, <2>5
    <2>9. \A m \in 1..(Base + k) :
            m \in dropped \/ \E i \in 1..(Len(stdout) + k) : Taken'[i] = m
      <3> SUFFICES ASSUME NEW m \in 1..(Base + k), m \notin dropped
                   PROVE  \E i \in 1..(Len(stdout) + k) : Taken'[i] = m
        OBVIOUS
      <3>1. CASE m \in 1..Base
        <4>1. PICK i \in 1..Len(stdout) : Taken[i] = m
          BY <2>5, <3>1
        <4>2. i \in 1..(Len(stdout) + k) /\ Taken'[i] = Taken[i]
          BY <1>2, <2>2, <2>4
        <4> QED
          BY <4>1, <4>2
      <3>2. CASE m \notin 1..Base
        <4> DEFINE i == Len(stdout) + (m - Base)
        <4>1. i \in 1..(Len(stdout) + k) /\ ~(i <= Len(stdout)) /\ Base + (i - Len(stdout)) = m
          BY <1>1, <1>2, <2>2, <3>2
        <4> QED
          BY <2>4, <4>1
      <3> QED
        BY <3>1, <3>2
    <2> QED
      BY <1>3, <1>5, <2>2, <2>6, <2>7, <2>8, <2>9 DEF Split
  <1>9. Flushes'
    BY <1>1, <1>2, <1>3, <1>5 DEF Flushes
  <1> QED
    BY <1>6, <1>7, <1>8, <1>9 DEF Inv
(* What moves from out to stdout was taken already. *)
LEMMA TakenNext ==
  ASSUME Inv, Taken' = Taken, TypeOK',
         UNCHANGED <<buffer, n, sent, dropped, flushing, flushed>>,
         pc' # "batch"
  PROVE  Inv'
  <1>1. Base' = Base
    BY DEF Base
  <1> QED
    BY <1>1 DEF Inv, Contiguous, Split, Flushes

LEMMA WriteNext == Inv /\ Write => Inv'
  <1> SUFFICES ASSUME Inv, Write PROVE Inv'
    OBVIOUS
  <1>1. /\ stdout' = stdout \o out /\ out' = <<>> /\ pc' = "select"
        /\ UNCHANGED <<buffer, n, sent, dropped, flushing, flushed>>
        /\ stdout \in Seq(Metrics) /\ out \in Seq(Metrics)
    BY DEF Inv, TypeOK, Write
  <1>2. stdout' \in Seq(Metrics)
    BY <1>1, ConcatProperties
  <1>3. TypeOK'
    <2>1. Len(out') = 0 /\ out' \in Seq(Metrics) /\ n \in Nat
      BY <1>1, EmptySeq, OutputAssumption DEF Inv, TypeOK
    <2> QED
      BY <1>1, <1>2, <2>1 DEF Inv, TypeOK
  <1>4. Taken' = Taken
    BY <1>1, <1>2, ConcatEmptySeq DEF Taken
  <1> QED
    BY <1>1, <1>3, <1>4, TakenNext

LEMMA ExitNext == Inv /\ Exit => Inv'
  <1> SUFFICES ASSUME Inv, Exit PROVE Inv'
    OBVIOUS
  <1>1. PICK k \in 0..Len(out) : /\ stdout' = stdout \o SubSeq(out, 1, k)
                                 /\ out' = SubSeq(out, k + 1, Len(out))
    BY DEF Exit
  <1>2. /\ pc' = "exited" /\ UNCHANGED <<buffer, n, sent, dropped, flushing, flushed>>
        /\ stdout \in Seq(Metrics) /\ out \in Seq(Metrics)
        /\ Len(out) \in Nat /\ Len(out) <= n /\ n \in Nat
    BY LenProperties, OutputAssumption DEF Inv, TypeOK, Exit
  <1>3. /\ SubSeq(out, 1, k) \in Seq(Metrics)
        /\ out' \in Seq(Metrics) /\ Len(out') = Len(out) - k
        /\ SubSeq(out, 1, k) \o out' = out
    BY <1>1, <1>2, Cut
  <1>4. TypeOK'
    <2>1. stdout' \in Seq(Metrics)
      BY <1>1, <1>2, <1>3, ConcatProperties
    <2>2. Len(out') <= n
      BY <1>2, <1>3
    <2> QED
      BY <1>2, <1>3, <2>1, <2>2 DEF Inv, TypeOK
  <1>5. Taken' = Taken
    <2>1. (stdout \o SubSeq(out, 1, k)) \o out' = stdout \o (SubSeq(out, 1, k) \o out')
      <3> DEFINE written == SubSeq(out, 1, k)
                 kept == out'
      <3>1. stdout \in Seq(Metrics) /\ written \in Seq(Metrics) /\ kept \in Seq(Metrics)
        BY <1>2, <1>3
      <3> HIDE DEF written, kept
      <3>2. (stdout \o written) \o kept = stdout \o (written \o kept)
        BY ONLY <3>1, ConcatAssociative
      <3> QED
        BY <3>2 DEF written, kept
    <2> QED
      BY <1>1, <1>3, <2>1 DEF Taken
  <1> QED
    BY <1>2, <1>4, <1>5, TakenNext

LEMMA OutputNext ==
  Inv /\ [Next]_vars => Inv' /\ (dropped' # dropped => sent' - flushed > BufferSize)
  <1> SUFFICES ASSUME Inv, [Next]_vars
               PROVE  Inv' /\ (dropped' # dropped => sent' - flushed > BufferSize)
    OBVIOUS
  <1>1. CASE Next
    <2>1. CASE \E k \in 1..MaxSend : SendMetrics(k)
      <3>1. PICK k \in 1..MaxSend : SendMetrics(k)
        BY <2>1
      <3>2. k \in Nat
        BY OutputAssumption
      <3> QED
        BY <3>1, <3>2, SendMetricsNext
    <2>2. CASE startOutputSender
      BY <2>2, TickNext, BatchNext, WriteNext DEF startOutputSender, Tick, Batch, Write
    <2>3. CASE Exit
      BY <2>3, ExitNext DEF Exit
    <2> QED
      BY <1>1, <2>1, <2>2, <2>3 DEF Next
  <1>2. CASE UNCHANGED vars
    BY <1>2 DEF vars, Inv, TypeOK, Contiguous, Split, Flushes, Taken, Base
  <1> QED
    BY <1>1, <1>2

LEMMA InvAlways == Spec => []Inv
  BY InvInit, OutputNext, PTL DEF Spec

-----------------------------------------------------------------------------
LEMMA InvDelivery == Inv => Delivery
  <1> SUFFICES ASSUME Inv PROVE Delivery
    OBVIOUS
  <1> DEFINE line == stdout \o out \o buffer
  <1>1. /\ buffer \in Seq(Metrics) /\ Len(buffer) \in Nat /\ Base \in Nat /\ sent \in Nat
        /\ Base + Len(buffer) = sent
        /\ Taken \in Seq(Metrics) /\ Len(Taken) \in Nat
    BY LenProperties, ConcatProperties DEF Inv, TypeOK, Contiguous, Base, Taken
  <1>2. /\ line \in Seq(Metrics) /\ Len(line) = Len(Taken) + Len(buffer)
        /\ \A i \in 1..(Len(Taken) + Len(buffer)) :
             line[i] = IF i <= Len(Taken) THEN Taken[i] ELSE buffer[i - Len(Taken)]
    BY <1>1, ConcatProperties DEF Taken
  <1>3. DOMAIN line = 1..(Len(Taken) + Len(buffer))
    BY <1>2, LenProperties
  <1>4. ToSet(line) = {line[i] : i \in 1..(Len(Taken) + Len(buffer))}
    BY <1>3 DEF ToSet
  <1> HIDE DEF line
  <1>5. \A i \in 1..Len(Taken) : i \in DOMAIN line /\ line[i] = Taken[i] /\ line[i] \in 1..Base
    <2>1. \A i \in 1..Len(Taken) : i \in 1..(Len(Taken) + Len(buffer)) /\ i <= Len(Taken)
      BY <1>1
    <2> QED
      BY <1>2, <1>3, <2>1 DEF Inv, Split
  <1>6. \A i \in 1..Len(buffer) :
          Len(Taken) + i \in DOMAIN line /\ line[Len(Taken) + i] = Base + i
    <2>1. \A i \in 1..Len(buffer) :
            /\ Len(Taken) + i \in 1..(Len(Taken) + Len(buffer))
            /\ ~(Len(Taken) + i <= Len(Taken)) /\ Len(Taken) + i - Len(Taken) = i
      BY <1>1
    <2> QED
      BY <1>2, <1>3, <2>1 DEF Inv, Contiguous
  <1>7. \A i \in DOMAIN line :
          i \in 1..Len(Taken) \/ \E b \in 1..Len(buffer) : i = Len(Taken) + b
    <2> SUFFICES ASSUME NEW i \in DOMAIN line, i \notin 1..Len(Taken)
                 PROVE  \E b \in 1..Len(buffer) : i = Len(Taken) + b
      OBVIOUS
    <2>1. i - Len(Taken) \in 1..Len(buffer) /\ i = Len(Taken) + (i - Len(Taken))
      BY <1>1, <1>3
    <2> QED
      BY <2>1
  <1>8. \A i, j \in DOMAIN line : i < j => line[i] < line[j]
    <2> SUFFICES ASSUME NEW i \in DOMAIN line, NEW j \in DOMAIN line, i < j
                 PROVE  line[i] < line[j]
      OBVIOUS
    <2>1. CASE i \in 1..Len(Taken) /\ j \in 1..Len(Taken)
      BY <2>1, <1>5 DEF Inv, Split
    <2>2. CASE i \in 1..Len(Taken) /\ \E b \in 1..Len(buffer) : j = Len(Taken) + b
      BY <2>2, <1>1, <1>5, <1>6
    <2>3. CASE /\ \E b \in 1..Len(buffer) : i = Len(Taken) + b
               /\ \E b \in 1..Len(buffer) : j = Len(Taken) + b
      BY <2>3, <1>1, <1>6
    <2>4. CASE j \in 1..Len(Taken) /\ \E b \in 1..Len(buffer) : i = Len(Taken) + b
      BY <2>4, <1>1
    <2> QED
      BY <1>7, <2>1, <2>2, <2>3, <2>4
  <1>9. \A m : m \in ToSet(line) <=> \/ \E i \in 1..Len(Taken) : Taken[i] = m
                                     \/ m \in (Base + 1)..sent
    <2>1. \A m \in (Base + 1)..sent : m - Base \in 1..Len(buffer) /\ m = Base + (m - Base)
      BY <1>1
    <2>2. \A b \in 1..Len(buffer) : Base + b \in (Base + 1)..sent
      BY <1>1
    <2>3. ASSUME NEW m \in ToSet(line)
          PROVE  (\E i \in 1..Len(Taken) : Taken[i] = m) \/ m \in (Base + 1)..sent
      <3>1. PICK i \in DOMAIN line : m = line[i]
        BY <1>3, <1>4
      <3> QED
        BY <3>1, <1>5, <1>6, <1>7, <2>2
    <2>4. ASSUME NEW i \in 1..Len(Taken) PROVE Taken[i] \in ToSet(line)
      BY <1>3, <1>4, <1>5
    <2>5. ASSUME NEW m \in (Base + 1)..sent PROVE m \in ToSet(line)
      BY <1>3, <1>4, <1>6, <2>1
    <2> QED
      BY <2>3, <2>4, <2>5
  <1>10. \A m : /\ m \in 1..sent <=> m \in 1..Base \/ m \in (Base + 1)..sent
                /\ ~(m \in 1..Base /\ m \in (Base + 1)..sent)
    BY <1>1
  <1>11. 1..sent = ToSet(line) \cup dropped /\ ToSet(line) \cap dropped = {}
    BY <1>9, <1>10 DEF Inv, Split
  <1> QED
    BY <1>8, <1>11 DEF Delivery, line

LEMMA InvNewestKept == Inv => NewestKept
  <1> SUFFICES ASSUME Inv, NEW m \in dropped, NEW i \in DOMAIN buffer
               PROVE  m < buffer[i]
    BY DEF NewestKept
  <1>1. Base \in Nat /\ i \in 1..Len(buffer)
    BY LenProperties DEF Inv, TypeOK, Contiguous, Base
  <1>2. m \in 1..Base /\ buffer[i] = Base + i
    BY <1>1 DEF Inv, Contiguous, Split
  <1> QED
    BY <1>1, <1>2

-----------------------------------------------------------------------------
(* The variables keep their types, and the buffer its limit. *)
THEOREM TypeCorrect == Spec => []TypeOK
  BY InvAlways, PTL DEF Inv

(* Delivery: whatever the order of adds, flushes and the exit, every metric  *)
(* that arrived is in one place only of stdout, the batch, the buffer and    *)
(* those pushed out, and stdout has them in the order of arrival             *)
(* (output.go:45-88).                                                       *)
THEOREM DeliveryHolds == Spec => []Delivery
  BY InvAlways, InvDelivery, PTL

(* NewestKept: a full buffer gives up its oldest metrics (output.go:36-43).  *)
THEOREM NewestKeptHolds == Spec => []NewestKept
  BY InvAlways, InvNewestKept, PTL

(* OnlyOverflowDrops: a step that drops has seen more metrics arrive, since   *)
(* the count of the last flush, than the buffer holds (output.go:56-61).     *)
THEOREM OnlyOverflowDropsHolds == Spec => OnlyOverflowDrops
  <1>1. Inv /\ [Next]_vars => [dropped' # dropped => sent' - flushed > BufferSize]_vars
    BY OutputNext
  <1>2. QED
    BY <1>1, InvAlways, PTL DEF Spec, OnlyOverflowDrops

-----------------------------------------------------------------------------
(* The self monitor *)

(* A period sends one metric, so the buffer sees nothing new. *)
LEMMA OutputSteps ==
  Inv /\ [SelfMonNext]_allVars
    => Inv' /\ (dropped' # dropped => sent' - flushed > BufferSize)
  <1> SUFFICES ASSUME Inv, [SelfMonNext]_allVars
               PROVE  Inv' /\ (dropped' # dropped => sent' - flushed > BufferSize)
    OBVIOUS
  <1>1. CASE Next
    BY <1>1, OutputNext
  <1>2. CASE startSelfmonCollector
    BY <1>2, SendMetricsNext DEF startSelfmonCollector, collectLegacyRuntimeStats
  <1>3. CASE Collection \/ UNCHANGED allVars
    BY <1>3, OutputNext DEF Collection, allVars
  <1> QED
    BY <1>1, <1>2, <1>3 DEF SelfMonNext

LEMMA OutputAlways == SelfMonSpec => []Inv
  <1>1. SelfMonInit => Inv
    BY InvInit DEF SelfMonInit
  <1>2. QED
    BY <1>1, OutputSteps, PTL DEF SelfMonSpec

(* The types, Delivery and NewestKept with the self monitor among the        *)
(* goroutines that add.                                                     *)
THEOREM BufferHolds == SelfMonSpec => [](TypeOK /\ Delivery /\ NewestKept)
  <1>1. Inv => TypeOK /\ Delivery /\ NewestKept
    BY InvDelivery, InvNewestKept DEF Inv
  <1>2. QED
    BY <1>1, OutputAlways, PTL

(* OnlyOverflowDrops, of the steps of both. *)
THEOREM OnlyOverflowDropsSelfMon == SelfMonSpec => OnlyOverflowDrops
  <1>1. Inv /\ [SelfMonNext]_allVars => [dropped' # dropped => sent' - flushed > BufferSize]_vars
    BY OutputSteps
  <1>2. QED
    BY <1>1, OutputAlways, PTL DEF SelfMonSpec, OnlyOverflowDrops

-----------------------------------------------------------------------------
LEMMA Division ==
  ASSUME NEW m \in Nat \ {0}, NEW a \in Nat
  PROVE  a = m * (a \div m) + (a % m) /\ a \div m \in Nat /\ a % m \in 0..(m - 1)
  <1>1. a % m \in 0..(m - 1)
    OBVIOUS
  <1>2. a = m * (a \div m) + (a % m) /\ a \div m \in Nat
    OBVIOUS
  <1> QED
    BY <1>1, <1>2

(* Two readings of a counter that wraps at m, less than m apart. *)
LEMMA Difference ==
  ASSUME NEW m \in Nat \ {0}, NEW a \in Nat, NEW b \in Nat, b <= a, a - b < m
  PROVE  ((a % m) - (b % m)) % m = a - b
  <1> DEFINE q == a \div m - b \div m
             x == (a % m) - (b % m)
  <1>1. /\ a = m * (a \div m) + (a % m) /\ a \div m \in Nat /\ a % m \in 0..(m - 1)
        /\ b = m * (b \div m) + (b % m) /\ b \div m \in Nat /\ b % m \in 0..(m - 1)
    BY Division
  <1>2. /\ q \in Int /\ x \in Int
        /\ m * (a \div m) - m * (b \div m) = m * q
    BY <1>1
  <1>3. a - b = m * q + x /\ x < m /\ x > -m
    BY <1>1, <1>2
  <1> HIDE DEF q, x
  <1>4. q \in {0, 1}
    <2>1. q >= 2 => m * q >= 2 * m
      BY <1>2
    <2>2. q <= -1 => m * q <= -m
      BY <1>2
    <2> QED
      BY <1>2, <1>3, <2>1, <2>2
  <1>5. CASE q = 0
    <2>1. x = a - b /\ x \in 0..(m - 1)
      BY <1>2, <1>3, <1>5
    <2>2. x % m = x
      BY <2>1
    <2> QED
      BY <2>1, <2>2 DEF x
  <1>6. CASE q = 1
    <2>1. x = (a - b) - m /\ a - b \in 0..(m - 1)
      BY <1>2, <1>3, <1>6
    <2>2. x % m = a - b
      BY <1>2, <2>1
    <2> QED
      BY <2>2 DEF x
  <1> QED
    BY <1>4, <1>5, <1>6

Sample == [metric : Nat, total : Nat, gc_per_interval : Int, pause_per_interval : Int]

(* The counters at the last sample are those the last metric was made of,    *)
(* and unless they read zero the collector has not come round since.         *)
LastSample == /\ gcs \in Nat /\ lastPauseNs \in 0..gcs
              /\ lastNumGc = lastPauseNs % 2^Width
              /\ lastNumGc > 0 => gcs - lastPauseNs < 2^Width
              /\ samples \in Seq(Sample)
              /\ Len(samples) > 0 => samples[Len(samples)].total = lastPauseNs

(* The differences are right of every two samples in a row, whether or not   *)
(* the output has both.                                                     *)
Differences ==
  \A i \in 1..(Len(samples) - 1) :
    LET s == samples[i]
        t == samples[i + 1]
    IN  /\ t.gc_per_interval = IF s.total % 2^Width = 0 THEN Absent ELSE t.total - s.total
        /\ t.pause_per_interval = IF s.total = 0 THEN Absent ELSE t.total - s.total

SmInv == LastSample /\ Differences

LEMMA SmInvInit == SelfMonInit => SmInv
  <1> SUFFICES ASSUME SelfMonInit PROVE SmInv
    OBVIOUS
  <1>1. samples \in Seq(Sample) /\ Len(samples) = 0
    BY EmptySeq DEF SelfMonInit
  <1>2. 0 % 2^Width = 0
    <2>1. 2^Width \in Nat \ {0}
      BY SelfMonAssumption
    <2> QED
      BY <2>1
  <1> QED
    BY <1>1, <1>2 DEF SelfMonInit, SmInv, LastSample, Differences

LEMMA CollectNext == SmInv /\ Inv /\ startSelfmonCollector => SmInv'
  <1> SUFFICES ASSUME SmInv, Inv, startSelfmonCollector PROVE SmInv'
    OBVIOUS
  <1> DEFINE m == 2^Width
             last == Len(samples)
             gc == IF lastNumGc > 0 THEN countGc ELSE Absent
             pause == IF lastPauseNs > 0 THEN PauseTotalNs - lastPauseNs ELSE Absent
             t == [metric |-> sent + 1, total |-> gcs,
                   gc_per_interval |-> gc, pause_per_interval |-> pause]
  <1>1. /\ m \in Nat \ {0} /\ gcs \in Nat /\ lastPauseNs \in Nat /\ lastPauseNs <= gcs
        /\ lastPauseNs % m \in Nat /\ lastNumGc = lastPauseNs % m
        /\ samples \in Seq(Sample) /\ last \in Nat
    <2>1. m \in Nat \ {0}
      BY SelfMonAssumption
    <2>2. /\ gcs \in Nat /\ lastPauseNs \in Nat /\ lastPauseNs <= gcs
          /\ lastNumGc = lastPauseNs % m /\ samples \in Seq(Sample)
      BY DEF SmInv, LastSample
    <2> HIDE DEF m
    <2>3. lastPauseNs % m \in 0..(m - 1)
      BY <2>1, <2>2, Division
    <2> QED
      BY <2>1, <2>2, <2>3, LenProperties
  <1>2. /\ gc = IF lastPauseNs % m = 0 THEN Absent ELSE gcs - lastPauseNs
        /\ pause = IF lastPauseNs = 0 THEN Absent ELSE gcs - lastPauseNs
    <2>1. lastNumGc > 0 => countGc = gcs - lastPauseNs
      <3>1. countGc = ((gcs % m) - (lastPauseNs % m)) % m
        BY <1>1 DEF countGc, NumGC
      <3>2. lastNumGc > 0 => gcs - lastPauseNs < m
        BY DEF SmInv, LastSample
      <3> QED
        BY <1>1, <3>1, <3>2, Difference
    <2> QED
      BY <1>1, <2>1 DEF PauseTotalNs
  <1>3. /\ samples' = Append(samples, t)
        /\ lastNumGc' = gcs % m /\ lastPauseNs' = gcs /\ gcs' = gcs
    BY DEF startSelfmonCollector, collectLegacyRuntimeStats, NumGC, PauseTotalNs
  <1>4. t \in Sample
    <2>1. gc \in Int /\ pause \in Int
      BY <1>1, <1>2 DEF Absent
    <2>2. sent + 1 \in Nat
      BY OutputAssumption DEF Inv, TypeOK
    <2> QED
      BY <1>1, <2>1, <2>2 DEF Sample
  <1>5. t.total = gcs /\ t.gc_per_interval = gc /\ t.pause_per_interval = pause
    OBVIOUS
  <1> HIDE DEF t, gc, pause
  <1>6. /\ samples' \in Seq(Sample) /\ Len(samples') = last + 1 /\ samples'[last + 1] = t
        /\ \A i \in 1..last : samples'[i] = samples[i]
    BY <1>1, <1>3, <1>4, AppendProperties
  <1>7. LastSample'
    <2>1. gcs - gcs < m
      BY <1>1
    <2> QED
      BY <1>1, <1>3, <1>5, <1>6, <2>1 DEF LastSample
  <1>8. Differences'
    <2> SUFFICES ASSUME NEW i \in 1..last
                 PROVE  LET s == samples'[i]
                            u == samples'[i + 1]
                        IN  /\ u.gc_per_interval = IF s.total % m = 0 THEN Absent
                                                   ELSE u.total - s.total
                            /\ u.pause_per_interval = IF s.total = 0 THEN Absent
                                                      ELSE u.total - s.total
      BY <1>1, <1>6 DEF Differences
    <2>1. samples'[i] = samples[i]
      BY <1>6
    <2>2. CASE i = last
      <3>1. samples'[i].total = lastPauseNs
        BY <1>1, <2>1, <2>2 DEF SmInv, LastSample
      <3>2. samples'[i + 1] = t
        BY <1>6, <2>2
      <3> QED
        BY <1>2, <1>5, <3>1, <3>2
    <2>3. CASE i # last
      <3>1. i \in 1..(last - 1) /\ i + 1 \in 1..last
        BY <1>1, <2>3
      <3>2. samples'[i + 1] = samples[i + 1]
        BY <1>6, <3>1
      <3> QED
        BY <2>1, <3>1, <3>2 DEF SmInv, Differences
    <2> QED
      BY <2>2, <2>3
  <1> QED
    BY <1>7, <1>8 DEF SmInv

LEMMA SmInvNext == SmInv /\ Inv /\ [SelfMonNext]_allVars => SmInv'
  <1> SUFFICES ASSUME SmInv, Inv, [SelfMonNext]_allVars PROVE SmInv'
    OBVIOUS
  <1>1. CASE UNCHANGED smVars
    BY <1>1 DEF smVars, SmInv, LastSample, Differences
  <1>2. CASE Collection
    <2>1. /\ gcs' = gcs + 1 /\ gcs - lastPauseNs < 2^Width - 1
          /\ UNCHANGED <<lastNumGc, lastPauseNs, samples>>
      BY <1>2 DEF Collection
    <2>2. 2^Width \in Int
      BY SelfMonAssumption
    <2> QED
      BY <2>1, <2>2 DEF SmInv, LastSample, Differences
  <1> QED
    BY <1>1, <1>2, CollectNext DEF SelfMonNext, allVars

(* IntervalsAddUp: whatever the width of NumGC, two samples in a row with    *)
(* less than a full turn of it between them say how many collections there    *)
(* were, or nothing if the first read zero (selfmon.go:332-348).             *)
THEOREM IntervalsAddUpHolds == SelfMonSpec => []IntervalsAddUp
  <1>1. SmInv => IntervalsAddUp
    BY DEF SmInv, Differences, IntervalsAddUp
  <1>2. QED
    BY <1>1, SmInvInit, SmInvNext, OutputAlways, PTL DEF SelfMonSpec
=============================================================================
