-------------------------- MODULE InstanceListProofs ---------------------------
(***************************************************************************)
(* Theorems of InstanceList, for any number of instances, SIDs and           *)
(* processors and any interleaving of their loops with the moves of an       *)
(* insertion or a deletion, among them that the slices implement Registry.   *)
(***************************************************************************)
EXTENDS InstanceList, SlicesProofs

(* The arrays, and the elements a deletion has still to move. *)
Arrays ==
  /\ heap \in Seq(Seq(Inst \cup {Nil}))
  /\ OraInstances \in [arr : 1..Len(heap), len : Nat]
  /\ OraInstances.len <= Len(Slots)
  /\ \A k \in 1..OraInstances.len : Slots[k] \in Inst
  /\ deleting \in BOOLEAN /\ (deleting => OraInstances.len > 0)
  /\ \A k \in DOMAIN shift : /\ deleting /\ k \in 1..(OraInstances.len - 1)
                             /\ shift[k] \in Inst

(* What a round has done and what it has left to do add up to the scan. *)
Rounds ==
  /\ unborn \subseteq Inst
  /\ new \in Seq(Inst) /\ old \in Seq(Inst) /\ same \in Seq(Inst)
  /\ UniqueSids
  /\ \A j, k \in DOMAIN new : SidOf(new[j]) = SidOf(new[k]) => j = k
  /\ \A i \in ToSet(new), j \in ToSet(Listed) : SidOf(i) # SidOf(j)
  /\ ToSet(old) \cup ToSet(same) \subseteq ToSet(Listed)
  /\ ToSet(old) \cap ToSet(same) = {} /\ IsInjective(old)
  /\ scanned = {SidOf(i) : i \in ToSet(Listed) \ ToSet(old)} \cup {SidOf(i) : i \in ToSet(new)}

LoopTypes ==
  /\ idx \in [Readers -> Nat] /\ hdr \in [Readers -> Header]
  /\ {private, seen, snap} \subseteq [Readers -> Seq(Inst)]
  /\ {since, stayed} \subseteq [Readers -> SUBSET Inst]

(* A loop has what is listed among the instances registered since it began,  *)
(* and of those all that it may still find in the slots of its header.       *)
Loop(r) ==
  /\ idx[r] <= WalkLen(r) + 1
  /\ hdr[r].len <= Len(heap[hdr[r].arr])
  /\ Walking(r) => ToSet(Listed) \subseteq since[r]
  /\ \A k \in 1..hdr[r].len : heap[hdr[r].arr][k] \in since[r]
  /\ \A i \in ToSet(private[r]) : i \in since[r] /\ Matches(r, i)
  /\ ~Walking(r) => hdr[r].len = 0 /\ seen[r] = <<>> /\ snap[r] = <<>>

(* A loop none of whose instances was deleted has them still in their slots:  *)
(* what is appended or moved is behind them, or in another array.            *)
Isolated(r) ==
  Walking(r) =>
    /\ Len(seen[r]) = idx[r] - 1
    /\ Undisturbed(r) =>
         /\ Len(snap[r]) = WalkLen(r)
         /\ \A k \in 1..WalkLen(r) : Elem(r, k) = snap[r][k]
         /\ \A k \in 1..Len(seen[r]) : seen[r][k] = snap[r][k]
         /\ r \notin Filtered /\ hdr[r].arr = OraInstances.arr =>
              /\ hdr[r].len <= Len(Listed)
              /\ \A k \in DOMAIN shift : k > hdr[r].len

Inv == /\ Arrays /\ Rounds /\ LoopTypes
       /\ \A r \in Readers : Loop(r) /\ Isolated(r)

-----------------------------------------------------------------------------
LEMMA Parameters ==
  /\ IsFiniteSet(Inst) /\ Nil \notin Inst /\ Filtered \subseteq Readers
  /\ \A r \in Readers \ Filtered, i \in Inst : Matches(r, i)
  BY InstanceListAssumption

Length == OraInstances.len - (IF deleting THEN 1 ELSE 0)

Listing ==
  /\ Length \in Nat /\ Listed \in Seq(Inst) /\ Len(Listed) = Length
  /\ DOMAIN Listed = 1..Length
  /\ \A k \in 1..Length : Listed[k] = IF k \in DOMAIN shift THEN shift[k] ELSE Slots[k]
  /\ \A k \in 1..Length : Listed[k] \in Inst

LEMMA ListedProperties == Arrays => Listing
  <1> SUFFICES ASSUME Arrays PROVE Listing
    OBVIOUS
  <1>1. Length \in Nat /\ \A k \in 1..Length : k \in 1..OraInstances.len
    BY DEF Arrays, Length
  <1>2. Listed = [k \in 1..Length |-> IF k \in DOMAIN shift THEN shift[k] ELSE Slots[k]]
    BY DEF Listed, Length
  <1>3. \A k \in 1..Length : (IF k \in DOMAIN shift THEN shift[k] ELSE Slots[k]) \in Inst
    BY <1>1 DEF Arrays
  <1>4. Listed \in [1..Length -> Inst]
    BY <1>2, <1>3
  <1> HIDE DEF Length
  <1>5. Listed \in Seq(Inst)
    BY <1>1, <1>4, SeqDef
  <1>6. DOMAIN Listed = 1..Length
    BY <1>2
  <1>7. Len(Listed) = Length
    BY <1>1, <1>5, <1>6, LenProperties
  <1> QED
    BY <1>1, <1>2, <1>3, <1>5, <1>6, <1>7 DEF Listing

LEMMA ListedNext == Arrays' => Listing'
  BY ListedProperties, PTL

(* The instances of a list without two of the same SID are themselves apart.  *)
LEMMA UniqueInjective ==
  ASSUME UniqueSids
  PROVE  /\ IsInjective(Listed)
         /\ \A i, j \in ToSet(Listed) : SidOf(i) = SidOf(j) => i = j
  BY DEF UniqueSids, IsInjective, ToSet

(* A store in an array, and what it leaves alone. *)
LEMMA HeapStore ==
  ASSUME NEW h \in Seq(Seq(Inst \cup {Nil})), NEW a \in 1..Len(h), NEW k \in 1..Len(h[a]),
         NEW i \in Inst
  PROVE  LET g == [h EXCEPT ![a][k] = i]
         IN  /\ g \in Seq(Seq(Inst \cup {Nil})) /\ Len(g) = Len(h)
             /\ \A b \in 1..Len(h) : Len(g[b]) = Len(h[b]) /\ (b # a => g[b] = h[b])
             /\ g[a][k] = i /\ \A j \in 1..Len(h[a]) : j # k => g[a][j] = h[a][j]
  <1> DEFINE row == [h[a] EXCEPT ![k] = i]
             g == [h EXCEPT ![a] = row]
  <1>1. h[a] \in Seq(Inst \cup {Nil})
    BY ElementOfSeq
  <1>2. /\ row \in Seq(Inst \cup {Nil}) /\ Len(row) = Len(h[a])
        /\ row[k] = i /\ \A j \in 1..Len(h[a]) : j # k => row[j] = h[a][j]
    BY <1>1, ExceptSeq
  <1> HIDE DEF row
  <1>3. /\ g \in Seq(Seq(Inst \cup {Nil})) /\ Len(g) = Len(h)
        /\ \A b \in 1..Len(h) : g[b] = IF b = a THEN row ELSE h[b]
    BY <1>2, ExceptSeq
  <1>4. [h EXCEPT ![a][k] = i] = g
    BY DEF row
  <1> HIDE DEF g
  <1> QED
    BY <1>2, <1>3, <1>4

-----------------------------------------------------------------------------
LEMMA InvInit == Init => Inv
  <1> SUFFICES ASSUME Init PROVE Inv
    OBVIOUS
  <1>1. /\ \A S : <<>> \in Seq(S)
        /\ Len(<<>>) = 0 /\ ToSet(<<>>) = {} /\ IsInjective(<<>>) /\ DOMAIN <<>> = {}
    <2>1. DOMAIN <<>> = {}
      OBVIOUS
    <2> QED
      BY <2>1, EmptySeq DEF ToSet, IsInjective
  <1>2. Arrays
    <2>1. heap \in Seq(Seq(Inst \cup {Nil})) /\ Len(heap) = 1 /\ Slots = <<>>
      BY <1>1 DEF Init, Slots
    <2>2. OraInstances \in [arr : 1..Len(heap), len : Nat]
      BY <2>1 DEF Init
    <2>3. OraInstances.len = 0 /\ Len(Slots) = 0 /\ deleting = FALSE /\ DOMAIN shift = {}
      BY <1>1, <2>1 DEF Init
    <2>4. 1..OraInstances.len = {}
      BY <2>3
    <2>5. /\ \A k \in 1..OraInstances.len : Slots[k] \in Inst
          /\ \A k \in DOMAIN shift : /\ deleting /\ k \in 1..(OraInstances.len - 1)
                                     /\ shift[k] \in Inst
      BY ONLY <2>3, <2>4
    <2> HIDE DEF Slots
    <2>6. OraInstances.len <= Len(Slots)
      BY <2>3
    <2>7. deleting \in BOOLEAN /\ (deleting => OraInstances.len > 0)
      BY ONLY <2>3
    <2> QED
      BY <2>1, <2>2, <2>4, <2>5, <2>6, <2>7, Zenon DEF Arrays
  <1>3. Listed = <<>>
    BY <1>1, <1>2, ListedProperties, EmptySeq DEF Init, Length, Listing
  <1>4. Rounds
    BY <1>1, <1>3 DEF Init, Rounds, UniqueSids
  <1>5. LoopTypes
    BY <1>1 DEF Init, LoopTypes, Header
  <1>6. ASSUME NEW r \in Readers PROVE Loop(r) /\ Isolated(r)
    <2>1. Len(heap[1]) = 0
      BY <1>1 DEF Init
    <2> QED
      BY <1>1, <2>1 DEF Init, Loop, Isolated, Walking, WalkLen
  <1> QED
    BY <1>2, <1>4, <1>5, <1>6 DEF Inv

-----------------------------------------------------------------------------
(* What the writer may do to the arrays under a loop. *)

LEMMA WriterLoopTypes ==
  ASSUME LoopTypes, UNCHANGED loops, Len(heap) \in Nat, Len(heap') \in Nat, Len(heap) <= Len(heap'),
         {since', stayed'} \subseteq [Readers -> SUBSET Inst]
  PROVE  LoopTypes'
  <1>1. Header \subseteq Header'
    BY DEF Header
  <1> QED
    BY <1>1 DEF LoopTypes, loops

(* The header of a loop lies inside its array. *)
Inside(r) ==
  /\ hdr[r].arr \in 1..Len(heap) /\ hdr[r].len \in Nat
  /\ hdr[r].len <= Len(heap[hdr[r].arr]) /\ Len(heap[hdr[r].arr]) \in Nat
  /\ heap[hdr[r].arr] \in Seq(Inst \cup {Nil})

LEMMA InsideArray ==
  ASSUME NEW r \in Readers, Loop(r), LoopTypes, Arrays
  PROVE  Inside(r)
  <1>1. hdr[r].arr \in 1..Len(heap) /\ hdr[r].len \in Nat
    BY DEF LoopTypes, Header
  <1>2. heap[hdr[r].arr] \in Seq(Inst \cup {Nil})
    BY <1>1, ElementOfSeq DEF Arrays
  <1> QED
    BY <1>1, <1>2, LenProperties DEF Loop, Inside

LEMMA WriterLoop ==
  ASSUME NEW r \in Readers, Loop(r), LoopTypes, UNCHANGED loops, Arrays,
         \A a \in 1..Len(heap) : Len(heap'[a]) = Len(heap[a]),
         since[r] \subseteq since'[r],
         Walking(r) => ToSet(Listed') \subseteq since'[r],
         Walking(r) =>
           \A a \in 1..Len(heap) : \A k \in 1..Len(heap[a]) :
             heap'[a][k] = heap[a][k] \/ heap'[a][k] \in since'[r]
  PROVE  Loop(r)'
  <1>1. Inside(r)
    BY InsideArray
  <1>2. UNCHANGED <<hdr, private, idx, seen, snap>>
    BY DEF loops
  <1>3. \A k \in 1..hdr[r].len : heap'[hdr[r].arr][k] \in since'[r]
    <2>1. CASE Walking(r)
      <3>1. \A k \in 1..hdr[r].len : k \in 1..Len(heap[hdr[r].arr])
        BY <1>1 DEF Inside
      <3> QED
        BY <1>1, <2>1, <3>1 DEF Loop, Inside
    <2>2. CASE ~Walking(r)
      <3>1. 1..hdr[r].len = {}
        BY <2>2 DEF Loop
      <3> QED
        BY <3>1
    <2> QED
      BY <2>1, <2>2
  <1> QED
    BY <1>1, <1>2, <1>3 DEF Loop, Walking, WalkLen, Inside

LEMMA WriterIsolated ==
  ASSUME NEW r \in Readers, Isolated(r), UNCHANGED loops, stayed'[r] \subseteq stayed[r],
         Walking(r) /\ r \notin Filtered /\ ToSet(snap[r]) \subseteq stayed'[r] =>
           /\ \A k \in 1..hdr[r].len : heap'[hdr[r].arr][k] = heap[hdr[r].arr][k]
           /\ hdr[r].arr = OraInstances'.arr =>
                /\ hdr[r].len <= Len(Listed')
                /\ \A k \in DOMAIN shift' : k > hdr[r].len
  PROVE  Isolated(r)'
  <1>1. UNCHANGED <<hdr, private, idx, seen, snap>>
    BY DEF loops
  <1>2. Undisturbed(r)' => Undisturbed(r)
    BY <1>1 DEF Undisturbed
  <1>3. Walking(r)' = Walking(r) /\ WalkLen(r)' = WalkLen(r)
    BY <1>1 DEF Walking, WalkLen
  <1> SUFFICES ASSUME Walking(r) PROVE Isolated(r)'
    BY <1>3 DEF Isolated
  <1>4. Len(seen[r]) = idx[r] - 1
    BY DEF Isolated
  <1>5. ASSUME Undisturbed(r)'
        PROVE  /\ Len(snap[r]) = WalkLen(r)
               /\ \A k \in 1..WalkLen(r) : Elem(r, k)' = snap[r][k]
               /\ \A k \in 1..Len(seen[r]) : seen[r][k] = snap[r][k]
               /\ r \notin Filtered /\ hdr[r].arr = OraInstances'.arr =>
                    /\ hdr[r].len <= Len(Listed')
                    /\ \A k \in DOMAIN shift' : k > hdr[r].len
    <2>1. CASE r \in Filtered
      BY <1>1, <1>2, <1>5, <2>1 DEF Isolated, Elem
    <2>2. CASE r \notin Filtered
      BY <1>1, <1>2, <1>5, <2>2 DEF Isolated, Elem, Undisturbed, WalkLen
    <2> QED
      BY <2>1, <2>2
  <1> QED
    BY <1>1, <1>3, <1>4, <1>5 DEF Isolated

(* A step that leaves the arrays alone leaves the loops alone. *)
LEMMA ArraysAlone ==
  ASSUME Inv, UNCHANGED <<heap, OraInstances, deleting, shift>>, UNCHANGED loops, UNCHANGED history,
         Rounds'
  PROVE  Inv'
  <1>1. Arrays' /\ Listed' = Listed /\ Length' = Length /\ Slots' = Slots
    BY DEF Inv, Arrays, Slots, Listed, Length
  <1>2. LoopTypes'
    BY DEF Inv, LoopTypes, Header, loops, history
  <1>3. \A r \in Readers : Loop(r)' /\ Isolated(r)'
    BY <1>1 DEF Inv, Loop, Isolated, loops, history, Walking, WalkLen, Elem, Undisturbed
  <1> QED
    BY <1>1, <1>2, <1>3 DEF Inv

-----------------------------------------------------------------------------
(* The comparison of a scan with the list *)

Sids == {SidOf(i) : i \in Inst}

Apart(ia) == \A j, k \in DOMAIN ia : SidOf(ia[j]) = SidOf(ia[k]) => j = k

LEMMA SidNames ==
  ASSUME NEW ia \in Seq(Inst), Apart(ia)
  PROVE  /\ GetSidNames(ia) \in Seq(Sids) /\ IsInjective(GetSidNames(ia))
         /\ ToSet(GetSidNames(ia)) = {SidOf(i) : i \in ToSet(ia)}
  <1> DEFINE t == GetSidNames(ia)
  <1>1. DOMAIN ia = 1..Len(ia) /\ Len(ia) \in Nat /\ \A k \in DOMAIN ia : ia[k] \in Inst
    BY LenProperties, ElementOfSeq
  <1>2. DOMAIN t = DOMAIN ia /\ \A k \in DOMAIN ia : t[k] = SidOf(ia[k])
    BY DEF GetSidNames
  <1>3. t \in [1..Len(ia) -> Sids]
    BY <1>1 DEF GetSidNames, Sids
  <1>4. t \in Seq(Sids)
    BY <1>1, <1>3, SeqDef
  <1> HIDE DEF t
  <1>5. IsInjective(t)
    BY <1>2 DEF IsInjective, Apart
  <1>6. ToSet(t) = {SidOf(i) : i \in ToSet(ia)}
    BY <1>2 DEF ToSet
  <1> QED
    BY <1>4, <1>5, <1>6 DEF t

LEMMA BySidProperties ==
  ASSUME NEW ia \in Seq(Inst), NEW sid, \E i \in ToSet(ia) : SidOf(i) = sid
  PROVE  BySid(ia, sid) \in ToSet(ia) /\ SidOf(BySid(ia, sid)) = sid
  <1> DEFINE S == {k \in DOMAIN ia : SidOf(ia[k]) = sid}
  <1>1. DOMAIN ia = 1..Len(ia) /\ Len(ia) \in Nat
    BY LenProperties
  <1>2. S \subseteq Nat /\ S # {}
    BY <1>1 DEF ToSet
  <1>3. \E m \in S : \A n \in S : m <= n
    BY <1>2, LeastElement
  <1>4. Min(S) \in S
    BY <1>3 DEF Min
  <1> QED
    BY <1>4 DEF BySid, ToSet

(* Looking up distinct SIDs of a list. *)
LEMMA Lookup ==
  ASSUME NEW ia \in Seq(Inst), Apart(ia), NEW sids \in Seq(Sids), IsInjective(sids),
         ToSet(sids) \subseteq {SidOf(i) : i \in ToSet(ia)}
  PROVE  LET t == [k \in DOMAIN sids |-> BySid(ia, sids[k])]
         IN  /\ t \in Seq(Inst) /\ Apart(t) /\ IsInjective(t)
             /\ ToSet(t) = {i \in ToSet(ia) : SidOf(i) \in ToSet(sids)}
  <1> DEFINE t == [k \in DOMAIN sids |-> BySid(ia, sids[k])]
  <1>1. DOMAIN sids = 1..Len(sids) /\ Len(sids) \in Nat
    BY LenProperties
  <1>2. \A k \in DOMAIN sids : sids[k] \in ToSet(sids)
    BY DEF ToSet
  <1>3. \A k \in DOMAIN sids : t[k] \in ToSet(ia) /\ SidOf(t[k]) = sids[k]
    BY <1>2, BySidProperties
  <1>4. ToSet(ia) \subseteq Inst
    BY LenProperties, ElementOfSeq DEF ToSet
  <1>5. DOMAIN t = DOMAIN sids
    OBVIOUS
  <1>6. t \in [1..Len(sids) -> Inst]
    BY <1>1, <1>3, <1>4
  <1>7. t \in Seq(Inst)
    BY <1>1, <1>6, SeqDef
  <1> HIDE DEF t
  <1>8. Apart(t) /\ IsInjective(t)
    BY <1>3, <1>5 DEF Apart, IsInjective
  <1>9. ToSet(t) = {i \in ToSet(ia) : SidOf(i) \in ToSet(sids)}
    <2>1. \A i \in ToSet(t) : i \in ToSet(ia) /\ SidOf(i) \in ToSet(sids)
      BY <1>2, <1>3, <1>5 DEF ToSet
    <2>2. ASSUME NEW i \in ToSet(ia), SidOf(i) \in ToSet(sids) PROVE i \in ToSet(t)
      <3>1. PICK k \in DOMAIN sids : sids[k] = SidOf(i)
        BY <2>2 DEF ToSet
      <3>2. t[k] \in ToSet(ia) /\ SidOf(t[k]) = SidOf(i)
        BY <1>3, <3>1
      <3>3. \A a, b \in ToSet(ia) : SidOf(a) = SidOf(b) => a = b
        BY DEF Apart, ToSet
      <3>4. t[k] = i
        BY <3>2, <3>3
      <3> QED
        BY <1>5, <3>4 DEF ToSet
    <2> QED
      BY <2>1, <2>2
  <1> QED
    BY <1>7, <1>8, <1>9 DEF t

(* A permutation of a finite set. *)
LEMMA Permutation ==
  ASSUME NEW S \in SUBSET Inst, NEW s \in SetToSeqs(S)
  PROVE  s \in Seq(Inst) /\ IsInjective(s) /\ ToSet(s) = S
  <1> DEFINE n == Cardinality(S)
  <1>1. IsFiniteSet(S) /\ n \in Nat
    BY Parameters, FS_Subset, FS_CardinalityType
  <1>2. s \in [1..n -> S] /\ \A i, j \in 1..n : i # j => s[i] # s[j]
    BY DEF SetToSeqs
  <1> HIDE DEF n
  <1>3. IsInjective(s)
    BY <1>2 DEF IsInjective
  <1>4. s \in Seq(Inst)
    BY <1>1, <1>2, SeqDef
  <1>5. IsFiniteSet(1..n) /\ Cardinality(1..n) = n
    BY <1>1, FS_Interval
  <1>6. s \in Injection(1..n, S)
    BY <1>2, <1>3 DEF Injection
  <1>7. s \in Surjection(1..n, S)
    BY <1>1, <1>5, <1>6, FS_Injection DEF n
  <1> QED
    BY <1>2, <1>3, <1>4, <1>7 DEF Surjection, ToSet

(* The first of a list of instances with different SIDs, and the others. *)
LEMMA TailApart ==
  ASSUME NEW ia \in Seq(Inst), Apart(ia), ia # <<>>
  PROVE  /\ Head(ia) \in Inst /\ Tail(ia) \in Seq(Inst) /\ Apart(Tail(ia))
         /\ ToSet(ia) = {Head(ia)} \cup ToSet(Tail(ia))
         /\ \A i \in ToSet(Tail(ia)) : SidOf(i) # SidOf(Head(ia))
  <1>1. /\ Head(ia) \in Inst /\ Tail(ia) \in Seq(Inst) /\ Len(Tail(ia)) = Len(ia) - 1
        /\ Len(ia) \in Nat \ {0} /\ DOMAIN ia = 1..Len(ia)
        /\ \A k \in 1..Len(Tail(ia)) : Tail(ia)[k] = ia[k + 1]
    BY HeadTailProperties, LenProperties, EmptySeq
  <1>2. Head(ia) = ia[1] /\ ToSet(ia) = {Head(ia)} \cup ToSet(Tail(ia))
    BY TailProperties
  <1>3. \A k \in DOMAIN Tail(ia) : k + 1 \in DOMAIN ia /\ k + 1 # 1 /\ Tail(ia)[k] = ia[k + 1] /\ k \in Nat
    BY <1>1, LenProperties
  <1> DEFINE t == Tail(ia)
  <1> HIDE DEF t
  <1>4. \A k \in DOMAIN t : k + 1 \in DOMAIN ia /\ k + 1 # 1 /\ t[k] = ia[k + 1] /\ k \in Nat
    BY <1>3 DEF t
  <1>5. ASSUME NEW j \in DOMAIN t, NEW k \in DOMAIN t, SidOf(t[j]) = SidOf(t[k]) PROVE j = k
    <2>1. j + 1 = k + 1
      BY <1>4, <1>5 DEF Apart
    <2> QED
      BY <1>4, <2>1
  <1>6. ASSUME NEW k \in DOMAIN t PROVE SidOf(t[k]) # SidOf(Head(ia))
    BY <1>1, <1>2, <1>4 DEF Apart
  <1>7. Apart(t) /\ \A i \in ToSet(t) : SidOf(i) # SidOf(Head(ia))
    BY <1>5, <1>6 DEF Apart, ToSet
  <1> QED
    BY <1>1, <1>2, <1>7 DEF t

LEMMA DiscoverInv == Inv /\ Discover => Inv'
  <1> SUFFICES ASSUME Inv, Discover PROVE Inv'
    OBVIOUS
  <1>1. /\ UNCHANGED <<heap, OraInstances, deleting, shift, unborn>>
        /\ UNCHANGED loops /\ UNCHANGED history
    BY DEF Discover
  <1>2. Listed' = Listed
    BY <1>1 DEF Listed, Slots
  <1>3a. PICK found \in SUBSET Inst :
           /\ \A i, j \in found : SidOf(i) = SidOf(j) => i = j
           /\ \E updated \in SetToSeqs(found) : GetNewAndOldInstances(updated)
           /\ scanned' = {SidOf(i) : i \in found}
    BY DEF Discover
  <1>3b. PICK updated \in SetToSeqs(found) : GetNewAndOldInstances(updated)
    BY <1>3a
  <1>3. /\ \A i, j \in found : SidOf(i) = SidOf(j) => i = j
        /\ GetNewAndOldInstances(updated)
        /\ scanned' = {SidOf(i) : i \in found}
    BY <1>3a, <1>3b
  <1>4. updated \in Seq(Inst) /\ IsInjective(updated) /\ ToSet(updated) = found
    BY Permutation
  <1>5. Apart(updated)
    <2>1. \A k \in DOMAIN updated : updated[k] \in found
      BY <1>4 DEF ToSet
    <2> QED
      BY <1>3, <1>4, <2>1 DEF Apart, IsInjective
  <1>6. Listed \in Seq(Inst) /\ Apart(Listed)
    BY ListedProperties DEF Inv, Rounds, UniqueSids, Apart, Listing
  <1> DEFINE cur == GetSidNames(Listed)
             scan == GetSidNames(updated)
             created == SliceDiff(scan, cur)
             gone == SliceDiff(cur, scan)
             kept == SliceIntersect(cur, scan)
  <1>7. /\ cur \in Seq(Sids) /\ IsInjective(cur) /\ ToSet(cur) = {SidOf(i) : i \in ToSet(Listed)}
        /\ scan \in Seq(Sids) /\ IsInjective(scan) /\ ToSet(scan) = {SidOf(i) : i \in found}
    BY <1>4, <1>5, <1>6, SidNames
  <1>8. /\ new' = [k \in DOMAIN created |-> BySid(updated, created[k])]
        /\ old' = [k \in DOMAIN gone |-> BySid(Listed, gone[k])]
        /\ same' = [k \in DOMAIN kept |-> BySid(Listed, kept[k])]
    BY <1>3 DEF GetNewAndOldInstances
  <1> HIDE DEF cur, scan
  <1>9. /\ created \in Seq(Sids) /\ IsInjective(created) /\ ToSet(created) = ToSet(scan) \ ToSet(cur)
        /\ gone \in Seq(Sids) /\ IsInjective(gone) /\ ToSet(gone) = ToSet(cur) \ ToSet(scan)
        /\ kept \in Seq(Sids) /\ IsInjective(kept) /\ ToSet(kept) = ToSet(cur) \cap ToSet(scan)
    <2>1. /\ created \in Seq(Sids) /\ IsInjective(created)
          /\ ToSet(created) = ToSet(scan) \cap (ToSet(scan) \ ToSet(cur))
      BY <1>7, FilterProperties DEF SliceDiff
    <2>2. /\ gone \in Seq(Sids) /\ IsInjective(gone)
          /\ ToSet(gone) = ToSet(cur) \cap (ToSet(cur) \ ToSet(scan))
      BY <1>7, FilterProperties DEF SliceDiff
    <2>3. /\ kept \in Seq(Sids) /\ IsInjective(kept)
          /\ ToSet(kept) = ToSet(scan) \cap ToSet(cur)
      BY <1>7, FilterProperties DEF SliceIntersect
    <2> HIDE DEF created, gone, kept
    <2> QED
      BY <2>1, <2>2, <2>3
  <1> HIDE DEF created, gone, kept
  <1>10. /\ new' \in Seq(Inst) /\ Apart(new')
         /\ ToSet(new') = {i \in found : SidOf(i) \in ToSet(created)}
    BY <1>4, <1>5, <1>7, <1>8, <1>9, Lookup
  <1>11. /\ old' \in Seq(Inst) /\ IsInjective(old')
         /\ ToSet(old') = {i \in ToSet(Listed) : SidOf(i) \in ToSet(gone)}
    BY <1>6, <1>7, <1>8, <1>9, Lookup
  <1>12. /\ same' \in Seq(Inst)
         /\ ToSet(same') = {i \in ToSet(Listed) : SidOf(i) \in ToSet(kept)}
    BY <1>6, <1>7, <1>8, <1>9, Lookup
  <1>13. \A i \in ToSet(new'), j \in ToSet(Listed) : SidOf(i) # SidOf(j)
    BY <1>7, <1>9, <1>10
  <1>14. ToSet(old') \cup ToSet(same') \subseteq ToSet(Listed) /\ ToSet(old') \cap ToSet(same') = {}
    BY <1>9, <1>11, <1>12
  <1>15. scanned' = {SidOf(i) : i \in ToSet(Listed) \ ToSet(old')} \cup {SidOf(i) : i \in ToSet(new')}
    <2>1. scanned' = ToSet(scan)
      BY <1>3, <1>7
    <2>2. \A i \in ToSet(Listed) : i \in ToSet(old') <=> SidOf(i) \notin ToSet(scan)
      BY <1>7, <1>9, <1>11
    <2>3. {SidOf(i) : i \in ToSet(Listed) \ ToSet(old')} = ToSet(cur) \cap ToSet(scan)
      BY <1>7, <2>2
    <2>4. {SidOf(i) : i \in ToSet(new')} = ToSet(scan) \ ToSet(cur)
      BY <1>7, <1>9, <1>10
    <2> QED
      BY <2>1, <2>3, <2>4
  <1>16. unborn' \subseteq Inst /\ UniqueSids'
    BY <1>1, <1>2 DEF Inv, Rounds, UniqueSids
  <1>17. Rounds'
    BY <1>2, <1>10, <1>11, <1>12, <1>13, <1>14, <1>15, <1>16 DEF Rounds, Apart
  <1> QED
    BY <1>1, <1>17, ArraysAlone

LEMMA InitErrorInv == Inv /\ InitError => Inv'
  <1> SUFFICES ASSUME Inv, InitError PROVE Inv'
    OBVIOUS
  <1>1. /\ UNCHANGED <<heap, OraInstances, deleting, shift>>
        /\ UNCHANGED loops /\ UNCHANGED history
        /\ UNCHANGED <<unborn, old, same>> /\ new # <<>>
        /\ new' = Tail(new) /\ scanned' = scanned \ {SidOf(Head(new))}
    BY DEF InitError
  <1>2. Listed' = Listed
    BY <1>1 DEF Listed, Slots
  <1>3. new \in Seq(Inst) /\ Apart(new)
    BY DEF Inv, Rounds, Apart
  <1>4. /\ new' \in Seq(Inst) /\ Apart(new') /\ ToSet(new) = {Head(new)} \cup ToSet(new')
        /\ \A i \in ToSet(new') : SidOf(i) # SidOf(Head(new))
    BY <1>1, <1>3, TailApart
  <1>5. scanned' = {SidOf(i) : i \in ToSet(Listed) \ ToSet(old)} \cup {SidOf(i) : i \in ToSet(new')}
    <2> DEFINE A == {SidOf(i) : i \in ToSet(Listed) \ ToSet(old)}
    <2>1. scanned = A \cup {SidOf(i) : i \in ToSet(new)}
      BY DEF Inv, Rounds
    <2>2. SidOf(Head(new)) \notin A
      BY <1>4 DEF Inv, Rounds
    <2> HIDE DEF A
    <2>3. {SidOf(i) : i \in ToSet(new)} = {SidOf(Head(new))} \cup {SidOf(i) : i \in ToSet(new')}
      BY <1>4
    <2>4. SidOf(Head(new)) \notin {SidOf(i) : i \in ToSet(new')}
      BY <1>4
    <2>5. scanned' = A \cup {SidOf(i) : i \in ToSet(new')}
      BY <1>1, <2>1, <2>2, <2>3, <2>4
    <2> QED
      BY <2>5 DEF A
  <1>6. Rounds'
    <2>1. UniqueSids' /\ unborn' \subseteq Inst
      BY <1>1, <1>2 DEF Inv, Rounds, UniqueSids
    <2> QED
      BY <1>1, <1>2, <1>4, <1>5, <2>1 DEF Inv, Rounds, Apart
  <1> QED
    BY <1>1, <1>6, ArraysAlone

LEMMA RoundDoneInv == Inv /\ RoundDone => Inv'
  <1> SUFFICES ASSUME Inv, RoundDone PROVE Inv'
    OBVIOUS
  <1>1. /\ UNCHANGED <<heap, OraInstances, deleting, shift>>
        /\ UNCHANGED loops /\ UNCHANGED history
        /\ UNCHANGED <<unborn, scanned, new, old>> /\ same' = <<>>
    BY DEF RoundDone
  <1>2. Listed' = Listed
    BY <1>1 DEF Listed, Slots
  <1>3. same' \in Seq(Inst) /\ ToSet(same') = {}
    <2>1. DOMAIN <<>> = {}
      OBVIOUS
    <2> QED
      BY <1>1, <2>1, EmptySeq DEF ToSet
  <1>4. Rounds'
    BY <1>1, <1>2, <1>3 DEF Inv, Rounds, UniqueSids
  <1> QED
    BY <1>1, <1>4, ArraysAlone

-----------------------------------------------------------------------------
(* The moves of an insertion and of a deletion *)

(* append writes the slot after the last one, or a new array. *)
LEMMA AppendArrays ==
  ASSUME Arrays, ~deleting, NEW i \in Inst, Append1(i), UNCHANGED <<deleting, shift>>
  PROVE  /\ Arrays' /\ Listed' = Append(Listed, i)
         /\ Len(heap) \in Nat /\ Len(heap') \in Nat /\ Len(heap) <= Len(heap')
         /\ OraInstances'.arr \in {OraInstances.arr, Len(heap) + 1}
         /\ \A a \in 1..Len(heap) :
              /\ Len(heap'[a]) = Len(heap[a])
              /\ \A k \in 1..Len(heap[a]) :
                   heap'[a][k] = heap[a][k]
                     \/ (heap'[a][k] = i /\ a = OraInstances.arr /\ k = OraInstances.len + 1)
  <1> DEFINE n == OraInstances.len
             arr == OraInstances.arr
             Elements == Inst \cup {Nil}
  <1>1. /\ heap \in Seq(Seq(Elements)) /\ Len(heap) \in Nat
        /\ arr \in 1..Len(heap) /\ n \in Nat /\ n <= Len(Slots)
        /\ OraInstances \in [arr : 1..Len(heap), len : Nat]
        /\ \A k \in 1..n : Slots[k] \in Inst
        /\ DOMAIN shift = {}
    BY LenProperties DEF Arrays
  <1>2. Slots \in Seq(Elements) /\ Len(Slots) \in Nat
    BY <1>1, ElementOfSeq, LenProperties DEF Slots
  <1>3. Listing /\ Length = n
    BY <1>1, ListedProperties DEF Length
  <1>4. \A k \in 1..n : Listed[k] = Slots[k]
    BY <1>1, <1>3 DEF Listing
  (* What is to be shown of the two cases: *)
  <1>5. ASSUME heap' \in Seq(Seq(Elements)), OraInstances' \in [arr : 1..Len(heap'), len : Nat],
               OraInstances'.len = n + 1, n + 1 <= Len(Slots'), Slots'[n + 1] = i,
               \A k \in 1..n : Slots'[k] = Slots[k]
        PROVE  Arrays' /\ Listed' = Append(Listed, i)
    <2>0. /\ \A k \in 1..(n + 1) : k = n + 1 \/ k \in 1..n
          /\ n + 1 > 0
      <3>1. n \in Nat
        BY <1>1
      <3> HIDE DEF n
      <3> QED
        BY ONLY <3>1
    <2>1. \A k \in 1..(n + 1) : Slots'[k] = IF k = n + 1 THEN i ELSE Slots[k]
      BY <1>5, <2>0, Zenon
    <2>2. \A k \in 1..(n + 1) : Slots'[k] \in Inst
      BY <1>1, <1>5, <2>0, Zenon
    <2>3. deleting' = deleting /\ shift' = shift
      OBVIOUS
    <2> HIDE DEF n
    <2>4. Arrays'
      <3>1. deleting' \in BOOLEAN /\ (deleting' => OraInstances'.len > 0)
        BY <1>5, <2>0, <2>3, Zenon DEF Arrays
      <3>2. \A k \in DOMAIN shift' : /\ deleting' /\ k \in 1..(OraInstances'.len - 1)
                                     /\ shift'[k] \in Inst
        BY <1>1, <2>3
      <3> QED
        BY <1>5, <2>2, <3>1, <3>2, Zenon DEF Arrays
    <2>5. Listing' /\ Length' = n + 1
      BY <1>5, <2>3, <2>4, ListedNext DEF Length
    <2>6. \A k \in 1..(n + 1) : Listed'[k] = Slots'[k]
      BY <1>1, <2>3, <2>5 DEF Listing
    <2> DEFINE t == Append(Listed, i)
    <2>7. /\ t \in Seq(Inst) /\ Len(t) = n + 1
          /\ \A k \in 1..n : t[k] = Listed[k]
          /\ t[n + 1] = i
      BY <1>3, AppendProperties DEF Listing
    <2> HIDE DEF t
    <2>8. \A k \in 1..(n + 1) : Listed'[k] = t[k]
      BY <1>1, <1>4, <2>1, <2>6, <2>7
    <2>9. Listed' \in Seq(Inst) /\ Len(Listed') = n + 1
      BY <2>5 DEF Listing
    <2>10. Listed' = t
      BY <2>7, <2>8, <2>9, SeqEqual
    <2> QED
      BY <2>4, <2>10 DEF t
  <1>6. CASE n < Len(Slots)
    <2>1. /\ heap' = [heap EXCEPT ![arr][n + 1] = i]
          /\ OraInstances' = [OraInstances EXCEPT !.len = n + 1]
      BY <1>6 DEF Append1
    <2>2. n + 1 \in 1..Len(heap[arr])
      BY <1>1, <1>2, <1>6 DEF Slots
    <2> DEFINE g == [heap EXCEPT ![arr][n + 1] = i]
    <2>3. /\ g \in Seq(Seq(Elements)) /\ Len(g) = Len(heap)
          /\ \A b \in 1..Len(heap) : Len(g[b]) = Len(heap[b]) /\ (b # arr => g[b] = heap[b])
          /\ g[arr][n + 1] = i /\ \A j \in 1..Len(heap[arr]) : j # n + 1 => g[arr][j] = heap[arr][j]
      BY <1>1, <2>2, HeapStore
    <2> HIDE DEF g
    <2>4. heap' = g
      BY <2>1 DEF g
    <2>5. OraInstances'.arr = arr /\ OraInstances'.len = n + 1
      BY <1>1, <2>1
    <2>6. OraInstances' \in [arr : 1..Len(heap'), len : Nat]
      <3>1. Len(heap') = Len(heap) /\ n + 1 \in Nat
        BY <1>1, <2>3, <2>4
      <3> QED
        BY <1>1, <2>1, <3>1
    <2>7. Slots' = g[arr]
      BY <2>4, <2>5 DEF Slots
    <2>8. \A k \in 1..n : k \in 1..Len(heap[arr]) /\ k # n + 1
      BY <1>1, <2>2
    <2>9. \A k \in 1..n : Slots'[k] = Slots[k]
      BY <2>3, <2>7, <2>8 DEF Slots
    <2>10. n + 1 <= Len(Slots') /\ Slots'[n + 1] = i
      BY <1>1, <2>2, <2>3, <2>7
    <2>11. Arrays' /\ Listed' = Append(Listed, i)
      BY <1>5, <2>3, <2>4, <2>5, <2>6, <2>9, <2>10
    <2>12. ASSUME NEW a \in 1..Len(heap)
           PROVE  /\ Len(heap'[a]) = Len(heap[a])
                  /\ \A k \in 1..Len(heap[a]) :
                       heap'[a][k] = heap[a][k]
                         \/ (heap'[a][k] = i /\ a = arr /\ k = n + 1)
      BY <2>3, <2>4
    <2> QED
      BY <1>1, <2>3, <2>4, <2>5, <2>11, <2>12
  <1>7. CASE ~(n < Len(Slots))
    <2> DEFINE row == [k \in 1..GrowCap(n) |->
                         IF k <= n THEN Slots[k] ELSE IF k = n + 1 THEN i ELSE Nil]
               g == Append(heap, row)
    <2>1. heap' = g /\ OraInstances' = [arr |-> Len(heap) + 1, len |-> n + 1]
      BY <1>7 DEF Append1
    <2>2. GrowCap(n) \in Nat /\ n + 1 <= GrowCap(n)
      BY <1>1 DEF GrowCap
    <2>3. row \in [1..GrowCap(n) -> Elements]
      BY <1>1, <2>2
    <2>4. /\ \A k \in 1..n : row[k] = Slots[k]
          /\ row[n + 1] = i
      BY <1>1, <2>2
    <2> HIDE DEF row
    <2>5. row \in Seq(Elements) /\ Len(row) = GrowCap(n)
      BY <2>2, <2>3, SeqDef, LenProperties
    <2>6. /\ g \in Seq(Seq(Elements)) /\ Len(g) = Len(heap) + 1
          /\ \A b \in 1..Len(heap) : g[b] = heap[b]
          /\ g[Len(heap) + 1] = row
      BY <1>1, <2>5, AppendProperties
    <2> HIDE DEF g
    <2>7. OraInstances'.arr = Len(heap) + 1 /\ OraInstances'.len = n + 1
      BY <2>1
    <2>8. OraInstances' \in [arr : 1..Len(heap'), len : Nat]
      BY <1>1, <2>1, <2>6
    <2>9. Slots' = row
      BY <2>1, <2>6, <2>7 DEF Slots
    <2>10. Arrays' /\ Listed' = Append(Listed, i)
      BY <1>5, <2>1, <2>2, <2>4, <2>5, <2>6, <2>7, <2>8, <2>9
    <2>11. Len(heap') \in Nat /\ Len(heap) <= Len(heap')
      BY <1>1, <2>1, <2>6
    <2>12. \A a \in 1..Len(heap) : heap'[a] = heap[a]
      BY <2>1, <2>6
    <2> QED
      BY <1>1, <2>7, <2>10, <2>11, <2>12, Zenon
  <1> QED
    BY <1>1, <1>6, <1>7

LEMMA AppendApart ==
  ASSUME NEW ia \in Seq(Inst), Apart(ia), NEW i \in Inst,
         \A j \in ToSet(ia) : SidOf(j) # SidOf(i)
  PROVE  Apart(Append(ia, i))
  <1> DEFINE t == Append(ia, i)
  <1>1. /\ t \in Seq(Inst) /\ Len(t) = Len(ia) + 1 /\ Len(ia) \in Nat
        /\ \A k \in 1..Len(ia) : t[k] = ia[k]
        /\ t[Len(ia) + 1] = i
    BY AppendProperties, LenProperties
  <1>2. DOMAIN ia = 1..Len(ia) /\ DOMAIN t = 1..(Len(ia) + 1)
    BY <1>1, LenProperties
  <1> HIDE DEF t
  <1>3. \A k \in DOMAIN t : k = Len(ia) + 1 \/ (k \in DOMAIN ia /\ t[k] = ia[k])
    BY <1>1, <1>2
  <1>4. \A k \in DOMAIN ia : ia[k] \in ToSet(ia)
    BY DEF ToSet
  <1>5. \A j, k \in DOMAIN t : SidOf(t[j]) = SidOf(t[k]) => j = k
    BY <1>1, <1>3, <1>4 DEF Apart
  <1> QED
    BY <1>5 DEF Apart, t

LEMMA AddInv == Inv /\ Add => Inv'
  <1> SUFFICES ASSUME Inv, Add PROVE Inv'
    OBVIOUS
  <1> DEFINE i == Head(new)
  <1>1. /\ ~deleting /\ new # <<>> /\ unborn' = unborn \ {i} /\ Append1(i) /\ new' = Tail(new)
        /\ since' = [r \in Readers |-> since[r] \cup (IF Walking(r) THEN {i} ELSE {})]
        /\ UNCHANGED <<deleting, shift, scanned, old, same, stayed>> /\ UNCHANGED loops
    BY DEF Add
  <1>2. Arrays /\ Rounds /\ LoopTypes /\ \A r \in Readers : Loop(r) /\ Isolated(r)
    BY DEF Inv
  <1>3. /\ i \in Inst /\ new' \in Seq(Inst) /\ Apart(new')
        /\ ToSet(new) = {i} \cup ToSet(new')
        /\ \A j \in ToSet(new') : SidOf(j) # SidOf(i)
    BY <1>1, <1>2, TailApart DEF Rounds, Apart
  <1> HIDE DEF i
  <1>4. /\ Arrays' /\ Listed' = Append(Listed, i)
        /\ Len(heap) \in Nat /\ Len(heap') \in Nat /\ Len(heap) <= Len(heap')
        /\ OraInstances'.arr \in {OraInstances.arr, Len(heap) + 1}
        /\ \A a \in 1..Len(heap) :
             /\ Len(heap'[a]) = Len(heap[a])
             /\ \A k \in 1..Len(heap[a]) :
                  heap'[a][k] = heap[a][k]
                    \/ (heap'[a][k] = i /\ a = OraInstances.arr /\ k = OraInstances.len + 1)
    BY <1>1, <1>2, <1>3, AppendArrays
  <1>5. /\ Listing /\ Length = OraInstances.len /\ DOMAIN shift = {}
        /\ Listed \in Seq(Inst) /\ Listed' \in Seq(Inst)
        /\ Len(Listed) = OraInstances.len /\ Len(Listed') = OraInstances.len + 1
        /\ OraInstances.len \in Nat
    <2>1. Listing /\ DOMAIN shift = {} /\ OraInstances.len \in Nat
      BY <1>1, <1>2, ListedProperties DEF Arrays
    <2>2. Length = OraInstances.len
      BY <1>1, <2>1 DEF Length
    <2> QED
      BY <1>3, <1>4, <2>1, <2>2, AppendProperties DEF Listing
  <1>6. ToSet(Listed') = ToSet(Listed) \cup {i}
    BY <1>3, <1>4, <1>5, AppendSet
  <1>7. Rounds'
    <2>1. \A j \in ToSet(Listed) : SidOf(j) # SidOf(i)
      BY <1>2, <1>3 DEF Rounds
    <2>2. UniqueSids'
      <3>1. Apart(Listed)
        BY <1>2 DEF Rounds, UniqueSids, Apart
      <3>2. Apart(Append(Listed, i))
        BY <1>3, <1>5, <2>1, <3>1, AppendApart
      <3> QED
        BY <1>4, <3>2 DEF UniqueSids, Apart
    <2>3. \A j \in ToSet(new'), k \in ToSet(Listed') : SidOf(j) # SidOf(k)
      BY <1>2, <1>3, <1>6 DEF Rounds
    <2>4. i \notin ToSet(Listed) /\ i \notin ToSet(old)
      BY <1>2, <2>1 DEF Rounds
    <2>5. scanned' = {SidOf(j) : j \in ToSet(Listed') \ ToSet(old')}
                       \cup {SidOf(j) : j \in ToSet(new')}
      <3>1. scanned = {SidOf(j) : j \in ToSet(Listed) \ ToSet(old)} \cup {SidOf(j) : j \in ToSet(new)}
        BY <1>2 DEF Rounds
      <3>2. ToSet(Listed') \ ToSet(old') = (ToSet(Listed) \ ToSet(old)) \cup {i}
        BY <1>1, <1>6, <2>4
      <3> DEFINE A == ToSet(Listed) \ ToSet(old)
                 B == ToSet(new')
      <3>3. {SidOf(j) : j \in A} \cup {SidOf(j) : j \in {i} \cup B}
              = {SidOf(j) : j \in A \cup {i}} \cup {SidOf(j) : j \in B}
        OBVIOUS
      <3> QED
        BY <1>1, <1>3, <3>1, <3>2, <3>3
    <2>6. unborn' \subseteq Inst
      BY <1>1, <1>2 DEF Rounds
    <2> QED
      BY <1>1, <1>2, <1>3, <1>6, <2>2, <2>3, <2>5, <2>6 DEF Rounds, Apart
  <1>8. \A r \in Readers : /\ since'[r] = since[r] \cup (IF Walking(r) THEN {i} ELSE {})
                           /\ since[r] \subseteq since'[r]
                           /\ Walking(r) => i \in since'[r]
    BY <1>1
  <1>9. LoopTypes'
    <2>1. since' \in [Readers -> SUBSET Inst]
      BY <1>1, <1>2, <1>3 DEF LoopTypes
    <2>2. stayed' \in [Readers -> SUBSET Inst]
      BY <1>1, <1>2 DEF LoopTypes
    <2> QED
      BY <1>1, <1>2, <1>4, <2>1, <2>2, WriterLoopTypes
  <1>10. ASSUME NEW r \in Readers PROVE Loop(r)'
    <2>1. Walking(r) => ToSet(Listed') \subseteq since'[r]
      BY <1>2, <1>6, <1>8 DEF Loop
    <2>2. Walking(r) =>
            \A a \in 1..Len(heap) : \A k \in 1..Len(heap[a]) :
              heap'[a][k] = heap[a][k] \/ heap'[a][k] \in since'[r]
      BY <1>4, <1>8
    <2> QED
      BY <1>1, <1>2, <1>4, <1>8, <2>1, <2>2, WriterLoop
  <1>11. ASSUME NEW r \in Readers PROVE Isolated(r)'
    <2>1. Inside(r)
      BY <1>2, InsideArray
    <2>2. ASSUME Walking(r), r \notin Filtered, ToSet(snap[r]) \subseteq stayed'[r]
          PROVE  /\ \A k \in 1..hdr[r].len : heap'[hdr[r].arr][k] = heap[hdr[r].arr][k]
                 /\ hdr[r].arr = OraInstances'.arr =>
                      /\ hdr[r].len <= Len(Listed')
                      /\ \A k \in DOMAIN shift' : k > hdr[r].len
      <3>1. hdr[r].arr = OraInstances.arr => hdr[r].len <= OraInstances.len
        BY <1>1, <1>2, <1>5, <2>2 DEF Isolated, Undisturbed
      <3>2. \A k \in 1..hdr[r].len : /\ k \in 1..Len(heap[hdr[r].arr])
                                     /\ k = OraInstances.len + 1 => hdr[r].arr # OraInstances.arr
        BY <1>5, <2>1, <3>1 DEF Inside
      <3>3. \A k \in 1..hdr[r].len : heap'[hdr[r].arr][k] = heap[hdr[r].arr][k]
        BY <1>4, <2>1, <3>2 DEF Inside
      <3>4. hdr[r].arr = OraInstances'.arr => hdr[r].arr = OraInstances.arr
        BY <1>4, <2>1 DEF Inside
      <3>5. hdr[r].arr = OraInstances'.arr => hdr[r].len <= Len(Listed')
        BY <1>5, <2>1, <3>1, <3>4 DEF Inside
      <3> QED
        BY <1>1, <1>5, <3>3, <3>5
    <2> QED
      BY <1>1, <1>2, <2>2, WriterIsolated
  <1> QED
    BY <1>4, <1>7, <1>9, <1>10, <1>11 DEF Inv

LEMMA RemoveApart ==
  ASSUME NEW ia \in Seq(Inst), Apart(ia), NEW k \in 1..Len(ia)
  PROVE  Apart(RemoveAt(ia, k))
  <1> DEFINE t == RemoveAt(ia, k)
             from(j) == IF j < k THEN j ELSE j + 1
  <1>1. /\ t \in Seq(Inst) /\ Len(t) = Len(ia) - 1 /\ Len(ia) \in Nat
        /\ \A j \in 1..(Len(ia) - 1) : t[j] = IF j < k THEN ia[j] ELSE ia[j + 1]
    BY RemoveAtProperties, LenProperties
  <1>2. DOMAIN ia = 1..Len(ia) /\ DOMAIN t = 1..(Len(ia) - 1)
    BY <1>1, LenProperties
  <1> HIDE DEF t
  <1>3. \A j \in DOMAIN t : from(j) \in DOMAIN ia /\ t[j] = ia[from(j)]
    BY <1>1, <1>2
  <1>4. \A j, l \in DOMAIN t : from(j) = from(l) => j = l
    BY <1>1, <1>2
  <1> HIDE DEF from
  <1> QED
    BY <1>3, <1>4 DEF Apart, t

(* From the moment it begins, a deletion has removed the head of old: the     *)
(* instance with its SID is that very object.                              *)
LEMMA DeleteListed ==
  ASSUME Inv, Delete
  PROVE  \E k \in 1..OraInstances.len :
           /\ Arrays' /\ k \in DOMAIN Listed /\ Slots[k] = Head(old) /\ Listed[k] = Head(old)
           /\ Listed' = RemoveAt(Listed, k)
           /\ Len(Listed') = OraInstances.len - 1 /\ Len(Listed) = OraInstances.len
           /\ DOMAIN shift' = k..(OraInstances.len - 1)
           /\ stayed' = [r \in Readers |-> stayed[r] \ {Head(old)}]
  <1> DEFINE n == OraInstances.len
             o == Head(old)
  <1>1. PICK k \in 1..n :
          /\ SidOf(Slots[k]) = SidOf(o)
          /\ shift' = [j \in k..(n - 1) |-> Slots[j + 1]]
          /\ stayed' = [r \in Readers |-> stayed[r] \ {Slots[k]}]
    BY DEF Delete
  <1>2. /\ ~deleting /\ old # <<>> /\ deleting' = TRUE
        /\ UNCHANGED <<heap, OraInstances>>
    BY DEF Delete
  <1>3. Arrays /\ Listing /\ n \in Nat /\ DOMAIN shift = {}
    BY <1>2, ListedProperties DEF Inv, Arrays
  <1>4. /\ Length = n /\ Listed \in Seq(Inst) /\ Len(Listed) = n /\ DOMAIN Listed = 1..n
        /\ \A j \in 1..n : Listed[j] = Slots[j]
    BY <1>2, <1>3 DEF Length, Listing
  <1>5. o \in ToSet(Listed)
    BY <1>2, TailProperties DEF Inv, Rounds
  <1>6. Slots[k] = o
    <2>1. Slots[k] \in ToSet(Listed)
      BY <1>4 DEF ToSet
    <2> QED
      BY <1>1, <1>5, <2>1, UniqueInjective DEF Inv, Rounds
  <1>7. Slots' = Slots /\ \A j \in 1..n : Slots[j] \in Inst
    BY <1>2, <1>3 DEF Slots, Arrays
  <1>8. /\ DOMAIN shift' = k..(n - 1)
        /\ \A j \in k..(n - 1) : j \in 1..(n - 1) /\ j + 1 \in 1..n /\ shift'[j] = Slots[j + 1]
    BY <1>1, <1>3
  <1>9. Arrays'
    <2>1. \A j \in DOMAIN shift' : deleting' /\ j \in 1..(n - 1) /\ shift'[j] \in Inst
      BY <1>2, <1>7, <1>8
    <2>2. n > 0
      BY <1>1, <1>3
    <2> QED
      BY <1>2, <1>3, <1>7, <2>1, <2>2 DEF Arrays
  <1>10. Listing' /\ Length' = n - 1
    BY <1>2, <1>9, ListedNext DEF Length
  <1>11. Listed' = RemoveAt(Listed, k)
    <2> DEFINE t == RemoveAt(Listed, k)
    <2>1. /\ t \in Seq(Inst) /\ Len(t) = n - 1
          /\ \A j \in 1..(n - 1) : t[j] = IF j < k THEN Listed[j] ELSE Listed[j + 1]
      BY <1>4, RemoveAtProperties
    <2> HIDE DEF t
    <2>2. \A j \in 1..(n - 1) : Listed'[j] = IF j \in DOMAIN shift' THEN shift'[j] ELSE Slots[j]
      BY <1>7, <1>10 DEF Listing
    <2>3. \A j \in 1..(n - 1) : /\ j \in 1..n /\ j + 1 \in 1..n
                                /\ j < k <=> ~(j \in k..(n - 1))
      BY <1>3
    <2>4. \A j \in 1..(n - 1) : Listed'[j] = t[j]
      BY <1>4, <1>8, <2>1, <2>2, <2>3
    <2>5. Listed' \in Seq(Inst) /\ Len(Listed') = n - 1
      BY <1>10 DEF Listing
    <2>6. Listed' = t
      BY <2>1, <2>4, <2>5, SeqEqual
    <2> QED
      BY <2>6 DEF t
  <1>12. Len(Listed') = n - 1
    BY <1>10 DEF Listing
  <1> QED
    BY <1>1, <1>4, <1>6, <1>8, <1>9, <1>11, <1>12

LEMMA DeleteInv == Inv /\ Delete => Inv'
  <1> SUFFICES ASSUME Inv, Delete PROVE Inv'
    OBVIOUS
  <1> DEFINE n == OraInstances.len
             o == Head(old)
  <1>1. PICK k \in 1..n :
           /\ Arrays' /\ k \in DOMAIN Listed /\ Slots[k] = o /\ Listed[k] = o
           /\ Listed' = RemoveAt(Listed, k)
           /\ Len(Listed') = n - 1 /\ Len(Listed) = n
           /\ DOMAIN shift' = k..(n - 1)
           /\ stayed' = [r \in Readers |-> stayed[r] \ {o}]
    BY DeleteListed
  <1>2. /\ old # <<>> /\ old' = Tail(old)
        /\ UNCHANGED <<heap, OraInstances, unborn, scanned, new, same, since>>
        /\ UNCHANGED loops
    BY DEF Delete
  <1>3. Arrays /\ Rounds /\ LoopTypes /\ \A r \in Readers : Loop(r) /\ Isolated(r)
    BY DEF Inv
  <1>4. Listed \in Seq(Inst) /\ n \in Nat /\ Len(heap) \in Nat
    BY <1>3, ListedProperties, LenProperties DEF Listing, Arrays
  <1>5. ToSet(Listed') = ToSet(Listed) \ {o}
    BY <1>1, <1>3, <1>4, UniqueInjective, RemoveAtSet DEF Rounds
  <1>6. /\ old' \in Seq(Inst) /\ IsInjective(old')
        /\ ToSet(old) = {o} \cup ToSet(old') /\ o \notin ToSet(old')
    BY <1>2, <1>3, TailProperties DEF Rounds
  <1> HIDE DEF o, n
  <1>7. Rounds'
    <2>1. UniqueSids'
      <3>1. Apart(Listed)
        BY <1>3 DEF Rounds, UniqueSids, Apart
      <3>2. Apart(RemoveAt(Listed, k))
        BY <1>1, <1>4, <3>1, RemoveApart
      <3> QED
        BY <1>1, <3>2 DEF UniqueSids, Apart
    <2>2. ToSet(Listed') \ ToSet(old') = ToSet(Listed) \ ToSet(old)
      BY <1>5, <1>6
    <2>3. ToSet(old') \cup ToSet(same) \subseteq ToSet(Listed')
      BY <1>3, <1>5, <1>6 DEF Rounds
    <2>4. ToSet(old') \cap ToSet(same) = {}
      BY <1>3, <1>6 DEF Rounds
    <2>5. \A i \in ToSet(new), j \in ToSet(Listed') : SidOf(i) # SidOf(j)
      BY <1>3, <1>5 DEF Rounds
    <2> QED
      BY <1>2, <1>3, <1>6, <2>1, <2>2, <2>3, <2>4, <2>5 DEF Rounds
  <1>8. \A r \in Readers : stayed'[r] = stayed[r] \ {o}
    BY <1>1
  <1>9. LoopTypes'
    <2>1. since' \in [Readers -> SUBSET Inst]
      BY <1>2, <1>3 DEF LoopTypes
    <2>2. stayed' \in [Readers -> SUBSET Inst]
      BY <1>1, <1>3 DEF LoopTypes
    <2> QED
      BY <1>2, <1>3, <1>4, <2>1, <2>2, WriterLoopTypes
  <1>10. ASSUME NEW r \in Readers PROVE Loop(r)'
    <2>1. Walking(r) => ToSet(Listed') \subseteq since'[r]
      BY <1>2, <1>3, <1>5 DEF Loop
    <2>2. /\ \A a \in 1..Len(heap) : Len(heap'[a]) = Len(heap[a])
          /\ since[r] \subseteq since'[r]
          /\ \A a \in 1..Len(heap) : \A j \in 1..Len(heap[a]) : heap'[a][j] = heap[a][j]
      BY <1>2
    <2> QED
      BY <1>2, <1>3, <2>1, <2>2, WriterLoop
  <1>11. ASSUME NEW r \in Readers PROVE Isolated(r)'
    <2>1. Inside(r)
      BY <1>3, InsideArray
    <2>2. ASSUME Walking(r), r \notin Filtered, ToSet(snap[r]) \subseteq stayed'[r],
                 hdr[r].arr = OraInstances'.arr
          PROVE  hdr[r].len <= n - 1 /\ \A j \in k..(n - 1) : j > hdr[r].len
      <3>1. /\ o \notin ToSet(snap[r]) /\ ToSet(snap[r]) \subseteq stayed[r]
            /\ hdr[r].arr = OraInstances.arr
        BY <1>2, <1>8, <2>2
      <3>2. /\ \A j \in 1..hdr[r].len : heap[hdr[r].arr][j] = snap[r][j]
            /\ Len(snap[r]) = hdr[r].len /\ hdr[r].len <= n
        BY <1>1, <1>3, <2>2, <3>1 DEF Isolated, Undisturbed, WalkLen, Elem
      <3>3. DOMAIN snap[r] = 1..hdr[r].len
        BY <1>3, <3>2, LenProperties DEF LoopTypes
      <3>4. \A j \in 1..hdr[r].len : Slots[j] # o
        BY <3>1, <3>2, <3>3 DEF Slots, ToSet
      <3>5. ~(k \in 1..hdr[r].len)
        BY <1>1, <3>4
      <3>6. hdr[r].len \in Nat
        BY <2>1 DEF Inside
      <3>7. k > hdr[r].len
        BY <1>4, <3>5, <3>6
      <3> QED
        BY <1>4, <3>6, <3>7
    <2>3. stayed'[r] \subseteq stayed[r] /\ heap' = heap
      BY <1>2, <1>8
    <2> QED
      BY <1>1, <1>2, <1>3, <2>2, <2>3, WriterIsolated
  <1> QED
    BY <1>1, <1>7, <1>9, <1>10, <1>11 DEF Inv

LEMMA RoundsAlone ==
  ASSUME Rounds, Listed' = Listed, UNCHANGED unborn, UNCHANGED round
  PROVE  Rounds'
  <1>1. UNCHANGED <<unborn, scanned, new, old, same>>
    BY DEF round
  <1>2. UniqueSids'
    BY DEF Rounds, UniqueSids
  <1> QED
    BY <1>1, <1>2 DEF Rounds

(* A store makes true of the array what was true of the list already. *)
LEMMA StoreListed ==
  ASSUME Arrays, NEW k \in DOMAIN shift, StoreSlot(k)
  PROVE  /\ Arrays' /\ Listed' = Listed /\ OraInstances' = OraInstances
         /\ shift[k] \in ToSet(Listed)
         /\ Len(heap) \in Nat /\ Len(heap') = Len(heap)
         /\ \A a \in 1..Len(heap) :
              /\ Len(heap'[a]) = Len(heap[a])
              /\ \A j \in 1..Len(heap[a]) :
                   heap'[a][j] = heap[a][j]
                     \/ (heap'[a][j] = shift[k] /\ a = OraInstances.arr /\ j = k)
  <1> DEFINE n == OraInstances.len
             arr == OraInstances.arr
             g == [heap EXCEPT ![arr][k] = shift[k]]
  <1>1. /\ heap' = g /\ shift' = [j \in DOMAIN shift \ {k} |-> shift[j]]
        /\ OraInstances' = OraInstances /\ deleting' = deleting
    BY DEF StoreSlot
  <1>2. /\ heap \in Seq(Seq(Inst \cup {Nil})) /\ Len(heap) \in Nat
        /\ arr \in 1..Len(heap) /\ n \in Nat /\ n <= Len(heap[arr])
        /\ OraInstances \in [arr : 1..Len(heap), len : Nat]
        /\ \A j \in 1..n : Slots[j] \in Inst
        /\ deleting /\ n > 0 /\ k \in 1..(n - 1) /\ shift[k] \in Inst
    BY LenProperties DEF Arrays, Slots
  <1>3. k \in 1..Len(heap[arr]) /\ \A j \in 1..n : j \in 1..Len(heap[arr])
    <2>1. Len(heap[arr]) \in Nat
      BY <1>2, ElementOfSeq, LenProperties
    <2> QED
      BY <1>2, <2>1
  <1>4. /\ g \in Seq(Seq(Inst \cup {Nil})) /\ Len(g) = Len(heap)
        /\ \A b \in 1..Len(heap) : Len(g[b]) = Len(heap[b]) /\ (b # arr => g[b] = heap[b])
        /\ g[arr][k] = shift[k] /\ \A j \in 1..Len(heap[arr]) : j # k => g[arr][j] = heap[arr][j]
    BY <1>2, <1>3, HeapStore
  <1> HIDE DEF g
  <1>5. /\ Slots' = g[arr]
        /\ \A j \in 1..n : Slots'[j] = IF j = k THEN shift[k] ELSE Slots[j]
    BY <1>1, <1>3, <1>4 DEF Slots
  <1>6. Arrays'
    <2>1. \A j \in DOMAIN shift' : deleting' /\ j \in 1..(n - 1) /\ shift'[j] \in Inst
      BY <1>1 DEF Arrays
    <2>2. /\ OraInstances' \in [arr : 1..Len(heap'), len : Nat]
          /\ OraInstances'.len <= Len(Slots')
      BY <1>1, <1>2, <1>4, <1>5
    <2>3. \A j \in 1..n : Slots'[j] \in Inst
      BY <1>2, <1>5
    <2>4. deleting' \in BOOLEAN /\ (deleting' => OraInstances'.len > 0)
      BY <1>1 DEF Arrays
    <2> QED
      BY <1>1, <1>4, <2>1, <2>2, <2>3, <2>4, Zenon DEF Arrays
  <1>7. Listing /\ Listing' /\ Length' = Length /\ Length = n - 1
    <2>1. Length = n - 1 /\ Length' = n - 1
      BY <1>1, <1>2 DEF Length
    <2> QED
      BY <1>6, <2>1, ListedProperties, ListedNext
  <1>8. Listed' = Listed
    <2>1. \A j \in 1..(n - 1) : j \in 1..n
      BY <1>2
    <2>2. \A j \in 1..(n - 1) : Listed[j] = IF j \in DOMAIN shift THEN shift[j] ELSE Slots[j]
      BY <1>7 DEF Listing
    <2>3. \A j \in 1..(n - 1) : Listed'[j] = IF j \in DOMAIN shift' THEN shift'[j] ELSE Slots'[j]
      BY <1>7 DEF Listing
    <2>4. /\ DOMAIN shift' = DOMAIN shift \ {k}
          /\ \A j \in DOMAIN shift' : shift'[j] = shift[j]
      BY <1>1
    <2>5. \A j \in 1..(n - 1) : Listed'[j] = Listed[j]
      BY <1>5, <2>1, <2>2, <2>3, <2>4
    <2>6. /\ Listed \in Seq(Inst) /\ Listed' \in Seq(Inst)
          /\ Len(Listed) = n - 1 /\ Len(Listed') = n - 1
      BY <1>7 DEF Listing
    <2> QED
      BY <2>5, <2>6, SeqEqual
  <1>9. shift[k] \in ToSet(Listed)
    <2>1. Listed[k] = shift[k] /\ k \in DOMAIN Listed
      BY <1>2, <1>7 DEF Listing
    <2> QED
      BY <2>1 DEF ToSet
  <1> QED
    BY <1>1, <1>2, <1>4, <1>6, <1>8, <1>9

LEMMA StoreSlotInv == \A k \in DOMAIN shift : Inv /\ StoreSlot(k) => Inv'
  <1> SUFFICES ASSUME NEW k \in DOMAIN shift, Inv, StoreSlot(k) PROVE Inv'
    OBVIOUS
  <1>1. /\ shift' = [j \in DOMAIN shift \ {k} |-> shift[j]]
        /\ UNCHANGED unborn /\ UNCHANGED round /\ UNCHANGED loops /\ UNCHANGED history
    BY DEF StoreSlot
  <1>2. Arrays /\ Rounds /\ LoopTypes /\ \A r \in Readers : Loop(r) /\ Isolated(r)
    BY DEF Inv
  <1>3. /\ Arrays' /\ Listed' = Listed /\ OraInstances' = OraInstances
        /\ shift[k] \in ToSet(Listed)
        /\ Len(heap) \in Nat /\ Len(heap') = Len(heap)
        /\ \A a \in 1..Len(heap) :
             /\ Len(heap'[a]) = Len(heap[a])
             /\ \A j \in 1..Len(heap[a]) :
                  heap'[a][j] = heap[a][j]
                    \/ (heap'[a][j] = shift[k] /\ a = OraInstances.arr /\ j = k)
    BY <1>2, StoreListed
  <1>4. UNCHANGED <<since, stayed>>
    BY <1>1 DEF history
  <1>5. Rounds'
    BY <1>1, <1>2, <1>3, RoundsAlone
  <1>6. LoopTypes'
    BY <1>1, <1>2, <1>3, <1>4, WriterLoopTypes DEF LoopTypes
  <1>7. ASSUME NEW r \in Readers PROVE Loop(r)'
    <2>1. Walking(r) => ToSet(Listed) \subseteq since[r]
      BY <1>2 DEF Loop
    <2>2. Walking(r) =>
            \A a \in 1..Len(heap) : \A j \in 1..Len(heap[a]) :
              heap'[a][j] = heap[a][j] \/ heap'[a][j] \in since'[r]
      BY <1>3, <1>4, <2>1
    <2> QED
      BY <1>1, <1>2, <1>3, <1>4, <2>1, <2>2, WriterLoop
  <1>8. ASSUME NEW r \in Readers PROVE Isolated(r)'
    <2>1. Inside(r)
      BY <1>2, InsideArray
    <2>2. ASSUME Walking(r), r \notin Filtered, ToSet(snap[r]) \subseteq stayed[r]
          PROVE  /\ \A j \in 1..hdr[r].len : heap'[hdr[r].arr][j] = heap[hdr[r].arr][j]
                 /\ hdr[r].arr = OraInstances.arr =>
                      /\ hdr[r].len <= Len(Listed)
                      /\ \A j \in DOMAIN shift' : j > hdr[r].len
      <3>1. hdr[r].arr = OraInstances.arr => /\ hdr[r].len <= Len(Listed)
                                             /\ \A j \in DOMAIN shift : j > hdr[r].len
        BY <1>2, <2>2 DEF Isolated, Undisturbed
      <3>2. \A j \in 1..hdr[r].len : /\ j \in 1..Len(heap[hdr[r].arr])
                                     /\ j = k => hdr[r].arr # OraInstances.arr
        BY <2>1, <3>1 DEF Inside
      <3>3. \A j \in 1..hdr[r].len : heap'[hdr[r].arr][j] = heap[hdr[r].arr][j]
        BY <1>3, <2>1, <3>2 DEF Inside
      <3>4. \A j \in DOMAIN shift' : j \in DOMAIN shift
        BY <1>1
      <3> QED
        BY <3>1, <3>3, <3>4
    <2> QED
      BY <1>1, <1>2, <1>3, <1>4, <2>2, WriterIsolated
  <1> QED
    BY <1>3, <1>5, <1>6, <1>7, <1>8 DEF Inv

LEMMA EndListed ==
  ASSUME Arrays, EndDelete
  PROVE  Arrays' /\ Listed' = Listed /\ OraInstances'.arr = OraInstances.arr
  <1> DEFINE n == OraInstances.len
  <1>1. /\ deleting /\ DOMAIN shift = {} /\ deleting' = FALSE
        /\ OraInstances' = [OraInstances EXCEPT !.len = n - 1]
        /\ UNCHANGED <<heap, shift>>
    BY DEF EndDelete
  <1>2. n \in Nat /\ n > 0 /\ n <= Len(Slots) /\ OraInstances \in [arr : 1..Len(heap), len : Nat]
    BY <1>1 DEF Arrays
  <1>3. /\ OraInstances'.arr = OraInstances.arr /\ OraInstances'.len = n - 1
        /\ OraInstances' \in [arr : 1..Len(heap'), len : Nat]
    BY <1>1, <1>2
  <1>4. Slots' = Slots
    BY <1>1, <1>3 DEF Slots
  <1>5. Length' = Length
    BY <1>1, <1>3 DEF Length
  <1>6. Arrays'
    <2>1. n - 1 <= Len(Slots) /\ \A k \in 1..(n - 1) : k \in 1..n
      <3>1. Slots \in Seq(Inst \cup {Nil})
        BY <1>2, ElementOfSeq DEF Slots, Arrays
      <3>2. Len(Slots) \in Nat
        BY <3>1, LenProperties
      <3> QED
        BY <1>2, <3>2
    <2>2. \A k \in 1..(n - 1) : Slots'[k] \in Inst
      BY <1>4, <2>1 DEF Arrays
    <2>3. \A k \in DOMAIN shift' : /\ deleting' /\ k \in 1..(OraInstances'.len - 1)
                                   /\ shift'[k] \in Inst
      BY <1>1
    <2>4. deleting' \in BOOLEAN /\ (deleting' => OraInstances'.len > 0)
      BY <1>1
    <2>5. OraInstances'.len <= Len(Slots')
      BY <1>3, <1>4, <2>1
    <2>6. heap' \in Seq(Seq(Inst \cup {Nil}))
      BY <1>1 DEF Arrays
    <2> QED
      BY <1>3, <2>2, <2>3, <2>4, <2>5, <2>6, Zenon DEF Arrays
  <1>7. Listing /\ Listing'
    BY <1>6, ListedProperties, ListedNext
  <1>8. \A k \in 1..Length : Listed'[k] = Listed[k]
    BY <1>1, <1>4, <1>5, <1>7 DEF Listing
  <1>9. Listed' = Listed
    BY <1>5, <1>7, <1>8, SeqEqual DEF Listing
  <1> QED
    BY <1>3, <1>6, <1>9

LEMMA EndDeleteInv == Inv /\ EndDelete => Inv'
  <1> SUFFICES ASSUME Inv, EndDelete PROVE Inv'
    OBVIOUS
  <1>1. /\ UNCHANGED <<heap, shift, unborn>> /\ UNCHANGED round
        /\ UNCHANGED loops /\ UNCHANGED history
    BY DEF EndDelete
  <1>2. Arrays /\ Rounds /\ LoopTypes /\ \A r \in Readers : Loop(r) /\ Isolated(r)
    BY DEF Inv
  <1>3. Arrays' /\ Listed' = Listed /\ OraInstances'.arr = OraInstances.arr
    BY <1>2, EndListed
  <1>4. UNCHANGED <<since, stayed>> /\ Len(heap) \in Nat
    BY <1>1, <1>2, LenProperties DEF history, Arrays
  <1>5. Rounds'
    BY <1>1, <1>2, <1>3, RoundsAlone
  <1>6. LoopTypes'
    BY <1>1, <1>2, <1>4, WriterLoopTypes DEF LoopTypes
  <1>7. ASSUME NEW r \in Readers PROVE Loop(r)'
    <2>1. Walking(r) => ToSet(Listed) \subseteq since[r]
      BY <1>2 DEF Loop
    <2>2. /\ \A a \in 1..Len(heap) : Len(heap'[a]) = Len(heap[a])
          /\ \A a \in 1..Len(heap) : \A j \in 1..Len(heap[a]) : heap'[a][j] = heap[a][j]
      BY <1>1
    <2> QED
      BY <1>1, <1>2, <1>3, <1>4, <2>1, <2>2, WriterLoop
  <1>8. ASSUME NEW r \in Readers PROVE Isolated(r)'
    <2>1. Walking(r) /\ r \notin Filtered /\ ToSet(snap[r]) \subseteq stayed[r] =>
            /\ \A k \in 1..hdr[r].len : heap'[hdr[r].arr][k] = heap[hdr[r].arr][k]
            /\ hdr[r].arr = OraInstances'.arr =>
                 /\ hdr[r].len <= Len(Listed')
                 /\ \A k \in DOMAIN shift' : k > hdr[r].len
      BY <1>1, <1>2, <1>3 DEF Isolated, Undisturbed
    <2> QED
      BY <1>1, <1>2, <1>4, <2>1, WriterIsolated
  <1> QED
    BY <1>3, <1>5, <1>6, <1>7, <1>8 DEF Inv

-----------------------------------------------------------------------------
(* The steps of a processor *)

(* What the processor takes: a list of registered instances it accepts, and   *)
(* the whole list if it has no filter.                                     *)
LEMMA AcceptedProperties ==
  ASSUME Listing, NEW r \in Readers
  PROVE  /\ Accepted(r) \in Seq(Inst)
         /\ \A i \in ToSet(Accepted(r)) : i \in ToSet(Listed) /\ Matches(r, i)
         /\ r \notin Filtered => Accepted(r) = Listed
  <1> DEFINE wanted == {i \in Inst : Matches(r, i)}
  <1>1. /\ Accepted(r) \in Seq(Inst)
        /\ ToSet(Accepted(r)) = ToSet(Listed) \cap wanted
    BY FilterProperties DEF Accepted, Listing
  <1>2. ASSUME r \notin Filtered PROVE Accepted(r) = Listed
    <2>1. \A k \in DOMAIN Listed : Listed[k] \in wanted
      BY <1>2, Parameters DEF Listing
    <2> HIDE DEF wanted
    <2>2. Filter(Listed, wanted) = Listed
      BY <2>1, FilterAll DEF Listing
    <2> QED
      BY <2>2 DEF Accepted, wanted
  <1> QED
    BY <1>1, <1>2

(* What a step of another processor leaves of a loop. *)
LEMMA OtherLoops ==
  ASSUME Inv, UNCHANGED array, NEW q \in Readers,
         hdr'[q] = hdr[q], private'[q] = private[q], idx'[q] = idx[q], seen'[q] = seen[q],
         snap'[q] = snap[q], since'[q] = since[q], stayed'[q] = stayed[q]
  PROVE  Loop(q)' /\ Isolated(q)'
  <1>1. /\ UNCHANGED <<heap, OraInstances, deleting, shift>>
        /\ Listed' = Listed
    BY DEF array, Listed, Slots
  <1>2. Loop(q)'
    BY <1>1 DEF Inv, Loop, Walking, WalkLen
  <1>3. Isolated(q)'
    BY <1>1 DEF Inv, Isolated, Walking, WalkLen, Undisturbed, Elem
  <1> QED
    BY <1>2, <1>3

LEMMA ArrayAlone ==
  ASSUME Inv, UNCHANGED array
  PROVE  /\ Arrays' /\ Rounds' /\ Listed' = Listed /\ heap' = heap /\ Header' = Header
         /\ OraInstances' = OraInstances /\ shift' = shift
  <1>1. /\ UNCHANGED <<heap, OraInstances, deleting, shift, unborn>> /\ UNCHANGED round
        /\ Listed' = Listed /\ Slots' = Slots
    BY DEF array, Listed, Slots, round
  <1>2. Arrays'
    BY <1>1 DEF Inv, Arrays
  <1>3. Rounds'
    BY <1>1, RoundsAlone DEF Inv
  <1> QED
    BY <1>1, <1>2, <1>3 DEF Header

LEMMA UpdateInstancesInv == \A r \in Readers : Inv /\ UpdateInstances(r) => Inv'
  <1> SUFFICES ASSUME NEW r \in Readers, Inv, UpdateInstances(r) PROVE Inv'
    OBVIOUS
  <1>1. Arrays /\ Rounds /\ LoopTypes
    BY DEF Inv
  <1>2. /\ ~Walking(r) /\ ~deleting /\ UNCHANGED array
        /\ hdr' = [hdr EXCEPT ![r] = OraInstances]
        /\ private' = [private EXCEPT ![r] = IF r \in Filtered THEN Accepted(r) ELSE <<>>]
        /\ idx' = [idx EXCEPT ![r] = 1]
        /\ seen' = [seen EXCEPT ![r] = <<>>]
        /\ snap' = [snap EXCEPT ![r] = Accepted(r)]
        /\ since' = [since EXCEPT ![r] = ToSet(Listed)]
        /\ stayed' = [stayed EXCEPT ![r] = ToSet(Listed)]
    BY DEF UpdateInstances
  <1>3. /\ Arrays' /\ Rounds' /\ Listed' = Listed /\ heap' = heap /\ Header' = Header
        /\ OraInstances' = OraInstances /\ shift' = shift
    BY <1>2, ArrayAlone
  <1>4. /\ Listing /\ Length = OraInstances.len /\ DOMAIN shift = {}
        /\ Len(Listed) = OraInstances.len /\ OraInstances.len \in Nat
        /\ \A k \in 1..OraInstances.len : k \in DOMAIN Listed /\ Slots[k] = Listed[k]
    <2>1. Listing /\ DOMAIN shift = {}
      BY <1>1, <1>2, ListedProperties DEF Arrays
    <2>2. Length = OraInstances.len
      BY <1>1, <1>2 DEF Length, Arrays
    <2> QED
      BY <2>1, <2>2 DEF Listing
  <1>5. /\ Accepted(r) \in Seq(Inst)
        /\ \A i \in ToSet(Accepted(r)) : i \in ToSet(Listed) /\ Matches(r, i)
        /\ r \notin Filtered => Accepted(r) = Listed
    BY <1>4, AcceptedProperties
  <1>6. ToSet(Listed) \subseteq Inst
    BY <1>4 DEF Listing, ToSet
  <1>7. <<>> \in Seq(Inst) /\ Len(<<>>) = 0 /\ ToSet(<<>>) = {}
    <2>1. DOMAIN <<>> = {}
      OBVIOUS
    <2> QED
      BY <2>1, EmptySeq DEF ToSet
  <1>8. LoopTypes'
    <2>1. OraInstances \in Header
      BY <1>1 DEF Arrays, Header
    <2>2. hdr' \in [Readers -> Header] /\ idx' \in [Readers -> Nat]
      BY <1>1, <1>2, <2>1 DEF LoopTypes
    <2>3. {private', seen', snap'} \subseteq [Readers -> Seq(Inst)]
      BY <1>1, <1>2, <1>5, <1>7 DEF LoopTypes
    <2>4. {since', stayed'} \subseteq [Readers -> SUBSET Inst]
      BY <1>1, <1>2, <1>6 DEF LoopTypes
    <2> QED
      BY <1>3, <2>2, <2>3, <2>4 DEF LoopTypes
  <1>9. /\ hdr'[r] = OraInstances /\ idx'[r] = 1 /\ seen'[r] = <<>> /\ snap'[r] = Accepted(r)
        /\ private'[r] = IF r \in Filtered THEN Accepted(r) ELSE <<>>
        /\ since'[r] = ToSet(Listed) /\ stayed'[r] = ToSet(Listed)
    BY <1>1, <1>2 DEF LoopTypes
  <1>10. Loop(r)'
    <2>1. Walking(r)' /\ WalkLen(r)' \in Nat
      <3>1. Len(Accepted(r)) \in Nat
        BY <1>5, LenProperties
      <3> QED
        BY <1>4, <1>9, <3>1 DEF Walking, WalkLen
    <2>2. idx'[r] <= WalkLen(r)' + 1
      BY <1>9, <2>1
    <2>3. OraInstances.len <= Len(heap[OraInstances.arr])
      BY <1>1 DEF Arrays, Slots
    <2>4. \A k \in 1..OraInstances.len : heap[OraInstances.arr][k] \in ToSet(Listed)
      BY <1>4 DEF Slots, ToSet
    <2>5. \A i \in ToSet(private'[r]) : i \in ToSet(Listed) /\ Matches(r, i)
      BY <1>5, <1>7, <1>9
    <2> QED
      BY <1>3, <1>9, <2>1, <2>2, <2>3, <2>4, <2>5 DEF Loop
  <1>11. Isolated(r)'
    <2>1. Len(seen'[r]) = idx'[r] - 1 /\ 1..Len(seen'[r]) = {}
      BY <1>7, <1>9
    <2>2. Len(snap'[r]) = WalkLen(r)'
      BY <1>4, <1>5, <1>9 DEF WalkLen
    <2>3. \A k \in 1..WalkLen(r)' : Elem(r, k)' = snap'[r][k]
      <3>1. CASE r \in Filtered
        BY <1>9, <3>1 DEF Elem
      <3>2. CASE r \notin Filtered
        BY <1>3, <1>4, <1>5, <1>9, <3>2 DEF Elem, WalkLen, Slots
      <3> QED
        BY <3>1, <3>2
    <2>4. hdr'[r].len <= Len(Listed') /\ DOMAIN shift' = {}
      BY <1>3, <1>4, <1>9
    <2> QED
      BY <2>1, <2>2, <2>3, <2>4 DEF Isolated
  <1>12. ASSUME NEW q \in Readers, q # r PROVE Loop(q)' /\ Isolated(q)'
    BY <1>1, <1>2, <1>12, OtherLoops DEF LoopTypes
  <1> QED
    BY <1>3, <1>8, <1>10, <1>11, <1>12 DEF Inv

(* The instance a loop finds is one registered since it began. *)
LEMMA Found ==
  ASSUME Inv, NEW r \in Readers, VisitNext(r)
  PROVE  LET i == Elem(r, idx[r])
         IN  /\ i \in since[r] /\ i \in Inst /\ Matches(r, i)
             /\ idx[r] \in 1..WalkLen(r) /\ WalkLen(r) \in Nat
  <1>1. /\ Walking(r) /\ idx[r] <= WalkLen(r)
        /\ LoopTypes /\ Loop(r) /\ Inside(r)
    BY InsideArray DEF VisitNext, Inv
  <1>2. since[r] \subseteq Inst /\ private[r] \in Seq(Inst) /\ idx[r] \in Nat /\ idx[r] # 0
    BY <1>1 DEF LoopTypes, Walking
  <1>3. WalkLen(r) \in Nat
    BY <1>1, <1>2, LenProperties DEF WalkLen, Inside
  <1>4. idx[r] \in 1..WalkLen(r)
    BY <1>1, <1>2, <1>3
  <1>5. CASE r \in Filtered
    <2>1. DOMAIN private[r] = 1..WalkLen(r)
      BY <1>2, <1>5, LenProperties DEF WalkLen
    <2>2. Elem(r, idx[r]) \in ToSet(private[r])
      BY <1>4, <1>5, <2>1 DEF Elem, ToSet
    <2> QED
      BY <1>1, <1>2, <1>3, <1>4, <2>2 DEF Loop
  <1>6. CASE r \notin Filtered
    <2>1. Elem(r, idx[r]) \in since[r]
      BY <1>1, <1>4, <1>6 DEF Elem, WalkLen, Loop
    <2> QED
      BY <1>2, <1>3, <1>4, <1>6, <2>1, Parameters
  <1> QED
    BY <1>5, <1>6

LEMMA VisitNextInv == \A r \in Readers : Inv /\ VisitNext(r) => Inv'
  <1> SUFFICES ASSUME NEW r \in Readers, Inv, VisitNext(r) PROVE Inv'
    OBVIOUS
  <1> DEFINE i == Elem(r, idx[r])
  <1>1. Arrays /\ Rounds /\ LoopTypes /\ Loop(r) /\ Isolated(r)
    BY DEF Inv
  <1>2. /\ Walking(r) /\ UNCHANGED array /\ UNCHANGED history
        /\ seen' = [seen EXCEPT ![r] = Append(@, i)]
        /\ idx' = [idx EXCEPT ![r] = @ + 1]
        /\ UNCHANGED <<hdr, private, snap>>
    BY DEF VisitNext
  <1>3. /\ Arrays' /\ Rounds' /\ Listed' = Listed /\ heap' = heap /\ Header' = Header
        /\ OraInstances' = OraInstances /\ shift' = shift
        /\ UNCHANGED <<since, stayed>>
    BY <1>2, ArrayAlone DEF history
  <1>4. i \in Inst /\ idx[r] \in 1..WalkLen(r) /\ WalkLen(r) \in Nat
    BY Found
  <1>5. /\ seen'[r] = Append(seen[r], i) /\ idx'[r] = idx[r] + 1
        /\ seen[r] \in Seq(Inst)
    BY <1>1, <1>2 DEF LoopTypes
  <1>6. WalkLen(r)' = WalkLen(r) /\ \A k : Elem(r, k)' = Elem(r, k)
    BY <1>2, <1>3 DEF WalkLen, Elem
  <1> HIDE DEF i
  <1>7. /\ seen'[r] \in Seq(Inst) /\ Len(seen'[r]) = Len(seen[r]) + 1
        /\ \A k \in 1..Len(seen[r]) : seen'[r][k] = seen[r][k]
        /\ seen'[r][Len(seen[r]) + 1] = i
    BY <1>4, <1>5, AppendProperties
  <1>8. LoopTypes'
    <2>1. seen' \in [Readers -> Seq(Inst)] /\ idx' \in [Readers -> Nat]
      BY <1>1, <1>2, <1>5, <1>7 DEF LoopTypes
    <2> QED
      BY <1>1, <1>2, <1>3, <2>1 DEF LoopTypes
  <1>9. Walking(r)' /\ idx'[r] <= WalkLen(r)' + 1
    BY <1>4, <1>5, <1>6 DEF Walking
  <1>10. Loop(r)'
    BY <1>1, <1>2, <1>3, <1>9 DEF Loop
  <1>11. Isolated(r)'
    <2>1. Len(seen[r]) = idx[r] - 1 /\ Len(seen'[r]) = idx'[r] - 1
      BY <1>1, <1>2, <1>4, <1>5, <1>7 DEF Isolated
    <2>2. ASSUME Undisturbed(r) PROVE \A k \in 1..Len(seen'[r]) : seen'[r][k] = snap[r][k]
      <3>1. /\ \A k \in 1..WalkLen(r) : Elem(r, k) = snap[r][k]
            /\ \A k \in 1..Len(seen[r]) : seen[r][k] = snap[r][k]
        BY <1>1, <1>2, <2>2 DEF Isolated
      <3>2. snap[r][idx[r]] = i
        BY <1>4, <3>1 DEF i
      <3>3. \A k \in 1..Len(seen'[r]) : k = idx[r] \/ k \in 1..Len(seen[r])
        BY <1>4, <1>7, <2>1
      <3>4. seen'[r][idx[r]] = i
        BY <1>4, <1>7, <2>1
      <3> QED
        BY <1>7, <3>1, <3>2, <3>3, <3>4
    <2>3. Undisturbed(r)' = Undisturbed(r)
      BY <1>2, <1>3 DEF Undisturbed
    <2> QED
      BY <1>1, <1>2, <1>3, <1>6, <2>1, <2>2, <2>3 DEF Isolated
  <1>12. ASSUME NEW q \in Readers, q # r PROVE Loop(q)' /\ Isolated(q)'
    BY <1>1, <1>2, <1>3, <1>12, OtherLoops DEF LoopTypes
  <1> QED
    BY <1>3, <1>8, <1>10, <1>11, <1>12 DEF Inv

LEMMA EndLoopInv == \A r \in Readers : Inv /\ EndLoop(r) => Inv'
  <1> SUFFICES ASSUME NEW r \in Readers, Inv, EndLoop(r) PROVE Inv'
    OBVIOUS
  <1>1. Arrays /\ Rounds /\ LoopTypes
    BY DEF Inv
  <1>2. /\ UNCHANGED array
        /\ idx' = [idx EXCEPT ![r] = 0]
        /\ hdr' = [hdr EXCEPT ![r] = [arr |-> 1, len |-> 0]]
        /\ private' = [private EXCEPT ![r] = <<>>]
        /\ seen' = [seen EXCEPT ![r] = <<>>]
        /\ snap' = [snap EXCEPT ![r] = <<>>]
        /\ since' = [since EXCEPT ![r] = {}]
        /\ stayed' = [stayed EXCEPT ![r] = {}]
    BY DEF EndLoop
  <1>3. /\ Arrays' /\ Rounds' /\ Listed' = Listed /\ heap' = heap /\ Header' = Header
    BY <1>2, ArrayAlone
  <1>4. <<>> \in Seq(Inst) /\ Len(<<>>) = 0 /\ ToSet(<<>>) = {}
    <2>1. DOMAIN <<>> = {}
      OBVIOUS
    <2> QED
      BY <2>1, EmptySeq DEF ToSet
  <1>5. 1 \in 1..Len(heap) /\ Len(heap[1]) \in Nat
    <2>1. OraInstances.arr \in 1..Len(heap) /\ Len(heap) \in Nat
      BY <1>1, LenProperties DEF Arrays
    <2>2. 1 \in 1..Len(heap)
      BY <2>1
    <2>3. heap[1] \in Seq(Inst \cup {Nil})
      BY <1>1, <2>2, ElementOfSeq DEF Arrays
    <2> QED
      BY <2>2, <2>3, LenProperties
  <1>6. LoopTypes'
    <2>1. [arr |-> 1, len |-> 0] \in Header
      BY <1>5 DEF Header
    <2>2. hdr' \in [Readers -> Header] /\ idx' \in [Readers -> Nat]
      BY <1>1, <1>2, <2>1 DEF LoopTypes
    <2>3. {private', seen', snap'} \subseteq [Readers -> Seq(Inst)]
      BY <1>1, <1>2, <1>4 DEF LoopTypes
    <2>4. {since', stayed'} \subseteq [Readers -> SUBSET Inst]
      BY <1>1, <1>2 DEF LoopTypes
    <2> QED
      BY <1>3, <2>2, <2>3, <2>4 DEF LoopTypes
  <1>7. /\ hdr'[r].arr = 1 /\ hdr'[r].len = 0 /\ idx'[r] = 0 /\ seen'[r] = <<>>
        /\ snap'[r] = <<>> /\ private'[r] = <<>>
    BY <1>1, <1>2 DEF LoopTypes
  <1>8. Loop(r)' /\ Isolated(r)'
    <2>1. ~Walking(r)' /\ WalkLen(r)' = 0
      BY <1>4, <1>7 DEF Walking, WalkLen
    <2>2. idx'[r] <= WalkLen(r)' + 1 /\ hdr'[r].len <= Len(heap'[hdr'[r].arr]) /\ 1..hdr'[r].len = {}
      BY <1>3, <1>5, <1>7, <2>1
    <2> QED
      BY <1>4, <1>7, <2>1, <2>2 DEF Loop, Isolated
  <1>9. ASSUME NEW q \in Readers, q # r PROVE Loop(q)' /\ Isolated(q)'
    BY <1>1, <1>2, <1>9, OtherLoops DEF LoopTypes
  <1> QED
    BY <1>3, <1>6, <1>8, <1>9 DEF Inv

-----------------------------------------------------------------------------
LEMMA InvStep == Inv /\ [Next]_vars => Inv'
  <1> SUFFICES ASSUME Inv, [Next]_vars PROVE Inv'
    OBVIOUS
  <1>1. CASE UNCHANGED vars
    <2>1. /\ UNCHANGED <<heap, OraInstances, deleting, shift, unborn>>
          /\ UNCHANGED round /\ UNCHANGED loops /\ UNCHANGED history
      BY <1>1 DEF vars, round, loops, history
    <2>2. Listed' = Listed
      BY <2>1 DEF Listed, Slots
    <2> QED
      BY <2>1, <2>2, RoundsAlone, ArraysAlone DEF Inv
  <1>2. CASE \E r \in Readers : UpdateInstances(r) \/ VisitNext(r) \/ EndLoop(r)
    BY <1>2, UpdateInstancesInv, VisitNextInv, EndLoopInv
  <1> QED
    BY <1>1, <1>2, DiscoverInv, AddInv, InitErrorInv, DeleteInv, RoundDoneInv, StoreSlotInv,
       EndDeleteInv DEF Next

LEMMA InvHolds == Spec => []Inv
  BY InvInit, InvStep, PTL DEF Spec

LEMMA InvTypeOK == Inv => TypeOK
  <1> SUFFICES ASSUME Inv PROVE TypeOK
    OBVIOUS
  <1>1. Arrays /\ Rounds /\ LoopTypes /\ \A r \in Readers : Loop(r)
    BY DEF Inv
  <1>2. \A a \in DOMAIN heap : \A k \in DOMAIN heap[a] : heap[a][k] \in Inst \cup {Nil}
    <2>1. \A a \in DOMAIN heap : heap[a] \in Seq(Inst \cup {Nil})
      BY <1>1, LenProperties, ElementOfSeq DEF Arrays
    <2> QED
      BY <2>1, LenProperties, ElementOfSeq
  <1>3. OraInstances \in Header
    BY <1>1 DEF Arrays, Header
  <1>4. DOMAIN shift \subseteq 1..OraInstances.len
    BY <1>1 DEF Arrays
  <1>5. ASSUME NEW r \in Readers
        PROVE  /\ private[r] \in Seq(Inst) /\ idx[r] \in 0..(WalkLen(r) + 1)
               /\ seen[r] \in Seq(Inst) /\ snap[r] \in Seq(Inst)
               /\ since[r] \subseteq Inst /\ stayed[r] \subseteq Inst
    <2>1. /\ private[r] \in Seq(Inst) /\ seen[r] \in Seq(Inst) /\ snap[r] \in Seq(Inst)
          /\ since[r] \subseteq Inst /\ stayed[r] \subseteq Inst /\ idx[r] \in Nat
      BY <1>1 DEF LoopTypes
    <2>2. WalkLen(r) \in Nat
      BY <1>1, <2>1, LenProperties DEF WalkLen, LoopTypes, Header
    <2>3. idx[r] <= WalkLen(r) + 1
      BY <1>1 DEF Loop
    <2> QED
      BY <2>1, <2>2, <2>3
  <1> QED
    BY <1>1, <1>2, <1>3, <1>4, <1>5 DEF TypeOK, Arrays, Rounds, LoopTypes

(* Every slot of the shared list holds an instance, the headers stay inside    *)
(* their arrays and the processors at an index of their list or behind it.     *)
THEOREM TypeCorrect == Spec => []TypeOK
  BY InvHolds, InvTypeOK, PTL

(* No SID is listed twice, also while a deletion moves the elements; so        *)
(* Delete, which looks for a SID (intance-list.go:117), finds the instance.     *)
THEOREM UniqueSidsHolds == Spec => []UniqueSids
  <1>1. Inv => UniqueSids
    BY DEF Inv, Rounds
  <1> QED
    BY <1>1, InvHolds, PTL

(* A round ends with the SIDs registered that its scan found and Init opened,  *)
(* and until then never has a SID to add that is registered, nor an object to  *)
(* delete or to refresh that is not.                                         *)
THEOREM ReconciledHolds == Spec => []Reconciled
  <1>1. Inv => Reconciled
    <2> SUFFICES ASSUME Inv PROVE Reconciled
      OBVIOUS
    <2>1. Rounds
      BY DEF Inv
    <2> DEFINE sids == {SidOf(i) : i \in ToSet(Listed)}
    <2>2. {SidOf(i) : i \in ToSet(new)} \cap sids = {}
      BY <2>1 DEF Rounds
    <2>3. ASSUME Idle PROVE sids = scanned
      <3>1. ToSet(old) = {} /\ ToSet(new) = {}
        <4>1. DOMAIN <<>> = {}
          OBVIOUS
        <4> QED
          BY <2>3, <4>1 DEF Idle, ToSet
      <3> QED
        BY <2>1, <3>1 DEF Rounds
    <2> QED
      BY <2>1, <2>2, <2>3 DEF Reconciled, Rounds
  <1> QED
    BY <1>1, InvHolds, PTL

(* Additions never disturb a loop: with no deletion of an instance it began    *)
(* with, or with a copy of its own, it visits these instances once each and in  *)
(* order, although append fills slots of the array the loop ranges over.        *)
THEOREM IsolatedLoopHolds == Spec => []IsolatedLoop
  <1>1. Inv => IsolatedLoop
    <2> SUFFICES ASSUME Inv, NEW r \in Readers, Undisturbed(r)
                 PROVE  /\ IsPrefix(seen[r], snap[r])
                        /\ Walking(r) /\ idx[r] > WalkLen(r) => seen[r] = snap[r]
      BY DEF IsolatedLoop
    <2>1. LoopTypes /\ Loop(r) /\ Isolated(r)
      BY DEF Inv
    <2>2. /\ seen[r] \in Seq(Inst) /\ snap[r] \in Seq(Inst) /\ idx[r] \in Nat
          /\ Len(seen[r]) \in Nat /\ Len(snap[r]) \in Nat
      BY <2>1, LenProperties DEF LoopTypes
    <2>3. /\ Len(seen[r]) <= Len(snap[r])
          /\ \A k \in 1..Len(seen[r]) : seen[r][k] = snap[r][k]
      <3>1. CASE Walking(r)
        BY <2>1, <2>2, <3>1 DEF Loop, Isolated
      <3>2. CASE ~Walking(r)
        BY <2>1, <2>2, <3>2 DEF Loop
      <3> QED
        BY <3>1, <3>2
    <2>4. IsPrefix(seen[r], snap[r])
      <3> DEFINE a == SubSeq(seen[r], 1, Len(seen[r]))
                 b == SubSeq(snap[r], 1, Len(seen[r]))
                 n == Len(seen[r])
      <3>1. /\ a = [k \in 1..n |-> seen[r][k]]
            /\ b = [k \in 1..n |-> snap[r][k]]
        BY <2>2, <2>3
      <3>2. a = b
        BY <2>3, <3>1
      <3> QED
        BY <2>3, <3>2 DEF IsPrefix
    <2>5. ASSUME Walking(r), idx[r] > WalkLen(r) PROVE seen[r] = snap[r]
      <3>1. Len(seen[r]) = Len(snap[r])
        BY <2>1, <2>2, <2>5 DEF Loop, Isolated
      <3> QED
        BY <2>2, <2>3, <3>1, SeqEqual
    <2> QED
      BY <2>4, <2>5
  <1> QED
    BY <1>1, InvHolds, PTL

-----------------------------------------------------------------------------
(* The refinement: an insertion and the beginning of a deletion change the     *)
(* list, the other moves of elements are not seen by Registry.                *)
Walk == {r \in Readers : Walking(r)}

LEMMA RegistryInit == Init => Reg!Init
  <1> SUFFICES ASSUME Init PROVE Reg!Init
    OBVIOUS
  <1>1. Listed = <<>>
    <2>1. Inv
      BY InvInit
    <2>2. Listing /\ Length = 0
      BY <2>1, ListedProperties DEF Inv, Init, Length
    <2> QED
      BY <2>2, EmptySeq DEF Listing
  <1>2. Walk = {}
    BY DEF Init, Walk, Walking
  <1> QED
    BY <1>1, <1>2 DEF Init, Reg!Init, Walk

(* Nothing that Registry knows of changes. *)
LEMMA RegistryStutters ==
  ASSUME Listed' = Listed, UNCHANGED loops, UNCHANGED history
  PROVE  UNCHANGED Reg!vars
  <1>1. Walk' = Walk /\ since' = since /\ seen' = seen
    BY DEF loops, history, Walk, Walking
  <1> QED
    BY <1>1 DEF Reg!vars, Walk

LEMMA RegistryAdd == Inv /\ Add => \E i \in Inst : Reg!Add(i)
  <1> SUFFICES ASSUME Inv, Add PROVE \E i \in Inst : Reg!Add(i)
    OBVIOUS
  <1> DEFINE i == Head(new)
  <1>1. /\ ~deleting /\ new # <<>> /\ Append1(i)
        /\ since' = [r \in Readers |-> since[r] \cup (IF Walking(r) THEN {i} ELSE {})]
        /\ UNCHANGED <<deleting, shift>> /\ UNCHANGED loops
    BY DEF Add
  <1>2. i \in Inst /\ i \in ToSet(new)
    BY <1>1, TailProperties DEF Inv, Rounds
  <1> HIDE DEF i
  <1>3. Listed' = Append(Listed, i)
    BY <1>1, <1>2, AppendArrays DEF Inv
  <1>4. \A j \in ToSet(Listed) : SidOf(j) # SidOf(i)
    BY <1>2 DEF Inv, Rounds
  <1>5. Walk' = Walk /\ seen' = seen
    BY <1>1 DEF loops, Walk, Walking
  <1>6. since' = [r \in Readers |-> IF r \in Walk THEN since[r] \cup {i} ELSE since[r]]
    BY <1>1 DEF Walk
  <1>7. Reg!Add(i)
    BY <1>3, <1>4, <1>5, <1>6 DEF Reg!Add, Reg!Registered, Walk, Reg!ToSet, ToSet
  <1> QED
    BY <1>2, <1>7

LEMMA RegistryDelete == Inv /\ Delete => \E i \in Inst : Reg!Delete(i)
  <1> SUFFICES ASSUME Inv, Delete PROVE \E i \in Inst : Reg!Delete(i)
    OBVIOUS
  <1>1. \E k \in DOMAIN Listed : Listed[k] = Head(old) /\ Listed' = RemoveAt(Listed, k)
    BY DeleteListed
  <1>2. Head(old) \in Inst
    BY TailProperties DEF Inv, Rounds, Delete
  <1>3. Walk' = Walk /\ since' = since /\ seen' = seen
    BY DEF Delete, loops, Walk, Walking
  <1>4. Reg!Delete(Head(old))
    BY <1>1, <1>3 DEF Reg!Delete, Walk, Reg!RemoveAt, RemoveAt
  <1> QED
    BY <1>2, <1>4

LEMMA RegistryBegin == \A r \in Readers : Inv /\ UpdateInstances(r) => Reg!Begin(r)
  <1> SUFFICES ASSUME NEW r \in Readers, Inv, UpdateInstances(r) PROVE Reg!Begin(r)
    OBVIOUS
  <1>1. r \notin Walk /\ Listed' = Listed
    BY ArrayAlone DEF UpdateInstances, Walk
  <1>2. Walk' = Walk \cup {r}
    BY DEF UpdateInstances, Walk, Walking, Inv, LoopTypes
  <1>3. /\ since' = [since EXCEPT ![r] = ToSet(Listed)]
        /\ seen' = [seen EXCEPT ![r] = <<>>]
    BY DEF UpdateInstances
  <1> QED
    BY <1>1, <1>2, <1>3 DEF Reg!Begin, Reg!Registered, Walk, Reg!ToSet, ToSet

LEMMA RegistryVisit == \A r \in Readers : Inv /\ VisitNext(r) => Reg!Visit(r)
  <1> SUFFICES ASSUME NEW r \in Readers, Inv, VisitNext(r) PROVE Reg!Visit(r)
    OBVIOUS
  <1> DEFINE i == Elem(r, idx[r])
  <1>1. i \in since[r] /\ Matches(r, i) /\ idx[r] \in Nat
    BY Found DEF Inv, LoopTypes
  <1>2. /\ seen' = [seen EXCEPT ![r] = Append(@, i)] /\ UNCHANGED since
        /\ idx' = [idx EXCEPT ![r] = @ + 1] /\ Walking(r)
    BY DEF VisitNext, history
  <1>3. Listed' = Listed
    BY ArrayAlone DEF VisitNext
  <1>4. Walk' = Walk /\ r \in Walk
    BY <1>1, <1>2 DEF Walk, Walking, Inv, LoopTypes
  <1> HIDE DEF i
  <1> QED
    BY <1>1, <1>2, <1>3, <1>4 DEF Reg!Visit, Walk

LEMMA RegistryFinish == \A r \in Readers : Inv /\ EndLoop(r) => Reg!Finish(r)
  <1> SUFFICES ASSUME NEW r \in Readers, Inv, EndLoop(r) PROVE Reg!Finish(r)
    OBVIOUS
  <1>1. r \in Walk /\ Listed' = Listed
    BY ArrayAlone DEF EndLoop, Walk
  <1>2. Walk' = Walk \ {r}
    BY DEF EndLoop, Walk, Walking, Inv, LoopTypes
  <1>3. since' = [since EXCEPT ![r] = {}] /\ seen' = [seen EXCEPT ![r] = <<>>]
    BY DEF EndLoop
  <1> QED
    BY <1>1, <1>2, <1>3 DEF Reg!Finish, Walk

LEMMA RegistryStep == Inv /\ [Next]_vars => [Reg!Next]_(Reg!vars)
  <1> SUFFICES ASSUME Inv, [Next]_vars PROVE [Reg!Next]_(Reg!vars)
    OBVIOUS
  <1>1. CASE UNCHANGED vars
    <2>1. Listed' = Listed /\ UNCHANGED loops /\ UNCHANGED history
      BY <1>1 DEF vars, loops, history, Listed, Slots
    <2> QED
      BY <2>1, RegistryStutters
  <1>2. CASE Discover \/ InitError \/ RoundDone
    <2>1. Listed' = Listed /\ UNCHANGED loops /\ UNCHANGED history
      BY <1>2 DEF Discover, InitError, RoundDone, Listed, Slots
    <2> QED
      BY <2>1, RegistryStutters
  <1>3. CASE EndDelete
    <2>1. Listed' = Listed
      BY <1>3, EndListed DEF Inv
    <2> QED
      BY <1>3, <2>1, RegistryStutters DEF EndDelete
  <1>4. CASE \E k \in DOMAIN shift : StoreSlot(k)
    <2>1. PICK k \in DOMAIN shift : StoreSlot(k)
      BY <1>4
    <2>2. Listed' = Listed
      BY <2>1, StoreListed DEF Inv
    <2> QED
      BY <2>1, <2>2, RegistryStutters DEF StoreSlot
  <1>5. CASE Add \/ Delete
    <2>1. \E i \in Inst : Reg!Add(i) \/ Reg!Delete(i)
      BY <1>5, RegistryAdd, RegistryDelete
    <2> QED
      BY <2>1 DEF Reg!Next
  <1>6. CASE \E r \in Readers : UpdateInstances(r) \/ VisitNext(r) \/ EndLoop(r)
    <2>1. \E r \in Readers : Reg!Begin(r) \/ Reg!Visit(r) \/ Reg!Finish(r)
      BY <1>6, RegistryBegin, RegistryVisit, RegistryFinish
    <2> QED
      BY <2>1 DEF Reg!Next
  <1> QED
    BY <1>1, <1>2, <1>3, <1>4, <1>5, <1>6 DEF Next

(* The slices implement the weakly consistent registry: a processor never     *)
(* visits an empty slot, nor an instance that was not registered at some       *)
(* moment of its loop or that its filter refuses, whatever moves under it.     *)
THEOREM WeaklyConsistentHolds == Spec => WeaklyConsistent
  BY RegistryInit, RegistryStep, InvHolds, PTL DEF Spec, WeaklyConsistent, Reg!Spec
=============================================================================
