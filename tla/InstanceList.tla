---------------------------- MODULE InstanceList ----------------------------
(***************************************************************************)
(* pkg/agent/oracle/intance-list.go at the level of Go slices, with the    *)
(* processors that range over the slices it hands out.                     *)
(*                                                                         *)
(* A slice header is a pair of a backing array and a length.  GetList      *)
(* copies the header, not the array, so a processor that ranges over it    *)
(* shares its slots with the discovery goroutine: Delete shifts them in    *)
(* place and Add may fill the slot a deletion vacated.  Both hold the      *)
(* mutex; the processor, which gave it back when GetList returned, does    *)
(* not.  GetFilteredListBySid copies the instances under the mutex.        *)
(*                                                                         *)
(* The discovery goroutine adds and deletes as discover does: a scan is     *)
(* compared with the list by SID, then the new instances are initialised    *)
(* and added one by one, and the old ones deleted.                          *)
(***************************************************************************)
EXTENDS Naturals, Sequences, FiniteSets, SequencesExt, Slices

CONSTANTS Inst,          \* the *OracleInstance objects
          Readers,       \* the metric group processors
          Filtered,      \* those with an instance_filter
          SidOf(_),      \* DiscoveredSid of an instance
          Matches(_, _), \* Matches(r, i): the instance_filter of r accepts i
          Nil            \* content of a slot never written

ASSUME InstanceListAssumption ==
  /\ IsFiniteSet(Inst) /\ Nil \notin Inst
  /\ Filtered \subseteq Readers
  /\ \A r \in Readers \ Filtered, i \in Inst : Matches(r, i)

VARIABLES
  heap,          \* the backing arrays allocated so far
  OraInstances,  \* header of the shared slice: [arr, len]
  deleting,      \* Delete holds the mutex and is moving elements
  shift,         \* the slots it has still to store, with their new content
  unborn,        \* instances discovery has not created yet
  scanned,       \* SIDs of the scan, without those whose Init failed
  new, old, same, \* what is left of the lists GetNewAndOldInstances returned
  hdr,           \* hdr[r]: header ranged over by r
  private,       \* private[r]: the copy made for a filtered r
  idx,           \* idx[r]: next index of r's loop; 0 when r is not in its loop
  seen,          \* seen[r]: instances visited by r's current (or last) loop
  since,         \* history: instances registered at some moment of r's loop
  stayed,        \* history: instances registered throughout r's loop so far
  snap           \* history: the list (filtered for r) when r's loop began

round   == <<scanned, new, old, same>>
array   == <<heap, OraInstances, deleting, shift, unborn, scanned, new, old, same>>
loops   == <<hdr, private, idx, seen, snap>>
history == <<since, stayed>>
vars    == <<heap, OraInstances, deleting, shift, unborn, scanned, new, old, same, hdr, private, idx,
             seen, since, stayed, snap>>

-----------------------------------------------------------------------------
Slots == heap[OraInstances.arr]

(* The list a deletion in progress leads to: pending stores done. *)
Listed == [k \in 1..(OraInstances.len - (IF deleting THEN 1 ELSE 0)) |->
             IF k \in DOMAIN shift THEN shift[k] ELSE Slots[k]]

Accepted(r) == Filter(Listed, {i \in Inst : Matches(r, i)})

(* runtime.growslice for pointer elements while capacities are small *)
GrowCap(c) == IF c = 0 THEN 1 ELSE 2 * c

Walking(r) == idx[r] # 0

WalkLen(r) == IF r \in Filtered THEN Len(private[r]) ELSE hdr[r].len

\* A slip: the filter keeps a header instead of copying
SharedElem(r, k) == heap[hdr[r].arr][k]

(* What the range expression of r finds in slot k now. *)
Elem(r, k) == IF r \in Filtered THEN private[r][k] ELSE heap[hdr[r].arr][k]

-----------------------------------------------------------------------------
Init == /\ heap = << <<>> >>
        /\ OraInstances = [arr |-> 1, len |-> 0]
        /\ deleting = FALSE
        /\ shift = <<>>
        /\ unborn = Inst
        /\ scanned = {} /\ new = <<>> /\ old = <<>> /\ same = <<>>
        /\ hdr = [r \in Readers |-> [arr |-> 1, len |-> 0]]
        /\ private = [r \in Readers |-> <<>>]
        /\ idx = [r \in Readers |-> 0]
        /\ seen = [r \in Readers |-> <<>>]
        /\ since = [r \in Readers |-> {}]
        /\ stayed = [r \in Readers |-> {}]
        /\ snap = [r \in Readers |-> <<>>]

\* A slip: the backing array is never reallocated
AppendNoGrow(i) ==
  /\ heap' = heap
  /\ OraInstances' = [OraInstances EXCEPT !.len = @ + 1]

(* append: the element goes to the slot after the last one of the backing  *)
(* array if it has room, else to a copy of twice the capacity.             *)
Append1(i) ==
  LET n == OraInstances.len
  IN IF n < Len(Slots)
     THEN /\ heap' = [heap EXCEPT ![OraInstances.arr][n + 1] = i]
          /\ OraInstances' = [OraInstances EXCEPT !.len = n + 1]
     ELSE /\ heap' = Append(heap, [k \in 1..GrowCap(n) |->
                                     IF k <= n THEN Slots[k]
                                     ELSE IF k = n + 1 THEN i ELSE Nil])
          /\ OraInstances' = [arr |-> Len(heap) + 1, len |-> n + 1]

-----------------------------------------------------------------------------
(* The comparison of a scan with the list *)

(* A slip: the elements are compared place by place. *)
SliceDiffByPlace(slice1, slice2) ==
  SelectSeq(slice1, LAMBDA s : \A k \in DOMAIN slice1 \cap DOMAIN slice2 :
                                 slice1[k] = s => slice2[k] # s)

SliceDiff(slice1, slice2) == Filter(slice1, ToSet(slice1) \ ToSet(slice2))

(* Of two slices: a value is appended when its counter reaches two, so in    *)
(* the order of the second one.                                            *)
SliceIntersect(slice1, slice2) == Filter(slice2, ToSet(slice1))

GetSidNames(ia) == [k \in DOMAIN ia |-> SidOf(ia[k])]

(* The first instance of a sequence with this SID. *)
BySid(ia, sid) == ia[Min({k \in DOMAIN ia : SidOf(ia[k]) = sid})]

(* A slip: what the scan did not find is compared the wrong way round.      *)
CompareSwapped(updated) ==
  LET cur_sids == GetSidNames(Listed)
      new_sids == GetSidNames(updated)
      OfList(sids) == [k \in DOMAIN sids |-> BySid(Listed, sids[k])]
  IN /\ new' = [k \in DOMAIN SliceDiff(new_sids, cur_sids) |->
                  BySid(updated, SliceDiff(new_sids, cur_sids)[k])]
     /\ old' = OfList(SliceIntersect(cur_sids, new_sids))
     /\ same' = OfList(SliceDiff(cur_sids, new_sids))

(* New objects come from the scan, old and same ones from the list. *)
GetNewAndOldInstances(updated) ==
  LET cur_sids == GetSidNames(Listed)
      new_sids == GetSidNames(updated)
      OfList(sids) == [k \in DOMAIN sids |-> BySid(Listed, sids[k])]
  IN /\ new' = [k \in DOMAIN SliceDiff(new_sids, cur_sids) |->
                  BySid(updated, SliceDiff(new_sids, cur_sids)[k])]
     /\ old' = OfList(SliceDiff(cur_sids, new_sids))
     /\ same' = OfList(SliceIntersect(cur_sids, new_sids))

Idle == ~deleting /\ new = <<>> /\ old = <<>> /\ same = <<>>

(* A scan finds at most one object of each SID, in any order; for a SID that *)
(* stays registered it is dropped again.                                   *)
Discover == /\ Idle
            /\ \E found \in SUBSET Inst :
                 /\ \A i, j \in found : SidOf(i) = SidOf(j) => i = j
                 /\ \A i \in found : i \in unborn \/ i \in ToSet(Listed)
                 /\ \E updated \in SetToSeqs(found) : GetNewAndOldInstances(updated)
                 /\ scanned' = {SidOf(i) : i \in found}
            /\ UNCHANGED <<heap, OraInstances, deleting, shift, unborn>>
            /\ UNCHANGED loops /\ UNCHANGED history

-----------------------------------------------------------------------------
(* The discovery goroutine adds the instance once its Init succeeded.       *)
Add == /\ ~deleting /\ new # <<>>
       /\ unborn' = unborn \ {Head(new)}
       /\ Append1(Head(new))
       /\ new' = Tail(new)
       /\ since' = [r \in Readers |-> since[r] \cup
                                      (IF Walking(r) THEN {Head(new)} ELSE {})]
       /\ UNCHANGED <<deleting, shift, scanned, old, same, stayed>> /\ UNCHANGED loops

InitError == /\ ~deleting /\ new # <<>>
             /\ new' = Tail(new)
             /\ scanned' = scanned \ {SidOf(Head(new))}
             /\ UNCHANGED <<heap, OraInstances, deleting, shift, unborn, old, same>>
             /\ UNCHANGED loops /\ UNCHANGED history

(* Delete takes the mutex, finds the first instance with the SID and loads *)
(* the elements after it (memmove reads up to 256 bytes before it writes). *)
Delete ==
  /\ ~deleting /\ new = <<>> /\ old # <<>>
  /\ \E k \in 1..OraInstances.len :
       /\ SidOf(Slots[k]) = SidOf(Head(old))
       /\ \A j \in 1..(k - 1) : SidOf(Slots[j]) # SidOf(Head(old))
       /\ shift' = [j \in k..(OraInstances.len - 1) |-> Slots[j + 1]]
       /\ stayed' = [r \in Readers |-> stayed[r] \ {Slots[k]}]
  /\ deleting' = TRUE
  /\ old' = Tail(old)
  /\ UNCHANGED <<heap, OraInstances, unborn, scanned, new, same, since>> /\ UNCHANGED loops

(* It stores them one slot to the left, in no order a reader can count on. *)
StoreSlot(k) ==
  /\ k \in DOMAIN shift
  /\ heap' = [heap EXCEPT ![OraInstances.arr][k] = shift[k]]
  /\ shift' = [j \in DOMAIN shift \ {k} |-> shift[j]]
  /\ UNCHANGED <<OraInstances, deleting, unborn>> /\ UNCHANGED round
  /\ UNCHANGED loops /\ UNCHANGED history

\* A slip: the result of append(slice[:i], slice[i+1:]...) is not assigned
EndDeleteKeepLen == /\ deleting
                    /\ DOMAIN shift = {}
                    /\ deleting' = FALSE
                    /\ UNCHANGED <<heap, OraInstances, shift, unborn>> /\ UNCHANGED round
                    /\ UNCHANGED loops /\ UNCHANGED history

(* The shortened header is assigned and the mutex released. The slot after *)
(* the last element keeps its content.                                     *)
EndDelete == /\ deleting
             /\ DOMAIN shift = {}
             /\ deleting' = FALSE
             /\ OraInstances' = [OraInstances EXCEPT !.len = @ - 1]
             /\ UNCHANGED <<heap, shift, unborn>> /\ UNCHANGED round
             /\ UNCHANGED loops /\ UNCHANGED history

(* The instances of same are refreshed: the list does not change.          *)
RoundDone == /\ ~deleting /\ new = <<>> /\ old = <<>> /\ same # <<>>
             /\ same' = <<>>
             /\ UNCHANGED <<heap, OraInstances, deleting, shift, unborn, scanned, new, old>>
             /\ UNCHANGED loops /\ UNCHANGED history

(* UpdateInstances: the processor takes the header, or the filtered copy. *)
UpdateInstances(r) ==
  /\ ~Walking(r)
  /\ ~deleting
  /\ hdr' = [hdr EXCEPT ![r] = OraInstances]
  /\ private' = [private EXCEPT ![r] = IF r \in Filtered THEN Accepted(r) ELSE <<>>]
  /\ idx' = [idx EXCEPT ![r] = 1]
  /\ seen' = [seen EXCEPT ![r] = <<>>]
  /\ snap' = [snap EXCEPT ![r] = Accepted(r)]
  /\ since' = [since EXCEPT ![r] = ToSet(Listed)]
  /\ stayed' = [stayed EXCEPT ![r] = ToSet(Listed)]
  /\ UNCHANGED array

(* One iteration of ProcesQuery's loop: the element is loaded from its slot *)
(* when the iteration begins.                                              *)
VisitNext(r) ==
  /\ Walking(r)
  /\ idx[r] <= WalkLen(r)
  /\ seen' = [seen EXCEPT ![r] = Append(@, Elem(r, idx[r]))]
  /\ idx' = [idx EXCEPT ![r] = @ + 1]
  /\ UNCHANGED <<hdr, private, snap>> /\ UNCHANGED array /\ UNCHANGED history

(* The loop ends. Its header is not read again before the next one begins. *)
EndLoop(r) == /\ Walking(r)
              /\ idx[r] > WalkLen(r)
              /\ idx' = [idx EXCEPT ![r] = 0]
              /\ hdr' = [hdr EXCEPT ![r] = [arr |-> 1, len |-> 0]]
              /\ private' = [private EXCEPT ![r] = <<>>]
              /\ seen' = [seen EXCEPT ![r] = <<>>]
              /\ snap' = [snap EXCEPT ![r] = <<>>]
              /\ since' = [since EXCEPT ![r] = {}]
              /\ stayed' = [stayed EXCEPT ![r] = {}]
              /\ UNCHANGED array

Next == \/ Discover \/ Add \/ InitError \/ Delete \/ RoundDone
        \/ \E k \in DOMAIN shift : StoreSlot(k)
        \/ EndDelete
        \/ \E r \in Readers : UpdateInstances(r) \/ VisitNext(r) \/ EndLoop(r)

Spec == Init /\ [][Next]_vars
-----------------------------------------------------------------------------
Header == [arr : 1..Len(heap), len : Nat]

(* Types, and the headers stay inside their arrays with every slot written. *)
TypeOK ==
  /\ \A a \in DOMAIN heap : \A k \in DOMAIN heap[a] : heap[a][k] \in Inst \cup {Nil}
  /\ OraInstances \in Header
  /\ OraInstances.len <= Len(Slots)
  /\ \A k \in 1..OraInstances.len : Slots[k] \in Inst
  /\ deleting \in BOOLEAN
  /\ DOMAIN shift \subseteq 1..OraInstances.len
  /\ \A k \in DOMAIN shift : deleting /\ shift[k] \in Inst
  /\ unborn \subseteq Inst
  /\ new \in Seq(Inst) /\ old \in Seq(Inst) /\ same \in Seq(Inst)
  /\ hdr \in [Readers -> Header]
  /\ \A r \in Readers : /\ private[r] \in Seq(Inst)
                        /\ idx[r] \in 0..(WalkLen(r) + 1)
                        /\ seen[r] \in Seq(Inst) /\ snap[r] \in Seq(Inst)
                        /\ since[r] \subseteq Inst /\ stayed[r] \subseteq Inst

(* Deletions identify an instance by its SID (intance-list.go:117), so a    *)
(* SID is listed once at most, also while elements are being moved.         *)
UniqueSids == \A j, k \in DOMAIN Listed :
                SidOf(Listed[j]) = SidOf(Listed[k]) => j = k

(* While a round goes on, what is left of new is not registered yet, and of   *)
(* old and same still is, by these very objects; when it is over, the        *)
(* registered SIDs are those the scan found and Init could open.            *)
Reconciled ==
  LET sids == {SidOf(i) : i \in ToSet(Listed)}
  IN /\ {SidOf(i) : i \in ToSet(new)} \cap sids = {}
     /\ ToSet(old) \cup ToSet(same) \subseteq ToSet(Listed)
     /\ ToSet(old) \cap ToSet(same) = {}
     /\ Idle => sids = scanned

(* Additions never disturb a loop that already ranges over the shared       *)
(* array: with no deletion of an instance it started with, it visits those  *)
(* instances once each and in order, although discovery appends in place;   *)
(* a loop over a filtered copy does so whatever is deleted.                 *)
Undisturbed(r) == r \in Filtered \/ ToSet(snap[r]) \subseteq stayed[r]

IsolatedLoop ==
  \A r \in Readers : Undisturbed(r) =>
    /\ IsPrefix(seen[r], snap[r])
    /\ Walking(r) /\ idx[r] > WalkLen(r) => seen[r] = snap[r]

(* The slices implement the weakly consistent registry: also a loop that a  *)
(* deletion overtakes visits only instances registered since it began,      *)
(* never an empty slot and never the vacated tail of an earlier deletion.   *)
(* A deletion takes effect when it starts to move elements.                 *)
Reg == INSTANCE Registry WITH list <- Listed,
                              walk <- {r \in Readers : Walking(r)}

WeaklyConsistent == Reg!Spec

(* What the log line of mgroup-processor.go:69 announces, "new Iteration on *)
(* [n] Instances [names]", read as a promise for the instances that stay    *)
(* registered: the loop has visited each of them when it ends.              *)
CompleteLoop ==
  \A r \in Readers : Walking(r) /\ idx[r] > WalkLen(r) =>
    stayed[r] \cap ToSet(snap[r]) \subseteq ToSet(seen[r])
=============================================================================
