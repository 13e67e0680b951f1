------------------------------- MODULE Output -------------------------------
(***************************************************************************)
(* The output of the collector, pkg/agent/output/output.go: every          *)
(* goroutine adds metrics to one bounded buffer, the sender flushes it to   *)
(* stdout once a period, and main ends the program when a signal arrives.   *)
(*                                                                         *)
(* The buffer is telegraf's models.Buffer: Add, Len and Batch each hold its *)
(* mutex; Add overwrites the oldest metric of a full buffer, Batch takes    *)
(* metrics out for good, because Accept and Reject are never called.        *)
(* Between Len and Batch the other goroutines go on adding.                 *)
(*                                                                         *)
(* A metric is its number in the order of arrival.                         *)
(***************************************************************************)
EXTENDS Naturals, Sequences, SequencesExt

CONSTANTS BufferSize,  \* buffer_size
          MaxSend,     \* the most metrics one SendMetrics brings
          MaxMetrics   \* bound: how many metrics arrive

ASSUME OutputAssumption == /\ BufferSize \in Nat \ {0}
                           /\ MaxSend \in Nat /\ MaxMetrics \in Nat

VARIABLES buffer,   \* the metrics in the buffer, oldest first
          pc,       \* the sender: "select", "batch", "write", or "exited" with the program
          n,        \* what buffer.Len returned
          out,      \* the metrics flushData serialized, not yet written
          stdout,   \* what was written
          sent,     \* how many metrics arrived
          dropped,  \* those Add pushed out of the full buffer
          flushing, \* history: `sent` when the current flush read Len
          flushed   \* history: the same of the last flush that took its batch

vars == <<buffer, pc, n, out, stdout, sent, dropped, flushing, flushed>>

Metrics == 1..MaxMetrics
Least(a, b) == IF a < b THEN a ELSE b

Init == /\ buffer = <<>> /\ pc = "select" /\ n = 0
        /\ out = <<>> /\ stdout = <<>>
        /\ sent = 0 /\ dropped = {}
        /\ flushing = 0 /\ flushed = 0

(* The numbers after a up to b. *)
Numbers(a, b) == [i \in 1..(b - a) |-> a + i]

(* A slip: one metric pushed out, however many are added. *)
SendMetricsDropOne(k) ==
  /\ pc # "exited"
  /\ sent + k <= MaxMetrics /\ sent' = sent + k
  /\ LET all == buffer \o Numbers(sent, sent + k)
         cut == IF Len(all) > BufferSize THEN 1 ELSE 0
     IN  /\ buffer' = SubSeq(all, cut + 1, Len(all))
         /\ dropped' = dropped \cup ToSet(SubSeq(all, 1, cut))
  /\ UNCHANGED <<pc, n, out, stdout, flushing, flushed>>

(* A slip: the full buffer refuses the new metrics instead of the old ones. *)
SendMetricsKeepOld(k) ==
  /\ pc # "exited"
  /\ sent + k <= MaxMetrics /\ sent' = sent + k
  /\ LET all == buffer \o Numbers(sent, sent + k)
     IN  /\ buffer' = SubSeq(all, 1, Least(BufferSize, Len(all)))
         /\ dropped' = dropped \cup (ToSet(all) \ ToSet(buffer'))
  /\ UNCHANGED <<pc, n, out, stdout, flushing, flushed>>

(* Any goroutine, under the mutex of the buffer. *)
SendMetrics(k) ==
  /\ pc # "exited"
  /\ sent + k <= MaxMetrics /\ sent' = sent + k
  /\ LET all == buffer \o Numbers(sent, sent + k)
         keep == Least(BufferSize, Len(all))
     IN  /\ buffer' = SubSeq(all, Len(all) - keep + 1, Len(all))
         /\ dropped' = dropped \cup ToSet(SubSeq(all, 1, Len(all) - keep))
  /\ UNCHANGED <<pc, n, out, stdout, flushing, flushed>>

(* A slip: the last index instead of the length. *)
TickOffByOne == /\ pc = "select" /\ pc' = "batch"
                /\ n' = IF buffer = <<>> THEN 0 ELSE Len(buffer) - 1
                /\ flushing' = sent
                /\ UNCHANGED <<buffer, out, stdout, sent, dropped, flushed>>

(* The ticker fires: flushData asks for the length of the buffer, which also *)
(* counts the previous batch, as it was never accepted; Batch caps it,      *)
Tick == /\ pc = "select" /\ pc' = "batch"
        /\ n' = Len(buffer)
        /\ flushing' = sent
        /\ UNCHANGED <<buffer, out, stdout, sent, dropped, flushed>>

(* Two slips: a batch of fixed size, and a batch that is copied out of the  *)
(* buffer but left in it.                                                   *)
BatchShort == /\ pc = "batch" /\ pc' = "write"
              /\ LET k == Least(n, 1)
                 IN  /\ out' = SubSeq(buffer, 1, k)
                     /\ buffer' = SubSeq(buffer, k + 1, Len(buffer))
              /\ flushed' = flushing
              /\ UNCHANGED <<n, stdout, sent, dropped, flushing>>

BatchCopy == /\ pc = "batch" /\ pc' = "write"
             /\ out' = SubSeq(buffer, 1, Least(n, Len(buffer)))
             /\ flushed' = flushing
             /\ UNCHANGED <<buffer, n, stdout, sent, dropped, flushing>>

(* takes that many metrics, the oldest, out of what the buffer holds by now, *)
Batch == /\ pc = "batch" /\ pc' = "write"
         /\ LET k == Least(n, Len(buffer))
            IN  /\ out' = SubSeq(buffer, 1, k)
                /\ buffer' = SubSeq(buffer, k + 1, Len(buffer))
         /\ flushed' = flushing
         /\ UNCHANGED <<n, stdout, sent, dropped, flushing>>

(* and writes them.                                                        *)
Write == /\ pc = "write" /\ pc' = "select"
         /\ stdout' = stdout \o out /\ out' = <<>>
         /\ UNCHANGED <<buffer, n, sent, dropped, flushing, flushed>>

(* os.Exit in the signal handler, anywhere in the flush: of the metrics     *)
(* being written some are out. Nobody closes chExit.                        *)
Exit == /\ pc # "exited" /\ pc' = "exited"
        /\ \E k \in 0..Len(out) : /\ stdout' = stdout \o SubSeq(out, 1, k)
                                  /\ out' = SubSeq(out, k + 1, Len(out))
        /\ UNCHANGED <<buffer, n, sent, dropped, flushing, flushed>>

startOutputSender == Tick \/ Batch \/ Write

Next == (\E k \in 1..MaxSend : SendMetrics(k)) \/ startOutputSender \/ Exit

Spec == Init /\ [][Next]_vars

(* The ticker goes on firing and the sender runs; Exit is never forced.     *)
FairSpec == Spec /\ WF_vars(startOutputSender)

-----------------------------------------------------------------------------
TypeOK == /\ buffer \in Seq(Metrics) /\ Len(buffer) <= BufferSize
          /\ pc \in {"select", "batch", "write", "exited"}
          /\ n \in 0..BufferSize
          /\ out \in Seq(Metrics) /\ Len(out) <= n
          /\ pc \in {"select", "batch"} => out = <<>>
          /\ stdout \in Seq(Metrics)
          /\ sent \in 0..MaxMetrics /\ dropped \subseteq Metrics
          /\ flushing \in 0..sent /\ flushed \in 0..flushing

(* What has left through stdout, is being written and waits in the buffer,  *)
(* read in this order, is in the order of arrival without repetition, and   *)
(* together with what was dropped it is all that arrived.                   *)
Delivery ==
  LET line == stdout \o out \o buffer
  IN  /\ \A i, j \in DOMAIN line : i < j => line[i] < line[j]
      /\ 1..sent = ToSet(line) \cup dropped
      /\ ToSet(line) \cap dropped = {}

(* The buffer holds the newest metrics: it never drops one to keep an older *)
(* one.                                                                     *)
NewestKept == \A m \in dropped : \A i \in DOMAIN buffer : m < buffer[i]

(* Metrics are dropped only if more than BufferSize of them arrived since   *)
(* the sender counted the buffer for the last batch it took: a flush takes  *)
(* all it counted, although metrics are added between the count and the     *)
(* batch (output.go:59).                                                    *)
OnlyOverflowDrops ==
  [][dropped' # dropped => sent' - flushed > BufferSize]_vars

(* Every metric leaves the buffer: it is written, or dropped, or the program *)
(* ends.                                                                    *)
Drained == \A m \in Metrics :
             (m \in ToSet(buffer)) ~> (m \notin ToSet(buffer) \/ pc = "exited")

=============================================================================
