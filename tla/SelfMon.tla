------------------------------- MODULE SelfMon -------------------------------
(***************************************************************************)
(* The self monitor, pkg/agent/selfmon/selfmon.go: once a period it reads   *)
(* the counters of the Go runtime and sends, through the buffer of Output,  *)
(* how far they moved since its last sample.                                *)
(*                                                                         *)
(* Of a sample the model keeps the two counters it makes differences of:    *)
(* the garbage collections, which NumGC counts in Width bits, and the time  *)
(* they paused the program, one unit a collection, in 64 bits, which do not *)
(* overflow. The other fields are read and sent as they are, and the        *)
(* differences per second divide those per interval by the elapsed time.    *)
(***************************************************************************)
EXTENDS Output, Integers

CONSTANTS Width,       \* the bits of NumGC
          MaxGC,       \* bound: how many collections happen
          MaxSamples   \* bound: how many samples are sent

(* The second conjunct is arithmetic that the provers do not have. *)
ASSUME SelfMonAssumption == {Width, MaxGC, MaxSamples} \subseteq Nat /\ 2^Width > 0

VARIABLES gcs,         \* the collections so far
          lastNumGc,   \* NumGC at the last sample, 0 before the first
          lastPauseNs, \* PauseTotalNs at the last sample, 0 before the first
          samples      \* the samples sent, each with the number of its metric

smVars == <<gcs, lastNumGc, lastPauseNs, samples>>
allVars == <<vars, smVars>>

Absent == -1      \* the sample does not have the field

(* Collections may come before selfmon.Init.                                *)
SelfMonInit == /\ Init
               /\ gcs \in 0..1 /\ lastNumGc = 0 /\ lastPauseNs = 0 /\ samples = <<>>

NumGC == gcs % 2^Width
PauseTotalNs == gcs

(* A period is too short for the counter to come round.                     *)
Collection == /\ pc # "exited"
              /\ gcs < MaxGC /\ gcs - lastPauseNs < 2^Width - 1
              /\ gcs' = gcs + 1
              /\ UNCHANGED <<lastNumGc, lastPauseNs, samples>> /\ UNCHANGED vars

(* A slip: the difference of integers, not of unsigned counters. *)
countGcInt == NumGC - lastNumGc

countGc == (NumGC - lastNumGc) % 2^Width

(* The counters read zero, before the first sample as after it, while there  *)
(* is nothing to take a difference to.                                      *)
collectLegacyRuntimeStats ==
  /\ Len(samples) < MaxSamples
  /\ samples' = Append(samples,
       [metric |-> sent + 1, total |-> gcs,
        gc_per_interval |-> IF lastNumGc > 0 THEN countGc ELSE Absent,
        pause_per_interval |-> IF lastPauseNs > 0 THEN PauseTotalNs - lastPauseNs ELSE Absent])
  /\ lastNumGc' = NumGC /\ lastPauseNs' = PauseTotalNs
  /\ SendMetrics(1)
  /\ UNCHANGED gcs

(* The loop of startSelfmonCollector: nobody closes chExit.                 *)
startSelfmonCollector == collectLegacyRuntimeStats

SelfMonNext == \/ Next /\ UNCHANGED smVars
               \/ startSelfmonCollector
               \/ Collection

SelfMonSpec == SelfMonInit /\ [][SelfMonNext]_allVars /\ WF_vars(startOutputSender)

-----------------------------------------------------------------------------
(* Two samples in a row of the output, with none lost between them: the     *)
(* second says how many collections lie between the two, across the         *)
(* overflow of NumGC, and for how long they paused the program. It leaves a  *)
(* field out only if the first was taken when that counter read zero        *)
(* (selfmon.go:332-348).                                                    *)
IntervalsAddUp ==
  \A i \in 1..(Len(samples) - 1) :
    LET s == samples[i]
        t == samples[i + 1]
        written == {k \in DOMAIN stdout : stdout[k] \in {s.metric, t.metric}}
    IN  Cardinality(written) = 2 =>
          /\ t.gc_per_interval = IF s.total % 2^Width = 0 THEN Absent ELSE t.total - s.total
          /\ t.pause_per_interval = IF s.total = 0 THEN Absent ELSE t.total - s.total
=============================================================================
