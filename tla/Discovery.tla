----------------------------- MODULE Discovery ------------------------------
(***************************************************************************)
(* The discovery goroutine, pkg/agent/oracle/discovery.go.                 *)
(*                                                                         *)
(* Each round scans the system for PMON processes, compares the SIDs found *)
(* with the registered ones, connects to the new instances, releases those *)
(* whose process is gone, refreshes the rest, sends an oracle_status       *)
(* metric for each of them and one discover_stats metric for the round.    *)
(* Processes start and stop at any moment, and any step that talks to a    *)
(* database may fail, so a round works on a scan that grows old.           *)
(*                                                                         *)
(* The slice under OraInstances is the subject of InstanceList: discovery  *)
(* is its only writer, so here the list is the set of its elements. The    *)
(* queries of UpdateInfo are the subject of OracleInstance.                *)
(***************************************************************************)
EXTENDS Naturals, FiniteSets

CONSTANTS Sid,    \* the SIDs of this host
          Pid,    \* process identifiers
          NoPid,  \* the SID has no PMON process
          NoInst, \* no instance is being worked on
          Fault   \* what may fail without a process having died

(* "scan": listing the processes; "cmdline": reading one command line;     *)
(* "open": sql.Open; "ping", "version", "update": the queries of Init;     *)
(* "kill": the collector itself.                                           *)
ASSUME DiscoveryAssumption ==
  /\ NoPid \notin Pid
  /\ NoInst \notin [sid : Sid, pid : Pid]
  /\ Fault \subseteq {"scan", "cmdline", "open", "ping", "version", "update", "kill"}

(* What discovery keeps of an *OracleInstance: DiscoveredSid and PMONpid. *)
Inst == [sid : Sid, pid : Pid]

VARIABLES
  proc,          \* proc[s]: pid of the PMON process of s, or NoPid
  OraInstances,  \* the registered instances
  pc,            \* where the discovery goroutine is
  oinstances,    \* the instances found by the scan of this round
  new, old, same,\* their comparison with the registered ones
  todo,          \* what the current loop over new, old or same has left
  inst,          \* the instance that loop works on
  errorConnect,  \* SIDs whose Init failed in this round
  errorSkipped,  \* SIDs whose Init failed with an error to be skipped
  held,          \* instances in reach of the code with an open sql.DB
  dropped,       \* SIDs of the pools that are open and out of its reach
  status,        \* status[s]: the last oracle_status metric sent for s
  report,        \* the last discover_stats metric, with the SIDs it counts;
                 \* nothing while the collector has not completed a round
  stale,         \* history: SIDs last reported up by an earlier collector run
  alive          \* history: SIDs whose process ran throughout the last scan

round == <<oinstances, new, old, same>>
errors == <<errorConnect, errorSkipped>>
pools == <<held, dropped>>
sent == <<status, report, stale>>
vars == <<proc, OraInstances, pc, oinstances, new, old, same, todo, inst,
          errorConnect, errorSkipped, held, dropped, status, report, stale, alive>>

-----------------------------------------------------------------------------
Sids(S) == {i.sid : i \in S}

Running == {i \in Inst : proc[i.sid] = i.pid}

Up(s) == proc[s] # NoPid

(* A step that needs the database of inst fails only with its process gone *)
(* or by a fault of the environment.                                       *)
MayFail(f) == ~Up(inst.sid) \/ f \in Fault

NoReport == [all |-> {}, new |-> {}, current |-> {}, undiscovered |-> {},
             connect_errors |-> {}, connect_errors_skipped |-> {}]

Init == /\ proc \in [Sid -> {NoPid} \cup Pid]
        /\ \A i, j \in Running : i.pid = j.pid => i = j
        /\ OraInstances = {}
        /\ pc = "idle"
        /\ oinstances = {} /\ new = {} /\ old = {} /\ same = {} /\ todo = {}
        /\ inst = NoInst
        /\ errorConnect = {} /\ errorSkipped = {}
        /\ held = {} /\ dropped = {}
        /\ status = [s \in Sid |-> "none"]
        /\ report = NoReport
        /\ stale = {} /\ alive = {}

-----------------------------------------------------------------------------
(* The host *)

StartProc(s, p) == /\ proc[s] = NoPid
                   /\ \A t \in Sid : proc[t] # p
                   /\ proc' = [proc EXCEPT ![s] = p]
                   /\ UNCHANGED <<OraInstances, pc, todo, inst, pools, alive>>
                   /\ UNCHANGED round /\ UNCHANGED errors /\ UNCHANGED sent

StopProc(s) == /\ proc[s] # NoPid
               /\ proc' = [proc EXCEPT ![s] = NoPid]
               /\ UNCHANGED <<OraInstances, pc, todo, inst, pools, alive>>
               /\ UNCHANGED round /\ UNCHANGED errors /\ UNCHANGED sent

-----------------------------------------------------------------------------
(* The scan *)

(* FastProcessList: the pids of one moment. The command lines follow. *)
FastProcessList == /\ pc = "idle"
                   /\ pc' = "scan"
                   /\ oinstances' = Running
                   /\ UNCHANGED <<proc, OraInstances, new, old, same, todo, inst,
                                  pools, alive>>
                   /\ UNCHANGED errors /\ UNCHANGED sent

\* Two slips: instances are compared as objects, new ones or old ones
CompareNewObjects(S) ==
  /\ oinstances' = S
  /\ new' = S \ OraInstances
  /\ old' = {i \in OraInstances : i.sid \notin Sids(S)}
  /\ same' = {i \in OraInstances : i.sid \in Sids(S)}
  /\ todo' = new'
  /\ errorConnect' = {} /\ errorSkipped' = {}
  /\ pc' = "new"

CompareOldObjects(S) ==
  /\ oinstances' = S
  /\ new' = {i \in S : i.sid \notin Sids(OraInstances)}
  /\ old' = OraInstances \ S
  /\ same' = OraInstances \cap S
  /\ todo' = new'
  /\ errorConnect' = {} /\ errorSkipped' = {}
  /\ pc' = "new"

(* GetNewAndOldInstances, and the counters of the round set to zero. An    *)
(* instance that stays is the registered object, not the scanned one.      *)
GetNewAndOldInstances(S) ==
  /\ oinstances' = S
  /\ new' = {i \in S : i.sid \notin Sids(OraInstances)}
  /\ old' = {i \in OraInstances : i.sid \notin Sids(S)}
  /\ same' = {i \in OraInstances : i.sid \in Sids(S)}
  /\ todo' = new'
  /\ errorConnect' = {} /\ errorSkipped' = {}
  /\ pc' = "new"

Survivors == oinstances \cap Running

UniqueIn(S) == \A i, j \in S : i.sid = j.sid => i = j

(* FullPattern reads one command line for each pid, at any moment until it  *)
(* ends, and keeps one pid for each SID.  Another process may have taken a  *)
(* pid by then, and a pid whose command line cannot be read is skipped:     *)
(* the process is gone or, with a fault, it runs.                           *)
FullPattern ==
  /\ pc = "scan"
  /\ \E S \in SUBSET (oinstances \cup Running) :
       /\ UniqueIn(S)
       /\ \A i, j \in S : i.pid = j.pid => i = j
       /\ "cmdline" \in Fault \/ Sids(Survivors) \subseteq Sids(S)
       /\ GetNewAndOldInstances(S)
  /\ alive' = Sids(Survivors)
  /\ UNCHANGED <<proc, OraInstances, inst, pools>> /\ UNCHANGED sent

(* An error of the scan is logged and the round goes on with no process.   *)
ScanError ==
  /\ pc = "scan" /\ "scan" \in Fault
  /\ GetNewAndOldInstances({})
  /\ alive' = Sids(Survivors)
  /\ UNCHANGED <<proc, OraInstances, inst, pools>> /\ UNCHANGED sent

-----------------------------------------------------------------------------
(* The loop over the new instances *)

\* A slip: no continue after the error was counted
InitErrorNoContinue(i) ==
  /\ \/ errorSkipped' = errorSkipped \cup {i.sid} /\ UNCHANGED errorConnect
     \/ errorConnect' = errorConnect \cup {i.sid} /\ UNCHANGED errorSkipped
  /\ pc' = "add"

(* A failed Init is counted under one of two headings, by the regular      *)
(* expressions of oracle_discovery_skip_errors_regex; the loop continues.  *)
InitError(i) ==
  /\ \/ errorSkipped' = errorSkipped \cup {i.sid} /\ UNCHANGED errorConnect
     \/ errorConnect' = errorConnect \cup {i.sid} /\ UNCHANGED errorSkipped
  /\ pc' = "new"

TakeNew(i) == /\ pc = "new" /\ i \in todo
              /\ todo' = todo \ {i}
              /\ inst' = i
              /\ UNCHANGED <<proc, OraInstances, alive>>
              /\ UNCHANGED round /\ UNCHANGED sent

SqlOpen(i) == /\ TakeNew(i)
              /\ held' = held \cup {i} /\ UNCHANGED dropped
              /\ pc' = "ping"
              /\ UNCHANGED errors

SqlOpenError(i) == /\ TakeNew(i)
                   /\ "open" \in Fault
                   /\ InitError(i)
                   /\ UNCHANGED pools

InitStep(from, to) == /\ pc = from /\ pc' = to
                      /\ Up(inst.sid)
                      /\ UNCHANGED <<proc, OraInstances, todo, inst, pools, alive>>
                      /\ UNCHANGED round /\ UNCHANGED errors /\ UNCHANGED sent

PingOk == InitStep("ping", "version")
GetVersionOk == InitStep("version", "info")
InitInfoOk == InitStep("info", "add")

(* A failing Init returns without closing the pool it opened, and discover *)
(* drops the instance: the pool stays open and nothing can close it.       *)
AbandonInit(from, f) ==
  /\ pc = from /\ MayFail(f)
  /\ InitError(inst)
  /\ held' = held \ {inst} /\ dropped' = dropped \cup {inst.sid}
  /\ UNCHANGED <<proc, OraInstances, todo, inst, alive>>
  /\ UNCHANGED round /\ UNCHANGED sent

PingError == AbandonInit("ping", "ping")
InitInfoError == AbandonInit("info", "update")

(* The process dies: its memory is lost, the metrics it sent are not.      *)
Crash == /\ pc' = "crashed"
         /\ OraInstances' = {} /\ held' = {} /\ dropped' = {}
         /\ oinstances' = {} /\ new' = {} /\ old' = {} /\ same' = {}
         /\ todo' = {} /\ inst' = NoInst
         /\ errorConnect' = {} /\ errorSkipped' = {}
         /\ report' = NoReport
         /\ stale' = {s \in Sid : status[s] = "up"}
         /\ alive' = {}
         /\ UNCHANGED <<proc, status>>

(* Init ignores the error of GetVersion; UpdateInfo then compares a nil    *)
(* InitVersion and the process panics.                                     *)
GetVersionError == /\ pc = "version" /\ MayFail("version")
                   /\ Crash

\* A slip: the status of a new instance is left to the next round
AddSilently == /\ pc = "add" /\ pc' = "new"
               /\ OraInstances' = OraInstances \cup {inst}
               /\ UNCHANGED <<proc, todo, inst, pools, alive>>
               /\ UNCHANGED round /\ UNCHANGED errors /\ UNCHANGED sent

Add == /\ pc = "add" /\ pc' = "newStatus"
       /\ OraInstances' = OraInstances \cup {inst}
       /\ UNCHANGED <<proc, todo, inst, pools, alive>>
       /\ UNCHANGED round /\ UNCHANGED errors /\ UNCHANGED sent

(* output.SendMetrics(inst.GetMetrics(ok)) *)
SendStatus(from, ok, to) ==
  /\ pc = from /\ pc' = to
  /\ status' = [status EXCEPT ![inst.sid] = ok]
  /\ stale' = stale \ {inst.sid}
  /\ UNCHANGED <<proc, OraInstances, todo, inst, pools, report, alive>>
  /\ UNCHANGED round /\ UNCHANGED errors

SendNew == SendStatus("newStatus", "up", "new")

NextLoop(from, to, S) == /\ pc = from /\ pc' = to
                         /\ todo = {} /\ todo' = S
                         /\ UNCHANGED <<proc, OraInstances, inst, pools, alive>>
                         /\ UNCHANGED round /\ UNCHANGED errors /\ UNCHANGED sent

NewDone == NextLoop("new", "old", old)

-----------------------------------------------------------------------------
(* The loop over the old instances *)

\* Two slips: the pool is not closed; the loop variable is not the instance
EndNoClose(i) == /\ pc = "old" /\ pc' = "delete"
                 /\ i \in todo
                 /\ todo' = todo \ {i}
                 /\ inst' = i
                 /\ UNCHANGED <<proc, OraInstances, pools, alive>>
                 /\ UNCHANGED round /\ UNCHANGED errors /\ UNCHANGED sent

EndNil(i) == /\ pc = "old" /\ pc' = "delete"
             /\ i \in todo
             /\ todo' = todo \ {i}
             /\ held' = held \ {i} /\ UNCHANGED dropped
             /\ UNCHANGED <<proc, OraInstances, inst, alive>>
             /\ UNCHANGED round /\ UNCHANGED errors /\ UNCHANGED sent

(* End closes the pool and returns nil whatever Close said. *)
End(i) == /\ pc = "old" /\ pc' = "delete"
          /\ i \in todo
          /\ todo' = todo \ {i}
          /\ inst' = i
          /\ held' = held \ {i} /\ UNCHANGED dropped
          /\ UNCHANGED <<proc, OraInstances, alive>>
          /\ UNCHANGED round /\ UNCHANGED errors /\ UNCHANGED sent

\* A slip: Delete does not find the instance
DeleteNotFound == /\ pc = "delete" /\ pc' = "lost"
                  /\ UNCHANGED <<proc, OraInstances, todo, inst, pools, alive>>
                  /\ UNCHANGED round /\ UNCHANGED errors /\ UNCHANGED sent

Delete == /\ pc = "delete" /\ pc' = "lost"
          /\ OraInstances' = {i \in OraInstances : i.sid # inst.sid}
          /\ UNCHANGED <<proc, todo, inst, pools, alive>>
          /\ UNCHANGED round /\ UNCHANGED errors /\ UNCHANGED sent

\* A slip: process_ok is true for a lost instance too
SendLostOk == SendStatus("lost", "up", "old")

SendLost == SendStatus("lost", "down", "old")

OldDone == NextLoop("old", "same", same)

-----------------------------------------------------------------------------
(* The loop over the other instances *)

(* UpdateInfo: an error is only logged, the status is sent all the same.   *)
UpdateSame(i) == /\ pc = "same" /\ pc' = "sameStatus"
                 /\ i \in todo
                 /\ todo' = todo \ {i}
                 /\ inst' = i
                 /\ UNCHANGED <<proc, OraInstances, pools, alive>>
                 /\ UNCHANGED round /\ UNCHANGED errors /\ UNCHANGED sent

SendSame == SendStatus("sameStatus", "up", "same")

(* The round ends and its local variables with it. *)
SendDiscoveryMetrics ==
  /\ pc = "same" /\ pc' = "idle"
  /\ todo = {}
  /\ report' = [all |-> Sids(oinstances), new |-> Sids(new), current |-> Sids(same),
                undiscovered |-> Sids(old), connect_errors |-> errorConnect,
                connect_errors_skipped |-> errorSkipped]
  /\ oinstances' = {} /\ new' = {} /\ old' = {} /\ same' = {} /\ inst' = NoInst
  /\ errorConnect' = {} /\ errorSkipped' = {} /\ alive' = {}
  /\ UNCHANGED <<proc, OraInstances, todo, pools, status, stale>>

-----------------------------------------------------------------------------
(* The collector *)

Kill == /\ pc # "crashed" /\ "kill" \in Fault
        /\ Crash

(* telegraf or the init system starts the collector again. *)
Restart == /\ pc = "crashed" /\ pc' = "idle"
           /\ UNCHANGED <<proc, OraInstances, todo, inst, pools, alive>>
           /\ UNCHANGED round /\ UNCHANGED errors /\ UNCHANGED sent

Host == \E s \in Sid : StopProc(s) \/ \E p \in Pid : StartProc(s, p)

Scan == FastProcessList \/ FullPattern \/ ScanError

NewLoop == \/ \E i \in todo : SqlOpen(i) \/ SqlOpenError(i)
           \/ PingOk \/ PingError
           \/ GetVersionOk \/ GetVersionError
           \/ InitInfoOk \/ InitInfoError
           \/ Add \/ SendNew \/ NewDone

OldLoop == (\E i \in todo : End(i)) \/ Delete \/ SendLost \/ OldDone

SameLoop == (\E i \in todo : UpdateSame(i)) \/ SendSame \/ SendDiscoveryMetrics

discover == Scan \/ NewLoop \/ OldLoop \/ SameLoop

Next == Host \/ discover \/ Kill \/ Restart

Spec == Init /\ [][Next]_vars

(* The ticker fires again after every round and the goroutine runs; who    *)
(* supervises the collector restarts it; a database that is up answers the *)
(* ping of one of infinitely many attempts.                                *)
FairSpec == /\ Spec
            /\ WF_vars(discover)
            /\ WF_vars(Restart)
            /\ \A s \in Sid : SF_vars(PingOk /\ inst.sid = s)
-----------------------------------------------------------------------------
Report == [all : SUBSET Sid, new : SUBSET Sid, current : SUBSET Sid,
           undiscovered : SUBSET Sid, connect_errors : SUBSET Sid,
           connect_errors_skipped : SUBSET Sid]

Connecting == {"ping", "version", "info", "add"}

Labels == {"idle", "scan", "new", "newStatus", "old", "delete", "lost", "same",
           "sameStatus", "crashed"} \cup Connecting

TypeOK == /\ proc \in [Sid -> {NoPid} \cup Pid]
          /\ pc \in Labels
          /\ OraInstances \subseteq Inst /\ oinstances \subseteq Inst
          /\ new \subseteq Inst /\ old \subseteq Inst /\ same \subseteq Inst
          /\ todo \subseteq Inst
          /\ inst \in Inst \cup {NoInst}
          /\ pc \in Connecting \cup {"newStatus", "delete", "lost", "sameStatus"}
               => inst \in Inst
          /\ errorConnect \subseteq Sid /\ errorSkipped \subseteq Sid
          /\ held \subseteq Inst /\ dropped \subseteq Sid
          /\ status \in [Sid -> {"none", "up", "down"}]
          /\ report \in Report
          /\ stale \subseteq Sid /\ alive \subseteq Sid

(* One registered instance per SID, although processes are replaced while   *)
(* a round works on its scan: Delete identifies instances by SID            *)
(* (intance-list.go:117) and would remove another one otherwise.            *)
UniqueSids == \A i, j \in OraInstances : i.sid = j.sid => i = j

(* Among the pools the code can still reach, whatever failed: every         *)
(* registered instance has an open one until End closes it, and there is no *)
(* other but that of the instance Init works on.  What a failed Init left   *)
(* open (oracle-instance.go:556-570) is out of reach, and in dropped.       *)
PoolAccounting ==
  held = (OraInstances \ (IF pc = "delete" THEN {inst} ELSE {}))
         \cup (IF pc \in Connecting THEN {inst} ELSE {})

(* discover_stats explains the registered set: it is what was registered    *)
(* and found again, plus the new instances without a connection error, and  *)
(* none of the undiscovered ones; each error is counted under one heading   *)
(* (discovery.go:104-114).                                                  *)
RoundBalance ==
  pc = "idle" =>
    LET failed == report.connect_errors \cup report.connect_errors_skipped
    IN /\ Sids(OraInstances) = report.current \cup (report.new \ failed)
       /\ report.connect_errors \cap report.connect_errors_skipped = {}
       /\ failed \subseteq report.new
       /\ report.all = report.new \cup report.current
       /\ report.undiscovered \cap (report.all \cup Sids(OraInstances)) = {}

(* Between rounds the SIDs last reported up are the registered ones and     *)
(* those a killed collector left behind (discovery.go:53-102).              *)
StatusFollowsList ==
  pc = "idle" =>
    {s \in Sid : status[s] = "up"} = Sids(OraInstances) \cup stale

(* proc_ok is false the first time the process is detected down and only    *)
(* then (README.md:182): what is about to be reported lost was last         *)
(* reported up, by this collector.                                          *)
LostReportedOnce ==
  pc = "lost" => status[inst.sid] = "up" /\ inst.sid \notin stale

(* An instance reported down had no process at some moment of the scan.     *)
(* Holds while the scan itself does not fail.                               *)
LostWasDown == pc = "lost" => inst.sid \notin alive

(* README.md:333: an instance with errors in the connecting process is      *)
(* counted in connect_errors, so the collector survives it.                 *)
ConnectErrorsSurvived == pc # "crashed"

(* Unless processes come and go for ever, the registered set and the        *)
(* reported status become those of the running processes and stay so,       *)
(* whatever earlier rounds had scanned, lost or failed to connect to.       *)
InSync == \A s \in Sid : /\ s \in Sids(OraInstances) <=> Up(s)
                         /\ Up(s) => status[s] = "up"
                         /\ status[s] = "up" => Up(s) \/ s \in stale

Converges == <>[]InSync \/ []<><<TRUE>>_proc

(* Every step of discovery is a step of the life cycle of one SID. *)
Phase(s) ==
  IF pc = "crashed" THEN "out"
  ELSE IF s \in Sids(OraInstances)
       THEN IF pc = "newStatus" /\ inst.sid = s THEN "joined" ELSE "monitored"
       ELSE IF pc = "lost" /\ inst.sid = s THEN "leaving" ELSE "out"

Cycle == INSTANCE Lifecycle WITH phase <- [s \in Sid |-> Phase(s)],
                                 view <- status

ImplementsLifecycle == Cycle!Spec
=============================================================================
