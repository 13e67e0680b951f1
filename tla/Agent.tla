-------------------------------- MODULE Agent --------------------------------
(***************************************************************************)
(* The life of the process: the configuration is loaded and checked (init,  *)
(* pkg/main.go:78-146, pkg/config), main starts (main.go:148-180),          *)
(* agent.Start brings up the self monitor, the output, discovery and one    *)
(* goroutine per metric group (agent.go:74-96, mgroup-processor.go:104-127),*)
(* and a goroutine handles signals.                                         *)
(*                                                                         *)
(* A configuration is what of it decides the start: whether it decodes,     *)
(* which sections have a value Validate reports, and what is left out. An    *)
(* omitted section is a nil pointer, an omitted number is zero; a query     *)
(* period goes by the name of its group.                                    *)
(*                                                                         *)
(* External: the runtime hands a signal to the channel given to             *)
(* signal.Notify only if a goroutine is receiving on it, as the channel is  *)
(* not buffered; a ticker keeps at most one tick, and none has a period of  *)
(* zero; telegraf's buffer panics on a metric if its size is zero or it is  *)
(* nil; a panic in any goroutine ends the process.                          *)
(***************************************************************************)
EXTENDS Integers, FiniteSets, Sequences

CONSTANTS Group,      \* the metric groups a configuration may have
          MaxOmitted  \* bound: how much a configuration leaves out

ASSUME AgentAssumption == IsFiniteSet(Group) /\ MaxOmitted \in Nat

VARIABLES conf,      \* the configuration, and whether an answer may panic
          main,      \* "init", "begin", "notified"; in Start "selfmon", "output",
                     \* "discovery", "groups", "wait"; "exited"
          status,    \* how the process ended: -1 not yet, an exit status, or 128 by a signal
          handler,   \* the signal goroutine: "none", "spawned", "select", "gone"
          loop,      \* the goroutines of Service: "none", "spawned", "loop"
          gpc,       \* gpc[g]: the goroutine of g: "none", "spawned", "select", "query";
                     \* "absent": the configuration does not have g
          first,     \* first[g]: is the value in the channel `first` of g?
          tick,      \* tick[g]: is there a tick in the ticker of g?
          gatherWg   \* the counter of the WaitGroup

groups == <<gpc, first, tick, gatherWg>>
vars == <<conf, main, status, handler, loop, gpc, first, tick, gatherWg>>

Service == {"selfmon", "output", "discovery"}
Period == [selfmon |-> "request_period", output |-> "flush_period",
           discovery |-> "oracle_discovery_interval"]
Section == {"general", "output", "self-monitor", "oracle-discovery", "oracle-monitor"}
Parameter == Section \cup {Period[t] : t \in Service} \cup {"buffer_size"} \cup Group

Config == [file : {"missing", "undecodable", "decoded"},
           invalid : SUBSET {"oracle-monitor", "oracle-discovery"},
           omitted : {o \in SUBSET Parameter : Cardinality(o) <= MaxOmitted},
           enabled : BOOLEAN,   \* of the self monitor
           risky : BOOLEAN]     \* may a database answer so that a goroutine panics?

Init == /\ conf \in {c \in Config : c.invalid \cap c.omitted = {}}
        /\ main = "init" /\ status = -1 /\ handler = "none"
        /\ loop = [t \in Service |-> "none"]
        /\ gpc \in [Group -> {"absent", "none"}]
        /\ first = [g \in Group |-> FALSE] /\ tick = [g \in Group |-> FALSE]
        /\ gatherWg = 0

Running == main # "exited"
Omitted(x) == x \in conf.omitted

(* os.Exit, a panic, a signal or the end of main: every goroutine stops     *)
(* where it is.                                                            *)
Exited(s) == /\ main' = "exited" /\ status' = s
             /\ UNCHANGED <<conf, handler, loop>> /\ UNCHANGED groups

-----------------------------------------------------------------------------
(* init *)

LoadConfigFile == main = "init" /\ conf.file # "decoded" /\ Exited(1)

(* The sections whose fields init reads, in the order in which it does:     *)
(* Validate of the others has nothing to check, and a nil pointer is fine.  *)
Problems == SelectSeq(<<"oracle-monitor", "oracle-discovery", "general">>,
                      LAMBDA s : s \in conf.omitted \cup conf.invalid)

Validate == /\ main = "init" /\ conf.file = "decoded" /\ Problems = <<>>
            /\ main' = "begin"
            /\ UNCHANGED <<conf, status, handler, loop>> /\ UNCHANGED groups

ValidateError == /\ main = "init" /\ conf.file = "decoded" /\ Problems # <<>>
                 /\ Exited(IF Omitted(Head(Problems)) THEN 2 ELSE 1)

-----------------------------------------------------------------------------
(* main *)

Notify == /\ main = "begin" /\ main' = "notified"
          /\ UNCHANGED <<conf, status, handler, loop>> /\ UNCHANGED groups

Spawn == /\ main = "notified" /\ main' = "selfmon"
         /\ handler' = "spawned"
         /\ UNCHANGED <<conf, status, loop>> /\ UNCHANGED groups

(* selfmon.Init *)
SelfmonInit == /\ main = "selfmon" /\ ~Omitted("self-monitor") /\ main' = "output"
               /\ loop' = [loop EXCEPT !["selfmon"] =
                             IF conf.enabled THEN "spawned" ELSE "none"]
               /\ UNCHANGED <<conf, status, handler>> /\ UNCHANGED groups

(* output.Init makes the buffer *)
OutputInit == /\ main = "output" /\ ~Omitted("output") /\ main' = "discovery"
              /\ loop' = [loop EXCEPT !["output"] = "spawned"]
              /\ UNCHANGED <<conf, status, handler>> /\ UNCHANGED groups

NilSection == /\ \/ main = "selfmon" /\ Omitted("self-monitor")
                 \/ main = "output" /\ Omitted("output")
              /\ Exited(2)

(* A slip: discovery is started before the output. *)
InitDiscoveryEarly == /\ main = "output" /\ loop["discovery"] = "none"
                      /\ loop' = [loop EXCEPT !["discovery"] = "spawned"]
                      /\ UNCHANGED <<conf, main, status, handler>> /\ UNCHANGED groups

InitDiscovery == /\ main = "discovery" /\ main' = "groups"
                 /\ loop' = [loop EXCEPT !["discovery"] = "spawned"]
                 /\ UNCHANGED <<conf, status, handler>> /\ UNCHANGED groups

(* A slip: the goroutine of the group counts itself, once it runs. *)
StartCollectionLate(g) ==
  /\ main = "groups" /\ gpc[g] = "none"
  /\ gpc' = [gpc EXCEPT ![g] = "spawned"]
  /\ first' = [first EXCEPT ![g] = TRUE]
  /\ UNCHANGED <<conf, main, status, handler, loop, tick, gatherWg>>

StartCollection(g) ==
  /\ main = "groups" /\ gpc[g] = "none"
  /\ gatherWg' = gatherWg + 1
  /\ gpc' = [gpc EXCEPT ![g] = "spawned"]
  /\ first' = [first EXCEPT ![g] = TRUE]
  /\ UNCHANGED <<conf, main, status, handler, loop, tick>>

Wait == /\ main = "groups" /\ \A g \in Group : gpc[g] # "none"
        /\ main' = "wait"
        /\ UNCHANGED <<conf, status, handler, loop>> /\ UNCHANGED groups

(* Start returns when the counter is zero, and main returns with it.        *)
Return == main = "wait" /\ gatherWg = 0 /\ Exited(0)

-----------------------------------------------------------------------------
(* The goroutines of the self monitor, the output and discovery *)

(* NewTicker. *)
Begin(t) == /\ Running /\ loop[t] = "spawned" /\ ~Omitted(Period[t])
            /\ loop' = [loop EXCEPT ![t] = "loop"]
            /\ UNCHANGED <<conf, main, status, handler>> /\ UNCHANGED groups

ZeroPeriod(t) == /\ Running /\ loop[t] = "spawned" /\ Omitted(Period[t])
                 /\ Exited(2)

Buffered == loop["output"] # "none" /\ ~Omitted("buffer_size")

(* Each turn of discovery and of the self monitor sends a metric.           *)
SendMetrics(t) == Running /\ t # "output" /\ loop[t] = "loop" /\ Buffered /\ UNCHANGED vars

NoBuffer(t) == Running /\ t # "output" /\ loop[t] = "loop" /\ ~Buffered /\ Exited(2)

-----------------------------------------------------------------------------
(* The signal goroutine *)

Select == /\ Running /\ handler = "spawned" /\ handler' = "select"
          /\ UNCHANGED <<conf, main, status, loop>> /\ UNCHANGED groups

(* Before signal.Notify a signal has its default effect. *)
Killed == main \in {"init", "begin"} /\ Exited(128)

(* agent.End does nothing; then os.Exit(1). *)
Terminate == Running /\ handler = "select" /\ Exited(1)

(* agent.ReloadConf does nothing, and the goroutine ends: select is not in  *)
(* a loop.                                                                 *)
Hangup == /\ Running /\ handler = "select" /\ handler' = "gone"
          /\ UNCHANGED <<conf, main, status, loop>> /\ UNCHANGED groups

(* Nobody receives: the signal is lost. *)
Lost == /\ main \notin {"init", "begin", "exited"} /\ handler # "select"
        /\ UNCHANGED vars

(* SIGTERM or SIGINT, and SIGHUP *)
Term == Killed \/ Terminate \/ Lost
Hup == Killed \/ Hangup \/ Lost

-----------------------------------------------------------------------------
(* A group *)

BeginGroup(g) == /\ Running /\ gpc[g] = "spawned" /\ ~Omitted(g)
                 /\ gpc' = [gpc EXCEPT ![g] = "select"]
                 /\ UNCHANGED <<conf, main, status, handler, loop, first, tick, gatherWg>>

ZeroQueryPeriod(g) == Running /\ gpc[g] = "spawned" /\ Omitted(g) /\ Exited(2)

Tick(g) == /\ Running /\ gpc[g] \in {"select", "query"} /\ ~tick[g]
           /\ tick' = [tick EXCEPT ![g] = TRUE]
           /\ UNCHANGED <<conf, main, status, handler, loop, gpc, first, gatherWg>>

(* Two slips: the group is counted once an iteration, and a query that      *)
(* returns from the goroutine.                                              *)
ProcesQueryAdds(g) ==
  /\ Running /\ gpc[g] = "select" /\ gpc' = [gpc EXCEPT ![g] = "query"]
  /\ \/ first[g] /\ first' = [first EXCEPT ![g] = FALSE] /\ UNCHANGED tick
     \/ tick[g] /\ tick' = [tick EXCEPT ![g] = FALSE] /\ UNCHANGED first
  /\ gatherWg' = gatherWg + 1
  /\ UNCHANGED <<conf, main, status, handler, loop>>

QueryReturns(g) ==
  /\ Running /\ gpc[g] = "query" /\ gpc' = [gpc EXCEPT ![g] = "none"]
  /\ gatherWg' = gatherWg - 1
  /\ UNCHANGED <<conf, main, status, handler, loop, first, tick>>

ProcesQuery(g) ==
  /\ Running /\ gpc[g] = "select" /\ gpc' = [gpc EXCEPT ![g] = "query"]
  /\ \/ first[g] /\ first' = [first EXCEPT ![g] = FALSE] /\ UNCHANGED tick
     \/ tick[g] /\ tick' = [tick EXCEPT ![g] = FALSE] /\ UNCHANGED first
  /\ UNCHANGED <<conf, main, status, handler, loop, gatherWg>>

(* Every query has its timeout; the loop never ends, as nothing is sent on  *)
(* the channel `done`.                                                      *)
QueryDone(g) == /\ Running /\ gpc[g] = "query" /\ gpc' = [gpc EXCEPT ![g] = "select"]
                /\ UNCHANGED <<conf, main, status, handler, loop, first, tick, gatherWg>>

(* A query or a refresh of an instance panics (Crash of Discovery, Panic of *)
(* DataTable), or sends to a buffer of size zero.                           *)
Panic == /\ Running
         /\ conf.risky \/ Omitted("buffer_size")
         /\ loop["discovery"] = "loop" \/ \E g \in Group : gpc[g] = "query"
         /\ Exited(2)

-----------------------------------------------------------------------------
InitConfig == LoadConfigFile \/ Validate \/ ValidateError

Start == \/ SelfmonInit \/ OutputInit \/ NilSection \/ InitDiscovery
         \/ (\E g \in Group : StartCollection(g)) \/ Wait \/ Return

Main == InitConfig \/ Notify \/ Spawn \/ Start

Serve(t) == Begin(t) \/ ZeroPeriod(t) \/ SendMetrics(t) \/ NoBuffer(t)

Collect(g) == BeginGroup(g) \/ ZeroQueryPeriod(g) \/ ProcesQuery(g) \/ QueryDone(g)

Next == \/ Main \/ Select \/ Term \/ Hup
        \/ \E t \in Service : Serve(t)
        \/ \E g \in Group : Tick(g) \/ Collect(g)
        \/ Panic

Spec == Init /\ [][Next]_vars

(* Every goroutine runs and every ticker ticks; signals may come or not.    *)
FairSpec == /\ Spec
            /\ WF_vars(Main) /\ WF_vars(Select)
            /\ \A t \in Service : WF_vars(Serve(t))
            /\ \A g \in Group : WF_vars(Tick(g)) /\ WF_vars(Collect(g))

-----------------------------------------------------------------------------
TypeOK == /\ conf \in Config
          /\ main \in {"init", "begin", "notified", "selfmon", "output", "discovery",
                       "groups", "wait", "exited"}
          /\ status \in {-1, 0, 1, 2, 128} /\ (status = -1 <=> Running)
          /\ handler \in {"none", "spawned", "select", "gone"}
          /\ loop \in [Service -> {"none", "spawned", "loop"}]
          /\ gpc \in [Group -> {"absent", "none", "spawned", "select", "query"}]
          /\ first \in [Group -> BOOLEAN] /\ tick \in [Group -> BOOLEAN]
          /\ gatherWg \in 0..Cardinality(Group)

(* main returns only of a configuration without metric groups: it waits for  *)
(* the groups, which never end (agent.go:95, mgroup-processor.go:104-127).   *)
KeepsRunning == status = 0 => \A g \in Group : gpc[g] = "absent"

(* With a configuration that leaves nothing out and databases that answer   *)
(* as expected the process panics in one way only: the self monitor sends   *)
(* before output.Init has made the buffer (agent.go:77-80).                 *)
OnlySelfmonPanics ==
  status = 2 /\ conf.omitted = {} /\ ~conf.risky
    => loop["selfmon"] = "loop" /\ loop["output"] = "none"

(* Unless a signal or a panic ends the process, or the configuration is     *)
(* refused, every group queries again and again; no order of start, ticks   *)
(* and lost signals leaves a process that runs and does not collect.        *)
KeepsCollecting == \A g \in Group :
                     gpc[g] # "absent" => []<>(gpc[g] = "query") \/ <>(status \in {1, 2, 128})
=============================================================================
