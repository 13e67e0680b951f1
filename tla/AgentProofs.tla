----------------------------- MODULE AgentProofs -------------------------------
(***************************************************************************)
(* Theorems of Agent, for any finite number of metric groups, configurations *)
(* that leave out any of their parts, and signals at any moment.            *)
(***************************************************************************)
EXTENDS Agent, FiniteSetTheorems, TLAPS

(* The goroutines of the groups that were started; none of them ends. *)
Started == {g \in Group : gpc[g] \in {"spawned", "select", "query"}}

(* The counter of the WaitGroup is the number of the goroutines that run,   *)
(* and Start waits only once there is one for every group there is; what is  *)
(* started after the output finds a buffer; after the end nothing moves.     *)
Counted == gatherWg = Cardinality(Started)

Waits == /\ main = "wait" => \A g \in Group : gpc[g] # "none"
         /\ status = 0 => \A g \in Group : gpc[g] = "absent"

Ordered == /\ main \in {"discovery", "groups", "wait"} => loop["output"] # "none"
           /\ loop["discovery"] # "none" => loop["output"] # "none"

Types == /\ conf \in Config
         /\ main \in {"init", "begin", "notified", "selfmon", "output", "discovery",
                      "groups", "wait", "exited"}
         /\ status \in {-1, 0, 1, 2, 128} /\ (status = -1 <=> Running)
         /\ handler \in {"none", "spawned", "select", "gone"}
         /\ loop \in [Service -> {"none", "spawned", "loop"}]
         /\ gpc \in [Group -> {"absent", "none", "spawned", "select", "query"}]
         /\ first \in [Group -> BOOLEAN] /\ tick \in [Group -> BOOLEAN]

Inv == Types /\ Counted /\ Waits /\ Ordered /\ OnlySelfmonPanics

-----------------------------------------------------------------------------
LEMMA StartedFinite == IsFiniteSet(Started) /\ Cardinality(Started) \in 0..Cardinality(Group)
  BY AgentAssumption, FS_Subset, FS_CardinalityType DEF Started

LEMMA TypesCounted == Types /\ Counted => TypeOK
  BY StartedFinite DEF Types, Counted, TypeOK

LEMMA InvInit == Init => Inv
  <1> SUFFICES ASSUME Init PROVE Inv
    OBVIOUS
  <1>1. Types
    BY DEF Init, Types, Running
  <1>2. Counted
    <2>1. Started = {}
      BY DEF Init, Started
    <2> QED
      BY <2>1, FS_EmptySet DEF Init, Counted
  <1>3. Waits /\ Ordered /\ OnlySelfmonPanics
    BY DEF Init, Waits, Ordered, OnlySelfmonPanics, Service
  <1> QED
    BY <1>1, <1>2, <1>3 DEF Inv

-----------------------------------------------------------------------------
(* The ways to the end of the process, with the exit status of each. *)
LEMMA ExitNext ==
  ASSUME Inv, Running, NEW s \in {0, 1, 2, 128}, Exited(s),
         s = 0 => main = "wait" /\ gatherWg = 0,
         s = 2 /\ conf.omitted = {} /\ ~conf.risky
           => loop["selfmon"] = "loop" /\ loop["output"] = "none"
  PROVE  Inv'
  <1> USE DEF Exited, groups
  <1>1. Types' /\ Counted' /\ Ordered'
    BY DEF Inv, Types, Counted, Ordered, Started, Running, Config
  <1>2. Waits'
    <2>1. CASE s = 0
      <3>1. Started = {}
        BY <2>1, StartedFinite, FS_EmptySet DEF Inv, Counted
      <3>2. \A g \in Group : gpc[g] = "absent"
        BY <2>1, <3>1 DEF Inv, Types, Waits, Started
      <3> QED
        BY <3>2 DEF Waits
    <2>2. CASE s # 0
      BY <2>2 DEF Waits
    <2> QED
      BY <2>1, <2>2
  <1>3. OnlySelfmonPanics'
    BY DEF OnlySelfmonPanics
  <1> QED
    BY <1>1, <1>2, <1>3 DEF Inv

(* What only moves main, the services or the handler.                      *)
LEMMA MainNext == Inv /\ Main => Inv'
  <1> SUFFICES ASSUME Inv, Main PROVE Inv'
    OBVIOUS
  <1> USE DEF groups, Running
  <1>1. CASE LoadConfigFile \/ ValidateError \/ NilSection \/ Return
    <2>1. CASE LoadConfigFile
      BY <2>1, ExitNext DEF LoadConfigFile
    <2>2. CASE ValidateError
      <3>1. PICK s \in {1, 2} : s = (IF Omitted(Head(Problems)) THEN 2 ELSE 1)
        OBVIOUS
      <3>2. s = 2 => conf.omitted # {}
        BY <3>1 DEF Omitted
      <3> QED
        BY <2>2, <3>1, <3>2, ExitNext DEF ValidateError
    <2>3. CASE NilSection
      BY <2>3, ExitNext DEF NilSection, Omitted
    <2>4. CASE Return
      BY <2>4, ExitNext DEF Return
    <2> QED
      BY <1>1, <2>1, <2>2, <2>3, <2>4
  <1>2. CASE Validate \/ Notify \/ Spawn \/ Wait
    <2>1. Counted'
      BY <1>2 DEF Inv, Counted, Started, Validate, Notify, Spawn, Wait
    <2>2. Types' /\ Waits' /\ Ordered' /\ OnlySelfmonPanics'
      BY <1>2 DEF Inv, Types, Waits, Ordered, OnlySelfmonPanics,
                  Validate, Notify, Spawn, Wait
    <2> QED
      BY <2>1, <2>2 DEF Inv
  <1>3. CASE SelfmonInit \/ OutputInit \/ InitDiscovery
    <2>1. Counted'
      BY <1>3 DEF Inv, Counted, Started, SelfmonInit, OutputInit, InitDiscovery
    <2>2. Types' /\ Waits' /\ Ordered' /\ OnlySelfmonPanics'
      BY <1>3 DEF Inv, Types, Waits, Ordered, OnlySelfmonPanics, Service,
                  SelfmonInit, OutputInit, InitDiscovery
    <2> QED
      BY <2>1, <2>2 DEF Inv
  <1>4. ASSUME NEW g \in Group, StartCollection(g) PROVE Inv'
    <2>1. Counted'
      <3>1. g \notin Started /\ Started' = Started \cup {g}
        BY <1>4 DEF Inv, Types, Started, StartCollection
      <3>2. Cardinality(Started') = Cardinality(Started) + 1
        BY <3>1, StartedFinite, FS_AddElement
      <3> QED
        BY <1>4, <3>2 DEF Inv, Counted, StartCollection
    <2>2. Types' /\ Waits' /\ Ordered' /\ OnlySelfmonPanics'
      BY <1>4 DEF Inv, Types, Waits, Ordered, OnlySelfmonPanics, StartCollection
    <2> QED
      BY <2>1, <2>2 DEF Inv
  <1> QED
    BY <1>1, <1>2, <1>3, <1>4 DEF Main, InitConfig, Start

LEMMA ServeNext == ASSUME Inv, NEW t \in Service, Serve(t) PROVE Inv'
  <1> USE DEF groups
  <1>1. CASE Begin(t)
    <2>1. Counted'
      BY <1>1 DEF Inv, Counted, Started, Begin
    <2>2. Types' /\ Waits' /\ Ordered' /\ OnlySelfmonPanics'
      BY <1>1 DEF Inv, Types, Waits, Ordered, OnlySelfmonPanics, Service, Running, Begin
    <2> QED
      BY <2>1, <2>2 DEF Inv
  <1>2. CASE ZeroPeriod(t)
    BY <1>2, ExitNext DEF ZeroPeriod, Omitted
  <1>3. CASE SendMetrics(t)
    BY <1>3 DEF SendMetrics, vars, Inv, Types, Counted, Started, Waits, Ordered,
                OnlySelfmonPanics, Running
  <1>4. CASE NoBuffer(t)   \* of discovery the buffer is there already
    <2>1. ASSUME conf.omitted = {} PROVE loop["selfmon"] = "loop" /\ loop["output"] = "none"
      BY <1>4, <2>1 DEF NoBuffer, Buffered, Omitted, Service, Inv, Ordered
    <2> QED
      BY <1>4, <2>1, ExitNext DEF NoBuffer
  <1> QED
    BY <1>1, <1>2, <1>3, <1>4 DEF Serve

LEMMA SignalNext == Inv /\ (Select \/ Term \/ Hup \/ Panic) => Inv'
  <1> SUFFICES ASSUME Inv, Select \/ Term \/ Hup \/ Panic PROVE Inv'
    OBVIOUS
  <1> USE DEF groups
  <1>1. CASE Select \/ Hangup \/ Lost
    <2>1. Counted'
      BY <1>1 DEF Inv, Counted, Started, Select, Hangup, Lost, vars
    <2>2. Types' /\ Waits' /\ Ordered' /\ OnlySelfmonPanics'
      BY <1>1 DEF Inv, Types, Waits, Ordered, OnlySelfmonPanics, Running,
                  Select, Hangup, Lost, vars
    <2> QED
      BY <2>1, <2>2 DEF Inv
  <1>2. CASE Killed \/ Terminate
    BY <1>2, ExitNext DEF Killed, Terminate, Running
  <1>3. CASE Panic
    BY <1>3, ExitNext DEF Panic, Omitted
  <1> QED
    BY <1>1, <1>2, <1>3 DEF Term, Hup

LEMMA GroupNext == ASSUME Inv, NEW g \in Group, Tick(g) \/ Collect(g) PROVE Inv'
  <1>1. CASE ZeroQueryPeriod(g)
    BY <1>1, ExitNext DEF ZeroQueryPeriod, Omitted
  <1>2. CASE Tick(g) \/ BeginGroup(g) \/ ProcesQuery(g) \/ QueryDone(g)
    <2> USE DEF Tick, BeginGroup, ProcesQuery, QueryDone, Running
    <2>1. Types'
      <3>1. CASE Tick(g)
        BY <3>1 DEF Inv, Types
      <3>2. CASE BeginGroup(g)
        BY <3>2 DEF Inv, Types
      <3>3. CASE ProcesQuery(g)
        BY <3>3 DEF Inv, Types
      <3>4. CASE QueryDone(g)
        BY <3>4 DEF Inv, Types
      <3> QED
        BY <1>2, <3>1, <3>2, <3>3, <3>4
    <2>2. Started' = Started   \* no goroutine of a group ends
      BY <1>2 DEF Inv, Types, Started
    <2>3. Waits' /\ Ordered' /\ OnlySelfmonPanics'
      BY <1>2 DEF Inv, Types, Waits, Ordered, OnlySelfmonPanics
    <2> QED
      BY <1>2, <2>1, <2>2, <2>3 DEF Inv, Counted
  <1> QED
    BY <1>1, <1>2 DEF Collect

LEMMA InvAlways == Spec => []Inv
  <1>1. Inv /\ Next => Inv'
    BY MainNext, ServeNext, SignalNext, GroupNext DEF Next
  <1>2. Inv /\ UNCHANGED vars => Inv'
    BY DEF vars, Inv, Types, Counted, Started, Waits, Ordered, OnlySelfmonPanics, Running
  <1>3. QED
    BY <1>1, <1>2, InvInit, PTL DEF Spec

-----------------------------------------------------------------------------
(* The types, with the counter of the WaitGroup never above the number of   *)
(* groups and never negative, and an exit status exactly when the process    *)
(* has ended.                                                               *)
THEOREM TypeCorrect == Spec => []TypeOK
  BY InvAlways, TypesCounted, PTL DEF Inv

(* KeepsRunning: main waits for groups that never end, so that it returns    *)
(* only if there are none (agent.go:95, mgroup-processor.go:104-127).        *)
THEOREM KeepsRunningHolds == Spec => []KeepsRunning
  <1>1. Inv => KeepsRunning
    BY DEF Inv, Waits, KeepsRunning
  <1>2. QED
    BY <1>1, InvAlways, PTL

(* OnlySelfmonPanics: a complete configuration and databases that answer as  *)
(* expected leave one panic, that of a self monitor that runs before the     *)
(* output has made the buffer (agent.go:77-80).                             *)
THEOREM OnlySelfmonPanicsHolds == Spec => []OnlySelfmonPanics
  BY InvAlways, PTL DEF Inv
=============================================================================
