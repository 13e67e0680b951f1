--------------------------- MODULE CollectorProofs ----------------------------
(***************************************************************************)
(* Theorems of the two compositions. Collector, one process: for any number  *)
(* of instances, of metric groups and of connections, with any databases     *)
(* sick. ClusterElection, the collectors of several nodes: for clusters of   *)
(* any size whose members come and go at any moment, with any node's         *)
(* queries failing.                                                        *)
(***************************************************************************)
EXTENDS Collector, ClusterElection, SlicesProofs

(* A goroutine is in a call exactly while it is at a query, of an instance   *)
(* it knows; discovery is at the head of the list it works on.               *)
Calls == /\ call \in [Goroutines -> {"none", "wait", "run", "ok", "error"}]
         /\ dpc \in {"round", "new", "old", "delete", "lost", "same", "refresh"}
         /\ ppc \in [Proc -> {"tick", "names", "loop", "labels", "check", "query"}]
         /\ new \in Seq(Inst) /\ old \in Seq(Inst) /\ same \in Seq(Inst)
         /\ call[Discovery] # "none" <=> dpc = "refresh"
         /\ dpc = "refresh" => same # <<>>
         /\ dpc \in {"delete", "lost"} => old # <<>>
         /\ at \in [Proc -> Inst \cup {Nil}] /\ todo \in [Proc -> Seq(Inst)]
         /\ \A p \in Proc : /\ call[p] # "none" <=> ppc[p] = "query"
                            /\ ppc[p] \in {"labels", "check", "query"} => at[p] \in Inst

(* A connection belongs to a query that runs. *)
Connections ==
  /\ conns \in [Inst -> SUBSET Goroutines]
  /\ \A i \in Inst : /\ conns[i] = {g \in Goroutines : call[g] = "run" /\ Target(g) = i}
                     /\ IsFiniteSet(conns[i]) /\ Cardinality(conns[i]) <= MaxConns

(* The objects of a round: the new ones were never registered, the old ones   *)
(* were, and what was released has a closed pool for good.                   *)
Objects ==
  /\ list \in Seq(Inst) /\ IsInjective(list)
  /\ unborn \subseteq Inst /\ ToSet(list) \cap unborn = {}
  /\ dropped \subseteq Inst \ unborn
  /\ ToSet(list) \cap dropped = {} /\ ToSet(old) \cap dropped = {}
  /\ ToSet(new) \subseteq unborn /\ IsInjective(new)
  /\ ToSet(old) \cap unborn = {}
  /\ pool \in [Inst -> {"nil", "open", "closed"}]
  /\ down \subseteq Inst \ unborn /\ \A i \in down : pool[i] = "closed"
  /\ dpc \in {"delete", "lost"} => pool[Head(old)] = "closed"

(* After the last status a processor sends the result that is on its way,    *)
(* and then none is.                                                        *)
OnItsWay(p, i) == at[p] = i /\ call[p] \in {"run", "ok"}

Late == /\ late \in [Proc -> [Inst -> 0..1]]
        /\ \A p \in Proc, i \in Inst :
             late[p][i] = 1 => i \in down /\ ~OnItsWay(p, i)

Inv == Calls /\ Connections /\ Objects /\ Late

-----------------------------------------------------------------------------
LEMMA Parameters ==
  /\ Discovery \notin Proc /\ IsFiniteSet(Inst) /\ Nil \notin Inst
  /\ MaxConns \in Nat \ {0}
  BY CollectorAssumption

LEMMA TargetKnown ==
  ASSUME Calls, NEW g \in Goroutines, call[g] # "none"
  PROVE  Target(g) \in Inst
  <1>1. CASE g = Discovery
    BY <1>1, HeadTailProperties DEF Calls, Target
  <1>2. CASE g # Discovery
    BY <1>2 DEF Calls, Target, Goroutines
  <1> QED
    BY <1>1, <1>2

LEMMA InvTypeOK == Inv => TypeOK
  BY DEF Inv, Calls, Connections, Objects, TypeOK

LEMMA InvInit == Init => Inv
  <1> SUFFICES ASSUME Init PROVE Inv
    OBVIOUS
  <1>1. /\ \A S : <<>> \in Seq(S)
        /\ ToSet(<<>>) = {} /\ IsInjective(<<>>)
    <2>1. \A S : <<>> \in Seq(S)
      BY EmptySeq
    <2>2. DOMAIN <<>> = {}
      OBVIOUS
    <2> QED
      BY <2>1, <2>2 DEF ToSet, IsInjective
  <1>2. Calls
    BY <1>1, Parameters DEF Init, Calls, Goroutines
  <1>3. Connections
    <2>1. \A i \in Inst : {g \in Goroutines : call[g] = "run" /\ Target(g) = i} = {}
      BY DEF Init
    <2> QED
      BY <2>1, FS_EmptySet, Parameters DEF Init, Connections
  <1>4. Objects
    BY <1>1 DEF Init, Objects
  <1>5. Late
    BY DEF Init, Late
  <1> QED
    BY <1>2, <1>3, <1>4, <1>5 DEF Inv

-----------------------------------------------------------------------------
(* A call of a goroutine *)

LEMMA CallStepNext ==
  ASSUME Inv, NEW g \in Goroutines, NEW from, NEW to, NEW holders,
         CallStep(g, from, to, holders),
         from \subseteq {"wait", "run"}, to \in {"run", "ok", "error"},
         holders \subseteq Goroutines, IsFiniteSet(holders), Cardinality(holders) <= MaxConns,
         holders = IF to = "run" THEN conns[Target(g)] \cup {g} ELSE conns[Target(g)] \ {g},
         to = "run" => pool[Target(g)] = "open",
         to = "ok" => from = {"run"}
  PROVE  Inv'
  <1>1. /\ call[g] \in from /\ call[g] # "none"
        /\ call' = [call EXCEPT ![g] = to]
        /\ conns' = [conns EXCEPT ![Target(g)] = holders]
        /\ UNCHANGED <<unborn, list, pool, dropped, dpc, new, old, same, down, ppc, at, todo, left, late>>
        /\ Target(g) \in Inst
        /\ call \in [Goroutines -> {"none", "wait", "run", "ok", "error"}]
        /\ conns \in [Inst -> SUBSET Goroutines]
    BY TargetKnown DEF CallStep, db, disc, proc, Inv, Calls, Connections
  <1>2. /\ call' \in [Goroutines -> {"none", "wait", "run", "ok", "error"}]
        /\ call'[g] = to /\ \A h \in Goroutines : h # g => call'[h] = call[h]
    BY <1>1
  <1>3. Calls'
    <2>1. \A h \in Goroutines : call'[h] = "none" <=> call[h] = "none"
      BY <1>1, <1>2
    <2>2. Discovery \in Goroutines /\ Proc \subseteq Goroutines
      BY DEF Goroutines
    <2> QED
      BY <1>1, <1>2, <2>1, <2>2 DEF Inv, Calls
  <1>4. Connections'
    <2>1. \A h : Target(h)' = Target(h)
      BY <1>1 DEF Target
    <2>2. /\ conns' \in [Inst -> SUBSET Goroutines] /\ conns'[Target(g)] = holders
          /\ \A i \in Inst : i # Target(g) => conns'[i] = conns[i]
      BY <1>1
    <2>3. holders = {h \in Goroutines : call'[h] = "run" /\ Target(h) = Target(g)}
      BY <1>1, <1>2 DEF Inv, Connections
    <2>4. \A i \in Inst : i # Target(g) =>
            conns[i] = {h \in Goroutines : call'[h] = "run" /\ Target(h) = i}
      BY <1>1, <1>2 DEF Inv, Connections
    <2> QED
      BY <2>1, <2>2, <2>3, <2>4 DEF Inv, Connections
  <1>5. Objects'
    BY <1>1 DEF Inv, Objects
  <1>6. Late'   \* what is down has no connection to give
    <2> SUFFICES ASSUME NEW p \in Proc, NEW i \in Inst, late[p][i] = 1
                 PROVE  i \in down /\ ~OnItsWay(p, i)'
      BY <1>1 DEF Inv, Late
    <2>1. i \in down /\ ~OnItsWay(p, i) /\ pool[i] = "closed"
      BY DEF Inv, Late, Objects
    <2>2. CASE p # g
      BY <1>1, <1>2, <2>1, <2>2 DEF OnItsWay, Goroutines
    <2>3. CASE p = g
      <3>1. Target(g) = at[p]
        BY <2>3, Parameters DEF Target
      <3> QED
        BY <1>1, <1>2, <2>1, <2>3, <3>1 DEF OnItsWay
    <2> QED
      BY <2>1, <2>2, <2>3
  <1> QED
    BY <1>3, <1>4, <1>5, <1>6 DEF Inv

LEMMA CallNext ==
  ASSUME Inv, NEW g \in Goroutines, Call(g)
  PROVE  Inv'
  <1>1. /\ Target(g) \in Inst /\ conns[Target(g)] \subseteq Goroutines
        /\ IsFiniteSet(conns[Target(g)]) /\ Cardinality(conns[Target(g)]) \in Nat
        /\ Cardinality(conns[Target(g)]) <= MaxConns /\ MaxConns \in Nat
    <2>1. call[g] # "none"
      BY DEF Call, Acquire, Answer, Fail, CallStep
    <2> QED
      BY <2>1, TargetKnown, FS_CardinalityType, Parameters DEF Inv, Connections
  <1> DEFINE more == conns[Target(g)] \cup {g}
             less == conns[Target(g)] \ {g}
  <1>2. CASE Acquire(g)
    <2>1. g \notin conns[Target(g)]
      BY <1>1, <1>2 DEF Acquire, CallStep, Inv, Connections
    <2>2. IsFiniteSet(more) /\ Cardinality(more) <= MaxConns
      <3>1. /\ IsFiniteSet(more)
            /\ Cardinality(more) = IF g \in conns[Target(g)] THEN Cardinality(conns[Target(g)])
                                   ELSE Cardinality(conns[Target(g)]) + 1
        BY <1>1, FS_AddElement
      <3>2. Cardinality(conns[Target(g)]) < MaxConns
        BY <1>2 DEF Acquire
      <3> QED
        BY <1>1, <2>1, <3>1, <3>2
    <2> QED
      BY <1>1, <1>2, <2>2, CallStepNext DEF Acquire
  <1>3. CASE Answer(g) \/ Fail(g)
    <2>1. IsFiniteSet(less) /\ Cardinality(less) <= MaxConns
      <3>1. IsFiniteSet(less) /\ Cardinality(less) <= Cardinality(conns[Target(g)])
        BY <1>1, FS_Subset
      <3>2. Cardinality(less) \in Nat
        BY <3>1, FS_CardinalityType
      <3> QED
        BY <1>1, <3>1, <3>2
    <2>2. CASE Answer(g)
      BY <1>1, <2>1, <2>2, CallStepNext DEF Answer
    <2>3. CASE Fail(g)
      BY <1>1, <2>1, <2>3, CallStepNext DEF Fail
    <2> QED
      BY <1>3, <2>2, <2>3
  <1> QED
    BY <1>2, <1>3 DEF Call

-----------------------------------------------------------------------------
(* What is done between two calls: it leaves the connections, and the query   *)
(* that runs, alone.                                                        *)
LEMMA ConnectionsNext ==
  ASSUME Inv, UNCHANGED conns,
         \A g \in Goroutines : call'[g] = "run" <=> call[g] = "run",
         \A g \in Goroutines : call[g] = "run" => Target(g)' = Target(g)
  PROVE  Connections'
  <1>1. \A i \in Inst : {g \in Goroutines : call'[g] = "run" /\ Target(g)' = i}
                       = {g \in Goroutines : call[g] = "run" /\ Target(g) = i}
    OBVIOUS
  <1> QED
    BY <1>1 DEF Inv, Connections

LEMMA LateNext ==
  ASSUME Inv, UNCHANGED late, down \subseteq down',
         \A p \in Proc, i \in Inst : OnItsWay(p, i)' => OnItsWay(p, i)
  PROVE  Late'
  BY DEF Inv, Late

(* Discovery *)

LEMMA DiscoverConnections ==
  ASSUME Inv, UNCHANGED <<conns, at>>,
         \A p \in Proc : call'[p] = call[p],
         call[Discovery] # "run", call'[Discovery] # "run"
  PROVE  Connections'
  BY ConnectionsNext, Parameters DEF Goroutines, Target

LEMMA RoundNext == Inv /\ Round => Inv'
  <1> SUFFICES ASSUME Inv, Round PROVE Inv'
    OBVIOUS
  <1>1. /\ dpc = "round" /\ dpc' = "new"
        /\ UNCHANGED <<call, down, conns, unborn, list, pool, dropped, ppc, at, todo, left, late>>
        /\ list \in Seq(Inst)
    BY DEF Round, DStep, db, proc, Inv, Objects
  <1>2. PICK lost \in SUBSET ToSet(list), found \in SUBSET unborn :
          old' = Filter(list, lost) /\ same' = Filter(list, Inst \ lost) /\ new' \in SetToSeqs(found)
    BY DEF Round
  <1>3. new' \in Seq(Inst) /\ ToSet(new') \subseteq found /\ IsInjective(new')
    <2> DEFINE c == Cardinality(found)
    <2>1. found \subseteq Inst /\ c \in Nat
      <3>1. found \in SUBSET Inst
        BY DEF Inv, Objects
      <3> QED
        BY <3>1, Parameters, FS_Subset, FS_CardinalityType
    <2>2. new' \in [1..c -> found] /\ \A i, j \in 1..c : i # j => new'[i] # new'[j]
      BY <1>2 DEF SetToSeqs
    <2> HIDE DEF c
    <2>3. new' \in [1..c -> Inst]
      BY <2>1, <2>2
    <2> QED
      BY <2>1, <2>2, <2>3, SeqDef DEF ToSet, IsInjective
  <1>4. /\ old' \in Seq(Inst) /\ same' \in Seq(Inst)
        /\ ToSet(old') \subseteq ToSet(list)
    BY <1>1, <1>2, FilterProperties
  <1>5. Calls'
    BY <1>1, <1>3, <1>4 DEF Inv, Calls
  <1>6. Connections'
    <2>1. call[Discovery] = "none"
      BY <1>1 DEF Inv, Calls, Goroutines
    <2> QED
      BY <1>1, <2>1, DiscoverConnections
  <1>7. Objects'
    BY <1>1, <1>2, <1>3, <1>4 DEF Inv, Objects
  <1>8. Late'
    BY <1>1, LateNext DEF OnItsWay
  <1> QED
    BY <1>5, <1>6, <1>7, <1>8 DEF Inv

LEMMA InitNext == Inv /\ (InitOk \/ InitError) => Inv'
  <1> SUFFICES ASSUME Inv, InitOk \/ InitError PROVE Inv'
    OBVIOUS
  <1>1. /\ dpc = "new" /\ dpc' = "new" /\ new # <<>> /\ new' = Tail(new)
        /\ UNCHANGED <<call, old, same, down, conns, ppc, at, todo, left, late>>
        /\ new \in Seq(Inst) /\ list \in Seq(Inst)
    BY DEF InitOk, InitError, DStep, proc, Inv, Calls, Objects
  <1> DEFINE i == Head(new)
  <1>2. /\ i \in Inst /\ new' \in Seq(Inst) /\ IsInjective(new')
        /\ i \in unborn /\ ToSet(new') \subseteq unborn \ {i}
    BY <1>1, TailProperties DEF Inv, Objects
  <1>3. Calls'
    BY <1>1, <1>2 DEF Inv, Calls
  <1>4. Connections'
    <2>1. call[Discovery] = "none"
      BY <1>1 DEF Inv, Calls, Goroutines
    <2> QED
      BY <1>1, <2>1, DiscoverConnections
  <1>5. Objects'
    <2>1. CASE InitOk
      <3>1. /\ pool' = [pool EXCEPT ![i] = "open"] /\ list' = Append(list, i)
            /\ unborn' = unborn \ {i} /\ UNCHANGED dropped
        BY <2>1 DEF InitOk
      <3>2. /\ list' \in Seq(Inst) /\ ToSet(list') = ToSet(list) \cup {i} /\ IsInjective(list')
        <4>1. i \notin ToSet(list)
          BY <1>2 DEF Inv, Objects
        <4> QED
          BY <1>1, <1>2, <3>1, <4>1, AppendSet DEF Inv, Objects
      <3> HIDE DEF i
      <3> QED   \* what is down was registered, and is not i
        BY <1>1, <1>2, <3>1, <3>2 DEF Inv, Objects
    <2>2. CASE InitError /\ UNCHANGED db
      BY <1>1, <1>2, <2>2 DEF db, Inv, Objects
    <2>3. CASE InitError /\ ~UNCHANGED db   \* i was in no list but new
      <3>1. /\ pool' = [pool EXCEPT ![i] = "open"] /\ dropped' = dropped \cup {i}
            /\ unborn' = unborn \ {i} /\ UNCHANGED list
        BY <2>3 DEF InitError
      <3>2. i \notin ToSet(list) /\ i \notin ToSet(old)
        BY <1>2 DEF Inv, Objects
      <3> HIDE DEF i
      <3> QED
        BY <1>1, <1>2, <3>1, <3>2 DEF Inv, Objects
    <2> QED
      BY <2>1, <2>2, <2>3
  <1>6. Late'
    BY <1>1, LateNext DEF OnItsWay
  <1> QED
    BY <1>3, <1>4, <1>5, <1>6 DEF Inv

LEMMA OldNext == Inv /\ (End \/ Delete \/ SendLost) => Inv'
  <1> SUFFICES ASSUME Inv, End \/ Delete \/ SendLost PROVE Inv'
    OBVIOUS
  <1> DEFINE i == Head(old)
  <1>1. /\ dpc \in {"old", "delete", "lost"} /\ dpc' \in {"old", "delete", "lost"}
        /\ old # <<>> /\ old \in Seq(Inst)
        /\ UNCHANGED <<unborn, call, new, same, conns, ppc, at, left, late>>
    BY DEF End, Delete, SendLost, DStep, db, proc, Inv, Calls
  <1>2. /\ i \in Inst /\ i \in ToSet(old) /\ i \notin unborn
        /\ Tail(old) \in Seq(Inst) /\ ToSet(Tail(old)) \subseteq ToSet(old)
    BY <1>1, TailProperties DEF Inv, Objects
  <1> HIDE DEF i
  <1>3. Connections'
    <2>1. call[Discovery] = "none"
      BY <1>1 DEF Inv, Calls, Goroutines
    <2> QED
      BY <1>1, <2>1, DiscoverConnections
  <1>4. Late'
    <2>1. down \subseteq down'
      BY DEF End, Delete, SendLost, db
    <2> QED
      BY <1>1, <2>1, LateNext DEF OnItsWay
  <1>5. CASE End
    <2>1. Calls'
      BY <1>1, <1>5 DEF End, DStep, proc, Inv, Calls
    <2>2. Objects'
      <3>1. pool' = [pool EXCEPT ![i] = "closed"] /\ UNCHANGED <<list, old, down, dropped>>
        BY <1>5 DEF End, i
      <3>2. pool'[Head(old')] = "closed"
        BY <3>1, <1>2 DEF i, Inv, Objects
      <3> QED
        BY <1>1, <1>2, <3>1, <3>2 DEF Inv, Objects
    <2> QED
      BY <1>3, <1>4, <2>1, <2>2 DEF Inv
  <1>6. CASE Delete
    <2>1. todo' \in [Proc -> Seq(Inst)]
      <3>1. ASSUME NEW w \in Seq(Inst), NEW t \in Overtaken(w, i) PROVE t \in Seq(Inst)
        <4>1. CASE w = <<>>
          BY <4>1, <3>1 DEF Overtaken
        <4>2. CASE w # <<>>
          <5>1. Last(w) \in Inst
            <6>1. Len(w) \in 1..Len(w)
              BY <4>2, EmptySeq
            <6> QED
              BY <6>1, ElementOfSeq DEF Last
          <5>2. Filter(w, Inst \ {i}) \in Seq(Inst) /\ Tail(w) \in Seq(Inst)
            BY <4>2, FilterProperties, HeadTailProperties
          <5>3. Append(Filter(w, Inst \ {i}), Last(w)) \in Seq(Inst)
            BY <5>1, <5>2, AppendProperties
          <5>4. Append(Tail(w), Last(w)) \in Seq(Inst)
            BY <5>1, <5>2, AppendProperties
          <5> QED
            BY <3>1, <4>2, <5>3, <5>4 DEF Overtaken
        <4> QED
          BY <4>1, <4>2
      <3>2. /\ todo' \in [Proc -> UNION {Overtaken(todo[p], i) : p \in Proc}]
            /\ \A p \in Proc : todo'[p] \in IF p \in Filtered THEN {todo[p]}
                                            ELSE Overtaken(todo[p], i)
        BY <1>6 DEF Delete, i
      <3>3. \A p \in Proc : todo'[p] \in Seq(Inst)
        BY <3>1, <3>2 DEF Inv, Calls
      <3> QED
        BY <3>2, <3>3
    <2>2. Calls'
      BY <1>1, <1>6, <2>1 DEF Delete, DStep, Inv, Calls
    <2>3. Objects'
      <3>1. dpc = "delete" /\ list' = Filter(list, Inst \ {i}) /\ UNCHANGED <<pool, old, down, dropped>>
        BY <1>6 DEF Delete, DStep, i
      <3>2. /\ list' \in Seq(Inst) /\ ToSet(list') \subseteq ToSet(list) /\ IsInjective(list')
        BY <3>1, FilterProperties DEF Inv, Objects
      <3> QED
        BY <1>1, <3>1, <3>2 DEF Inv, Objects
    <2> QED
      BY <1>3, <1>4, <2>2, <2>3 DEF Inv
  <1>7. CASE SendLost
    <2>1. dpc = "lost" /\ dpc' = "old" /\ old' = Tail(old) /\ down' = down \cup {i}
          /\ UNCHANGED <<list, pool, dropped, todo>>
      BY <1>7 DEF SendLost, DStep, db, proc, i
    <2>2. Calls'
      BY <1>1, <1>2, <2>1 DEF Inv, Calls
    <2>3. Objects'
      <3>1. pool[i] = "closed"
        BY <2>1 DEF i, Inv, Objects
      <3> QED
        BY <1>1, <1>2, <2>1, <3>1 DEF Inv, Objects
    <2> QED
      BY <1>3, <1>4, <2>2, <2>3 DEF Inv
  <1> QED
    BY <1>5, <1>6, <1>7

LEMMA SameNext == Inv /\ (UpdateInfo \/ SendSame \/ NextList) => Inv'
  <1> SUFFICES ASSUME Inv, UpdateInfo \/ SendSame \/ NextList PROVE Inv'
    OBVIOUS
  <1>1. /\ UNCHANGED <<unborn, list, pool, dropped, conns, new, old, down, ppc, at, todo, left, late>>
        /\ same \in Seq(Inst) /\ call \in [Goroutines -> {"none", "wait", "run", "ok", "error"}]
    BY DEF UpdateInfo, SendSame, NextList, DStep, db, proc, Inv, Calls
  <1>2. /\ call[Discovery] # "run" /\ call'[Discovery] # "run"
        /\ \A p \in Proc : call'[p] = call[p]
        /\ call' \in [Goroutines -> {"none", "wait", "run", "ok", "error"}]
        /\ dpc' \in {"round", "new", "old", "same", "refresh"}
        /\ call'[Discovery] # "none" <=> dpc' = "refresh"
    BY <1>1, Parameters
       DEF UpdateInfo, SendSame, NextList, DStep, Inv, Calls, Goroutines
  <1>3. same' \in Seq(Inst) /\ (dpc' = "refresh" => same' # <<>>)
    <2>1. CASE UpdateInfo \/ NextList
      BY <2>1 DEF UpdateInfo, NextList, DStep, Inv, Calls
    <2>2. CASE SendSame
      BY <2>2, <1>1, HeadTailProperties DEF SendSame, DStep, Inv, Calls
    <2> QED
      BY <2>1, <2>2
  <1>4. Calls'
    BY <1>1, <1>2, <1>3 DEF Inv, Calls
  <1>5. Connections'
    BY <1>1, <1>2, DiscoverConnections
  <1>6. Objects'
    BY <1>1, <1>2 DEF Inv, Objects
  <1>7. Late'
    BY <1>1, <1>2, LateNext DEF OnItsWay
  <1> QED
    BY <1>4, <1>5, <1>6, <1>7 DEF Inv

-----------------------------------------------------------------------------
(* A processor *)

LEMMA ProcesQueryNext ==
  ASSUME Inv, NEW p \in Proc, ProcesQuery(p)
  PROVE  Inv'
  <1>1. /\ UNCHANGED <<conns, unborn, list, pool, dropped, dpc, new, old, same, down>>
        /\ p \in Goroutines /\ p # Discovery
    BY Parameters
       DEF ProcesQuery, Getter, UpdateInstances, GetInstanceName, NamesDone, Visit, GetExtraLabels,
           Query, SendRows, QueryError, Leave, EndLoop, PStep, db, disc, Goroutines
  <1>2. /\ call \in [Goroutines -> {"none", "wait", "run", "ok", "error"}]
        /\ ppc \in [Proc -> {"tick", "names", "loop", "labels", "check", "query"}]
        /\ at \in [Proc -> Inst \cup {Nil}] /\ todo \in [Proc -> Seq(Inst)]
        /\ call[p] # "none" <=> ppc[p] = "query"
        /\ ppc[p] \in {"labels", "check", "query"} => at[p] \in Inst
    BY DEF Inv, Calls
  <1>3. Objects'
    BY <1>1 DEF Inv, Objects
  <1> DEFINE Alone ==   \* of the others nothing changes
               /\ call' \in [Goroutines -> {"none", "wait", "run", "ok", "error"}]
               /\ ppc' \in [Proc -> {"tick", "names", "loop", "labels", "check", "query"}]
               /\ at' \in [Proc -> Inst \cup {Nil}] /\ todo' \in [Proc -> Seq(Inst)]
               /\ \A g \in Goroutines : g # p => call'[g] = call[g]
               /\ \A q \in Proc : q # p => ppc'[q] = ppc[q] /\ at'[q] = at[q]
               /\ call[p] # "run" /\ call'[p] \notin {"run", "ok"}
               /\ call'[p] # "none" <=> ppc'[p] = "query"
               /\ ppc'[p] \in {"labels", "check", "query"} => at'[p] \in Inst
  <1>4. ASSUME Alone PROVE Calls' /\ Connections'
    <2> HIDE <1>2
    <2>1. Calls'
      BY <1>1, <1>4 DEF Inv, Calls, Goroutines
    <2>2. Connections'
      <3>1. \A g \in Goroutines : call'[g] = "run" <=> call[g] = "run"
        BY <1>4
      <3>2. \A g \in Goroutines : call[g] = "run" => Target(g)' = Target(g)
        BY <1>1, <1>4 DEF Target, Goroutines
      <3> QED
        BY <1>1, <3>1, <3>2, ConnectionsNext
    <2> QED
      BY <2>1, <2>2
  <1>5. ASSUME Alone, UNCHANGED late PROVE Late'
    BY <1>1, <1>5, LateNext DEF OnItsWay, Goroutines
  <1>6. CASE UpdateInstances(p) \/ Visit(p)
    <2>1. todo' \in [Proc -> Seq(Inst)]
      <3>1. CASE UpdateInstances(p)
        <4>1. Filter(list, {i \in Inst : Accepts(p, i)}) \in Seq(Inst)
          BY FilterProperties DEF Inv, Objects
        <4> QED
          BY <1>2, <3>1, <4>1 DEF UpdateInstances
      <3>2. CASE Visit(p)
        <4>1. Tail(todo[p]) \in Seq(Inst)
          BY <1>2, <3>2, HeadTailProperties DEF Visit
        <4> QED
          BY <1>2, <3>2, <4>1 DEF Visit
      <3> QED
        BY <1>6, <3>1, <3>2
    <2>2. CASE UpdateInstances(p)
      <3>1. Alone /\ UNCHANGED late
        BY <1>1, <1>2, <2>1, <2>2 DEF UpdateInstances, PStep
      <3> QED
        BY <3>1, <1>3, <1>4, <1>5 DEF Inv
    <2>3. CASE Visit(p)
      <3>1. Head(todo[p]) \in Inst
        BY <1>2, <2>3, HeadTailProperties DEF Visit
      <3>2. Alone /\ UNCHANGED late
        BY <1>1, <1>2, <2>1, <2>3, <3>1 DEF Visit, PStep
      <3> QED
        BY <3>2, <1>3, <1>4, <1>5 DEF Inv
    <2> QED
      BY <1>6, <2>2, <2>3
  <1>7. CASE GetInstanceName(p) \/ NamesDone(p) \/ GetExtraLabels(p) \/ EndLoop(p)
    <2>1. Alone /\ UNCHANGED late
      BY <1>1, <1>2, <1>7 DEF GetInstanceName, NamesDone, GetExtraLabels, EndLoop, PStep
    <2> QED
      BY <2>1, <1>3, <1>4, <1>5 DEF Inv
  <1>8. CASE Query(p) \/ QueryError(p) \/ Leave(p)
    <2>1. Alone /\ UNCHANGED late
      BY <1>1, <1>2, <1>8 DEF Query, QueryError, Leave, PStep
    <2> QED
      BY <2>1, <1>3, <1>4, <1>5 DEF Inv
  <1>9. CASE SendRows(p)
    <2>1. /\ call[p] = "ok" /\ call' = [call EXCEPT ![p] = "none"] /\ UNCHANGED <<at, todo>>
          /\ late' = IF at[p] \in down THEN [late EXCEPT ![p][at[p]] = @ + 1] ELSE late
          /\ at[p] \in Inst
      BY <1>2, <1>9 DEF SendRows, PStep
    <2>2. Alone
      BY <1>1, <1>2, <1>9 DEF SendRows, PStep
    <2>3. Late'   \* it is the first one, and none follows
      <3>1. late \in [Proc -> [Inst -> 0..1]] /\ (at[p] \in down => late[p][at[p]] = 0)
        BY <2>1 DEF Inv, Late, OnItsWay
      <3>2. late' \in [Proc -> [Inst -> 0..1]]
        BY <2>1, <3>1
      <3> SUFFICES ASSUME NEW q \in Proc, NEW i \in Inst, late'[q][i] = 1
                   PROVE  i \in down' /\ ~OnItsWay(q, i)'
        BY <3>2 DEF Late
      <3>3. CASE q = p /\ i = at[p] /\ at[p] \in down
        BY <1>1, <1>2, <2>1, <3>3 DEF OnItsWay
      <3>4. CASE ~(q = p /\ i = at[p] /\ at[p] \in down)
        <4>1. late[q][i] = 1
          BY <2>1, <3>1, <3>4
        <4>2. i \in down /\ ~OnItsWay(q, i)
          BY <4>1 DEF Inv, Late
        <4> QED
          BY <1>1, <1>2, <2>1, <2>2, <4>2 DEF OnItsWay, Goroutines
      <3> QED
        BY <3>3, <3>4
    <2> QED
      BY <2>2, <2>3, <1>3, <1>4 DEF Inv
  <1> QED
    BY <1>6, <1>7, <1>8, <1>9 DEF ProcesQuery, Getter

-----------------------------------------------------------------------------
LEMMA InvAlways == Spec => []Inv
  <1>1. Inv /\ Next => Inv'
    BY CallNext, RoundNext, InitNext, OldNext, SameNext, ProcesQueryNext DEF Next, Discover
  <1>2. Inv /\ UNCHANGED vars => Inv'
    BY DEF vars, Inv, Calls, Connections, Objects, Late, OnItsWay, Target
  <1>3. QED
    BY <1>1, <1>2, InvInit, PTL DEF Spec

(* TypeOK: the connections in use are those of the queries that run, and at   *)
(* most MaxConns for a database, whichever calls fail, wait or find the pool   *)
(* closed (oracle-instance.go:183-214, sqlx.go).                             *)
THEOREM TypeCorrect == Spec => []TypeOK
  BY InvAlways, InvTypeOK, PTL

(* AtMostOneLate: after the last status of an instance each processor sends   *)
(* at most the one result that was on its way when discovery closed the pool. *)
THEOREM AtMostOneLateHolds == Spec => []AtMostOneLate
  <1>1. Inv => AtMostOneLate
    <2> SUFFICES ASSUME Inv, NEW p \in Proc, NEW i \in Inst PROVE late[p][i] <= 1
      BY DEF AtMostOneLate
    <2>1. late[p][i] \in 0..1
      BY DEF Inv, Late
    <2> QED
      BY <2>1
  <1>2. QED
    BY <1>1, InvAlways, PTL
-----------------------------------------------------------------------------
(* Whose pool is open. Strengthened with where the objects of a round and of  *)
(* a processor come from: discovery refreshes what it does not delete, and   *)
(* nobody but discovery knows an object before it is registered.             *)
Pools ==
  \A i \in Inst :
    /\ pool[i] = "nil" <=> i \in unborn
    /\ pool[i] = "open" <=> \/ i \in ToSet(list) /\ ~(dpc = "delete" /\ i = Head(old))
                           \/ i \in dropped

Private == unborn \cup dropped

Known ==
  /\ ToSet(same) \subseteq ToSet(list) /\ ToSet(same) \cap ToSet(old) = {}
  /\ \A p \in Proc : ToSet(todo[p]) \cap Private = {} /\ at[p] \notin Private

(* A processor may call a pool that is closed, which answers with an error,  *)
(* but none that was never opened, nor one that a failed Init left open;     *)
(* discovery refreshes open ones of registered objects only.                *)
Called ==
  /\ \A p \in Proc : call[p] # "none" => /\ pool[at[p]] \in {"open", "closed"}
                                         /\ at[p] \notin dropped
  /\ dpc = "refresh" => pool[Head(same)] = "open" /\ Head(same) \notin dropped

LEMMA KnownCalled == Inv /\ Pools /\ Known => Called
  <1> SUFFICES ASSUME Inv, Pools, Known PROVE Called
    OBVIOUS
  <1>1. ASSUME NEW p \in Proc, call[p] # "none"
        PROVE  pool[at[p]] \in {"open", "closed"} /\ at[p] \notin dropped
    <2>1. at[p] \in Inst /\ at[p] \notin unborn /\ at[p] \notin dropped
      BY <1>1 DEF Inv, Calls, Known, Private
    <2> QED
      BY <2>1 DEF Inv, Objects, Pools
  <1>2. ASSUME dpc = "refresh"
        PROVE  pool[Head(same)] = "open" /\ Head(same) \notin dropped
    <2>1. same # <<>> /\ same \in Seq(Inst)
      BY <1>2 DEF Inv, Calls
    <2>2. Head(same) \in Inst /\ Head(same) \in ToSet(list)
      BY <2>1, TailProperties DEF Known
    <2> QED
      BY <1>2, <2>2 DEF Pools, Inv, Objects
  <1> QED
    BY <1>1, <1>2 DEF Called

LEMMA OvertakenSet ==
  ASSUME NEW w \in Seq(Inst), NEW i \in Inst, NEW t \in Overtaken(w, i)
  PROVE  ToSet(t) \subseteq ToSet(w)
  <1>1. CASE t = w
    BY <1>1
  <1>2. CASE w # <<>> /\ t = Append(IF Contains(w, i) THEN Filter(w, Inst \ {i}) ELSE Tail(w), Last(w))
    <2> DEFINE rest == IF Contains(w, i) THEN Filter(w, Inst \ {i}) ELSE Tail(w)
    <2>1. Last(w) \in Inst /\ Last(w) \in ToSet(w)
      <3>1. Len(w) \in DOMAIN w
        BY <1>2, EmptySeq, LenProperties
      <3> QED
        BY <3>1, ElementOfSeq DEF Last, ToSet
    <2>2. rest \in Seq(Inst) /\ ToSet(rest) \subseteq ToSet(w)
      BY <1>2, FilterProperties, TailProperties
    <2>3. t = Append(rest, Last(w))
      BY <1>2
    <2> HIDE DEF rest
    <2> QED
      BY <2>1, <2>2, <2>3, AppendSet
  <1> QED
    BY <1>1, <1>2 DEF Overtaken

LEMMA PoolsDiscover == Inv /\ Pools /\ Known /\ Discover => Pools' /\ Known'
  <1> SUFFICES ASSUME Inv, Pools, Known, Discover PROVE Pools' /\ Known'
    OBVIOUS
  <1>1. /\ new \in Seq(Inst) /\ old \in Seq(Inst) /\ same \in Seq(Inst) /\ list \in Seq(Inst)
        /\ ToSet(new) \subseteq unborn /\ unborn \subseteq Inst /\ ToSet(old) \cap unborn = {}
        /\ pool \in [Inst -> {"nil", "open", "closed"}]
        /\ todo \in [Proc -> Seq(Inst)] /\ dropped \subseteq Inst
        /\ ToSet(list) \cap dropped = {} /\ ToSet(old) \cap dropped = {}
    BY DEF Inv, Calls, Objects
  <1>2. CASE Round
    <2>1. /\ dpc = "round" /\ dpc' = "new" /\ UNCHANGED <<unborn, list, pool, dropped, at, todo>>
      BY <1>2 DEF Round, DStep, db, proc
    <2>2. PICK lost \in SUBSET ToSet(list) :
            old' = Filter(list, lost) /\ same' = Filter(list, Inst \ lost)
      BY <1>2 DEF Round
    <2>3. /\ ToSet(old') = ToSet(list) \cap lost
          /\ ToSet(same') = ToSet(list) \cap (Inst \ lost)
      BY <1>1, <2>2, FilterProperties
    <2> QED
      BY <2>1, <2>3 DEF Pools, Known, Private
  <1>3. CASE InitOk
    <2> DEFINE i == Head(new)
    <2>1. /\ dpc = "new" /\ dpc' = "new" /\ new # <<>>
          /\ pool' = [pool EXCEPT ![i] = "open"] /\ list' = Append(list, i)
          /\ unborn' = unborn \ {i} /\ UNCHANGED <<dropped, old, same, at, todo>>
      BY <1>3 DEF InitOk, DStep, proc
    <2>2. i \in Inst /\ i \in unborn
      BY <1>1, <2>1, TailProperties
    <2>3. ToSet(list') = ToSet(list) \cup {i}
      BY <1>1, <2>1, <2>2, AppendSet
    <2> HIDE DEF i
    <2> QED
      BY <1>1, <2>1, <2>2, <2>3 DEF Pools, Known, Private
  <1>4. CASE End
    <2> DEFINE i == Head(old)
    <2>1. /\ dpc = "old" /\ dpc' = "delete" /\ old # <<>>
          /\ pool' = [pool EXCEPT ![i] = "closed"]
          /\ UNCHANGED <<unborn, list, dropped, old, same, at, todo>>
      BY <1>4 DEF End, DStep, proc
    <2>2. i \in Inst /\ i \notin unborn
      BY <1>1, <2>1, TailProperties
    <2>3. i = Head(old')
      BY <2>1
    <2> HIDE DEF i
    <2>4. Pools'
      <3>1. i \notin dropped
        BY <1>1, <2>1, TailProperties DEF i
      <3> QED
        BY <1>1, <2>1, <2>2, <2>3, <3>1 DEF Pools
    <2> QED
      BY <2>1, <2>4 DEF Known, Private
  <1>5. CASE Delete
    <2> DEFINE i == Head(old)
    <2>1. /\ dpc = "delete" /\ dpc' = "lost" /\ old # <<>>
          /\ list' = Filter(list, Inst \ {i})
          /\ UNCHANGED <<unborn, pool, dropped, old, same, at>>
          /\ todo' \in [Proc -> UNION {Overtaken(todo[p], i) : p \in Proc}]
          /\ \A p \in Proc : todo'[p] \in IF p \in Filtered THEN {todo[p]}
                                          ELSE Overtaken(todo[p], i)
      <3>1. old # <<>>
        BY <1>5 DEF Delete, DStep, Inv, Calls
      <3> QED
        BY <1>5, <3>1 DEF Delete, DStep
    <2>2. i \in Inst /\ i \in ToSet(old)
      BY <1>1, <2>1, TailProperties
    <2>3. ToSet(list') = ToSet(list) \cap (Inst \ {i})
      BY <1>1, <2>1, FilterProperties
    <2>4. \A p \in Proc : ToSet(todo'[p]) \subseteq ToSet(todo[p])
      <3> SUFFICES ASSUME NEW p \in Proc PROVE ToSet(todo'[p]) \subseteq ToSet(todo[p])
        OBVIOUS
      <3>1. todo[p] \in Seq(Inst)
        BY <1>1
      <3>2. todo'[p] = todo[p] \/ todo'[p] \in Overtaken(todo[p], i)
        BY <2>1
      <3> HIDE DEF i
      <3> QED
        BY <2>2, <3>1, <3>2, OvertakenSet
    <2>5. Pools'
      <3>1. \A j \in Inst : j \in ToSet(list') <=> j \in ToSet(list) /\ j # i
        BY <2>3
      <3> QED
        BY <2>1, <3>1 DEF Pools
    <2>6. ToSet(same) \subseteq Inst
      BY <1>1 DEF ToSet
    <2>7. ToSet(same') \subseteq ToSet(list') /\ ToSet(same') \cap ToSet(old') = {}
      BY <2>1, <2>2, <2>3, <2>6 DEF Known
    <2> HIDE DEF i
    <2>8. \A p \in Proc : ToSet(todo'[p]) \cap Private' = {} /\ at'[p] \notin Private'
      BY <2>1, <2>4 DEF Known, Private
    <2> QED
      BY <2>5, <2>7, <2>8 DEF Known
  <1>6. CASE SendLost
    <2>1. /\ dpc = "lost" /\ dpc' = "old" /\ old # <<>> /\ old' = Tail(old)
          /\ UNCHANGED <<unborn, list, pool, dropped, same, at, todo>>
      BY <1>6 DEF SendLost, DStep, db, proc, Inv, Calls
    <2>2. ToSet(old') \subseteq ToSet(old)
      BY <1>1, <2>1, TailProperties
    <2> QED
      BY <2>1, <2>2 DEF Pools, Known, Private
  <1>7. CASE (InitError /\ UNCHANGED db) \/ UpdateInfo \/ NextList
    <2>1. /\ dpc # "delete" /\ dpc' # "delete"
          /\ UNCHANGED <<unborn, list, pool, dropped, old, same, at, todo>>
      BY <1>7 DEF InitError, UpdateInfo, NextList, DStep, db, proc
    <2> QED
      BY <2>1 DEF Pools, Known, Private
  <1>8. CASE SendSame
    <2>1. /\ dpc = "refresh" /\ dpc' = "same" /\ same # <<>> /\ same' = Tail(same)
          /\ UNCHANGED <<unborn, list, pool, dropped, old, at, todo>>
      BY <1>8 DEF SendSame, DStep, db, proc, Inv, Calls
    <2>2. ToSet(same') \subseteq ToSet(same)
      BY <1>1, <2>1, TailProperties
    <2> QED
      BY <2>1, <2>2 DEF Pools, Known, Private
  <1>9. CASE InitError /\ ~UNCHANGED db
    <2> DEFINE i == Head(new)
    <2>1. /\ dpc = "new" /\ dpc' = "new" /\ new # <<>>
          /\ pool' = [pool EXCEPT ![i] = "open"] /\ dropped' = dropped \cup {i}
          /\ unborn' = unborn \ {i} /\ UNCHANGED <<list, old, same, at, todo>>
      BY <1>9 DEF InitError, DStep, proc
    <2>2. i \in Inst /\ i \in unborn
      BY <1>1, <2>1, TailProperties
    <2> HIDE DEF i
    <2>3. Private' = Private   \* which was private before
      BY <2>1, <2>2 DEF Private
    <2> QED
      BY <1>1, <2>1, <2>2, <2>3 DEF Pools, Known
  <1> QED
    BY <1>2, <1>3, <1>4, <1>5, <1>6, <1>7, <1>8, <1>9 DEF Discover

LEMMA PoolsProcesQuery ==
  ASSUME Inv, Pools, Known, NEW p \in Proc, ProcesQuery(p)
  PROVE  Pools' /\ Known'
  <1>1. UNCHANGED <<unborn, list, pool, dropped, dpc, old, same>>
    BY DEF ProcesQuery, Getter, UpdateInstances, GetInstanceName, NamesDone, Visit, GetExtraLabels,
           Query, SendRows, QueryError, Leave, EndLoop, PStep, db, disc
  <1>2. /\ list \in Seq(Inst) /\ ToSet(list) \cap Private = {} /\ Private \subseteq Inst
        /\ todo \in [Proc -> Seq(Inst)] /\ at \in [Proc -> Inst \cup {Nil}]
    BY DEF Inv, Calls, Objects, Private
  <1>3. Pools'
    BY <1>1 DEF Pools
  <1>4. CASE UpdateInstances(p)
    <2> DEFINE mine == Filter(list, {i \in Inst : Accepts(p, i)})
    <2>1. ToSet(mine) \subseteq ToSet(list)
      BY <1>2, FilterProperties
    <2>2. todo' = [todo EXCEPT ![p] = mine] /\ UNCHANGED at
      BY <1>4 DEF UpdateInstances
    <2> HIDE DEF mine
    <2>3. \A q \in Proc : ToSet(todo'[q]) \cap Private = {}
      BY <1>2, <2>1, <2>2 DEF Known, Private
    <2> QED
      BY <1>1, <1>3, <2>2, <2>3 DEF Known, Private
  <1>5. CASE Visit(p)
    <2>1. /\ todo[p] \in Seq(Inst) /\ todo[p] # <<>>
          /\ at' = [at EXCEPT ![p] = Head(todo[p])] /\ todo' = [todo EXCEPT ![p] = Tail(todo[p])]
      BY <1>2, <1>5 DEF Visit
    <2>2. Head(todo[p]) \in ToSet(todo[p]) /\ ToSet(Tail(todo[p])) \subseteq ToSet(todo[p])
      BY <2>1, TailProperties
    <2>3. ToSet(todo[p]) \cap Private = {}
      BY DEF Known, Private
    <2>4. \A q \in Proc : ToSet(todo'[q]) \cap Private = {} /\ at'[q] \notin Private
      <3> SUFFICES ASSUME NEW q \in Proc PROVE ToSet(todo'[q]) \cap Private = {} /\ at'[q] \notin Private
        OBVIOUS
      <3>1. CASE q = p
        <4>1. todo'[q] = Tail(todo[p]) /\ at'[q] = Head(todo[p])
          BY <1>2, <2>1, <3>1
        <4> QED
          BY <2>2, <2>3, <4>1
      <3>2. CASE q # p
        BY <1>2, <2>1, <3>2 DEF Known, Private
      <3> QED
        BY <3>1, <3>2
    <2> QED
      BY <1>1, <1>3, <2>4 DEF Known, Private
  <1>6. CASE Leave(p)
    <2>1. at' = [at EXCEPT ![p] = Nil] /\ UNCHANGED todo
      BY <1>6 DEF Leave
    <2>2. Nil \notin Private
      BY <1>2, Parameters
    <2> QED
      BY <1>1, <1>2, <1>3, <2>1, <2>2 DEF Known, Private
  <1>7. CASE \/ GetInstanceName(p) \/ NamesDone(p) \/ GetExtraLabels(p) \/ Query(p)
             \/ SendRows(p) \/ QueryError(p) \/ EndLoop(p)
    <2>1. UNCHANGED <<at, todo>>
      BY <1>7 DEF GetInstanceName, NamesDone, GetExtraLabels, Query, SendRows, QueryError, EndLoop
    <2> QED
      BY <1>1, <1>3, <2>1 DEF Known, Private
  <1> QED
    BY <1>4, <1>5, <1>6, <1>7 DEF ProcesQuery, Getter

(* An open pool belongs to a registered object, but for the moment between     *)
(* the close and the delete of a lost one, or to an object whose Init failed  *)
(* after sql.Open, whose pool nothing closes (oracle-instance.go:544-570); a   *)
(* registered one does not outlive its object (discovery.go:81-95). Whatever  *)
(* slice a processor walks over, it never calls a pool that was not opened    *)
(* or one that was dropped, nor does a refresh reach a closed or dropped one. *)
THEOREM PoolsOwned == Spec => [](Pools /\ Called)
  <1>1. Init => Pools /\ Known
    <2>1. DOMAIN <<>> = {}
      OBVIOUS
    <2>2. ToSet(<<>>) = {}
      BY <2>1 DEF ToSet
    <2> QED
      BY <2>2, Parameters DEF Init, Pools, Known, Private
  <1>2. Inv /\ Pools /\ Known /\ [Next]_vars => Pools' /\ Known'
    <2> SUFFICES ASSUME Inv, Pools, Known, [Next]_vars PROVE Pools' /\ Known'
      OBVIOUS
    <2>1. CASE \E g \in Goroutines : Call(g)
      <3>1. UNCHANGED <<unborn, list, pool, dropped, dpc, old, same, at, todo>>
        BY <2>1 DEF Call, Acquire, Answer, Fail, CallStep, db, disc, proc
      <3> QED
        BY <3>1 DEF Pools, Known, Private
    <2>2. CASE Discover
      BY <2>2, PoolsDiscover
    <2>3. CASE \E p \in Proc : ProcesQuery(p)
      BY <2>3, PoolsProcesQuery
    <2>4. CASE UNCHANGED vars
      BY <2>4 DEF vars, Pools, Known, Private
    <2> QED
      BY <2>1, <2>2, <2>3, <2>4 DEF Next
  <1>3. QED
    BY <1>1, <1>2, KnownCalled, InvAlways, PTL DEF Spec

-----------------------------------------------------------------------------
(* ClusterElection *)

LEMMA LeastMember ==
  ASSUME NEW S \in SUBSET Nat, S # {}
  PROVE  Min(S) \in S /\ \A n \in S : Min(S) <= n
  BY LeastElement DEF Min

NodesTyped ==
  /\ member \subseteq Node /\ started \subseteq member
  /\ reg \in [Node -> {"no", "init", "yes"}]
  /\ upc \in [Node -> {"idle", "instance", "database", "min", "set"}]
  /\ valid \in [Node -> BOOLEAN]
  /\ min \in [Node -> Nat]
  /\ asked \subseteq Node

LEMMA NodesTypedNext == NodesTyped /\ ClusterNext => NodesTyped'
  <1> SUFFICES ASSUME NodesTyped, NEW n \in Node, Join(n) \/ Open(n) \/ Fall(n) \/ Refresh(n)
               PROVE  NodesTyped'
    BY DEF ClusterNext
  <1> USE DEF NodesTyped, cluster, Step, Registers
  <1>1. CASE Join(n) \/ Open(n) \/ Fall(n)
    BY <1>1 DEF Join, Open, Fall
  <1>2. CASE Discovered(n) \/ BeginRefresh(n) \/ Lost(n)
    BY <1>2 DEF Discovered, BeginRefresh, Lost
  <1>3. CASE Instance(n)
    BY <1>3 DEF Instance
  <1>4. CASE Database(n)
    BY <1>4 DEF Database
  <1>5. CASE SelectMin(n)
    <2>1. Min(member) \in Nat
      BY <1>5, LeastMember, ClusterAssumption DEF SelectMin
    <2> QED
      BY <1>5, <2>1 DEF SelectMin
  <1>6. CASE SetValid(n)
    BY <1>6 DEF SetValid
  <1>7. CASE RefreshError(n)
    BY <1>7 DEF RefreshError
  <1> QED
    BY <1>1, <1>2, <1>3, <1>4, <1>5, <1>6, <1>7 DEF Refresh

(* The variables keep their types, for every set of nodes.                   *)
THEOREM ClusterTypeCorrect == ClusterSpec => []NodesTyped
  <1>1. ClusterInit => NodesTyped
    BY DEF ClusterInit, NodesTyped
  <1>2. NodesTyped /\ UNCHANGED clusterVars => NodesTyped'
    BY DEF NodesTyped, clusterVars
  <1>3. QED
    BY <1>1, <1>2, NodesTypedNext, PTL DEF ClusterSpec
-----------------------------------------------------------------------------
(* OneCollector looks at an instance between two refreshes. What makes it     *)
(* inductive: from the reset of a refresh to its end the validity is off;    *)
(* a minimum read since the members last changed is still the minimum; and   *)
(* a node that has asked since then is valid only as the lowest.            *)
Reset == \A n \in Node : upc[n] \in {"min", "set"} => ~valid[n]

Asked == \A n \in asked : /\ n \in member
                          /\ upc[n] = "set" => min[n] = Min(member)
                          /\ valid[n] => n = Min(member)

Elected == NodesTyped /\ Reset /\ Asked

LEMMA ElectedNext == Elected /\ ClusterNext => Elected'
  <1> SUFFICES ASSUME Elected, NEW n \in Node, Join(n) \/ Open(n) \/ Fall(n) \/ Refresh(n)
               PROVE  Elected'
    BY DEF ClusterNext
  <1>1. NodesTyped'
    BY NodesTypedNext DEF ClusterNext, Elected
  <1> USE DEF Elected, NodesTyped, cluster, Step, Registers
  <1>2. Reset'
    <2>1. CASE Join(n) \/ Open(n) \/ Fall(n)
      BY <2>1 DEF Reset, Join, Open, Fall
    <2>2. CASE Discovered(n) \/ BeginRefresh(n) \/ Lost(n) \/ Instance(n) \/ Database(n)
      BY <2>2 DEF Reset, Discovered, BeginRefresh, Lost, Instance, Database
    <2>3. CASE SelectMin(n)
      BY <2>3 DEF Reset, SelectMin
    <2>4. CASE SetValid(n) \/ RefreshError(n)
      BY <2>4 DEF Reset, SetValid, RefreshError
    <2> QED
      BY <2>1, <2>2, <2>3, <2>4 DEF Refresh
  <1>3. Asked'
    <2>1. CASE Join(n) \/ Open(n) \/ Fall(n)
      BY <2>1 DEF Asked, Join, Open, Fall
    <2>2. CASE Discovered(n) \/ BeginRefresh(n) \/ Lost(n) \/ Instance(n)
      BY <2>2 DEF Asked, Discovered, BeginRefresh, Lost, Instance
    <2>3. CASE Database(n)   \* the reset
      BY <2>3 DEF Asked, Database
    <2>4. CASE SelectMin(n)   \* the minimum of the present members
      BY <2>4 DEF Asked, Reset, SelectMin
    <2>5. CASE SetValid(n) \/ RefreshError(n)
      BY <2>5 DEF Asked, SetValid, RefreshError
    <2> QED
      BY <2>1, <2>2, <2>3, <2>4, <2>5 DEF Refresh
  <1> QED
    BY <1>1, <1>2, <1>3

(* OneCollector: whatever the order in which the members join, open and fall *)
(* and the collectors of any number of nodes refresh and fail, of those      *)
(* whose refresh came to the reset after the members last changed only the   *)
(* lowest is queried at database level (oracle-instance.go:385-410).         *)
THEOREM OneCollectorHolds == ClusterSpec => []OneCollector
  <1>1. ClusterInit => Elected
    BY DEF ClusterInit, Elected, NodesTyped, Reset, Asked
  <1>2. Elected /\ UNCHANGED clusterVars => Elected'
    BY DEF Elected, NodesTyped, Reset, Asked, clusterVars
  <1>3. Elected => OneCollector
    BY DEF Elected, Asked, OneCollector, Queried
  <1>4. QED
    BY <1>1, <1>2, <1>3, ElectedNext, PTL DEF ClusterSpec
=============================================================================
