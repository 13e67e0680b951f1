----------------------------- MODULE Collector -------------------------------
(***************************************************************************)
(* The composition at work: the discovery goroutine refreshes the instances *)
(* it has registered, the metric group processors query them, and each      *)
(* instance has one mutex and one pool of connections for all of them.      *)
(*                                                                         *)
(* UpdateInfo keeps the mutex from before it asks the pool for a connection  *)
(* until the database has answered or ten seconds are over.  A processor    *)
(* takes the mutex for its getters only, and then waits for a connection    *)
(* and an answer at most query_timeout.  A sick database may leave a call    *)
(* without an answer; the others answer, with the wait for a connection,     *)
(* before a deadline passes.                                               *)
(*                                                                         *)
(* Detail that other modules have is coarse here: the slices of the list     *)
(* (InstanceList), Init and the queries of a refresh (OracleInstance), what  *)
(* a scan finds (Discovery).                                               *)
(***************************************************************************)
EXTENDS Naturals, Sequences, FiniteSets, SequencesExt, Slices

CONSTANTS Inst,           \* the *OracleInstance objects
          Proc,           \* the metric group processors
          Filtered,       \* those with an instance_filter
          Accepts(_, _),  \* Accepts(p, i): the filter of p accepts i
          Queries,        \* how many queries a group has
          MaxConns,       \* SetMaxOpenConns
          Sick,           \* the instances with a sick database
          Discovery,      \* the discovery goroutine
          Nil

ASSUME CollectorAssumption ==
  /\ IsFiniteSet(Inst) /\ Discovery \notin Proc /\ Nil \notin Inst
  /\ Filtered \subseteq Proc /\ Sick \subseteq Inst
  /\ \A p \in Proc \ Filtered, i \in Inst : Accepts(p, i)
  /\ Queries \in Nat /\ MaxConns \in Nat \ {0}

VARIABLES
  unborn,  \* objects that no pool was opened for
  list,    \* OraList
  pool,    \* pool[i]: "nil", "open", "closed"
  dropped, \* history: objects left with an open pool when their Init failed
  conns,   \* conns[i]: the goroutines that have a connection of i
  call,    \* call[g]: "none", "wait" for a connection, "run", "ok", "error"
  dpc,     \* where discover is
  new, old, same,  \* what is left of its three lists
  ppc,     \* ppc[p]: where processor p is
  at,      \* at[p]: the instance of the current iteration
  todo,    \* todo[p]: what is left of the slice p ranges over
  left,    \* left[p]: names taken in UpdateInstances, then queries left
  down,    \* history: the objects whose last status was sent
  late     \* late[p]: history: results of each object that p sent after that

db   == <<unborn, list, pool, dropped>>
disc == <<dpc, new, old, same, down>>
proc == <<ppc, at, todo, left, late>>
vars == <<unborn, list, pool, dropped, conns, call, dpc, new, old, same, down,
          ppc, at, todo, left, late>>

Goroutines == Proc \cup {Discovery}
Target(g) == IF g = Discovery THEN Head(same) ELSE at[g]

(* UpdateInfo is the only one that keeps the mutex for long. *)
Locked(i) == dpc = "refresh" /\ Head(same) = i

Init == /\ unborn = Inst /\ list = <<>> /\ dropped = {}
        /\ pool = [i \in Inst |-> "nil"] /\ conns = [i \in Inst |-> {}]
        /\ call = [g \in Goroutines |-> "none"]
        /\ dpc = "round" /\ new = <<>> /\ old = <<>> /\ same = <<>>
        /\ ppc = [p \in Proc |-> "tick"] /\ at = [p \in Proc |-> Nil]
        /\ todo = [p \in Proc |-> <<>>] /\ left = [p \in Proc |-> 0]
        /\ down = {} /\ late = [p \in Proc |-> [i \in Inst |-> 0]]

-----------------------------------------------------------------------------
(* database/sql: a call of g needs one of MaxConns connections *)

CallStep(g, from, to, holders) ==
  /\ call[g] \in from
  /\ call' = [call EXCEPT ![g] = to]
  /\ conns' = [conns EXCEPT ![Target(g)] = holders]
  /\ UNCHANGED db /\ UNCHANGED disc /\ UNCHANGED proc

Acquire(g) == /\ CallStep(g, {"wait"}, "run", conns[Target(g)] \cup {g})
              /\ pool[Target(g)] = "open"
              /\ Cardinality(conns[Target(g)]) < MaxConns

(* A slip: the rows are not closed, nor the context cancelled. *)
AnswerNoClose(g) == CallStep(g, {"run"}, "ok", conns[Target(g)])

(* The rows are read and closed. A pool that is closed lets a running query  *)
(* finish.                                                                 *)
Answer(g) == CallStep(g, {"run"}, "ok", conns[Target(g)] \ {g})

(* A slip: a query without a deadline. *)
FailNoDeadline(g) == /\ CallStep(g, {"wait"}, "error", conns[Target(g)])
                     /\ pool[Target(g)] = "closed"

(* The deadline passes, also when it waits for a connection; or the pool was *)
(* closed before it had one.                                               *)
Fail(g) == /\ CallStep(g, {"wait", "run"}, "error", conns[Target(g)] \ {g})
           /\ Target(g) \in Sick \/ (call[g] = "wait" /\ pool[Target(g)] = "closed")

-----------------------------------------------------------------------------
(* The discovery goroutine *)

DStep(from, to) == /\ dpc = from /\ dpc' = to
                   /\ UNCHANGED conns

(* Some of the registered instances are gone, some objects are found new.   *)
Round == /\ DStep("round", "new")
         /\ \E lost \in SUBSET ToSet(list), found \in SUBSET unborn :
              /\ old' = Filter(list, lost)
              /\ same' = Filter(list, Inst \ lost)
              /\ new' \in SetToSeqs(found)
         /\ UNCHANGED <<call, down>> /\ UNCHANGED db /\ UNCHANGED proc

(* Nobody but discovery knows the object before Add.                        *)
InitOk == /\ DStep("new", "new") /\ new # <<>>
          /\ pool' = [pool EXCEPT ![Head(new)] = "open"]
          /\ list' = Append(list, Head(new))
          /\ unborn' = unborn \ {Head(new)}
          /\ new' = Tail(new)
          /\ UNCHANGED <<dropped, call, old, same, down>> /\ UNCHANGED proc

(* The object of a failed Init is dropped. The pool that sql.Open made is not *)
(* closed: it stays open, and nobody has a reference to it any more. Without   *)
(* a pool the object is as one that the next scan allocates.                *)
InitError == /\ DStep("new", "new") /\ new # <<>>
             /\ new' = Tail(new)
             /\ \/ UNCHANGED db   \* sql.Open failed
                \/ /\ pool' = [pool EXCEPT ![Head(new)] = "open"]
                   /\ dropped' = dropped \cup {Head(new)}
                   /\ unborn' = unborn \ {Head(new)}
                   /\ UNCHANGED list
             /\ UNCHANGED <<call, old, same, down>> /\ UNCHANGED proc

(* A slip: the pool of a lost instance stays open. *)
EndNoClose == /\ DStep("old", "delete") /\ old # <<>>
              /\ UNCHANGED <<call, new, old, same, down>> /\ UNCHANGED db /\ UNCHANGED proc

(* Close does not wait for the queries that run. *)
End == /\ DStep("old", "delete") /\ old # <<>>
       /\ pool' = [pool EXCEPT ![Head(old)] = "closed"]
       /\ UNCHANGED <<unborn, list, dropped, call, new, old, same, down>> /\ UNCHANGED proc

(* A walk over the shared array when i is deleted from it: not concerned, if *)
(* the array was replaced since, or else what is left moves by one slot and  *)
(* its last element stands there twice (see InstanceList).                  *)
Overtaken(w, i) ==
  {w} \cup IF w = <<>> THEN {}
           ELSE {Append(IF Contains(w, i) THEN Filter(w, Inst \ {i}) ELSE Tail(w), Last(w))}

Delete == /\ DStep("delete", "lost")
          /\ list' = Filter(list, Inst \ {Head(old)})
          /\ todo' \in {t \in [Proc -> UNION {Overtaken(todo[p], Head(old)) : p \in Proc}] :
                          \A p \in Proc : t[p] \in IF p \in Filtered THEN {todo[p]}
                                                   ELSE Overtaken(todo[p], Head(old))}
          /\ UNCHANGED <<unborn, pool, dropped, call, new, old, same, down, ppc, at, left, late>>

SendLost == /\ DStep("lost", "old")
            /\ down' = down \cup {Head(old)}
            /\ old' = Tail(old)
            /\ UNCHANGED <<call, new, same>> /\ UNCHANGED db /\ UNCHANGED proc

(* UpdateInfo takes the mutex, then asks for a connection. *)
UpdateInfo == /\ DStep("same", "refresh") /\ same # <<>>
              /\ call' = [call EXCEPT ![Discovery] = "wait"]
              /\ UNCHANGED <<new, old, same, down>> /\ UNCHANGED db /\ UNCHANGED proc

(* It returns, and whatever it returned the status is sent. *)
SendSame == /\ DStep("refresh", "same")
            /\ call[Discovery] \in {"ok", "error"}
            /\ call' = [call EXCEPT ![Discovery] = "none"]
            /\ same' = Tail(same)
            /\ UNCHANGED <<new, old, down>> /\ UNCHANGED db /\ UNCHANGED proc

NextList == /\ \/ DStep("new", "old") /\ new = <<>>
               \/ DStep("old", "same") /\ old = <<>>
               \/ DStep("same", "round") /\ same = <<>>
            /\ UNCHANGED <<call, new, old, same, down>> /\ UNCHANGED db /\ UNCHANGED proc

-----------------------------------------------------------------------------
(* A metric group processor *)

PStep(p, from, to) == /\ ppc[p] = from
                      /\ ppc' = [ppc EXCEPT ![p] = to]
                      /\ UNCHANGED conns /\ UNCHANGED db /\ UNCHANGED disc

UpdateInstances(p) ==
  /\ PStep(p, "tick", IF p \in Filtered THEN "loop" ELSE "names")
  /\ todo' = [todo EXCEPT ![p] = Filter(list, {i \in Inst : Accepts(p, i)})]
  /\ left' = [left EXCEPT ![p] = 0]
  /\ UNCHANGED <<call, at, late>>

(* Without a filter it first asks every instance for its name. *)
GetInstanceName(p) == /\ PStep(p, "names", "names")
                      /\ left[p] < Len(todo[p])
                      /\ ~Locked(todo[p][left[p] + 1])
                      /\ left' = [left EXCEPT ![p] = @ + 1]
                      /\ UNCHANGED <<call, at, todo, late>>

NamesDone(p) == /\ PStep(p, "names", "loop")
                /\ left[p] = Len(todo[p])
                /\ left' = [left EXCEPT ![p] = 0]
                /\ UNCHANGED <<call, at, todo, late>>

(* The groups are of instance level and without version filters: those that   *)
(* skip an instance or a query do less than this (see OracleInstance).       *)
Visit(p) == /\ PStep(p, "loop", "labels") /\ todo[p] # <<>>
            /\ at' = [at EXCEPT ![p] = Head(todo[p])]
            /\ todo' = [todo EXCEPT ![p] = Tail(@)]
            /\ UNCHANGED <<call, left, late>>

GetExtraLabels(p) == /\ PStep(p, "labels", "check") /\ ~Locked(at[p])
                     /\ left' = [left EXCEPT ![p] = Queries]
                     /\ UNCHANGED <<call, at, todo, late>>

(* The version filter of the next query needs the mutex; the query does not. *)
Query(p) == /\ PStep(p, "check", "query") /\ left[p] > 0 /\ ~Locked(at[p])
            /\ call' = [call EXCEPT ![p] = "wait"]
            /\ left' = [left EXCEPT ![p] = @ - 1]
            /\ UNCHANGED <<at, todo, late>>

SendRows(p) == /\ PStep(p, "query", "check") /\ call[p] = "ok"
               /\ call' = [call EXCEPT ![p] = "none"]
               /\ late' = IF at[p] \in down THEN [late EXCEPT ![p][at[p]] = @ + 1] ELSE late
               /\ UNCHANGED <<at, todo, left>>

QueryError(p) == /\ PStep(p, "query", "check") /\ call[p] = "error"
                 /\ call' = [call EXCEPT ![p] = "none"]
                 /\ UNCHANGED <<at, todo, left, late>>

Leave(p) == /\ PStep(p, "check", "loop") /\ left[p] = 0
            /\ at' = [at EXCEPT ![p] = Nil]
            /\ UNCHANGED <<call, todo, left, late>>

EndLoop(p) == /\ PStep(p, "loop", "tick") /\ todo[p] = <<>>
              /\ UNCHANGED <<call, at, todo, left, late>>

-----------------------------------------------------------------------------
Call(g) == Acquire(g) \/ Answer(g) \/ Fail(g)

Discover == \/ Round \/ InitOk \/ InitError \/ End \/ Delete \/ SendLost
            \/ UpdateInfo \/ SendSame \/ NextList

Getter(p) == GetInstanceName(p) \/ GetExtraLabels(p) \/ Query(p)

ProcesQuery(p) == \/ UpdateInstances(p) \/ NamesDone(p) \/ Visit(p) \/ Getter(p)
                  \/ SendRows(p) \/ QueryError(p) \/ Leave(p) \/ EndLoop(p)

Next == \/ \E g \in Goroutines : Call(g)
        \/ Discover
        \/ \E p \in Proc : ProcesQuery(p)

(* Tickers tick and deadlines pass, a database that is not sick answers, and *)
(* neither a mutex nor a pool starves a goroutine that waits.               *)
Forced(g) == Acquire(g) \/ Fail(g) \/ (Answer(g) /\ Target(g) \notin Sick)

Fairness == /\ WF_vars(Discover \/ Forced(Discovery)) /\ SF_vars(Acquire(Discovery))
            /\ \A p \in Proc : /\ WF_vars(ProcesQuery(p) \/ Forced(p))
                               /\ SF_vars(Getter(p) \/ Acquire(p))

Spec == Init /\ [][Next]_vars /\ Fairness

-----------------------------------------------------------------------------
(* Properties *)

(* The connections in use are those of the running queries, and never more   *)
(* than the pool may open: no path of a query keeps one.                     *)
TypeOK ==
  /\ unborn \subseteq Inst /\ down \subseteq Inst /\ dropped \subseteq Inst \ unborn
  /\ ToSet(list) \cap unborn = {} /\ IsInjective(list)
  /\ pool \in [Inst -> {"nil", "open", "closed"}]
  /\ call \in [Goroutines -> {"none", "wait", "run", "ok", "error"}]
  /\ \A i \in Inst : /\ conns[i] = {g \in Goroutines : call[g] = "run" /\ Target(g) = i}
                     /\ Cardinality(conns[i]) <= MaxConns
  /\ dpc \in {"round", "new", "old", "delete", "lost", "same", "refresh"}
  /\ ppc \in [Proc -> {"tick", "names", "loop", "labels", "check", "query"}]
  /\ \A p \in Proc : /\ at[p] \in Inst \cup {Nil} /\ todo[p] \in Seq(Inst)
                     /\ (call[p] # "none") = (ppc[p] = "query")

(* Processors go on with an instance that discovery has released meanwhile   *)
(* (they hold the object, and End does not wait for them). After its last   *)
(* status each sends at most the one result that was already on its way.    *)
AtMostOneLate == \A p \in Proc, i \in Inst : late[p][i] <= 1

(* Hung databases and pools that the processors use up delay a round, but    *)
(* discovery comes to the next one again and again.                         *)
RoundsGoOn == []<>(dpc = "round")

(* A registered instance whose database answers is collected by each group   *)
(* that accepts it again and again, whatever the databases of the others do. *)
Served == \A p \in Proc : \A i \in {j \in Inst \ Sick : Accepts(p, j)} :
            <>[]Contains(list, i) => []<>(at[p] = i /\ call[p] = "ok")
=============================================================================
