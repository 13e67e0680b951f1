--------------------------- MODULE OracleInstance ---------------------------
(***************************************************************************)
(* One *OracleInstance, pkg/agent/oracle/oracle-instance.go, from Init to  *)
(* End, with the discovery goroutine that refreshes it and the metric      *)
(* group processors that query it.                                         *)
(*                                                                         *)
(* UpdateInfo reads the database with up to four queries and assigns the   *)
(* fields of the object as it goes, holding the mutex; any query may fail, *)
(* and the assignments made before it stay.  A processor takes the mutex   *)
(* for one getter at a time and keeps what it read; it queries without the *)
(* mutex, also after End closed the pool.                                  *)
(***************************************************************************)
EXTENDS Naturals, FiniteSets

CONSTANTS Pdb,                \* the pluggable databases
          Proc,               \* the metric group processors
          DbLevel,            \* those with query_level = "db"
          Regimes,            \* the versions: "none": before 12.1, "legacy": before
                              \* 12.1.0.2, "full"
          ClusteWareEnabled,  \* oracle_clusterware_enabled
          Flaky,              \* may a query fail although the database would answer?
          Cell,               \* where the runtime allocates label maps
          nil

ASSUME OracleInstanceAssumption ==
  /\ IsFiniteSet(Pdb)
  /\ DbLevel \subseteq Proc
  /\ Regimes \subseteq {"none", "legacy", "full"}
  /\ ClusteWareEnabled \in BOOLEAN /\ Flaky \in BOOLEAN
  /\ Cardinality(Cell) > Cardinality(Proc) + 1
  /\ nil \notin Cell

VARIABLES
  db,       \* the database: status, role, its PDBs, has it the lowest number?, version
  oi,       \* the fields of the object
  maps,     \* the contents of the label maps
  lock,     \* does discovery hold the mutex of the object?
  pc,       \* where the discovery goroutine is with this instance
  listed,   \* is the instance in OraList?
  updated,  \* how the last UpdateInfo ended
  ppc,      \* ppc[p]: where processor p is with this instance
  extra,    \* extra[p]: the label map p got from GetExtraLabels
  tags      \* history: the contents of extra[p] when p got it

discovery == <<oi, maps, lock, pc, listed, updated>>
processors == <<ppc, extra, tags>>
vars == <<db, oi, maps, lock, pc, listed, updated, ppc, extra, tags>>

-----------------------------------------------------------------------------
Empty == "empty"      \* the string of length zero
Statuses == {"STARTED", "OPEN"}
Roles == {"PRIMARY", "STANDBY"}

Database == [status : Statuses, role : Roles, pdbs : SUBSET Pdb,
             lowest : IF ClusteWareEnabled THEN BOOLEAN ELSE {TRUE}, regime : Regimes]

(* The zero value of the struct that ScanSystemForInstances allocates. *)
NewInstance == [InitVersion |-> FALSE, Status |-> Empty, Role |-> Empty,
                IsValidForDBQuery |-> FALSE, PDBs |-> {}, PDBTotal |-> 0,
                labels |-> nil, conn |-> "nil"]

Init == /\ db \in Database
        /\ oi = NewInstance
        /\ maps = [c \in Cell |-> Empty]
        /\ lock = FALSE
        /\ pc = "open"
        /\ listed = FALSE
        /\ updated = "never"
        /\ ppc = [p \in Proc |-> "away"]
        /\ extra = [p \in Proc |-> nil]
        /\ tags = [p \in Proc |-> "none"]

(* The contents of a label map that matter here: the instance role it      *)
(* carries. A nil map has no instance tag at all.                          *)
Tags(c) == IF c = nil THEN "none" ELSE maps[c]

(* The database changes under the collector: it is started, mounted and    *)
(* opened, switched over, its PDBs open and close, cluster nodes come back. *)
Change == /\ \/ \E s \in Statuses : db' = [db EXCEPT !.status = s]
             \/ \E r \in Roles : db' = [db EXCEPT !.role = r]
             \/ \E c \in Pdb : db' = [db EXCEPT !.pdbs = (@ \ {c}) \cup ({c} \ @)]
             \/ db' = [db EXCEPT !.lowest = ~@]
          /\ db' \in Database /\ db' # db
          /\ UNCHANGED discovery /\ UNCHANGED processors

-----------------------------------------------------------------------------
(* Init *)

Step(from, to) == /\ pc = from /\ pc' = to
                  /\ UNCHANGED <<db, listed>> /\ UNCHANGED processors

(* A slip: the instance is registered although its Init failed. *)
RegisterFailed == /\ pc' = "add" /\ lock' = FALSE
                  /\ UNCHANGED <<db, oi, maps, listed, updated>>
                  /\ UNCHANGED processors

(* A failing Init drops the object; a later round starts with a new one.   *)
Drop == /\ pc' = "open" /\ lock' = FALSE
        /\ oi' = NewInstance
        /\ UNCHANGED <<db, maps, listed, updated>> /\ UNCHANGED processors

(* Init locks and unlocks by hand: each of its exits has an Unlock.        *)
LockInit == /\ Step("open", "conn")
            /\ ~lock /\ lock' = TRUE
            /\ UNCHANGED <<oi, maps, updated>>

SqlOpen == /\ Step("conn", "ping")
           /\ oi' = [oi EXCEPT !.conn = "open"]
           /\ UNCHANGED <<maps, lock, updated>>

SqlOpenError == /\ pc = "conn" /\ Flaky
                /\ Drop

(* A slip: the ping leaves without unlocking. *)
PingKeepLock == /\ Step("ping", "version")
                /\ UNCHANGED <<oi, maps, lock, updated>>

Ping == /\ Step("ping", "version")
        /\ lock' = FALSE
        /\ UNCHANGED <<oi, maps, updated>>

PingError == /\ pc = "ping" /\ Flaky
             /\ Drop

(* GetVersion locks, queries and unlocks; Init ignores its error.          *)
GetVersion == /\ Step("version", "update")
              /\ ~lock
              /\ oi' = [oi EXCEPT !.InitVersion = TRUE]
              /\ UNCHANGED <<maps, lock, updated>>

GetVersionError == /\ Step("version", "update")
                   /\ ~lock /\ Flaky
                   /\ UNCHANGED <<oi, maps, lock, updated>>

-----------------------------------------------------------------------------
(* UpdateInfo, called by Init and, for a registered instance, once a round *)

Lock == /\ Step("update", "instance")
        /\ ~lock /\ lock' = TRUE
        /\ oi.InitVersion
        /\ updated' = "never"
        /\ UNCHANGED <<oi, maps>>

(* A nil InitVersion is dereferenced by the first comparison: the process    *)
(* ends with all its memory.                                                *)
Panic == /\ pc \in {"update", "pdbs"} /\ ~oi.InitVersion
         /\ pc' = "crashed"
         /\ oi' = NewInstance /\ maps' = [c \in Cell |-> Empty]
         /\ lock' = FALSE /\ listed' = FALSE /\ updated' = "never"
         /\ ppc' = [p \in Proc |-> "away"]
         /\ extra' = [p \in Proc |-> nil] /\ tags' = [p \in Proc |-> "none"]
         /\ UNCHANGED db

(* telegraf or the init system starts the collector again.                  *)
Restart == /\ Step("crashed", "open")
           /\ UNCHANGED <<oi, maps, lock, updated>>

(* Every return of UpdateInfo releases the mutex. Init registers the       *)
(* instance or drops it; for a registered one discover sends the status,   *)
(* whatever UpdateInfo returned.                                           *)
ReturnOk == /\ pc' = IF listed THEN "status" ELSE "add"
            /\ lock' = FALSE /\ updated' = "ok"
            /\ UNCHANGED <<db, listed>> /\ UNCHANGED processors

(* A slip: an error return of UpdateInfo that forgets the mutex. *)
ReturnErrorLocked ==
  \/ ~listed /\ Drop
  \/ /\ listed
     /\ pc' = "status" /\ updated' = "error"
     /\ UNCHANGED <<db, maps, lock, listed>>
     /\ UNCHANGED processors

ReturnError == \/ ~listed /\ Drop
               \/ /\ listed
                  /\ pc' = "status" /\ lock' = FALSE /\ updated' = "error"
                  /\ UNCHANGED <<db, maps, listed>>
                  /\ UNCHANGED processors

(* A row that does not scan leaves the fields before the bad column assigned. *)
QueryError == /\ Flaky
              /\ pc = "instance" \/ (pc = "cluster" /\ ClusteWareEnabled)
              /\ ReturnError
              /\ listed => \/ UNCHANGED oi
                           \/ pc = "instance" /\ oi' = [oi EXCEPT !.Status = db.status]
                           \/ pc = "instance" /\ oi' = [oi EXCEPT !.Status = db.status,
                                                                 !.Role = db.role]

(* v$instance. The version is parsed again: a connection lost before the    *)
(* first row is no error to rows.Next, leaves the fields as they were, and a *)
(* new object without a version.                                           *)
InstanceRead(info) ==
  /\ pc = "instance"
  /\ oi' = info
  /\ UNCHANGED maps
  /\ \/ info.Status = "STARTED" /\ ReturnOk
     \/ info.Status # "STARTED" /\ Step("instance", "database")
        /\ UNCHANGED <<lock, updated>>

Instance == InstanceRead([oi EXCEPT !.Status = db.status, !.Role = db.role,
                                    !.InitVersion = TRUE])

InstanceNoRow ==
  /\ Flaky
  /\ InstanceRead([oi EXCEPT !.InitVersion = (oi.Status # Empty)])

(* v$database needs a mounted database. After it the validity is reset.    *)
DatabaseInfo == /\ Step("database", "cluster")
                /\ db.status # "STARTED"
                /\ oi' = [oi EXCEPT !.IsValidForDBQuery = FALSE]
                /\ UNCHANGED <<maps, lock, updated>>

DatabaseError == /\ pc = "database"
                 /\ db.status = "STARTED" \/ Flaky
                 /\ ReturnError
                 /\ listed => UNCHANGED oi

(* SELECT MIN(INSTANCE_NUMBER) FROM GV$INSTANCE, in cluster mode only.      *)
Cluster == /\ Step("cluster", "pdbs")
           /\ oi' = [oi EXCEPT !.IsValidForDBQuery = ~ClusteWareEnabled \/ db.lowest,
                               !.PDBs = {}]
           /\ UNCHANGED <<maps, lock, updated>>

(* A slip: the total is added to, like the list it counts. *)
PdbsNoReset == /\ Step("pdbs", "labels")
               /\ oi.InitVersion
               /\ db.regime # "legacy"
               /\ \E S \in SUBSET db.pdbs :
                    /\ IF db.regime = "none" THEN S = {} ELSE S = db.pdbs \/ Flaky
                    /\ oi' = [oi EXCEPT !.PDBs = S, !.PDBTotal = @ + Cardinality(S)]
               /\ UNCHANGED <<maps, lock, updated>>

(* v$pdbs, before 12.1 not at all. Rows lost with the connection are not    *)
(* missed.                                                                 *)
Pdbs == /\ Step("pdbs", "labels")
        /\ oi.InitVersion
        /\ db.regime # "legacy"
        /\ \E S \in SUBSET db.pdbs :
             /\ IF db.regime = "none" THEN S = {} ELSE S = db.pdbs \/ Flaky
             /\ oi' = [oi EXCEPT !.PDBs = S, !.PDBTotal = Cardinality(S)]
        /\ UNCHANGED <<maps, lock, updated>>

(* The query for 12.1.0.1 ends its select list with a comma and is always   *)
(* refused. The other one may fail, or the scan of one of its rows, with    *)
(* the PDBs before that row appended and the totals not assigned.           *)
PdbsError == /\ pc = "pdbs" /\ oi.InitVersion
             /\ db.regime = "legacy" \/ (db.regime = "full" /\ Flaky)
             /\ ReturnError
             /\ listed => \E S \in SUBSET db.pdbs :
                            /\ db.regime = "legacy" => S = {}
                            /\ oi' = [oi EXCEPT !.PDBs = S]

(* Two slips: the labels written into the map that is already published, and *)
(* the labels built by the first refresh only.                              *)
RelabelInPlace ==
  /\ pc = "labels"
  /\ \E c \in IF oi.labels = nil THEN Cell \ {extra[p] : p \in Proc} ELSE {oi.labels} :
       /\ maps' = [maps EXCEPT ![c] = oi.Role]
       /\ oi' = [oi EXCEPT !.labels = c]
  /\ ReturnOk

LabelOnce ==
  /\ pc = "labels"
  /\ IF oi.labels # nil THEN UNCHANGED <<maps, oi>>
     ELSE \E c \in Cell \ {extra[p] : p \in Proc} :
            /\ maps' = [maps EXCEPT ![c] = oi.Role]
            /\ oi' = [oi EXCEPT !.labels = c]
  /\ ReturnOk

(* initExtraLabels builds a new map and publishes it. The maps that no       *)
(* processor holds are garbage.                                            *)
InitExtraLabels ==
  /\ pc = "labels"
  /\ LET held == {extra[p] : p \in Proc}
     IN \E c \in Cell \ ({oi.labels} \cup held) :
          /\ maps' = [m \in Cell |-> IF m = c THEN oi.Role
                                     ELSE IF m \in held THEN maps[m] ELSE Empty]
          /\ oi' = [oi EXCEPT !.labels = c]
  /\ ReturnOk

-----------------------------------------------------------------------------
(* The rest of a round *)

Add == /\ pc = "add" /\ pc' = "status"
       /\ listed' = TRUE
       /\ UNCHANGED <<db, oi, maps, lock, updated>> /\ UNCHANGED processors

(* What GetMetrics makes of the fields, without the mutex: only discovery    *)
(* writes them. PDB metrics are sent by instances valid for database queries. *)
GetMetrics == [tags |-> Tags(oi.labels), role |-> oi.Role, total |-> oi.PDBTotal,
               pdbs |-> IF oi.IsValidForDBQuery THEN oi.PDBs ELSE {}]

(* discover sends them: in state "status" the metrics are GetMetrics.       *)
SendMetrics == /\ Step("status", IF listed THEN "idle" ELSE "ended")
               /\ UNCHANGED <<oi, maps, lock, updated>>

UpdateSame == /\ Step("idle", "update")
              /\ UNCHANGED <<oi, maps, lock, updated>>

(* The process is gone: End closes the pool, Delete unlists the instance.   *)
End == /\ Step("idle", "delete")
       /\ ~lock
       /\ oi' = [oi EXCEPT !.conn = "closed"]
       /\ UNCHANGED <<maps, lock, updated>>

Delete == /\ pc = "delete" /\ pc' = "status"
          /\ listed' = FALSE
          /\ UNCHANGED <<db, oi, maps, lock, updated>> /\ UNCHANGED processors

-----------------------------------------------------------------------------
(* A processor in the body of its loop, mgroup-processor.go:70-101 *)

PStep(p, from, to) == /\ ppc[p] = from
                      /\ pc # "crashed"
                      /\ ppc' = [ppc EXCEPT ![p] = to]
                      /\ UNCHANGED db /\ UNCHANGED discovery

(* The loop reaches the instance; its slice may be older than the list.     *)
Reach(p) == /\ PStep(p, "away", "valid")
            /\ listed \/ oi.conn = "closed"
            /\ UNCHANGED <<extra, tags>>

GetIsValidForDBQuery(p) ==
  /\ ~lock
  /\ PStep(p, "valid", IF p \in DbLevel /\ ~oi.IsValidForDBQuery THEN "away" ELSE "labels")
  /\ UNCHANGED <<extra, tags>>

GetExtraLabels(p) == /\ ~lock
                     /\ PStep(p, "labels", "check")
                     /\ extra' = [extra EXCEPT ![p] = oi.labels]
                     /\ tags' = [tags EXCEPT ![p] = Tags(oi.labels)]

(* The version filter of the next query of the group: it matches, or the    *)
(* query is skipped.                                                       *)
CheckVersion(p) == /\ ~lock
                   /\ oi.InitVersion
                   /\ PStep(p, "check", "query")
                   /\ UNCHANGED <<extra, tags>>

(* Query reads oi.conn without the mutex.                                  *)
QueryContext(p) == /\ PStep(p, "query", "rows")
                   /\ oi.conn = "open"
                   /\ UNCHANGED <<extra, tags>>

(* An error, or the deadline at the end of QueryContext: on to the next one. *)
QueryContextError(p) == /\ PStep(p, "query", "check")
                        /\ oi.conn = "closed" \/ Flaky
                        /\ UNCHANGED <<extra, tags>>

(* The rows end where the result ends, or where the connection or the       *)
(* deadline ends them, which passes for the end of the result (rows.Err is   *)
(* not asked). Close waits for them.                                        *)
ReadRows(p) == PStep(p, "rows", "send") /\ UNCHANGED <<extra, tags>>

(* The rows become metrics, or are dropped if they do not convert. *)
SendRows(p) == PStep(p, "send", "check") /\ UNCHANGED <<extra, tags>>

(* No query of the group is left.                                          *)
Leave(p) == /\ PStep(p, "check", "away")
            /\ extra' = [extra EXCEPT ![p] = nil]
            /\ tags' = [tags EXCEPT ![p] = "none"]

-----------------------------------------------------------------------------
UpdateInfo == \/ Lock \/ Instance \/ InstanceNoRow \/ DatabaseInfo \/ DatabaseError
              \/ Cluster \/ Pdbs \/ PdbsError \/ InitExtraLabels \/ QueryError \/ Panic

Discover == \/ LockInit \/ SqlOpen \/ SqlOpenError \/ Ping \/ PingError
            \/ GetVersion \/ GetVersionError
            \/ UpdateInfo
            \/ Add \/ SendMetrics \/ UpdateSame \/ End \/ Delete

Getter(p) == GetIsValidForDBQuery(p) \/ GetExtraLabels(p) \/ CheckVersion(p) \/ Leave(p)

Process(p) == \/ Reach(p) \/ Getter(p)
              \/ QueryContext(p) \/ QueryContextError(p) \/ ReadRows(p) \/ SendRows(p)

Next == Change \/ Discover \/ Restart \/ \E p \in Proc : Process(p)

Spec == Init /\ [][Next]_vars

(* The goroutines run; sync.Mutex starves nobody; who supervises the         *)
(* collector restarts it. Changing and succeeding are never forced.         *)
Fairness == /\ WF_vars(Discover)
            /\ WF_vars(Restart)
            /\ \A p \in Proc : WF_vars(Process(p)) /\ SF_vars(Getter(p))

FairSpec == Spec /\ Fairness

-----------------------------------------------------------------------------
Labels == {"open", "conn", "ping", "version", "update", "instance", "database", "cluster",
           "pdbs", "labels", "add", "status", "idle", "delete", "ended", "crashed"}

Info == [InitVersion : BOOLEAN, Status : {Empty} \cup Statuses, Role : {Empty} \cup Roles,
         IsValidForDBQuery : BOOLEAN, PDBs : SUBSET Pdb,
         PDBTotal : 0..Cardinality(Pdb), labels : {nil} \cup Cell,
         conn : {"nil", "open", "closed"}]

TypeOK == /\ db \in Database
          /\ oi \in Info
          /\ maps \in [Cell -> {Empty} \cup Roles]
          /\ lock \in BOOLEAN /\ listed \in BOOLEAN
          /\ pc \in Labels
          /\ updated \in {"never", "ok", "error"}
          /\ ppc \in [Proc -> {"away", "valid", "labels", "check", "query", "rows", "send"}]
          /\ extra \in [Proc -> {nil} \cup Cell]
          /\ tags \in [Proc -> {"none", Empty} \cup Roles]

(* What a processor can reach is initialised: a registered instance has a   *)
(* pool, open until End, and a version the filters can compare, through     *)
(* every failure of Init and of the rounds after it.                        *)
SafePublication ==
  /\ listed => oi.InitVersion /\ (oi.conn = "open" \/ pc = "delete")
  /\ \A p \in Proc : ppc[p] # "away" => oi.InitVersion /\ oi.conn # "nil"

(* The label map a processor sends its rows with still has the contents it  *)
(* had when the processor read it, although discovery relabels the instance *)
(* while the query runs (oracle-instance.go:136-161).                       *)
StableTags == \A p \in Proc : ppc[p] \in {"check", "query", "rows", "send"} =>
                Tags(extra[p]) = tags[p]

(* After a refresh of an open instance that ended without error the status  *)
(* metric agrees with itself: it carries the tags of the role it reports,   *)
(* and its pdbs_total counts the PDB metrics sent beside it.  A refresh that *)
(* failed in the middle may leave them apart; the next good one mends it.    *)
StatusAgrees ==
  pc = "status" /\ updated = "ok" /\ oi.Status = "OPEN" =>
    /\ GetMetrics.tags = GetMetrics.role
    /\ oi.IsValidForDBQuery => GetMetrics.total = Cardinality(GetMetrics.pdbs)

(* No exit of Init, GetVersion, UpdateInfo or End keeps the mutex, whichever *)
(* query fails: a processor that waits for a getter gets it.                *)
GetterReturns == \A p \in Proc :
                   (ppc[p] \in {"valid", "labels"}) ~> (ppc[p] \notin {"valid", "labels"})

(* A query of Init or of a refresh fails, or gets no row. *)
Fails == \/ SqlOpenError \/ PingError \/ GetVersionError \/ QueryError
         \/ InstanceNoRow \/ DatabaseError \/ PdbsError

(* An instance whose database is up and whose queries succeed from some      *)
(* moment on is registered in the end, whatever earlier attempts left, unless *)
(* it is of version 12.1.0.1, whose PDB query is always refused             *)
(* (oracle-instance.go:431).                                                *)
Registers == <>[](db.status = "OPEN" /\ db.regime # "legacy") /\ <>[][~Fails]_vars
               => <>listed
=============================================================================
