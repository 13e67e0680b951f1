------------------------ MODULE OracleInstanceProofs -------------------------
(***************************************************************************)
(* Theorems of OracleInstance, for every set of PDBs and processors, every  *)
(* version of the database and with any query failing at any time.          *)
(***************************************************************************)
EXTENDS OracleInstance, FiniteSetTheorems, TLAPS

-----------------------------------------------------------------------------
(* Types *)

(* Some PDBs of the database are no more than all of them.                  *)
LEMMA CountPdbs ==
  ASSUME NEW S \in SUBSET Pdb
  PROVE  Cardinality(S) \in 0..Cardinality(Pdb)
  <1>1. /\ Cardinality(Pdb) \in Nat
        /\ IsFiniteSet(S) /\ Cardinality(S) <= Cardinality(Pdb)
    BY FS_CardinalityType, FS_Subset, OracleInstanceAssumption
  <1>2. Cardinality(S) \in Nat
    BY <1>1, FS_CardinalityType
  <1> QED
    BY <1>1, <1>2

(* The object is allocated with fields of their types, *)
LEMMA NewInstanceType == NewInstance \in Info
  BY CountPdbs, FS_EmptySet DEF NewInstance, Info

LEMMA TypeInit == Init => TypeOK
  <1> SUFFICES ASSUME Init PROVE TypeOK
    OBVIOUS
  <1>1. db \in Database /\ oi \in Info
    BY NewInstanceType DEF Init
  <1>2. maps \in [Cell -> {Empty} \cup Roles] /\ pc \in Labels
    BY DEF Init, Labels
  <1>3. lock \in BOOLEAN /\ listed \in BOOLEAN /\ updated \in {"never", "ok", "error"}
    BY DEF Init
  <1>4. /\ ppc \in [Proc -> {"away", "valid", "labels", "check", "query", "rows", "send"}]
        /\ extra \in [Proc -> {nil} \cup Cell]
        /\ tags \in [Proc -> {"none", Empty} \cup Roles]
    BY DEF Init
  <1> QED
    BY <1>1, <1>2, <1>3, <1>4 DEF TypeOK

(* and every action keeps them.                                            *)
LEMMA TypeNext == TypeOK /\ Next => TypeOK'
  <1> SUFFICES ASSUME TypeOK, Next PROVE TypeOK'
    OBVIOUS
  <1> USE DEF TypeOK, discovery, processors, Step, PStep
  <1>d. db.status \in Statuses /\ db.role \in Roles /\ db.pdbs \subseteq Pdb
    BY DEF Database
  <1>1. CASE Change
    <2>1. db' \in Database /\ UNCHANGED discovery /\ UNCHANGED processors
      BY <1>1 DEF Change
    <2> QED
      BY <2>1
  <1>2. CASE LockInit \/ SqlOpen \/ Restart
    BY <1>2 DEF LockInit, SqlOpen, Restart, Info, Labels
  <1>3. CASE Ping
    BY <1>3 DEF Ping, Labels
  <1>4. CASE SqlOpenError \/ PingError
    BY NewInstanceType, <1>4 DEF SqlOpenError, PingError, Drop, Labels
  <1>5. CASE GetVersion \/ GetVersionError
    BY <1>5 DEF GetVersion, GetVersionError, Info, Labels
  <1>6. CASE Lock
    BY <1>6 DEF Lock, Labels
  <1>7. CASE Instance \/ InstanceNoRow
    BY <1>7, <1>d DEF Instance, InstanceNoRow, InstanceRead, ReturnOk, Info, Labels
  <1>8. CASE DatabaseInfo
    BY <1>8 DEF DatabaseInfo, Info, Labels
  <1>9. CASE DatabaseError
    BY NewInstanceType, <1>9 DEF DatabaseError, ReturnError, Drop, Info, Labels
  <1>10. CASE Cluster
    <2>1. db.lowest \in BOOLEAN
      BY DEF Database
    <2> QED
      BY <1>10, <2>1, OracleInstanceAssumption DEF Cluster, Info, Labels
  <1>11. CASE Pdbs
    <2> PICK S \in SUBSET db.pdbs :
             oi' = [oi EXCEPT !.PDBs = S, !.PDBTotal = Cardinality(S)]
      BY <1>11 DEF Pdbs
    <2>1. oi' \in Info
      BY <1>d, CountPdbs DEF Info
    <2> QED
      BY <1>11, <2>1 DEF Pdbs, Labels
  <1>12. CASE PdbsError
    <2>1. ASSUME listed PROVE oi' \in Info
      BY <1>d, <1>12, <2>1 DEF PdbsError, ReturnError, Info
    <2> QED
      BY NewInstanceType, <1>12, <2>1 DEF PdbsError, ReturnError, Drop, Labels
  <1>13. CASE InitExtraLabels
    <2> PICK c \in Cell : /\ \E H : maps' = [m \in Cell |-> IF m = c THEN oi.Role
                                             ELSE IF m \in H THEN maps[m] ELSE Empty]
                          /\ oi' = [oi EXCEPT !.labels = c]
      BY <1>13 DEF InitExtraLabels
    <2>1. oi' \in Info /\ oi.Role \in {Empty} \cup Roles
      BY DEF Info
    <2>2. maps' \in [Cell -> {Empty} \cup Roles]
      BY <2>1
    <2> QED
      BY <1>13, <2>1, <2>2 DEF InitExtraLabels, ReturnOk, Labels
  <1>14. CASE QueryError
    BY NewInstanceType, <1>d, <1>14 DEF QueryError, ReturnError, Drop, Info, Labels
  <1>15. CASE Panic
    BY NewInstanceType, <1>15 DEF Panic, Labels
  <1>16. CASE Add
    BY <1>16 DEF Add, Labels
  <1>17. CASE SendMetrics
    BY <1>17 DEF SendMetrics, Labels
  <1>18. CASE UpdateSame
    BY <1>18 DEF UpdateSame, Labels
  <1>19. CASE End
    BY <1>19 DEF End, Info, Labels
  <1>20. CASE Delete
    BY <1>20 DEF Delete, Labels
  <1>21. ASSUME NEW p \in Proc, Process(p) PROVE TypeOK'
    BY <1>21 DEF Process, Getter, Reach, GetIsValidForDBQuery, GetExtraLabels, CheckVersion,
                 Leave, QueryContext, QueryContextError, ReadRows, SendRows, Tags, Info
  <1> QED
    BY <1>1, <1>2, <1>3, <1>4, <1>5, <1>6, <1>7, <1>8, <1>9, <1>10, <1>11, <1>12, <1>13,
       <1>14, <1>15, <1>16, <1>17, <1>18, <1>19, <1>20, <1>21
    DEF Next, Discover, UpdateInfo

(* Every field of the object and every label map keeps its type, through     *)
(* every failure of the queries that fill them (oracle-instance.go:244-498). *)
THEOREM TypeCorrect == Spec => []TypeOK
  <1>1. TypeOK /\ UNCHANGED vars => TypeOK'
    BY DEF TypeOK, vars
  <1>2. QED
    BY <1>1, TypeInit, TypeNext, PTL DEF Spec

-----------------------------------------------------------------------------
(* Publication *)

(* Where the instance is registered, and which steps hold its mutex.        *)
Registration ==
  /\ pc \in {"open", "conn", "ping", "version", "add", "ended", "crashed"} => ~listed
  /\ pc \in {"idle", "delete"} => listed
  /\ lock <=> pc \in {"conn", "ping", "instance", "database", "cluster", "pdbs", "labels"}

(* The pool is there from SqlOpen on, and closed once: by End.               *)
Pooled ==
  /\ oi.conn = "nil" => pc \in {"open", "conn", "crashed"}
  /\ oi.conn = "closed" => pc \in {"delete", "status", "ended"} /\ (listed <=> pc = "delete")
  /\ pc = "delete" => oi.conn = "closed"

(* A version is known together with a status: a refresh of v$instance        *)
(* brings both, and one that got no row leaves the version it finds only if  *)
(* an earlier one brought a status. The PDB query asks for the version.      *)
Versioned ==
  /\ listed \/ oi.conn = "closed" => oi.InitVersion /\ oi.Status # Empty
  /\ pc \in {"database", "cluster", "pdbs", "labels", "add"} =>
       (oi.InitVersion <=> oi.Status # Empty)
  /\ pc \in {"labels", "add"} => oi.InitVersion

(* Processors are only with an instance that is, or was, registered.        *)
Reached == \A p \in Proc : ppc[p] # "away" => listed \/ oi.conn = "closed"

Publication == Registration /\ Pooled /\ Versioned /\ Reached

LEMMA PublicationInit == Init => Publication
  <1> SUFFICES ASSUME Init PROVE Publication
    OBVIOUS
  <1>1. Registration
    BY DEF Init, Registration
  <1>2. Pooled /\ Reached
    BY DEF Init, NewInstance, Pooled, Reached
  <1>3. Versioned
    BY DEF Init, NewInstance, Versioned
  <1> QED
    BY <1>1, <1>2, <1>3 DEF Publication

(* An error return of UpdateInfo: an instance that is not registered is     *)
(* dropped, a registered one keeps its pool, its version and a status.      *)
LEMMA ErrorReturn ==
  ASSUME Publication, ReturnError, lock \in BOOLEAN, listed \in BOOLEAN,
         pc \in {"instance", "database", "cluster", "pdbs"},
         listed => /\ oi'.conn = oi.conn /\ oi'.InitVersion = oi.InitVersion
                   /\ oi'.Status # Empty
  PROVE  Publication'
  <1> USE DEF Publication
  <1>1. CASE ~listed
    <2>1. /\ pc' = "open" /\ ~lock' /\ ~listed' /\ ppc' = ppc
          /\ oi'.conn = "nil"
      BY <1>1 DEF ReturnError, Drop, NewInstance, processors
    <2>2. oi.conn # "closed"
      BY DEF Pooled
    <2>3. Registration' /\ Pooled' /\ Versioned'
      BY <2>1 DEF Registration, Pooled, Versioned
    <2>4. Reached'
      BY <1>1, <2>1, <2>2 DEF Reached
    <2> QED
      BY <2>3, <2>4
  <1>2. CASE listed
    <2>1. pc' = "status" /\ ~lock' /\ listed' /\ ppc' = ppc
      BY <1>2 DEF ReturnError, processors
    <2>2. oi'.conn = "open" \/ oi'.conn \notin {"nil", "closed"}
      BY <1>2 DEF Pooled
    <2>3. Registration' /\ Pooled' /\ Reached'
      BY <2>1, <2>2 DEF Registration, Pooled, Reached
    <2>4. Versioned'
      BY <1>2, <2>1, <2>2 DEF Versioned
    <2> QED
      BY <2>3, <2>4
  <1> QED
    BY <1>1, <1>2

LEMMA PublicationNext == TypeOK /\ Publication /\ Next => Publication'
  <1> SUFFICES ASSUME TypeOK, Publication, Next PROVE Publication'
    OBVIOUS
  <1>t. /\ oi \in Info /\ lock \in BOOLEAN /\ listed \in BOOLEAN /\ db.status \in Statuses
        /\ ppc \in [Proc -> {"away", "valid", "labels", "check", "query", "rows", "send"}]
    BY DEF TypeOK, Database
  <1> USE <1>t DEF Publication, discovery, processors, Step, PStep
  <1> USE DEF Registration, Pooled, Versioned, Reached, Empty
  <1>1. CASE Change
    <2>1. UNCHANGED discovery /\ UNCHANGED processors
      BY <1>1 DEF Change
    <2> QED
      BY <2>1
  <1>2. CASE LockInit \/ SqlOpen \/ Restart
    BY <1>2 DEF LockInit, SqlOpen, Restart, Info
  <1>3. CASE Ping
    BY <1>3 DEF Ping
  <1>4. CASE SqlOpenError \/ PingError
    BY <1>4 DEF SqlOpenError, PingError, Drop, NewInstance
  <1>5. CASE GetVersion \/ GetVersionError
    BY <1>5 DEF GetVersion, GetVersionError, Info
  <1>6. CASE Lock
    BY <1>6 DEF Lock
  <1>7. CASE Instance \/ InstanceNoRow
    <2>1. /\ pc = "instance" /\ listed' = listed /\ ppc' = ppc
          /\ \/ pc' = (IF listed THEN "status" ELSE "add") /\ lock' = FALSE /\ oi'.Status # Empty
             \/ pc' = "database" /\ lock' = lock
      BY <1>7 DEF Instance, InstanceNoRow, InstanceRead, ReturnOk
    <2>2. oi'.conn = oi.conn /\ (oi'.InitVersion <=> oi'.Status # Empty)
      BY <1>7 DEF Instance, InstanceNoRow, InstanceRead, Info, Statuses
    <2>3. listed => oi'.Status # Empty
      BY <1>7 DEF Instance, InstanceNoRow, InstanceRead, Info, Statuses
    <2>4. oi.conn # "closed"
      BY <2>1
    <2>5. Registration'
      BY <2>1
    <2>6. Pooled' /\ Reached'
      BY <2>1, <2>2
    <2>7. Versioned'
      BY <2>1, <2>2, <2>3, <2>4
    <2> QED
      BY <2>5, <2>6, <2>7
  <1>8. CASE DatabaseInfo
    BY <1>8 DEF DatabaseInfo, Info
  <1>9. CASE DatabaseError
    BY <1>9, ErrorReturn DEF DatabaseError
  <1>10. CASE Cluster
    BY <1>10 DEF Cluster, Info
  <1>11. CASE Pdbs
    BY <1>11 DEF Pdbs, Info
  <1>12. CASE PdbsError
    BY <1>12, ErrorReturn DEF PdbsError, Info
  <1>13. CASE InitExtraLabels
    BY <1>13 DEF InitExtraLabels, ReturnOk, Info
  <1>14. CASE QueryError
    BY <1>14, ErrorReturn DEF QueryError, Info, Statuses
  <1>15. CASE Panic
    BY <1>15 DEF Panic, NewInstance
  <1>16. CASE Add
    BY <1>16 DEF Add
  <1>17. CASE SendMetrics
    BY <1>17 DEF SendMetrics
  <1>18. CASE UpdateSame
    BY <1>18 DEF UpdateSame
  <1>19. CASE End
    BY <1>19 DEF End, Info
  <1>20. CASE Delete
    BY <1>20 DEF Delete
  <1>21. ASSUME NEW p \in Proc, Process(p) PROVE Publication'
    <2>1. UNCHANGED discovery
      BY <1>21 DEF Process, Getter, Reach, GetIsValidForDBQuery, GetExtraLabels, CheckVersion,
                   Leave, QueryContext, QueryContextError, ReadRows, SendRows
    <2>2. Registration' /\ Pooled' /\ Versioned'
      BY <2>1
    <2>3. Reached'
      BY <1>21 DEF Process, Getter, Reach, GetIsValidForDBQuery, GetExtraLabels, CheckVersion,
                   Leave, QueryContext, QueryContextError, ReadRows, SendRows
    <2> QED
      BY <2>2, <2>3
  <1> QED
    BY <1>1, <1>2, <1>3, <1>4, <1>5, <1>6, <1>7, <1>8, <1>9, <1>10, <1>11, <1>12, <1>13,
       <1>14, <1>15, <1>16, <1>17, <1>18, <1>19, <1>20, <1>21
    DEF Next, Discover, UpdateInfo

(* How far Init has come, what the mutex guards and what processors may     *)
(* reach agree at every step.                                              *)
THEOREM PublicationHolds == Spec => []Publication
  <1>1. Publication /\ UNCHANGED vars => Publication'
    <2>1. Registration /\ UNCHANGED vars => Registration'
      BY DEF Registration, vars
    <2>2. Pooled /\ Reached /\ UNCHANGED vars => Pooled' /\ Reached'
      BY DEF Pooled, Reached, vars
    <2>3. Versioned /\ UNCHANGED vars => Versioned'
      BY DEF Versioned, vars
    <2> QED
      BY <2>1, <2>2, <2>3 DEF Publication
  <1>2. QED
    BY <1>1, PublicationInit, PublicationNext, TypeCorrect, PTL DEF Spec

(* Nothing reaches an instance that has no version to compare or no pool:    *)
(* every failure of Init drops it before Add, and no refresh of a registered *)
(* one loses its version (oracle-instance.go:305-330, 532-592).             *)
THEOREM SafePublicationHolds == Spec => []SafePublication
  <1>1. TypeOK /\ Publication => SafePublication
    BY DEF TypeOK, Info, Publication, Registration, Pooled, Versioned, Reached, SafePublication
  <1>2. QED
    BY <1>1, TypeCorrect, PublicationHolds, PTL

-----------------------------------------------------------------------------
(* Label maps *)

(* Writing one map changes only what reads it.                              *)
LEMMA TagsElsewhere ==
  ASSUME TypeOK, NEW c \in Cell, NEW H, NEW v, NEW e \in {nil} \cup Cell,
         e # c, e \in H,
         maps' = [m \in Cell |-> IF m = c THEN v ELSE IF m \in H THEN maps[m] ELSE Empty]
  PROVE  (IF e = nil THEN "none" ELSE maps'[e]) = Tags(e)
  BY DEF TypeOK, Tags

LEMMA StableTagsNext == TypeOK /\ StableTags /\ Next => StableTags'
  <1> SUFFICES ASSUME TypeOK, StableTags, Next PROVE StableTags'
    OBVIOUS
  <1>1. CASE InitExtraLabels
    <2> DEFINE Kept == {extra[p] : p \in Proc}
    <2> PICK c \in Cell \ ({oi.labels} \cup Kept) :
             maps' = [m \in Cell |-> IF m = c THEN oi.Role
                                    ELSE IF m \in Kept THEN maps[m] ELSE Empty]
      BY <1>1 DEF InitExtraLabels
    <2>1. UNCHANGED processors
      BY <1>1 DEF InitExtraLabels, ReturnOk
    <2>2. ASSUME NEW p \in Proc, ppc[p] \in {"check", "query", "rows", "send"}
          PROVE  Tags(extra[p])' = tags[p]
      <3>1. /\ extra[p] \in {nil} \cup Cell /\ extra[p] \in Kept /\ extra[p] # c
            /\ extra'[p] = extra[p]
        BY <2>1 DEF TypeOK, processors
      <3>2. Tags(extra[p])' = Tags(extra[p])
        BY <3>1, TagsElsewhere DEF Tags
      <3> QED
        BY <2>2, <3>2 DEF StableTags
    <2> QED
      BY <2>1, <2>2 DEF StableTags, processors
  <1>2. ASSUME NEW p \in Proc, Process(p) PROVE StableTags'
    <2>1. maps' = maps
      BY <1>2 DEF Process, Getter, Reach, GetIsValidForDBQuery, GetExtraLabels, CheckVersion,
                  Leave, QueryContext, QueryContextError, ReadRows, SendRows, PStep, discovery
    <2>2. CASE GetExtraLabels(p)
      BY <2>1, <2>2 DEF GetExtraLabels, PStep, TypeOK, StableTags, Tags
    <2>3. CASE Leave(p)
      BY <2>1, <2>3 DEF Leave, PStep, TypeOK, StableTags, Tags
    <2>4. CASE Reach(p) \/ GetIsValidForDBQuery(p)
      BY <2>1, <2>4 DEF Reach, GetIsValidForDBQuery, PStep, TypeOK, StableTags, Tags
    <2>5. CASE CheckVersion(p) \/ QueryContext(p) \/ QueryContextError(p)
               \/ ReadRows(p) \/ SendRows(p)
      <3>1. UNCHANGED <<extra, tags>> /\ ppc[p] \in {"check", "query", "rows", "send"}
        BY <2>5 DEF CheckVersion, QueryContext, QueryContextError, ReadRows, SendRows, PStep
      <3>2. \A q \in Proc \ {p} : ppc'[q] = ppc[q]
        BY <2>5 DEF CheckVersion, QueryContext, QueryContextError, ReadRows, SendRows, PStep,
                    TypeOK
      <3> QED
        BY <2>1, <3>1, <3>2 DEF StableTags, Tags
    <2> QED
      BY <1>2, <2>2, <2>3, <2>4, <2>5 DEF Process, Getter
  <1>p. CASE Panic
    BY <1>p DEF Panic, StableTags
  <1>3. ASSUME Next, ~InitExtraLabels, ~Panic, \A p \in Proc : ~Process(p)
        PROVE  UNCHANGED maps /\ UNCHANGED processors
    BY <1>3 DEF Next, Change, Restart, Discover, UpdateInfo, LockInit, SqlOpen, SqlOpenError,
       Ping, PingError, GetVersion, GetVersionError, Lock, Instance, InstanceNoRow, InstanceRead,
       DatabaseInfo, DatabaseError, Cluster, Pdbs, PdbsError, QueryError, Add, SendMetrics,
       UpdateSame, End, Delete, ReturnOk, ReturnError, Drop, Step, discovery
  <1>4. ASSUME UNCHANGED maps, UNCHANGED processors PROVE StableTags'
    BY <1>4 DEF StableTags, Tags, processors
  <1> QED
    BY <1>1, <1>2, <1>p, <1>3, <1>4

(* The labels a processor sends its rows with do not change under it: every  *)
(* refresh writes a map of its own and publishes it (oracle-instance.go:136-161). *)
THEOREM StableTagsHolds == Spec => []StableTags
  <1>1. Init => StableTags
    BY DEF Init, StableTags
  <1>2. StableTags /\ UNCHANGED vars => StableTags'
    BY DEF StableTags, Tags, vars
  <1>3. QED
    BY <1>1, <1>2, StableTagsNext, TypeCorrect, PTL DEF Spec

-----------------------------------------------------------------------------
(* Status metrics *)

(* A refresh that was begun has not ended; one that ended without error has  *)
(* counted the PDBs it lists and published the role it read.                *)
Agreement ==
  /\ pc \in {"open", "conn", "ping", "version", "instance", "database", "cluster", "pdbs",
            "labels", "crashed"} => updated = "never"
  /\ pc = "labels" => oi.PDBTotal = Cardinality(oi.PDBs)
  /\ updated = "ok" /\ oi.Status = "OPEN" =>
       /\ Tags(oi.labels) = oi.Role
       /\ oi.PDBTotal = Cardinality(oi.PDBs)

LEMMA AgreementNext == TypeOK /\ Agreement /\ Next => Agreement'
  <1> SUFFICES ASSUME TypeOK, Agreement, Next PROVE Agreement'
    OBVIOUS
  <1>t. oi \in Info
    BY DEF TypeOK
  <1> USE <1>t DEF Agreement, Tags, Step
  <1>1. CASE Change
    BY <1>1 DEF Change, discovery
  <1>2. CASE LockInit \/ SqlOpen \/ Restart
    BY <1>2 DEF LockInit, SqlOpen, Restart
  <1>3. CASE Ping
    BY <1>3 DEF Ping
  <1>4. CASE SqlOpenError \/ PingError
    BY <1>4 DEF SqlOpenError, PingError, Drop
  <1>5. CASE GetVersion \/ GetVersionError
    BY <1>5 DEF GetVersion, GetVersionError
  <1>6. CASE Lock
    BY <1>6 DEF Lock
  <1>7. CASE Instance \/ InstanceNoRow
    BY <1>7 DEF Instance, InstanceNoRow, InstanceRead, ReturnOk
  <1>8. CASE DatabaseInfo
    BY <1>8 DEF DatabaseInfo
  <1>9. CASE DatabaseError
    BY <1>9 DEF DatabaseError, ReturnError, Drop
  <1>10. CASE Cluster
    BY <1>10 DEF Cluster
  <1>11. CASE Pdbs
    BY <1>11 DEF Pdbs, Info
  <1>12. CASE PdbsError
    BY <1>12 DEF PdbsError, ReturnError, Drop
  <1>13. CASE InitExtraLabels
    <2> PICK c \in Cell : /\ \E H : maps' = [m \in Cell |-> IF m = c THEN oi.Role
                                             ELSE IF m \in H THEN maps[m] ELSE Empty]
                          /\ oi' = [oi EXCEPT !.labels = c]
      BY <1>13 DEF InitExtraLabels
    <2>1. maps'[c] = oi.Role /\ c # nil
      BY OracleInstanceAssumption DEF TypeOK
    <2>2. oi'.labels = c /\ oi'.Role = oi.Role /\ oi'.PDBTotal = oi.PDBTotal /\ oi'.PDBs = oi.PDBs
      BY DEF Info
    <2> QED
      BY <1>13, <2>1, <2>2 DEF InitExtraLabels, ReturnOk
  <1>14. CASE QueryError
    BY <1>14 DEF QueryError, ReturnError, Drop
  <1>15. CASE Panic
    BY <1>15 DEF Panic
  <1>16. CASE Add
    BY <1>16 DEF Add
  <1>17. CASE SendMetrics
    BY <1>17 DEF SendMetrics
  <1>18. CASE UpdateSame
    BY <1>18 DEF UpdateSame
  <1>19. CASE End
    BY <1>19 DEF End, Info
  <1>20. CASE Delete
    BY <1>20 DEF Delete
  <1>21. ASSUME NEW p \in Proc, Process(p) PROVE Agreement'
    BY <1>21 DEF Process, Getter, Reach, GetIsValidForDBQuery, GetExtraLabels, CheckVersion,
                 Leave, QueryContext, QueryContextError, ReadRows, SendRows, PStep, discovery
  <1> QED
    BY <1>1, <1>2, <1>3, <1>4, <1>5, <1>6, <1>7, <1>8, <1>9, <1>10, <1>11, <1>12, <1>13,
       <1>14, <1>15, <1>16, <1>17, <1>18, <1>19, <1>20, <1>21
    DEF Next, Discover, UpdateInfo

(* What GetMetrics sends after a refresh without error of an open instance    *)
(* agrees with itself: the tags are those of the role it reports, the total   *)
(* that of the PDBs sent beside it (oracle-instance.go:582-645), although    *)
(* they come from queries between which the database changes and of which    *)
(* one may have brought no row.                                             *)
THEOREM StatusAgreesHolds == Spec => []StatusAgrees
  <1>1. Init => Agreement
    BY DEF Init, NewInstance, Agreement
  <1>2. Agreement /\ UNCHANGED vars => Agreement'
    BY DEF Agreement, Tags, vars
  <1>3. Agreement => StatusAgrees
    BY DEF Agreement, StatusAgrees, GetMetrics
  <1>4. QED
    BY <1>1, <1>2, <1>3, AgreementNext, TypeCorrect, PTL DEF Spec
=============================================================================
