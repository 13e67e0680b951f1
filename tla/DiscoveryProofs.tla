-------------------------- MODULE DiscoveryProofs ---------------------------
(***************************************************************************)
(* Theorems of Discovery, for every set of SIDs and pids and every set of  *)
(* faults.                                                                 *)
(***************************************************************************)
EXTENDS Discovery, TLAPS

-----------------------------------------------------------------------------
(* Types *)

(* The variables have their types when the collector starts, *)
LEMMA TypeInit == Init => TypeOK
  BY DEF Init, TypeOK, Labels, Connecting, Report, NoReport, Inst

(* and every action keeps them. *)
LEMMA TypeNext == TypeOK /\ Next => TypeOK'
  <1> SUFFICES ASSUME TypeOK, Next PROVE TypeOK'
    OBVIOUS
  <1> USE DiscoveryAssumption DEF TypeOK, Labels, Connecting, pools
  <1>1. ASSUME NEW s \in Sid, NEW p \in Pid, StartProc(s, p) PROVE TypeOK'
    BY <1>1 DEF StartProc, round, errors, sent
  <1>2. ASSUME NEW s \in Sid, StopProc(s) PROVE TypeOK'
    BY <1>2 DEF StopProc, round, errors, sent
  <1>3. CASE FastProcessList
    BY <1>3 DEF FastProcessList, Running, errors, sent
  <1>4. CASE FullPattern
    BY <1>4 DEF FullPattern, GetNewAndOldInstances, Survivors, Running, Sids, Inst, sent
  <1>5. CASE ScanError
    BY <1>5 DEF ScanError, GetNewAndOldInstances, Survivors, Running, Sids, Inst, sent
  <1>6. ASSUME NEW i \in todo, SqlOpen(i) PROVE TypeOK'
    BY <1>6 DEF SqlOpen, TakeNew, round, errors, sent
  <1>7. ASSUME NEW i \in todo, SqlOpenError(i) PROVE TypeOK'
    BY <1>7 DEF SqlOpenError, TakeNew, InitError, Inst, round, sent
  <1>8. CASE PingOk
    BY <1>8 DEF PingOk, InitStep, round, errors, sent
  <1>9. CASE GetVersionOk
    BY <1>9 DEF GetVersionOk, InitStep, round, errors, sent
  <1>10. CASE InitInfoOk
    BY <1>10 DEF InitInfoOk, InitStep, round, errors, sent
  <1>11. CASE PingError
    BY <1>11 DEF PingError, AbandonInit, InitError, Inst, round, sent
  <1>12. CASE InitInfoError
    BY <1>12 DEF InitInfoError, AbandonInit, InitError, Inst, round, sent
  <1>13. CASE GetVersionError
    BY <1>13 DEF GetVersionError, Crash, NoReport, Report
  <1>14. CASE Add
    BY <1>14 DEF Add, round, errors, sent
  <1>15. CASE SendNew
    BY <1>15 DEF SendNew, SendStatus, Inst, round, errors
  <1>16. CASE NewDone
    BY <1>16 DEF NewDone, NextLoop, round, errors, sent
  <1>17. ASSUME NEW i \in todo, End(i) PROVE TypeOK'
    BY <1>17 DEF End, round, errors, sent
  <1>18. CASE Delete
    BY <1>18 DEF Delete, round, errors, sent
  <1>19. CASE SendLost
    BY <1>19 DEF SendLost, SendStatus, Inst, round, errors
  <1>20. CASE OldDone
    BY <1>20 DEF OldDone, NextLoop, round, errors, sent
  <1>21. ASSUME NEW i \in todo, UpdateSame(i) PROVE TypeOK'
    BY <1>21 DEF UpdateSame, round, errors, sent
  <1>22. CASE SendSame
    BY <1>22 DEF SendSame, SendStatus, Inst, round, errors
  <1>23. CASE SendDiscoveryMetrics
    BY <1>23 DEF SendDiscoveryMetrics, Report, Sids, Inst
  <1>24. CASE Kill
    BY <1>24 DEF Kill, Crash, NoReport, Report
  <1>25. CASE Restart
    BY <1>25 DEF Restart, round, errors, sent
  <1> QED
    BY <1>1, <1>2, <1>3, <1>4, <1>5, <1>6, <1>7, <1>8, <1>9, <1>10, <1>11, <1>12,
       <1>13, <1>14, <1>15, <1>16, <1>17, <1>18, <1>19, <1>20, <1>21, <1>22,
       <1>23, <1>24, <1>25
    DEF Next, Host, discover, Scan, NewLoop, OldLoop, SameLoop

(* Every variable keeps its type, whatever fails and whenever processes come *)
(* and go: the value in inst is an instance wherever the code dereferences it. *)
THEOREM TypeCorrect == Spec => []TypeOK
  <1>1. TypeOK /\ UNCHANGED vars => TypeOK'
    BY DEF TypeOK, vars
  <1>2. QED
    BY <1>1, TypeInit, TypeNext, PTL DEF Spec

-----------------------------------------------------------------------------
(* The bookkeeping of a round: where each registered instance comes from at *)
(* each step of the three loops.  With TypeOK it is inductive and implies   *)
(* the invariants the runs check.                                           *)
InNewLoop == pc \in Connecting \cup {"new", "newStatus"}
InOldLoop == pc \in {"old", "delete", "lost"}
InSameLoop == pc \in {"same", "sameStatus"}

Failed == errorConnect \cup errorSkipped

(* The scan is partitioned by the SIDs registered when the round began. *)
Partition ==
  /\ UniqueIn(oinstances) /\ UniqueIn(old)
  /\ InNewLoop \/ InOldLoop \/ InSameLoop =>
       /\ new \subseteq oinstances
       /\ Sids(oinstances) = Sids(new) \cup Sids(same)
       /\ Sids(new) \cap Sids(same) = {}
       /\ Sids(old) \cap Sids(oinstances) = {}
       /\ Failed \subseteq Sids(new)
       /\ errorConnect \cap errorSkipped = {}

(* What the loop in progress has left, with the instance it works on. *)
Pending == todo \cup (IF pc \in Connecting \cup {"delete"} THEN {inst} ELSE {})

Settled == {i \in new : i.sid \notin Failed}

Balance ==
  /\ InNewLoop => /\ todo \subseteq new
                  /\ OraInstances = same \cup old \cup (Settled \ Pending)
                  /\ Sids(todo) \cap Failed = {}
                  /\ pc \in Connecting \cup {"newStatus"} => inst \in Settled \ todo
  /\ InOldLoop => /\ todo \subseteq old
                  /\ OraInstances = same \cup Pending \cup Settled
                  /\ pc \in {"delete", "lost"} => inst \in old \ todo
  /\ InSameLoop => /\ todo \subseteq same
                   /\ OraInstances = same \cup Settled
                   /\ pc = "sameStatus" => inst \in same
  /\ pc = "crashed" => OraInstances = {} /\ report = NoReport

(* Who has been reported up: everyone registered save the instance whose    *)
(* first status is due, the deleted one whose last status is due, and,      *)
(* apart from those, what an earlier run left behind.                       *)
ReportedUp == (Sids(OraInstances) \ (IF pc = "newStatus" THEN {inst.sid} ELSE {}))
              \cup (IF pc = "lost" THEN {inst.sid} ELSE {})

Reporting == /\ {s \in Sid : status[s] = "up"} = ReportedUp \cup stale
             /\ ReportedUp \cap stale = {}

RoundInv == /\ UniqueSids /\ PoolAccounting /\ RoundBalance
            /\ Partition /\ Balance /\ Reporting

(* The bookkeeping of a round holds before the first one, *)
LEMMA RoundInit == Init => RoundInv
  BY DEF Init, RoundInv, UniqueSids, PoolAccounting, RoundBalance, Partition, UniqueIn,
         Balance, Failed, Pending, Settled, Reporting, ReportedUp, Sids, NoReport,
         InNewLoop, InOldLoop, InSameLoop, Connecting

(* The instance whose last status is due is no longer registered. *)
LEMMA LostIsDelisted ==
  ASSUME RoundInv, pc = "lost"
  PROVE  inst.sid \notin Sids(OraInstances)
  <1> USE DEF RoundInv, InOldLoop
  <1>1. OraInstances = same \cup todo \cup Settled /\ inst \in old \ todo
    BY DEF Balance, Pending, Connecting
  <1>2. inst.sid \notin Sids(same) \cup Sids(new)
    BY <1>1 DEF Partition, Sids
  <1>3. inst.sid \notin Sids(todo)
    BY <1>1 DEF Balance, Partition, UniqueIn, Sids
  <1> QED
    BY <1>1, <1>2, <1>3 DEF Settled, Sids

(* and every action keeps it: one step per action, and one per part of      *)
(* RoundInv that the action can disturb.                                    *)
LEMMA RoundNext == TypeOK /\ TypeOK' /\ RoundInv /\ Next => RoundInv'
  <1> SUFFICES ASSUME TypeOK, TypeOK', RoundInv, Next PROVE RoundInv'
    OBVIOUS
  <1> USE DEF RoundInv, InNewLoop, InOldLoop, InSameLoop, Connecting, round, errors,
              pools, sent
  <1>1. ASSUME Host PROVE RoundInv'
    BY <1>1 DEF Host, StartProc, StopProc, UniqueSids, PoolAccounting, RoundBalance,
          Partition, Failed, Balance, Pending, Settled, Reporting, ReportedUp
  <1>2. CASE FastProcessList
    <2>1. (UniqueSids /\ PoolAccounting)'
      BY <1>2 DEF FastProcessList,
             UniqueSids, PoolAccounting, Balance, Partition, UniqueIn, Settled, Pending,
             Failed, Sids, TypeOK, Inst
    <2>2. RoundBalance'
      BY <1>2 DEF FastProcessList, RoundBalance
    <2>3. Partition'
      BY <1>2 DEF FastProcessList, Running, Partition, UniqueIn, Failed, TypeOK, Inst
    <2>4. Balance'
      BY <1>2 DEF FastProcessList,
             Balance, Partition, UniqueSids, UniqueIn, Settled, Pending, Failed, Sids,
             TypeOK, Inst
    <2>5. Reporting'
      BY <1>2 DEF FastProcessList,
             Reporting, ReportedUp, Balance, Partition, UniqueSids, Settled, Sids,
             TypeOK, Inst
    <2> QED
      BY <2>1, <2>2, <2>3, <2>4, <2>5
  <1>3. CASE FullPattern
    <2>1. (UniqueSids /\ PoolAccounting)'
      BY <1>3 DEF FullPattern, GetNewAndOldInstances,
             UniqueSids, PoolAccounting, Balance, Partition, UniqueIn, Settled, Pending,
             Failed, Sids, TypeOK, Inst
    <2>2. RoundBalance'
      BY <1>3 DEF FullPattern, GetNewAndOldInstances, RoundBalance
    <2>3. Partition'
      BY <1>3 DEF FullPattern, GetNewAndOldInstances, Partition, UniqueIn, UniqueSids, Failed, Sids, TypeOK, Inst
    <2>4. Balance'
      BY <1>3 DEF FullPattern, GetNewAndOldInstances,
             Balance, Partition, UniqueSids, UniqueIn, Settled, Pending, Failed, Sids,
             TypeOK, Inst
    <2>5. Reporting'
      BY <1>3 DEF FullPattern, GetNewAndOldInstances,
             Reporting, ReportedUp, Balance, Partition, UniqueSids, Settled, Sids,
             TypeOK, Inst
    <2> QED
      BY <2>1, <2>2, <2>3, <2>4, <2>5
  <1>4. CASE ScanError
    <2>1. (UniqueSids /\ PoolAccounting)'
      BY <1>4 DEF ScanError, GetNewAndOldInstances,
             UniqueSids, PoolAccounting, Balance, Partition, UniqueIn, Settled, Pending,
             Failed, Sids, TypeOK, Inst
    <2>2. RoundBalance'
      BY <1>4 DEF ScanError, GetNewAndOldInstances, RoundBalance
    <2>3. Partition'
      BY <1>4 DEF ScanError, GetNewAndOldInstances, Partition, UniqueIn, UniqueSids, Failed, Sids, TypeOK, Inst
    <2>4. Balance'
      BY <1>4 DEF ScanError, GetNewAndOldInstances,
             Balance, Partition, UniqueSids, UniqueIn, Settled, Pending, Failed, Sids,
             TypeOK, Inst
    <2>5. Reporting'
      BY <1>4 DEF ScanError, GetNewAndOldInstances,
             Reporting, ReportedUp, Balance, Partition, UniqueSids, Settled, Sids,
             TypeOK, Inst
    <2> QED
      BY <2>1, <2>2, <2>3, <2>4, <2>5
  <1>5. ASSUME NEW i \in todo, SqlOpen(i) PROVE RoundInv'
    <2>1. (UniqueSids /\ PoolAccounting)'
      BY <1>5 DEF SqlOpen, TakeNew,
             UniqueSids, PoolAccounting, Balance, Partition, UniqueIn, Settled, Pending,
             Failed, Sids, TypeOK, Inst
    <2>2. RoundBalance'
      BY <1>5 DEF SqlOpen, TakeNew, RoundBalance
    <2>3. Partition'
      BY <1>5 DEF SqlOpen, TakeNew, Partition, Failed
    <2>4. Balance'
      BY <1>5 DEF SqlOpen, TakeNew,
             Balance, Partition, UniqueSids, UniqueIn, Settled, Pending, Failed, Sids,
             TypeOK, Inst
    <2>5. Reporting'
      BY <1>5 DEF SqlOpen, TakeNew,
             Reporting, ReportedUp, Balance, Partition, UniqueSids, Settled, Sids,
             TypeOK, Inst
    <2> QED
      BY <2>1, <2>2, <2>3, <2>4, <2>5
  <1>6. ASSUME NEW i \in todo, SqlOpenError(i) PROVE RoundInv'
    <2>1. (UniqueSids /\ PoolAccounting)'
      BY <1>6 DEF SqlOpenError, TakeNew, InitError,
             UniqueSids, PoolAccounting, Balance, Partition, UniqueIn, Settled, Pending,
             Failed, Sids, TypeOK, Inst
    <2>2. RoundBalance'
      BY <1>6 DEF SqlOpenError, TakeNew, InitError, RoundBalance
    <2>3. Partition'
      <3>1. i.sid \in Sids(new) /\ i.sid \notin Failed /\ Sids(new)' = Sids(new)
        BY <1>6 DEF SqlOpenError, TakeNew, Balance, Sids
      <3>2. Failed' = Failed \cup {i.sid} /\ (errorConnect \cap errorSkipped)' = {}
        BY <1>6, <3>1 DEF SqlOpenError, TakeNew, InitError, Partition, Failed
      <3> QED
        BY <1>6, <3>1, <3>2 DEF SqlOpenError, TakeNew, InitError, Partition
    <2>4. Balance'
      BY <1>6 DEF SqlOpenError, TakeNew, InitError,
             Balance, Partition, UniqueSids, UniqueIn, Settled, Pending, Failed, Sids,
             TypeOK, Inst
    <2>5. Reporting'
      BY <1>6 DEF SqlOpenError, TakeNew, InitError,
             Reporting, ReportedUp, Balance, Partition, UniqueSids, Settled, Sids,
             TypeOK, Inst
    <2> QED
      BY <2>1, <2>2, <2>3, <2>4, <2>5
  <1>7. CASE PingOk \/ GetVersionOk \/ InitInfoOk
    <2>1. (UniqueSids /\ PoolAccounting)'
      BY <1>7 DEF PingOk, GetVersionOk, InitInfoOk, InitStep,
             UniqueSids, PoolAccounting, Balance, Partition, UniqueIn, Settled, Pending,
             Failed, Sids, TypeOK, Inst
    <2>2. RoundBalance'
      BY <1>7 DEF PingOk, GetVersionOk, InitInfoOk, InitStep, RoundBalance
    <2>3. Partition'
      BY <1>7 DEF PingOk, GetVersionOk, InitInfoOk, InitStep,
             Partition, Failed
    <2>4. Balance'
      BY <1>7 DEF PingOk, GetVersionOk, InitInfoOk, InitStep,
             Balance, Partition, UniqueSids, UniqueIn, Settled, Pending, Failed, Sids,
             TypeOK, Inst
    <2>5. Reporting'
      BY <1>7 DEF PingOk, GetVersionOk, InitInfoOk, InitStep,
             Reporting, ReportedUp, Balance, Partition, UniqueSids, Settled, Sids,
             TypeOK, Inst
    <2> QED
      BY <2>1, <2>2, <2>3, <2>4, <2>5
  <1>8. CASE PingError \/ InitInfoError
    <2>1. (UniqueSids /\ PoolAccounting)'
      BY <1>8 DEF PingError, InitInfoError, AbandonInit, InitError,
             UniqueSids, PoolAccounting, Balance, Partition, UniqueIn, Settled, Pending,
             Failed, Sids, TypeOK, Inst
    <2>2. RoundBalance'
      BY <1>8 DEF PingError, InitInfoError, AbandonInit, InitError,
             RoundBalance
    <2>3. Partition'
      <3>1. inst.sid \in Sids(new) /\ inst.sid \notin Failed
        BY <1>8 DEF PingError, InitInfoError, AbandonInit, Balance, Settled, Sids
      <3>2. Failed' = Failed \cup {inst.sid} /\ (errorConnect \cap errorSkipped)' = {}
        BY <1>8, <3>1 DEF PingError, InitInfoError, AbandonInit, InitError, Partition, Failed
      <3> QED
        BY <1>8, <3>1, <3>2 DEF PingError, InitInfoError, AbandonInit, InitError, Partition
    <2>4. Balance'
      BY <1>8 DEF PingError, InitInfoError, AbandonInit, InitError,
             Balance, Partition, UniqueSids, UniqueIn, Settled, Pending, Failed, Sids,
             TypeOK, Inst
    <2>5. Reporting'
      BY <1>8 DEF PingError, InitInfoError, AbandonInit, InitError,
             Reporting, ReportedUp, Balance, Partition, UniqueSids, Settled, Sids,
             TypeOK, Inst
    <2> QED
      BY <2>1, <2>2, <2>3, <2>4, <2>5
  <1>9. CASE GetVersionError \/ Kill
    <2>1. (UniqueSids /\ PoolAccounting)'
      BY <1>9 DEF GetVersionError, Kill, Crash, NoReport,
             UniqueSids, PoolAccounting, Balance, Partition, UniqueIn, Settled, Pending,
             Failed, Sids, TypeOK, Inst
    <2>2. RoundBalance'
      BY <1>9 DEF GetVersionError, Kill, Crash, NoReport, RoundBalance
    <2>3. Partition'
      BY <1>9 DEF GetVersionError, Kill, Crash, NoReport, Partition, UniqueIn, Failed, Sids
    <2>4. Balance'
      BY <1>9 DEF GetVersionError, Kill, Crash, NoReport,
             Balance, Partition, UniqueSids, UniqueIn, Settled, Pending, Failed, Sids,
             TypeOK, Inst
    <2>5. Reporting'
      BY <1>9 DEF GetVersionError, Kill, Crash, NoReport,
             Reporting, ReportedUp, Balance, Partition, UniqueSids, Settled, Sids,
             TypeOK, Inst
    <2> QED
      BY <2>1, <2>2, <2>3, <2>4, <2>5
  <1>10. CASE Add
    <2>1. (UniqueSids /\ PoolAccounting)'
      BY <1>10 DEF Add,
             UniqueSids, PoolAccounting, Balance, Partition, UniqueIn, Settled, Pending,
             Failed, Sids, TypeOK, Inst
    <2>2. RoundBalance'
      BY <1>10 DEF Add, RoundBalance
    <2>3. Partition'
      BY <1>10 DEF Add, Partition, Failed
    <2>4. Balance'
      BY <1>10 DEF Add,
             Balance, Partition, UniqueSids, UniqueIn, Settled, Pending, Failed, Sids,
             TypeOK, Inst
    <2>5. Reporting'
      <3>1. inst.sid \notin Sids(OraInstances)
        BY <1>10 DEF Add, Balance, Partition, UniqueIn, Settled, Pending, Sids
      <3>2. ReportedUp' = ReportedUp
        BY <1>10, <3>1 DEF Add, ReportedUp, Sids
      <3> QED
        BY <1>10, <3>2 DEF Add, Reporting
    <2> QED
      BY <2>1, <2>2, <2>3, <2>4, <2>5
  <1>11. CASE SendNew
    <2>1. (UniqueSids /\ PoolAccounting)'
      BY <1>11 DEF SendNew, SendStatus,
             UniqueSids, PoolAccounting, Balance, Partition, UniqueIn, Settled, Pending,
             Failed, Sids, TypeOK, Inst
    <2>2. RoundBalance'
      BY <1>11 DEF SendNew, SendStatus, RoundBalance
    <2>3. Partition'
      BY <1>11 DEF SendNew, SendStatus, Partition, Failed
    <2>4. Balance'
      BY <1>11 DEF SendNew, SendStatus,
             Balance, Partition, UniqueSids, UniqueIn, Settled, Pending, Failed, Sids,
             TypeOK, Inst
    <2>5. Reporting'
      BY <1>11 DEF SendNew, SendStatus, Reporting, ReportedUp, Balance, Settled, Pending, Sids, TypeOK, Inst
    <2> QED
      BY <2>1, <2>2, <2>3, <2>4, <2>5
  <1>12. CASE NewDone
    <2>1. (UniqueSids /\ PoolAccounting)'
      BY <1>12 DEF NewDone, NextLoop,
             UniqueSids, PoolAccounting, Balance, Partition, UniqueIn, Settled, Pending,
             Failed, Sids, TypeOK, Inst
    <2>2. RoundBalance'
      BY <1>12 DEF NewDone, NextLoop, RoundBalance
    <2>3. Partition'
      BY <1>12 DEF NewDone, NextLoop, Partition, Failed
    <2>4. Balance'
      BY <1>12 DEF NewDone, NextLoop,
             Balance, Partition, UniqueSids, UniqueIn, Settled, Pending, Failed, Sids,
             TypeOK, Inst
    <2>5. Reporting'
      BY <1>12 DEF NewDone, NextLoop,
             Reporting, ReportedUp, Balance, Partition, UniqueSids, Settled, Sids,
             TypeOK, Inst
    <2> QED
      BY <2>1, <2>2, <2>3, <2>4, <2>5
  <1>13. ASSUME NEW i \in todo, End(i) PROVE RoundInv'
    <2>1. (UniqueSids /\ PoolAccounting)'
      BY <1>13 DEF End,
             UniqueSids, PoolAccounting, Balance, Partition, UniqueIn, Settled, Pending,
             Failed, Sids, TypeOK, Inst
    <2>2. RoundBalance'
      BY <1>13 DEF End, RoundBalance
    <2>3. Partition'
      BY <1>13 DEF End, Partition, Failed
    <2>4. Balance'
      BY <1>13 DEF End,
             Balance, Partition, UniqueSids, UniqueIn, Settled, Pending, Failed, Sids,
             TypeOK, Inst
    <2>5. Reporting'
      BY <1>13 DEF End,
             Reporting, ReportedUp, Balance, Partition, UniqueSids, Settled, Sids,
             TypeOK, Inst
    <2> QED
      BY <2>1, <2>2, <2>3, <2>4, <2>5
  <1>14. CASE Delete
    <2>1. (UniqueSids /\ PoolAccounting)'
      BY <1>14 DEF Delete,
             UniqueSids, PoolAccounting, Balance, Partition, UniqueIn, Settled, Pending,
             Failed, Sids, TypeOK, Inst
    <2>2. RoundBalance'
      BY <1>14 DEF Delete, RoundBalance
    <2>3. Partition'
      BY <1>14 DEF Delete, Partition, Failed
    <2>4. Balance'
      BY <1>14 DEF Delete,
             Balance, Partition, UniqueSids, UniqueIn, Settled, Pending, Failed, Sids,
             TypeOK, Inst
    <2>5. Reporting'
      BY <1>14 DEF Delete, Reporting, ReportedUp, Balance, Pending, Sids, TypeOK, Inst
    <2> QED
      BY <2>1, <2>2, <2>3, <2>4, <2>5
  <1>15. CASE SendLost
    <2>1. (UniqueSids /\ PoolAccounting)'
      BY <1>15 DEF SendLost, SendStatus,
             UniqueSids, PoolAccounting, Balance, Partition, UniqueIn, Settled, Pending,
             Failed, Sids, TypeOK, Inst
    <2>2. RoundBalance'
      BY <1>15 DEF SendLost, SendStatus, RoundBalance
    <2>3. Partition'
      BY <1>15 DEF SendLost, SendStatus, Partition, Failed
    <2>4. Balance'
      BY <1>15 DEF SendLost, SendStatus,
             Balance, Partition, UniqueSids, UniqueIn, Settled, Pending, Failed, Sids,
             TypeOK, Inst
    <2>5. Reporting'
      <3>1. {s \in Sid : status'[s] = "up"} = {s \in Sid : status[s] = "up"} \ {inst.sid}
        BY <1>15 DEF SendLost, SendStatus, TypeOK, Inst
      <3>2. inst.sid \notin Sids(OraInstances)
        BY <1>15, LostIsDelisted DEF SendLost, SendStatus
      <3>3. ReportedUp = Sids(OraInstances) \cup {inst.sid} /\ ReportedUp' = Sids(OraInstances)
        BY <1>15 DEF SendLost, SendStatus, ReportedUp, Sids
      <3> QED
        BY <1>15, <3>1, <3>2, <3>3 DEF SendLost, SendStatus, Reporting
    <2> QED
      BY <2>1, <2>2, <2>3, <2>4, <2>5
  <1>16. CASE OldDone
    <2>1. (UniqueSids /\ PoolAccounting)'
      BY <1>16 DEF OldDone, NextLoop,
             UniqueSids, PoolAccounting, Balance, Partition, UniqueIn, Settled, Pending,
             Failed, Sids, TypeOK, Inst
    <2>2. RoundBalance'
      BY <1>16 DEF OldDone, NextLoop, RoundBalance
    <2>3. Partition'
      BY <1>16 DEF OldDone, NextLoop, Partition, Failed
    <2>4. Balance'
      BY <1>16 DEF OldDone, NextLoop,
             Balance, Partition, UniqueSids, UniqueIn, Settled, Pending, Failed, Sids,
             TypeOK, Inst
    <2>5. Reporting'
      BY <1>16 DEF OldDone, NextLoop,
             Reporting, ReportedUp, Balance, Partition, UniqueSids, Settled, Sids,
             TypeOK, Inst
    <2> QED
      BY <2>1, <2>2, <2>3, <2>4, <2>5
  <1>17. ASSUME NEW i \in todo, UpdateSame(i) PROVE RoundInv'
    <2>1. (UniqueSids /\ PoolAccounting)'
      BY <1>17 DEF UpdateSame,
             UniqueSids, PoolAccounting, Balance, Partition, UniqueIn, Settled, Pending,
             Failed, Sids, TypeOK, Inst
    <2>2. RoundBalance'
      BY <1>17 DEF UpdateSame, RoundBalance
    <2>3. Partition'
      BY <1>17 DEF UpdateSame, Partition, Failed
    <2>4. Balance'
      BY <1>17 DEF UpdateSame,
             Balance, Partition, UniqueSids, UniqueIn, Settled, Pending, Failed, Sids,
             TypeOK, Inst
    <2>5. Reporting'
      BY <1>17 DEF UpdateSame,
             Reporting, ReportedUp, Balance, Partition, UniqueSids, Settled, Sids,
             TypeOK, Inst
    <2> QED
      BY <2>1, <2>2, <2>3, <2>4, <2>5
  <1>18. CASE SendSame
    <2>1. (UniqueSids /\ PoolAccounting)'
      BY <1>18 DEF SendSame, SendStatus,
             UniqueSids, PoolAccounting, Balance, Partition, UniqueIn, Settled, Pending,
             Failed, Sids, TypeOK, Inst
    <2>2. RoundBalance'
      BY <1>18 DEF SendSame, SendStatus, RoundBalance
    <2>3. Partition'
      BY <1>18 DEF SendSame, SendStatus, Partition, Failed
    <2>4. Balance'
      BY <1>18 DEF SendSame, SendStatus,
             Balance, Partition, UniqueSids, UniqueIn, Settled, Pending, Failed, Sids,
             TypeOK, Inst
    <2>5. Reporting'
      BY <1>18 DEF SendSame, SendStatus,
             Reporting, ReportedUp, Balance, Partition, UniqueSids, Settled, Sids,
             TypeOK, Inst
    <2> QED
      BY <2>1, <2>2, <2>3, <2>4, <2>5
  <1>19. CASE SendDiscoveryMetrics
    <2>1. (UniqueSids /\ PoolAccounting)'
      BY <1>19 DEF SendDiscoveryMetrics,
             UniqueSids, PoolAccounting, Balance, Partition, UniqueIn, Settled, Pending,
             Failed, Sids, TypeOK, Inst
    <2>2. RoundBalance'
      <3>1. Sids(OraInstances) = Sids(same) \cup (Sids(new) \ Failed)
        BY <1>19 DEF SendDiscoveryMetrics, Balance, Settled, Sids
      <3>2. Sids(OraInstances)' = Sids(OraInstances)
        BY <1>19 DEF SendDiscoveryMetrics, Sids
      <3> QED
        BY <1>19, <3>1, <3>2 DEF SendDiscoveryMetrics, RoundBalance, Partition, Failed
    <2>3. Partition'
      BY <1>19 DEF SendDiscoveryMetrics, Partition, UniqueIn, Failed, Sids
    <2>4. Balance'
      BY <1>19 DEF SendDiscoveryMetrics,
             Balance, Partition, UniqueSids, UniqueIn, Settled, Pending, Failed, Sids,
             TypeOK, Inst
    <2>5. Reporting'
      BY <1>19 DEF SendDiscoveryMetrics,
             Reporting, ReportedUp, Balance, Partition, UniqueSids, Settled, Sids,
             TypeOK, Inst
    <2> QED
      BY <2>1, <2>2, <2>3, <2>4, <2>5
  <1>20. CASE Restart
    <2>1. (UniqueSids /\ PoolAccounting)'
      BY <1>20 DEF Restart,
             UniqueSids, PoolAccounting, Balance, Partition, UniqueIn, Settled, Pending,
             Failed, Sids, TypeOK, Inst
    <2>2. RoundBalance'
      BY <1>20 DEF Restart, RoundBalance, Balance, NoReport, Sids
    <2>3. Partition'
      BY <1>20 DEF Restart, Partition, Failed
    <2>4. Balance'
      BY <1>20 DEF Restart,
             Balance, Partition, UniqueSids, UniqueIn, Settled, Pending, Failed, Sids,
             TypeOK, Inst
    <2>5. Reporting'
      BY <1>20 DEF Restart,
             Reporting, ReportedUp, Balance, Partition, UniqueSids, Settled, Sids,
             TypeOK, Inst
    <2> QED
      BY <2>1, <2>2, <2>3, <2>4, <2>5
  <1> QED
    BY <1>1, <1>2, <1>3, <1>4, <1>5, <1>6, <1>7, <1>8, <1>9, <1>10, <1>11,
       <1>12, <1>13, <1>14, <1>15, <1>16, <1>17, <1>18, <1>19, <1>20
    DEF Next, discover, Scan, NewLoop, OldLoop, SameLoop

(* The inductive invariant behind the theorems below: at each step of a     *)
(* round every registered instance is accounted for by the comparison with  *)
(* the scan, the errors so far and what the loop in progress has left, and  *)
(* every SID last reported up by the registered set.                        *)
THEOREM RoundCorrect == Spec => []RoundInv
  <1>1. TypeOK /\ RoundInv /\ [Next]_vars => (TypeOK /\ RoundInv)'
    <2> SUFFICES ASSUME TypeOK, RoundInv, [Next]_vars PROVE (TypeOK /\ RoundInv)'
      OBVIOUS
    <2>1. CASE Next
      BY <2>1, TypeNext, RoundNext
    <2>2. CASE UNCHANGED vars
      BY <2>2 DEF vars, TypeOK, RoundInv, UniqueSids, PoolAccounting, RoundBalance,
                  Partition, Balance, Failed, Pending, Settled, Reporting, ReportedUp,
                  InNewLoop, InOldLoop, InSameLoop
    <2> QED
      BY <2>1, <2>2
  <1>2. QED
    BY <1>1, TypeInit, RoundInit, PTL DEF Spec

(* A SID never has two registered instances: comparing by SID with a scan    *)
(* that is already old cannot register one twice.                           *)
THEOREM UniqueSidsHolds == Spec => []UniqueSids
  BY RoundCorrect, PTL DEF RoundInv

(* Whatever fails in a round, the pools the code can reach are those of the  *)
(* registered instances, until End, and of the one being connected.         *)
THEOREM PoolAccountingHolds == Spec => []PoolAccounting
  BY RoundCorrect, PTL DEF RoundInv

(* How a pool goes out of reach: End closes it, the process ends, or Init    *)
(* fails after sql.Open (oracle-instance.go:556-570), which is counted as an *)
(* error of the round and leaves the pool open.                             *)
PoolLeavesReach ==
  \A i \in held \ held' :
     \/ pc = "old" /\ inst' = i
     \/ pc' = "crashed"
     \/ /\ i = inst /\ i.sid \in dropped'
        /\ i.sid \in Failed' \ Failed

(* No other step loses a pool: not a scan, a status, an error of a refresh   *)
(* or the sql.Open of the next instance.                                    *)
THEOREM PoolsLeaveReach == Spec => [][PoolLeavesReach]_vars
  <1>1. ASSUME TypeOK, RoundInv, Next PROVE PoolLeavesReach
    <2> USE DEF PoolLeavesReach
    <2>1. CASE Host \/ Scan \/ Restart
      BY <2>1 DEF Host, StartProc, StopProc, Scan, FastProcessList, FullPattern, ScanError,
                  Restart, pools
    <2>2. CASE Kill \/ GetVersionError
      BY <2>2 DEF Kill, GetVersionError, Crash
    <2>3. CASE PingError \/ InitInfoError
      <3>1. inst.sid \notin Failed
        BY <1>1, <2>3 DEF PingError, InitInfoError, AbandonInit, RoundInv, Balance,
                          Settled, InNewLoop, Connecting
      <3>2. inst.sid \in Failed'
        BY <2>3 DEF PingError, InitInfoError, AbandonInit, InitError, Failed
      <3> QED
        BY <2>3, <3>1, <3>2 DEF PingError, InitInfoError, AbandonInit
    <2>4. CASE NewLoop /\ ~GetVersionError /\ ~PingError /\ ~InitInfoError
      BY <2>4 DEF NewLoop, SqlOpen, SqlOpenError, TakeNew, PingOk, GetVersionOk, InitInfoOk,
                  InitStep, Add, SendNew, SendStatus, NewDone, NextLoop, pools
    <2>5. CASE OldLoop
      BY <2>5 DEF OldLoop, End, Delete, SendLost, SendStatus, OldDone, NextLoop, pools
    <2>6. CASE SameLoop
      BY <2>6 DEF SameLoop, UpdateSame, SendSame, SendStatus, SendDiscoveryMetrics, pools
    <2> QED
      BY <1>1, <2>1, <2>2, <2>3, <2>4, <2>5, <2>6 DEF Next, discover
  <1>2. UNCHANGED vars => PoolLeavesReach
    BY DEF vars, PoolLeavesReach
  <1>3. QED
    BY <1>1, <1>2, TypeCorrect, RoundCorrect, PTL DEF Spec

(* Each discover_stats metric explains the registered set it leaves behind.  *)
THEOREM RoundBalanceHolds == Spec => []RoundBalance
  BY RoundCorrect, PTL DEF RoundInv

(* Between rounds the SIDs last reported up are the registered ones and what *)
(* a killed collector left behind.                                          *)
THEOREM StatusFollowsListHolds == Spec => []StatusFollowsList
  <1>1. RoundInv => StatusFollowsList
    BY DEF RoundInv, Reporting, ReportedUp, StatusFollowsList, Sids
  <1>2. QED
    BY <1>1, RoundCorrect, PTL

(* An instance about to be reported lost was last reported up, by this run   *)
(* of the collector.                                                        *)
THEOREM LostReportedOnceHolds == Spec => []LostReportedOnce
  <1>1. TypeOK /\ RoundInv => LostReportedOnce
    BY DEF TypeOK, Inst, RoundInv, Reporting, ReportedUp, LostReportedOnce
  <1>2. QED
    BY <1>1, TypeCorrect, RoundCorrect, PTL

-----------------------------------------------------------------------------
(* The life cycle of a SID *)

(* No SID is registered or reported at first. *)
LEMMA LifecycleInit == Init => Cycle!Init
  BY DEF Init, Cycle!Init, Phase, Sids

(* A step that moves no SID through its life cycle and reports nothing. *)
LEMMA LifecycleStutter ==
  ASSUME UNCHANGED status, \A s \in Sid : Phase(s)' = Phase(s)
  PROVE  UNCHANGED Cycle!vars
  BY DEF Cycle!vars

(* Every action moves one SID through its life cycle, or none, or crashes. *)
LEMMA LifecycleNext ==
  TypeOK /\ TypeOK' /\ RoundInv /\ Next => [Cycle!Next]_(Cycle!vars)
  <1> SUFFICES ASSUME TypeOK, TypeOK', RoundInv, Next
               PROVE  [Cycle!Next]_(Cycle!vars)
    OBVIOUS
  <1> USE DEF Phase, Connecting
  <1>1. CASE Host
    BY <1>1, LifecycleStutter DEF Host, StartProc, StopProc, round, errors, sent
  <1>2. CASE Scan
    BY <1>2, LifecycleStutter
    DEF Scan, FastProcessList, FullPattern, ScanError, GetNewAndOldInstances, sent
  <1>3. ASSUME NEW i \in todo, SqlOpen(i) \/ SqlOpenError(i)
        PROVE  UNCHANGED Cycle!vars
    BY <1>3, LifecycleStutter DEF SqlOpen, SqlOpenError, TakeNew, InitError, sent
  <1>4. CASE PingOk \/ GetVersionOk \/ InitInfoOk
    BY <1>4, LifecycleStutter DEF PingOk, GetVersionOk, InitInfoOk, InitStep, sent
  <1>5. CASE PingError \/ InitInfoError
    BY <1>5, LifecycleStutter DEF PingError, InitInfoError, AbandonInit, InitError, sent
  <1>6. CASE GetVersionError \/ Kill
    <2>1. Cycle!Crash
      BY <1>6 DEF GetVersionError, Kill, Crash, Cycle!Crash
    <2> QED
      BY <2>1 DEF Cycle!Next
  <1>7. CASE Add
    <2>1. inst \in Inst /\ inst.sid \in Sid /\ inst.sid \notin Sids(OraInstances)
      BY <1>7 DEF Add, RoundInv, Balance, Partition, UniqueIn, Settled, Pending, Sids,
                  InNewLoop, TypeOK, Inst
    <2>2. Sids(OraInstances)' = Sids(OraInstances) \cup {inst.sid}
      BY <1>7 DEF Add, Sids
    <2>3. ASSUME NEW s \in Sid, s = inst.sid PROVE Cycle!Join(s)
      BY <2>3, <1>7, <2>1, <2>2 DEF Add, Cycle!Join, Cycle!Settled, sent
    <2>4. \E s \in Sid : Cycle!Join(s)
      BY <2>1, <2>3
    <2> QED
      BY <2>4 DEF Cycle!Next
  <1>8. CASE SendNew \/ SendSame
    <2>1. inst.sid \in Sid /\ inst.sid \in Sids(OraInstances)
      BY <1>8 DEF SendNew, SendSame, SendStatus, RoundInv, Balance, Settled, Pending, Sids,
                  InNewLoop, InSameLoop, TypeOK, Inst
    <2>2. ASSUME NEW s \in Sid, s = inst.sid PROVE Cycle!ReportUp(s)
      BY <2>2, <1>8, <2>1 DEF SendNew, SendSame, SendStatus, Cycle!ReportUp, Sids
    <2>3. \E s \in Sid : Cycle!ReportUp(s)
      BY <2>1, <2>2
    <2> QED
      BY <2>3 DEF Cycle!Next
  <1>9. CASE NewDone \/ OldDone
    BY <1>9, LifecycleStutter DEF NewDone, OldDone, NextLoop, sent
  <1>10. ASSUME NEW i \in todo, End(i)
         PROVE  UNCHANGED Cycle!vars
    BY <1>10, LifecycleStutter DEF End, sent
  <1>11. CASE Delete
    <2>1. inst.sid \in Sid /\ inst.sid \in Sids(OraInstances)
      BY <1>11 DEF Delete, RoundInv, Balance, Pending, Sids, InOldLoop, TypeOK, Inst
    <2>2. status[inst.sid] = "up"
      BY <1>11, <2>1 DEF Delete, RoundInv, Reporting, ReportedUp
    <2>3. Sids(OraInstances)' = Sids(OraInstances) \ {inst.sid}
      BY <1>11 DEF Delete, Sids
    <2>4. ASSUME NEW s \in Sid, s = inst.sid PROVE Cycle!Leave(s)
      BY <2>4, <1>11, <2>1, <2>2, <2>3 DEF Delete, Cycle!Leave, Cycle!Settled, sent
    <2>5. \E s \in Sid : Cycle!Leave(s)
      BY <2>1, <2>4
    <2> QED
      BY <2>5 DEF Cycle!Next
  <1>12. CASE SendLost
    <2>1. inst.sid \in Sid /\ inst.sid \notin Sids(OraInstances) /\ status[inst.sid] = "up"
      BY <1>12, LostIsDelisted
      DEF SendLost, SendStatus, RoundInv, Reporting, ReportedUp, TypeOK, Inst
    <2>2. ASSUME NEW s \in Sid, s = inst.sid PROVE Cycle!ReportDown(s)
      BY <2>2, <1>12, <2>1 DEF SendLost, SendStatus, Cycle!ReportDown, Sids
    <2>3. \E s \in Sid : Cycle!ReportDown(s)
      BY <2>1, <2>2
    <2> QED
      BY <2>3 DEF Cycle!Next
  <1>13. ASSUME NEW i \in todo, UpdateSame(i)
         PROVE  UNCHANGED Cycle!vars
    BY <1>13, LifecycleStutter DEF UpdateSame, sent
  <1>14. CASE SendDiscoveryMetrics
    BY <1>14, LifecycleStutter DEF SendDiscoveryMetrics
  <1>15. CASE Restart
    BY <1>15, LifecycleStutter DEF Restart, RoundInv, Balance, Sids, sent
  <1> QED
    BY <1>1, <1>2, <1>3, <1>4, <1>5, <1>6, <1>7, <1>8, <1>9, <1>10, <1>11, <1>12,
       <1>13, <1>14, <1>15
    DEF Next, discover, NewLoop, OldLoop, SameLoop

(* Discovery implements the life cycle: whatever fails, a SID is reported    *)
(* down once, after it left the registered set and before it can join again.*)
THEOREM Refinement == Spec => ImplementsLifecycle
  <1>1. TypeOK /\ RoundInv /\ TypeOK' /\ [Next]_vars => [Cycle!Next]_(Cycle!vars)
    <2>1. UNCHANGED vars => UNCHANGED Cycle!vars
      BY DEF vars, Cycle!vars, Phase
    <2> QED
      BY <2>1, LifecycleNext
  <1>2. QED
    BY <1>1, LifecycleInit, TypeCorrect, RoundCorrect, PTL
    DEF Spec, ImplementsLifecycle, Cycle!Spec

-----------------------------------------------------------------------------
(* Lost instances *)

(* What is not found by a scan that does not fail was down during it. *)
ScanComplete == InNewLoop \/ InOldLoop \/ InSameLoop => alive \subseteq Sids(oinstances)

(* A scan that does not fail finds every process that ran throughout it. *)
LEMMA ScanCompleteNext ==
  ASSUME Fault \cap {"scan", "cmdline"} = {}
  PROVE  ScanComplete /\ [Next]_vars => ScanComplete'
  <1> SUFFICES ASSUME ScanComplete, [Next]_vars PROVE ScanComplete'
    OBVIOUS
  <1> USE DEF ScanComplete, InNewLoop, InOldLoop, InSameLoop, Connecting,
              round, errors, sent
  <1>1. CASE Host \/ UNCHANGED vars
    BY <1>1 DEF Host, StartProc, StopProc, Sids, vars
  <1>2. CASE FullPattern
    BY <1>2 DEF FullPattern, GetNewAndOldInstances, Sids
  <1>3. CASE FastProcessList \/ ScanError
    BY <1>3 DEF FastProcessList, ScanError
  <1>4. CASE NewLoop
    BY <1>4 DEF NewLoop, SqlOpen, SqlOpenError, TakeNew, InitError, PingOk, PingError,
                GetVersionOk, GetVersionError, InitInfoOk, InitInfoError, InitStep,
                AbandonInit, Crash, Add, SendNew, SendStatus, NewDone, NextLoop, Sids
  <1>5. CASE OldLoop
    BY <1>5 DEF OldLoop, End, Delete, SendLost, SendStatus, OldDone, NextLoop, Sids
  <1>6. CASE SameLoop
    BY <1>6 DEF SameLoop, UpdateSame, SendSame, SendStatus, SendDiscoveryMetrics, Sids
  <1>7. CASE Kill \/ Restart
    BY <1>7 DEF Kill, Crash, Restart
  <1> QED
    BY <1>1, <1>2, <1>3, <1>4, <1>5, <1>6, <1>7 DEF Next, discover, Scan

(* While the scan does not fail, an instance reported lost had no process at *)
(* some moment of it, although processes start and stop during the scan.    *)
THEOREM LostWasDownHolds ==
  ASSUME Fault \cap {"scan", "cmdline"} = {}
  PROVE  Spec => []LostWasDown
  <1>1. Init => ScanComplete
    BY DEF Init, ScanComplete, InNewLoop, InOldLoop, InSameLoop, Connecting
  <1>2. RoundInv /\ ScanComplete => LostWasDown
    BY DEF RoundInv, Balance, Partition, ScanComplete, LostWasDown, InOldLoop, Sids
  <1>3. QED
    BY <1>1, <1>2, ScanCompleteNext, RoundCorrect, PTL DEF Spec
=============================================================================
