CONSTANTS
  Group = {"g1", "g2"}
  MaxOmitted = 1
SPECIFICATION FairSpec
INVARIANTS TypeOK KeepsRunning OnlySelfmonPanics
PROPERTY KeepsCollecting
CHECK_DEADLOCK FALSE
