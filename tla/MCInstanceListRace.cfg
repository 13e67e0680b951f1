CONSTANTS
  Inst <- MCInst
  Readers = {"all"}
  Filtered = {}
  SidOf <- MCSidOf
  Matches <- MCMatches
  Nil = "nil"
SPECIFICATION Spec
INVARIANT CompleteLoop
CHECK_DEADLOCK FALSE
