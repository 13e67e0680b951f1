CONSTANTS
  Inst <- MCInst
  Readers = {"all", "some"}
  Filtered = {"some"}
  SidOf <- MCSidOf
  Matches <- MCMatches
  Nil = "nil"
SPECIFICATION Spec
INVARIANTS TypeOK UniqueSids Reconciled IsolatedLoop
PROPERTY WeaklyConsistent
CONSTRAINT OneLoop
CHECK_DEADLOCK FALSE
