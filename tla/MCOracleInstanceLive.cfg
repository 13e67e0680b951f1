CONSTANTS
  Pdb = {}
  Proc = {"group"}
  DbLevel = {"group"}
  Regimes = {"full", "legacy"}
  ClusteWareEnabled = TRUE
  Flaky = TRUE
  Cell = {m1, m2, m3}
  nil = nil
SPECIFICATION FairSpec
PROPERTIES GetterReturns Registers
