CONSTANTS
  Pdb = {"pdb1"}
  Proc = {"group"}
  DbLevel = {"group"}
  Regimes = {"none", "full", "legacy"}
  ClusteWareEnabled = TRUE
  Flaky = TRUE
  Cell = {m1, m2, m3}
  nil = nil
SPECIFICATION Spec
INVARIANTS TypeOK SafePublication StableTags 
SYMMETRY Cells
