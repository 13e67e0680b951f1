CONSTANTS
  Sid = {"a", "b"}
  Pid = {p1, p2}
  NoPid = nopid
  NoInst = noinst
  Fault = {}
SPECIFICATION Spec
INVARIANT ConnectErrorsSurvived
SYMMETRY Pids
