CONSTANTS
  Sid = {a, b}
  Pid = {p1, p2, p3}
  NoPid = nopid
  NoInst = noinst
  Fault = {"scan", "cmdline", "open", "ping", "version", "update", "kill"}
SPECIFICATION Spec
INVARIANTS TypeOK UniqueSids PoolAccounting RoundBalance StatusFollowsList
           LostReportedOnce
PROPERTY ImplementsLifecycle
SYMMETRY Hosts
