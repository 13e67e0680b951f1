CONSTANTS
  Sid = {"a", "b"}
  Pid = {p1, p2}
  NoPid = nopid
  NoInst = noinst
  Fault = {"ping"}
SPECIFICATION FairSpec
INVARIANT LostWasDown
PROPERTY Converges
VIEW Seen
