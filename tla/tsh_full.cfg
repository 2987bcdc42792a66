SPECIFICATION Spec
CONSTANTS
  p1 = p1
  p2 = p2
  Pid = {p1, p2}
  NoPid = NoPid
  Keys = {"INT", "TSTP"}
  MAXJOBS = 1
  MaxJid = 2
SYMMETRY Symmetry
INVARIANTS NoStaleJob NoMissedChild
CHECK_DEADLOCK FALSE
