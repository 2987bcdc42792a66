SPECIFICATION Spec
CONSTANTS
  p1 = p1
  p2 = p2
  Pid = {p1, p2}
  NoPid = NoPid
  Keys = {"INT", "TSTP"}
  MAXJOBS = 2
  MaxJid = 3
SYMMETRY Symmetry
INVARIANTS TypeOK NoStaleJob Tracked NoMissedChild
PROPERTIES HandlerSafe SparesBackground
CHECK_DEADLOCK FALSE
