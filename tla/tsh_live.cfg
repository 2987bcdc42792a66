SPECIFICATION FairSpec
CONSTANTS
  p1 = p1
  p2 = p2
  Pid = {p1, p2}
  NoPid = NoPid
  Keys = {"TSTP"}
  MAXJOBS = 2
  MaxJid = 2
PROPERTIES ForegroundEnds
CHECK_DEADLOCK FALSE
