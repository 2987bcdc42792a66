SPECIFICATION Spec
CONSTANTS
  t1 = t1
  t2 = t2
  Thread = {t1, t2}
  n1 = n1
  n2 = n2
  n3 = n3
  Node = {n1, n2, n3}
  u1 = u1
  u2 = u2
  Url = {u1, u2}
  NULL = NULL
  Junk = Junk
  MaxCache = 2
  MaxObject = 2
  Reuse = TRUE
SYMMETRY Symmetry
INVARIANTS TypeOK ListSound UniqueUrls WalkInList OneInside OwnNodeUnread
CONSTRAINT TsizeBound
CHECK_DEADLOCK FALSE
