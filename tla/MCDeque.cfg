SPECIFICATION FairSpec
CONSTANTS
  j1 = j1
  j2 = j2
  t1 = t1
  t2 = t2
  Jobs = {j1, j2}
  Thieves = {t1, t2}
  NullJob = NullJob
  Pending = Pending
  QSize = 3
  TagMod = 3
INVARIANTS
  InBounds
  DequeInv
PROPERTIES
  Implements
  StolenEventually
