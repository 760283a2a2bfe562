SPECIFICATION FullSpec
CONSTANTS
  m <- MCm
  Keys <- MCKeys
  Hashes <- AllAtZero
  Procs = {p1}
CHECK_DEADLOCK FALSE
INVARIANTS
  FindIsRight
