SPECIFICATION MCSpec
CONSTANTS
  a1 = a1
  a2 = a2
  a3 = a3
  v1 = v1
  v2 = v2
  N = 2
  Nodes = {a1, a2, a3}
  Values = {v1, v2}
  Null = Null
  Threshold = 2
  max_alignment = 32
  large_threshold = 64
  MaxPoolSize = 128
  SizeMax = 65535
  Sizes = {16, 17, 64, 200}
  Aligns = {8, 64}
  MaxHeld = 2
  MaxFree = 2
  list_length = 2
  MaxBlocks = 12
  m = 9
  Keys = {1, 2, 3, 4}
  Procs = {a1, a2, a3}
  Hashes <- MCHashes
VIEW View
SYMMETRY Symmetry
CHECK_DEADLOCK FALSE
INVARIANTS
  BlocksAccounted
  HistoryIndependent
  AnswersAreRight
  NothingLost
  NoUseAfterFree
  NodesAccounted
PROPERTIES
  Implements
