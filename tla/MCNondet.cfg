SPECIFICATION MCSpec
CONSTANTS
  n = 5
  m = 5
  STGraphs <- MCSTGraphs
  VertexSet = {1, 2, 3, 4}
  Graphs <- MCGraphs
  BFSGraphs <- MCBFSGraphs
  Fraction = 2
  HashCells = 11
  HashKeys = {1, 2, 3, 4, 5}
  Hashes <- MCHashes
  Procs = {1, 2}
  MeshPoints = 6
  MeshLayouts <- MCLayouts
  MeshCorners <- MCCorners
  round_share = 1
  block_share = 1
  first_rebuild = 1
  multiplier = 2
INVARIANTS
  UnionFindIsSound
  HooksSpan
  MaximalIndependent
  LocksAreOwned
  SearchIsRight
  CavitiesApart
  MeshIsRight
PROPERTIES
  AllEnd
