SPECIFICATION TableSpec
CONSTANTS
  m = 11
  Keys = {1, 2, 3, 4, 5}
  Hashes <- MCHashes
  Procs = {p1, p2}
INVARIANTS
  ResultsAreRight
