SPECIFICATION MCSpec
CONSTANTS
  s = 0
  e = 4
  Granularity = 10
  MaxTries <- NotGiven
  NDEBUG = TRUE
  Clients = {"matching"}
  Vertices = {1, 2, 3, 4}
  EdgeGraphs <- FewEdges
  Graphs <- MCVertexGraphs
PROPERTIES
  Terminates
