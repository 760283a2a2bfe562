SPECIFICATION MCSpec
CONSTANTS
  s = 0
  e = 12
  Granularity = 1
  MaxTries = 10
  NDEBUG = FALSE
  Clients = {"any", "matching", "mis", "kruskal", "st"}
  Vertices = {1, 2, 3, 4, 5, 6, 7}
  EdgeGraphs <- MCEdgeGraphs
  Graphs <- MCVertexGraphs
INVARIANTS
  RoundsAreRight
  ResultsAreRight
  ReservationsAtRest
  LinksAreAcyclic
PROPERTIES
  StaysIndependent
  Implements
  EveryRoundAdvances
  Terminates
