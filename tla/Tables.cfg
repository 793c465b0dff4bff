\* Trees, graphs and routes in turn, with the sizes that MCTables gives.
CONSTANTS
  Keys <- SomeKeys
  None = None
  NoCall = NoCall
  AtFront = AtFront
  AtRear = AtRear
  Astray = Astray
  BackFrom = 2
  Chosen = {"tree", "graph", "update", "save"}
SPECIFICATION TablesSpec
INVARIANTS SearchesRight  WalksComplete
PROPERTIES InOrder MovesAsCursor UpdatesRight 
