\* What UpdateRoutes() is said to do.
CONSTANTS
  Keys <- SomeKeys
  None = None
  NoCall = NoCall
  AtFront = AtFront
  AtRear = AtRear
  Astray = Astray
  BackFrom = 2
  Chosen = {"update"}
SPECIFICATION TablesSpec
PROPERTY OldRoutesGo
