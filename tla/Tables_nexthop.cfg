\* What GetNextHop() is said to return, after updates.
CONSTANTS
  Keys <- SomeKeys
  None = None
  NoCall = NoCall
  AtFront = AtFront
  AtRear = AtRear
  Astray = Astray
  BackFrom = 2
  Chosen = {"graph"}
SPECIFICATION TablesSpec
INVARIANT NextHopsLead
