CONSTANTS
  owner = owner
  Callers = {c1, ctl}
  Ctl = ctl
  Worker = Worker
  None = None
  Calls = {"change", "guarded", "streams", "signalled", "prompt"}
  Callbacks = {"change"}
  BreakFailures = {}
  CueOutcomes = {TRUE, FALSE}
  CleanRestarts = TRUE
  MaxStarts = 1
  CountMax = 7
SPECIFICATION ThreadSpec
INVARIANTS Exclusion CountsMatch RoundsApart NoMissedChange ResetFinds
PROPERTIES LockKept LockKeptInStops SuspensionsEnd Quiesces EveryStopReturns
