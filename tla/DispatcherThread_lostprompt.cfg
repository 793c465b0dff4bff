\* A Controller that always works, and another thread that prompts.
CONSTANTS
  Callers = {c1, ctl}
  Ctl = ctl
  Worker = Worker
  None = None
  Calls = {"prompt"}
  Callbacks = {}
  BreakFailures = {}
  CueOutcomes = {TRUE}
  CleanRestarts = TRUE
  MaxStarts = 1
  CountMax = 7
SPECIFICATION FairSpec
PROPERTIES PromptsServed
