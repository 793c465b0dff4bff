\* Four timers, which are the items of the sorted tree and the containers of the queues as well; doubles are added, and whole seconds subtracted.
CONSTANTS
  Micros = 5
  Fore <- SomeDoubles
  Back <- WholeSeconds
  MaxSec = 5
  MaxSlack = 15
  Timers = {t1, t2, t3, t4}
  None = None
SPECIFICATION DataSpec
INVARIANTS DriftBounded   MasksKept  
PROPERTIES PoolKept CursorKept
SYMMETRY TimersSymmetry
CHECK_DEADLOCK FALSE
