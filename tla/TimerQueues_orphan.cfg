\* Timers with the same timeout, the first of which is deactivated.
CONSTANTS
  Timers = {t1, t2, t3}
  None = None
  ListMax = 1
  Timeouts = {1, 2}
  Orphaning = TRUE
SPECIFICATION Spec
INVARIANT InOrder
CHECK_DEADLOCK FALSE
