\* A host that is never late, such as a simulator.
CONSTANTS
  Timers = {t1, t2}
  Pulse = Pulse
  None = None
  PulseInterval = 2
  Threshold = 4
  LateTolerance = 0
  Intervals = {0, 3, 6}
  Repeats <- OneShotOrOnce
  Factors <- DoubleOrHalve
  HostOutcomes = {TRUE}
  Punctual = TRUE
  MaxTime = 9
  MaxRest = 6
SPECIFICATION Spec
PROPERTIES PromiseKept
CHECK_DEADLOCK FALSE
SYMMETRY TimersSymmetry
VIEW Live
