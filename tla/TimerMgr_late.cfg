\* A host that is late and may refuse: any time may pass before and during a round.
CONSTANTS
  Timers = {t1, t2}
  Pulse = Pulse
  None = None
  PulseInterval = 2
  Threshold = 4
  LateTolerance = 1
  Intervals = {1, 5}
  Repeats <- OneShotOrForever
  Factors <- NoFactors
  HostOutcomes = {TRUE, FALSE}
  Punctual = FALSE
  MaxTime = 5
  MaxRest = 6
SPECIFICATION Spec
INVARIANTS PulseRuns LongIsFar ScheduledIsSet
PROPERTIES NotRevived NeverEarly
CHECK_DEADLOCK FALSE
SYMMETRY TimersSymmetry
VIEW Live
