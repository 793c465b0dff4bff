\* Liveness on a late host whose only obligation is to get to its expired timer.
CONSTANTS
  Timers = {t1, t2}
  Pulse = Pulse
  None = None
  PulseInterval = 1
  Threshold = 2
  LateTolerance = 0
  Intervals = {1, 2}
  Repeats <- Forever
  Factors <- NoFactors
  HostOutcomes = {TRUE}
  Punctual = FALSE
  MaxTime = 2
  MaxRest = 3
SPECIFICATION FairSpec
INVARIANTS NoLostTimeout
PROPERTIES EveryTimeoutServed RoundEnds
CHECK_DEADLOCK FALSE
