\* What becomes of a lasting setpoint after any number of pauses; the closed box
\* keeps printing a small grant.
SPECIFICATION FairSpec
CONSTANTS
  None = None
  Max = 160
  MinCharge = 60
  PauseMargin = 40
  MaxOver = 20
  ProbeMaxOver = 35
  UpPeriod = 20
  DownPeriod = 5
  CutMargin = 40
  StartThreshold = 80
  LbPeriod = 5
  LbLag = 2
  CarPeriod = 10
  BurstPeriod = 1
  IdleGrant = 30
  DrawGaps = {0, 11}
  StartLag = 5
  RampUp = 10
  RampDown = 25
  Targets = {60, 100}
  Restarts = FALSE
  Disables = TRUE
PROPERTIES
  Reopens
  PauseStopsCar
  Settles
