\* Targets moved and the controller rebooted at every moment, both kinds of car of
\* the replay tests.
SPECIFICATION Spec
CONSTANTS
  None = None
  Max = 160
  MinCharge = 60
  PauseMargin = 40
  MaxOver = 20
  ProbeMaxOver = 35
  UpPeriod = 30
  DownPeriod = 5
  CutMargin = 40
  StartThreshold = 80
  LbPeriod = 6
  LbLag = 4
  CarPeriod = 10
  BurstPeriod = 2
  IdleGrant = 0
  DrawGaps = {0, 11}
  StartLag = 15
  RampUp = 5
  RampDown = 25
  Targets = {60, 80, 160}
  Restarts = TRUE
  Disables = FALSE
INVARIANTS
  TypeOK
PROPERTIES
  OnlyAPauseCuts
