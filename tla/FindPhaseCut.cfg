\* replay.rs: no phase of the box's clock against the feedback loses the session;
\* the fastest of the three clocks the test uses.
SPECIFICATION Spec
CONSTANTS
  None = None
  Max = 160
  MinCharge = 60
  PauseMargin = 40
  MaxOver = 20
  ProbeMaxOver = 35
  UpPeriod = 30
  DownPeriod = 4
  CutMargin = 40
  StartThreshold = 80
  LbPeriod = 6
  LbLag = 4
  CarPeriod = 10
  BurstPeriod = 2
  IdleGrant = 0
  DrawGaps = {11}
  StartLag = 15
  RampUp = 5
  RampDown = 25
  Targets = {80, 100}
  Restarts = FALSE
  Disables = FALSE
PROPERTIES
  OnlyAPauseCuts
