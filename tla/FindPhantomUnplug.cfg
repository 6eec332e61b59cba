\* A pulse that is over before its own A is printed.
SPECIFICATION Spec
CONSTANTS
  None = None
  Max = 160
  MinCharge = 60
  PauseMargin = 40
  MaxOver = 20
  ProbeMaxOver = 35
  SettleTime = 4
  MaxAttempts = 2
  PrintLag = 2
  TickLag = 1
  Cn28Timeout = 6
  Pulses = {1}
  MaxPrints = 2
INVARIANTS
  NoPhantomUnplug
