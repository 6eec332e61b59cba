\* Two pulses longer than the way of a print, repeats, a car that comes and goes,
\* reboots, sessions that end and outages of any length, pilot lines destroyed.
SPECIFICATION FairSpec
CONSTANTS
  None = None
  Max = 160
  MinCharge = 60
  PauseMargin = 40
  MaxOver = 20
  ProbeMaxOver = 35
  SettleTime = 3
  MaxAttempts = 2
  PrintLag = 1
  TickLag = 1
  Cn28Timeout = 4
  Pulses = {2, 3}
  MaxPrints = 2
INVARIANTS
  NoPhantomUnplug
  NeverStretched
PROPERTIES
  UnplugReachesEvcc
