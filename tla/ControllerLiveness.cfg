\* Fair scheduling with failing relay writes and rejected inputs.
SPECIFICATION FairSpec
CONSTANTS
  None = None
  Max = 160
  MinCharge = 60
  PauseMargin = 40
  MaxOver = 20
  ProbeMaxOver = 35
  MaxAttempts = 2
  HasRelay = TRUE
  GridTimeout = 1
  Cn28Timeout = 1
  ProbeTimeout = 1
  PilotDelay = 1
  PilotWindow = 1
  TickLag = 1
  Targets = {100}
  Feedbacks <- LiveFeedbacks
  Lifts = {36}
  Pulses = {2}
  BadTopics = {"probe_over"}
  NvsFaults = FALSE
  RelayFaults = TRUE
  SettleTime = 1
INVARIANTS
  TypeOK
PROPERTIES
  KeepsPromise
  RelayCloses
  DisableStops
