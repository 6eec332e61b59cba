\* Wakeup pulses and the post-boot pilot probe together, under a pilot that is
\* unknown, appears and disappears: repeats, pulses at the tick boundary, reboots.
SPECIFICATION HSpec
CONSTANTS
  None = None
  Max = 160
  MinCharge = 60
  PauseMargin = 40
  MaxOver = 20
  ProbeMaxOver = 35
  SettleTime = 2
  MaxAttempts = 2
  HasRelay = TRUE
  GridTimeout = 1
  Cn28Timeout = 1
  ProbeTimeout = 1
  PilotDelay = 1
  PilotWindow = 2
  TickLag = 2
  Targets = {100}
  Feedbacks <- PilotFeedbacks
  Lifts = {}
  Pulses = {1, 3}
  BadTopics = {}
  NvsFaults = FALSE
  RelayFaults = FALSE
INVARIANTS
  RelayBounded
  PilotOfferBounded
  OneWindowPerBoot
PROPERTIES
  NoOfferAfterTickWithOpenPilot
