\* The regulation and its failsafes: a target the car cannot hold and one it can,
\* every kind of feedback, measurement probes, reboots; no relay.
SPECIFICATION Spec
CONSTANTS
  None = None
  Max = 160
  MinCharge = 60
  PauseMargin = 40
  MaxOver = 20
  ProbeMaxOver = 35
  SettleTime = 2
  MaxAttempts = 1
  HasRelay = FALSE
  GridTimeout = 1
  Cn28Timeout = 1
  ProbeTimeout = 1
  PilotDelay = 1
  PilotWindow = 1
  TickLag = 2
  Targets = {50, 60, 100}
  Feedbacks <- RunningFeedbacks
  Lifts = {0, 35}
  Pulses = {}
  BadTopics = {}
  NvsFaults = FALSE
  RelayFaults = FALSE
INVARIANTS
  BlindOfferBounded
  RebootResumes
  PauseMeansHeld
  ProbeSelfExpires
PROPERTIES
  ChargingLetterMatchesOffer
