\* Links that drop and come back, noise on the bus, a clock that wraps, resets.
SPECIFICATION Spec
CONSTANTS
  JoinAttempts = 2
  MaxReconnectFails = 1
  Wrap = 8
  DebugTtl = 2
  TickLag = 1
  PowerCuts = TRUE
INVARIANTS
  RestartMeansOutage
  LossIsPending
  NetworkFlagTrue
  DebugSelfExpires
  DebugLasts
  AnswersOwnPoll
  CleanPollAnswered
  PollAgeTrue
