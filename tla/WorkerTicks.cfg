\* One worker: messages of every kind, probe commands up to one per tick, an OTA,
\* a lost connection, failing windows, resets at any moment.
SPECIFICATION FairSpec
CONSTANTS
  ControlTick = 1
  AutoWake = 2
  ProbeTime = 2
  Watchdog = 4
  MaxRx = 2
  MaxBurst = 2
  MaxCommands = 1
  MaxTriggers = 2
  MaxDrops = 1
INVARIANTS
  WorkerTypeOK
  TickLagBounded
  WatchdogSparesSessions
  RevertsToProven
PROPERTIES
  TickRecurs
  NoFlashLoop
