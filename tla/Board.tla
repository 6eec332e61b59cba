------------------------------- MODULE Board --------------------------------
(***************************************************************************)
(* The board as firmware/src/main.rs brings it up: the join, then the      *)
(* worker, then the meter slave.  Three threads share two atomics and a    *)
(* clock, and a restart by any of them takes all along.                    *)
(***************************************************************************)
EXTENDS WifiLink, MeterSlave

CONSTANTS
  TickLag,      \* longest time between two control ticks: WorkerLoop
  PowerCuts     \* whether the board is reset from outside

ASSUME BoardAssumption ==
  TickLag \in Nat \ {0} /\ 2 * (TickLag + 1) < Wrap /\ PowerCuts \in BOOLEAN

VARIABLES
  worker,       \* the worker's thread: not started, between ticks, within one
  nowMs,        \* the clock as the tick read it
  sinceRead,    \* time since it did (history)
  sinceTick     \* time since the last tick began (history)

tickVars == <<worker, nowMs, sinceRead, sinceTick>>
vars     == <<wifiVars, levelVars, slaveVars, clock, tickVars>>

Init ==
  /\ WifiInit /\ LevelInit /\ MeterInit
  /\ clock = 0
  /\ worker = "none" /\ nowMs = 0 /\ sinceRead = 0 /\ sinceTick = 0

Wifi ==
  /\ WifiNext
  /\ UNCHANGED <<levelVars, slaveVars, clock, tickVars>>

\* main, past wifi::connect: the worker first, then the slave.
SpawnWorker ==
  /\ stage = "watched" /\ worker = "none"
  /\ worker' = "idle" /\ sinceTick' = 0
  /\ UNCHANGED <<wifiVars, levelVars, slaveVars, clock, nowMs, sinceRead>>

SpawnSlave ==
  /\ worker # "none" /\ ~up
  /\ up' = TRUE /\ spoilt' = TRUE
  /\ UNCHANGED <<wifiVars, levelVars, asked, line, fifo, frame, answering, answers,
                 stampVars, clock, tickVars>>

Meter ==
  /\ MeterNext
  /\ UNCHANGED <<wifiVars, levelVars, clock, tickVars>>

\* What a payload may name; anything else is rejected and changes nothing.
Levels == {"info", "debug"}

\* A message on the log-level topic.
ApplyLevel(new) ==
  /\ worker = "idle"
  /\ SetLevel(new, clock)
  /\ UNCHANGED <<wifiVars, slaveVars, clock, tickVars>>

\* tick_control reads the clock and expires the level with it ...
TickReads ==
  /\ worker = "idle"
  /\ worker' = "ticks" /\ nowMs' = clock /\ sinceRead' = 0 /\ sinceTick' = 0
  /\ TickLevelExpiry(clock)
  /\ UNCHANGED <<wifiVars, slaveVars, clock>>

\* Mutant: a subtraction that stops at 0.
PollAgeSaturating == IF nowMs > lastPoll THEN nowMs - lastPoll ELSE 0

\* ... and takes from it the stamp it loads later.
PollAge == (nowMs - lastPoll) % Wrap

TickLoads ==
  /\ worker = "ticks"
  /\ worker' = "idle" /\ nowMs' = 0 /\ sinceRead' = 0
  /\ UNCHANGED <<wifiVars, levelVars, slaveVars, clock, sinceTick>>

Restart ==
  /\ WifiBoots /\ LevelBoots /\ MeterBoots
  /\ clock' = 0
  /\ worker' = "none" /\ nowMs' = 0 /\ sinceRead' = 0 /\ sinceTick' = 0

WifiRestarts == (LastAttempt \/ OutOfTries) /\ Restart

PowerCycle == PowerCuts /\ worker # "none" /\ Restart

\* A unit of the clock.  The bus is quiet by then and the tick under way.
Elapse ==
  /\ Quiet
  /\ worker # "none" => sinceTick < TickLag
  /\ worker = "ticks" => sinceRead < 1
  /\ clock' = (clock + 1) % Wrap
  /\ LevelElapses /\ MeterElapses
  /\ sinceTick' = IF worker = "none" THEN 0 ELSE sinceTick + 1
  /\ sinceRead' = IF worker = "ticks" THEN sinceRead + 1 ELSE 0
  /\ UNCHANGED <<wifiVars, worker, nowMs>>

Next ==
  \/ Wifi \/ SpawnWorker \/ SpawnSlave \/ Meter
  \/ \E new \in Levels : ApplyLevel(new)
  \/ TickReads \/ TickLoads
  \/ WifiRestarts \/ PowerCycle
  \/ Elapse

Spec == Init /\ [][Next]_vars

-----------------------------------------------------------------------------
(***************************************************************************)
(* Properties.                                                             *)
(***************************************************************************)
\* logging.rs on #3: debug is "bounded and self-expiring", wherever the clock wraps:
\* it is over after DebugTtl, the unit max(1) adds and the wait for the tick.
DebugSelfExpires == level = "debug" => debugAge <= DebugTtl + 1 + TickLag

\* The age of a poll stamped before the tick read its clock is the true one, for
\* any gap under the wrap and wherever the clock wraps in it.
PollAgeTrue ==
  worker = "ticks" /\ stampAge \in sinceRead .. Wrap - 1
    => PollAge = (stampAge - sinceRead)

-----------------------------------------------------------------------------
(***************************************************************************)
(* What the documentation says and the code does not do.                   *)
(***************************************************************************)

\* charge.rs on Handoff: wrapping_sub "yields the correct age for any real gap": a
\* poll of a moment ago is never an old one.
FreshPollLooksFresh == worker = "ticks" /\ stampAge <= 1 => PollAge <= 1

\* probe.rs on #87: a WiFi drop must never end in a restart, because that "kills the
\* RS485 slave thread and lets the box see a silent meter".
MeterStaysUp == [][up => up']_vars
=============================================================================
