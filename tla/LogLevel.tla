------------------------------ MODULE LogLevel ------------------------------
(***************************************************************************)
(* The runtime log level of firmware/src/logging.rs on the millisecond     *)
(* clock, which wraps.  0 as a deadline stands for none.                   *)
(***************************************************************************)
EXTENDS Integers

CONSTANTS
  Wrap,         \* the clock counts modulo this: 2^32 ms, 49.7 days
  DebugTtl      \* how long a raised level lasts: 15 min

ASSUME LevelAssumption ==
  Wrap \in Nat /\ DebugTtl \in Nat \ {0} /\ 2 * (DebugTtl + 1) <= Wrap

VARIABLES
  clock,        \* esp_timer, in milliseconds, as u32
  level,        \* the live filter
  until,        \* DEBUG_UNTIL_MS
  debugAge      \* time since the level was last raised (history, saturating)

levelVars == <<level, until, debugAge>>

LevelInit == level = "info" /\ until = 0 /\ debugAge = 0

LevelBoots == level' = "info" /\ until' = 0 /\ debugAge' = 0

\* Mutant: a deadline that falls on 0 is taken as it is.
DeadlineFromPlain(now) == (now + DebugTtl) % Wrap

\* wrapping_add, then max(1), so that a deadline is never 0.
DeadlineFrom(now) ==
  LET deadline == (now + DebugTtl) % Wrap IN IF deadline = 0 THEN 1 ELSE deadline

\* set_level.
SetLevel(new, now) ==
  /\ level' = new
  /\ until' = IF new = "debug" THEN DeadlineFrom(now) ELSE 0
  /\ debugAge' = 0

\* Mutant: the clock is compared as if it never wrapped.
ExpiredPlain(now) == until # 0 /\ now >= until

\* now is at or past the deadline, on a clock that wraps.
Expired(now) == until # 0 /\ (now - until) % Wrap < (Wrap - 1) \div 2

\* tick_level_expiry, in every control tick.
TickLevelExpiry(now) ==
  IF Expired(now) THEN SetLevel("info", now) ELSE UNCHANGED levelVars

LevelElapses ==
  /\ debugAge' = IF level = "debug" /\ debugAge < Wrap THEN debugAge + 1 ELSE debugAge
  /\ UNCHANGED <<level, until>>

-----------------------------------------------------------------------------
\* logging.rs on #3: a raised level lasts its DebugTtl; no tick ends it before,
\* wherever the clock wraps under it.
DebugLasts == level = "debug" /\ debugAge < DebugTtl => ~Expired(clock)
=============================================================================
