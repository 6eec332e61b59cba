----------------------------- MODULE WakePulse ------------------------------
(***************************************************************************)
(* A wakeup end to end: evcc's command, the relay, the box that takes the  *)
(* open pilot for an unplugged car and prints that late, and the letter    *)
(* evcc reads.  The commands and the tick are Controller's, reduced to     *)
(* what they do to the relay, which obeys here, and the letter; a car that *)
(* is to be woken draws nothing.  The controller, the pilot it was last    *)
(* fed and the tick outlive the broker session (firmware/src/probe.rs);    *)
(* the snapshot the pilot comes from does not.                             *)
(***************************************************************************)
EXTENDS CpWake, Sequences

CONSTANTS
  PrintLag,     \* longest way of a pilot print to the controller, about 4 s
  TickLag,      \* longest time between two control ticks
  Pulses,       \* lengths a command may ask for
  Cn28Timeout,  \* CN28_TIMEOUT: a pilot older than this is not shown
  MaxPrints     \* bound: prints on their way when the car moves

ASSUME PulseAssumption ==
  /\ {PrintLag, TickLag, Cn28Timeout, MaxPrints} \subseteq Nat \ {0}
  /\ Pulses \subseteq Nat \ {0}
  /\ \E p \in Pulses : \A q \in Pulses : q <= p      \* MAX_PULSE_S
  /\ TickLag + PrintLag < SettleTime      \* 1 s and 4 s against 10 s

VARIABLES
  vehicle,      \* "away", "plugged" and idle, or "charging"
  relayOpen,    \* the relay in the pilot's line
  prints,       \* on their way: [cp, age], in order; cp None is a line destroyed
  heard,        \* a window of this broker session has fed the controller
  cp, fedAge,   \* the pilot the controller was last fed, and how long ago
  wake, letter, \* the pulse; charge_state of the last tick
  sinceTick,
  missed,       \* the pilot line after the one last fed was destroyed (history)
  knownAge,     \* time since it was first fed by this session, or again after that (history)
  movedAge,     \* time since the car was plugged in or taken away (history)
  pulseAge      \* time since the pulse that holds the relay open started (history)

carVars     == <<vehicle, movedAge>>
sessionVars == <<heard, knownAge, missed>>
feedVars    == <<cp, fedAge>>
pulseVars   == <<wake, relayOpen, pulseAge>>
vars        == <<carVars, prints, sessionVars, feedVars, pulseVars, letter, sinceTick>>

LongestPulse == CHOOSE p \in Pulses : \A q \in Pulses : q <= p

\* What is longer ago is not told apart: of a news that is still to arrive, and of a
\* pulse.
NewsHorizon  == PrintLag + TickLag + 1
PulseHorizon == LongestPulse + TickLag + 1

Init ==
  /\ vehicle = "away" /\ movedAge = NewsHorizon
  /\ prints = <<>> /\ cp = None /\ fedAge = 0
  /\ heard = FALSE /\ knownAge = 0 /\ missed = FALSE
  /\ wake = NoPulse /\ relayOpen = FALSE /\ pulseAge = 0
  /\ letter = "" /\ sinceTick = 0

-----------------------------------------------------------------------------
\* What the box sees on the line.
Pilot(car, open) ==
  IF open \/ car = "away" THEN "NoVehicle"
  ELSE IF car = "plugged" THEN "Connected"
  ELSE "Charging"

\* It prints transitions only, each once, and the line may be destroyed: spliced, or
\* beyond what the UART buffers while no session reads.
PrintsTransition(car, open) ==
  IF Pilot(car, open) = Pilot(vehicle, relayOpen) THEN UNCHANGED prints
  ELSE \E printed \in {Pilot(car, open), None} :
         prints' = Append(prints, [cp |-> printed, age |-> 0])

\* An open pilot ends a charge, and none begins under it.
VehicleMoves(to) ==
  /\ Len(prints) < MaxPrints
  /\ to # vehicle /\ "plugged" \in {to, vehicle}
  /\ to = "charging" => ~relayOpen
  /\ vehicle' = to
  /\ movedAge' = IF "away" \in {to, vehicle} THEN 0 ELSE movedAge
  /\ PrintsTransition(to, relayOpen)
  /\ UNCHANGED <<sessionVars, feedVars, pulseVars, letter, sinceTick>>

DriveCpRelay(open) ==
  LET car == IF open /\ vehicle = "charging" THEN "plugged" ELSE vehicle
  IN /\ relayOpen' = open /\ vehicle' = car
     /\ PrintsTransition(car, open)

-----------------------------------------------------------------------------
(***************************************************************************)
(* The worker reads.                                                       *)
(***************************************************************************)
\* A window feeds the controller; the first of a session starts from no pilot.
Feed(pilot) ==
  /\ cp' = pilot /\ fedAge' = 0
  /\ heard' = TRUE
  /\ UNCHANGED <<carVars, pulseVars, letter, sinceTick, knownAge>>

\* It had a pilot line.
FeedPilot ==
  /\ prints # <<>> /\ Head(prints).cp # None
  /\ Feed(Head(prints).cp)
  /\ prints' = Tail(prints) /\ missed' = FALSE

\* It had others: the pilot is the one this session knows.
FeedMetering == Feed(IF heard THEN cp ELSE None) /\ UNCHANGED <<prints, missed>>

\* A destroyed pilot line does not decode, and feeds nothing.
ReadLost ==
  /\ prints # <<>> /\ Head(prints).cp = None
  /\ prints' = Tail(prints)
  /\ missed' = heard /\ knownAge' = 0
  /\ UNCHANGED <<carVars, heard, feedVars, pulseVars, letter, sinceTick>>

\* Mutant: the next session takes up the snapshot of the last.
SessionEndsKeepingSnapshot(lost) ==
  /\ prints' = SubSeq(prints, lost + 1, Len(prints))
  /\ UNCHANGED <<carVars, sessionVars, feedVars, pulseVars, letter, sinceTick>>

\* The broker session ends: the first prints that were read die with it and the next
\* will know no pilot, but until it feeds one the controller goes on with the last.
SessionEnds(lost) ==
  /\ heard \/ prints # <<>>
  /\ heard' = FALSE /\ knownAge' = 0 /\ missed' = FALSE
  /\ prints' = SubSeq(prints, lost + 1, Len(prints))
  /\ UNCHANGED <<carVars, feedVars, pulseVars, letter, sinceTick>>

-----------------------------------------------------------------------------
(***************************************************************************)
(* The controller.                                                         *)
(***************************************************************************)
ApplyWakeup(length) ==
  /\ ~IsOpen(wake)
  /\ wake.attempts < MaxAttempts
  /\ wake' = Request(wake, length)
  /\ pulseAge' = 0
  /\ DriveCpRelay(TRUE)
  /\ UNCHANGED <<movedAge, sessionVars, feedVars, letter, sinceTick>>

\* A repeat during the pulse is ignored.
RepeatWakeup(length) ==
  /\ IsOpen(wake)
  /\ wake' = Request(wake, length)
  /\ UNCHANGED <<carVars, prints, sessionVars, feedVars, relayOpen, pulseAge, letter,
                 sinceTick>>

\* What the law serves: nothing over an open pilot.
Report == IF IsOpen(wake) THEN PauseReport ELSE Max

PilotLetter == ChargeState(Report, cp, fedAge > Cn28Timeout, 0)

Tick ==
  /\ DriveCpRelay(IsOpen(wake))
  /\ letter' = ShownLetter(wake, PilotLetter)
  /\ wake' = AfterShowing(wake, PilotLetter)
  /\ sinceTick' = 0
  /\ pulseAge' = IF IsOpen(wake) THEN pulseAge ELSE 0
  /\ UNCHANGED <<movedAge, sessionVars, feedVars>>

\* The relay falls back; the session, the pilot and the mask are gone.  What the UART
\* held is lost as SessionEnds loses it.
Reboot ==
  /\ DriveCpRelay(FALSE)
  /\ cp' = None /\ fedAge' = 0
  /\ heard' = FALSE /\ knownAge' = 0 /\ missed' = FALSE
  /\ wake' = [NoPulse EXCEPT !.attempts = wake.attempts]
  /\ letter' = "" /\ sinceTick' = 0 /\ pulseAge' = 0
  /\ UNCHANGED movedAge

Older(age, top) == IF age < top THEN age + 1 ELSE age

\* A session that hears the box reads each print in time; without one they wait.
Elapse ==
  /\ sinceTick < TickLag
  /\ heard => \A i \in DOMAIN prints : prints[i].age < PrintLag
  /\ prints' = [i \in DOMAIN prints |->
                  [prints[i] EXCEPT !.age = Older(@, PrintLag)]]
  /\ wake' = AfterUnit(wake)
  /\ sinceTick' = sinceTick + 1
  /\ fedAge' = Older(fedAge, Cn28Timeout + 1)
  /\ knownAge' = IF heard /\ ~missed THEN Older(knownAge, NewsHorizon) ELSE 0
  /\ movedAge' = Older(movedAge, NewsHorizon)
  /\ pulseAge' = IF relayOpen THEN Older(pulseAge, PulseHorizon) ELSE 0
  /\ UNCHANGED <<vehicle, relayOpen, heard, missed, cp, letter>>

Next ==
  \/ \E to \in {"away", "plugged", "charging"} : VehicleMoves(to)
  \/ FeedPilot \/ FeedMetering \/ ReadLost
  \/ \E lost \in 0 .. Len(prints) : SessionEnds(lost)
  \/ \E length \in Pulses : ApplyWakeup(length) \/ RepeatWakeup(length)
  \/ Tick \/ Reboot \/ Elapse

Spec == Init /\ [][Next]_vars

\* Time goes on, the worker ticks, and a session that hears the box reads on.
Fairness ==
  /\ WF_vars(Elapse) /\ WF_vars(Tick)
  /\ WF_vars(heard /\ (FeedPilot \/ ReadLost))

FairSpec == Spec /\ Fairness

-----------------------------------------------------------------------------
(***************************************************************************)
(* Properties.                                                             *)
(***************************************************************************)
\* SPECS.md on charge_state: "an `A` reaching evcc is an unplug that would end the
\* session mid-wakeup".  Pulses, repeats, late prints and lost sessions in any order,
\* evcc reads A only of a car that is away or was until just now, once a session has
\* heard the box for as long with no pilot line destroyed.  It takes pulses longer
\* than PrintLag: of a shorter one the B printed before it releases the mask, and the
\* A of the pulse itself comes after.
NoPhantomUnplug ==
  letter = "A" =>
    \/ vehicle = "away"
    \/ movedAge <= PrintLag + TickLag
    \/ knownAge <= PrintLag + TickLag

\* wake.rs: "one length per command, never stretched by a repeat".  From its start
\* no pulse keeps the pilot open for longer than the length and the wait for a tick.
NeverStretched == relayOpen => pulseAge <= LongestPulse + TickLag

\* SPECS.md: "an unplug during the pulse still reaches evcc".  Of a car that stays
\* away evcc is told in the end, if a session lasts that hears the box: then the
\* letter is A, or none where that session knows no pilot.
UnplugReachesEvcc ==
  <>[](vehicle = "away" /\ heard /\ ~missed /\ fedAge <= Cn28Timeout)
    => <>[](letter = IF cp = None THEN "" ELSE "A")

-----------------------------------------------------------------------------
(***************************************************************************)
(* What the documentation says and the code does not do.                   *)
(***************************************************************************)

\* The same without the exceptions.  An A fed near the pulse's end, a session that
\* dies before the B is read, and a broker that is back after the mask has lapsed
\* and before the feed is stale: the Connected tick publishes the pulse's own A.
UnplugOnlyOfTheCar ==
  letter = "A" => vehicle = "away" \/ movedAge <= PrintLag + TickLag
=============================================================================
