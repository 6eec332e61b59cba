----------------------------- MODULE WakeProofs -----------------------------
(***************************************************************************)
(* The invariants of WakePulse, proved for every value of its constants:   *)
(* no pulse is stretched, and one that is longer than the way of a print   *)
(* shows evcc no unplug that was none, once a broker session knows the     *)
(* pilot again.                                                            *)
(***************************************************************************)
EXTENDS WakePulse, TLAPS

-----------------------------------------------------------------------------
(***************************************************************************)
(* The inductive invariant.                                                *)
(***************************************************************************)
Vehicles == {"away", "plugged", "charging"}

PrintForm == [cp: CpStates \cup {None}, age: 0 .. PrintLag]

WakeTypeOK ==
  /\ vehicle \in Vehicles /\ relayOpen \in BOOLEAN /\ wake \in Pulse
  /\ {movedAge, pulseAge, knownAge} \subseteq Nat /\ sinceTick \in 0 .. TickLag
  /\ prints \in Seq(PrintForm) /\ cp \in CpStates \cup {None}

\* The relay is open from the start of a pulse to the first tick after its end, and
\* until then nothing has settled.
PulseInv ==
  /\ IsOpen(wake) => relayOpen /\ wake.left + pulseAge <= LongestPulse
  /\ relayOpen => /\ wake.left # None /\ ~wake.settled
                  /\ wake.left + sinceTick >= 0
                  /\ pulseAge <= LongestPulse + sinceTick

\* The session knows the pilot: it was fed one, and the line after it is not lost.
Live == heard /\ ~missed

KnownInv == Live \/ knownAge = 0

\* What was printed last, or fed, is the pilot of now, unless it was destroyed or
\* belongs to a session that ended.
Tracked ==
  IF prints = <<>> THEN Live => cp \in {None, Pilot(vehicle, relayOpen)}
                   ELSE prints[Len(prints)].cp \in {None, Pilot(vehicle, relayOpen)}

\* A relay that a tick closes was open for longer than a print is on its way ...
Outlasts ==
  /\ IsOpen(wake) => wake.left + pulseAge > PrintLag
  /\ relayOpen /\ ~IsOpen(wake) => pulseAge > PrintLag

\* ... and nothing was printed under it: what is still queued by then has waited for a
\* session that knows the pilot.
Silent ==
  relayOpen => \A i \in 1 .. Len(prints) :
                 \/ pulseAge <= prints[i].age
                 \/ prints[i].age = PrintLag /\ knownAge = 0

\* The car was plugged in, or the session knows the pilot, no longer than print i is
\* on its way.
Explains(i) == movedAge <= prints[i].age \/ knownAge <= prints[i].age

\* The print that follows an A was made by the relay that closes at the end of a pulse
\* and is on its way to end the mask.
MaskHolds ==
  \/ relayOpen
  \/ /\ wake.left # None /\ ~wake.settled /\ wake.left <= 0
     /\ wake.left + prints[1].age >= -TickLag

\* Where the pilot left A, the car, a session or a pulse under its mask did it.
FirstLeavesA ==
  cp = "NoVehicle" /\ cp # None /\ prints # <<>> => Explains(1) \/ MaskHolds

RestLeaveA ==
  \A i \in 1 .. Len(prints) - 1 :
    prints[i].cp = "NoVehicle" /\ prints[i].cp # None => Explains(i + 1)

LeavesA == FirstLeavesA /\ RestLeaveA

\* An A that evcc reads had its cause within the way of a print before the tick.
LetterInv ==
  letter = "A" => \/ vehicle = "away"
                  \/ movedAge <= PrintLag + sinceTick
                  \/ knownAge <= PrintLag + sinceTick

WakeInv == WakeTypeOK /\ PulseInv /\ KnownInv /\ Tracked
MaskInv == WakeInv /\ Outlasts /\ Silent /\ LeavesA /\ LetterInv
-----------------------------------------------------------------------------
(***************************************************************************)
(* The operators.                                                          *)
(***************************************************************************)

\* There is a longest pulse, and its horizon lies beyond every pulse that ends in time.
LEMMA Lengths ==
  /\ LongestPulse \in Pulses /\ \A q \in Pulses : q <= LongestPulse
  /\ \A p \in Pulses : p \in Nat \ {0}
  /\ LongestPulse \in Nat \ {0} /\ PrintLag \in Nat \ {0} /\ TickLag \in Nat \ {0}
  /\ SettleTime \in Nat \ {0} /\ TickLag + PrintLag < SettleTime
  /\ NewsHorizon \in Nat /\ PulseHorizon \in Nat /\ LongestPulse + TickLag < PulseHorizon
<1>1. LongestPulse \in Pulses /\ \A q \in Pulses : q <= LongestPulse
  BY PulseAssumption DEF LongestPulse
<1>2. \A p \in Pulses : p \in Nat \ {0}
  BY PulseAssumption
<1>3. LongestPulse \in Nat \ {0}
  BY <1>1, <1>2
<1> HIDE DEF LongestPulse
<1>4. /\ PrintLag \in Nat \ {0} /\ TickLag \in Nat \ {0}
      /\ SettleTime \in Nat \ {0} /\ TickLag + PrintLag < SettleTime
  BY PulseAssumption, WakeAssumption
<1>5. NewsHorizon \in Nat /\ PulseHorizon \in Nat /\ LongestPulse + TickLag < PulseHorizon
  BY <1>3, <1>4 DEF NewsHorizon, PulseHorizon
<1> QED BY <1>1, <1>2, <1>3, <1>4, <1>5

\* The box sees a car exactly when there is one on a closed line.
LEMMA PilotTyped ==
  ASSUME NEW car \in Vehicles, NEW open \in BOOLEAN
  PROVE  /\ Pilot(car, open) \in CpStates
         /\ Pilot(car, open) = "NoVehicle" <=> open \/ car = "away"
<1>1. CASE open \/ car = "away"
  <2>1. Pilot(car, open) = "NoVehicle"
    BY <1>1, Zenon DEF Pilot
  <2> QED BY <1>1, <2>1 DEF CpStates
<1>2. CASE ~(open \/ car = "away") /\ car = "plugged"
  <2>1. Pilot(car, open) = "Connected"
    BY <1>2 DEF Pilot
  <2> QED BY <1>2, <2>1 DEF CpStates
<1>3. CASE ~(open \/ car = "away") /\ car = "charging"
  <2>1. Pilot(car, open) = "Charging"
    BY <1>3 DEF Pilot
  <2> QED BY <1>3, <2>1 DEF CpStates
<1> QED BY <1>1, <1>2, <1>3 DEF Vehicles

LEMMA OlderTrue ==
  ASSUME NEW age \in Nat, NEW top \in Nat
  PROVE  /\ Older(age, top) \in Nat /\ Older(age, top) <= age + 1
         /\ age <= Older(age, top)
         /\ Older(age, top) = age + 1 \/ top <= Older(age, top)
BY DEF Older

\* A transition goes to the end of the queue.
LEMMA Transition ==
  ASSUME WakeTypeOK, NEW car \in Vehicles, NEW open \in BOOLEAN,
         PrintsTransition(car, open)
  PROVE  /\ prints' \in Seq(PrintForm)
         /\ \/ prints' = prints /\ Pilot(car, open) = Pilot(vehicle, relayOpen)
            \/ /\ Pilot(car, open) # Pilot(vehicle, relayOpen)
               /\ prints' # <<>> /\ Len(prints') = Len(prints) + 1
               /\ \A i \in 1 .. Len(prints) : prints'[i] = prints[i]
               /\ prints'[Len(prints')].cp \in {None, Pilot(car, open)}
               /\ prints'[Len(prints')].age = 0
<1>1. prints \in Seq(PrintForm)
  BY DEF WakeTypeOK
<1>2. CASE Pilot(car, open) = Pilot(vehicle, relayOpen)
  BY <1>1, <1>2 DEF PrintsTransition
<1>3. ASSUME Pilot(car, open) # Pilot(vehicle, relayOpen),
             NEW printed \in {Pilot(car, open), None},
             prints' = Append(prints, [cp |-> printed, age |-> 0])
      PROVE  /\ prints' \in Seq(PrintForm)
             /\ prints' # <<>> /\ Len(prints') = Len(prints) + 1
             /\ \A i \in 1 .. Len(prints) : prints'[i] = prints[i]
             /\ prints'[Len(prints')].cp \in {None, Pilot(car, open)}
             /\ prints'[Len(prints')].age = 0
  <2> DEFINE new == [cp |-> printed, age |-> 0]
  <2>1. /\ new \in PrintForm /\ new.cp \in {None, Pilot(car, open)} /\ new.age = 0
        /\ prints' = Append(prints, new)
    <3>1. printed \in CpStates \cup {None}
      BY <1>3, PilotTyped
    <3>2. 0 \in 0 .. PrintLag
      BY Lengths
    <3>3. new \in PrintForm
      BY <3>1, <3>2 DEF PrintForm
    <3> QED BY <1>3, <3>3
  <2> HIDE DEF new
  <2>2. /\ Append(prints, new) \in Seq(PrintForm) /\ Append(prints, new) # <<>>
        /\ Len(Append(prints, new)) = Len(prints) + 1
        /\ \A i \in 1 .. Len(prints) : Append(prints, new)[i] = prints[i]
        /\ Append(prints, new)[Len(prints) + 1] = new
    BY <1>1, <2>1
  <2> QED BY <2>1, <2>2
<1>4. CASE Pilot(car, open) # Pilot(vehicle, relayOpen)
  <2>1. PICK printed \in {Pilot(car, open), None} :
          prints' = Append(prints, [cp |-> printed, age |-> 0])
    BY <1>4, Zenon DEF PrintsTransition
  <2> QED BY <1>3, <1>4, <2>1
<1> QED BY <1>2, <1>4

\* No print is on its way for longer than PrintLag.
LEMMA PrintAges ==
  ASSUME NEW queue \in Seq(PrintForm), NEW i \in 1 .. Len(queue)
  PROVE  queue[i].age \in Nat /\ queue[i].age <= PrintLag
<1>1. queue[i] \in PrintForm
  OBVIOUS
<1>2. queue[i].age \in 0 .. PrintLag
  BY <1>1 DEF PrintForm
<1> QED BY <1>2, Lengths

\* Time takes every print along; where no session hears the box one that is as old as
\* can be waits.
LEMMA PrintsAge ==
  ASSUME WakeTypeOK, Elapse
  PROVE  /\ prints' \in Seq(PrintForm) /\ Len(prints') = Len(prints)
         /\ prints' = <<>> <=> prints = <<>>
         /\ \A i \in 1 .. Len(prints) :
              /\ prints'[i].cp = prints[i].cp
              /\ \/ prints'[i].age = prints[i].age + 1
                 \/ prints'[i].age = PrintLag /\ prints[i].age = PrintLag
              /\ heard => prints'[i].age = prints[i].age + 1
<1> DEFINE older(i) == [prints[i] EXCEPT !.age = Older(@, PrintLag)]
<1>1. prints \in Seq(PrintForm) /\ DOMAIN prints = 1 .. Len(prints) /\ Len(prints) \in Nat
  BY DEF WakeTypeOK
<1>2. ASSUME NEW i \in 1 .. Len(prints)
      PROVE  /\ older(i) \in PrintForm
             /\ older(i).cp = prints[i].cp
             /\ \/ older(i).age = prints[i].age + 1
                \/ older(i).age = PrintLag /\ prints[i].age = PrintLag
             /\ heard => older(i).age = prints[i].age + 1
  <2>1. prints[i] \in PrintForm
    BY <1>1
  <2>2. prints[i].age \in 0 .. PrintLag /\ prints[i].cp \in CpStates \cup {None}
    BY <2>1 DEF PrintForm
  <2>3. /\ Older(prints[i].age, PrintLag) \in 0 .. PrintLag
        /\ \/ Older(prints[i].age, PrintLag) = prints[i].age + 1
           \/ Older(prints[i].age, PrintLag) = PrintLag /\ prints[i].age = PrintLag
        /\ prints[i].age < PrintLag => Older(prints[i].age, PrintLag) = prints[i].age + 1
    BY <2>2, Lengths DEF Older
  <2>4. heard => prints[i].age < PrintLag
    BY <1>1 DEF Elapse
  <2>5. /\ older(i) \in PrintForm /\ older(i).cp = prints[i].cp
        /\ older(i).age = Older(prints[i].age, PrintLag)
    BY <2>1, <2>2, <2>3 DEF PrintForm
  <2> QED BY <2>3, <2>4, <2>5, Zenon
<1>3. prints' = [i \in 1 .. Len(prints) |-> older(i)]
  BY <1>1 DEF Elapse
<1> HIDE DEF older
<1>4. prints' \in Seq(PrintForm) /\ Len(prints') = Len(prints)
  BY <1>1, <1>2, <1>3
<1>5. prints' = <<>> <=> prints = <<>>
  BY <1>1, <1>4
<1>6. \A i \in 1 .. Len(prints) : prints'[i] = older(i)
  BY <1>1, <1>3
<1> QED BY <1>2, <1>4, <1>5, <1>6, Zenon

\* What a tick reads of the pilot, and what the mask makes of it.
LEMMA LettersRead ==
  ASSUME WakeTypeOK
  PROVE  /\ PilotLetter = "A" => cp = "NoVehicle" /\ cp # None
         /\ cp \in {None, "NoVehicle"} => PilotLetter \in {"A", ""}
<1>1. ~(0 >= CurrentFlowing)
  BY DEF CurrentFlowing, Amp
<1> QED BY <1>1, Zenon DEF PilotLetter, ChargeState

\* Moving the relay ends a charge at most; it takes no car away.
LEMMA RelayMoves ==
  ASSUME WakeTypeOK, NEW open \in BOOLEAN, DriveCpRelay(open)
  PROVE  /\ vehicle' \in Vehicles /\ relayOpen' = open
         /\ vehicle' = "away" <=> vehicle = "away"
         /\ PrintsTransition(vehicle', relayOpen')
<1>1. vehicle' = IF open /\ vehicle = "charging" THEN "plugged" ELSE vehicle
  BY DEF DriveCpRelay
<1>2. relayOpen' = open /\ PrintsTransition(vehicle', relayOpen')
  BY DEF DriveCpRelay
<1>3. vehicle \in Vehicles /\ "plugged" \in Vehicles /\ "plugged" # "away"
      /\ "charging" # "away"
  BY DEF WakeTypeOK, Vehicles
<1> QED BY <1>1, <1>2, <1>3, Zenon

LEMMA Openness ==
  ASSUME NEW pulse
  PROVE  IsOpen(pulse) \in BOOLEAN
BY DEF IsOpen

\* A pulse stays a pulse.
LEMMA PulseTyped ==
  ASSUME NEW pulse \in Pulse
  PROVE  /\ \A p \in Pulses : Request(pulse, p) \in Pulse
         /\ \A shown : AfterShowing(pulse, shown) \in Pulse
         /\ AfterUnit(pulse) \in Pulse
         /\ [NoPulse EXCEPT !.attempts = pulse.attempts] \in Pulse
<1>1. \A p \in Pulses : Request(pulse, p) \in Pulse
  BY Lengths DEF Request, IsOpen, Pulse
<1>2. \A shown : AfterShowing(pulse, shown) \in Pulse
  BY DEF AfterShowing, Masks, IsOpen, Pulse
<1>3. AfterUnit(pulse) \in Pulse
  BY WakeAssumption, GrantAssumption DEF AfterUnit, Pulse
<1>4. [NoPulse EXCEPT !.attempts = pulse.attempts] \in Pulse
  BY DEF NoPulse, Pulse
<1> QED BY <1>1, <1>2, <1>3, <1>4

LEMMA TypeStep ==
  ASSUME WakeTypeOK, [Next]_vars
  PROVE  WakeTypeOK'
<1> USE DEF WakeTypeOK
<1>0. 0 \in Nat /\ 0 \in 0 .. TickLag
  BY Lengths
<1>1. ASSUME NEW to \in {"away", "plugged", "charging"}, VehicleMoves(to)
      PROVE  WakeTypeOK'
  <2>1. /\ vehicle' = to /\ movedAge' \in {0, movedAge} /\ to \in Vehicles
        /\ relayOpen' = relayOpen /\ wake' = wake /\ pulseAge' = pulseAge
        /\ knownAge' = knownAge /\ sinceTick' = sinceTick /\ cp' = cp
    BY <1>1 DEF VehicleMoves, pulseVars, sessionVars, feedVars, Vehicles
  <2>2. prints' \in Seq(PrintForm)
    BY <1>1, <2>1, Transition DEF VehicleMoves
  <2> QED BY <1>0, <2>1, <2>2
<1>2. CASE FeedPilot
  <2>1. /\ prints # <<>> /\ prints' = Tail(prints) /\ cp' = Head(prints).cp
        /\ UNCHANGED <<carVars, pulseVars, knownAge, sinceTick>>
    BY <1>2 DEF FeedPilot, Feed
  <2>2. Head(prints) \in PrintForm /\ prints' \in Seq(PrintForm)
    BY <2>1
  <2> QED BY <2>1, <2>2 DEF PrintForm, carVars, pulseVars
<1>3. CASE FeedMetering
  <2>1. /\ cp' \in {cp, None} /\ prints' = prints
        /\ UNCHANGED <<carVars, pulseVars, knownAge, sinceTick>>
    BY <1>3 DEF FeedMetering, Feed
  <2> QED BY <2>1 DEF carVars, pulseVars
<1>4. CASE ReadLost
  <2>1. /\ prints # <<>> /\ prints' = Tail(prints) /\ knownAge' = 0
        /\ UNCHANGED <<carVars, pulseVars, cp, sinceTick>>
    BY <1>4 DEF ReadLost, feedVars
  <2>2. prints' \in Seq(PrintForm)
    BY <2>1
  <2> QED BY <1>0, <2>1, <2>2 DEF carVars, pulseVars
<1>5. ASSUME NEW lost \in 0 .. Len(prints), SessionEnds(lost)
      PROVE  WakeTypeOK'
  <2>1. /\ prints' = SubSeq(prints, lost + 1, Len(prints)) /\ knownAge' = 0
        /\ UNCHANGED <<carVars, pulseVars, cp, sinceTick>>
    BY <1>5 DEF SessionEnds, feedVars
  <2>2. prints' \in Seq(PrintForm)
    BY <2>1
  <2> QED BY <1>0, <2>1, <2>2 DEF carVars, pulseVars
<1>6. ASSUME NEW length \in Pulses, ApplyWakeup(length)
      PROVE  WakeTypeOK'
  <2>1. /\ wake' = Request(wake, length) /\ pulseAge' = 0 /\ DriveCpRelay(TRUE)
        /\ UNCHANGED <<movedAge, cp, sinceTick, knownAge>>
    BY <1>6 DEF ApplyWakeup, sessionVars, feedVars
  <2>2. /\ vehicle' \in Vehicles /\ relayOpen' = TRUE
        /\ PrintsTransition(vehicle', relayOpen')
    BY <2>1, RelayMoves
  <2>3. prints' \in Seq(PrintForm)
    BY <2>2, Transition
  <2> QED BY <1>0, <2>1, <2>2, <2>3, PulseTyped
<1>7. ASSUME NEW length \in Pulses, RepeatWakeup(length)
      PROVE  WakeTypeOK'
  <2>1. /\ wake' = Request(wake, length)
        /\ UNCHANGED <<carVars, prints, cp, relayOpen, pulseAge, sinceTick, knownAge>>
    BY <1>7 DEF RepeatWakeup, sessionVars, feedVars
  <2> QED BY <2>1, PulseTyped DEF carVars
<1>8. CASE Tick
  <2>1. /\ wake' = AfterShowing(wake, PilotLetter) /\ DriveCpRelay(IsOpen(wake))
        /\ sinceTick' = 0 /\ pulseAge' \in {0, pulseAge}
        /\ UNCHANGED <<movedAge, cp, knownAge>>
    BY <1>8 DEF Tick, sessionVars, feedVars
  <2>2. /\ vehicle' \in Vehicles /\ relayOpen' = IsOpen(wake)
        /\ PrintsTransition(vehicle', relayOpen') /\ relayOpen' \in BOOLEAN
    BY <2>1, RelayMoves, Openness
  <2>3. prints' \in Seq(PrintForm)
    BY <2>2, Transition
  <2> QED BY <1>0, <2>1, <2>2, <2>3, PulseTyped
<1>9. CASE Reboot
  <2>1. /\ wake' = [NoPulse EXCEPT !.attempts = wake.attempts] /\ DriveCpRelay(FALSE)
        /\ sinceTick' = 0 /\ knownAge' = 0 /\ cp' = None /\ pulseAge' = 0
        /\ movedAge' = movedAge
    BY <1>9 DEF Reboot
  <2>2. /\ vehicle' \in Vehicles /\ relayOpen' = FALSE
        /\ PrintsTransition(vehicle', relayOpen')
    BY <2>1, RelayMoves
  <2>3. prints' \in Seq(PrintForm)
    BY <2>2, Transition
  <2> QED BY <1>0, <2>1, <2>2, <2>3, PulseTyped
<1>10. CASE Elapse
  <2>1. /\ wake' = AfterUnit(wake) /\ sinceTick' = sinceTick + 1 /\ sinceTick < TickLag
        /\ movedAge' = Older(movedAge, NewsHorizon)
        /\ pulseAge' \in {0, Older(pulseAge, PulseHorizon)}
        /\ knownAge' \in {0, Older(knownAge, NewsHorizon)}
        /\ UNCHANGED <<vehicle, relayOpen, cp>>
    BY <1>10 DEF Elapse
  <2>2. prints' \in Seq(PrintForm)
    BY <1>10, PrintsAge
  <2>3. sinceTick' \in 0 .. TickLag
    BY <2>1, Lengths
  <2>4. {movedAge', pulseAge', knownAge'} \subseteq Nat
    BY <1>0, <2>1, OlderTrue, Lengths
  <2> QED BY <2>1, <2>2, <2>3, <2>4, PulseTyped
<1>11. CASE UNCHANGED vars
  BY <1>11 DEF vars, carVars, sessionVars, feedVars, pulseVars
<1> QED BY <1>1, <1>2, <1>3, <1>4, <1>5, <1>6, <1>7, <1>8, <1>9, <1>10, <1>11 DEF Next
-----------------------------------------------------------------------------
(***************************************************************************)
(* The relay and the pulse.                                                *)
(***************************************************************************)

\* A request that is served opens a new pulse.
LEMMA RequestOpens ==
  ASSUME NEW pulse \in Pulse, NEW length \in Pulses, ~IsOpen(pulse)
  PROVE  /\ Request(pulse, length).left = length /\ length \in Nat /\ length # None
         /\ ~Request(pulse, length).settled /\ IsOpen(Request(pulse, length))
<1>1. length \in Nat /\ length > 0 /\ length # None
  BY Lengths, GrantAssumption
<1> QED BY <1>1 DEF Request, IsOpen

\* An open pulse is masked, and so is an A over one that has not settled.
LEMMA MaskRemains ==
  ASSUME NEW pulse \in Pulse, NEW shown
  PROVE  /\ AfterShowing(pulse, shown).left = pulse.left
         /\ Masks(pulse, shown) /\ ~pulse.settled => ~AfterShowing(pulse, shown).settled
         /\ IsOpen(pulse) => Masks(pulse, shown)
         /\ /\ pulse.left # None /\ ~pulse.settled /\ pulse.left > -SettleTime
            /\ shown \in {"A", ""}
            => Masks(pulse, shown)
BY DEF AfterShowing, Masks, Pulse

\* What a unit of time does to a pulse.
LEMMA UnitLess ==
  ASSUME NEW pulse \in Pulse
  PROVE  /\ AfterUnit(pulse).settled = pulse.settled
         /\ pulse.left = None => AfterUnit(pulse).left = None
         /\ pulse.left # None => /\ AfterUnit(pulse).left \in Int /\ pulse.left \in Int
                                 /\ AfterUnit(pulse).left # None
                                 /\ AfterUnit(pulse).left \in {pulse.left, pulse.left - 1}
                                 /\ pulse.left > -SettleTime =>
                                      AfterUnit(pulse).left = pulse.left - 1
                                 /\ AfterUnit(pulse).left > 0 => IsOpen(pulse)
         /\ IsOpen(pulse) => /\ pulse.left # None /\ pulse.left > -SettleTime
                             /\ pulse.left > 0
<1>1. pulse.left \in Int \cup {None} /\ None \notin Int /\ SettleTime \in Nat \ {0}
  BY GrantAssumption, Lengths DEF Pulse
<1>2. CASE pulse.left = None \/ pulse.left <= -SettleTime
  BY <1>1, <1>2 DEF AfterUnit, IsOpen
<1>3. CASE ~(pulse.left = None \/ pulse.left <= -SettleTime)
  <2>1. /\ AfterUnit(pulse).left = pulse.left - 1
        /\ AfterUnit(pulse).settled = pulse.settled
    BY <1>1, <1>3 DEF AfterUnit, Pulse
  <2> QED BY <1>1, <1>3, <2>1 DEF IsOpen
<1> QED BY <1>2, <1>3

\* How the relay, the pulse and their clock move.
LEMMA PulseSteps ==
  ASSUME WakeTypeOK, [Next]_vars
  PROVE  \/ \E length \in Pulses :
              /\ ~IsOpen(wake) /\ wake' = Request(wake, length)
              /\ relayOpen' = TRUE /\ pulseAge' = 0 /\ sinceTick' = sinceTick
         \/ /\ wake' = AfterShowing(wake, PilotLetter) /\ relayOpen' = IsOpen(wake)
            /\ IsOpen(wake) => pulseAge' = pulseAge
            /\ sinceTick' = 0 /\ Tick
         \/ Reboot
         \/ Elapse
         \/ wake' = wake /\ UNCHANGED <<relayOpen, pulseAge, sinceTick>>
<1>1. ASSUME NEW to \in {"away", "plugged", "charging"}, VehicleMoves(to)
      PROVE  wake' = wake /\ UNCHANGED <<relayOpen, pulseAge, sinceTick>>
  BY <1>1 DEF VehicleMoves, pulseVars
<1>2. CASE FeedPilot \/ FeedMetering \/ ReadLost
  BY <1>2 DEF FeedPilot, FeedMetering, ReadLost, Feed, pulseVars
<1>3. ASSUME NEW lost \in 0 .. Len(prints), SessionEnds(lost)
      PROVE  wake' = wake /\ UNCHANGED <<relayOpen, pulseAge, sinceTick>>
  BY <1>3 DEF SessionEnds, pulseVars
<1>4. ASSUME NEW length \in Pulses, ApplyWakeup(length)
      PROVE  /\ ~IsOpen(wake) /\ wake' = Request(wake, length)
             /\ relayOpen' = TRUE /\ pulseAge' = 0 /\ sinceTick' = sinceTick
  BY <1>4 DEF ApplyWakeup, DriveCpRelay
<1>5. ASSUME NEW length \in Pulses, RepeatWakeup(length)
      PROVE  wake' = wake /\ UNCHANGED <<relayOpen, pulseAge, sinceTick>>
  BY <1>5 DEF RepeatWakeup, Request
<1>6. CASE Tick
  BY <1>6 DEF Tick, DriveCpRelay
<1>7. CASE UNCHANGED vars
  BY <1>7 DEF vars, pulseVars
<1> QED BY <1>1, <1>2, <1>3, <1>4, <1>5, <1>6, <1>7 DEF Next

LEMMA PulseStep ==
  ASSUME WakeTypeOK, PulseInv, [Next]_vars
  PROVE  PulseInv'
<1>0. /\ wake \in Pulse /\ pulseAge \in Nat /\ sinceTick \in 0 .. TickLag
      /\ sinceTick \in Nat
  BY Lengths DEF WakeTypeOK
<1>1. ASSUME NEW length \in Pulses, wake' = Request(wake, length), ~IsOpen(wake),
             relayOpen' = TRUE, pulseAge' = 0, sinceTick' = sinceTick
      PROVE  PulseInv'
  <2>1. /\ wake'.left = length /\ length \in Nat /\ length <= LongestPulse
        /\ wake'.left # None /\ ~wake'.settled
    BY <1>0, <1>1, RequestOpens, Lengths
  <2>2. wake'.left + pulseAge' <= LongestPulse
    BY <1>1, <2>1, Lengths
  <2>3. wake'.left + sinceTick' >= 0 /\ pulseAge' <= LongestPulse + sinceTick'
    BY <1>0, <1>1, <2>1, Lengths
  <2> QED BY <1>1, <2>1, <2>2, <2>3, Zenon DEF PulseInv
<1>2. CASE /\ wake' = AfterShowing(wake, PilotLetter) /\ relayOpen' = IsOpen(wake)
           /\ IsOpen(wake) => pulseAge' = pulseAge
           /\ sinceTick' = 0
  <2>1. wake'.left = wake.left
    BY <1>0, <1>2, MaskRemains
  <2>2. IsOpen(wake') <=> IsOpen(wake)
    BY <2>1, Zenon DEF IsOpen
  <2>3. ASSUME IsOpen(wake)
        PROVE  /\ wake'.left # None /\ ~wake'.settled
               /\ wake'.left + pulseAge' <= LongestPulse
               /\ wake'.left + sinceTick' >= 0
               /\ pulseAge' <= LongestPulse + sinceTick'
    <3>1. wake.left # None /\ ~wake.settled /\ wake.left + pulseAge <= LongestPulse
      BY <2>3, Zenon DEF PulseInv
    <3>2. ~wake'.settled
      BY <1>0, <1>2, <2>3, <3>1, MaskRemains
    <3>3. wake.left \in Int /\ wake.left > 0
      BY <1>0, <2>3, UnitLess
    <3>4. pulseAge' = pulseAge /\ sinceTick' = 0
      BY <1>2, <2>3, Zenon
    <3> QED BY <1>0, <2>1, <3>1, <3>2, <3>3, <3>4, Lengths
  <2> QED BY <1>2, <2>2, <2>3, Zenon DEF PulseInv
<1>3. CASE Reboot
  <2>1. relayOpen' = FALSE /\ wake' = [NoPulse EXCEPT !.attempts = wake.attempts]
    BY <1>3 DEF Reboot, DriveCpRelay
  <2>2. ~IsOpen(wake')
    BY <2>1 DEF IsOpen, NoPulse
  <2> QED BY <2>1, <2>2, Zenon DEF PulseInv
<1>4. CASE Elapse
  <2>1. /\ wake' = AfterUnit(wake) /\ relayOpen' = relayOpen
        /\ pulseAge' = 0 \/ pulseAge' = Older(pulseAge, PulseHorizon)
        /\ relayOpen => pulseAge' = Older(pulseAge, PulseHorizon)
        /\ sinceTick' = sinceTick + 1 /\ sinceTick < TickLag
    BY <1>4 DEF Elapse
  <2>2. pulseAge' \in Nat /\ pulseAge' <= pulseAge + 1 /\ sinceTick' \in Nat
    <3>1. /\ Older(pulseAge, PulseHorizon) \in Nat
          /\ Older(pulseAge, PulseHorizon) <= pulseAge + 1
      BY <1>0, OlderTrue, Lengths
    <3> QED BY <1>0, <2>1, <3>1
  <2>3. ASSUME IsOpen(wake')
        PROVE  IsOpen(wake) /\ wake'.left + pulseAge' <= LongestPulse
    <3>1. wake'.left # None /\ wake'.left > 0
      BY <2>3 DEF IsOpen
    <3>2. IsOpen(wake) /\ wake.left # None /\ wake.left > -SettleTime
      BY <1>0, <2>1, <3>1, UnitLess
    <3>3. wake.left + pulseAge <= LongestPulse
      BY <3>2, Zenon DEF PulseInv
    <3>4. wake'.left = wake.left - 1 /\ wake.left \in Int
      BY <1>0, <2>1, <3>2, UnitLess
    <3> QED BY <1>0, <2>2, <3>2, <3>3, <3>4, Lengths
  <2>4. ASSUME relayOpen
        PROVE  /\ wake'.left # None /\ ~wake'.settled /\ wake'.left + sinceTick' >= 0
               /\ pulseAge' <= LongestPulse + sinceTick'
    <3>1. /\ wake.left # None /\ ~wake.settled /\ wake.left + sinceTick >= 0
          /\ pulseAge <= LongestPulse + sinceTick
      BY <2>4, Zenon DEF PulseInv
    <3>2. /\ wake'.left # None /\ wake'.settled = wake.settled /\ wake.left \in Int
          /\ wake'.left \in {wake.left, wake.left - 1}
      BY <1>0, <2>1, <3>1, UnitLess
    <3> QED BY <1>0, <2>1, <2>2, <3>1, <3>2, Lengths
  <2> QED BY <2>1, <2>3, <2>4, Zenon DEF PulseInv
<1>5. CASE wake' = wake /\ UNCHANGED <<relayOpen, pulseAge, sinceTick>>
  BY <1>5 DEF PulseInv
<1> QED BY <1>1, <1>2, <1>3, <1>4, <1>5, PulseSteps

\* What a feed leaves of the queue.
LEMMA RestOfPrints ==
  ASSUME NEW queue \in Seq(PrintForm), queue # <<>>
  PROVE  /\ Tail(queue) \in Seq(PrintForm) /\ Len(queue) \in Nat /\ Len(queue) > 0
         /\ Len(Tail(queue)) = Len(queue) - 1
         /\ \A i \in 1 .. Len(Tail(queue)) : Tail(queue)[i] = queue[i + 1]
         /\ Head(queue) = queue[1]
OBVIOUS

\* What is printed is what the box sees, up to what is lost.
LEMMA TrackedStep ==
  ASSUME WakeTypeOK, Tracked, [Next]_vars
  PROVE  Tracked'
<1>0. /\ prints \in Seq(PrintForm) /\ vehicle \in Vehicles /\ relayOpen \in BOOLEAN
  BY DEF WakeTypeOK
<1>1. ASSUME NEW car \in Vehicles, NEW open \in BOOLEAN, PrintsTransition(car, open),
             vehicle' = car, relayOpen' = open, cp' \in {cp, None}, Live' => Live
      PROVE  Tracked'
  <2>1. Pilot(vehicle', relayOpen') = Pilot(car, open)
    BY <1>1
  <2>2. CASE prints' = prints /\ Pilot(car, open) = Pilot(vehicle, relayOpen)
    BY <1>1, <2>1, <2>2, Zenon DEF Tracked
  <2>3. CASE prints' # <<>> /\ prints'[Len(prints')].cp \in {None, Pilot(car, open)}
    BY <2>1, <2>3, Zenon DEF Tracked
  <2> QED BY <1>1, <2>2, <2>3, Transition
<1>2. ASSUME NEW to \in {"away", "plugged", "charging"}, VehicleMoves(to)
      PROVE  Tracked'
  BY <1>0, <1>1, <1>2
  DEF VehicleMoves, pulseVars, sessionVars, feedVars, Live, Vehicles
<1>3. ASSUME NEW open \in BOOLEAN, DriveCpRelay(open), cp' \in {cp, None}, Live' => Live
      PROVE  Tracked'
  BY <1>1, <1>3, RelayMoves
<1>4. CASE (\E length \in Pulses : ApplyWakeup(length)) \/ Tick \/ Reboot
  <2>1. ASSUME NEW length \in Pulses, ApplyWakeup(length)
        PROVE  DriveCpRelay(TRUE) /\ cp' = cp /\ (Live' => Live)
    BY <2>1 DEF ApplyWakeup, sessionVars, feedVars, Live
  <2>2. CASE Tick
    <3>1. DriveCpRelay(IsOpen(wake)) /\ cp' = cp /\ (Live' => Live)
      BY <2>2 DEF Tick, sessionVars, feedVars, Live
    <3> QED BY <1>3, <3>1, Openness
  <2>3. CASE Reboot
    <3>1. DriveCpRelay(FALSE) /\ cp' = None /\ ~Live'
      BY <2>3 DEF Reboot, Live
    <3> QED BY <1>3, <3>1
  <2> QED BY <1>3, <1>4, <2>1, <2>2, <2>3
<1>5. CASE FeedPilot \/ ReadLost
  <2>1. /\ prints # <<>> /\ prints' = Tail(prints)
        /\ vehicle' = vehicle /\ relayOpen' = relayOpen
    BY <1>5 DEF FeedPilot, ReadLost, Feed, carVars, pulseVars
  <2>2. prints[Len(prints)].cp \in {None, Pilot(vehicle', relayOpen')}
    BY <2>1 DEF Tracked
  <2>3. CASE Len(prints) = 1
    <3>1. prints' = <<>> /\ Head(prints) = prints[Len(prints)]
      BY <1>0, <2>1, <2>3
    <3>2. Live' => cp' = Head(prints).cp
      <4>1. FeedPilot => cp' = Head(prints).cp
        BY DEF FeedPilot, Feed
      <4>2. ReadLost => ~Live'
        BY DEF ReadLost, Live
      <4> QED BY <1>5, <4>1, <4>2, Zenon
    <3> QED BY <2>2, <3>1, <3>2 DEF Tracked
  <2>4. CASE Len(prints) # 1
    <3>1. /\ Len(prints') = Len(prints) - 1 /\ Len(prints) \in Nat /\ Len(prints) > 1
          /\ \A i \in 1 .. Len(prints') : prints'[i] = prints[i + 1]
      <4>1. /\ Len(prints') = Len(prints) - 1 /\ Len(prints) \in Nat /\ Len(prints) > 0
            /\ \A i \in 1 .. Len(prints') : prints'[i] = prints[i + 1]
        BY <1>0, <2>1, RestOfPrints, Zenon
      <4>2. Len(prints) > 1
        BY <2>4, <4>1
      <4> QED BY <4>1, <4>2, Zenon
    <3>2. Len(prints') \in 1 .. Len(prints') /\ Len(prints') + 1 = Len(prints)
      BY <3>1
    <3>3. prints' # <<>>
      BY <3>2
    <3>4. prints'[Len(prints')] = prints[Len(prints)]
      BY <3>1, <3>2
    <3> QED BY <2>2, <3>3, <3>4 DEF Tracked
  <2> QED BY <2>3, <2>4
<1>6. CASE FeedMetering
  <2>1. /\ prints' = prints /\ vehicle' = vehicle /\ relayOpen' = relayOpen
        /\ cp' = (IF heard THEN cp ELSE None) /\ missed' = missed
    BY <1>6 DEF FeedMetering, Feed, carVars, pulseVars
  <2>2. Pilot(vehicle', relayOpen') = Pilot(vehicle, relayOpen)
    BY <2>1
  <2>3. Live' => cp' = None \/ (Live /\ cp' = cp)
    <3>1. CASE heard
      BY <2>1, <3>1, Zenon DEF Live
    <3>2. CASE ~heard
      <4>1. cp' = None
        BY <2>1, <3>2
      <4> QED BY <4>1
    <3> QED BY <3>1, <3>2
  <2> QED BY <2>1, <2>2, <2>3, Zenon DEF Tracked
<1>7. ASSUME NEW lost \in 0 .. Len(prints), SessionEnds(lost)
      PROVE  Tracked'
  <2>1. /\ prints' = SubSeq(prints, lost + 1, Len(prints)) /\ ~Live'
        /\ vehicle' = vehicle /\ relayOpen' = relayOpen
    BY <1>7 DEF SessionEnds, carVars, pulseVars, Live
  <2>2. CASE lost = Len(prints)
    <3>1. prints' = <<>>
      BY <1>0, <2>1, <2>2
    <3> QED BY <2>1, <3>1 DEF Tracked
  <2>3. CASE lost # Len(prints)
    <3>1. /\ Len(prints') = Len(prints) - lost /\ Len(prints) \in Nat /\ lost \in Nat
          /\ lost < Len(prints)
          /\ \A i \in 1 .. Len(prints') : prints'[i] = prints[i + lost]
      BY <1>0, <2>1, <2>3
    <3>2. Len(prints') \in 1 .. Len(prints') /\ Len(prints') + lost = Len(prints)
      BY <3>1
    <3>3. prints' # <<>> /\ prints # <<>>
      BY <3>1, <3>2
    <3>4. prints'[Len(prints')] = prints[Len(prints)]
      BY <3>1, <3>2
    <3> QED BY <2>1, <3>3, <3>4 DEF Tracked
  <2> QED BY <2>2, <2>3
<1>8. CASE Elapse
  <2>1. /\ vehicle' = vehicle /\ relayOpen' = relayOpen /\ cp' = cp
        /\ heard' = heard /\ missed' = missed
    BY <1>8 DEF Elapse
  <2>2. CASE prints = <<>>
    <3>1. prints' = <<>> /\ (Live' <=> Live)
      BY <1>8, <2>1, <2>2, PrintsAge DEF Live
    <3> QED BY <2>1, <2>2, <3>1, Zenon DEF Tracked
  <2>3. CASE prints # <<>>
    <3>1. Len(prints) \in 1 .. Len(prints)
      BY <1>0, <2>3
    <3>2. prints' # <<>> /\ prints'[Len(prints')].cp = prints[Len(prints)].cp
      BY <1>8, <2>3, <3>1, PrintsAge
    <3> QED BY <2>1, <2>3, <3>2 DEF Tracked
  <2> QED BY <2>2, <2>3
<1>9. CASE (\E length \in Pulses : RepeatWakeup(length)) \/ UNCHANGED vars
  <2>1. UNCHANGED <<carVars, prints, sessionVars, feedVars, relayOpen>>
    BY <1>9 DEF RepeatWakeup, vars, pulseVars
  <2> QED BY <2>1 DEF Tracked, Live, carVars, sessionVars, feedVars
<1> QED BY <1>2, <1>4, <1>5, <1>6, <1>7, <1>8, <1>9 DEF Next

\* The time for which the pilot was known is of a session that knows it.
LEMMA KnownStep ==
  ASSUME KnownInv, [Next]_vars
  PROVE  KnownInv'
<1> USE DEF KnownInv, Live
<1>1. CASE UNCHANGED sessionVars
  BY <1>1 DEF sessionVars
<1>2. CASE FeedPilot \/ FeedMetering \/ ReadLost
  BY <1>2, Zenon DEF FeedPilot, FeedMetering, ReadLost, Feed
<1>3. CASE (\E lost \in 0 .. Len(prints) : SessionEnds(lost)) \/ Reboot
  BY <1>3, Zenon DEF SessionEnds, Reboot
<1>4. CASE Elapse
  <2>1. /\ heard' = heard /\ missed' = missed
        /\ ~(heard /\ ~missed) => knownAge' = 0
    BY <1>4 DEF Elapse
  <2> QED BY <2>1, Zenon
<1>5. ASSUME NEW to \in {"away", "plugged", "charging"}, VehicleMoves(to)
      PROVE  UNCHANGED sessionVars
  BY <1>5 DEF VehicleMoves
<1>6. ASSUME NEW length \in Pulses, ApplyWakeup(length) \/ RepeatWakeup(length)
      PROVE  UNCHANGED sessionVars
  BY <1>6 DEF ApplyWakeup, RepeatWakeup
<1>7. CASE Tick \/ UNCHANGED vars
  BY <1>1, <1>7 DEF Tick, vars
<1> QED BY <1>1, <1>2, <1>3, <1>4, <1>5, <1>6, <1>7 DEF Next

\* A car that moves, or a pilot that opens, under an open relay is not printed.
LEMMA OpenIsSilent ==
  ASSUME WakeTypeOK, NEW car \in Vehicles, PrintsTransition(car, TRUE), relayOpen
  PROVE  prints' = prints
<1>1. vehicle \in Vehicles /\ relayOpen \in BOOLEAN /\ TRUE \in BOOLEAN
  BY DEF WakeTypeOK
<1>2. Pilot(car, TRUE) = "NoVehicle"
  BY PilotTyped
<1>3. Pilot(vehicle, relayOpen) = "NoVehicle"
  BY <1>1, PilotTyped, Zenon
<1> QED BY <1>1, <1>2, <1>3, Transition

\* A pulse outlasts the way of a print, when every length does.
LEMMA OutlastsStep ==
  ASSUME \A p \in Pulses : PrintLag < p,
         WakeTypeOK, PulseInv, Outlasts, [Next]_vars
  PROVE  Outlasts'
<1>0. wake \in Pulse /\ pulseAge \in Nat
  BY DEF WakeTypeOK
<1>1. ASSUME NEW length \in Pulses, wake' = Request(wake, length), ~IsOpen(wake),
             relayOpen' = TRUE, pulseAge' = 0
      PROVE  Outlasts'
  <2>1. wake'.left = length /\ length \in Nat /\ length > PrintLag /\ IsOpen(wake')
    BY <1>0, <1>1, RequestOpens, Lengths
  <2>2. wake'.left + pulseAge' > PrintLag
    BY <1>1, <2>1, Lengths
  <2> QED BY <2>1, <2>2, Zenon DEF Outlasts
<1>2. CASE /\ wake' = AfterShowing(wake, PilotLetter) /\ relayOpen' = IsOpen(wake)
           /\ IsOpen(wake) => pulseAge' = pulseAge
  <2>1. wake'.left = wake.left
    BY <1>0, <1>2, MaskRemains
  <2>2. (IsOpen(wake') <=> IsOpen(wake)) /\ (relayOpen' <=> IsOpen(wake))
    BY <1>2, <2>1, Zenon DEF IsOpen
  <2>3. IsOpen(wake) => wake'.left + pulseAge' = wake.left + pulseAge
    BY <1>2, <2>1
  <2> QED BY <2>2, <2>3, Zenon DEF Outlasts
<1>3. CASE Reboot
  <2>1. relayOpen' = FALSE /\ wake' = [NoPulse EXCEPT !.attempts = wake.attempts]
    BY <1>3 DEF Reboot, DriveCpRelay
  <2>2. ~IsOpen(wake')
    BY <2>1 DEF IsOpen, NoPulse
  <2> QED BY <2>1, <2>2, Zenon DEF Outlasts
<1>4. CASE Elapse
  <2>1. /\ wake' = AfterUnit(wake) /\ relayOpen' = relayOpen
        /\ relayOpen => pulseAge' = Older(pulseAge, PulseHorizon)
    BY <1>4 DEF Elapse
  <2>2. relayOpen => /\ pulseAge' \in Nat /\ pulseAge <= pulseAge'
                     /\ pulseAge' = pulseAge + 1 \/ PrintLag < pulseAge'
    <3>1. PrintLag < PulseHorizon
      BY Lengths
    <3> QED BY <1>0, <2>1, <3>1, OlderTrue, Lengths
  <2>3. ASSUME IsOpen(wake)
        PROVE  /\ wake'.left + pulseAge' > PrintLag
               /\ ~IsOpen(wake') => pulseAge' > PrintLag
    <3>1. wake.left + pulseAge > PrintLag /\ relayOpen
      BY <2>3, Zenon DEF Outlasts, PulseInv
    <3>2. wake'.left = wake.left - 1 /\ wake.left \in Int /\ wake.left > 0
          /\ wake'.left # None
      BY <1>0, <2>1, <2>3, UnitLess
    <3>3. wake'.left + pulseAge' > PrintLag
      BY <1>0, <2>2, <3>1, <3>2, Lengths
    <3>4. ~IsOpen(wake') => wake'.left <= 0
      BY <3>2 DEF IsOpen
    <3>5. ~IsOpen(wake') => pulseAge' > PrintLag
      BY <2>2, <3>1, <3>2, <3>3, <3>4, Lengths
    <3> QED BY <3>3, <3>5
  <2>4. ASSUME ~IsOpen(wake)
        PROVE  ~IsOpen(wake')
    <3>1. wake'.left = None \/ ~(wake'.left > 0)
      BY <1>0, <2>1, <2>4, UnitLess
    <3> QED BY <3>1, Zenon DEF IsOpen
  <2>5. ASSUME relayOpen, ~IsOpen(wake)
        PROVE  pulseAge' > PrintLag
    <3>1. pulseAge > PrintLag
      BY <2>5, Zenon DEF Outlasts
    <3> QED BY <1>0, <2>2, <2>5, <3>1, Lengths
  <2> QED BY <2>1, <2>3, <2>4, <2>5, Zenon DEF Outlasts
<1>5. CASE wake' = wake /\ UNCHANGED <<relayOpen, pulseAge, sinceTick>>
  BY <1>5 DEF Outlasts
<1> QED BY <1>1, <1>2, <1>3, <1>4, <1>5, PulseSteps

\* Under an open relay nothing is printed.
LEMMA SilentStep ==
  ASSUME WakeTypeOK, PulseInv, Silent, [Next]_vars
  PROVE  Silent'
<1>0. /\ WakeTypeOK' /\ prints \in Seq(PrintForm) /\ prints' \in Seq(PrintForm)
      /\ pulseAge \in Nat /\ TRUE \in BOOLEAN
  BY TypeStep, Zenon DEF WakeTypeOK
<1>1. ASSUME relayOpen' => relayOpen /\ pulseAge' = pulseAge,
             knownAge = 0 => knownAge' = 0,
             relayOpen' => \A i \in 1 .. Len(prints') :
                             \E j \in 1 .. Len(prints) : prints'[i] = prints[j]
      PROVE  Silent'
  <2> SUFFICES ASSUME relayOpen', NEW i \in 1 .. Len(prints')
               PROVE  \/ pulseAge' <= prints'[i].age
                      \/ prints'[i].age = PrintLag /\ knownAge' = 0
    BY Zenon DEF Silent
  <2>1. PICK j \in 1 .. Len(prints) : prints'[i] = prints[j]
    BY <1>1, Zenon
  <2>2. \/ pulseAge <= prints[j].age
        \/ prints[j].age = PrintLag /\ knownAge = 0
    BY <1>1, Zenon DEF Silent
  <2> QED BY <1>1, <2>1, <2>2, Zenon
<1>2. CASE /\ prints' = prints /\ (relayOpen' => relayOpen) /\ pulseAge' = pulseAge
           /\ knownAge' = knownAge
  <2>1. \A i \in 1 .. Len(prints') : \E j \in 1 .. Len(prints) : prints'[i] = prints[j]
    BY <1>2, Zenon
  <2> QED BY <1>1, <1>2, <2>1, Zenon
<1>3. ASSUME NEW to \in {"away", "plugged", "charging"}, VehicleMoves(to)
      PROVE  Silent'
  <2>1. /\ relayOpen' = relayOpen /\ pulseAge' = pulseAge /\ to \in Vehicles
        /\ PrintsTransition(to, relayOpen) /\ knownAge' = knownAge
    BY <1>3 DEF VehicleMoves, pulseVars, sessionVars, Vehicles
  <2>2. ASSUME relayOpen
        PROVE  prints' = prints
    <3>1. relayOpen = TRUE
      BY <2>2, Zenon DEF WakeTypeOK
    <3> QED BY <2>1, <2>2, <3>1, OpenIsSilent
  <2> QED BY <1>2, <2>1, <2>2, Zenon DEF Silent
<1>4. CASE FeedPilot \/ ReadLost
  <2>1. /\ prints # <<>> /\ prints' = Tail(prints)
        /\ relayOpen' = relayOpen /\ pulseAge' = pulseAge
        /\ knownAge = 0 => knownAge' = 0
    BY <1>4 DEF FeedPilot, ReadLost, Feed, pulseVars
  <2>2. \A i \in 1 .. Len(prints') :
          i + 1 \in 1 .. Len(prints) /\ prints'[i] = prints[i + 1]
    BY <1>0, <2>1, RestOfPrints
  <2>3. \A i \in 1 .. Len(prints') : \E j \in 1 .. Len(prints) : prints'[i] = prints[j]
    BY <2>2, Zenon
  <2> QED BY <1>1, <2>1, <2>3, Zenon
<1>5. ASSUME NEW lost \in 0 .. Len(prints), SessionEnds(lost)
      PROVE  Silent'
  <2>1. /\ prints' = SubSeq(prints, lost + 1, Len(prints))
        /\ relayOpen' = relayOpen /\ pulseAge' = pulseAge /\ knownAge' = 0
    BY <1>5 DEF SessionEnds, pulseVars
  <2>2. \A i \in 1 .. Len(prints') :
          i + lost \in 1 .. Len(prints) /\ prints'[i] = prints[i + lost]
    BY <1>0, <2>1
  <2>3. \A i \in 1 .. Len(prints') : \E j \in 1 .. Len(prints) : prints'[i] = prints[j]
    BY <2>2, Zenon
  <2> QED BY <1>1, <2>1, <2>3, Zenon
<1>6. ASSUME NEW length \in Pulses, ApplyWakeup(length)
      PROVE  Silent'
  <2>1. pulseAge' = 0
    BY <1>6 DEF ApplyWakeup
  <2>2. \A i \in 1 .. Len(prints') : prints'[i].age \in Nat
    BY <1>0, PrintAges
  <2>3. \A i \in 1 .. Len(prints') : pulseAge' <= prints'[i].age
    BY <2>1, <2>2
  <2> QED BY <2>3, Zenon DEF Silent
<1>7. CASE Tick
  <2>1. /\ relayOpen' = IsOpen(wake) /\ vehicle' \in Vehicles /\ knownAge' = knownAge
        /\ PrintsTransition(vehicle', relayOpen')
        /\ IsOpen(wake) => pulseAge' = pulseAge
    BY <1>7, RelayMoves, Openness DEF Tick, sessionVars
  <2>2. ASSUME relayOpen'
        PROVE  prints' = prints /\ relayOpen /\ pulseAge' = pulseAge
    <3>1. relayOpen' = TRUE /\ relayOpen /\ pulseAge' = pulseAge
      BY <2>1, <2>2, Openness, Zenon DEF PulseInv
    <3> QED BY <2>1, <3>1, OpenIsSilent
  <2> QED BY <1>2, <2>1, <2>2, Zenon DEF Silent
<1>8. CASE Reboot
  <2>1. relayOpen' = FALSE
    BY <1>8 DEF Reboot, DriveCpRelay
  <2> QED BY <2>1, Zenon DEF Silent
<1>9. CASE Elapse
  <2>1. /\ relayOpen' = relayOpen /\ knownAge \in Nat
        /\ relayOpen => pulseAge' = Older(pulseAge, PulseHorizon)
        /\ ~heard => knownAge' = 0
    BY <1>9 DEF Elapse, WakeTypeOK
  <2>2. relayOpen => pulseAge' \in Nat /\ pulseAge' <= pulseAge + 1
    BY <1>0, <2>1, OlderTrue, Lengths
  <2>3. ASSUME relayOpen, NEW i \in 1 .. Len(prints)
        PROVE  \/ pulseAge' <= prints'[i].age
               \/ prints'[i].age = PrintLag /\ knownAge' = 0
    <3>1. /\ prints[i].age \in Nat /\ prints[i].age <= PrintLag
          /\ PrintLag \in Nat
      BY <1>0, <2>3, PrintAges, Lengths
    <3>2. /\ \/ prints'[i].age = prints[i].age + 1
             \/ prints'[i].age = PrintLag /\ prints[i].age = PrintLag
          /\ heard => prints'[i].age = prints[i].age + 1 /\ prints[i].age < PrintLag
      <4>1. heard => prints[i].age < PrintLag
        <5>1. DOMAIN prints = 1 .. Len(prints)
          BY <1>0
        <5> QED BY <1>9, <5>1 DEF Elapse
      <4> QED BY <1>9, <4>1, PrintsAge, Zenon
    <3>3. CASE heard
      <4>1. pulseAge <= prints[i].age
        <5>1. prints[i].age # PrintLag
          BY <3>1, <3>2, <3>3
        <5> QED BY <2>3, <5>1, Zenon DEF Silent
      <4> QED BY <1>0, <2>2, <2>3, <3>1, <3>2, <3>3, <4>1
    <3>4. CASE ~heard
      <4>1. knownAge' = 0
        BY <2>1, <3>4
      <4>2. CASE prints'[i].age = PrintLag
        BY <4>1, <4>2
      <4>3. CASE prints'[i].age # PrintLag
        <5>1. /\ prints'[i].age = prints[i].age + 1 /\ prints[i].age # PrintLag
          <6>1. prints'[i].age = prints[i].age + 1
            BY <3>2, <4>3, Zenon
          <6>2. ASSUME prints[i].age = PrintLag
                PROVE  FALSE
            <7>1. prints'[i] \in PrintForm /\ i \in 1 .. Len(prints')
              BY <1>0, <1>9, PrintsAge
            <7>2. prints'[i].age <= PrintLag
              BY <1>0, <7>1, PrintAges
            <7> QED BY <3>1, <6>1, <6>2, <7>2
          <6> QED BY <6>1, <6>2
        <5>2. pulseAge <= prints[i].age
          BY <2>3, <5>1, Zenon DEF Silent
        <5> QED BY <1>0, <2>2, <2>3, <3>1, <5>1, <5>2
      <4> QED BY <4>2, <4>3
    <3> QED BY <3>3, <3>4
  <2>4. Len(prints') = Len(prints)
    BY <1>9, PrintsAge
  <2> QED BY <2>1, <2>3, <2>4, Zenon DEF Silent
<1>10. CASE \/ FeedMetering \/ (\E length \in Pulses : RepeatWakeup(length))
            \/ UNCHANGED vars
  <2>1. /\ prints' = prints /\ pulseAge' = pulseAge /\ relayOpen' = relayOpen
        /\ knownAge' = knownAge
    BY <1>10 DEF FeedMetering, Feed, RepeatWakeup, vars, sessionVars, pulseVars
  <2> QED BY <1>2, <2>1
<1> QED BY <1>3, <1>4, <1>5, <1>6, <1>7, <1>8, <1>9, <1>10 DEF Next
-----------------------------------------------------------------------------
(***************************************************************************)
(* Where the pilot leaves A.                                               *)
(***************************************************************************)

\* What explains a print goes on explaining it.
LEMMA StaysExplained ==
  ASSUME NEW i \in Nat, NEW j \in Nat, Explains(i),
         prints[i].age \in Nat, prints'[j].age = prints[i].age,
         movedAge' \in {0, movedAge}, knownAge' \in {0, knownAge}
  PROVE  Explains(j)'
BY DEF Explains

\* What happened just now explains every print.
LEMMA NowExplains ==
  ASSUME NEW j \in Nat, prints'[j].age \in Nat, movedAge' = 0 \/ knownAge' = 0
  PROVE  Explains(j)'
BY DEF Explains

\* A new print follows what the box saw, which the one before it says.
LEMMA PrintLeaves ==
  ASSUME WakeTypeOK, KnownInv, Tracked, LeavesA,
         NEW car \in Vehicles, NEW open \in BOOLEAN, PrintsTransition(car, open),
         movedAge' \in {0, movedAge}, knownAge' \in {0, knownAge},
         Pilot(vehicle, relayOpen) = "NoVehicle" /\ Pilot(car, open) # "NoVehicle"
           => movedAge' = 0 \/ knownAge' = 0
  PROVE  /\ RestLeaveA'
         /\ cp = "NoVehicle" /\ cp # None /\ prints' # <<>> =>
              \/ Explains(1)'
              \/ MaskHolds /\ prints # <<>> /\ prints'[1] = prints[1]
<1>0. /\ prints \in Seq(PrintForm) /\ Len(prints) \in Nat
      /\ prints # <<>> => Len(prints) > 0 /\ 1 \in 1 .. Len(prints)
      /\ prints = <<>> => Len(prints) = 0
  BY DEF WakeTypeOK
<1>1. CASE prints' = prints
  <2>1. ASSUME NEW i \in 1 .. Len(prints), Explains(i)
        PROVE  Explains(i)'
    BY <1>0, <1>1, <2>1, PrintAges, StaysExplained
  <2>2. RestLeaveA'
    <3>1. ASSUME NEW i \in 1 .. Len(prints) - 1,
                 prints[i].cp = "NoVehicle", prints[i].cp # None
          PROVE  Explains(i + 1)'
      <4>1. Explains(i + 1) /\ i + 1 \in 1 .. Len(prints)
        BY <1>0, <3>1 DEF LeavesA, RestLeaveA
      <4> QED BY <2>1, <4>1
    <3> QED BY <1>1, <3>1 DEF RestLeaveA
  <2> QED BY <1>0, <1>1, <2>1, <2>2, Zenon DEF LeavesA, FirstLeavesA
<1>2. CASE /\ Pilot(car, open) # Pilot(vehicle, relayOpen)
           /\ prints' # <<>> /\ Len(prints') = Len(prints) + 1
           /\ \A i \in 1 .. Len(prints) : prints'[i] = prints[i]
           /\ prints'[Len(prints')].age = 0
  <2>1. ASSUME NEW i \in 1 .. Len(prints), Explains(i)
        PROVE  Explains(i)'
    BY <1>0, <1>2, <2>1, PrintAges, StaysExplained
  <2>2. ASSUME Pilot(vehicle, relayOpen) = "NoVehicle" \/ ~Live,
               NEW n \in Nat, n = Len(prints) + 1
        PROVE  Explains(n)'
    <3>1. movedAge' = 0 \/ knownAge' = 0
      BY <1>2, <2>2 DEF KnownInv
    <3>2. prints'[n].age \in Nat
      <4>1. prints'[n].age = 0
        BY <1>2, <2>2
      <4> QED BY <4>1
    <3> QED BY <3>1, <3>2, NowExplains
  <2>3. RestLeaveA'
    <3>1. ASSUME NEW i \in 1 .. Len(prints),
                 prints'[i].cp = "NoVehicle", prints'[i].cp # None
          PROVE  Explains(i + 1)'
      <4>1. CASE i < Len(prints)
        <5>1. i \in 1 .. Len(prints) - 1 /\ i + 1 \in 1 .. Len(prints)
              /\ prints[i].cp = "NoVehicle" /\ prints[i].cp # None
          BY <1>0, <1>2, <3>1, <4>1
        <5>2. Explains(i + 1)
          BY <5>1 DEF LeavesA, RestLeaveA
        <5> QED BY <2>1, <5>1, <5>2
      <4>2. CASE i = Len(prints)
        <5>1. prints # <<>> /\ prints[Len(prints)].cp = "NoVehicle"
              /\ prints[Len(prints)].cp # None
          BY <1>0, <1>2, <3>1, <4>2
        <5>2. Pilot(vehicle, relayOpen) = "NoVehicle"
          BY <5>1, Zenon DEF Tracked
        <5>3. i + 1 \in Nat /\ i + 1 = Len(prints) + 1
          BY <1>0, <4>2
        <5> QED BY <2>2, <5>2, <5>3
      <4> QED BY <1>0, <4>1, <4>2
    <3>2. Len(prints') - 1 = Len(prints)
      BY <1>0, <1>2
    <3> QED BY <3>1, <3>2 DEF RestLeaveA
  <2>4. ASSUME cp = "NoVehicle", cp # None
        PROVE  \/ Explains(1)'
               \/ MaskHolds /\ prints # <<>> /\ prints'[1] = prints[1]
    <3>1. CASE prints = <<>>
      <4>1. Pilot(vehicle, relayOpen) = "NoVehicle" \/ ~Live
        BY <2>4, <3>1 DEF Tracked
      <4>2. 1 \in Nat /\ 1 = Len(prints) + 1
        BY <1>0, <3>1
      <4> QED BY <2>2, <4>1, <4>2
    <3>2. CASE prints # <<>>
      <4>1. Explains(1) \/ MaskHolds
        BY <2>4, <3>2, Zenon DEF LeavesA, FirstLeavesA
      <4>2. 1 \in 1 .. Len(prints) /\ prints'[1] = prints[1]
        BY <1>0, <1>2, <3>2
      <4> QED BY <2>1, <3>2, <4>1, <4>2, Zenon
    <3> QED BY <3>1, <3>2
  <2> QED BY <2>3, <2>4, Zenon
<1> QED BY <1>1, <1>2, Transition

\* A pilot that the session does not know explains whatever follows.
LEMMA UnknownExplains ==
  ASSUME prints' \in Seq(PrintForm), knownAge' = 0
  PROVE  LeavesA'
<1>1. ASSUME NEW j \in 1 .. Len(prints')
      PROVE  Explains(j)'
  <2>1. prints'[j].age \in Nat
    BY PrintAges
  <2> QED BY <2>1, NowExplains
<1>2. RestLeaveA'
  <2>1. \A i \in 1 .. Len(prints') - 1 : i + 1 \in 1 .. Len(prints')
    <3>1. Len(prints') \in Nat
      OBVIOUS
    <3> QED BY <3>1
  <2> QED BY <1>1, <2>1 DEF RestLeaveA
<1>3. prints' # <<>> => 1 \in 1 .. Len(prints')
  <2>1. prints' # <<>> => Len(prints') \in Nat /\ Len(prints') > 0
    BY RestOfPrints
  <2> QED BY <2>1
<1> QED BY <1>1, <1>2, <1>3, Zenon DEF LeavesA, FirstLeavesA

\* A tick that closes the relay over an empty queue causes the print that ends the mask.
LEMMA TickClosesLive ==
  ASSUME MaskInv, Tick, relayOpen, ~IsOpen(wake), Live, prints = <<>>
  PROVE  LeavesA'
<1>0. /\ WakeTypeOK /\ PulseInv /\ Tracked
      /\ prints \in Seq(PrintForm) /\ Len(prints) \in Nat /\ wake \in Pulse
      /\ vehicle \in Vehicles /\ relayOpen \in BOOLEAN /\ sinceTick \in 0 .. TickLag
  BY DEF MaskInv, WakeInv, WakeTypeOK
<1>1. /\ wake' = AfterShowing(wake, PilotLetter) /\ cp' = cp
      /\ relayOpen' = FALSE /\ vehicle' \in Vehicles /\ PrintsTransition(vehicle', FALSE)
  <2>1. IsOpen(wake) = FALSE
    BY Openness, Zenon
  <2> QED BY <1>0, <2>1, RelayMoves DEF Tick, feedVars
<1>2. prints = <<>>
  OBVIOUS
<1>3. \/ prints' = <<>>
      \/ Len(prints') = 1 /\ prints'[1].age = 0
  <2>1. Len(prints) = 0
    BY <1>2
  <2>2. CASE prints' = prints
    BY <1>2, <2>2
  <2>3. CASE Len(prints') = Len(prints) + 1 /\ prints'[Len(prints')].age = 0
    BY <2>1, <2>3
  <2> QED BY <1>0, <1>1, <2>2, <2>3, Transition
<1>4. /\ wake.left # None /\ ~wake.settled /\ wake.left \in Int
      /\ wake.left >= -TickLag /\ wake.left <= 0 /\ wake.left > -SettleTime
  <2>1. wake.left # None /\ ~wake.settled /\ wake.left + sinceTick >= 0
    BY <1>0, Zenon DEF PulseInv
  <2>2. wake.left \in Int /\ ~(wake.left > 0)
    BY <1>0, <2>1, UnitLess DEF IsOpen
  <2> QED BY <1>0, <2>1, <2>2, Lengths
<1>5. PilotLetter \in {"A", ""}
  <2>1. Pilot(vehicle, relayOpen) = "NoVehicle"
    BY <1>0, PilotTyped, Zenon
  <2>2. cp \in {None, "NoVehicle"}
    BY <1>0, <1>2, <2>1 DEF Tracked
  <2> QED BY <1>0, <2>2, LettersRead
<1>6. wake'.left = wake.left /\ ~wake'.settled
  BY <1>0, <1>1, <1>4, <1>5, MaskRemains
<1>7. RestLeaveA'
  <2>1. Len(prints') <= 1 /\ Len(prints') \in Nat
    <3>1. CASE prints' = <<>>
      <4>1. Len(prints') = 0
        BY <3>1
      <4> QED BY <4>1
    <3>2. CASE Len(prints') = 1
      BY <3>2
    <3> QED BY <1>3, <3>1, <3>2, Zenon
  <2>2. \A i \in 1 .. Len(prints') - 1 : FALSE
    BY <2>1
  <2> QED BY <2>2 DEF RestLeaveA
<1>8. prints' # <<>> => MaskHolds'
  <2>1. ASSUME prints' # <<>>
        PROVE  wake'.left + prints'[1].age >= -TickLag
    BY <1>3, <1>4, <1>6, <2>1, Lengths
  <2>2. wake'.left # None /\ wake'.left <= 0
    BY <1>4, <1>6
  <2> QED BY <1>6, <2>1, <2>2, Zenon DEF MaskHolds
<1> QED BY <1>7, <1>8, Zenon DEF LeavesA, FirstLeavesA

\* A tick that closes the relay finds every print read, in a session that knows the
\* pilot: the one it causes is the first.
LEMMA TickCloses ==
  ASSUME MaskInv, Tick, relayOpen, ~IsOpen(wake)
  PROVE  LeavesA'
<1>0. /\ WakeTypeOK /\ PulseInv /\ KnownInv /\ Tracked /\ Outlasts /\ Silent
      /\ prints \in Seq(PrintForm) /\ Len(prints) \in Nat /\ wake \in Pulse
      /\ vehicle \in Vehicles /\ relayOpen \in BOOLEAN /\ sinceTick \in 0 .. TickLag
      /\ pulseAge \in Nat /\ knownAge \in Nat
  BY Lengths DEF MaskInv, WakeInv, WakeTypeOK
<1>1. /\ wake' = AfterShowing(wake, PilotLetter) /\ cp' = cp /\ knownAge' = knownAge
      /\ relayOpen' = FALSE /\ vehicle' \in Vehicles /\ PrintsTransition(vehicle', FALSE)
  <2>1. IsOpen(wake) = FALSE
    BY Openness, Zenon
  <2> QED BY <1>0, <2>1, RelayMoves DEF Tick, sessionVars, feedVars
<1>2. CASE knownAge = 0
  <2>1. prints' \in Seq(PrintForm)
    <3>1. FALSE \in BOOLEAN
      OBVIOUS
    <3> QED BY <1>0, <1>1, <3>1, Transition, Zenon
  <2> QED BY <1>1, <1>2, <2>1, UnknownExplains
<1>3. CASE knownAge # 0
  <2>1. Live
    BY <1>0, <1>3, Zenon DEF KnownInv
  <2>2. prints = <<>>
    <3>1. ASSUME Len(prints) > 0
          PROVE  FALSE
      <4>1. 1 \in 1 .. Len(prints)
        BY <1>0, <3>1
      <4>2. prints[1].age \in Nat /\ prints[1].age <= PrintLag
        BY <1>0, <4>1, PrintAges
      <4>3. pulseAge <= prints[1].age /\ pulseAge > PrintLag
        BY <1>0, <1>3, <4>1, Zenon DEF Silent, Outlasts
      <4> QED BY <1>0, <4>2, <4>3, Lengths
    <3> QED BY <1>0, <3>1
  <2> QED BY <2>1, <2>2, TickClosesLive
<1> QED BY <1>2, <1>3

\* Until the print of the closing relay is read, an A stays masked.
LEMMA MaskRuns ==
  ASSUME WakeTypeOK, PulseInv, MaskHolds, relayOpen \/ prints # <<>>
  PROVE  wake.left # None /\ ~wake.settled /\ wake.left > -SettleTime
<1>0. /\ wake \in Pulse /\ prints \in Seq(PrintForm) /\ sinceTick \in 0 .. TickLag
  BY DEF WakeTypeOK
<1>1. wake.left # None /\ ~wake.settled
  BY Zenon DEF MaskHolds, PulseInv
<1>2. wake.left \in Int
  BY <1>0, <1>1, UnitLess
<1>3. wake.left > -SettleTime
  <2>1. CASE relayOpen
    <3>1. wake.left + sinceTick >= 0
      BY <2>1, Zenon DEF PulseInv
    <3>2. sinceTick \in 0 .. TickLag
      BY <1>0
    <3> QED BY <1>2, <3>1, <3>2, Lengths
  <2>2. CASE ~relayOpen /\ wake.left + prints[1].age >= -TickLag
    <3>0. 1 \in 1 .. Len(prints)
      <4>1. Len(prints) \in Nat /\ Len(prints) > 0
        BY <1>0, <2>2, RestOfPrints
      <4> QED BY <4>1
    <3>1. prints[1].age \in Nat /\ prints[1].age <= PrintLag
      BY <1>0, <3>0, PrintAges
    <3> QED BY <1>2, <2>2, <3>1, Lengths
  <2> QED BY <2>1, <2>2, Zenon DEF MaskHolds
<1> QED BY <1>1, <1>3

LEMMA StaysMasked ==
  ASSUME WakeTypeOK, PulseInv, MaskHolds, prints # <<>>, PilotLetter \in {"A", ""}
  PROVE  /\ Masks(wake, PilotLetter) /\ ~AfterShowing(wake, PilotLetter).settled
<1>1. wake \in Pulse
  BY DEF WakeTypeOK
<1>2. wake.left # None /\ ~wake.settled /\ wake.left > -SettleTime
  BY MaskRuns, Zenon
<1> QED BY <1>1, <1>2, MaskRemains, Zenon

\* Any other tick prints nothing and leaves the mask over what it has.
LEMMA TickShows ==
  ASSUME MaskInv, Tick, IsOpen(wake) \/ ~relayOpen
  PROVE  LeavesA'
<1>0. /\ WakeTypeOK /\ PulseInv /\ KnownInv /\ Tracked /\ LeavesA /\ vehicle \in Vehicles
      /\ relayOpen \in BOOLEAN /\ wake \in Pulse
  BY DEF MaskInv, WakeInv, WakeTypeOK
<1>1. /\ wake' = AfterShowing(wake, PilotLetter) /\ cp' = cp
      /\ relayOpen' = IsOpen(wake) /\ vehicle' \in Vehicles
      /\ vehicle' = "away" <=> vehicle = "away"
      /\ PrintsTransition(vehicle', relayOpen')
      /\ movedAge' = movedAge /\ knownAge' = knownAge /\ relayOpen' \in BOOLEAN
  BY <1>0, RelayMoves, Openness DEF Tick, sessionVars, feedVars
<1>2. relayOpen' = relayOpen
  <2>1. IsOpen(wake) => relayOpen
    BY <1>0, Zenon DEF PulseInv
  <2>2. CASE IsOpen(wake)
    <3>1. relayOpen' = TRUE /\ relayOpen = TRUE
      BY <1>0, <1>1, <2>1, <2>2, Zenon
    <3> QED BY <3>1
  <2>3. CASE ~IsOpen(wake)
    <3>1. relayOpen' = FALSE /\ relayOpen = FALSE
      BY <1>0, <1>1, <2>3, Zenon
    <3> QED BY <3>1
  <2> QED BY <2>2, <2>3
<1>3. Pilot(vehicle, relayOpen) = "NoVehicle" => Pilot(vehicle', relayOpen') = "NoVehicle"
  BY <1>0, <1>1, <1>2, PilotTyped, Zenon
<1>4. /\ RestLeaveA'
      /\ cp = "NoVehicle" /\ cp # None /\ prints' # <<>> =>
           \/ Explains(1)'
           \/ MaskHolds /\ prints # <<>> /\ prints'[1] = prints[1]
  BY <1>0, <1>1, <1>3, PrintLeaves
<1>5. ASSUME cp = "NoVehicle", cp # None, MaskHolds, prints # <<>>, prints'[1] = prints[1]
      PROVE  MaskHolds'
  <2>1. PilotLetter \in {"A", ""}
    BY <1>0, <1>5, LettersRead
  <2>2. wake'.left = wake.left /\ ~wake'.settled
    BY <1>0, <1>1, <1>5, <2>1, StaysMasked, MaskRemains
  <2>3. wake'.left + prints'[1].age = wake.left + prints[1].age
    BY <1>5, <2>2
  <2> QED BY <1>2, <1>5, <2>2, <2>3, Zenon DEF MaskHolds
<1> QED BY <1>1, <1>4, <1>5, Zenon DEF LeavesA, FirstLeavesA

LEMMA LeavesStep ==
  ASSUME MaskInv, [Next]_vars
  PROVE  LeavesA'
<1>0. /\ WakeTypeOK /\ WakeTypeOK' /\ KnownInv /\ Tracked /\ LeavesA
      /\ vehicle \in Vehicles /\ relayOpen \in BOOLEAN /\ wake \in Pulse
      /\ prints \in Seq(PrintForm) /\ prints' \in Seq(PrintForm)
      /\ {movedAge, knownAge} \subseteq Nat
  BY TypeStep, Zenon DEF MaskInv, WakeInv, WakeTypeOK
<1>1. ASSUME NEW to \in {"away", "plugged", "charging"}, VehicleMoves(to)
      PROVE  LeavesA'
  <2>1. /\ PrintsTransition(to, relayOpen) /\ to \in Vehicles /\ cp' = cp
        /\ wake' = wake /\ relayOpen' = relayOpen /\ knownAge' = knownAge
        /\ movedAge' \in {0, movedAge} /\ (vehicle = "away" => movedAge' = 0)
    BY <1>1 DEF VehicleMoves, pulseVars, sessionVars, feedVars, Vehicles
  <2>2. Pilot(vehicle, relayOpen) = "NoVehicle" /\ Pilot(to, relayOpen) # "NoVehicle"
          => vehicle = "away"
    BY <1>0, <2>1, PilotTyped, Zenon
  <2>3. /\ RestLeaveA'
        /\ cp = "NoVehicle" /\ cp # None /\ prints' # <<>> =>
             \/ Explains(1)'
             \/ MaskHolds /\ prints # <<>> /\ prints'[1] = prints[1]
    <3>1. Pilot(vehicle, relayOpen) = "NoVehicle" /\ Pilot(to, relayOpen) # "NoVehicle"
            => movedAge' = 0 \/ knownAge' = 0
      BY <2>1, <2>2, Zenon
    <3>2. movedAge' \in {0, movedAge} /\ knownAge' \in {0, knownAge}
      BY <2>1, Zenon
    <3> QED BY <1>0, <2>1, <3>1, <3>2, PrintLeaves, Zenon
  <2>4. MaskHolds /\ prints'[1] = prints[1] => MaskHolds'
    BY <2>1 DEF MaskHolds
  <2> QED BY <2>1, <2>3, <2>4, Zenon DEF LeavesA, FirstLeavesA
<1>2. CASE FeedPilot
  <2>1. /\ prints # <<>> /\ prints' = Tail(prints) /\ cp' = prints[1].cp
        /\ movedAge' = movedAge /\ knownAge' = knownAge
    BY <1>0, <1>2, RestOfPrints DEF FeedPilot, Feed, carVars
  <2>2. /\ Len(prints) \in Nat /\ Len(prints') = Len(prints) - 1
        /\ \A i \in 1 .. Len(prints') :
             i + 1 \in 1 .. Len(prints) /\ prints'[i] = prints[i + 1]
    <3>1. /\ Len(prints) \in Nat /\ Len(prints') = Len(prints) - 1
          /\ \A i \in 1 .. Len(prints') : prints'[i] = prints[i + 1]
      BY <1>0, <2>1, RestOfPrints, Zenon
    <3> QED BY <3>1
  <2>3. ASSUME NEW i \in 1 .. Len(prints'),
               prints[i].cp = "NoVehicle", prints[i].cp # None
        PROVE  Explains(i)'
    <3>1. i \in 1 .. Len(prints) - 1
      BY <2>2
    <3>2. Explains(i + 1)
      BY <1>0, <2>3, <3>1, Zenon DEF LeavesA, RestLeaveA
    <3>3. prints[i + 1].age \in Nat /\ prints'[i] = prints[i + 1]
      BY <1>0, <2>2, PrintAges
    <3> QED BY <2>1, <3>1, <3>2, <3>3, StaysExplained
  <2>4. RestLeaveA'
    <3>1. ASSUME NEW i \in 1 .. Len(prints') - 1,
                 prints'[i].cp = "NoVehicle", prints'[i].cp # None
          PROVE  Explains(i + 1)'
      <4>1. i + 1 \in 1 .. Len(prints') /\ i \in 1 .. Len(prints')
        BY <2>2
      <4>2. prints[i + 1].cp = "NoVehicle" /\ prints[i + 1].cp # None
        BY <2>2, <3>1, <4>1
      <4> QED BY <2>3, <4>1, <4>2
    <3> QED BY <3>1 DEF RestLeaveA
  <2>5. prints' # <<>> /\ prints[1].cp = "NoVehicle" /\ prints[1].cp # None
          => Explains(1)'
    <3>1. prints' # <<>> => 1 \in 1 .. Len(prints')
      <4>1. prints' # <<>> => Len(prints') \in Nat /\ Len(prints') > 0
        BY <1>0, RestOfPrints
      <4> QED BY <4>1
    <3> QED BY <2>3, <3>1
  <2> QED BY <2>1, <2>4, <2>5, Zenon DEF LeavesA, FirstLeavesA
<1>3. CASE ReadLost \/ (\E lost \in 0 .. Len(prints) : SessionEnds(lost)) \/ Reboot
  <2>1. knownAge' = 0
    BY <1>3 DEF ReadLost, SessionEnds, Reboot
  <2> QED BY <1>0, <2>1, UnknownExplains
<1>4. ASSUME NEW length \in Pulses, ApplyWakeup(length)
      PROVE  LeavesA'
  <2>1. /\ DriveCpRelay(TRUE) /\ cp' = cp /\ movedAge' = movedAge /\ knownAge' = knownAge
    BY <1>4 DEF ApplyWakeup, sessionVars, feedVars
  <2>2. /\ vehicle' \in Vehicles /\ relayOpen' = TRUE /\ PrintsTransition(vehicle', TRUE)
        /\ TRUE \in BOOLEAN
    BY <1>0, <2>1, RelayMoves
  <2>3. Pilot(vehicle', TRUE) = "NoVehicle"
    BY <2>2, PilotTyped
  <2>4. RestLeaveA'
    BY <1>0, <2>1, <2>2, <2>3, PrintLeaves
  <2>5. MaskHolds'
    BY <2>2, Zenon DEF MaskHolds
  <2> QED BY <2>4, <2>5, Zenon DEF LeavesA, FirstLeavesA
<1>5. CASE Tick
  BY <1>5, TickCloses, TickShows, Zenon
<1>6. CASE FeedMetering
  <2>1. /\ UNCHANGED <<carVars, prints, knownAge, pulseVars>> /\ cp' \in {cp, None}
    BY <1>6 DEF FeedMetering, Feed
  <2> QED
    BY <1>0, <2>1
    DEF LeavesA, FirstLeavesA, RestLeaveA, Explains, MaskHolds, carVars, pulseVars
<1>7. CASE Elapse /\ ~heard
  <2>1. knownAge' = 0
    BY <1>7 DEF Elapse
  <2> QED BY <1>0, <2>1, UnknownExplains
<1>8. CASE Elapse /\ heard
  <2>1. /\ wake' = AfterUnit(wake) /\ relayOpen' = relayOpen /\ cp' = cp
        /\ movedAge' <= movedAge + 1 /\ knownAge' <= knownAge + 1
        /\ movedAge' \in Nat /\ knownAge' \in Nat
    <3>1. /\ wake' = AfterUnit(wake) /\ relayOpen' = relayOpen /\ cp' = cp
          /\ movedAge' = Older(movedAge, NewsHorizon)
          /\ knownAge' = 0 \/ knownAge' = Older(knownAge, NewsHorizon)
          /\ movedAge \in Nat /\ knownAge \in Nat
      BY <1>0, <1>8 DEF Elapse
    <3>2. \A age \in Nat : /\ Older(age, NewsHorizon) \in Nat
                            /\ Older(age, NewsHorizon) <= age + 1
      BY OlderTrue, Lengths
    <3> QED BY <3>1, <3>2
  <2>2. /\ Len(prints') = Len(prints) /\ (prints' = <<>> <=> prints = <<>>)
        /\ \A i \in 1 .. Len(prints) :
             /\ prints'[i].cp = prints[i].cp /\ prints'[i].age = prints[i].age + 1
             /\ prints[i].age \in Nat
    BY <1>0, <1>8, PrintsAge, PrintAges
  <2>3. ASSUME NEW i \in 1 .. Len(prints), Explains(i)
        PROVE  Explains(i)'
    <3>1. prints'[i].age = prints[i].age + 1 /\ prints[i].age \in Nat
      BY <2>2
    <3> QED BY <1>0, <2>1, <2>3, <3>1 DEF Explains
  <2>4. RestLeaveA'
    <3>1. ASSUME NEW i \in 1 .. Len(prints) - 1,
                 prints[i].cp = "NoVehicle", prints[i].cp # None
          PROVE  Explains(i + 1)'
      <4>1. Explains(i + 1) /\ i + 1 \in 1 .. Len(prints)
        BY <1>0, <3>1 DEF LeavesA, RestLeaveA
      <4> QED BY <2>3, <4>1
    <3>2. \A i \in 1 .. Len(prints) - 1 : i \in 1 .. Len(prints)
      BY <1>0
    <3> QED BY <2>2, <3>1, <3>2 DEF RestLeaveA
  <2>5. prints # <<>> => 1 \in 1 .. Len(prints)
    <3>1. prints # <<>> => Len(prints) \in Nat /\ Len(prints) > 0
      BY <1>0, RestOfPrints
    <3> QED BY <3>1
  <2>6. ASSUME prints # <<>>, MaskHolds
        PROVE  MaskHolds'
    <3>1. CASE relayOpen
      BY <2>1, <3>1, Zenon DEF MaskHolds
    <3>2. CASE /\ wake.left # None /\ ~wake.settled /\ wake.left <= 0
               /\ wake.left + prints[1].age >= -TickLag
      <4>1. /\ wake'.left # None /\ ~wake'.settled /\ wake.left \in Int
            /\ wake'.left \in {wake.left, wake.left - 1}
        BY <1>0, <2>1, <3>2, UnitLess
      <4>2. prints'[1].age = prints[1].age + 1 /\ prints[1].age \in Nat
        BY <2>2, <2>5, <2>6
      <4>3. wake'.left <= 0 /\ wake'.left + prints'[1].age >= -TickLag
        BY <3>2, <4>1, <4>2, Lengths
      <4> QED BY <4>1, <4>3, Zenon DEF MaskHolds
    <3> QED BY <2>6, <3>1, <3>2, Zenon DEF MaskHolds
  <2>7. FirstLeavesA'
    BY <1>0, <2>1, <2>2, <2>3, <2>5, <2>6, Zenon DEF LeavesA, FirstLeavesA
  <2> QED BY <2>4, <2>7 DEF LeavesA
<1>9. CASE (\E length \in Pulses : RepeatWakeup(length)) \/ UNCHANGED vars
  <2>1. /\ UNCHANGED <<carVars, prints, cp, relayOpen, knownAge>> /\ wake' = wake
    BY <1>9 DEF RepeatWakeup, Request, vars, sessionVars, feedVars, pulseVars
  <2> QED
    BY <1>0, <2>1
    DEF LeavesA, FirstLeavesA, RestLeaveA, Explains, MaskHolds, carVars
<1> QED BY <1>1, <1>2, <1>3, <1>4, <1>5, <1>6, <1>7, <1>8, <1>9 DEF Next
-----------------------------------------------------------------------------
(***************************************************************************)
(* The letter.                                                             *)
(***************************************************************************)

\* An A that no mask covers is true, or was within the way of a print.
LEMMA UnmaskedA ==
  ASSUME MaskInv, PilotLetter = "A", ~Masks(wake, PilotLetter)
  PROVE  vehicle = "away" \/ movedAge <= PrintLag \/ knownAge <= PrintLag
<1>0. /\ WakeTypeOK /\ PulseInv /\ KnownInv /\ Tracked /\ LeavesA /\ vehicle \in Vehicles
      /\ relayOpen \in BOOLEAN /\ wake \in Pulse /\ prints \in Seq(PrintForm)
      /\ movedAge \in Nat /\ knownAge \in Nat
  BY DEF MaskInv, WakeInv, WakeTypeOK
<1>1. cp = "NoVehicle" /\ cp # None
  BY <1>0, LettersRead
<1>2. ~(MaskHolds /\ (relayOpen \/ prints # <<>>))
  <2>1. PilotLetter \in {"A", ""}
    OBVIOUS
  <2> QED BY <1>0, <2>1, MaskRuns, MaskRemains, Zenon
<1>3. ~relayOpen
  BY <1>2, Zenon DEF MaskHolds
<1>4. CASE prints = <<>>
  <2>1. CASE Live
    <3>1. Pilot(vehicle, relayOpen) = "NoVehicle"
      BY <1>0, <1>1, <1>4, <2>1 DEF Tracked
    <3> QED BY <1>0, <1>3, <3>1, PilotTyped, Zenon
  <2>2. CASE ~Live
    <3>1. knownAge = 0
      BY <1>0, <2>2, Zenon DEF KnownInv
    <3> QED BY <3>1, Lengths
  <2> QED BY <2>1, <2>2
<1>5. CASE prints # <<>>
  <2>1. Explains(1)
    BY <1>0, <1>1, <1>2, <1>5, Zenon DEF LeavesA, FirstLeavesA
  <2>2. 1 \in 1 .. Len(prints)
    <3>1. Len(prints) \in Nat /\ Len(prints) > 0
      BY <1>0, <1>5, RestOfPrints
    <3> QED BY <3>1
  <2>3. prints[1].age \in Nat /\ prints[1].age <= PrintLag
    BY <1>0, <2>2, PrintAges
  <2>4. ASSUME NEW age \in Nat, age <= prints[1].age
        PROVE  age <= PrintLag
    BY <2>3, <2>4, Lengths
  <2> QED BY <1>0, <2>1, <2>4, Zenon DEF Explains
<1> QED BY <1>4, <1>5

LEMMA LetterStep ==
  ASSUME MaskInv, [Next]_vars
  PROVE  LetterInv'
<1>0. /\ WakeTypeOK /\ LetterInv /\ {movedAge, knownAge} \subseteq Nat
      /\ sinceTick \in 0 .. TickLag
  BY DEF MaskInv, WakeInv, WakeTypeOK
<1>1. ASSUME NEW to \in {"away", "plugged", "charging"}, VehicleMoves(to)
      PROVE  LetterInv'
  <2>1. /\ vehicle' = to /\ letter' = letter /\ sinceTick' = sinceTick
        /\ knownAge' = knownAge
        /\ "away" \in {to, vehicle} => movedAge' = 0
        /\ "away" \notin {to, vehicle} => movedAge' = movedAge
    BY <1>1 DEF VehicleMoves, sessionVars
  <2>2. 0 <= PrintLag + sinceTick
    BY <1>0, Lengths
  <2>3. CASE "away" \in {to, vehicle}
    BY <2>1, <2>2, <2>3, Zenon DEF LetterInv
  <2>4. CASE "away" \notin {to, vehicle}
    BY <1>0, <2>1, <2>4, Zenon DEF LetterInv
  <2> QED BY <2>3, <2>4
<1>2. ASSUME NEW open \in BOOLEAN, DriveCpRelay(open), letter' = letter,
             UNCHANGED <<movedAge, sinceTick, knownAge>>
      PROVE  LetterInv'
  <2>1. vehicle' = "away" <=> vehicle = "away"
    BY <1>0, <1>2, RelayMoves
  <2>2. movedAge' = movedAge /\ sinceTick' = sinceTick /\ knownAge' = knownAge
    BY <1>2
  <2> QED BY <1>0, <1>2, <2>1, <2>2, Zenon DEF LetterInv
<1>3. CASE \E length \in Pulses : ApplyWakeup(length)
  BY <1>2, <1>3 DEF ApplyWakeup, sessionVars
<1>4. CASE Tick
  <2>1. /\ letter' = ShownLetter(wake, PilotLetter) /\ movedAge' = movedAge
        /\ knownAge' = knownAge /\ sinceTick' = 0 /\ DriveCpRelay(IsOpen(wake))
    BY <1>4 DEF Tick, sessionVars
  <2>2. vehicle' = "away" <=> vehicle = "away"
    BY <1>0, <2>1, RelayMoves, Openness
  <2>3. letter' = "A" => PilotLetter = "A" /\ ~Masks(wake, PilotLetter)
    BY <2>1 DEF ShownLetter
  <2>4. letter' = "A" => vehicle = "away" \/ movedAge <= PrintLag \/ knownAge <= PrintLag
    BY <2>3, UnmaskedA, Zenon
  <2>5. PrintLag + sinceTick' = PrintLag
    BY <2>1, Lengths
  <2> QED BY <2>1, <2>2, <2>4, <2>5, Zenon DEF LetterInv
<1>5. CASE ReadLost \/ (\E lost \in 0 .. Len(prints) : SessionEnds(lost)) \/ Reboot
  <2>1. knownAge' = 0 /\ (sinceTick' = sinceTick \/ sinceTick' = 0)
    BY <1>5 DEF ReadLost, SessionEnds, Reboot
  <2>2. knownAge' <= PrintLag + sinceTick'
    BY <1>0, <2>1, Lengths
  <2> QED BY <2>2, Zenon DEF LetterInv
<1>6. CASE Elapse
  <2>1. /\ vehicle' = vehicle /\ letter' = letter /\ sinceTick' = sinceTick + 1
        /\ movedAge' <= movedAge + 1 /\ knownAge' <= knownAge + 1
        /\ movedAge' \in Nat /\ knownAge' \in Nat
    <3>1. /\ vehicle' = vehicle /\ letter' = letter /\ sinceTick' = sinceTick + 1
          /\ movedAge' = Older(movedAge, NewsHorizon)
          /\ knownAge' = 0 \/ knownAge' = Older(knownAge, NewsHorizon)
          /\ movedAge \in Nat /\ knownAge \in Nat
      BY <1>0, <1>6 DEF Elapse
    <3>2. \A age \in Nat : /\ Older(age, NewsHorizon) \in Nat
                            /\ Older(age, NewsHorizon) <= age + 1
      BY OlderTrue, Lengths
    <3> QED BY <3>1, <3>2
  <2>2. movedAge <= PrintLag + sinceTick => movedAge' <= PrintLag + sinceTick'
    BY <1>0, <2>1, Lengths
  <2>3. knownAge <= PrintLag + sinceTick => knownAge' <= PrintLag + sinceTick'
    BY <1>0, <2>1, Lengths
  <2> QED BY <1>0, <2>1, <2>2, <2>3, Zenon DEF LetterInv
<1>7. CASE \/ FeedPilot \/ FeedMetering
           \/ (\E length \in Pulses : RepeatWakeup(length)) \/ UNCHANGED vars
  <2>1. UNCHANGED <<carVars, letter, sinceTick, knownAge>>
    BY <1>7 DEF FeedPilot, FeedMetering, Feed, RepeatWakeup, sessionVars, vars
  <2> QED BY <1>0, <2>1 DEF LetterInv, carVars
<1> QED BY <1>1, <1>3, <1>4, <1>5, <1>6, <1>7 DEF Next
-----------------------------------------------------------------------------
(***************************************************************************)
(* The theorems.                                                           *)
(***************************************************************************)

LEMMA WakeInit ==
  ASSUME Init
  PROVE  MaskInv
<1>1. WakeTypeOK
  <2>1. NoPulse \in Pulse
    BY DEF NoPulse, Pulse
  <2>2. 0 \in 0 .. TickLag /\ 0 \in Nat /\ NewsHorizon \in Nat
    BY Lengths
  <2>3. prints \in Seq(PrintForm)
    <3>1. prints = <<>>
      BY DEF Init
    <3> QED BY <3>1
  <2>4. vehicle \in Vehicles /\ relayOpen \in BOOLEAN /\ cp \in CpStates \cup {None}
    BY DEF Init, Vehicles
  <2>5. /\ movedAge = NewsHorizon /\ pulseAge = 0 /\ knownAge = 0 /\ sinceTick = 0
        /\ wake = NoPulse
    BY DEF Init
  <2> QED BY <2>1, <2>2, <2>3, <2>4, <2>5, Zenon DEF WakeTypeOK
<1>2. ~IsOpen(wake) /\ ~relayOpen /\ prints = <<>> /\ cp = None
  BY DEF Init, NoPulse, IsOpen
<1>3. PulseInv /\ KnownInv /\ Tracked /\ Outlasts /\ Silent
  <2>1. knownAge = 0 /\ ~Live
    BY DEF Init, Live
  <2> QED BY <1>2, <2>1, Zenon DEF PulseInv, KnownInv, Tracked, Outlasts, Silent
<1>4. LeavesA
  <2>1. \A i \in 1 .. Len(prints) - 1 : FALSE
    BY <1>2
  <2> QED BY <1>2, <2>1, Zenon DEF LeavesA, FirstLeavesA, RestLeaveA
<1>5. LetterInv
  BY DEF Init, LetterInv
<1> QED BY <1>1, <1>3, <1>4, <1>5 DEF MaskInv, WakeInv

\* What holds of pulses of any length: wake.rs's "never stretched by a repeat" as an
\* inductive bound, and that a session that was fed a pilot and lost no line after it
\* has the box's own one, or its print in the queue.
THEOREM WakeInvariant == Spec => []WakeInv
<1>1. Init => WakeInv
  BY WakeInit DEF MaskInv
<1>2. WakeInv /\ [Next]_vars => WakeInv'
  BY TypeStep, PulseStep, KnownStep, TrackedStep DEF WakeInv
<1> QED BY <1>1, <1>2, PTL DEF Spec

\* wake.rs: "one length per command, never stretched by a repeat".  Whatever is asked
\* for in whatever order, the relay falls back within the longest length and a tick.
THEOREM NoPulseStretched == Spec => []NeverStretched
<1>1. WakeInv => NeverStretched
  <2> SUFFICES ASSUME WakeInv, relayOpen
               PROVE  pulseAge <= LongestPulse + TickLag
    BY DEF NeverStretched
  <2>1. pulseAge <= LongestPulse + sinceTick
    BY Zenon DEF WakeInv, PulseInv
  <2>2. pulseAge \in Nat /\ sinceTick \in 0 .. TickLag
    BY DEF WakeInv, WakeTypeOK
  <2> QED BY <2>1, <2>2, Lengths
<1> QED BY <1>1, WakeInvariant, PTL

\* SPECS.md on charge_state: with pulses longer than the way of a print, as the default
\* of 12 s is, evcc reads an A only of a car that is away or was until just now, unless
\* a session ended, a pilot line was destroyed or the board booted until just now: lines
\* that wait out an outage of any length, and a controller that keeps its pilot over it.
\* FindPhantomUnplug shows that it takes that hypothesis.
THEOREM NoUnplugOfOurOwn ==
  ASSUME \A p \in Pulses : PrintLag < p
  PROVE  Spec => []NoPhantomUnplug
<1>1. Init => MaskInv
  BY WakeInit
<1>2. MaskInv /\ [Next]_vars => MaskInv'
  BY TypeStep, PulseStep, KnownStep, TrackedStep, OutlastsStep, SilentStep, LeavesStep,
     LetterStep
  DEF MaskInv, WakeInv
<1>3. MaskInv => NoPhantomUnplug
  <2> SUFFICES ASSUME MaskInv, letter = "A"
               PROVE  \/ vehicle = "away"
                      \/ movedAge <= PrintLag + TickLag
                      \/ knownAge <= PrintLag + TickLag
    BY DEF NoPhantomUnplug
  <2>1. /\ {movedAge, knownAge} \subseteq Nat /\ sinceTick \in 0 .. TickLag
    BY DEF MaskInv, WakeInv, WakeTypeOK
  <2>2. ASSUME NEW age \in Nat, age <= PrintLag + sinceTick
        PROVE  age <= PrintLag + TickLag
    BY <2>1, <2>2, Lengths
  <2> QED BY <2>1, <2>2, Zenon DEF MaskInv, LetterInv
<1> QED BY <1>1, <1>2, <1>3, PTL DEF Spec
=============================================================================
