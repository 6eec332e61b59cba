------------------------------ MODULE Cn28Feed ------------------------------
(***************************************************************************)
(* The telemetry path: the box prints lines on its CN28 console, a probe   *)
(* window reads some of them, each one that decodes is folded into the     *)
(* snapshot of core/src/probe/cn28.rs, and the snapshot is what the        *)
(* controller is fed (firmware/src/probe.rs).                              *)
(*                                                                         *)
(* A line is a record that names its kind; a line whose payload or label   *)
(* is lost is the kind it then decodes to.  The box writes a second stream *)
(* over its own lines, so any line may be damaged beyond recovery; windows *)
(* end in mid-burst; the snapshot lives as long as one broker session.     *)
(***************************************************************************)
EXTENDS Naturals, Sequences

CONSTANTS
  None,           \* the absent Option value
  Grants,         \* whole amps the box grants
  Draws,          \* phase currents the box meters
  Codes,          \* its error codes
  Damages,        \* what may happen to one metering line of a burst
  Reconnects,     \* whether the broker session may end
  MaxWire         \* bound: lines printed and not yet read

ASSUME FeedAssumption ==
  /\ Grants \subseteq Nat \ {0} /\ Draws \subseteq Nat
  /\ Damages \subseteq {"intact", "label", "line"}
  /\ Reconnects \in BOOLEAN /\ MaxWire \in Nat
  /\ None \notin Nat \cup Codes
  /\ Codes \cap {"pilot", "stop"} = {}      \* codes are numbers

Phases == 1 .. 3

CpStates == {"NoVehicle", "Connected", "Charging"}

\* A reading remembers the phase it was metered on, which no decoder sees.
Reading == [of: Phases, amps: Draws]

Line ==
  [kind: {"Phase"}, phase: Phases, reading: Reading]
    \cup [kind: {"PhaseUnlabelled"}, reading: Reading]
    \cup [kind: {"NoData"}, phase: Phases]
    \cup [kind: {"LbCurrent"}, amps: Nat]
    \cup [kind: {"CpStatus"}, state: CpStates]
    \cup [kind: {"Error", "Clear"}, code: Codes]
    \cup [kind: {"PwmStop", "Unparsed"}]

Plain(kind) == [kind |-> kind]

VARIABLES
  box,        \* the truth: [cp, grant, faults]
  wire,       \* lines printed and not yet read
  snapshot,   \* Cn28Snapshot of this session
  updated,    \* a line of the window under way decoded
  seen,       \* what the controller was last fed: [lb, car, cp]
  missed      \* news whose last line was destroyed, an older one standing (history)

vars == <<box, wire, snapshot, updated, seen, missed>>

-----------------------------------------------------------------------------
(***************************************************************************)
(* The decoder.                                                            *)
(***************************************************************************)
EmptySnapshot ==
  [phases |-> [p \in Phases |-> None], lb |-> None, cp |-> None, fault |-> None,
   pending |-> None]

Snapshot ==
  [phases: [Phases -> Reading \cup {None}], lb: Nat \cup {None},
   cp: CpStates \cup {None}, fault: Codes \cup {None}, pending: Reading \cup {None}]

\* Mutant: whichever phase follows, the held payload becomes phase 1.
PromoteBeforeAny(s, line) ==
  IF s.pending # None /\ line.kind = "Phase"
    THEN [s EXCEPT !.pending = None, !.phases[1] = s.pending]
    ELSE [s EXCEPT !.pending = None]

\* A held payload survives one record: it is phase 1 if that is a labelled P2.
Promote(s, line) ==
  IF s.pending # None /\ line.kind = "Phase" /\ line.phase = 2
    THEN [s EXCEPT !.pending = None, !.phases[1] = s.pending]
    ELSE [s EXCEPT !.pending = None]

\* Mutant: the last grant stays latched.
StopGrantLatched(s) == s

\* A cut ends the session, and an idle box prints no grant.
StopGrant(s) == [s EXCEPT !.lb = 0]

\* Mutant: a CLEAR is recognised and not acted on.
ClearFaultIgnored(s, code) == s

\* Only the code it names is retracted.
ClearFault(s, code) == IF s.fault = code THEN [s EXCEPT !.fault = None] ELSE s

\* The newest code replaces the one standing.
RaiseFault(s, code) == [s EXCEPT !.fault = code]

Apply(snap, line) ==
  LET s == Promote(snap, line) IN
  CASE line.kind = "PhaseUnlabelled" -> [s EXCEPT !.pending = line.reading]
    [] line.kind = "Phase"     -> [s EXCEPT !.phases[line.phase] = line.reading]
    [] line.kind = "NoData"    -> [s EXCEPT !.phases[line.phase] = None]
    [] line.kind = "LbCurrent" -> [s EXCEPT !.lb = line.amps]
    [] line.kind = "CpStatus"  -> [s EXCEPT !.cp = line.state]
    [] line.kind = "PwmStop"   -> StopGrant(s)
    [] line.kind = "Error"     -> RaiseFault(s, line.code)
    [] line.kind = "Clear"     -> ClearFault(s, line.code)

\* A line that does not decode leaves everything as it is, the held payload too.
ApplyLine(snap, line) == IF line.kind = "Unparsed" THEN snap ELSE Apply(snap, line)

-----------------------------------------------------------------------------
(***************************************************************************)
(* What the controller is fed: an absent grant is 0, the draw is the       *)
(* largest phase known.                                                    *)
(***************************************************************************)
\* Mutant: the absent grant is passed on.
FedGrantAbsent(s) == s.lb

FedGrant(s) == IF s.lb = None THEN 0 ELSE s.lb

FedDraw(s) ==
  LET known == {s.phases[p].amps : p \in {q \in Phases : s.phases[q] # None}}
  IN IF known = {} THEN 0 ELSE CHOOSE a \in known : \A b \in known : b <= a

Fed(s) == [lb |-> FedGrant(s), car |-> FedDraw(s), cp |-> s.cp]

Init ==
  /\ box = [cp |-> "NoVehicle", grant |-> 0, faults |-> {}]
  /\ wire = <<>>
  /\ snapshot = EmptySnapshot /\ updated = FALSE
  /\ seen = [lb |-> 0, car |-> 0, cp |-> None]
  /\ missed = {}

-----------------------------------------------------------------------------
(***************************************************************************)
(* The box prints.                                                         *)
(***************************************************************************)
\* What a line tells that is told only once.
News(line) ==
  CASE line.kind = "CpStatus" -> {"pilot"}
    [] line.kind = "PwmStop"  -> {"stop"}
    [] line.kind = "Clear"    -> {line.code}
    [] OTHER                  -> {}

NewsOf(lines) == UNION {News(lines[i]) : i \in DOMAIN lines}

\* What a line shows until such news corrects it.
Outdates(line) ==
  CASE line.kind = "CpStatus"  -> {"pilot"}
    [] line.kind = "LbCurrent" -> {"stop"}
    [] line.kind = "Error"     -> {line.code}
    [] OTHER                   -> {}

\* The news of which something older is shown, or is on its way to be.
Standing(s, lines) ==
  {n \in {"pilot", "stop"} \cup Codes :
     \/ n = "pilot" /\ s.cp # None
     \/ n = "stop" /\ FedGrant(s) # 0
     \/ n = s.fault
     \/ \E i \in DOMAIN lines : n \in Outdates(lines[i])}

\* The loop over a window's lines takes no time; a line printed later is in a later
\* window.
Emit(lines) ==
  /\ ~updated
  /\ Len(wire) + Len(lines) <= MaxWire
  /\ wire' = wire \o lines
  /\ UNCHANGED <<snapshot, updated, seen>>

\* The second stream destroys any of the lines printed: of a pilot line the scan
\* recovers nothing once ` Auth:`, the letter or `Cmax:` is gone.
EmitSpliced(lines) ==
  \E hit \in SUBSET DOMAIN lines :
    LET sent == [i \in DOMAIN lines |-> IF i \in hit THEN Plain("Unparsed")
                                       ELSE lines[i]]
    IN /\ Emit(sent)
       /\ missed' = (missed \cup (NewsOf(lines) \cap Standing(snapshot, wire))) \ NewsOf(sent)

\* A transition of the control pilot; leaving C stops the PWM and the grant.
MovePilot(state) ==
  /\ state # box.cp
  /\ LET cp == [kind |-> "CpStatus", state |-> state]
     IN EmitSpliced(IF box.cp = "Charging" THEN <<Plain("PwmStop"), cp>> ELSE <<cp>>)
  /\ \E a \in IF state = "Charging" THEN Grants ELSE {0} :
       box' = [box EXCEPT !.cp = state, !.grant = a]

PrintGrant ==
  /\ box.cp = "Charging"
  /\ EmitSpliced(<<[kind |-> "LbCurrent", amps |-> box.grant]>>)
  /\ UNCHANGED box

\* What is left of a line the second stream has been written over: a metering
\* line may lose just its label, any line may be lost.
Damaged(line, damage) ==
  CASE damage = "label" /\ line.kind = "Phase" ->
         [kind |-> "PhaseUnlabelled", reading |-> line.reading]
    [] damage = "line" -> Plain("Unparsed")
    [] OTHER -> line

\* What the box prints of a phase, with a meter behind it or without.
PhaseLine(p, amps) ==
  IF amps = None THEN [kind |-> "NoData", phase |-> p]
  ELSE [kind |-> "Phase", phase |-> p, reading |-> [of |-> p, amps |-> amps]]

\* P1, P2, P3 back to back, any of which may have no meter behind it; one is hit.
PrintPhases ==
  \E hit \in Phases, damage \in Damages, amps \in [Phases -> Draws \cup {None}] :
    LET printed(p) == IF p = hit THEN Damaged(PhaseLine(p, amps[p]), damage)
                      ELSE PhaseLine(p, amps[p])
    IN Emit(<<printed(1), printed(2), printed(3)>>) /\ UNCHANGED <<box, missed>>

RaiseError(code) ==
  /\ EmitSpliced(<<[kind |-> "Error", code |-> code]>>)
  /\ box' = [box EXCEPT !.faults = @ \cup {code}]

ClearError(code) ==
  /\ code \in box.faults
  /\ EmitSpliced(<<[kind |-> "Clear", code |-> code]>>)
  /\ box' = [box EXCEPT !.faults = @ \ {code}]

-----------------------------------------------------------------------------
(***************************************************************************)
(* The prober reads.                                                       *)
(***************************************************************************)
\* record_line, for each line a window made whole.
RecordLine ==
  /\ wire # <<>>
  /\ snapshot' = ApplyLine(snapshot, Head(wire))
  /\ updated' = (updated \/ Head(wire).kind # "Unparsed")
  /\ wire' = Tail(wire)
  /\ UNCHANGED <<box, seen, missed>>

\* After its last line a window that updated feeds the controller, once.
WindowEnds ==
  /\ updated
  /\ seen' = Fed(snapshot) /\ updated' = FALSE
  /\ UNCHANGED <<box, wire, snapshot, missed>>

\* What a line is to a decoder that lost the beginning of it; a pilot line is
\* recovered from its ` Auth:` or lost.
CutOff(line) ==
  {Plain("Unparsed")} \cup
  (IF line.kind = "Phase" THEN {Damaged(line, "label")} ELSE {})

\* A failing session drops what its window had read and, with the reassembler,
\* the half line it ended in.
LoseRead ==
  \E n \in 0 .. Len(wire) :
    LET rest == SubSeq(wire, n + 1, Len(wire)) IN
    \/ wire' = rest
    \/ rest # <<>> /\ \E cut \in CutOff(rest[1]) : wire' = [rest EXCEPT ![1] = cut]

\* Mutant: the snapshot outlives the session.
NewSessionKeepingSnapshot ==
  /\ Reconnects /\ ~updated
  /\ LoseRead
  /\ missed' = missed \cap Standing(EmptySnapshot, wire')
  /\ UNCHANGED <<box, snapshot, updated, seen>>

\* The next broker session starts with nothing decoded: only a line still to be
\* read can show again what a destroyed one was to correct.
NewSession ==
  /\ Reconnects /\ ~updated
  /\ LoseRead
  /\ snapshot' = EmptySnapshot
  /\ missed' = missed \cap Standing(EmptySnapshot, wire')
  /\ UNCHANGED <<box, updated, seen>>

Next ==
  \/ \E state \in CpStates : MovePilot(state)
  \/ PrintGrant
  \/ PrintPhases
  \/ \E code \in Codes : RaiseError(code) \/ ClearError(code)
  \/ RecordLine \/ WindowEnds
  \/ NewSession

Spec == Init /\ [][Next]_vars

-----------------------------------------------------------------------------
(***************************************************************************)
(* Properties.                                                             *)
(***************************************************************************)
FeedTypeOK ==
  /\ box \in [cp: CpStates, grant: Nat, faults: SUBSET Codes]
  /\ wire \in Seq(Line)
  /\ snapshot \in Snapshot /\ updated \in BOOLEAN
  /\ seen \in [lb: Nat, car: Nat, cp: CpStates \cup {None}]
  /\ missed \subseteq {"pilot", "stop"} \cup Codes

\* docs/cn28-log-protocol.md: "a mislabelled phase is worse than a missing
\* reading".  However bursts lose labels, lose meters and are cut by windows, a
\* slot holds a reading of its own phase or none.
PhasesAreTrue ==
  \A p \in Phases : snapshot.phases[p] # None => snapshot.phases[p].of = p

\* Once everything printed is read, a box without a session is known to grant
\* nothing, unless the last Stop line was destroyed: no grant stays latched to
\* mislead the start of the next session.
EndedGrantIsZero ==
  wire = <<>> /\ box.cp # "Charging" /\ "stop" \notin missed => FedGrant(snapshot) = 0

\* cn28.rs: the pilot line "is emitted only on transitions, so a single lost one
\* latches the CP state until the next plug/charge event" - until then, and no
\* longer: once everything printed is read, the pilot is the box's own or unknown
\* unless the last pilot line this session was to read was destroyed.
PilotTrueOrUnknown ==
  wire = <<>> /\ "pilot" \notin missed => snapshot.cp \in {None, box.cp}

\* A fault on display is one the box has raised and not cleared, or one whose CLEAR
\* line was destroyed.
ShownFaultStands ==
  wire = <<>> /\ snapshot.fault # None /\ snapshot.fault \notin missed
    => snapshot.fault \in box.faults

-----------------------------------------------------------------------------
(***************************************************************************)
(* What the documentation says and the code does not do.                   *)
(***************************************************************************)

\* docs/cn28-log-protocol.md on the fault: "cleared only by a `CLEAR:` naming the
\* same code", and `null` means healthy.
NoFaultMeansHealthy ==
  wire = <<>> /\ snapshot.fault = None => box.faults = {}
=============================================================================
