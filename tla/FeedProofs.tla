----------------------------- MODULE FeedProofs -----------------------------
(***************************************************************************)
(* The invariants of Cn28Feed, proved for every value of its constants:    *)
(* what the snapshot shows is the box's own phase, grant, pilot and fault. *)
(* Each rests on what the lines not yet read will still make of it.        *)
(***************************************************************************)
EXTENDS Cn28Feed, TLAPS

\* A reading of another phase than the first.
Foreign(line) == line.kind \in {"Phase", "PhaseUnlabelled"} /\ line.reading.of # 1

SecondPhase(line) == line.kind = "Phase" /\ line.phase = 2

\* A label tells the phase the reading was metered on; what comes before a second phase
\* is not foreign, for it would be promoted; and it is lost only as the first line of a
\* session, with nothing held that could outlive it.
LabelsInOrder ==
  /\ \A i \in DOMAIN wire : wire[i].kind = "Phase" => wire[i].reading.of = wire[i].phase
  /\ \A i \in DOMAIN wire : i > 1 /\ SecondPhase(wire[i]) =>
       /\ ~Foreign(wire[i - 1])
       /\ wire[i - 1].kind = "Unparsed" => i = 2 /\ snapshot.pending = None
  /\ snapshot.pending # None /\ snapshot.pending.of # 1 =>
       ~(wire # <<>> /\ SecondPhase(wire[1]))
  /\ PhasesAreTrue

\* Of a box out of C every grant on the wire, and one shown, is stopped by a later line,
\* or the line that was to do it was destroyed.
GrantsEnd ==
  box.cp # "Charging" /\ "stop" \notin missed =>
    /\ \A i \in DOMAIN wire : wire[i].kind = "LbCurrent" =>
         \E j \in DOMAIN wire : j > i /\ wire[j].kind = "PwmStop"
    /\ FedGrant(snapshot) # 0 => \E j \in DOMAIN wire : wire[j].kind = "PwmStop"

\* The last pilot line on the wire is the box's pilot; without one, the one shown is;
\* or the last one printed was destroyed.
PilotArrives ==
  "pilot" \notin missed =>
  /\ \A i \in DOMAIN wire :
       /\ wire[i].kind = "CpStatus"
       /\ \A j \in DOMAIN wire : j > i => wire[j].kind # "CpStatus"
       => wire[i].state = box.cp
  /\ (\A i \in DOMAIN wire : wire[i].kind # "CpStatus") =>
       snapshot.cp \in {None, box.cp}

Retracts(line, code) == line.kind = "Clear" /\ line.code = code

\* A fault the box has cleared is retracted by a line behind every one that raises it,
\* or the line that was to do it was destroyed.
FaultsEnd ==
  \A code \in Codes \ (box.faults \cup missed) :
    /\ \A i \in DOMAIN wire : wire[i].kind = "Error" /\ wire[i].code = code =>
         \E j \in DOMAIN wire : j > i /\ Retracts(wire[j], code)
    /\ snapshot.fault = code => \E j \in DOMAIN wire : Retracts(wire[j], code)

FeedInv == FeedTypeOK /\ GrantsEnd /\ PilotArrives /\ FaultsEnd
-----------------------------------------------------------------------------
(***************************************************************************)
(* The wire.                                                               *)
(***************************************************************************)

\* What is printed comes behind the lines that wait.
LEMMA PrintedLines ==
  ASSUME wire \in Seq(Line), NEW lines \in Seq(Line), wire' = wire \o lines
  PROVE  /\ wire' \in Seq(Line) /\ Len(wire') = Len(wire) + Len(lines)
         /\ \A i \in DOMAIN wire : i \in DOMAIN wire' /\ wire'[i] = wire[i]
         /\ \A i \in DOMAIN wire' : i \in DOMAIN wire \/ i - Len(wire) \in DOMAIN lines
         /\ \A i \in DOMAIN lines : /\ Len(wire) + i \in DOMAIN wire'
                                    /\ wire'[Len(wire) + i] = lines[i]
OBVIOUS

\* The same of what a printer sends.
LEMMA SentLines ==
  ASSUME wire \in Seq(Line), NEW sent \in Seq(Line), Emit(sent)
  PROVE  /\ wire' \in Seq(Line) /\ snapshot' = snapshot
         /\ \A i \in DOMAIN wire : i \in DOMAIN wire' /\ wire'[i] = wire[i]
         /\ \A i \in DOMAIN wire' :
              \/ i \in DOMAIN wire
              \/ \E k \in DOMAIN sent : i = Len(wire) + k /\ wire'[i] = sent[k]
         /\ \A k \in DOMAIN sent :
              /\ Len(wire) + k \in DOMAIN wire' /\ wire'[Len(wire) + k] = sent[k]
              /\ \A i \in DOMAIN wire : i < Len(wire) + k
<1>1. wire' = wire \o sent /\ snapshot' = snapshot
  BY DEF Emit
<1>2. /\ \A i \in DOMAIN wire' : i \in DOMAIN wire \/ i - Len(wire) \in DOMAIN sent
      /\ \A i \in DOMAIN sent : /\ Len(wire) + i \in DOMAIN wire'
                                 /\ wire'[Len(wire) + i] = sent[i]
  BY <1>1, PrintedLines
<1>3. \A i \in DOMAIN wire' : i \in Nat /\ i = Len(wire) + (i - Len(wire))
  BY <1>1
<1>4. \A k \in DOMAIN sent : \A i \in DOMAIN wire : i < Len(wire) + k
  OBVIOUS
<1> QED BY <1>1, <1>2, <1>3, <1>4, PrintedLines

\* What is read is the first of them.
LEMMA RestOfLines ==
  ASSUME wire \in Seq(Line), wire # <<>>, wire' = Tail(wire)
  PROVE  /\ wire' \in Seq(Line) /\ Len(wire') = Len(wire) - 1
         /\ Head(wire) = wire[1] /\ wire[1] \in Line /\ 1 \in DOMAIN wire
         /\ \A i \in DOMAIN wire' : i + 1 \in DOMAIN wire /\ wire'[i] = wire[i + 1]
         /\ \A i \in DOMAIN wire : i > 1 => i - 1 \in DOMAIN wire' /\ wire'[i - 1] = wire[i]
OBVIOUS

\* Of the lines printed some are destroyed.
LEMMA SplicedLines ==
  ASSUME NEW lines \in Seq(Line), EmitSpliced(lines)
  PROVE  \E sent \in Seq(Line) :
           /\ Emit(sent) /\ Len(sent) = Len(lines)
           /\ \A i \in DOMAIN lines : sent[i] \in {lines[i], Plain("Unparsed")}
           /\ missed' = (missed \cup (NewsOf(lines) \cap Standing(snapshot, wire)))
                          \ NewsOf(sent)
<1>1. PICK hit \in SUBSET DOMAIN lines :
        LET sent == [i \in DOMAIN lines |-> IF i \in hit THEN Plain("Unparsed")
                                           ELSE lines[i]]
        IN /\ Emit(sent)
           /\ missed' = (missed \cup (NewsOf(lines) \cap Standing(snapshot, wire)))
                          \ NewsOf(sent)
  BY DEF EmitSpliced
<1> DEFINE sent == [i \in DOMAIN lines |-> IF i \in hit THEN Plain("Unparsed")
                                          ELSE lines[i]]
<1>2. Plain("Unparsed") \in Line
  BY DEF Plain, Line
<1>3. sent \in Seq(Line) /\ Len(sent) = Len(lines)
  BY <1>2
<1>4. \A i \in DOMAIN lines : sent[i] \in {lines[i], Plain("Unparsed")}
  OBVIOUS
<1> QED BY <1>1, <1>3, <1>4

\* What each line tells, and what it leaves to be corrected.
LEMMA LineNews ==
  ASSUME NEW line \in Line
  PROVE  /\ "pilot" \in News(line) <=> line.kind = "CpStatus"
         /\ "stop" \in News(line) <=> line.kind = "PwmStop"
         /\ \A code \in Codes : code \in News(line) <=> Retracts(line, code)
         /\ line.kind = "CpStatus" => "pilot" \in Outdates(line)
         /\ line.kind = "LbCurrent" => "stop" \in Outdates(line)
         /\ line.kind = "Error" => line.code \in Outdates(line)
<1>1. \A code \in Codes : code # "pilot" /\ code # "stop"
  BY FeedAssumption, Zenon
<1>2. line.kind \in {"Error", "Clear"} => line.code \in Codes
  BY DEF Line
<1> QED BY <1>1, <1>2 DEF News, Outdates, Retracts

\* What is not standing is neither shown nor on its way.
LEMMA NothingStands ==
  ASSUME NEW s \in Snapshot, NEW lines \in Seq(Line)
  PROVE  /\ "pilot" \notin Standing(s, lines) =>
              s.cp = None /\ \A i \in DOMAIN lines : lines[i].kind # "CpStatus"
         /\ "stop" \notin Standing(s, lines) =>
              FedGrant(s) = 0 /\ \A i \in DOMAIN lines : lines[i].kind # "LbCurrent"
         /\ \A code \in Codes : code \notin Standing(s, lines) =>
              /\ s.fault # code
              /\ \A i \in DOMAIN lines : ~(lines[i].kind = "Error" /\ lines[i].code = code)
<1>1. \A i \in DOMAIN lines : lines[i] \in Line
  OBVIOUS
<1>2. ASSUME NEW i \in DOMAIN lines
      PROVE  /\ lines[i].kind = "CpStatus" => "pilot" \in Standing(s, lines)
             /\ lines[i].kind = "LbCurrent" => "stop" \in Standing(s, lines)
             /\ \A code \in Codes : lines[i].kind = "Error" /\ lines[i].code = code =>
                  code \in Standing(s, lines)
  BY <1>1, LineNews, Zenon DEF Standing
<1>3. /\ s.cp # None => "pilot" \in Standing(s, lines)
      /\ FedGrant(s) # 0 => "stop" \in Standing(s, lines)
      /\ \A code \in Codes : s.fault = code => code \in Standing(s, lines)
  BY Zenon DEF Standing
<1> QED BY <1>2, <1>3, Zenon

\* News that is not missed afterwards was told, or was none and not missed before, or
\* had nothing to correct.
LEMMA NotMissed ==
  ASSUME NEW lines, NEW sent, NEW n, n \notin missed',
         missed' = (missed \cup (NewsOf(lines) \cap Standing(snapshot, wire)))
                     \ NewsOf(sent)
  PROVE  \/ \E i \in DOMAIN sent : n \in News(sent[i])
         \/ /\ n \notin missed
            /\ (\E i \in DOMAIN lines : n \in News(lines[i])) =>
                 n \notin Standing(snapshot, wire)
BY Zenon DEF NewsOf

LEMMA CutOffTyped ==
  ASSUME NEW line \in Line, NEW cut \in CutOff(line)
  PROVE  /\ cut \in Line
         /\ \/ cut.kind = "Unparsed"
            \/ /\ cut.kind = "PhaseUnlabelled" /\ line.kind = "Phase"
               /\ cut.reading = line.reading
BY DEF CutOff, Damaged, Plain, Line

\* What a failing session leaves of the wire.
LEMMA LinesLost ==
  ASSUME wire \in Seq(Line), LoseRead
  PROVE  /\ wire' \in Seq(Line)
         /\ \E n \in 0 .. Len(wire) :
              /\ Len(wire') = Len(wire) - n
              /\ \A i \in DOMAIN wire' :
                   /\ i + n \in DOMAIN wire
                   /\ \/ wire'[i] = wire[i + n]
                      \/ i = 1 /\ wire'[1] \in CutOff(wire[i + n])
<1>1. PICK n \in 0 .. Len(wire) :
        LET rest == SubSeq(wire, n + 1, Len(wire)) IN
        \/ wire' = rest
        \/ rest # <<>> /\ \E cut \in CutOff(rest[1]) : wire' = [rest EXCEPT ![1] = cut]
  BY DEF LoseRead
<1> DEFINE rest == SubSeq(wire, n + 1, Len(wire))
<1>2. /\ rest \in Seq(Line) /\ Len(rest) = Len(wire) - n
      /\ \A i \in DOMAIN rest : i + n \in DOMAIN wire /\ rest[i] = wire[i + n]
  OBVIOUS
<1> HIDE DEF rest
<1>3. CASE wire' = rest
  BY <1>2, <1>3
<1>4. ASSUME rest # <<>>, NEW cut \in CutOff(rest[1]), wire' = [rest EXCEPT ![1] = cut]
      PROVE  /\ wire' \in Seq(Line) /\ Len(wire') = Len(wire) - n
             /\ \A i \in DOMAIN wire' :
                  /\ i + n \in DOMAIN wire
                  /\ \/ wire'[i] = wire[i + n]
                     \/ i = 1 /\ wire'[1] \in CutOff(wire[i + n])
  <2>1. 1 \in DOMAIN rest /\ rest[1] \in Line
    BY <1>2, <1>4
  <2>2. cut \in Line
    BY <2>1, CutOffTyped
  <2> QED BY <1>2, <1>4, <2>1, <2>2
<1> QED BY <1>1, <1>3, <1>4 DEF rest

\* A burst has each phase in its place, with its own reading or with what is left of it.
LEMMA BurstLines ==
  ASSUME PrintPhases
  PROVE  \E lines \in Seq(Line) :
           /\ Emit(lines) /\ UNCHANGED <<box, missed>>
           /\ Len(lines) = 3
           /\ \A p \in 1 .. 3 :
                /\ lines[p].kind \in {"Phase", "PhaseUnlabelled", "NoData", "Unparsed"}
                /\ lines[p].kind = "Phase" => lines[p].phase = p
                /\ lines[p].kind \in {"Phase", "PhaseUnlabelled"} => lines[p].reading.of = p
                /\ lines[p].kind = "Unparsed" => "line" \in Damages
<1>1. PICK hit \in Phases, damage \in Damages, amps \in [Phases -> Draws \cup {None}] :
        LET printed(p) == IF p = hit THEN Damaged(PhaseLine(p, amps[p]), damage)
                          ELSE PhaseLine(p, amps[p])
        IN Emit(<<printed(1), printed(2), printed(3)>>) /\ UNCHANGED <<box, missed>>
  BY DEF PrintPhases
<1> DEFINE printed(p) == IF p = hit THEN Damaged(PhaseLine(p, amps[p]), damage)
                         ELSE PhaseLine(p, amps[p])
<1> DEFINE Fits(line, p) ==
      /\ line \in Line
      /\ line.kind \in {"Phase", "PhaseUnlabelled", "NoData", "Unparsed"}
      /\ line.kind = "Phase" => line.phase = p
      /\ line.kind \in {"Phase", "PhaseUnlabelled"} => line.reading.of = p
      /\ line.kind = "Unparsed" => "line" \in Damages
<1>2. ASSUME NEW p \in Phases
      PROVE  Fits(printed(p), p)
  <2>1. PhaseLine(p, amps[p]).kind \in {"Phase", "NoData"} /\ Fits(PhaseLine(p, amps[p]), p)
    <3>1. CASE amps[p] = None
      BY <3>1 DEF PhaseLine, Line
    <3>2. CASE amps[p] # None
      <4>1. [of |-> p, amps |-> amps[p]] \in Reading
        BY <3>2 DEF Reading
      <4> QED BY <3>2, <4>1 DEF PhaseLine, Line
    <3> QED BY <3>1, <3>2
  <2>2. ASSUME NEW line, line.kind \in {"Phase", "NoData"}, Fits(line, p)
        PROVE  Fits(Damaged(line, damage), p)
    <3>1. line.kind = "Phase" => line.reading \in Reading
      BY <2>2 DEF Line
    <3>2. CASE damage = "label" /\ line.kind = "Phase"
      <4>1. Damaged(line, damage) = [kind |-> "PhaseUnlabelled", reading |-> line.reading]
        BY <3>2, Zenon DEF Damaged
      <4>2. [kind |-> "PhaseUnlabelled", reading |-> line.reading] \in Line
        BY <3>1, <3>2 DEF Line
      <4> QED BY <2>2, <3>2, <4>1, <4>2
    <3>3. CASE damage = "line"
      BY <3>3 DEF Damaged, Plain, Line
    <3>4. CASE damage # "line" /\ ~(damage = "label" /\ line.kind = "Phase")
      <4>1. Damaged(line, damage) = line
        BY <3>4 DEF Damaged
      <4> QED BY <2>2, <4>1
    <3> QED BY <3>2, <3>3, <3>4
  <2> QED BY <2>1, <2>2
<1>3. Fits(printed(1), 1) /\ Fits(printed(2), 2) /\ Fits(printed(3), 3)
  BY <1>2 DEF Phases
<1>4. Emit(<<printed(1), printed(2), printed(3)>>) /\ UNCHANGED <<box, missed>>
  BY <1>1
<1> HIDE DEF printed
<1> DEFINE lines == <<printed(1), printed(2), printed(3)>>
<1>5. lines \in Seq(Line) /\ Len(lines) = 3 /\ \A p \in 1 .. 3 : Fits(lines[p], p)
  BY <1>3
<1> QED BY <1>4, <1>5
-----------------------------------------------------------------------------
(***************************************************************************)
(* The decoder.                                                            *)
(***************************************************************************)

\* What each line makes of each part of the snapshot.
LEMMA Decoded ==
  ASSUME NEW s \in Snapshot, NEW line \in Line
  PROVE  LET t == ApplyLine(s, line) IN
         /\ t \in Snapshot
         /\ t.lb = IF line.kind = "LbCurrent" THEN line.amps
                   ELSE IF line.kind = "PwmStop" THEN 0 ELSE s.lb
         /\ t.cp = IF line.kind = "CpStatus" THEN line.state ELSE s.cp
         /\ t.fault = IF line.kind = "Error" THEN line.code
                      ELSE IF line.kind = "Clear" /\ s.fault = line.code THEN None
                      ELSE s.fault
<1> DEFINE q == Promote(s, line)
<1>1. q \in Snapshot /\ q.lb = s.lb /\ q.cp = s.cp /\ q.fault = s.fault
  <2>1. CASE s.pending # None /\ line.kind = "Phase" /\ line.phase = 2
    BY <2>1 DEF Promote, Snapshot, Phases
  <2>2. CASE ~(s.pending # None /\ line.kind = "Phase" /\ line.phase = 2)
    BY <2>2 DEF Promote, Snapshot
  <2> QED BY <2>1, <2>2
<1> HIDE DEF q
<1>2. CASE line.kind = "Phase"
  BY <1>1, <1>2 DEF ApplyLine, Apply, Line, Snapshot, q
<1>3. CASE line.kind = "PhaseUnlabelled"
  BY <1>1, <1>3 DEF ApplyLine, Apply, Line, Snapshot, q
<1>4. CASE line.kind = "NoData"
  BY <1>1, <1>4 DEF ApplyLine, Apply, Line, Snapshot, q
<1>5. CASE line.kind = "LbCurrent"
  BY <1>1, <1>5 DEF ApplyLine, Apply, Line, Snapshot, q
<1>6. CASE line.kind = "CpStatus"
  BY <1>1, <1>6 DEF ApplyLine, Apply, Line, Snapshot, q
<1>7. CASE line.kind = "PwmStop"
  BY <1>1, <1>7 DEF ApplyLine, Apply, StopGrant, Line, Snapshot, q
<1>8. CASE line.kind = "Error"
  BY <1>1, <1>8 DEF ApplyLine, Apply, RaiseFault, Line, Snapshot, q
<1>9. CASE line.kind = "Clear"
  BY <1>1, <1>9 DEF ApplyLine, Apply, ClearFault, Line, Snapshot, q
<1>10. CASE line.kind = "Unparsed"
  BY <1>10 DEF ApplyLine, Line
<1> QED BY <1>2, <1>3, <1>4, <1>5, <1>6, <1>7, <1>8, <1>9, <1>10 DEF Line

\* The largest of the phases known is one of them.
LEMMA FedTyped ==
  ASSUME NEW s \in Snapshot
  PROVE  Fed(s) \in [lb: Nat, car: Nat, cp: CpStates \cup {None}]
<1> DEFINE known == {s.phases[p].amps : p \in {q \in Phases : s.phases[q] # None}}
           reads(p) == s.phases[p] # None
<1>1. \A p \in Phases : reads(p) => s.phases[p].amps \in Nat
  BY FeedAssumption DEF Snapshot, Reading
<1>2. \A a : a \in known <=> \E p \in Phases : reads(p) /\ a = s.phases[p].amps
  OBVIOUS
<1>3. ASSUME known # {}
      PROVE  \E a \in known : \A b \in known : b <= a
  <2>1. \E p \in 1 .. 3 : reads(p) /\ \A q \in 1 .. 3 : reads(q) =>
                            s.phases[q].amps <= s.phases[p].amps
    BY <1>1, <1>2, <1>3 DEF Phases
  <2> QED BY <1>2, <2>1 DEF Phases
<1>4. known \subseteq Nat
  BY <1>1, <1>2
<1>5. FedDraw(s) \in Nat
  <2>1. FedDraw(s) = IF known = {} THEN 0 ELSE CHOOSE a \in known : \A b \in known : b <= a
    BY DEF FedDraw
  <2> HIDE DEF known
  <2>2. CASE known = {}
    BY <2>1, <2>2
  <2>3. CASE known # {}
    <3>1. PICK m \in known : \A b \in known : b <= m
      BY <1>3, <2>3
    <3>2. (CHOOSE a \in known : \A b \in known : b <= a) \in known
      BY <3>1, Zenon
    <3> QED BY <1>4, <2>1, <2>3, <3>2
  <2> QED BY <2>2, <2>3
<1>6. FedGrant(s) \in Nat /\ s.cp \in CpStates \cup {None}
  BY DEF FedGrant, Snapshot
<1> QED BY <1>5, <1>6 DEF Fed
-----------------------------------------------------------------------------
(***************************************************************************)
(* Types.                                                                  *)
(***************************************************************************)

\* Every printer puts typed lines behind the ones that wait, and moves nothing else.
LEMMA PrintedTyped ==
  ASSUME FeedTypeOK, Next, ~(RecordLine \/ WindowEnds \/ NewSession)
  PROVE  /\ \E lines \in Seq(Line) : Emit(lines)
         /\ box' \in [cp: CpStates, grant: Nat, faults: SUBSET Codes]
         /\ missed' \subseteq {"pilot", "stop"} \cup Codes
<1> DEFINE Typed == /\ \E lines \in Seq(Line) : Emit(lines)
                    /\ missed' \subseteq {"pilot", "stop"} \cup Codes
<1>0. ASSUME NEW lines \in Seq(Line), EmitSpliced(lines)
      PROVE  Typed
  <2>1. Standing(snapshot, wire) \subseteq {"pilot", "stop"} \cup Codes
    BY Zenon DEF Standing
  <2>2. missed \subseteq {"pilot", "stop"} \cup Codes
    BY DEF FeedTypeOK
  <2>3. PICK sent \in Seq(Line) :
          /\ Emit(sent)
          /\ missed' = (missed \cup (NewsOf(lines) \cap Standing(snapshot, wire)))
                         \ NewsOf(sent)
    BY <1>0, SplicedLines, Zenon
  <2>4. missed' \subseteq {"pilot", "stop"} \cup Codes
    BY <2>1, <2>2, <2>3, Zenon
  <2> QED BY <2>3, <2>4
<1>1. ASSUME NEW state \in CpStates, MovePilot(state)
      PROVE  Typed /\ box' \in [cp: CpStates, grant: Nat, faults: SUBSET Codes]
  <2> DEFINE cp == [kind |-> "CpStatus", state |-> state]
             lines == IF box.cp = "Charging" THEN <<Plain("PwmStop"), cp>> ELSE <<cp>>
  <2>1. cp \in Line /\ Plain("PwmStop") \in Line
    BY DEF Line, Plain
  <2>2. lines \in Seq(Line)
    BY <2>1
  <2>3. EmitSpliced(lines)
    BY <1>1, Zenon DEF MovePilot
  <2>4. box' \in [cp: CpStates, grant: Nat, faults: SUBSET Codes]
    <3>1. PICK a \in IF state = "Charging" THEN Grants ELSE {0} :
            box' = [box EXCEPT !.cp = state, !.grant = a]
      BY <1>1, Zenon DEF MovePilot
    <3>2. a \in Nat
      BY <3>1, FeedAssumption
    <3> QED BY <3>1, <3>2 DEF FeedTypeOK
  <2> QED BY <1>0, <2>2, <2>3, <2>4
<1>2. CASE PrintGrant
  <2>1. [kind |-> "LbCurrent", amps |-> box.grant] \in Line
    BY DEF Line, FeedTypeOK
  <2>2. <<[kind |-> "LbCurrent", amps |-> box.grant]>> \in Seq(Line)
    BY <2>1
  <2>3. EmitSpliced(<<[kind |-> "LbCurrent", amps |-> box.grant]>>) /\ box' = box
    BY <1>2 DEF PrintGrant
  <2>4. Typed
    BY <1>0, <2>2, <2>3
  <2> QED BY <2>3, <2>4 DEF FeedTypeOK
<1>3. CASE PrintPhases
  BY <1>3, BurstLines DEF FeedTypeOK
<1>4. ASSUME NEW code \in Codes, RaiseError(code) \/ ClearError(code)
      PROVE  Typed /\ box' \in [cp: CpStates, grant: Nat, faults: SUBSET Codes]
  <2>1. /\ <<[kind |-> "Error", code |-> code]>> \in Seq(Line)
        /\ <<[kind |-> "Clear", code |-> code]>> \in Seq(Line)
    BY DEF Line
  <2>2. box' \in [cp: CpStates, grant: Nat, faults: SUBSET Codes]
    BY <1>4 DEF RaiseError, ClearError, FeedTypeOK
  <2>3. Typed
    BY <1>0, <1>4, <2>1 DEF RaiseError, ClearError
  <2> QED BY <2>2, <2>3
<1> QED BY <1>1, <1>2, <1>3, <1>4 DEF Next

LEMMA TypeStep ==
  ASSUME FeedTypeOK, [Next]_vars
  PROVE  FeedTypeOK'
<1>1. CASE RecordLine
  <2>1. ApplyLine(snapshot, Head(wire)) \in Snapshot
    BY <1>1, RestOfLines, Decoded DEF RecordLine, FeedTypeOK
  <2> QED BY <1>1, <2>1, RestOfLines DEF RecordLine, FeedTypeOK
<1>2. CASE WindowEnds
  BY <1>2, FedTyped DEF WindowEnds, FeedTypeOK
<1>3. CASE NewSession
  <2>1. EmptySnapshot \in Snapshot
    BY DEF EmptySnapshot, Snapshot
  <2>2. missed' \subseteq {"pilot", "stop"} \cup Codes
    BY <1>3, Zenon DEF NewSession, FeedTypeOK
  <2> QED BY <1>3, <2>1, <2>2, LinesLost DEF NewSession, FeedTypeOK
<1>4. CASE Next /\ ~(RecordLine \/ WindowEnds \/ NewSession)
  BY <1>4, PrintedTyped, PrintedLines DEF Emit, FeedTypeOK
<1>5. CASE UNCHANGED vars
  BY <1>5 DEF vars, FeedTypeOK
<1> QED BY <1>1, <1>2, <1>3, <1>4, <1>5

LEMMA FeedInit ==
  ASSUME Init
  PROVE  FeedInv /\ LabelsInOrder
<1>1. wire = <<>> /\ DOMAIN wire = {} /\ wire \in Seq(Line)
  BY DEF Init
<1>2. EmptySnapshot \in Snapshot /\ FedGrant(EmptySnapshot) = 0
  BY DEF EmptySnapshot, Snapshot, FedGrant
<1>3. FeedTypeOK
  BY <1>1, <1>2 DEF Init, FeedTypeOK, CpStates
<1>4. GrantsEnd /\ PilotArrives
  BY <1>1, <1>2 DEF Init, GrantsEnd, PilotArrives, EmptySnapshot
<1>5. FaultsEnd
  BY <1>1, FeedAssumption DEF Init, FaultsEnd, EmptySnapshot
<1>6. LabelsInOrder
  BY <1>1 DEF Init, LabelsInOrder, PhasesAreTrue, EmptySnapshot
<1> QED BY <1>3, <1>4, <1>5, <1>6 DEF FeedInv
-----------------------------------------------------------------------------
(***************************************************************************)
(* What is printed, what is lost, and what neither changes.                *)
(***************************************************************************)

\* A printer that is no pilot line and no grant: a burst or a fault.
LEMMA OtherLines ==
  ASSUME FeedTypeOK, Next,
         PrintPhases \/ \E code \in Codes : RaiseError(code) \/ ClearError(code)
  PROVE  /\ box'.cp = box.cp
         /\ \A n \in {"pilot", "stop"} : n \notin missed' => n \notin missed
         /\ \E lines \in Seq(Line) :
              /\ Emit(lines)
              /\ \A i \in DOMAIN lines :
                   lines[i].kind \notin {"LbCurrent", "CpStatus", "PwmStop"}
<1> DEFINE Other(sent) == \A i \in DOMAIN sent :
             sent[i].kind \notin {"LbCurrent", "CpStatus", "PwmStop"}
<1>1. CASE PrintPhases
  <2>1. PICK lines \in Seq(Line) :
          /\ Emit(lines) /\ UNCHANGED <<box, missed>>
          /\ Len(lines) = 3
          /\ \A p \in 1 .. 3 :
               lines[p].kind \in {"Phase", "PhaseUnlabelled", "NoData", "Unparsed"}
    BY <1>1, BurstLines
  <2>2. Other(lines)
    BY <2>1
  <2> QED BY <2>1, <2>2
<1>2. ASSUME NEW code \in Codes, RaiseError(code) \/ ClearError(code)
      PROVE  /\ box'.cp = box.cp
             /\ \A n \in {"pilot", "stop"} : n \notin missed' => n \notin missed
             /\ \E sent \in Seq(Line) : Emit(sent) /\ Other(sent)
  <2>2. box'.cp = box.cp
    BY <1>2 DEF RaiseError, ClearError, FeedTypeOK
  <2>3. PICK kind \in {"Error", "Clear"} : EmitSpliced(<<[kind |-> kind, code |-> code]>>)
    BY <1>2, Zenon DEF RaiseError, ClearError
  <2> DEFINE lines == <<[kind |-> kind, code |-> code]>>
  <2>4. lines \in Seq(Line) /\ DOMAIN lines = {1} /\ lines[1].kind \in {"Error", "Clear"}
    BY DEF Line
  <2>5. PICK sent \in Seq(Line) :
          /\ Emit(sent) /\ Len(sent) = Len(lines)
          /\ \A i \in DOMAIN lines : sent[i] \in {lines[i], Plain("Unparsed")}
          /\ missed' = (missed \cup (NewsOf(lines) \cap Standing(snapshot, wire)))
                         \ NewsOf(sent)
    BY <2>3, <2>4, SplicedLines
  <2>6. \A i \in DOMAIN sent : /\ sent[i] \in Line
                               /\ sent[i].kind \in {"Error", "Clear", "Unparsed"}
    BY <2>4, <2>5 DEF Plain
  <2>7. ASSUME NEW n \in {"pilot", "stop"}, n \notin missed'
        PROVE  n \notin missed
    <3>1. \A i \in DOMAIN sent : n \notin News(sent[i])
      BY <2>6, LineNews
    <3> QED BY <2>5, <2>7, <3>1, NotMissed, Zenon
  <2>8. Other(sent)
    BY <2>6
  <2> QED BY <2>2, <2>5, <2>7, <2>8, Zenon
<1> QED BY <1>1, <1>2, Zenon

\* What a failing session leaves are the last lines, the first of them perhaps cut.
LEMMA LinesKept ==
  ASSUME wire \in Seq(Line), LoseRead
  PROVE  \E n \in 0 .. Len(wire) :
           /\ \A i \in DOMAIN wire' :
                /\ i + n \in DOMAIN wire
                /\ \/ wire'[i] = wire[i + n]
                   \/ /\ i = 1 /\ wire'[i].kind = "PhaseUnlabelled"
                      /\ wire[i + n].kind = "Phase"
                      /\ wire'[i].reading = wire[i + n].reading
                   \/ i = 1 /\ wire'[i].kind = "Unparsed"
           /\ \A j \in DOMAIN wire : j > n =>
                j - n \in DOMAIN wire' /\ (j > n + 1 => wire'[j - n] = wire[j])
<1>1. PICK n \in 0 .. Len(wire) :
        /\ wire' \in Seq(Line) /\ Len(wire') = Len(wire) - n
        /\ \A i \in DOMAIN wire' :
             /\ i + n \in DOMAIN wire
             /\ \/ wire'[i] = wire[i + n]
                \/ i = 1 /\ wire'[1] \in CutOff(wire[i + n])
  BY LinesLost
<1>2. \A i \in DOMAIN wire' :
        \/ wire'[i] = wire[i + n]
        \/ /\ i = 1 /\ wire'[i].kind = "PhaseUnlabelled"
           /\ wire[i + n].kind = "Phase"
           /\ wire'[i].reading = wire[i + n].reading
        \/ i = 1 /\ wire'[i].kind = "Unparsed"
  BY <1>1, CutOffTyped
<1>3. \A j \in DOMAIN wire : j > n =>
        j - n \in DOMAIN wire' /\ (j > n + 1 => wire'[j - n] = wire[j])
  BY <1>1
<1> QED BY <1>1, <1>2, <1>3
-----------------------------------------------------------------------------
(***************************************************************************)
(* The grant.                                                              *)
(***************************************************************************)

LEMMA GrantsStep ==
  ASSUME FeedTypeOK, GrantsEnd, [Next]_vars
  PROVE  GrantsEnd'
<1>1. ASSUME NEW state \in CpStates, MovePilot(state)
      PROVE  GrantsEnd'
  <2>1. box'.cp = state
    BY <1>1 DEF MovePilot, FeedTypeOK
  <2>2. CASE state = "Charging"
    BY <2>1, <2>2 DEF GrantsEnd
  <2> SUFFICES ASSUME state # "Charging", "stop" \notin missed'
               PROVE  GrantsEnd'
    BY <2>2 DEF GrantsEnd
  <2> DEFINE cp == [kind |-> "CpStatus", state |-> state]
  <2>3. cp \in Line /\ Plain("PwmStop") \in Line
    BY DEF Line, Plain
  <2>4. CASE box.cp = "Charging"
    <3> DEFINE lines == <<Plain("PwmStop"), cp>>
    <3>1. EmitSpliced(lines) /\ lines \in Seq(Line) /\ DOMAIN lines = 1 .. 2
      BY <1>1, <2>3, <2>4 DEF MovePilot
    <3>2. PICK sent \in Seq(Line) :
            /\ Emit(sent) /\ Len(sent) = Len(lines)
            /\ \A i \in DOMAIN lines : sent[i] \in {lines[i], Plain("Unparsed")}
            /\ missed' = (missed \cup (NewsOf(lines) \cap Standing(snapshot, wire)))
                           \ NewsOf(sent)
      BY <3>1, SplicedLines
    <3>3. /\ sent[1] \in {Plain("PwmStop"), Plain("Unparsed")}
          /\ sent[2] \in {cp, Plain("Unparsed")}
          /\ DOMAIN sent = 1 .. 2 /\ sent[1] \in Line /\ sent[2] \in Line
      BY <3>1, <3>2
    <3>4. wire' = wire \o sent /\ wire \in Seq(Line) /\ snapshot' = snapshot
      BY <3>2 DEF Emit, FeedTypeOK
    <3>5. CASE sent[1].kind = "PwmStop"
      <4>1. /\ Len(wire) + 1 \in DOMAIN wire' /\ wire'[Len(wire) + 1].kind = "PwmStop"
            /\ \A i \in DOMAIN wire : i < Len(wire) + 1
        <5>1. 1 \in DOMAIN sent
          BY <3>3
        <5>2. /\ Len(wire) + 1 \in DOMAIN wire' /\ wire'[Len(wire) + 1] = sent[1]
              /\ \A i \in DOMAIN wire : i < Len(wire) + 1
          BY <3>2, <3>4, <5>1, SentLines
        <5> QED BY <3>5, <5>2
      <4>2. \A k \in DOMAIN sent : sent[k].kind # "LbCurrent"
        BY <3>3 DEF Plain
      <4>3. \A i \in DOMAIN wire' : wire'[i].kind = "LbCurrent" => i < Len(wire) + 1
        BY <3>2, <3>4, <4>1, <4>2, SentLines
      <4> QED BY <4>1, <4>3 DEF GrantsEnd
    <3>6. CASE sent[1].kind # "PwmStop"
      <4>1. \A i \in DOMAIN sent : sent[i].kind \notin {"PwmStop", "LbCurrent"}
        BY <3>3, <3>6 DEF Plain
      <4>2. \A i \in DOMAIN sent : "stop" \notin News(sent[i])
        BY <3>3, <4>1, LineNews
      <4>3. 1 \in DOMAIN lines /\ "stop" \in News(lines[1])
        BY <2>3, <3>1, LineNews DEF Plain
      <4>4. "stop" \notin Standing(snapshot, wire)
        BY <3>2, <4>2, <4>3, NotMissed, Zenon
      <4>5. FedGrant(snapshot) = 0 /\ \A i \in DOMAIN wire : wire[i].kind # "LbCurrent"
        BY <4>4, NothingStands DEF FeedTypeOK
      <4>6. \A i \in DOMAIN wire' : wire'[i].kind # "LbCurrent"
        BY <3>4, <4>1, <4>5
      <4> QED BY <3>4, <4>5, <4>6 DEF GrantsEnd
    <3> QED BY <3>5, <3>6
  <2>5. CASE box.cp # "Charging"
    <3> DEFINE lines == <<cp>>
    <3>1. EmitSpliced(lines) /\ lines \in Seq(Line) /\ DOMAIN lines = {1}
      BY <1>1, <2>3, <2>5 DEF MovePilot
    <3>2. PICK sent \in Seq(Line) :
            /\ Emit(sent) /\ Len(sent) = Len(lines)
            /\ \A i \in DOMAIN lines : sent[i] \in {lines[i], Plain("Unparsed")}
            /\ missed' = (missed \cup (NewsOf(lines) \cap Standing(snapshot, wire)))
                           \ NewsOf(sent)
      BY <3>1, SplicedLines
    <3>3. \A i \in DOMAIN sent : /\ sent[i] \in Line
                                 /\ sent[i].kind \in {"CpStatus", "Unparsed"}
      BY <3>1, <3>2 DEF Plain
    <3>4. "stop" \notin missed
      <4>1. \A i \in DOMAIN sent : "stop" \notin News(sent[i])
        BY <3>3, LineNews
      <4> QED BY <3>2, <4>1, NotMissed, Zenon
    <3>5. wire' = wire \o sent /\ wire \in Seq(Line) /\ snapshot' = snapshot
      BY <3>2 DEF Emit, FeedTypeOK
    <3>6. /\ \A i \in DOMAIN wire : i \in DOMAIN wire' /\ wire'[i] = wire[i]
          /\ \A i \in DOMAIN wire' : i \in DOMAIN wire \/ wire'[i].kind # "LbCurrent"
      BY <3>2, <3>3, <3>5, SentLines
    <3> QED BY <2>5, <3>4, <3>5, <3>6 DEF GrantsEnd
  <2> QED BY <2>4, <2>5
<1>2. CASE PrintGrant
  BY <1>2 DEF PrintGrant, GrantsEnd
<1>3. CASE /\ Next
           /\ PrintPhases \/ \E code \in Codes : RaiseError(code) \/ ClearError(code)
  <2>1. PICK lines \in Seq(Line) :
          /\ box'.cp = box.cp /\ Emit(lines)
          /\ \A i \in DOMAIN lines : lines[i].kind # "LbCurrent"
          /\ "stop" \notin missed' => "stop" \notin missed
    BY <1>3, OtherLines
  <2>2. /\ \A i \in DOMAIN wire : i \in DOMAIN wire' /\ wire'[i] = wire[i]
        /\ \A i \in DOMAIN wire' : i \in DOMAIN wire \/ wire'[i].kind # "LbCurrent"
    BY <2>1 DEF Emit, FeedTypeOK
  <2> QED BY <2>1, <2>2 DEF Emit, GrantsEnd
<1>4. CASE RecordLine
  <2> SUFFICES ASSUME box.cp # "Charging", "stop" \notin missed
               PROVE  GrantsEnd'
    BY <1>4 DEF RecordLine, GrantsEnd
  <2>1. /\ wire \in Seq(Line) /\ wire # <<>> /\ wire' = Tail(wire) /\ box' = box
        /\ snapshot \in Snapshot /\ snapshot' = ApplyLine(snapshot, wire[1])
    BY <1>4, RestOfLines DEF RecordLine, FeedTypeOK
  <2>2. /\ wire[1] \in Line /\ 1 \in DOMAIN wire
        /\ \A i \in DOMAIN wire' : i + 1 \in DOMAIN wire /\ wire'[i] = wire[i + 1]
        /\ \A i \in DOMAIN wire : i > 1 => i - 1 \in DOMAIN wire' /\ wire'[i - 1] = wire[i]
    BY <2>1, RestOfLines
  <2>3. \A i \in DOMAIN wire' : wire'[i].kind = "LbCurrent" =>
          \E j \in DOMAIN wire' : j > i /\ wire'[j].kind = "PwmStop"
    <3> TAKE i \in DOMAIN wire'
    <3> HAVE wire'[i].kind = "LbCurrent"
    <3>1. PICK j \in DOMAIN wire : j > i + 1 /\ wire[j].kind = "PwmStop"
      BY <2>2 DEF GrantsEnd
    <3>2. i \in Nat /\ j \in Nat /\ i > 0
      BY <2>1
    <3> QED BY <2>2, <3>1, <3>2
  <2>4. FedGrant(snapshot') # 0 => \E j \in DOMAIN wire' : wire'[j].kind = "PwmStop"
    <3>1. snapshot'.lb = IF wire[1].kind = "LbCurrent" THEN wire[1].amps
                         ELSE IF wire[1].kind = "PwmStop" THEN 0 ELSE snapshot.lb
      BY <2>1, <2>2, Decoded
    <3>2. CASE wire[1].kind = "LbCurrent"
      <4>1. PICK j \in DOMAIN wire : j > 1 /\ wire[j].kind = "PwmStop"
        BY <2>2, <3>2 DEF GrantsEnd
      <4> QED BY <2>2, <4>1
    <3>3. CASE wire[1].kind = "PwmStop"
      BY <3>1, <3>3 DEF FedGrant
    <3>4. CASE wire[1].kind \notin {"LbCurrent", "PwmStop"} /\ FedGrant(snapshot) # 0
      <4>1. PICK j \in DOMAIN wire : wire[j].kind = "PwmStop"
        BY <3>4 DEF GrantsEnd
      <4>2. j > 1
        BY <2>1, <3>4, <4>1
      <4> QED BY <2>2, <4>1, <4>2
    <3>5. CASE wire[1].kind \notin {"LbCurrent", "PwmStop"} /\ FedGrant(snapshot) = 0
      BY <3>1, <3>5 DEF FedGrant
    <3> QED BY <3>2, <3>3, <3>4, <3>5
  <2> QED BY <2>3, <2>4 DEF GrantsEnd
<1>5. CASE NewSession
  <2> SUFFICES ASSUME box.cp # "Charging", "stop" \notin missed'
               PROVE  GrantsEnd'
    BY <1>5 DEF NewSession, GrantsEnd
  <2>1. wire \in Seq(Line) /\ LoseRead /\ FedGrant(snapshot') = 0
    BY <1>5 DEF NewSession, FeedTypeOK, EmptySnapshot, FedGrant
  <2>2. PICK n \in 0 .. Len(wire) :
          /\ \A i \in DOMAIN wire' :
               /\ i + n \in DOMAIN wire
               /\ wire'[i].kind = "LbCurrent" => wire'[i] = wire[i + n]
          /\ \A j \in DOMAIN wire : j > n + 1 =>
               j - n \in DOMAIN wire' /\ wire'[j - n] = wire[j]
    BY <2>1, LinesKept
  <2>3. ASSUME "stop" \in missed
        PROVE  \A i \in DOMAIN wire' : wire'[i].kind # "LbCurrent"
    <3>1. "stop" \notin Standing(EmptySnapshot, wire')
      BY <1>5, <2>3, Zenon DEF NewSession
    <3>2. wire' \in Seq(Line) /\ EmptySnapshot \in Snapshot
      BY <2>1, LinesLost DEF EmptySnapshot, Snapshot
    <3> QED BY <3>1, <3>2, NothingStands
  <2>4. "stop" \notin missed => \A i \in DOMAIN wire' : wire'[i].kind = "LbCurrent" =>
          \E j \in DOMAIN wire' : j > i /\ wire'[j].kind = "PwmStop"
    <3> HAVE "stop" \notin missed
    <3> TAKE i \in DOMAIN wire'
    <3> HAVE wire'[i].kind = "LbCurrent"
    <3>1. PICK j \in DOMAIN wire : j > i + n /\ wire[j].kind = "PwmStop"
      BY <2>2 DEF GrantsEnd
    <3>2. i \in Nat /\ j \in Nat /\ i > 0
      BY <2>1, LinesLost
    <3> QED BY <2>2, <3>1, <3>2
  <2> QED BY <2>1, <2>3, <2>4 DEF GrantsEnd
<1>6. CASE WindowEnds \/ UNCHANGED vars
  BY <1>6 DEF WindowEnds, vars, GrantsEnd
<1> QED BY <1>1, <1>2, <1>3, <1>4, <1>5, <1>6 DEF Next
-----------------------------------------------------------------------------
(***************************************************************************)
(* The pilot.                                                              *)
(***************************************************************************)

LEMMA PilotStep ==
  ASSUME FeedTypeOK, PilotArrives, [Next]_vars
  PROVE  PilotArrives'
<1>1. ASSUME NEW state \in CpStates, MovePilot(state)
      PROVE  PilotArrives'
  <2> SUFFICES ASSUME "pilot" \notin missed'
               PROVE  PilotArrives'
    BY DEF PilotArrives
  <2> DEFINE cp == [kind |-> "CpStatus", state |-> state]
             lines == IF box.cp = "Charging" THEN <<Plain("PwmStop"), cp>> ELSE <<cp>>
  <2>1. box'.cp = state
    BY <1>1 DEF MovePilot, FeedTypeOK
  <2>2. cp \in Line /\ Plain("PwmStop") \in Line /\ wire \in Seq(Line)
    BY DEF Line, Plain, FeedTypeOK
  <2>3. /\ EmitSpliced(lines) /\ lines \in Seq(Line)
        /\ Len(lines) \in DOMAIN lines /\ lines[Len(lines)] = cp
        /\ \A i \in DOMAIN lines : i \in Nat /\ (i = Len(lines) \/ i < Len(lines))
        /\ \A i \in DOMAIN lines : lines[i].kind = "CpStatus" => i = Len(lines)
    <3>1. CASE box.cp = "Charging"
      <4>1. lines = <<Plain("PwmStop"), cp>>
        BY <3>1
      <4> HIDE DEF lines
      <4> QED BY <1>1, <2>2, <3>1, <4>1 DEF MovePilot, Plain
    <3>2. CASE box.cp # "Charging"
      <4>1. lines = <<cp>>
        BY <3>2
      <4> HIDE DEF lines
      <4> QED BY <1>1, <2>2, <3>2, <4>1 DEF MovePilot
    <3> QED BY <3>1, <3>2
  <2> HIDE DEF lines
  <2>4. PICK sent \in Seq(Line) :
          /\ Emit(sent) /\ Len(sent) = Len(lines)
          /\ \A i \in DOMAIN lines : sent[i] \in {lines[i], Plain("Unparsed")}
          /\ missed' = (missed \cup (NewsOf(lines) \cap Standing(snapshot, wire)))
                         \ NewsOf(sent)
    BY <2>3, SplicedLines
  <2>5. /\ DOMAIN sent = DOMAIN lines /\ \A i \in DOMAIN sent : sent[i] \in Line
        /\ \A i \in DOMAIN sent : sent[i].kind = "CpStatus" =>
             i = Len(lines) /\ sent[i] = cp
    BY <2>3, <2>4 DEF Plain
  <2>6. CASE sent[Len(lines)] = cp
    <3>1. /\ Len(wire) + Len(lines) \in DOMAIN wire'
          /\ wire'[Len(wire) + Len(lines)].kind = "CpStatus"
          /\ \A i \in DOMAIN wire' : wire'[i].kind = "CpStatus" =>
               i < Len(wire) + Len(lines) \/ wire'[i] = cp
      <4>1. Len(lines) \in DOMAIN sent /\ sent[Len(lines)] = cp
        BY <2>3, <2>5, <2>6
      <4>2. /\ Len(wire) + Len(lines) \in DOMAIN wire'
            /\ wire'[Len(wire) + Len(lines)] = cp
            /\ \A i \in DOMAIN wire : i < Len(wire) + Len(lines)
        BY <2>2, <2>4, <4>1, SentLines
      <4>3. \A i \in DOMAIN wire' :
              \/ i \in DOMAIN wire
              \/ \E k \in DOMAIN sent : i = Len(wire) + k /\ wire'[i] = sent[k]
        BY <2>2, <2>4, SentLines
      <4> QED BY <2>5, <4>2, <4>3
    <3>2. \A i \in DOMAIN wire' : i < Len(wire) + Len(lines) =>
            ~(\A j \in DOMAIN wire' : j > i => wire'[j].kind # "CpStatus")
      BY <2>2, <2>3, <3>1
    <3> QED BY <2>1, <3>1, <3>2 DEF PilotArrives
  <2>7. CASE sent[Len(lines)] # cp
    <3>1. \A i \in DOMAIN sent : sent[i].kind # "CpStatus" /\ "pilot" \notin News(sent[i])
      BY <2>5, <2>7, LineNews
    <3>2. "pilot" \in News(lines[Len(lines)])
      BY <2>2, <2>3, LineNews
    <3>3. "pilot" \notin Standing(snapshot, wire)
      BY <2>3, <2>4, <3>1, <3>2, NotMissed, Zenon
    <3>4. snapshot.cp = None /\ \A i \in DOMAIN wire : wire[i].kind # "CpStatus"
      BY <2>2, <3>3, NothingStands DEF FeedTypeOK
    <3>5. snapshot' = snapshot /\ \A i \in DOMAIN wire' : wire'[i].kind # "CpStatus"
      BY <2>2, <2>4, <3>1, <3>4, SentLines
    <3> QED BY <3>4, <3>5 DEF PilotArrives
  <2> QED BY <2>6, <2>7
<1>2. ASSUME box'.cp = box.cp, NEW lines \in Seq(Line), Emit(lines),
             \A i \in DOMAIN lines : lines[i].kind # "CpStatus",
             "pilot" \notin missed' => "pilot" \notin missed
      PROVE  PilotArrives'
  <2>1. /\ \A i \in DOMAIN wire : i \in DOMAIN wire' /\ wire'[i] = wire[i]
        /\ \A i \in DOMAIN wire' : i \in DOMAIN wire \/ wire'[i].kind # "CpStatus"
        /\ snapshot' = snapshot
    BY <1>2, SentLines DEF FeedTypeOK
  <2> QED BY <1>2, <2>1 DEF PilotArrives
<1>3. CASE PrintGrant
  <2> DEFINE lines == <<[kind |-> "LbCurrent", amps |-> box.grant]>>
  <2>1. [kind |-> "LbCurrent", amps |-> box.grant] \in Line
    BY DEF Line, FeedTypeOK
  <2>2. lines \in Seq(Line) /\ DOMAIN lines = {1} /\ lines[1].kind = "LbCurrent"
    BY <2>1
  <2>3. EmitSpliced(lines) /\ box'.cp = box.cp
    BY <1>3 DEF PrintGrant
  <2>4. PICK sent \in Seq(Line) :
          /\ Emit(sent) /\ Len(sent) = Len(lines)
          /\ \A i \in DOMAIN lines : sent[i] \in {lines[i], Plain("Unparsed")}
          /\ missed' = (missed \cup (NewsOf(lines) \cap Standing(snapshot, wire)))
                         \ NewsOf(sent)
    BY <2>2, <2>3, SplicedLines
  <2>5. \A i \in DOMAIN sent : sent[i] \in Line /\ sent[i].kind # "CpStatus"
    BY <2>2, <2>4 DEF Plain
  <2>6. "pilot" \notin missed' => "pilot" \notin missed
    <3>1. \A i \in DOMAIN sent : "pilot" \notin News(sent[i])
      BY <2>5, LineNews
    <3> QED BY <2>4, <3>1, NotMissed, Zenon
  <2> QED BY <1>2, <2>3, <2>4, <2>5, <2>6
<1>4. CASE /\ Next
           /\ PrintPhases \/ \E code \in Codes : RaiseError(code) \/ ClearError(code)
  <2>1. PICK lines \in Seq(Line) :
          /\ box'.cp = box.cp /\ Emit(lines)
          /\ \A i \in DOMAIN lines : lines[i].kind # "CpStatus"
          /\ "pilot" \notin missed' => "pilot" \notin missed
    BY <1>4, OtherLines
  <2> QED BY <1>2, <2>1
<1>5. CASE RecordLine
  <2> SUFFICES ASSUME "pilot" \notin missed
               PROVE  PilotArrives'
    BY <1>5 DEF RecordLine, PilotArrives
  <2>1. /\ wire \in Seq(Line) /\ wire # <<>> /\ wire' = Tail(wire) /\ box' = box
        /\ snapshot \in Snapshot /\ snapshot' = ApplyLine(snapshot, wire[1])
    BY <1>5, RestOfLines DEF RecordLine, FeedTypeOK
  <2>2. /\ wire[1] \in Line /\ 1 \in DOMAIN wire
        /\ \A i \in DOMAIN wire' : i + 1 \in DOMAIN wire /\ wire'[i] = wire[i + 1]
        /\ \A i \in DOMAIN wire : i > 1 => i - 1 \in DOMAIN wire' /\ wire'[i - 1] = wire[i]
    BY <2>1, RestOfLines
  <2>3. ASSUME NEW i \in DOMAIN wire', wire'[i].kind = "CpStatus",
               \A j \in DOMAIN wire' : j > i => wire'[j].kind # "CpStatus"
        PROVE  wire'[i].state = box'.cp
    <3>1. \A j \in DOMAIN wire : j > i + 1 => wire[j].kind # "CpStatus"
      <4> TAKE j \in DOMAIN wire
      <4> HAVE j > i + 1
      <4>1. i \in Nat /\ j \in Nat /\ i > 0
        BY <2>1
      <4> QED BY <2>2, <2>3, <4>1
    <3> QED BY <2>1, <2>2, <2>3, <3>1 DEF PilotArrives
  <2>4. ASSUME \A i \in DOMAIN wire' : wire'[i].kind # "CpStatus"
        PROVE  snapshot'.cp \in {None, box'.cp}
    <3>1. \A j \in DOMAIN wire : j > 1 => wire[j].kind # "CpStatus"
      BY <2>2, <2>4
    <3>2. \A j \in DOMAIN wire : j = 1 \/ j > 1
      BY <2>1
    <3>3. snapshot'.cp = IF wire[1].kind = "CpStatus" THEN wire[1].state ELSE snapshot.cp
      BY <2>1, <2>2, Decoded
    <3> QED BY <2>1, <2>2, <3>1, <3>2, <3>3 DEF PilotArrives
  <2> QED BY <2>3, <2>4 DEF PilotArrives
<1>6. CASE NewSession
  <2> SUFFICES ASSUME "pilot" \notin missed'
               PROVE  PilotArrives'
    BY DEF PilotArrives
  <2>1. wire \in Seq(Line) /\ LoseRead /\ snapshot'.cp = None /\ box' = box
    BY <1>6 DEF NewSession, FeedTypeOK, EmptySnapshot
  <2>2. PICK n \in 0 .. Len(wire) :
          /\ \A i \in DOMAIN wire' :
               /\ i + n \in DOMAIN wire
               /\ wire'[i].kind = "CpStatus" => wire'[i] = wire[i + n]
          /\ \A j \in DOMAIN wire : j > n + 1 =>
               j - n \in DOMAIN wire' /\ wire'[j - n] = wire[j]
    BY <2>1, LinesKept
  <2>4. CASE "pilot" \in missed
    <3>1. "pilot" \notin Standing(EmptySnapshot, wire')
      BY <1>6, <2>4, Zenon DEF NewSession
    <3>2. wire' \in Seq(Line) /\ EmptySnapshot \in Snapshot
      BY <2>1, LinesLost DEF EmptySnapshot, Snapshot
    <3>3. \A i \in DOMAIN wire' : wire'[i].kind # "CpStatus"
      BY <3>1, <3>2, NothingStands
    <3> QED BY <2>1, <3>3 DEF PilotArrives
  <2>3. ASSUME "pilot" \notin missed, NEW i \in DOMAIN wire', wire'[i].kind = "CpStatus",
               \A j \in DOMAIN wire' : j > i => wire'[j].kind # "CpStatus"
        PROVE  wire'[i].state = box'.cp
    <3>1. \A j \in DOMAIN wire : j > i + n => wire[j].kind # "CpStatus"
      <4> TAKE j \in DOMAIN wire
      <4> HAVE j > i + n
      <4>1. i \in Nat /\ j \in Nat /\ i > 0
        BY <2>1, LinesLost
      <4> QED BY <2>2, <2>3, <4>1
    <3> QED BY <2>1, <2>2, <2>3, <3>1 DEF PilotArrives
  <2> QED BY <2>1, <2>3, <2>4 DEF PilotArrives
<1>7. CASE WindowEnds \/ UNCHANGED vars
  BY <1>7 DEF WindowEnds, vars, PilotArrives
<1> QED BY <1>1, <1>3, <1>4, <1>5, <1>6, <1>7 DEF Next
-----------------------------------------------------------------------------
(***************************************************************************)
(* The fault.                                                              *)
(***************************************************************************)

LEMMA FaultsStep ==
  ASSUME FeedTypeOK, FaultsEnd, [Next]_vars
  PROVE  FaultsEnd'
<1> SUFFICES ASSUME NEW code \in Codes, code \notin box'.faults, code \notin missed'
             PROVE  /\ \A i \in DOMAIN wire' :
                         wire'[i].kind = "Error" /\ wire'[i].code = code =>
                           \E j \in DOMAIN wire' : j > i /\ Retracts(wire'[j], code)
                    /\ snapshot'.fault = code =>
                         \E j \in DOMAIN wire' : Retracts(wire'[j], code)
  BY DEF FaultsEnd
<1> DEFINE Goal == /\ \A i \in DOMAIN wire' :
                        wire'[i].kind = "Error" /\ wire'[i].code = code =>
                          \E j \in DOMAIN wire' : j > i /\ Retracts(wire'[j], code)
                   /\ snapshot'.fault = code =>
                        \E j \in DOMAIN wire' : Retracts(wire'[j], code)
<1>1. ASSUME code \notin box.faults, code \notin missed, NEW lines \in Seq(Line), Emit(lines),
             \A i \in DOMAIN lines : ~(lines[i].kind = "Error" /\ lines[i].code = code)
      PROVE  Goal
  <2>1. /\ \A i \in DOMAIN wire : i \in DOMAIN wire' /\ wire'[i] = wire[i]
        /\ \A i \in DOMAIN wire' :
             i \in DOMAIN wire \/ ~(wire'[i].kind = "Error" /\ wire'[i].code = code)
        /\ snapshot' = snapshot
    BY <1>1, SentLines DEF FeedTypeOK
  <2> QED BY <1>1, <2>1 DEF FaultsEnd
<1>0. ASSUME code \notin box.faults, NEW lines \in Seq(Line), EmitSpliced(lines),
             \A i \in DOMAIN lines :
               /\ ~(lines[i].kind = "Error" /\ lines[i].code = code)
               /\ ~Retracts(lines[i], code)
      PROVE  Goal
  <2>1. PICK sent \in Seq(Line) :
          /\ Emit(sent) /\ Len(sent) = Len(lines)
          /\ \A i \in DOMAIN lines : sent[i] \in {lines[i], Plain("Unparsed")}
          /\ missed' = (missed \cup (NewsOf(lines) \cap Standing(snapshot, wire)))
                         \ NewsOf(sent)
    BY <1>0, SplicedLines
  <2>2. \A i \in DOMAIN sent :
          /\ sent[i] \in Line /\ ~Retracts(sent[i], code)
          /\ ~(sent[i].kind = "Error" /\ sent[i].code = code)
    <3> TAKE i \in DOMAIN sent
    <3>1. i \in DOMAIN lines /\ sent[i] \in Line
      BY <2>1
    <3>2. CASE sent[i] = lines[i]
      BY <1>0, <3>1, <3>2
    <3>3. CASE sent[i] = Plain("Unparsed")
      BY <3>1, <3>3 DEF Plain, Retracts
    <3> QED BY <2>1, <3>1, <3>2, <3>3
  <2>3. \A i \in DOMAIN sent : code \notin News(sent[i])
    BY <2>2, LineNews
  <2>4. code \notin missed
    BY <2>1, <2>3, NotMissed, Zenon
  <2> QED BY <1>0, <1>1, <2>1, <2>2, <2>4
<1>2. ASSUME NEW state \in CpStates, MovePilot(state)
      PROVE  Goal
  <2> DEFINE cp == [kind |-> "CpStatus", state |-> state]
             lines == IF box.cp = "Charging" THEN <<Plain("PwmStop"), cp>> ELSE <<cp>>
  <2>1. cp \in Line /\ Plain("PwmStop") \in Line
    BY DEF Line, Plain
  <2>2. lines \in Seq(Line) /\ \A i \in DOMAIN lines : lines[i].kind \notin {"Error", "Clear"}
    BY <2>1 DEF Plain
  <2>3. EmitSpliced(lines) /\ box'.faults = box.faults
    BY <1>2 DEF MovePilot, FeedTypeOK
  <2> QED BY <1>0, <2>2, <2>3 DEF Retracts
<1>3. CASE PrintGrant
  <2> DEFINE lines == <<[kind |-> "LbCurrent", amps |-> box.grant]>>
  <2>1. [kind |-> "LbCurrent", amps |-> box.grant] \in Line
    BY DEF Line, FeedTypeOK
  <2>2. lines \in Seq(Line) /\ \A i \in DOMAIN lines : lines[i].kind \notin {"Error", "Clear"}
    BY <2>1
  <2>3. EmitSpliced(lines) /\ box' = box
    BY <1>3 DEF PrintGrant
  <2> QED BY <1>0, <2>2, <2>3 DEF Retracts
<1>4. CASE PrintPhases
  <2>1. PICK lines \in Seq(Line) :
          /\ Emit(lines) /\ UNCHANGED <<box, missed>>
          /\ Len(lines) = 3
          /\ \A p \in 1 .. 3 :
               lines[p].kind \in {"Phase", "PhaseUnlabelled", "NoData", "Unparsed"}
    BY <1>4, BurstLines
  <2> QED BY <1>1, <2>1
<1>5. ASSUME NEW other \in Codes, RaiseError(other)
      PROVE  Goal
  <2> DEFINE lines == <<[kind |-> "Error", code |-> other]>>
  <2>1. [kind |-> "Error", code |-> other] \in Line
    BY DEF Line
  <2>2. EmitSpliced(lines) /\ box'.faults = box.faults \cup {other}
    BY <1>5 DEF RaiseError, FeedTypeOK
  <2>3. code # other /\ code \notin box.faults
    BY <2>2
  <2>4. lines \in Seq(Line) /\ \A i \in DOMAIN lines : lines[i].code # code
    BY <2>1, <2>3
  <2> QED BY <1>0, <2>2, <2>3, <2>4 DEF Retracts
<1>6. ASSUME NEW other \in Codes, ClearError(other)
      PROVE  Goal
  <2> DEFINE lines == <<[kind |-> "Clear", code |-> other]>>
  <2>1. [kind |-> "Clear", code |-> other] \in Line
    BY DEF Line
  <2>2. EmitSpliced(lines) /\ box'.faults = box.faults \ {other}
    BY <1>6 DEF ClearError, FeedTypeOK
  <2>3. /\ lines \in Seq(Line) /\ DOMAIN lines = {1} /\ lines[1] \in Line
        /\ lines[1].kind = "Clear" /\ lines[1].code = other
    BY <2>1
  <2>4. CASE code = other
    <3>1. PICK sent \in Seq(Line) :
            /\ Emit(sent) /\ Len(sent) = Len(lines)
            /\ \A i \in DOMAIN lines : sent[i] \in {lines[i], Plain("Unparsed")}
            /\ missed' = (missed \cup (NewsOf(lines) \cap Standing(snapshot, wire)))
                           \ NewsOf(sent)
      BY <2>2, <2>3, SplicedLines
    <3> HIDE DEF lines
    <3>2. wire \in Seq(Line) /\ DOMAIN sent = {1} /\ sent[1] \in Line
      BY <2>3, <3>1 DEF FeedTypeOK
    <3>3. CASE sent[1] = lines[1]
      <4>1. 1 \in DOMAIN sent /\ Retracts(sent[1], code) /\ sent[1].kind # "Error"
        BY <2>3, <2>4, <3>2, <3>3 DEF Retracts
      <4>2. /\ Len(wire) + 1 \in DOMAIN wire' /\ Retracts(wire'[Len(wire) + 1], code)
            /\ \A i \in DOMAIN wire : i < Len(wire) + 1
            /\ \A i \in DOMAIN wire' : wire'[i].kind = "Error" => i \in DOMAIN wire
            /\ snapshot' = snapshot
        BY <3>1, <3>2, <4>1, SentLines
      <4> QED BY <4>2
    <3>4. CASE sent[1] = Plain("Unparsed")
      <4>1. sent[1].kind = "Unparsed"
        BY <3>4 DEF Plain
      <4>2. \A i \in DOMAIN sent : code \notin News(sent[i]) /\ sent[i].kind # "Error"
        BY <3>2, <4>1, LineNews DEF Retracts
      <4>3. code \in News(lines[1])
        BY <2>3, <2>4, LineNews DEF Retracts
      <4>4. code \notin Standing(snapshot, wire)
        BY <2>3, <3>1, <4>2, <4>3, NotMissed, Zenon
      <4>5. /\ snapshot.fault # code
            /\ \A i \in DOMAIN wire : ~(wire[i].kind = "Error" /\ wire[i].code = code)
        BY <3>2, <4>4, NothingStands DEF FeedTypeOK
      <4>6. /\ snapshot' = snapshot
            /\ \A i \in DOMAIN wire' : ~(wire'[i].kind = "Error" /\ wire'[i].code = code)
        BY <3>1, <3>2, <4>2, <4>5, SentLines
      <4> QED BY <4>5, <4>6
    <3> QED BY <2>3, <3>1, <3>3, <3>4
  <2>5. CASE code # other
    BY <1>0, <2>2, <2>3, <2>5 DEF Retracts
  <2> QED BY <2>4, <2>5
<1>7. CASE RecordLine
  <2>0. code \notin missed /\ code \notin box.faults
    BY <1>7 DEF RecordLine
  <2>1. /\ wire \in Seq(Line) /\ wire # <<>> /\ wire' = Tail(wire) /\ box' = box
        /\ snapshot \in Snapshot /\ snapshot' = ApplyLine(snapshot, wire[1])
    BY <1>7, RestOfLines DEF RecordLine, FeedTypeOK
  <2>2. /\ wire[1] \in Line /\ 1 \in DOMAIN wire
        /\ \A i \in DOMAIN wire' : i + 1 \in DOMAIN wire /\ wire'[i] = wire[i + 1]
        /\ \A i \in DOMAIN wire : i > 1 => i - 1 \in DOMAIN wire' /\ wire'[i - 1] = wire[i]
    BY <2>1, RestOfLines
  <2>3. ASSUME NEW i \in DOMAIN wire', wire'[i].kind = "Error", wire'[i].code = code
        PROVE  \E j \in DOMAIN wire' : j > i /\ Retracts(wire'[j], code)
    <3>1. PICK j \in DOMAIN wire : j > i + 1 /\ Retracts(wire[j], code)
      BY <2>0, <2>1, <2>2, <2>3 DEF FaultsEnd
    <3>2. i \in Nat /\ j \in Nat /\ i > 0
      BY <2>1
    <3> QED BY <2>2, <3>1, <3>2
  <2>4. ASSUME snapshot'.fault = code
        PROVE  \E j \in DOMAIN wire' : Retracts(wire'[j], code)
    <3>1. snapshot'.fault = IF wire[1].kind = "Error" THEN wire[1].code
                            ELSE IF wire[1].kind = "Clear" /\ snapshot.fault = wire[1].code
                            THEN None ELSE snapshot.fault
      BY <2>1, <2>2, Decoded
    <3>2. PICK j \in DOMAIN wire : /\ Retracts(wire[j], code)
                                   /\ wire[1].kind = "Error" => j > 1
      BY <2>0, <2>1, <2>2, <2>4, <3>1, FeedAssumption DEF FaultsEnd
    <3>3. j > 1
      BY <2>1, <2>4, <3>1, <3>2, FeedAssumption DEF Retracts
    <3> QED BY <2>2, <3>2, <3>3
  <2> QED BY <2>3, <2>4
<1>8. CASE NewSession
  <2>1. wire \in Seq(Line) /\ LoseRead /\ snapshot'.fault # code /\ box' = box
    BY <1>8, FeedAssumption DEF NewSession, FeedTypeOK, EmptySnapshot
  <2>2. PICK n \in 0 .. Len(wire) :
          /\ \A i \in DOMAIN wire' :
               /\ i + n \in DOMAIN wire
               /\ wire'[i].kind = "Error" => wire'[i] = wire[i + n]
          /\ \A j \in DOMAIN wire : j > n + 1 =>
               j - n \in DOMAIN wire' /\ wire'[j - n] = wire[j]
    BY <2>1, LinesKept
  <2>3. ASSUME NEW i \in DOMAIN wire', wire'[i].kind = "Error", wire'[i].code = code
        PROVE  \E j \in DOMAIN wire' : j > i /\ Retracts(wire'[j], code)
    <3>0. code \notin missed
      <4>1. wire' \in Seq(Line) /\ EmptySnapshot \in Snapshot
        BY <2>1, LinesLost DEF EmptySnapshot, Snapshot
      <4>2. code \in Standing(EmptySnapshot, wire')
        BY <2>3, <4>1, NothingStands
      <4> QED BY <1>8, <4>2, Zenon DEF NewSession
    <3>1. PICK j \in DOMAIN wire : j > i + n /\ Retracts(wire[j], code)
      BY <2>1, <2>2, <2>3, <3>0 DEF FaultsEnd
    <3>2. i \in Nat /\ j \in Nat /\ i > 0
      BY <2>1, LinesLost
    <3> QED BY <2>2, <3>1, <3>2
  <2> QED BY <2>1, <2>3
<1>9. CASE WindowEnds \/ UNCHANGED vars
  <2>1. /\ code \notin missed /\ code \notin box.faults
        /\ wire' = wire /\ snapshot' = snapshot
    BY <1>9 DEF WindowEnds, vars
  <2> QED BY <2>1 DEF FaultsEnd
<1> QED BY <1>2, <1>3, <1>4, <1>5, <1>6, <1>7, <1>8, <1>9 DEF Next
-----------------------------------------------------------------------------
(***************************************************************************)
(* The phases.                                                             *)
(***************************************************************************)

\* What each line makes of the payload held and of the slots.
LEMMA DecodedPhases ==
  ASSUME NEW s \in Snapshot, NEW line \in Line, line.kind # "Unparsed"
  PROVE  LET t == ApplyLine(s, line) IN
         /\ t.pending = IF line.kind = "PhaseUnlabelled" THEN line.reading ELSE None
         /\ \A p \in Phases :
              \/ t.phases[p] \in {s.phases[p], None}
              \/ line.kind = "Phase" /\ p = line.phase /\ t.phases[p] = line.reading
              \/ SecondPhase(line) /\ p = 1 /\ s.pending # None /\ t.phases[p] = s.pending
<1> DEFINE q == Promote(s, line)
<1>1. /\ q \in Snapshot /\ q.pending = None
      /\ \A p \in Phases :
           \/ q.phases[p] = s.phases[p]
           \/ SecondPhase(line) /\ p = 1 /\ s.pending # None /\ q.phases[p] = s.pending
  <2>1. CASE s.pending # None /\ SecondPhase(line)
    BY <2>1 DEF Promote, Snapshot, Phases, SecondPhase
  <2>2. CASE ~(s.pending # None /\ SecondPhase(line))
    BY <2>2 DEF Promote, Snapshot, SecondPhase
  <2> QED BY <2>1, <2>2
<1>2. q = Promote(s, line)
  OBVIOUS
<1> HIDE DEF q
<1>3. CASE line.kind = "Phase"
  <2>1. ApplyLine(s, line) = [q EXCEPT !.phases[line.phase] = line.reading]
    BY <1>2, <1>3 DEF ApplyLine, Apply
  <2> QED BY <1>1, <1>3, <2>1 DEF Line, Snapshot
<1>4. CASE line.kind = "PhaseUnlabelled"
  <2>1. ApplyLine(s, line) = [q EXCEPT !.pending = line.reading]
    BY <1>2, <1>4 DEF ApplyLine, Apply
  <2> QED BY <1>1, <1>4, <2>1 DEF Line, Snapshot
<1>5. CASE line.kind = "NoData"
  <2>1. ApplyLine(s, line) = [q EXCEPT !.phases[line.phase] = None]
    BY <1>2, <1>5 DEF ApplyLine, Apply
  <2> QED BY <1>1, <1>5, <2>1 DEF Line, Snapshot
<1>6. CASE line.kind \in {"LbCurrent", "CpStatus", "PwmStop", "Error", "Clear"}
  <2>1. /\ ApplyLine(s, line).pending = None
        /\ ApplyLine(s, line).phases = q.phases
    BY <1>1, <1>2, <1>6 DEF ApplyLine, Apply, StopGrant, RaiseFault, ClearFault, Snapshot
  <2> QED BY <1>1, <1>6, <2>1
<1> QED BY <1>3, <1>4, <1>5, <1>6 DEF Line

LEMMA LabelsStep ==
  ASSUME "line" \notin Damages, FeedTypeOK, LabelsInOrder, [Next]_vars
  PROVE  LabelsInOrder'
<1> DEFINE Orderly(lines) ==
      \A i \in DOMAIN lines :
        /\ lines[i].kind = "Phase" => lines[i].reading.of = lines[i].phase
        /\ SecondPhase(lines[i]) =>
             i > 1 /\ ~Foreign(lines[i - 1]) /\ lines[i - 1].kind # "Unparsed"
<1>1. ASSUME NEW lines \in Seq(Line), Emit(lines), Orderly(lines)
      PROVE  LabelsInOrder'
  <2>1. wire \in Seq(Line) /\ wire' = wire \o lines /\ snapshot' = snapshot
    BY <1>1 DEF Emit, FeedTypeOK
  <2>2. /\ \A i \in DOMAIN wire : i \in DOMAIN wire' /\ wire'[i] = wire[i]
        /\ \A i \in DOMAIN wire' :
             \/ i \in DOMAIN wire
             \/ i - Len(wire) \in DOMAIN lines /\ wire'[i] = lines[i - Len(wire)]
    BY <2>1
  <2>3. \A i \in DOMAIN wire' :
          wire'[i].kind = "Phase" => wire'[i].reading.of = wire'[i].phase
    BY <1>1, <2>2 DEF LabelsInOrder
  <2>5. \A i \in DOMAIN wire' : i > 1 /\ SecondPhase(wire'[i]) =>
          /\ ~Foreign(wire'[i - 1])
          /\ wire'[i - 1].kind = "Unparsed" => i = 2 /\ snapshot.pending = None
    <3> TAKE i \in DOMAIN wire'
    <3> HAVE i > 1 /\ SecondPhase(wire'[i])
    <3>1. CASE i \in DOMAIN wire
      <4>1. i - 1 \in DOMAIN wire
        BY <2>1, <3>1
      <4> QED BY <2>2, <3>1, <4>1 DEF LabelsInOrder
    <3>2. CASE i \notin DOMAIN wire
      <4>1. i - Len(wire) \in DOMAIN lines /\ wire'[i] = lines[i - Len(wire)]
        BY <2>2, <3>2
      <4>2. /\ i - Len(wire) > 1 /\ ~Foreign(lines[i - Len(wire) - 1])
            /\ lines[i - Len(wire) - 1].kind # "Unparsed"
        BY <1>1, <4>1
      <4>3. wire'[i - 1] = lines[i - Len(wire) - 1]
        BY <2>1, <4>1, <4>2
      <4> QED BY <4>2, <4>3
    <3> QED BY <3>1, <3>2
  <2>6. ASSUME wire' # <<>>, snapshot.pending # None, snapshot.pending.of # 1
        PROVE  ~SecondPhase(wire'[1])
    <3>1. 1 \in DOMAIN wire'
      BY <2>1, <2>6
    <3>2. CASE 1 \in DOMAIN wire
      <4>1. wire # <<>> /\ wire'[1] = wire[1]
        BY <2>2, <3>2
      <4> QED BY <2>6, <4>1 DEF LabelsInOrder
    <3>3. CASE 1 \notin DOMAIN wire
      <4>1. 1 \in DOMAIN lines /\ wire'[1] = lines[1]
        BY <2>1, <3>1, <3>3
      <4> QED BY <1>1, <4>1
    <3> QED BY <3>2, <3>3
  <2> QED BY <2>1, <2>3, <2>5, <2>6 DEF LabelsInOrder, PhasesAreTrue
<1>0. ASSUME NEW lines \in Seq(Line), EmitSpliced(lines),
             \A i \in DOMAIN lines : lines[i].kind # "Phase"
      PROVE  LabelsInOrder'
  <2>1. PICK sent \in Seq(Line) :
          /\ Emit(sent) /\ Len(sent) = Len(lines)
          /\ \A i \in DOMAIN lines : sent[i] \in {lines[i], Plain("Unparsed")}
    BY <1>0, SplicedLines
  <2>2. \A i \in DOMAIN sent : sent[i].kind # "Phase"
    BY <1>0, <2>1 DEF Plain
  <2>3. Orderly(sent)
    BY <2>2 DEF SecondPhase
  <2> QED BY <1>1, <2>1, <2>3
<1>2. ASSUME NEW state \in CpStates, MovePilot(state)
      PROVE  LabelsInOrder'
  <2> DEFINE cp == [kind |-> "CpStatus", state |-> state]
             lines == IF box.cp = "Charging" THEN <<Plain("PwmStop"), cp>> ELSE <<cp>>
  <2>1. cp \in Line /\ Plain("PwmStop") \in Line
    BY DEF Line, Plain
  <2>2. lines \in Seq(Line) /\ \A i \in DOMAIN lines : lines[i].kind # "Phase"
    BY <2>1 DEF Plain
  <2>3. EmitSpliced(lines)
    BY <1>2, Zenon DEF MovePilot
  <2> QED BY <1>0, <2>2, <2>3
<1>3. CASE PrintGrant
  <2> DEFINE lines == <<[kind |-> "LbCurrent", amps |-> box.grant]>>
  <2>1. [kind |-> "LbCurrent", amps |-> box.grant] \in Line
    BY DEF Line, FeedTypeOK
  <2>2. lines \in Seq(Line) /\ \A i \in DOMAIN lines : lines[i].kind # "Phase"
    BY <2>1
  <2>3. EmitSpliced(lines)
    BY <1>3 DEF PrintGrant
  <2> QED BY <1>0, <2>2, <2>3
<1>4. CASE PrintPhases
  <2>1. PICK lines \in Seq(Line) :
           /\ Emit(lines)
           /\ Len(lines) = 3
           /\ \A p \in 1 .. 3 :
                /\ lines[p].kind \in {"Phase", "PhaseUnlabelled", "NoData", "Unparsed"}
                /\ lines[p].kind = "Phase" => lines[p].phase = p
                /\ lines[p].kind \in {"Phase", "PhaseUnlabelled"} => lines[p].reading.of = p
                /\ lines[p].kind = "Unparsed" => "line" \in Damages
    BY <1>4, BurstLines
  <2>2. DOMAIN lines = 1 .. 3
    BY <2>1
  <2>3. Orderly(lines)
    BY <2>1, <2>2 DEF SecondPhase, Foreign
  <2> QED BY <1>1, <2>1, <2>3
<1>5. ASSUME NEW code \in Codes, RaiseError(code) \/ ClearError(code)
      PROVE  LabelsInOrder'
  <2>2. PICK kind \in {"Error", "Clear"} : EmitSpliced(<<[kind |-> kind, code |-> code]>>)
    BY <1>5, Zenon DEF RaiseError, ClearError
  <2> DEFINE lines == <<[kind |-> kind, code |-> code]>>
  <2>3. [kind |-> kind, code |-> code] \in Line
    BY DEF Line
  <2>4. lines \in Seq(Line) /\ \A i \in DOMAIN lines : lines[i].kind # "Phase"
    BY <2>3
  <2> QED BY <1>0, <2>2, <2>4
<1>6. CASE RecordLine
  <2>1. /\ wire \in Seq(Line) /\ wire # <<>> /\ wire' = Tail(wire)
        /\ snapshot \in Snapshot /\ snapshot' = ApplyLine(snapshot, wire[1])
    BY <1>6, RestOfLines DEF RecordLine, FeedTypeOK
  <2>2. /\ wire[1] \in Line /\ 1 \in DOMAIN wire
        /\ \A i \in DOMAIN wire' : /\ i \in Nat /\ i >= 1 /\ i + 1 \in DOMAIN wire
                                   /\ wire'[i] = wire[i + 1]
        /\ wire' # <<>> => 1 \in DOMAIN wire' /\ 2 \in DOMAIN wire /\ wire'[1] = wire[2]
    BY <2>1, RestOfLines
  <2>3. \A i \in DOMAIN wire' :
          wire'[i].kind = "Phase" => wire'[i].reading.of = wire'[i].phase
    BY <2>2 DEF LabelsInOrder
  <2>4. \A i \in DOMAIN wire' : i > 1 /\ SecondPhase(wire'[i]) =>
          ~Foreign(wire'[i - 1]) /\ wire'[i - 1].kind # "Unparsed"
    <3> TAKE i \in DOMAIN wire'
    <3> HAVE i > 1 /\ SecondPhase(wire'[i])
    <3>1. i - 1 \in DOMAIN wire' /\ wire'[i - 1] = wire[i]
      BY <2>1, <2>2
    <3>2. /\ i + 1 \in DOMAIN wire /\ SecondPhase(wire[i + 1])
          /\ i + 1 > 1 /\ (i + 1) - 1 = i /\ i + 1 # 2
      BY <2>2
    <3> QED BY <3>1, <3>2 DEF LabelsInOrder
  <2>6. CASE wire[1].kind = "Unparsed"
    <3>1. snapshot' = snapshot
      BY <2>1, <2>6 DEF ApplyLine
    <3>2. ASSUME wire' # <<>>, SecondPhase(wire'[1])
          PROVE  snapshot.pending = None
      <4>1. 2 \in DOMAIN wire /\ SecondPhase(wire[2]) /\ 2 > 1 /\ 2 - 1 = 1
        BY <2>2, <3>2
      <4> QED BY <2>6, <4>1 DEF LabelsInOrder
    <3> QED BY <2>3, <2>4, <3>1, <3>2 DEF LabelsInOrder, PhasesAreTrue
  <2>7. CASE wire[1].kind # "Unparsed"
    <3>1. /\ snapshot'.pending = IF wire[1].kind = "PhaseUnlabelled"
                                 THEN wire[1].reading ELSE None
          /\ \A p \in Phases :
               \/ snapshot'.phases[p] \in {snapshot.phases[p], None}
               \/ /\ wire[1].kind = "Phase" /\ p = wire[1].phase
                  /\ snapshot'.phases[p] = wire[1].reading
               \/ /\ SecondPhase(wire[1]) /\ p = 1 /\ snapshot.pending # None
                  /\ snapshot'.phases[p] = snapshot.pending
      BY <2>1, <2>2, <2>7, DecodedPhases
    <3>2. snapshot'.pending # None /\ snapshot'.pending.of # 1 /\ wire' # <<>> =>
            ~SecondPhase(wire'[1])
      <4> HAVE snapshot'.pending # None /\ snapshot'.pending.of # 1 /\ wire' # <<>>
      <4>1. Foreign(wire[1])
        BY <3>1 DEF Foreign
      <4>2. 2 \in DOMAIN wire /\ wire'[1] = wire[2] /\ 2 > 1 /\ 2 - 1 = 1
        BY <2>2
      <4> QED BY <4>1, <4>2 DEF LabelsInOrder
    <3>3. PhasesAreTrue'
      BY <2>1, <2>2, <3>1 DEF PhasesAreTrue, LabelsInOrder
    <3> QED BY <2>3, <2>4, <3>2, <3>3 DEF LabelsInOrder
  <2> QED BY <2>6, <2>7
<1>7. CASE NewSession
  <2>1. /\ wire \in Seq(Line) /\ LoseRead /\ snapshot'.pending = None
        /\ PhasesAreTrue'
    BY <1>7 DEF NewSession, FeedTypeOK, EmptySnapshot, PhasesAreTrue
  <2>2. PICK n \in 0 .. Len(wire) :
          \A i \in DOMAIN wire' :
            /\ i + n \in DOMAIN wire
            /\ \/ wire'[i] = wire[i + n]
               \/ /\ i = 1 /\ wire'[i].kind = "PhaseUnlabelled"
                  /\ wire[i + n].kind = "Phase"
                  /\ wire'[i].reading = wire[i + n].reading
               \/ i = 1 /\ wire'[i].kind = "Unparsed"
    BY <2>1, LinesKept
  <2>3. wire' \in Seq(Line)
    BY <2>1, LinesLost
  <2>4. \A i \in DOMAIN wire' :
          wire'[i].kind = "Phase" => wire'[i].reading.of = wire'[i].phase
    BY <2>2, <2>3 DEF LabelsInOrder
  <2>5. \A i \in DOMAIN wire' : i > 1 /\ SecondPhase(wire'[i]) =>
          ~Foreign(wire'[i - 1]) /\ (wire'[i - 1].kind = "Unparsed" => i = 2)
    <3> TAKE i \in DOMAIN wire'
    <3> HAVE i > 1 /\ SecondPhase(wire'[i])
    <3>1. i - 1 \in DOMAIN wire' /\ i + n > 1 /\ (i + n) - 1 = (i - 1) + n
      BY <2>3
    <3>2. SecondPhase(wire[i + n]) /\ i + n \in DOMAIN wire
      BY <2>2
    <3>3. ~Foreign(wire[(i + n) - 1]) /\ (wire[(i + n) - 1].kind = "Unparsed" => i + n = 2)
      BY <3>1, <3>2 DEF LabelsInOrder
    <3>4. i + n = 2 => i = 2
      BY <2>3
    <3>5. CASE wire'[i - 1] = wire[(i - 1) + n]
      BY <3>1, <3>3, <3>4, <3>5
    <3>6. CASE wire'[i - 1] # wire[(i - 1) + n]
      <4>1. i - 1 = 1
        BY <2>2, <3>1, <3>6
      <4>2. i = 2
        BY <2>3, <4>1
      <4>3. wire'[i - 1].kind \in {"PhaseUnlabelled", "Unparsed"}
        BY <2>2, <3>1, <3>6
      <4>4. CASE wire'[i - 1].kind = "Unparsed"
        BY <4>2, <4>4 DEF Foreign
      <4>5. CASE wire'[i - 1].kind = "PhaseUnlabelled"
        <5>1. /\ wire[(i - 1) + n].kind = "Phase"
              /\ wire'[i - 1].reading = wire[(i - 1) + n].reading
          BY <2>2, <3>1, <3>6, <4>5
        <5>2. ~Foreign(wire'[i - 1])
          BY <3>1, <3>3, <5>1 DEF Foreign
        <5> QED BY <4>2, <5>2
      <4> QED BY <4>3, <4>4, <4>5
    <3> QED BY <3>5, <3>6
  <2> QED BY <2>1, <2>4, <2>5 DEF LabelsInOrder
<1>8. CASE WindowEnds \/ UNCHANGED vars
  BY <1>8 DEF WindowEnds, vars, LabelsInOrder, PhasesAreTrue
<1> QED BY <1>2, <1>3, <1>4, <1>5, <1>6, <1>7, <1>8 DEF Next
-----------------------------------------------------------------------------
(***************************************************************************)
(* The invariants.                                                         *)
(***************************************************************************)

\* Whatever the box prints and the second stream destroys, the decoder's state, the
\* truth it is compared with and the feed stay what the model says they are.
THEOREM FeedTypesCorrect == Spec => []FeedTypeOK
<1>1. Init => FeedTypeOK
  BY FeedInit DEF FeedInv
<1>2. FeedTypeOK /\ [Next]_vars => FeedTypeOK'
  BY TypeStep
<1> QED BY <1>1, <1>2, PTL DEF Spec

\* The strengthening that is inductive: what is still on the wire will set it right.
THEOREM FeedInvariant == Spec => []FeedInv
<1>1. Init => FeedInv
  BY FeedInit
<1>2. FeedInv /\ [Next]_vars => FeedInv'
  BY TypeStep, GrantsStep, PilotStep, FaultsStep DEF FeedInv
<1> QED BY <1>1, <1>2, PTL DEF Spec

\* A session that has ended and been read leaves no grant shown (StopGrant): the
\* PwmStop comes behind every grant, and a broker session starts with none.  Only a
\* destroyed Stop line leaves one.
THEOREM EndedGrantsGone == Spec => []EndedGrantIsZero
<1>1. FeedInv => EndedGrantIsZero
  BY DEF FeedInv, GrantsEnd, EndedGrantIsZero
<1> QED BY <1>1, FeedInvariant, PTL

\* The pilot that record_line left is the box's own once the wire is read, whatever
\* lines were destroyed and sessions lost before: only the destruction of the last
\* pilot line latches an older one, and the next that survives sets it right.
THEOREM PilotShownIsTrue == Spec => []PilotTrueOrUnknown
<1>1. FeedInv => PilotTrueOrUnknown
  BY DEF FeedInv, PilotArrives, PilotTrueOrUnknown
<1> QED BY <1>1, FeedInvariant, PTL

\* A fault shown once the wire is read is one the box still has, but for a destroyed
\* CLEAR line.
THEOREM FaultShownStands == Spec => []ShownFaultStands
<1>1. FeedInv => ShownFaultStands
  <2> SUFFICES ASSUME FeedInv, wire = <<>>, snapshot.fault # None,
                      snapshot.fault \notin missed
               PROVE  snapshot.fault \in box.faults
    BY DEF ShownFaultStands
  <2>1. snapshot.fault \in Codes /\ \A j \in DOMAIN wire : FALSE
    BY DEF FeedInv, FeedTypeOK, Snapshot
  <2> QED BY <2>1 DEF FeedInv, FaultsEnd
<1> QED BY <1>1, FeedInvariant, PTL

\* Labels lost, meters missing, sessions cut: Promote never files a reading under another
\* phase, as long as no whole line of a burst is lost (FindPhaseLabel shows that then it
\* may).
THEOREM PhasesStayTrue ==
  ASSUME "line" \notin Damages
  PROVE  Spec => []PhasesAreTrue
<1>1. Init => FeedTypeOK /\ LabelsInOrder
  BY FeedInit DEF FeedInv
<1>2. FeedTypeOK /\ LabelsInOrder /\ [Next]_vars => FeedTypeOK' /\ LabelsInOrder'
  BY TypeStep, LabelsStep
<1>3. LabelsInOrder => PhasesAreTrue
  BY DEF LabelsInOrder
<1> QED BY <1>1, <1>2, <1>3, PTL DEF Spec
=============================================================================
