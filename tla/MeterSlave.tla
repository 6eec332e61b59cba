----------------------------- MODULE MeterSlave -----------------------------
(***************************************************************************)
(* The RS485 slave of firmware/src/rs485.rs, the framing it uses from      *)
(* core/src/charge/frame.rs and the poll stamp of the Handoff.  Requests   *)
(* are made of pieces; a piece of line noise, or of a destroyed frame, is  *)
(* "noise", a request to somebody else is "other".                         *)
(*                                                                         *)
(* On the bus everything is over within a unit of the clock.               *)
(***************************************************************************)
EXTENDS LogLevel, Sequences

VARIABLES
  up,           \* the slave's thread runs
  asked,        \* what the box sent in this unit; empty before it does
  line,         \* the part of it that has not arrived
  fifo, frame,  \* received; taken by the slave and not yet a whole frame
  answering,    \* our poll was recognised and stamped
  answers,      \* replies in this unit
  spoilt,       \* a gap, a reset or a UART error fell into it (history)
  lastPoll,     \* Handoff.last_poll_ms
  stampAge      \* the true age of that stamp, up to Wrap (history)

busVars   == <<asked, line, fifo, frame, answering, answers, spoilt>>
stampVars == <<lastPoll, stampAge>>
slaveVars == <<up, busVars, stampVars>>

Poll     == <<"head", "tail">>
Requests == {Poll, <<"other">>, <<"head", "noise">>, <<"noise", "head", "tail">>}

MeterInit ==
  /\ up = FALSE
  /\ asked = <<>> /\ line = <<>> /\ fifo = <<>> /\ frame = <<>>
  /\ answering = FALSE /\ answers = 0 /\ spoilt = FALSE
  /\ lastPoll = 0 /\ stampAge = 0

MeterBoots ==
  /\ up' = FALSE
  /\ fifo' = <<>> /\ frame' = <<>> /\ answering' = FALSE
  /\ lastPoll' = 0 /\ stampAge' = 0
  /\ spoilt' = TRUE
  /\ UNCHANGED <<asked, line, answers>>

-----------------------------------------------------------------------------
\* The box sends a request, once a unit; noise may ride along.
BoxSends(request) ==
  /\ asked = <<>>
  /\ asked' = request /\ line' = request
  /\ spoilt' = ~up
  /\ UNCHANGED <<up, fifo, frame, answering, answers, stampVars>>

\* A piece arrives; without the thread nobody will read it.
Arrives ==
  /\ line # <<>>
  /\ line' = Tail(line)
  /\ fifo' = IF up THEN Append(fifo, Head(line)) ELSE <<>>
  /\ UNCHANGED <<up, asked, frame, answering, answers, spoilt, stampVars>>

\* Mutant: a read takes the place of the ones before it.
ReadOverwriting ==
  /\ up /\ ~answering /\ fifo # <<>>
  /\ frame' = fifo /\ fifo' = <<>>
  /\ UNCHANGED <<up, asked, line, answering, answers, spoilt, stampVars>>

\* uart.read: everything received so far joins the frame.
Read ==
  /\ up /\ ~answering /\ fifo # <<>>
  /\ frame' = frame \o fifo /\ fifo' = <<>>
  /\ UNCHANGED <<up, asked, line, answering, answers, spoilt, stampVars>>

\* Mutant: the checksum is not looked at.
ParseRequestUnchecked(bytes) == IF Len(bytes) = 2 THEN Poll ELSE <<>>

\* parse_request: exactly one request with its CRC right, or nothing.
ParseRequest(bytes) ==
  IF bytes \in {Poll, <<"other">>} THEN bytes ELSE <<>>

\* A silent line, or an error of the UART at any time, ends the frame.  Our poll is
\* stamped; anything else is dropped.
FrameEnds ==
  /\ up /\ ~answering /\ frame # <<>>
  /\ frame' = <<>>
  /\ spoilt' = (spoilt \/ line # <<>> \/ fifo # <<>>)
  /\ IF ParseRequest(frame) = Poll
       THEN answering' = TRUE /\ lastPoll' = clock /\ stampAge' = 0
       ELSE UNCHANGED <<answering, stampVars>>
  /\ UNCHANGED <<up, asked, line, fifo, answers>>

\* The reply, which the UART may refuse.
Answer ==
  /\ answering
  /\ answering' = FALSE
  /\ \/ answers' = answers + 1 /\ UNCHANGED spoilt
     \/ spoilt' = TRUE /\ UNCHANGED answers
  /\ UNCHANGED <<up, asked, line, fifo, frame, stampVars>>

MeterNext ==
  \/ \E request \in Requests : BoxSends(request)
  \/ Arrives \/ Read \/ FrameEnds \/ Answer

Quiet == line = <<>> /\ fifo = <<>> /\ frame = <<>> /\ ~answering

\* The next unit of the bus.
MeterElapses ==
  /\ asked' = <<>> /\ answers' = 0 /\ spoilt' = FALSE
  /\ stampAge' = IF stampAge < Wrap THEN stampAge + 1 ELSE stampAge
  /\ UNCHANGED <<up, line, fifo, frame, answering, lastPoll>>

-----------------------------------------------------------------------------
(***************************************************************************)
(* Properties.                                                             *)
(***************************************************************************)
\* rs485.rs: silence on a foreign address, and for every frame that is broken: the
\* slave answers its own whole poll, once, and nothing else.  Noise before it, which
\* a gap or an error of the UART sets apart, is another frame.
AnswersOwnPoll ==
  answers > 0 =>
    answers = 1 /\ \E before \in {<<>>, <<"noise">>} : asked = before \o Poll

\* rs485.rs: "a dropped poll just means the box re-polls": noise, a foreign frame, a
\* gap or an error of the UART in one poll cost none of the next ones.
CleanPollAnswered == Quiet /\ asked = Poll /\ ~spoilt => answers = 1
=============================================================================
