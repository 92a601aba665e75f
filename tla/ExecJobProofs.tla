--------------------------- MODULE ExecJobProofs ---------------------------
(***************************************************************************)
(* Theorems about ExecJob: its type, and that what runExec, a cancel and   *)
(* the streams do in any order keeps the outcome whole.                    *)
(***************************************************************************)
EXTENDS ExecJob, TLAPS

LEMMA ClassifiedType ==
  ASSUME NEW e \in {"none", "exit", "other"}
  PROVE  /\ Classified(e) \in Terminal
         /\ Classified(e) = "SUCCEEDED" => e = "none"
         /\ Classified(e) = "CANCELLED" => cancelled \/ ctx = "canceled"
BY DEF Classified, Terminal

LEMMA EventType ==
  /\ \A k \in 0 .. MaxOut : Out(k) \in Event
  /\ \A s \in Terminal : Result(s) \in Event
BY ExecAssumption DEF Out, Result, Event, Terminal

LEMMA Members ==
  /\ 0 \in 0 .. MaxOut
  /\ "none" \in State /\ "RUNNING" \in State /\ Terminal \subseteq State
  /\ IdleStream \in Request
  /\ \A r \in State : [IdleStream EXCEPT !.result = r] \in Request
  /\ \A r \in State : [IdleStream EXCEPT !.pc = "lookup", !.record = r] \in Request
  /\ \A r \in State, b \in BOOLEAN : [state |-> r, asked |-> b] \in Row
<1>1. 0 \in 0 .. MaxOut
  BY ExecAssumption
<1>2. "none" \in State /\ "RUNNING" \in State /\ Terminal \subseteq State
  BY DEF State
<1> QED
  BY <1>1, <1>2 DEF IdleStream, Request, Row

\* What a channel becomes when an event is put in it, or when it is closed,
\* emptied or opened, is a channel.
LEMMA ChannelType ==
  ASSUME NEW ch \in Channel, NEW e \in Event, NEW b \in BOOLEAN
  PROVE  /\ [ch EXCEPT !.open = b] \in Channel
         /\ [ch EXCEPT !.queue = Append(@, e)] \in Channel
         /\ [queue |-> << >>, open |-> b] \in Channel
         /\ [queue |-> <<e>>, open |-> b] \in Channel
         /\ ch.queue # << >> =>
              /\ Head(ch.queue) \in Event
              /\ [ch EXCEPT !.queue = Tail(@)] \in Channel
<1>1. ch.queue \in Seq(Event) /\ ch.open \in BOOLEAN
  BY DEF Channel
<1>2. Append(ch.queue, e) \in Seq(Event) /\ << >> \in Seq(Event) /\ <<e>> \in Seq(Event)
  BY <1>1
<1>3. ch.queue # << >> => Head(ch.queue) \in Event /\ Tail(ch.queue) \in Seq(Event)
  BY <1>1
<1> QED
  BY <1>1, <1>2, <1>3 DEF Channel

LEMMA BroadcastType ==
  ASSUME TypeOK, NEW e \in Event, Broadcast(e)
  PROVE  subs' \in SUBSET Stream /\ chan' \in [Stream -> Channel]
<1> DEFINE full == {s \in subs : Len(chan[s].queue) >= Buffer}
           new(s) == CASE s \in full -> [chan[s] EXCEPT !.open = FALSE]
                       [] s \in subs \ full -> [chan[s] EXCEPT !.queue = Append(@, e)]
                       [] OTHER -> chan[s]
<1>1. subs' = subs \ full /\ chan' = [s \in Stream |-> new(s)]
  BY DEF Broadcast
<1>2. ASSUME NEW s \in Stream PROVE new(s) \in Channel
  <2>1. chan[s] \in Channel
    BY DEF TypeOK
  <2> QED
    BY <2>1, ChannelType
<1> QED
  BY <1>1, <1>2 DEF TypeOK

LEMMA LeaveType ==
  ASSUME TypeOK, NEW s \in Stream, NEW result \in State, Leave(s, result)
  PROVE  /\ subs' \in SUBSET Stream
         /\ chan' \in [Stream -> Channel]
         /\ stream' \in [Stream -> Request]
<1>1. [queue |-> << >>, open |-> FALSE] \in Channel
  BY DEF Channel
<1>2. [IdleStream EXCEPT !.result = result] \in Request
  BY Members
<1> QED
  BY <1>1, <1>2 DEF Leave, TypeOK

LEMMA InitType == Init => TypeOK
<1>1. [queue |-> << >>, open |-> FALSE] \in Channel
  BY DEF Channel
<1>2. row = [state |-> "none", asked |-> FALSE] => row \in Row
  BY Members
<1> QED
  BY <1>1, <1>2, Members DEF Init, TypeOK, RunPC

LEMMA RunType == TypeOK /\ RunStep => TypeOK'
<1> SUFFICES ASSUME TypeOK, RunStep PROVE TypeOK'
  OBVIOUS
<1> USE DEF TypeOK, jobVars, cmdVars, clientVars, RunPC
<1>1. CASE Register
  BY <1>1 DEF Register
<1>2. CASE Prepare
  BY <1>2, ClassifiedType DEF Prepare
<1>3. CASE Wait
  BY <1>3 DEF Wait
<1>4. CASE Drain
  BY <1>4, ClassifiedType DEF Drain
<1>5. CASE Complete
  <2>1. [row EXCEPT !.state = outcome] \in Row
    BY Members DEF Row
  <2> QED
    BY <1>5, <2>1 DEF Complete
<1>6. CASE SetFinal
  BY <1>6 DEF SetFinal
<1>7. CASE BroadcastResult
  <2>0. outcome \in Terminal \/ outcome = "none"
    OBVIOUS
  <2>1. Result(outcome) \in Event
    BY <2>0, ExecAssumption DEF Result, Event
  <2>2. Broadcast(Result(outcome))
    BY <1>7 DEF BroadcastResult
  <2>3. /\ subs' \in SUBSET Stream
        /\ chan' \in [Stream -> Channel]
    BY <2>1, <2>2, BroadcastType
  <2> QED
    BY <1>7, <2>3 DEF BroadcastResult
<1>8. CASE CloseSubscribers
  <2>1. \A s \in Stream : [chan[s] EXCEPT !.open = @ /\ s \notin subs] \in Channel
    BY DEF Channel
  <2> QED
    BY <1>8, <2>1 DEF CloseSubscribers
<1>9. CASE Unregister
  <2>1. registered' \in BOOLEAN /\ run' \in RunPC
    BY <1>9 DEF Unregister
  <2>2. /\ row' \in Row /\ cancelled' \in BOOLEAN
        /\ ctx' \in {"live", "deadline", "canceled"}
        /\ final' \in {"none"} \cup Terminal /\ outcome' \in {"none"} \cup Terminal
        /\ subs' \in SUBSET Stream /\ chan' \in [Stream -> Channel]
    BY <1>9 DEF Unregister
  <2> QED
    BY <1>9, <2>1, <2>2 DEF Unregister
<1> QED
  BY <1>1, <1>2, <1>3, <1>4, <1>5, <1>6, <1>7, <1>8, <1>9 DEF RunStep

LEMMA CommandType ==
  TypeOK /\ (Write \/ Exit \/ Kill \/ Read \/ ReadEnd) => TypeOK'
<1> SUFFICES ASSUME TypeOK, Write \/ Exit \/ Kill \/ Read \/ ReadEnd PROVE TypeOK'
  OBVIOUS
<1> USE DEF TypeOK, jobVars, cmdVars, clientVars
<1>1. CASE Write
  BY <1>1, ExecAssumption DEF Write
<1>2. CASE Exit
  BY <1>2 DEF Exit
<1>3. CASE Kill
  BY <1>3 DEF Kill
<1>4. CASE Read
  <2>1. read' \in 0 .. MaxOut /\ read' = read + 1
    BY <1>4, ExecAssumption DEF Read
  <2>2. Out(read + 1) \in Event /\ Broadcast(Out(read + 1))
    BY <1>4, <2>1, EventType DEF Read
  <2>3. /\ subs' \in SUBSET Stream
        /\ chan' \in [Stream -> Channel]
    BY <2>2, BroadcastType
  <2> QED
    BY <1>4, <2>1, <2>3 DEF Read
<1>5. CASE ReadEnd
  BY <1>5 DEF ReadEnd
<1> QED
  BY <1>1, <1>2, <1>3, <1>4, <1>5

LEMMA StreamType ==
  ASSUME TypeOK, NEW s \in Stream, StreamLoad(s) \/ StreamStep(s) \/ StreamGone(s)
  PROVE  TypeOK'
<1> USE DEF TypeOK, jobVars, cmdVars
<1>0. /\ chan[s] \in Channel /\ stream[s] \in Request /\ stream[s].record \in State
      /\ row.state \in State
  BY DEF Request, Row
<1>1. CASE StreamLoad(s)
  <2>1. [IdleStream EXCEPT !.pc = "lookup", !.record = row.state] \in Request
    BY <1>0, Members
  <2> QED
    BY <1>1, <2>1 DEF StreamLoad
<1>2. CASE StreamLookup(s)
  <2>1. [IdleStream EXCEPT !.result = stream[s].record] \in Request
    BY <1>0, Members
  <2>2. [stream[s] EXCEPT !.pc = "subscribe"] \in Request
    BY <1>0 DEF Request
  <2> QED
    BY <1>2, <2>1, <2>2 DEF StreamLookup
<1>3. CASE StreamSubscribe(s)
  <2>1. [queue |-> << >>, open |-> TRUE] \in Channel
    BY DEF Channel
  <2>2. ASSUME final # "none" PROVE [queue |-> <<Result(final)>>, open |-> FALSE] \in Channel
    <3>1. Result(final) \in Event
      BY <2>2, EventType
    <3> QED
      BY <1>0, <3>1, ChannelType
  <2>3. [stream[s] EXCEPT !.pc = "receive", !.last = read] \in Request
    BY <1>0 DEF Request
  <2> QED
    <3>1. stream' \in [Stream -> Request]
      BY <1>3, <2>3 DEF StreamSubscribe
    <3>2. subs' \in SUBSET Stream /\ chan' \in [Stream -> Channel]
      <4>1. CASE final = "none"
        BY <1>3, <2>1, <4>1 DEF StreamSubscribe
      <4>2. CASE final # "none"
        BY <1>3, <2>2, <4>2 DEF StreamSubscribe
      <4> QED
        BY <4>1, <4>2
    <3> QED
      BY <1>3, <3>1, <3>2 DEF StreamSubscribe
<1>4. CASE StreamReceive(s)
  <2> DEFINE e == Head(chan[s].queue)
  <2>1. e \in Event /\ [chan[s] EXCEPT !.queue = Tail(@)] \in Channel
    <3>1. chan[s].queue \in Seq(Event) /\ chan[s].queue # << >>
      BY <1>0, <1>4 DEF StreamReceive, Channel
    <3>2. e \in Event
      BY <3>1
    <3> QED
      BY <1>0, <3>1, <3>2, ChannelType
  <2>2. CASE e.result # "none"
    <3>1. Leave(s, e.result) /\ e.result \in State
      BY <1>4, <2>1, <2>2 DEF StreamReceive, Event, State
    <3> QED
      BY <1>4, <3>1, LeaveType DEF StreamReceive
  <2>3. CASE e.result = "none"
    <3>1. [stream[s] EXCEPT !.last = e.out] \in Request
      BY <1>0, <2>1 DEF Event, Request
    <3>2. /\ stream' = [stream EXCEPT ![s] = [stream[s] EXCEPT !.last = e.out]]
          /\ chan' = [chan EXCEPT ![s] = [chan[s] EXCEPT !.queue = Tail(@)]]
          /\ UNCHANGED <<row, ctx, cancelled, jobVars, cmdVars, cancel, subs>>
      BY <1>4, <2>3 DEF StreamReceive
    <3> QED
      BY <2>1, <3>1, <3>2
  <2> QED
    BY <2>2, <2>3
<1>5. CASE StreamClosed(s)
  <2>1. Leave(s, "none") /\ "none" \in State
    BY <1>5, Members DEF StreamClosed
  <2>2. /\ subs' \in SUBSET Stream
        /\ chan' \in [Stream -> Channel]
        /\ stream' \in [Stream -> Request]
    BY <2>1, LeaveType
  <2> QED
    BY <1>5, <2>2 DEF StreamClosed
<1>6. CASE StreamGone(s)
  <2>1. Leave(s, "none") /\ "none" \in State
    BY <1>6, Members DEF StreamGone
  <2>2. /\ subs' \in SUBSET Stream
        /\ chan' \in [Stream -> Channel]
        /\ stream' \in [Stream -> Request]
    BY <2>1, LeaveType
  <2> QED
    BY <1>6, <2>2 DEF StreamGone
<1> QED
  BY <1>1, <1>2, <1>3, <1>4, <1>5, <1>6 DEF StreamStep

LEMMA CancelType ==
  ASSUME TypeOK, NEW c \in Cancel, CancelLoad(c) \/ CancelStep(c)
  PROVE  TypeOK'
<1> USE DEF TypeOK, jobVars, cmdVars
<1>1. CASE CancelLoad(c)
  BY <1>1 DEF CancelLoad
<1>2. CASE CancelMark(c)
  <2>1. [row EXCEPT !.asked = row.state # "none"] \in Row
    BY DEF Row
  <2> QED
    BY <1>2, <2>1 DEF CancelMark
<1>3. CASE CancelLookup(c)
  BY <1>3 DEF CancelLookup
<1>4. CASE CancelFlag(c)
  BY <1>4 DEF CancelFlag
<1>5. CASE CancelFire(c)
  BY <1>5 DEF CancelFire
<1> QED
  BY <1>1, <1>2, <1>3, <1>4, <1>5 DEF CancelStep

LEMMA RestType == TypeOK /\ (Create \/ Deadline \/ MachineDeleted \/ Crash) => TypeOK'
<1> SUFFICES ASSUME TypeOK, Create \/ Deadline \/ MachineDeleted \/ Crash PROVE TypeOK'
  OBVIOUS
<1> USE DEF TypeOK, jobVars, cmdVars, clientVars
<1>1. CASE Create
  <2>1. [state |-> "RUNNING", asked |-> FALSE] \in Row
    BY Members
  <2> QED
    BY <1>1, <2>1 DEF Create, RunPC
<1>2. CASE Deadline
  BY <1>2 DEF Deadline
<1>3. CASE MachineDeleted
  <2>1. [state |-> "none", asked |-> FALSE] \in Row
    BY Members
  <2> QED
    BY <1>3, <2>1 DEF MachineDeleted
<1>4. CASE Crash
  <2>1. [queue |-> << >>, open |-> FALSE] \in Channel
    BY DEF Channel
  <2> QED
    BY <1>4, <2>1, Members DEF Crash, RunPC
<1> QED
  BY <1>1, <1>2, <1>3, <1>4

LEMMA TypeStep == TypeOK /\ [Next]_vars => TypeOK'
<1>1. TypeOK /\ UNCHANGED vars => TypeOK'
  BY DEF TypeOK, vars
<1> QED
  BY <1>1, RunType, CommandType, StreamType, CancelType, RestType DEF Next

\* ExecJob is type correct.
THEOREM TypeCorrect == Spec => []TypeOK
BY InitType, TypeStep, PTL DEF Spec

-----------------------------------------------------------------------------
(* The outcome *)

\* Before the command is over there is no outcome; a reader that is at the end
\* has read everything and no more can come; a wait without error was for a
\* process that exited with status 0.
OutcomeInv ==
  /\ run \in {"none", "register", "prepare", "wait", "drain"} => outcome = "none"
  /\ run \in {"none", "register", "prepare"} => cmd = "none" /\ reader = "none"
  /\ reader = "eof" => read = out /\ cmd # "running"
  /\ run = "drain" /\ err = "none" => cmd = "exit0"
  /\ SucceededIsComplete

LEMMA OutcomeStep == TypeOK /\ OutcomeInv /\ [Next]_vars => OutcomeInv'
<1> SUFFICES ASSUME TypeOK, OutcomeInv, [Next]_vars PROVE OutcomeInv'
  OBVIOUS
<1> USE DEF OutcomeInv, SucceededIsComplete, jobVars, cmdVars, clientVars
<1>1. CASE Create \/ Register
  BY <1>1 DEF Create, Register
<1>2. CASE Prepare
  BY <1>2, ClassifiedType DEF Prepare
<1>3. CASE Wait
  BY <1>3 DEF Wait
<1>4. CASE Drain
  <2> DEFINE e == IF err = "none" /\ reader = "error" THEN "other" ELSE err
  <2>1. e \in {"none", "exit", "other"}
    BY DEF TypeOK
  <2>2. e = "none" => cmd = "exit0" /\ read = out
    BY <1>4 DEF Drain
  <2> QED
    BY <1>4, <2>1, <2>2, ClassifiedType DEF Drain
<1>5. CASE Complete \/ SetFinal \/ BroadcastResult \/ CloseSubscribers \/ Unregister
  BY <1>5 DEF Complete, SetFinal, BroadcastResult, CloseSubscribers, Unregister
<1>6. CASE Write
  BY <1>6 DEF Write
<1>7. CASE Exit \/ Kill
  BY <1>7 DEF Exit, Kill
<1>8. CASE Read
  BY <1>8 DEF Read, TypeOK
<1>9. CASE ReadEnd
  BY <1>9 DEF ReadEnd
<1>10. CASE \E s \in Stream : StreamLoad(s) \/ StreamStep(s) \/ StreamGone(s)
  BY <1>10 DEF StreamLoad, StreamStep, StreamLookup, StreamSubscribe, StreamReceive,
               StreamClosed, StreamGone
<1>11. CASE \E c \in Cancel : CancelLoad(c) \/ CancelStep(c)
  BY <1>11 DEF CancelLoad, CancelStep, CancelMark, CancelLookup, CancelFlag, CancelFire
<1>12. CASE Deadline \/ MachineDeleted \/ Crash
  BY <1>12 DEF Deadline, MachineDeleted, Crash
<1>13. CASE UNCHANGED vars
  BY <1>13 DEF vars
<1> QED
  BY <1>1, <1>2, <1>3, <1>4, <1>5, <1>6, <1>7, <1>8, <1>9, <1>10, <1>11, <1>12, <1>13
     DEF Next, RunStep

\* Whatever the order in which the process ends, its output is read and the
\* context is done: a command is SUCCEEDED only with status 0 and all output.
THEOREM SucceededComplete == Spec => []SucceededIsComplete
<1>1. Init => OutcomeInv
  BY DEF Init, OutcomeInv, SucceededIsComplete
<1>2. OutcomeInv => SucceededIsComplete
  BY DEF OutcomeInv
<1> QED
  BY <1>1, <1>2, InitType, TypeStep, OutcomeStep, PTL DEF Spec

-----------------------------------------------------------------------------
(* Cancelling *)

\* What a cancel request leaves behind once it has marked the row.
CancelTraces ==
  \/ cancelled \/ ctx = "canceled" \/ outcome = "CANCELLED" \/ row.state = "CANCELLED"
  \/ \E c \in Cancel : cancel[c] \in {"lookup", "flag", "fire"}

\* The traces are there only if the row is marked, or gone for good.
AskedInv ==
  /\ CancelTraces => row.asked \/ row.state = "none"
  /\ run = "none" => /\ row.state = "none" /\ ~CancelTraces
                     /\ \A c \in Cancel : cancel[c] = "idle"

LEMMA AskedStep == TypeOK /\ AskedInv /\ [Next]_vars => AskedInv'
<1> SUFFICES ASSUME TypeOK, AskedInv, [Next]_vars PROVE AskedInv'
  OBVIOUS
<1> USE DEF AskedInv, CancelTraces, jobVars, cmdVars, clientVars
<1>1. CASE Create
  BY <1>1 DEF Create
<1>2. CASE Prepare
  BY <1>2, ClassifiedType DEF Prepare
<1>3. CASE Drain
  <2>1. (IF err = "none" /\ reader = "error" THEN "other" ELSE err) \in {"none", "exit", "other"}
    BY DEF TypeOK
  <2> QED
    BY <1>3, <2>1, ClassifiedType DEF Drain
<1>4. CASE Complete
  BY <1>4 DEF Complete, TypeOK, Row
<1>5. CASE Register \/ Wait \/ SetFinal \/ BroadcastResult \/ CloseSubscribers \/ Unregister
  BY <1>5 DEF Register, Wait, SetFinal, BroadcastResult, CloseSubscribers, Unregister
<1>6. CASE Write \/ Exit \/ Kill \/ Read \/ ReadEnd
  BY <1>6 DEF Write, Exit, Kill, Read, ReadEnd
<1>7. CASE \E s \in Stream : StreamLoad(s) \/ StreamStep(s) \/ StreamGone(s)
  BY <1>7 DEF StreamLoad, StreamStep, StreamLookup, StreamSubscribe, StreamReceive,
              StreamClosed, StreamGone
<1>8. ASSUME NEW c \in Cancel, CancelLoad(c) \/ CancelStep(c)
      PROVE  AskedInv'
  <2> USE DEF TypeOK, Row
  <2>1. CASE CancelLoad(c)
    BY <2>1 DEF CancelLoad
  <2>2. CASE CancelMark(c)
    BY <2>2 DEF CancelMark
  <2>3. CASE CancelLookup(c)
    BY <2>3 DEF CancelLookup
  <2>4. CASE CancelFlag(c)
    BY <2>4 DEF CancelFlag
  <2>5. CASE CancelFire(c)
    BY <2>5 DEF CancelFire
  <2> QED
    BY <1>8, <2>1, <2>2, <2>3, <2>4, <2>5 DEF CancelStep
<1>9. CASE Deadline \/ Crash
  BY <1>9 DEF Deadline, Crash
<1>10. CASE MachineDeleted
  BY <1>10 DEF MachineDeleted
<1>11. CASE UNCHANGED vars
  BY <1>11 DEF vars
<1> QED
  BY <1>1, <1>2, <1>3, <1>4, <1>5, <1>6, <1>7, <1>8, <1>9, <1>10, <1>11 DEF Next, RunStep

\* A row that says CANCELLED says that somebody asked for it, however the
\* cancel, the timeout and the end of the command interleave.
THEOREM CancelledAsked == Spec => []CancelledWasAsked
<1>1. Init => AskedInv
  BY DEF Init, AskedInv, CancelTraces
<1>2. AskedInv => CancelledWasAsked
  BY DEF AskedInv, CancelTraces, CancelledWasAsked
<1> QED
  BY <1>1, <1>2, InitType, TypeStep, AskedStep, PTL DEF Spec

-----------------------------------------------------------------------------
(* Streams *)

\* A channel is open only for a subscriber; once the subscribers have been
\* closed there are none, because a stream that subscribes finds the result.
ReleaseInv ==
  /\ \A s \in Stream : chan[s].open => s \in subs
  /\ run \in {"none", "unregister", "done"} => subs = {}
  /\ run \in {"complete", "final"} => outcome # "none"
  /\ run \in {"result", "close", "unregister"} => final # "none"
  /\ registered => run \notin {"none", "register", "done"}
  /\ \A s \in Stream : stream[s].pc = "subscribe" /\ final = "none" =>
       run \notin {"none", "register", "unregister", "done"}

LEMMA BroadcastOpen ==
  ASSUME TypeOK, ReleaseInv, NEW e, Broadcast(e)
  PROVE  \A s \in Stream : chan'[s].open => s \in subs'
<1> TAKE s \in Stream
<1>1. CASE s \in subs /\ Len(chan[s].queue) >= Buffer
  BY <1>1 DEF Broadcast, TypeOK, Channel
<1>2. CASE s \in subs /\ ~(Len(chan[s].queue) >= Buffer)
  BY <1>2 DEF Broadcast
<1>3. CASE s \notin subs
  BY <1>3 DEF Broadcast, ReleaseInv
<1> QED
  BY <1>1, <1>2, <1>3

LEMMA ReleaseRunStep == TypeOK /\ ReleaseInv /\ RunStep => ReleaseInv'
<1> SUFFICES ASSUME TypeOK, ReleaseInv, RunStep PROVE ReleaseInv'
  OBVIOUS
<1> USE DEF ReleaseInv, jobVars, cmdVars, clientVars
<1>1. CASE Register \/ Wait
  BY <1>1 DEF Register, Wait
<1>2. CASE Prepare
  BY <1>2, ClassifiedType DEF Prepare, Terminal
<1>3. CASE Drain
  <2>1. (IF err = "none" /\ reader = "error" THEN "other" ELSE err) \in {"none", "exit", "other"}
    BY DEF TypeOK
  <2> QED
    BY <1>3, <2>1, ClassifiedType DEF Drain, Terminal
<1>4. CASE Complete \/ SetFinal
  BY <1>4 DEF Complete, SetFinal
<1>5. CASE BroadcastResult
  <2>1. \A s \in Stream : chan'[s].open => s \in subs'
    BY <1>5, BroadcastOpen DEF BroadcastResult
  <2> QED
    BY <1>5, <2>1 DEF BroadcastResult
<1>6. CASE CloseSubscribers
  <2>1. \A s \in Stream : ~chan'[s].open
    BY <1>6 DEF CloseSubscribers, TypeOK, Channel
  <2> QED
    BY <1>6, <2>1 DEF CloseSubscribers
<1>7. CASE Unregister
  BY <1>7 DEF Unregister
<1> QED
  BY <1>1, <1>2, <1>3, <1>4, <1>5, <1>6, <1>7 DEF RunStep

LEMMA ReleaseStreamStep ==
  ASSUME TypeOK, ReleaseInv, NEW s \in Stream,
         StreamLoad(s) \/ StreamStep(s) \/ StreamGone(s)
  PROVE  ReleaseInv'
<1> USE DEF ReleaseInv, jobVars, cmdVars
<1>1. CASE StreamLoad(s)
  BY <1>1 DEF StreamLoad, TypeOK, IdleStream
<1>2. CASE StreamLookup(s)
  BY <1>2 DEF StreamLookup, TypeOK, IdleStream
<1>3. CASE StreamSubscribe(s)
  <2>1. \A t \in Stream : chan'[t].open => t \in subs'
    BY <1>3 DEF StreamSubscribe, TypeOK
  <2>2. run \in {"none", "unregister", "done"} => subs' = {}
    BY <1>3 DEF StreamSubscribe
  <2>3. \A t \in Stream : stream'[t].pc = "subscribe" => stream[t].pc = "subscribe"
    BY <1>3 DEF StreamSubscribe, TypeOK, Request
  <2> QED
    BY <1>3, <2>1, <2>2, <2>3 DEF StreamSubscribe
<1>4. ASSUME NEW result, Leave(s, result), UNCHANGED jobVars
      PROVE  ReleaseInv'
  <2>1. \A t \in Stream : chan'[t].open => t \in subs'
    BY <1>4 DEF Leave, TypeOK
  <2>2. subs' \subseteq subs
    BY <1>4 DEF Leave
  <2>3. \A t \in Stream : stream'[t].pc = "subscribe" => stream[t].pc = "subscribe"
    BY <1>4 DEF Leave, TypeOK, IdleStream
  <2> QED
    BY <1>4, <2>1, <2>2, <2>3
<1>5. CASE StreamReceive(s)
  <2>1. CASE Head(chan[s].queue).result # "none"
    BY <1>4, <1>5, <2>1 DEF StreamReceive
  <2>2. CASE Head(chan[s].queue).result = "none"
    <3>1. \A t \in Stream : chan'[t].open = chan[t].open
      <4>1. chan' = [chan EXCEPT ![s] = [chan[s] EXCEPT !.queue = Tail(@)]]
        BY <1>5, <2>2 DEF StreamReceive
      <4>2. chan[s] \in Channel /\ chan \in [Stream -> Channel]
        BY DEF TypeOK
      <4>3. [chan[s] EXCEPT !.queue = Tail(@)].open = chan[s].open
        BY <4>2 DEF Channel
      <4> QED
        BY <4>1, <4>2, <4>3
    <3>2. \A t \in Stream : stream'[t].pc = stream[t].pc
      BY <1>5, <2>2 DEF StreamReceive, TypeOK, Request
    <3> QED
      BY <1>5, <2>2, <3>1, <3>2 DEF StreamReceive
  <2> QED
    BY <2>1, <2>2
<1>6. CASE StreamClosed(s) \/ StreamGone(s)
  BY <1>4, <1>6 DEF StreamClosed, StreamGone
<1> QED
  BY <1>1, <1>2, <1>3, <1>5, <1>6 DEF StreamStep

LEMMA ReleaseStep == TypeOK /\ ReleaseInv /\ [Next]_vars => ReleaseInv'
<1> SUFFICES ASSUME TypeOK, ReleaseInv, [Next]_vars PROVE ReleaseInv'
  OBVIOUS
<1> USE DEF ReleaseInv, jobVars, cmdVars, clientVars
<1>1. CASE Create
  BY <1>1 DEF Create
<1>2. CASE Write \/ Exit \/ Kill \/ ReadEnd
  BY <1>2 DEF Write, Exit, Kill, ReadEnd
<1>3. CASE Read
  <2>1. \A s \in Stream : chan'[s].open => s \in subs'
    BY <1>3, BroadcastOpen DEF Read
  <2>2. subs' \subseteq subs
    BY <1>3 DEF Read, Broadcast
  <2> QED
    BY <1>3, <2>1, <2>2 DEF Read
<1>4. CASE \E c \in Cancel : CancelLoad(c) \/ CancelStep(c)
  BY <1>4 DEF CancelLoad, CancelStep, CancelMark, CancelLookup, CancelFlag, CancelFire
<1>5. CASE Deadline \/ MachineDeleted
  BY <1>5 DEF Deadline, MachineDeleted
<1>6. CASE Crash
  BY <1>6 DEF Crash, IdleStream
<1>7. CASE UNCHANGED vars
  BY <1>7 DEF vars
<1> QED
  BY <1>1, <1>2, <1>3, <1>4, <1>5, <1>6, <1>7, ReleaseRunStep, ReleaseStreamStep DEF Next

\* When the job is over no stream waits on a channel that is still open,
\* whether it subscribed before the result was there or after.
THEOREM StreamsAreReleased == Spec => []StreamsReleased
<1>1. Init => ReleaseInv
  BY DEF Init, ReleaseInv, IdleStream
<1>2. ReleaseInv => StreamsReleased
  BY DEF ReleaseInv, StreamsReleased
<1> QED
  BY <1>1, <1>2, InitType, TypeStep, ReleaseStep, PTL DEF Spec

-----------------------------------------------------------------------------
(* The outcome that is told *)

\* An event with the result x waits in the queue q.
Holds(q, x) == \E i \in 1 .. Len(q) : q[i].result = x

\* Somebody has been told, or will read, that the command ended as x.
Told(x) ==
  \/ row.state = x \/ final = x
  \/ \E s \in Stream : \/ stream[s].record = x \/ stream[s].result = x
                       \/ Holds(chan[s].queue, x)

Undecided == run \in {"none", "register", "prepare", "wait", "drain"}
Decided == run \in {"complete", "final", "result", "close", "unregister"}

\* Nothing is told before runExec has decided, while it still runs only what it
\* decided is told, and what was told never changes.
AgreeInv ==
  /\ \A x, y \in Terminal : Told(x) /\ Told(y) => x = y
  /\ \A x \in Terminal : Undecided => ~Told(x)
  /\ \A x \in Terminal : Decided /\ Told(x) => x = outcome

LEMMA HoldsAfter ==
  ASSUME NEW q \in Seq(Event), NEW e \in Event, NEW x
  PROVE  /\ Holds(Append(q, e), x) => Holds(q, x) \/ e.result = x
         /\ q # << >> => /\ Holds(Tail(q), x) => Holds(q, x)
                         /\ Holds(q, Head(q).result)
         /\ ~Holds(<< >>, x)
         /\ Holds(<<e>>, x) => e.result = x
<1>1. Holds(Append(q, e), x) => Holds(q, x) \/ e.result = x
  BY DEF Holds
<1>2. ASSUME q # << >>, Holds(Tail(q), x) PROVE Holds(q, x)
  <2>1. PICK i \in 1 .. Len(Tail(q)) : Tail(q)[i].result = x
    BY <1>2 DEF Holds
  <2>2. Len(Tail(q)) = Len(q) - 1 /\ Tail(q)[i] = q[i + 1] /\ i + 1 \in 1 .. Len(q)
    BY <1>2, <2>1
  <2> QED
    BY <2>1, <2>2 DEF Holds
<1>3. q # << >> => Holds(q, Head(q).result)
  <2>1. q # << >> => 1 \in 1 .. Len(q) /\ Head(q) = q[1]
    OBVIOUS
  <2> QED
    BY <2>1 DEF Holds
<1> QED
  BY <1>1, <1>2, <1>3 DEF Holds

LEMMA BroadcastHolds ==
  ASSUME TypeOK, NEW e \in Event, Broadcast(e), NEW s \in Stream, NEW x,
         Holds(chan'[s].queue, x)
  PROVE  Holds(chan[s].queue, x) \/ e.result = x
<1>1. chan[s] \in Channel /\ chan[s].queue \in Seq(Event)
  BY DEF TypeOK, Channel
<1>2. CASE s \in subs /\ Len(chan[s].queue) >= Buffer
  <2>1. chan'[s] = [chan[s] EXCEPT !.open = FALSE]
    BY <1>2 DEF Broadcast
  <2>2. chan'[s].queue = chan[s].queue
    BY <1>1, <2>1 DEF Channel
  <2> QED
    BY <2>2
<1>3. CASE s \in subs /\ ~(Len(chan[s].queue) >= Buffer)
  <2>1. chan'[s] = [chan[s] EXCEPT !.queue = Append(@, e)]
    BY <1>3 DEF Broadcast
  <2>2. chan'[s].queue = Append(chan[s].queue, e)
    BY <1>1, <2>1 DEF Channel
  <2>3. Holds(Append(chan[s].queue, e), x) => Holds(chan[s].queue, x) \/ e.result = x
    BY <1>1, HoldsAfter
  <2> QED
    BY <2>2, <2>3
<1>4. CASE s \notin subs
  BY <1>4 DEF Broadcast
<1> QED
  BY <1>2, <1>3, <1>4

\* A step that tells nothing new and leaves the decision as it is keeps the
\* invariant.
LEMMA AgreeKept ==
  ASSUME AgreeInv,
         \A x \in Terminal : Told(x)' => \/ Told(x)
                                         \/ Decided /\ x = outcome,
         \/ Undecided
         \/ Decided /\ \/ ~Undecided' /\ ~Decided'
                       \/ Decided' /\ outcome' = outcome
         \/ ~Undecided /\ ~Decided /\ ~Undecided' /\ ~Decided'
  PROVE  AgreeInv'
<1>1. CASE Undecided
  <2>1. \A x \in Terminal : ~Told(x)'
    BY <1>1 DEF AgreeInv, Undecided, Decided
  <2> QED
    BY <2>1 DEF AgreeInv
<1>2. CASE Decided
  <2>1. \A x \in Terminal : Told(x)' => x = outcome
    BY <1>2 DEF AgreeInv
  <2>2. ~Undecided' /\ (Decided' => outcome' = outcome)
    BY <1>2 DEF Undecided, Decided
  <2> QED
    BY <2>1, <2>2 DEF AgreeInv
<1>3. CASE ~Undecided /\ ~Decided
  <2>1. \A x \in Terminal : Told(x)' => Told(x)
    BY <1>3
  <2>2. ~Undecided' /\ ~Decided'
    BY <1>3
  <2> QED
    BY <2>1, <2>2 DEF AgreeInv
<1> QED
  BY <1>1, <1>2, <1>3

LEMMA AgreeRunStep ==
  TypeOK /\ AgreeInv /\ (Create \/ RunStep) => AgreeInv'
<1> SUFFICES ASSUME TypeOK, AgreeInv, Create \/ RunStep PROVE AgreeInv'
  OBVIOUS
<1>0. row \in Row /\ row.state \in State
  BY DEF TypeOK, Row
<1>1. CASE Create
  <2>1. \A x \in Terminal : Told(x)' => Told(x)
    BY <1>1 DEF Create, Told, clientVars, Terminal
  <2>2. Undecided /\ run' \in RunPC
    BY <1>1 DEF Create, Undecided, RunPC
  <2> QED
    BY <2>1, <2>2, AgreeKept
<1>2. CASE Register \/ Prepare \/ Wait \/ Drain
  <2>1. \A x \in Terminal : Told(x)' => Told(x)
    BY <1>2 DEF Register, Prepare, Wait, Drain, Told, clientVars
  <2>2. Undecided /\ run' \in RunPC
    BY <1>2 DEF Register, Prepare, Wait, Drain, Undecided, RunPC
  <2> QED
    BY <2>1, <2>2, AgreeKept
<1>3. CASE Complete
  <2>1. row' = row \/ row' = [row EXCEPT !.state = outcome]
    BY <1>3 DEF Complete
  <2>2. row'.state = row.state \/ row'.state = outcome
    BY <1>0, <2>1 DEF Row
  <2>3. Decided
    BY <1>3 DEF Complete, Decided
  <2>4. \A x \in Terminal : Told(x)' => Told(x) \/ (Decided /\ x = outcome)
    BY <1>3, <2>2, <2>3 DEF Complete, Told, clientVars
  <2>5. Decided' /\ outcome' = outcome
    BY <1>3 DEF Complete, Decided
  <2> QED
    BY <2>3, <2>4, <2>5, AgreeKept
<1>4. CASE SetFinal
  <2>1. Decided
    BY <1>4 DEF SetFinal, Decided
  <2>2. \A x \in Terminal : Told(x)' => Told(x) \/ (Decided /\ x = outcome)
    BY <1>4, <2>1 DEF SetFinal, Told, clientVars
  <2>3. Decided' /\ outcome' = outcome
    BY <1>4 DEF SetFinal, Decided
  <2> QED
    BY <2>1, <2>2, <2>3, AgreeKept
<1>5. CASE BroadcastResult
  <2>1. Decided
    BY <1>5 DEF BroadcastResult, Decided
  <2>2. Result(outcome) \in Event /\ Result(outcome).result = outcome
    BY ExecAssumption DEF TypeOK, Result, Event
  <2>4. \A x \in Terminal : Told(x)' => Told(x) \/ (Decided /\ x = outcome)
    <3>1. \A s \in Stream, x \in Terminal :
            Holds(chan'[s].queue, x) => Holds(chan[s].queue, x) \/ x = outcome
      BY <1>5, <2>2, BroadcastHolds DEF BroadcastResult
    <3>2. row' = row /\ final' = final /\ stream' = stream
      BY <1>5 DEF BroadcastResult, clientVars
    <3> QED
      BY <2>1, <3>1, <3>2 DEF Told
  <2>5. Decided' /\ outcome' = outcome
    BY <1>5 DEF BroadcastResult, Decided
  <2> QED
    BY <2>1, <2>4, <2>5, AgreeKept
<1>6. CASE CloseSubscribers
  <2>1. Decided
    BY <1>6 DEF CloseSubscribers, Decided
  <2>2. \A x \in Terminal : Told(x)' => Told(x)
    <3>1. \A s \in Stream : chan'[s].queue = chan[s].queue
      BY <1>6 DEF CloseSubscribers, TypeOK, Channel
    <3>2. row' = row /\ final' = final /\ stream' = stream
      BY <1>6 DEF CloseSubscribers, clientVars
    <3> QED
      BY <3>1, <3>2 DEF Told
  <2>3. Decided' /\ outcome' = outcome
    BY <1>6 DEF CloseSubscribers, Decided
  <2> QED
    BY <2>1, <2>2, <2>3, AgreeKept
<1>7. CASE Unregister
  <2>1. Decided /\ ~Decided' /\ ~Undecided'
    BY <1>7 DEF Unregister, Decided, Undecided
  <2>2. \A x \in Terminal : Told(x)' => Told(x)
    BY <1>7 DEF Unregister, Told, clientVars
  <2> QED
    BY <2>1, <2>2, AgreeKept
<1> QED
  BY <1>1, <1>2, <1>3, <1>4, <1>5, <1>6, <1>7 DEF RunStep

\* The steps of the rest leave runExec where it is.
LEMMA AgreeIdle ==
  ASSUME TypeOK, AgreeInv, run' = run, outcome' = outcome,
         \A x \in Terminal : Told(x)' => Told(x)
  PROVE  AgreeInv'
BY AgreeKept DEF TypeOK, Undecided, Decided

LEMMA LeaveTold ==
  ASSUME TypeOK, NEW s \in Stream, NEW result \in State, Leave(s, result),
         row' = row, final' = final,
         result \in Terminal => Told(result)
  PROVE  \A x \in Terminal : Told(x)' => Told(x)
<1> TAKE x \in Terminal
<1>1. [IdleStream EXCEPT !.result = result].record = "none"
      /\ [IdleStream EXCEPT !.result = result].result = result
  BY DEF IdleStream
<1>2. \A t \in Stream :
        stream'[t] = IF t = s THEN [IdleStream EXCEPT !.result = result] ELSE stream[t]
  BY DEF Leave, TypeOK
<1>3. \A t \in Stream :
        chan'[t] = IF t = s THEN [queue |-> << >>, open |-> FALSE] ELSE chan[t]
  BY DEF Leave, TypeOK
<1>4. ~Holds(<< >>, x)
  BY DEF Holds
<1>5. x # "none"
  BY DEF Terminal
<1> DEFINE r == [IdleStream EXCEPT !.result = result]
<1>6. \A t \in Stream : stream'[t].record = x \/ stream'[t].result = x =>
        stream[t].record = x \/ stream[t].result = x \/ result = x
  <2> HIDE DEF r
  <2> QED
    BY <1>1, <1>2, <1>5 DEF r
<1>7. \A t \in Stream : Holds(chan'[t].queue, x) => Holds(chan[t].queue, x)
  BY <1>3, <1>4
<1> QED
  BY <1>6, <1>7 DEF Told

LEMMA AgreeStreamStep ==
  ASSUME TypeOK, AgreeInv, NEW s \in Stream,
         StreamLoad(s) \/ StreamStep(s) \/ StreamGone(s)
  PROVE  AgreeInv'
<1>0. /\ stream[s] \in Request /\ chan[s] \in Channel /\ chan[s].queue \in Seq(Event)
      /\ row' = row /\ final' = final /\ run' = run /\ outcome' = outcome
  <2>1. stream[s] \in Request /\ chan[s] \in Channel /\ chan[s].queue \in Seq(Event)
    BY DEF TypeOK, Channel
  <2>2. row' = row /\ final' = final /\ run' = run /\ outcome' = outcome
    BY DEF StreamLoad, StreamStep, StreamLookup, StreamSubscribe, StreamReceive,
           StreamClosed, StreamGone, jobVars
  <2> QED
    BY <2>1, <2>2
<1>1. CASE StreamLoad(s)
  <2> DEFINE r == [IdleStream EXCEPT !.pc = "lookup", !.record = row.state]
  <2>1. r.record = row.state /\ r.result = "none"
    BY DEF IdleStream
  <2>2. \A t \in Stream : stream'[t] = IF t = s THEN r ELSE stream[t]
    BY <1>1 DEF StreamLoad, TypeOK
  <2>3. chan' = chan
    BY <1>1 DEF StreamLoad
  <2> HIDE DEF r
  <2>4. \A x \in Terminal : Told(x)' => Told(x)
    BY <1>0, <2>1, <2>2, <2>3 DEF Told, Terminal
  <2> QED
    BY <1>0, <2>4, AgreeIdle
<1>2. CASE StreamLookup(s)
  <2>1. CASE registered /\ stream[s].record = "RUNNING"
    <3> DEFINE r == [stream[s] EXCEPT !.pc = "subscribe"]
    <3>1. r.record = stream[s].record /\ r.result = stream[s].result
      BY <1>0 DEF Request
    <3>2. \A t \in Stream : stream'[t] = IF t = s THEN r ELSE stream[t]
      BY <1>2, <2>1 DEF StreamLookup, TypeOK
    <3>3. chan' = chan
      BY <1>2 DEF StreamLookup
    <3> HIDE DEF r
    <3>4. \A x \in Terminal : Told(x)' => Told(x)
      BY <1>0, <3>1, <3>2, <3>3 DEF Told
    <3> QED
      BY <1>0, <3>4, AgreeIdle
  <2>2. CASE ~(registered /\ stream[s].record = "RUNNING")
    <3> DEFINE r == [IdleStream EXCEPT !.result = stream[s].record]
    <3>1. r.record = "none" /\ r.result = stream[s].record
      BY DEF IdleStream
    <3>2. \A t \in Stream : stream'[t] = IF t = s THEN r ELSE stream[t]
      BY <1>2, <2>2 DEF StreamLookup, TypeOK
    <3>3. chan' = chan
      BY <1>2 DEF StreamLookup
    <3> HIDE DEF r
    <3>4. \A x \in Terminal : Told(x)' => Told(x)
      BY <1>0, <3>1, <3>2, <3>3 DEF Told, Terminal
    <3> QED
      BY <1>0, <3>4, AgreeIdle
  <2> QED
    BY <2>1, <2>2
<1>3. CASE StreamSubscribe(s)
  <2> DEFINE r == [stream[s] EXCEPT !.pc = "receive", !.last = read]
             q == IF final = "none" THEN << >> ELSE <<Result(final)>>
  <2>1. r.record = stream[s].record /\ r.result = stream[s].result
    BY <1>0 DEF Request
  <2>2. \A t \in Stream : stream'[t] = IF t = s THEN r ELSE stream[t]
    BY <1>3 DEF StreamSubscribe, TypeOK
  <2>3. \A t \in Stream : chan'[t].queue = IF t = s THEN q ELSE chan[t].queue
    BY <1>3 DEF StreamSubscribe, TypeOK
  <2>4. \A x \in Terminal : Holds(q, x) => final = x
    <3>1. \A x : ~Holds(<< >>, x)
      BY DEF Holds
    <3>2. \A x : Holds(<<Result(final)>>, x) => final = x
      BY DEF Holds, Result
    <3> QED
      BY <3>1, <3>2
  <2> HIDE DEF r, q
  <2>5. \A x \in Terminal : Told(x)' => Told(x)
    BY <1>0, <2>1, <2>2, <2>3, <2>4 DEF Told
  <2> QED
    BY <1>0, <2>5, AgreeIdle
<1>4. CASE StreamReceive(s)
  <2> DEFINE e == Head(chan[s].queue)
  <2>0. chan[s].queue # << >>
    BY <1>4 DEF StreamReceive
  <2>1. e \in Event
    BY <1>0, <2>0
  <2>2. Holds(chan[s].queue, e.result)
    BY <1>0, <2>0, <2>1, HoldsAfter
  <2>3. CASE e.result # "none"
    <3>1. Leave(s, e.result) /\ e.result \in State
      BY <1>4, <2>1, <2>3 DEF StreamReceive, Event, State
    <3>2. e.result \in Terminal => Told(e.result)
      BY <2>2 DEF Told
    <3>3. \A x \in Terminal : Told(x)' => Told(x)
      BY <1>0, <3>1, <3>2, LeaveTold
    <3> QED
      BY <1>0, <3>3, AgreeIdle
  <2>4. CASE e.result = "none"
    <3> DEFINE r == [stream[s] EXCEPT !.last = e.out]
               ch == [chan[s] EXCEPT !.queue = Tail(@)]
    <3>1. r.record = stream[s].record /\ r.result = stream[s].result
          /\ ch.queue = Tail(chan[s].queue)
      BY <1>0 DEF Request, Channel
    <3>2. \A t \in Stream : stream'[t] = IF t = s THEN r ELSE stream[t]
      BY <1>4, <2>4 DEF StreamReceive, TypeOK
    <3>3. \A t \in Stream : chan'[t] = IF t = s THEN ch ELSE chan[t]
      BY <1>4, <2>4 DEF StreamReceive, TypeOK
    <3>4. \A x : Holds(Tail(chan[s].queue), x) => Holds(chan[s].queue, x)
      BY <1>0, <2>0, <2>1, HoldsAfter
    <3> HIDE DEF r, ch
    <3>5. \A x \in Terminal : Told(x)' => Told(x)
      BY <1>0, <3>1, <3>2, <3>3, <3>4 DEF Told
    <3> QED
      BY <1>0, <3>5, AgreeIdle
  <2> QED
    BY <2>3, <2>4
<1>5. CASE StreamClosed(s) \/ StreamGone(s)
  <2>1. Leave(s, "none") /\ "none" \in State /\ "none" \notin Terminal
    BY <1>5, Members DEF StreamClosed, StreamGone, Terminal
  <2>2. \A x \in Terminal : Told(x)' => Told(x)
    BY <1>0, <2>1, LeaveTold
  <2> QED
    BY <1>0, <2>2, AgreeIdle
<1> QED
  BY <1>1, <1>2, <1>3, <1>4, <1>5 DEF StreamStep

LEMMA AgreeStep == TypeOK /\ AgreeInv /\ [Next]_vars => AgreeInv'
<1> SUFFICES ASSUME TypeOK, AgreeInv, [Next]_vars PROVE AgreeInv'
  OBVIOUS
<1>1. CASE Write \/ Exit \/ Kill \/ ReadEnd
  <2>1. /\ run' = run /\ outcome' = outcome
        /\ row' = row /\ final' = final /\ stream' = stream /\ chan' = chan
    BY <1>1 DEF Write, Exit, Kill, ReadEnd, jobVars, clientVars
  <2>2. \A x \in Terminal : Told(x)' => Told(x)
    BY <2>1 DEF Told
  <2> QED
    BY <2>1, <2>2, AgreeIdle
<1>2. CASE Read
  <2>1. /\ run' = run /\ outcome' = outcome
        /\ row' = row /\ final' = final /\ stream' = stream
    BY <1>2 DEF Read, jobVars, clientVars
  <2>2. read + 1 \in 0 .. MaxOut /\ Broadcast(Out(read + 1))
    BY <1>2, ExecAssumption DEF Read, TypeOK
  <2>3. Out(read + 1) \in Event /\ Out(read + 1).result = "none"
    BY <2>2, EventType DEF Out
  <2>4. \A s \in Stream, x \in Terminal :
          Holds(chan'[s].queue, x) => Holds(chan[s].queue, x) \/ x = "none"
    BY <2>2, <2>3, BroadcastHolds
  <2>5. "none" \notin Terminal
    BY DEF Terminal
  <2>6. \A x \in Terminal : Told(x)' => Told(x)
    BY <2>1, <2>4, <2>5 DEF Told
  <2> QED
    BY <2>1, <2>6, AgreeIdle
<1>3. CASE (\E c \in Cancel : CancelLoad(c) \/ CancelStep(c)) \/ Deadline
  <2>1. /\ run' = run /\ outcome' = outcome
        /\ final' = final /\ stream' = stream /\ chan' = chan
    BY <1>3 DEF CancelLoad, CancelStep, CancelMark, CancelLookup, CancelFlag, CancelFire,
                Deadline, jobVars, clientVars
  <2>2. row' = row \/ row' = [row EXCEPT !.asked = row.state # "none"]
    BY <1>3 DEF CancelLoad, CancelStep, CancelMark, CancelLookup, CancelFlag, CancelFire,
                Deadline
  <2>3. row'.state = row.state
    BY <2>2 DEF TypeOK, Row
  <2>4. \A x \in Terminal : Told(x)' => Told(x)
    BY <2>1, <2>3 DEF Told
  <2> QED
    BY <2>1, <2>4, AgreeIdle
<1>4. CASE MachineDeleted
  <2>1. /\ run' = run /\ outcome' = outcome
        /\ final' = final /\ stream' = stream /\ chan' = chan
    BY <1>4 DEF MachineDeleted, jobVars, clientVars
  <2>2. row'.state = "none"
    BY <1>4 DEF MachineDeleted
  <2>3. \A x \in Terminal : Told(x)' => Told(x)
    BY <2>1, <2>2 DEF Told, Terminal
  <2> QED
    BY <2>1, <2>3, AgreeIdle
<1>5. CASE Crash
  <2>1. \A x : ~Holds(<< >>, x)
    BY DEF Holds
  <2>2. \A x \in Terminal : Told(x)' => Told(x)
    <3>1. row' = row /\ final' = "none"
      BY <1>5 DEF Crash
    <3>2. \A s \in Stream : /\ stream'[s] = IdleStream
                            /\ chan'[s] = [queue |-> << >>, open |-> FALSE]
      BY <1>5 DEF Crash
    <3>3. IdleStream.record = "none" /\ IdleStream.result = "none"
      BY DEF IdleStream
    <3> QED
      BY <2>1, <3>1, <3>2, <3>3 DEF Told, Terminal
  <2>3. ~Undecided' /\ ~Decided' /\ run' \in RunPC
    BY <1>5 DEF Crash, Undecided, Decided, RunPC
  <2> QED
    BY <2>2, <2>3, AgreeKept
<1>6. CASE UNCHANGED vars
  <2>1. /\ run' = run /\ outcome' = outcome
        /\ row' = row /\ final' = final /\ stream' = stream /\ chan' = chan
    BY <1>6 DEF vars
  <2>2. \A x \in Terminal : Told(x)' => Told(x)
    BY <2>1 DEF Told
  <2> QED
    BY <2>1, <2>2, AgreeIdle
<1> QED
  BY <1>1, <1>2, <1>3, <1>4, <1>5, <1>6, AgreeRunStep, AgreeStreamStep DEF Next

\* Two streams, and a stream and the row, never tell different ends of one
\* command, whatever fails or is cancelled in between.
THEOREM OutcomeIsOne == Spec => []OneOutcome
<1>1. Init => AgreeInv
  <2> SUFFICES ASSUME Init PROVE AgreeInv
    OBVIOUS
  <2>1. \A x : ~Holds(<< >>, x)
    BY DEF Holds
  <2>2. \A x \in Terminal : ~Told(x)
    BY <2>1 DEF Init, Told, IdleStream, Terminal
  <2> QED
    BY <2>2 DEF AgreeInv
<1>2. AgreeInv => OneOutcome
  BY DEF AgreeInv, OneOutcome, Told
<1> QED
  BY <1>1, <1>2, InitType, TypeStep, AgreeStep, PTL DEF Spec

-----------------------------------------------------------------------------
(* The output a stream receives *)

\* The queue q goes on from the chunk last: chunks by their numbers, a result
\* only after the chunk n.
Follows(q, last, n) ==
  \A i \in 1 .. Len(q) : IF q[i].result = "none" THEN q[i].out = last + i
                                                 ELSE n = last + i - 1

NoResult(q) == \A i \in 1 .. Len(q) : q[i].result = "none"

Ongoing == run \notin {"close", "unregister", "done"}

\* What NoGaps says of one stream.
Gapless(s) ==
  stream[s].pc = "receive" =>
    /\ Follows(chan[s].queue, stream[s].last, read)
    /\ s \in subs /\ Ongoing => read = stream[s].last + Len(chan[s].queue)

\* The reader works only while the command runs; the result is in no queue
\* before runExec has put it there; who is subscribed receives.
GapInv ==
  /\ reader = "reading" => run \in {"wait", "drain"}
  /\ run \in {"none", "register", "prepare", "wait", "drain", "complete", "final"} =>
       final = "none" /\ \A s \in Stream : NoResult(chan[s].queue)
  /\ run = "result" => outcome # "none"
  /\ \A s \in Stream : s \in subs => stream[s].pc = "receive"
  /\ \A s \in Stream : Gapless(s)

LEMMA GapNoGaps == GapInv => NoGaps
BY DEF GapInv, NoGaps, Gapless, Follows, Ongoing

LEMMA FollowsAppend ==
  ASSUME NEW q \in Seq(Event), NEW e \in Event, NEW last \in Nat, NEW n \in Nat,
         NEW m \in Nat, Follows(q, last, n),
         NoResult(q) \/ m = n,
         IF e.result = "none" THEN e.out = last + Len(q) + 1 ELSE m = last + Len(q)
  PROVE  Follows(Append(q, e), last, m)
<1> SUFFICES ASSUME NEW i \in 1 .. Len(Append(q, e))
             PROVE  IF Append(q, e)[i].result = "none"
                    THEN Append(q, e)[i].out = last + i
                    ELSE m = last + i - 1
  BY DEF Follows
<1>1. CASE i \in 1 .. Len(q)
  <2>1. Append(q, e)[i] = q[i]
    BY <1>1
  <2> QED
    BY <1>1, <2>1 DEF Follows, NoResult
<1>2. CASE i = Len(q) + 1
  <2>1. Append(q, e)[i] = e
    BY <1>2
  <2> QED
    BY <1>2, <2>1
<1> QED
  BY <1>1, <1>2

LEMMA FollowsTail ==
  ASSUME NEW q \in Seq(Event), q # << >>, NEW last \in Nat, NEW n \in Nat,
         Follows(q, last, n)
  PROVE  /\ Head(q).result = "none" => /\ Head(q).out = last + 1
                                       /\ Follows(Tail(q), last + 1, n)
         /\ NoResult(q) => NoResult(Tail(q))
         /\ Len(Tail(q)) = Len(q) - 1
<1>1. Len(Tail(q)) = Len(q) - 1 /\ Head(q) = q[1] /\ 1 \in 1 .. Len(q)
  OBVIOUS
<1>2. \A i \in 1 .. Len(Tail(q)) : Tail(q)[i] = q[i + 1] /\ i + 1 \in 1 .. Len(q)
  OBVIOUS
<1>3. NoResult(q) => NoResult(Tail(q))
  BY <1>2 DEF NoResult
<1>4. Follows(Tail(q), last + 1, n)
  <2> SUFFICES ASSUME NEW i \in 1 .. Len(Tail(q))
               PROVE  IF Tail(q)[i].result = "none" THEN Tail(q)[i].out = last + 1 + i
                                                   ELSE n = last + 1 + i - 1
    BY DEF Follows
  <2>1. IF q[i + 1].result = "none" THEN q[i + 1].out = last + (i + 1)
                                    ELSE n = last + (i + 1) - 1
    BY <1>2 DEF Follows
  <2>2. i \in Nat
    OBVIOUS
  <2> QED
    BY <1>2, <2>1, <2>2
<1>5. Head(q).result = "none" => Head(q).out = last + 1
  BY <1>1 DEF Follows
<1> QED
  BY <1>1, <1>3, <1>4, <1>5

\* A channel after Broadcast: as it was, closed because it is full, or with the
\* event at its end.
LEMMA BroadcastCases ==
  ASSUME TypeOK, NEW e \in Event, Broadcast(e), NEW s \in Stream
  PROVE  \/ s \notin subs' /\ chan'[s].queue = chan[s].queue
         \/ s \in subs /\ chan'[s].queue = Append(chan[s].queue, e)
<1>1. chan[s] \in Channel
  BY DEF TypeOK
<1>2. CASE s \in subs /\ Len(chan[s].queue) >= Buffer
  <2>1. chan'[s] = [chan[s] EXCEPT !.open = FALSE] /\ s \notin subs'
    BY <1>2 DEF Broadcast
  <2> QED
    BY <1>1, <2>1 DEF Channel
<1>3. CASE s \in subs /\ ~(Len(chan[s].queue) >= Buffer)
  <2>1. chan'[s] = [chan[s] EXCEPT !.queue = Append(@, e)]
    BY <1>3 DEF Broadcast
  <2> QED
    BY <1>1, <1>3, <2>1 DEF Channel
<1>4. CASE s \notin subs
  BY <1>4 DEF Broadcast
<1> QED
  BY <1>2, <1>3, <1>4

LEMMA Numbers ==
  ASSUME TypeOK
  PROVE  /\ read \in Nat
         /\ \A s \in Stream : /\ stream[s].last \in Nat
                              /\ chan[s] \in Channel
                              /\ chan[s].queue \in Seq(Event)
                              /\ Len(chan[s].queue) \in Nat
<1>1. read \in Nat
  BY ExecAssumption DEF TypeOK
<1>2. \A s \in Stream : stream[s].last \in Nat
  BY ExecAssumption DEF TypeOK, Request
<1>3. \A s \in Stream : chan[s] \in Channel /\ chan[s].queue \in Seq(Event)
  BY DEF TypeOK, Channel
<1> QED
  BY <1>1, <1>2, <1>3

LEMMA GapRead == TypeOK /\ GapInv /\ Read => GapInv'
<1> SUFFICES ASSUME TypeOK, GapInv, Read PROVE GapInv'
  OBVIOUS
<1>0. /\ run' = run /\ final' = final /\ outcome' = outcome /\ reader' = reader
      /\ stream' = stream /\ read' = read + 1
  BY DEF Read, jobVars, clientVars
<1>1. run \in {"wait", "drain"}
  BY DEF Read, GapInv
<1>2. Out(read + 1) \in Event /\ Broadcast(Out(read + 1))
  <2>1. read + 1 \in 0 .. MaxOut
    BY ExecAssumption DEF Read, TypeOK
  <2> QED
    BY <2>1, EventType DEF Read
<1>3. subs' \subseteq subs
  BY <1>2 DEF Broadcast
<1>4. ASSUME NEW s \in Stream
      PROVE  NoResult(chan'[s].queue) /\ Gapless(s)'
  <2> DEFINE q == chan[s].queue
             e == Out(read + 1)
  <2>0. q \in Seq(Event) /\ stream[s].last \in Nat /\ read \in Nat /\ Len(q) \in Nat
    BY Numbers
  <2>1. NoResult(q)
    BY <1>1 DEF GapInv
  <2>2. e.result = "none" /\ e.out = read + 1
    BY DEF Out
  <2>3. CASE s \notin subs' /\ chan'[s].queue = q
    <3>1. stream[s].pc = "receive" => Follows(q, stream[s].last, read + 1)
      BY <2>1 DEF GapInv, Gapless, Follows, NoResult
    <3> QED
      BY <1>0, <2>1, <2>3, <3>1 DEF Gapless
  <2>4. CASE s \in subs /\ chan'[s].queue = Append(q, e)
    <3> HIDE DEF q, e
    <3>1. stream[s].pc = "receive" /\ Ongoing
      BY <1>1, <2>4 DEF GapInv, Ongoing
    <3>2. Follows(q, stream[s].last, read) /\ read = stream[s].last + Len(q)
      BY <2>4, <3>1 DEF GapInv, Gapless, q
    <3>3. e \in Event
      BY <1>2 DEF e
    <3>4. Follows(Append(q, e), stream[s].last, read + 1)
      <4>1. e.out = stream[s].last + Len(q) + 1 /\ read + 1 \in Nat
        BY <2>0, <2>2, <3>2
      <4> QED
        BY <2>0, <2>1, <2>2, <3>2, <3>3, <4>1, FollowsAppend
    <3>5. Len(Append(q, e)) = Len(q) + 1
      BY <2>0, <3>3
    <3>6. read + 1 = stream[s].last + Len(Append(q, e))
      BY <2>0, <3>2, <3>5
    <3>7. NoResult(Append(q, e))
      BY <2>0, <2>1, <2>2, <3>3 DEF NoResult
    <3> QED
      BY <1>0, <2>4, <3>4, <3>6, <3>7 DEF Gapless
  <2> QED
    BY <1>2, <2>3, <2>4, BroadcastCases
<1> QED
  BY <1>0, <1>1, <1>3, <1>4 DEF GapInv

LEMMA GapResult == TypeOK /\ GapInv /\ BroadcastResult => GapInv'
<1> SUFFICES ASSUME TypeOK, GapInv, BroadcastResult PROVE GapInv'
  OBVIOUS
<1>0. /\ run = "result" /\ run' = "close" /\ reader' = reader
      /\ stream' = stream /\ read' = read
  BY DEF BroadcastResult, cmdVars, clientVars
<1>1. outcome # "none" /\ outcome \in Terminal
  BY <1>0 DEF GapInv, TypeOK
<1>2. Result(outcome) \in Event /\ Broadcast(Result(outcome))
  BY <1>1, EventType DEF BroadcastResult
<1>3. subs' \subseteq subs
  BY <1>2 DEF Broadcast
<1>4. ASSUME NEW s \in Stream PROVE Gapless(s)'
  <2> DEFINE q == chan[s].queue
             e == Result(outcome)
  <2>0. q \in Seq(Event) /\ stream[s].last \in Nat /\ read \in Nat /\ Len(q) \in Nat
    BY Numbers
  <2>1. ~Ongoing'
    BY <1>0 DEF Ongoing
  <2>2. CASE s \notin subs' /\ chan'[s].queue = q
    BY <1>0, <2>1, <2>2 DEF GapInv, Gapless
  <2>3. CASE s \in subs /\ chan'[s].queue = Append(q, e)
    <3> HIDE DEF q, e
    <3>1. stream[s].pc = "receive" /\ Ongoing
      BY <1>0, <2>3 DEF GapInv, Ongoing
    <3>2. Follows(q, stream[s].last, read) /\ read = stream[s].last + Len(q)
      BY <2>3, <3>1 DEF GapInv, Gapless, q
    <3>3. e \in Event /\ e.result # "none"
      BY <1>1, <1>2 DEF e, Result
    <3>4. Follows(Append(q, e), stream[s].last, read)
      BY <2>0, <3>2, <3>3, FollowsAppend
    <3> QED
      BY <1>0, <2>1, <2>3, <3>4 DEF Gapless
  <2> QED
    BY <1>2, <2>2, <2>3, BroadcastCases
<1>5. reader # "reading"
  BY <1>0 DEF GapInv
<1> QED
  BY <1>0, <1>3, <1>4, <1>5 DEF GapInv

\* A step that leaves the queues, the streams and what was read alone.
LEMMA GapKept ==
  ASSUME TypeOK, GapInv,
         stream' = stream, read' = read, subs' \subseteq subs,
         \A s \in Stream : chan'[s].queue = chan[s].queue,
         reader' = "reading" => run' \in {"wait", "drain"},
         run' \in {"none", "register", "prepare", "wait", "drain", "complete", "final"} =>
           /\ run \in {"none", "register", "prepare", "wait", "drain", "complete", "final"}
           /\ final' = final,
         run' = "result" => outcome' # "none",
         Ongoing' => Ongoing
  PROVE  GapInv'
<1>1. \A s \in Stream : Gapless(s)'
  BY DEF GapInv, Gapless
<1>2. \A s \in Stream : s \in subs' => stream'[s].pc = "receive"
  BY DEF GapInv
<1> QED
  BY <1>1, <1>2 DEF GapInv

LEMMA GapRunStep ==
  TypeOK /\ ReleaseInv /\ GapInv /\ (Create \/ RunStep) => GapInv'
<1> SUFFICES ASSUME TypeOK, ReleaseInv, GapInv, Create \/ RunStep PROVE GapInv'
  OBVIOUS
<1> DEFINE Before == {"none", "register", "prepare", "wait", "drain", "complete", "final"}
           Q == \A s \in Stream : chan'[s].queue = chan[s].queue
           R == reader' = "reading" => run' \in {"wait", "drain"}
           F == run' \in Before => run \in Before /\ final' = final
           O == run' = "result" => outcome' # "none"
           G == Ongoing' => Ongoing
<1>1. CASE Create \/ Register \/ Prepare \/ Wait \/ Drain
  <2>1. stream' = stream /\ read' = read /\ subs' \subseteq subs /\ Q
    BY <1>1 DEF Create, Register, Prepare, Wait, Drain, cmdVars, clientVars
  <2>2. R
    BY <1>1 DEF Create, Register, Prepare, Wait, Drain, cmdVars, GapInv
  <2>3. F /\ O /\ G
    BY <1>1 DEF Create, Register, Prepare, Wait, Drain, Ongoing
  <2> QED
    BY <2>1, <2>2, <2>3, GapKept
<1>2. CASE Complete \/ SetFinal
  <2>1. stream' = stream /\ read' = read /\ subs' \subseteq subs /\ Q
    BY <1>2 DEF Complete, SetFinal, cmdVars, clientVars
  <2>2. R
    BY <1>2 DEF Complete, SetFinal, cmdVars, GapInv
  <2>3. F /\ O /\ G
    BY <1>2 DEF Complete, SetFinal, Ongoing, ReleaseInv
  <2> QED
    BY <2>1, <2>2, <2>3, GapKept
<1>3. CASE CloseSubscribers \/ Unregister
  <2>1. Q
    <3>1. CASE CloseSubscribers
      BY <3>1, Numbers DEF CloseSubscribers, Channel
    <3>2. CASE Unregister
      BY <3>2 DEF Unregister
    <3> QED
      BY <1>3, <3>1, <3>2
  <2>2. stream' = stream /\ read' = read /\ subs' \subseteq subs
    BY <1>3 DEF CloseSubscribers, Unregister, cmdVars, clientVars
  <2>3. R
    BY <1>3 DEF CloseSubscribers, Unregister, cmdVars, GapInv
  <2>4. F /\ O /\ G
    BY <1>3 DEF CloseSubscribers, Unregister, Ongoing
  <2> QED
    BY <2>1, <2>2, <2>3, <2>4, GapKept
<1> QED
  BY <1>1, <1>2, <1>3, GapResult DEF RunStep

\* A step of one stream keeps the invariant if it is kept for that stream.
LEMMA GapOne ==
  ASSUME TypeOK, GapInv, NEW s \in Stream,
         UNCHANGED <<jobVars, read, reader>>,
         \A t \in Stream \ {s} :
           stream'[t] = stream[t] /\ chan'[t] = chan[t] /\ (t \in subs' => t \in subs),
         s \in subs' => stream'[s].pc = "receive",
         NoResult(chan[s].queue) /\ final = "none" => NoResult(chan'[s].queue),
         Gapless(s)'
  PROVE  GapInv'
<1>1. \A t \in Stream : Gapless(t)'
  <2> TAKE t \in Stream
  <2>1. CASE t = s
    BY <2>1
  <2>2. CASE t # s
    BY <2>2 DEF GapInv, Gapless, Ongoing, jobVars
  <2> QED
    BY <2>1, <2>2
<1>2. \A t \in Stream : NoResult(chan[t].queue) /\ final = "none" => NoResult(chan'[t].queue)
  OBVIOUS
<1>3. \A t \in Stream : t \in subs' => stream'[t].pc = "receive"
  BY DEF GapInv
<1> QED
  BY <1>1, <1>2, <1>3 DEF GapInv, jobVars

LEMMA GapStreamStep ==
  ASSUME TypeOK, ReleaseInv, GapInv, NEW s \in Stream,
         StreamLoad(s) \/ StreamStep(s) \/ StreamGone(s)
  PROVE  GapInv'
<1>0. UNCHANGED <<jobVars, read, reader>>
  BY DEF StreamLoad, StreamStep, StreamLookup, StreamSubscribe, StreamReceive,
         StreamClosed, StreamGone, cmdVars
<1>6. /\ stream \in [Stream -> Request] /\ chan \in [Stream -> Channel]
      /\ stream[s] \in Request /\ chan[s] \in Channel
      /\ chan[s].queue \in Seq(Event) /\ stream[s].last \in Nat /\ read \in Nat
  BY Numbers DEF TypeOK
<1>1. CASE StreamLoad(s) \/ StreamLookup(s)
  <2>1. /\ subs' = subs /\ chan' = chan
        /\ \A t \in Stream \ {s} : stream'[t] = stream[t]
    BY <1>1, <1>6 DEF StreamLoad, StreamLookup
  <2>2. s \notin subs
    BY <1>1 DEF StreamLoad, StreamLookup, GapInv
  <2>3. stream'[s].pc # "receive"
    <3>1. CASE StreamLoad(s)
      BY <1>6, <3>1 DEF StreamLoad, IdleStream
    <3>2. CASE StreamLookup(s)
      <4>1. [stream[s] EXCEPT !.pc = "subscribe"].pc = "subscribe"
        BY <1>6 DEF Request
      <4>2. [IdleStream EXCEPT !.result = stream[s].record].pc = "idle"
        BY DEF IdleStream
      <4> QED
        BY <1>6, <3>2, <4>1, <4>2 DEF StreamLookup
    <3> QED
      BY <1>1, <3>1, <3>2
  <2>4. Gapless(s)'
    BY <2>3 DEF Gapless
  <2> QED
    BY <1>0, <2>1, <2>2, <2>4, GapOne
<1>2. CASE StreamSubscribe(s)
  <2> DEFINE r == [stream[s] EXCEPT !.pc = "receive", !.last = read]
             ch == IF final = "none" THEN [queue |-> << >>, open |-> TRUE]
                   ELSE [queue |-> <<Result(final)>>, open |-> FALSE]
  <2>1. stream' = [stream EXCEPT ![s] = r] /\ chan' = [chan EXCEPT ![s] = ch]
    BY <1>2 DEF StreamSubscribe
  <2>2. r.pc = "receive" /\ r.last = read
    BY <1>6 DEF Request
  <2>3. subs' = subs \/ (final = "none" /\ subs' = subs \cup {s})
    BY <1>2 DEF StreamSubscribe
  <2>4. s \notin subs
    BY <1>2 DEF StreamSubscribe, GapInv
  <2>5. final = "none" => ch.queue = << >>
    OBVIOUS
  <2>6. final # "none" => ch.queue = <<Result(final)>>
    OBVIOUS
  <2> HIDE DEF r, ch
  <2>7. stream'[s] = r /\ chan'[s] = ch
    BY <1>6, <2>1
  <2>8. \A t \in Stream \ {s} :
          stream'[t] = stream[t] /\ chan'[t] = chan[t] /\ (t \in subs' => t \in subs)
    BY <1>6, <2>1, <2>3
  <2>9. NoResult(chan[s].queue) /\ final = "none" => NoResult(chan'[s].queue)
    BY <2>5, <2>7 DEF NoResult
  <2>10. read' = read
    BY <1>0
  <2>11. Gapless(s)'
    <3>1. CASE final = "none"
      <4>1. Follows(<< >>, read, read) /\ read = read + Len(<< >>)
        BY <1>6 DEF Follows
      <4> QED
        BY <2>2, <2>5, <2>7, <2>10, <3>1, <4>1 DEF Gapless
    <3>2. CASE final # "none"
      <4>1. Follows(<<Result(final)>>, read, read)
        <5>1. Len(<<Result(final)>>) = 1 /\ <<Result(final)>>[1] = Result(final)
          OBVIOUS
        <5>2. Result(final).result # "none"
          BY <3>2 DEF Result
        <5>3. \A i \in 1 .. 1 : i = 1
          OBVIOUS
        <5> QED
          BY <1>6, <5>1, <5>2, <5>3 DEF Follows
      <4>2. s \notin subs'
        BY <2>3, <2>4, <3>2
      <4> QED
        BY <2>2, <2>6, <2>7, <2>10, <3>2, <4>1, <4>2 DEF Gapless
    <3> QED
      BY <3>1, <3>2
  <2> QED
    BY <1>0, <2>2, <2>7, <2>8, <2>9, <2>11, GapOne
<1>3. ASSUME NEW result, Leave(s, result)
      PROVE  GapInv'
  <2>1. stream'[s].pc = "idle" /\ s \notin subs' /\ chan'[s].queue = << >>
    BY <1>3, <1>6 DEF Leave, IdleStream
  <2>2. \A t \in Stream \ {s} :
          stream'[t] = stream[t] /\ chan'[t] = chan[t] /\ (t \in subs' => t \in subs)
    BY <1>3, <1>6 DEF Leave
  <2>3. NoResult(chan'[s].queue) /\ Gapless(s)'
    BY <2>1 DEF NoResult, Gapless
  <2> QED
    BY <1>0, <2>1, <2>2, <2>3, GapOne
<1>4. CASE StreamReceive(s)
  <2> DEFINE q == chan[s].queue
             e == Head(q)
             r == [stream[s] EXCEPT !.last = e.out]
             ch == [chan[s] EXCEPT !.queue = Tail(@)]
  <2>1. CASE e.result # "none"
    <3>1. Leave(s, e.result)
      BY <1>4, <2>1 DEF StreamReceive
    <3> QED
      BY <3>1, <1>3
  <2>2. CASE e.result = "none"
    <3>1. /\ stream' = [stream EXCEPT ![s] = r] /\ chan' = [chan EXCEPT ![s] = ch]
          /\ subs' = subs /\ q # << >> /\ stream[s].pc = "receive"
      BY <1>4, <2>2 DEF StreamReceive
    <3>2. r.pc = "receive" /\ r.last = e.out /\ ch.queue = Tail(q)
      BY <1>6, <3>1 DEF Request, Channel
    <3> HIDE DEF q, r, ch
    <3>3. stream'[s] = r /\ chan'[s] = ch
      BY <1>6, <3>1
    <3>4. \A t \in Stream \ {s} :
            stream'[t] = stream[t] /\ chan'[t] = chan[t] /\ (t \in subs' => t \in subs)
      BY <1>6, <3>1
    <3>5. Follows(q, stream[s].last, read)
      BY <3>1 DEF GapInv, Gapless, q
    <3>6. q \in Seq(Event)
      BY <1>6 DEF q
    <3>7. /\ e.out = stream[s].last + 1
          /\ Follows(Tail(q), stream[s].last + 1, read)
          /\ NoResult(q) => NoResult(Tail(q))
          /\ Len(Tail(q)) = Len(q) - 1
      BY <1>6, <2>2, <3>1, <3>5, <3>6, FollowsTail
    <3>8. NoResult(chan[s].queue) /\ final = "none" => NoResult(chan'[s].queue)
      BY <3>2, <3>3, <3>7 DEF q
    <3>9. s \in subs /\ Ongoing => read = stream[s].last + 1 + Len(Tail(q))
      <4>1. s \in subs /\ Ongoing => read = stream[s].last + Len(q)
        BY <3>1 DEF GapInv, Gapless, q
      <4>2. Len(q) \in Nat
        BY <3>6
      <4> QED
        BY <1>6, <3>7, <4>1, <4>2
    <3>10. Gapless(s)'
      <4>1. read' = read /\ subs' = subs /\ (Ongoing' <=> Ongoing)
        BY <1>0, <3>1 DEF Ongoing, jobVars
      <4> QED
        BY <3>2, <3>3, <3>7, <3>9, <4>1 DEF Gapless
    <3>11. s \in subs' => stream'[s].pc = "receive"
      BY <3>2, <3>3
    <3> QED
      BY <1>0, <3>4, <3>8, <3>10, <3>11, GapOne
  <2> QED
    BY <2>1, <2>2
<1>5. CASE StreamClosed(s) \/ StreamGone(s)
  BY <1>3, <1>5 DEF StreamClosed, StreamGone
<1> QED
  BY <1>1, <1>2, <1>4, <1>5 DEF StreamStep

LEMMA GapStep == TypeOK /\ ReleaseInv /\ GapInv /\ [Next]_vars => GapInv'
<1> SUFFICES ASSUME TypeOK, ReleaseInv, GapInv, [Next]_vars PROVE GapInv'
  OBVIOUS
<1> DEFINE Before == {"none", "register", "prepare", "wait", "drain", "complete", "final"}
           Same == /\ stream' = stream /\ read' = read /\ subs' = subs /\ chan' = chan
                   /\ run' = run /\ final' = final /\ outcome' = outcome
<1>1. ASSUME Same, reader' = "reading" => reader = "reading"
      PROVE  GapInv'
  <2>1. \A s \in Stream : Gapless(s)'
    BY <1>1 DEF GapInv, Gapless, Ongoing
  <2> QED
    BY <1>1, <2>1 DEF GapInv
<1>2. CASE Write \/ Exit \/ Kill \/ ReadEnd
  BY <1>1, <1>2 DEF Write, Exit, Kill, ReadEnd, jobVars, clientVars
<1>3. CASE (\E c \in Cancel : CancelLoad(c) \/ CancelStep(c)) \/ Deadline \/ MachineDeleted
  BY <1>1, <1>3 DEF CancelLoad, CancelStep, CancelMark, CancelLookup, CancelFlag, CancelFire,
                    Deadline, MachineDeleted, jobVars, cmdVars, clientVars
<1>4. CASE Crash
  <2>1. \A s \in Stream : /\ stream'[s].pc = "idle"
                          /\ chan'[s].queue = << >>
    BY <1>4 DEF Crash, IdleStream
  <2>2. subs' = {} /\ reader' = "none" /\ run' = "done"
    BY <1>4 DEF Crash
  <2>3. \A s \in Stream : Gapless(s)'
    BY <2>1 DEF Gapless
  <2> QED
    BY <2>2, <2>3 DEF GapInv
<1>5. CASE UNCHANGED vars
  BY <1>1, <1>5 DEF vars
<1> QED
  BY <1>2, <1>3, <1>4, <1>5, GapRead, GapRunStep, GapStreamStep DEF Next

\* The chunks a stream receives follow each other from where it subscribed, and
\* the result comes after all that was read, however slow it is.
THEOREM OutputHasNoGaps == Spec => []NoGaps
<1>1. Init => ReleaseInv /\ GapInv
  <2> SUFFICES ASSUME Init PROVE ReleaseInv /\ GapInv
    OBVIOUS
  <2>1. ReleaseInv
    BY DEF Init, ReleaseInv, IdleStream
  <2>2. GapInv
    BY DEF Init, GapInv, Gapless, NoResult, IdleStream
  <2> QED
    BY <2>1, <2>2
<1> QED
  BY <1>1, InitType, TypeStep, ReleaseStep, GapStep, GapNoGaps, PTL DEF Spec

=============================================================================
