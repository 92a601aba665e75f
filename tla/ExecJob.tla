------------------------------ MODULE ExecJob ------------------------------
(***************************************************************************)
(* One non-interactive command in a machine (browserterm/exec.go): its row *)
(* in the execs table, the goroutine runExec that starts ssh and waits for *)
(* it, the goroutine that reads its output, and the requests that follow   *)
(* or cancel it.  Commands have ids of their own and share nothing but the *)
(* map execJobs, so one stands for all.                                    *)
(*                                                                         *)
(* stdout and stderr are handled alike; out counts the chunks of the one   *)
(* that is modelled.  The texts, the store limit and stdin are left out.   *)
(***************************************************************************)
EXTENDS Naturals, Sequences

CONSTANTS Stream,   \* requests that follow the command
          Cancel,   \* requests that cancel it
          Buffer,   \* capacity of a subscriber's channel, 128 in the code
          MaxOut,   \* bound: chunks of output the command writes
          Faults    \* what the environment may do

\* The timeout of the request passes; the guest cannot be reached; the store
\* does not take the result; the machine is deleted, and its rows with it; the
\* control plane dies.
FaultKinds == {"timeout", "noAccess", "storeError", "machineDelete", "crash"}

ASSUME ExecAssumption ==
  /\ Buffer \in Nat \ {0}
  /\ MaxOut \in Nat
  /\ Faults \subseteq FaultKinds

VARIABLES
  row,         \* the execs row: its state, and whether cancel_requested_at is set
  registered,  \* Manager.execJobs has the job
  ctx,         \* the job's context
  cancelled,   \* job.cancelled
  final,       \* job.final: the state in it, or none
  subs,        \* job.subscribers
  chan,        \* the channel of each stream: what is in it and whether it is open
  run,         \* where CreateExec and runExec are
  err,         \* what cmd.Wait returned
  outcome,     \* the state runExec has decided on
  cmd,         \* the ssh process
  out,         \* chunks it has written
  pipe,        \* our end of its output
  read,        \* chunks captureExecStream has read
  reader,      \* captureExecStream
  stream,      \* StreamExec requests
  cancel       \* CancelExec requests

jobVars == <<registered, final, run, err, outcome>>
cmdVars == <<cmd, out, pipe, read, reader>>
clientVars == <<stream, cancel>>
vars == <<row, registered, ctx, cancelled, final, subs, chan, run, err, outcome,
          cmd, out, pipe, read, reader, stream, cancel>>

-----------------------------------------------------------------------------
Terminal == {"SUCCEEDED", "FAILED", "TIMED_OUT", "CANCELLED", "ERROR"}
State == {"none", "RUNNING"} \cup Terminal

\* A stream event: the k-th chunk of output, or the result.
Out(k) == [out |-> k, result |-> "none"]
Result(s) == [out |-> 0, result |-> s]

RunPC == {"none", "register", "prepare", "wait", "drain", "complete", "final",
          "result", "close", "unregister", "done"}

IdleStream == [pc |-> "idle", record |-> "none", last |-> 0, result |-> "none"]

Init ==
  /\ row = [state |-> "none", asked |-> FALSE]
  /\ registered = FALSE
  /\ ctx = "live"
  /\ cancelled = FALSE
  /\ final = "none"
  /\ subs = {}
  /\ chan = [s \in Stream |-> [queue |-> <<>>, open |-> FALSE]]
  /\ run = "none"
  /\ err = "none"
  /\ outcome = "none"
  /\ cmd = "none"
  /\ out = 0
  /\ pipe = "open"
  /\ read = 0
  /\ reader = "none"
  /\ stream = [s \in Stream |-> IdleStream]
  /\ cancel = [c \in Cancel |-> "idle"]

-----------------------------------------------------------------------------
(* The job's channels *)

\* Mutant of Broadcast: a full channel misses the event and stays subscribed.
BroadcastSkips(e) ==
  /\ chan' = [s \in Stream |->
       IF s \in subs /\ Len(chan[s].queue) < Buffer
       THEN [chan[s] EXCEPT !.queue = Append(@, e)] ELSE chan[s]]
  /\ UNCHANGED subs

\* A subscriber whose channel is full is unsubscribed and its channel closed.
Broadcast(e) ==
  LET full == {s \in subs : Len(chan[s].queue) >= Buffer}
  IN /\ subs' = subs \ full
     /\ chan' = [s \in Stream |->
          CASE s \in full -> [chan[s] EXCEPT !.open = FALSE]
            [] s \in subs \ full -> [chan[s] EXCEPT !.queue = Append(@, e)]
            [] OTHER -> chan[s]]

\* The stream's deferred unsubscribe, and its return.
Leave(s, result) ==
  /\ subs' = subs \ {s}
  /\ chan' = [chan EXCEPT ![s] = [queue |-> <<>>, open |-> FALSE]]
  /\ stream' = [stream EXCEPT ![s] = [IdleStream EXCEPT !.result = result]]

-----------------------------------------------------------------------------
(* CreateExec and runExec *)

\* The row is inserted and read back; if that fails there is no job for it.
Create ==
  /\ run = "none"
  /\ row' = [state |-> "RUNNING", asked |-> FALSE]
  /\ run' \in {"register"} \cup (IF "storeError" \in Faults THEN {"done"} ELSE {})
  /\ UNCHANGED <<registered, ctx, cancelled, final, subs, chan, err, outcome,
                 cmdVars, clientVars>>

Register ==
  /\ run = "register"
  /\ registered' = TRUE
  /\ run' = "prepare"
  /\ UNCHANGED <<row, ctx, cancelled, final, subs, chan, err, outcome, cmdVars,
                 clientVars>>

\* Mutant of Classified: a context that is done means cancelled.
ClassifiedCancelled(e) ==
  CASE e = "none" -> "SUCCEEDED"
    [] e # "none" /\ (cancelled \/ ctx # "live") -> "CANCELLED"
    [] OTHER -> IF e = "exit" THEN "FAILED" ELSE "ERROR"

\* classifyExecError, for no error, an exit status or any other error.
Classified(e) ==
  CASE e = "none" -> "SUCCEEDED"
    [] e # "none" /\ ctx = "deadline" -> "TIMED_OUT"
    [] e # "none" /\ ctx # "deadline" /\ (cancelled \/ ctx = "canceled") -> "CANCELLED"
    [] OTHER -> IF e = "exit" THEN "FAILED" ELSE "ERROR"

\* execSSHArgs waits until the guest can be reached, which ssh may deny with an
\* exit status of its own; then the process is started.  With a context that is
\* done both fail.
Prepare ==
  /\ run = "prepare"
  /\ \/ /\ ctx = "live"
        /\ cmd' = "running"
        /\ reader' = "reading"
        /\ run' = "wait"
        /\ UNCHANGED outcome
     \/ /\ ctx # "live" \/ "noAccess" \in Faults
        /\ outcome' \in {Classified("exit"), Classified("other")}
        /\ run' = "complete"
        /\ UNCHANGED <<cmd, reader>>
  /\ UNCHANGED <<row, registered, ctx, cancelled, final, subs, chan, err, out,
                 pipe, read, clientVars>>

\* cmd.Wait returns once the process has ended, and closes our end of the
\* pipe.  It returns an exit status other than 0 as an error, and the error
\* of the context when that is what ended the wait.
Wait ==
  /\ run = "wait"
  /\ cmd # "running"
  /\ pipe' = "closed"
  /\ run' = "drain"
  /\ \/ cmd # "exit0" /\ err' = "exit"
     \/ cmd = "exit0" /\ err' = "none"
     \/ cmd = "exit0" /\ ctx # "live" /\ err' = "other"
  /\ UNCHANGED <<row, registered, ctx, cancelled, final, subs, chan, outcome,
                 cmd, out, read, reader, clientVars>>

\* Mutant of Drain: an error of the reader is not looked at.
DrainIgnores ==
  /\ run = "drain"
  /\ reader \in {"eof", "error"}
  /\ outcome' = Classified(err)
  /\ run' = "complete"
  /\ UNCHANGED <<row, registered, ctx, cancelled, final, subs, chan, err, cmdVars,
                 clientVars>>

\* Both readers have reported; the error of one counts if Wait had none.
Drain ==
  /\ run = "drain"
  /\ reader \in {"eof", "error"}
  /\ outcome' = Classified(IF err = "none" /\ reader = "error" THEN "other" ELSE err)
  /\ run' = "complete"
  /\ UNCHANGED <<row, registered, ctx, cancelled, final, subs, chan, err, cmdVars,
                 clientVars>>

\* CompleteExec.  When it fails finishExec goes on with the result in memory.
Complete ==
  /\ run = "complete"
  /\ \/ row.state # "none" /\ row' = [row EXCEPT !.state = outcome]
     \/ (row.state = "none" \/ "storeError" \in Faults) /\ UNCHANGED row
  /\ run' = "final"
  /\ UNCHANGED <<registered, ctx, cancelled, final, subs, chan, err, outcome,
                 cmdVars, clientVars>>

SetFinal ==
  /\ run = "final"
  /\ final' = outcome
  /\ run' = "result"
  /\ UNCHANGED <<row, registered, ctx, cancelled, subs, chan, err, outcome,
                 cmdVars, clientVars>>

BroadcastResult ==
  /\ run = "result"
  /\ Broadcast(Result(outcome))
  /\ run' = "close"
  /\ UNCHANGED <<row, registered, ctx, cancelled, final, err, outcome, cmdVars,
                 clientVars>>

CloseSubscribers ==
  /\ run = "close"
  /\ subs' = {}
  /\ chan' = [s \in Stream |-> [chan[s] EXCEPT !.open = @ /\ s \notin subs]]
  /\ run' = "unregister"
  /\ UNCHANGED <<row, registered, ctx, cancelled, final, err, outcome, cmdVars,
                 clientVars>>

Unregister ==
  /\ run = "unregister"
  /\ registered' = FALSE
  /\ run' = "done"
  /\ UNCHANGED <<row, ctx, cancelled, final, subs, chan, err, outcome, cmdVars,
                 clientVars>>

RunStep ==
  \/ Register \/ Prepare \/ Wait \/ Drain \/ Complete \/ SetFinal
  \/ BroadcastResult \/ CloseSubscribers \/ Unregister

-----------------------------------------------------------------------------
(* The process and captureExecStream *)

Write ==
  /\ cmd = "running"
  /\ out < MaxOut
  /\ out' = out + 1
  /\ UNCHANGED <<row, ctx, cancelled, subs, chan, jobVars, cmd, pipe, read,
                 reader, clientVars>>

Exit ==
  /\ cmd = "running"
  /\ cmd' \in {"exit0", "exit1"}
  /\ UNCHANGED <<row, ctx, cancelled, subs, chan, jobVars, out, pipe, read,
                 reader, clientVars>>

\* exec.CommandContext: a context that is done kills the process.
Kill ==
  /\ cmd = "running"
  /\ ctx # "live"
  /\ cmd' = "killed"
  /\ UNCHANGED <<row, ctx, cancelled, subs, chan, jobVars, out, pipe, read,
                 reader, clientVars>>

\* Mutant of Read: one chunk too many.
ReadPast ==
  /\ reader = "reading"
  /\ pipe = "open"
  /\ read <= out
  /\ read' = read + 1
  /\ Broadcast(Out(read + 1))
  /\ UNCHANGED <<row, ctx, cancelled, jobVars, cmd, out, pipe, reader, clientVars>>

Read ==
  /\ reader = "reading"
  /\ pipe = "open"
  /\ read < out
  /\ read' = read + 1
  /\ Broadcast(Out(read + 1))
  /\ UNCHANGED <<row, ctx, cancelled, jobVars, cmd, out, pipe, reader, clientVars>>

\* Mutant of ReadEnd: only the end of the output is reported.
ReadEndOnlyEof ==
  /\ reader = "reading"
  /\ pipe = "open" /\ read = out /\ cmd # "running" /\ reader' = "eof"
  /\ UNCHANGED <<row, ctx, cancelled, subs, chan, jobVars, cmd, out, pipe, read,
                 clientVars>>

\* Reading from a pipe that Wait has closed is an error, whatever is in it.
ReadEnd ==
  /\ reader = "reading"
  /\ \/ pipe = "open" /\ read = out /\ cmd # "running" /\ reader' = "eof"
     \/ pipe = "closed" /\ reader' = "error"
  /\ UNCHANGED <<row, ctx, cancelled, subs, chan, jobVars, cmd, out, pipe, read,
                 clientVars>>

-----------------------------------------------------------------------------
(* StreamExec *)

StreamLoad(s) ==
  /\ stream[s].pc = "idle"
  /\ row.state # "none"
  /\ stream' = [stream EXCEPT ![s] =
                  [IdleStream EXCEPT !.pc = "lookup", !.record = row.state]]
  /\ UNCHANGED <<row, ctx, cancelled, subs, chan, jobVars, cmdVars, cancel>>

\* Without a job, or for a row that was complete, the row that was read is
\* the result.
StreamLookup(s) ==
  /\ stream[s].pc = "lookup"
  /\ stream' = [stream EXCEPT ![s] =
       IF registered /\ @.record = "RUNNING"
       THEN [@ EXCEPT !.pc = "subscribe"]
       ELSE [IdleStream EXCEPT !.result = stream[s].record]]
  /\ UNCHANGED <<row, ctx, cancelled, subs, chan, jobVars, cmdVars, cancel>>

\* Mutant of StreamSubscribe: it does not look for a result that is there.
StreamSubscribeLate(s) ==
  /\ stream[s].pc = "subscribe"
  /\ subs' = subs \cup {s}
  /\ chan' = [chan EXCEPT ![s] = [queue |-> <<>>, open |-> TRUE]]
  /\ stream' = [stream EXCEPT ![s] = [@ EXCEPT !.pc = "receive", !.last = read]]
  /\ UNCHANGED <<row, ctx, cancelled, jobVars, cmdVars, cancel>>

\* subscribe: a job that has its result gives it at once.
StreamSubscribe(s) ==
  /\ stream[s].pc = "subscribe"
  /\ IF final = "none"
     THEN /\ subs' = subs \cup {s}
          /\ chan' = [chan EXCEPT ![s] = [queue |-> <<>>, open |-> TRUE]]
     ELSE /\ chan' = [chan EXCEPT ![s] = [queue |-> <<Result(final)>>, open |-> FALSE]]
          /\ UNCHANGED subs
  /\ stream' = [stream EXCEPT ![s] = [@ EXCEPT !.pc = "receive", !.last = read]]
  /\ UNCHANGED <<row, ctx, cancelled, jobVars, cmdVars, cancel>>

StreamReceive(s) ==
  /\ stream[s].pc = "receive"
  /\ chan[s].queue # <<>>
  /\ LET e == Head(chan[s].queue)
     IN IF e.result # "none"
        THEN Leave(s, e.result)
        ELSE /\ stream' = [stream EXCEPT ![s].last = e.out]
             /\ chan' = [chan EXCEPT ![s].queue = Tail(@)]
             /\ UNCHANGED subs
  /\ UNCHANGED <<row, ctx, cancelled, jobVars, cmdVars, cancel>>

StreamClosed(s) ==
  /\ stream[s].pc = "receive"
  /\ chan[s].queue = <<>>
  /\ ~chan[s].open
  /\ Leave(s, "none")
  /\ UNCHANGED <<row, ctx, cancelled, jobVars, cmdVars, cancel>>

\* The client goes away.
StreamGone(s) ==
  /\ stream[s].pc = "receive"
  /\ Leave(s, "none")
  /\ UNCHANGED <<row, ctx, cancelled, jobVars, cmdVars, cancel>>

StreamStep(s) ==
  StreamLookup(s) \/ StreamSubscribe(s) \/ StreamReceive(s) \/ StreamClosed(s)

-----------------------------------------------------------------------------
(* CancelExec *)

\* A row that is complete needs no cancelling.
CancelLoad(c) ==
  /\ cancel[c] = "idle"
  /\ row.state = "RUNNING"
  /\ cancel' = [cancel EXCEPT ![c] = "mark"]
  /\ UNCHANGED <<row, ctx, cancelled, subs, chan, jobVars, cmdVars, stream>>

\* Mutant of CancelMark: the row gets its state here already.
CancelMarkState(c) ==
  /\ cancel[c] = "mark"
  /\ row' = [row EXCEPT !.state = IF @ = "none" THEN @ ELSE "CANCELLED",
                        !.asked = row.state # "none"]
  /\ cancel' = [cancel EXCEPT ![c] = "lookup"]
  /\ UNCHANGED <<ctx, cancelled, subs, chan, jobVars, cmdVars, stream>>

\* MarkExecCancelRequested; a row that is gone by now is no error.
CancelMark(c) ==
  /\ cancel[c] = "mark"
  /\ row' = [row EXCEPT !.asked = row.state # "none"]
  /\ cancel' = [cancel EXCEPT ![c] = "lookup"]
  /\ UNCHANGED <<ctx, cancelled, subs, chan, jobVars, cmdVars, stream>>

CancelLookup(c) ==
  /\ cancel[c] = "lookup"
  /\ cancel' = [cancel EXCEPT ![c] = IF registered THEN "flag" ELSE "idle"]
  /\ UNCHANGED <<row, ctx, cancelled, subs, chan, jobVars, cmdVars, stream>>

CancelFlag(c) ==
  /\ cancel[c] = "flag"
  /\ cancelled' = TRUE
  /\ cancel' = [cancel EXCEPT ![c] = "fire"]
  /\ UNCHANGED <<row, ctx, subs, chan, jobVars, cmdVars, stream>>

CancelFire(c) ==
  /\ cancel[c] = "fire"
  /\ ctx' = IF ctx = "live" THEN "canceled" ELSE ctx
  /\ cancel' = [cancel EXCEPT ![c] = "idle"]
  /\ UNCHANGED <<row, cancelled, subs, chan, jobVars, cmdVars, stream>>

CancelStep(c) == CancelMark(c) \/ CancelLookup(c) \/ CancelFlag(c) \/ CancelFire(c)

-----------------------------------------------------------------------------
(* The environment *)

Deadline ==
  /\ "timeout" \in Faults
  /\ run \notin {"none", "done"}
  /\ ctx = "live"
  /\ ctx' = "deadline"
  /\ UNCHANGED <<row, cancelled, subs, chan, jobVars, cmdVars, clientVars>>

\* The rows of a machine's execs go with the machine.
MachineDeleted ==
  /\ "machineDelete" \in Faults
  /\ row.state # "none"
  /\ row' = [state |-> "none", asked |-> FALSE]
  /\ UNCHANGED <<ctx, cancelled, subs, chan, jobVars, cmdVars, clientVars>>

\* Nothing but the row is left, and nothing goes on from there.
Crash ==
  /\ "crash" \in Faults
  /\ run \notin {"none", "done"}
  /\ run' = "done"
  /\ registered' = FALSE
  /\ final' = "none"
  /\ outcome' = "none"
  /\ err' = "none"
  /\ subs' = {}
  /\ chan' = [s \in Stream |-> [queue |-> <<>>, open |-> FALSE]]
  /\ cmd' = "none"
  /\ reader' = "none"
  /\ stream' = [s \in Stream |-> IdleStream]
  /\ cancel' = [c \in Cancel |-> "idle"]
  /\ ctx' = "live"
  /\ cancelled' = FALSE
  /\ UNCHANGED <<row, out, pipe, read>>

-----------------------------------------------------------------------------
Next ==
  \/ Create \/ RunStep
  \/ Write \/ Exit \/ Kill \/ Read \/ ReadEnd
  \/ \E s \in Stream : StreamLoad(s) \/ StreamStep(s) \/ StreamGone(s)
  \/ \E c \in Cancel : CancelLoad(c) \/ CancelStep(c)
  \/ Deadline \/ MachineDeleted \/ Crash

Spec == Init /\ [][Next]_vars

-----------------------------------------------------------------------------
(* Safety *)

Event == [out : 0 .. MaxOut, result : {"none"} \cup Terminal]
Row == [state : State, asked : BOOLEAN]
Channel == [queue : Seq(Event), open : BOOLEAN]
Request == [pc : {"idle", "lookup", "subscribe", "receive"},
            record : State, last : 0 .. MaxOut, result : State]

\* Every variable stays in its type.
TypeOK ==
  /\ row \in Row
  /\ registered \in BOOLEAN /\ cancelled \in BOOLEAN
  /\ ctx \in {"live", "deadline", "canceled"}
  /\ final \in {"none"} \cup Terminal /\ outcome \in {"none"} \cup Terminal
  /\ subs \in SUBSET Stream
  /\ chan \in [Stream -> Channel]
  /\ run \in RunPC
  /\ err \in {"none", "exit", "other"}
  /\ cmd \in {"none", "running", "exit0", "exit1", "killed"}
  /\ out \in 0 .. MaxOut /\ read \in 0 .. MaxOut
  /\ pipe \in {"open", "closed"}
  /\ reader \in {"none", "reading", "eof", "error"}
  /\ stream \in [Stream -> Request]
  /\ cancel \in [Cancel -> {"idle", "mark", "lookup", "flag", "fire"}]

\* What a stream receives has no gaps: from where it subscribed the chunks
\* follow each other, and a result comes after all that was read.  A stream
\* that cannot keep up is cut off instead of missing something.
NoGaps ==
  \A s \in Stream : stream[s].pc = "receive" =>
    /\ \A i \in 1 .. Len(chan[s].queue) :
         LET e == chan[s].queue[i]
         IN IF e.result = "none" THEN e.out = stream[s].last + i
                                 ELSE read = stream[s].last + i - 1
    /\ s \in subs /\ run \notin {"close", "unregister", "done"} =>
         read = stream[s].last + Len(chan[s].queue)

\* All who are told how the command ended are told the same: two streams, and
\* a stream and whoever reads the row later.
OneOutcome ==
  \A s \in Stream : stream[s].result \in Terminal =>
    /\ row.state \in Terminal => row.state = stream[s].result
    /\ \A t \in Stream :
         stream[t].result \in Terminal => stream[t].result = stream[s].result

\* A command is reported as SUCCEEDED only if it exited with status 0 and all
\* of its output was read, although Wait and the reader race for the pipe.
SucceededIsComplete == outcome = "SUCCEEDED" => cmd = "exit0" /\ read = out

\* A row that says CANCELLED also says that somebody asked for it; a command
\* that ran into its timeout is not reported as cancelled.
CancelledWasAsked == row.state = "CANCELLED" => row.asked

\* No stream is left behind: when the job is over, a channel a stream still
\* waits on is closed, whenever the stream subscribed.
StreamsReleased ==
  run \in {"unregister", "done"} =>
    \A s \in Stream : stream[s].pc = "receive" => ~chan[s].open

\* Once a cancel has come through or the timeout has passed, the job comes to
\* its end by itself: until then its goroutines always have a step, although the
\* command need never exit nor write, its output may still be unread when Wait
\* closes the pipe, the store may fail and streams may stand still.  (They have
\* finitely many steps, so the command stops and the job is unregistered.)
JobNeverStuck ==
  (/\ run \notin {"none", "done"}
   /\ \/ ctx # "live"
      \/ cancelled /\ (\A c \in Cancel : cancel[c] # "fire"))
  => ENABLED (RunStep \/ Kill \/ ReadEnd)

=============================================================================
