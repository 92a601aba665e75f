------------------------------ MODULE EventStream ------------------------------
(***************************************************************************)
(* The owner event stream: CreateEvent stores an event and then offers it  *)
(* to the subscribers of the hub (database/events.go), streamOwnerEvents   *)
(* replays what a returning client missed and then follows the hub         *)
(* (httpapi/events.go).  An event has a creation time of one second        *)
(* resolution and a random id, so within a second the order of the replay  *)
(* is not the order of the inserts.                                        *)
(***************************************************************************)
EXTENDS Naturals, FiniteSets, Sequences, SequencesExt

CONSTANTS
  Actor,      \* the accounts events belong to
  Client,     \* stream clients
  Owner,      \* the account each client signed in with
  Writer,     \* goroutines inside CreateEvent
  Id,         \* event ids, compared as the uuid strings are
  Limit,      \* rows one replay returns, 200 in the code
  Buffer,     \* capacity of a subscription, 64 in the code
  MaxTime     \* bound on the clock, in seconds

ASSUME OwnerActor == Owner \in [Client -> Actor]
ASSUME Bounds == Id \subseteq Nat /\ Limit \in Nat \ {0} /\ Buffer \in Nat \ {0} /\ MaxTime \in Nat

VARIABLES
  now,        \* the database's clock
  log,        \* the events table
  writer,     \* per writer: the events it stored and did not publish yet
  conn,     \* per client: its connection
  seen,       \* per client: the events it was sent, over all its connections
  known,      \* history: the client's events in the table when its replay ran
  excused     \* history: the client's events the code gives up on

evars == <<now, log, writer, conn, seen, known, excused>>

Event == [id : Id, at : 0..MaxTime, actor : Actor]

Closed == [pc |-> "closed", replay |-> <<>>, buf |-> <<>>]

\* ORDER BY created_at ASC, id ASC
Before(e, f) == e.at < f.at \/ (e.at = f.at /\ e.id < f.id)

Own(c) == {e \in log : e.actor = Owner[c]}

Later(c) == {e \in Own(c) : Before(Last(seen[c]), e)}

Unpublished == UNION {writer[w] : w \in Writer}

EventInit ==
  /\ now = 0 /\ log = {}
  /\ writer = [w \in Writer |-> {}]
  /\ conn = [c \in Client |-> Closed]
  /\ seen = [c \in Client |-> <<>>]
  /\ known = [c \in Client |-> {}]
  /\ excused = [c \in Client |-> {}]

Tick == now < MaxTime /\ now' = now + 1 /\ UNCHANGED <<log, writer, conn, seen, known, excused>>

--------------------------------------------------------------------------------
\* CreateEvent

InsertUnstored(w) ==
  \E i \in Id, a \in Actor :
     LET e == [id |-> i, at |-> now, actor |-> a] IN
     /\ writer[w] = {} /\ \A f \in log \cup Unpublished : f.id # i
     /\ writer' = [writer EXCEPT ![w] = {e}]
     /\ UNCHANGED <<now, log, conn, seen, known, excused>>

Insert(w) ==
  \E i \in Id, a \in Actor :
     LET e == [id |-> i, at |-> now, actor |-> a] IN
     /\ writer[w] = {} /\ \A f \in log : f.id # i
     /\ log' = log \cup {e}
     /\ writer' = [writer EXCEPT ![w] = {e}]
     /\ UNCHANGED <<now, conn, seen, known, excused>>

\* the hub sends without waiting: a full subscription misses the event
Publish(w) ==
  \E e \in writer[w] :
     LET live == {c \in Client : conn[c].pc = "live"}
         full == {c \in live : Len(conn[c].buf) = Buffer} IN
     /\ conn' = [c \in Client |->
          IF c \in live \ full THEN [conn[c] EXCEPT !.buf = Append(@, e)] ELSE conn[c]]
     /\ excused' = [c \in Client |->
          IF c \in full /\ e.actor = Owner[c] THEN excused[c] \cup {e} ELSE excused[c]]
     /\ writer' = [writer EXCEPT ![w] = {}]
     /\ UNCHANGED <<now, log, seen, known>>

\* the new row cannot be read back: it stays stored and nobody is told
PublishSkipped(w) ==
  \E e \in writer[w] :
     /\ writer' = [writer EXCEPT ![w] = {}]
     /\ excused' = [c \in Client |->
          IF conn[c].pc # "closed" /\ e.actor = Owner[c] THEN excused[c] \cup {e} ELSE excused[c]]
     /\ UNCHANGED <<now, log, conn, seen, known>>

--------------------------------------------------------------------------------
\* streamOwnerEvents

Goto(c, pc) == conn' = [conn EXCEPT ![c].pc = pc]

\* what a query for events returns: the first of them, in their order
FirstOf(events) ==
  LET n == IF Cardinality(events) > Limit THEN Limit ELSE Cardinality(events) IN
  {r \in [1..n -> events] :
     /\ \A i, j \in 1..n : i < j => Before(r[i], r[j])
     /\ \A e \in events \ Range(r), i \in 1..n : Before(r[i], e)}

ListActorEventsAfterTime(c) == FirstOf({e \in Own(c) : Last(seen[c]).at < e.at})

ListActorEventsAfter(c) == FirstOf(Later(c))

\* a connection without Last-Event-ID counts as a first one: the past is not its business
ConnectFirst(c) ==
  /\ conn[c].pc = "closed" /\ seen[c] = <<>>
  /\ Goto(c, "replayed")
  /\ known' = [known EXCEPT ![c] = Own(c) \ Unpublished]
  /\ excused' = [excused EXCEPT ![c] = @ \cup (Own(c) \ Unpublished)]
  /\ UNCHANGED <<now, log, writer, seen>>

\* what sorts before the last event seen is taken for seen, and what
\* exceeds the limit is left behind by the live events that follow
ConnectAgain(c) ==
  /\ conn[c].pc = "closed" /\ seen[c] # <<>>
  /\ \E r \in ListActorEventsAfter(c) :
        conn' = [conn EXCEPT ![c] = [pc |-> "replayed", replay |-> r, buf |-> <<>>]]
  /\ known' = [known EXCEPT ![c] = Own(c)]
  /\ excused' = [excused EXCEPT ![c] =
       @ \cup {e \in Own(c) : \/ ~Before(Last(seen[c]), e)
                              \/ Cardinality({f \in Later(c) : Before(f, e)}) >= Limit}]
  /\ UNCHANGED <<now, log, writer, seen>>

\* the replay's query fails: the stream goes on without it
ConnectUnreplayed(c) ==
  /\ conn[c].pc = "closed" /\ seen[c] # <<>>
  /\ Goto(c, "replayed")
  /\ known' = [known EXCEPT ![c] = Own(c)]
  /\ excused' = [excused EXCEPT ![c] = @ \cup Own(c)]
  /\ UNCHANGED <<now, log, writer, seen>>

Replay(c) ==
  /\ conn[c].pc = "replayed" /\ conn[c].replay # <<>>
  /\ seen' = [seen EXCEPT ![c] = Append(@, Head(conn[c].replay))]
  /\ conn' = [conn EXCEPT ![c].replay = Tail(@)]
  /\ UNCHANGED <<now, log, writer, known, excused>>

\* stored since the replay's query and published before the subscription
Missed(c) == (Own(c) \ known[c]) \ Unpublished

Subscribe(c) ==
  /\ conn[c].pc = "replayed" /\ conn[c].replay = <<>>
  /\ Goto(c, "live")
  /\ excused' = [excused EXCEPT ![c] = @ \cup Missed(c)]
  /\ UNCHANGED <<now, log, writer, seen, known>>

Deliver(c) ==
  /\ conn[c].pc = "live" /\ conn[c].buf # <<>>
  /\ conn' = [conn EXCEPT ![c].buf = Tail(@)]
  /\ seen' = [seen EXCEPT ![c] =
       IF Head(conn[c].buf).actor = Owner[c] THEN Append(@, Head(conn[c].buf)) ELSE @]
  /\ UNCHANGED <<now, log, writer, known, excused>>

\* the client goes, or a write to it fails: unsubscribed, the buffer is lost
Disconnect(c) ==
  /\ conn[c].pc # "closed"
  /\ conn' = [conn EXCEPT ![c] = Closed]
  /\ UNCHANGED <<now, log, writer, seen, known, excused>>

CreateEvent(w) == Insert(w) \/ Publish(w) \/ PublishSkipped(w)

StreamOwnerEvents(c) ==
  \/ ConnectFirst(c) \/ ConnectAgain(c) \/ ConnectUnreplayed(c)
  \/ Replay(c) \/ Subscribe(c) \/ Deliver(c) \/ Disconnect(c)

EventNext ==
  \/ Tick
  \/ \E w \in Writer : CreateEvent(w)
  \/ \E c \in Client : StreamOwnerEvents(c)

EventSpec == EventInit /\ [][EventNext]_evars

--------------------------------------------------------------------------------
EventTypeOK ==
  /\ now \in 0..MaxTime /\ log \subseteq Event
  /\ writer \in [Writer -> SUBSET Event]
  /\ seen \in [Client -> Seq(Event)]
  /\ known \in [Client -> SUBSET Event] /\ excused \in [Client -> SUBSET Event]
  /\ \A c \in Client : /\ conn[c].pc \in {"closed", "replayed", "live"}
                       /\ Len(conn[c].buf) <= Buffer /\ Len(conn[c].replay) <= Limit

\* The stream implements the feed: a client is told only of stored events of its
\* own account, although events reach it on two ways (the replay's query and the
\* hub's channel), twice at times, and are published by another goroutine.
FeedSpec == INSTANCE EventFeed WITH log <- log, seen <- seen
ImplementsFeed == FeedSpec!Spec

\* A connected client whose replay is done has been sent, or is about to be sent,
\* every event of its account except those lost in one of five ways: stored before
\* a connection that named no last event, dropped at a full buffer, stored between its replay's
\* query and its subscription, sorted before the last event it saw or beyond the
\* replay's limit, or not read back by the replay or by its writer.
LossesAreKnown ==
  \A c \in Client : conn[c].pc = "live" =>
     Own(c) \subseteq Range(seen[c]) \cup Range(conn[c].buf) \cup Unpublished \cup excused[c]
================================================================================
