--------------------------- MODULE EventStreamProofs ---------------------------
(***************************************************************************)
(* EventStream implements EventFeed, for any clients, writers, ids, clock  *)
(* and buffer: on either of the two ways an event reaches a client, the    *)
(* client is told only of stored events of its own account.  And what a    *)
(* client is not told it has lost in one of the five ways LossesAreKnown   *)
(* lists.                                                                  *)
(***************************************************************************)
EXTENDS EventStream, FiniteSetTheorems, SequenceTheorems, TLAPS

Conn(c) == [pc : {"closed", "replayed", "live"}, replay : Seq(Own(c)), buf : Seq(log)]

\* the two ways: what a connection is still to replay is the client's own, what the
\* hub put in its buffer is stored
FeedInv ==
  /\ IsFiniteSet(log)
  /\ \A e \in log : e.actor \in Actor
  /\ writer \in [Writer -> SUBSET log]
  /\ DOMAIN conn = Client /\ \A c \in Client : conn[c] \in Conn(c)
  /\ seen = [c \in Client |-> seen[c]]

LEMMA FeedInvInit == EventInit => FeedInv
<1> SUFFICES ASSUME EventInit PROVE FeedInv
  OBVIOUS
<1>1. IsFiniteSet(log)
  BY FS_EmptySet DEF EventInit
<1>2. \A c \in Client : <<>> \in Seq(Own(c)) /\ <<>> \in Seq(log)
  OBVIOUS
<1>3. \A c \in Client : conn[c] \in Conn(c)
  BY <1>2 DEF EventInit, Conn, Closed
<1> QED
  BY <1>1, <1>3 DEF EventInit, FeedInv

\* The log only grows, so what was in it still is.
LEMMA LogGrows ==
  ASSUME NEW c \in Client, log \subseteq log'
  PROVE  Conn(c) \subseteq Conn(c)'
<1>1. Own(c) \subseteq Own(c)'
  BY DEF Own
<1>2. \A s \in Seq(Own(c)) : s \in Seq(Own(c)')
  BY <1>1, SeqMonotonic
<1>3. \A s \in Seq(log) : s \in Seq(log')
  BY SeqMonotonic
<1> QED
  BY <1>2, <1>3 DEF Conn

\* A query's result is a sequence of what it was asked about.
LEMMA FirstOfType ==
  ASSUME NEW S, IsFiniteSet(S), NEW r \in FirstOf(S)
  PROVE  r \in Seq(S)
<1> DEFINE n == IF Cardinality(S) > Limit THEN Limit ELSE Cardinality(S)
<1>1. Cardinality(S) \in Nat
  BY FS_CardinalityType
<1>2. n \in Nat
  BY <1>1, Bounds
<1>3. r \in [1..n -> S]
  BY DEF FirstOf
<1> HIDE DEF n
<1> QED
  BY <1>2, <1>3

--------------------------------------------------------------------------------
\* Storing an event records it; publishing it tells nobody yet.
LEMMA WriterStep ==
  ASSUME FeedInv, NEW w \in Writer, CreateEvent(w)
  PROVE  /\ FeedInv'
         /\ UNCHANGED seen
         /\ UNCHANGED log \/ \E e \in log' : e.actor \in Actor /\ log' = log \cup {e}
<1>1. CASE Insert(w)
  <2>1. PICK i \in Id, a \in Actor :
           /\ log' = log \cup {[id |-> i, at |-> now, actor |-> a]}
           /\ writer' = [writer EXCEPT ![w] = {[id |-> i, at |-> now, actor |-> a]}]
    BY <1>1 DEF Insert
  <2> DEFINE e == [id |-> i, at |-> now, actor |-> a]
  <2>2. e.actor \in Actor /\ log' = log \cup {e} /\ writer' = [writer EXCEPT ![w] = {e}]
    BY <2>1
  <2> HIDE DEF e
  <2>3. UNCHANGED <<conn, seen>>
    BY <1>1 DEF Insert
  <2>4. IsFiniteSet(log')
    BY <2>2, FS_AddElement DEF FeedInv
  <2>5. \A c \in Client : conn'[c] \in Conn(c)'
    BY <2>2, <2>3, LogGrows DEF FeedInv
  <2> QED
    BY <2>2, <2>3, <2>4, <2>5 DEF FeedInv
<1>2. CASE Publish(w) \/ PublishSkipped(w)
  <2>1. PICK e \in writer[w] :
           /\ writer' = [writer EXCEPT ![w] = {}]
           /\ UNCHANGED <<log, seen>>
           /\ \/ UNCHANGED conn
              \/ \E live \in SUBSET Client :
                   conn' = [c \in Client |-> IF c \in live THEN [conn[c] EXCEPT !.buf = Append(@, e)] ELSE conn[c]]
    <3>1. CASE Publish(w)
      <4> DEFINE live == {c \in Client : conn[c].pc = "live"}
                 full == {c \in live : Len(conn[c].buf) = Buffer}
      <4>1. live \ full \in SUBSET Client
        OBVIOUS
      <4>2. PICK e \in writer[w] :
              /\ writer' = [writer EXCEPT ![w] = {}]
              /\ UNCHANGED <<log, seen>>
              /\ conn' = [c \in Client |-> IF c \in live \ full THEN [conn[c] EXCEPT !.buf = Append(@, e)] ELSE conn[c]]
        BY <3>1 DEF Publish
      <4> HIDE DEF live, full
      <4> QED
        BY <4>1, <4>2
    <3>2. CASE PublishSkipped(w)
      BY <3>2 DEF PublishSkipped
    <3> QED
      BY <1>2, <3>1, <3>2
  <2>2. e \in log
    BY <2>1 DEF FeedInv
  <2>3. \A c \in Client : Conn(c)' = Conn(c)
    BY <2>1 DEF Conn, Own
  <2>4. ASSUME NEW c \in Client PROVE [conn[c] EXCEPT !.buf = Append(@, e)] \in Conn(c)
    <3>1. conn[c] \in Conn(c)
      BY DEF FeedInv
    <3>2. Append(conn[c].buf, e) \in Seq(log)
      BY <2>2, <3>1 DEF Conn
    <3> QED
      BY <3>1, <3>2 DEF Conn
  <2>5. DOMAIN conn' = Client /\ \A c \in Client : conn'[c] \in Conn(c)'
    BY <2>1, <2>3, <2>4 DEF FeedInv
  <2> QED
    BY <2>1, <2>5 DEF FeedInv
<1> QED
  BY <1>1, <1>2 DEF CreateEvent

\* A connection that changes to one of the same kind keeps the invariant.
LEMMA ConnStep ==
  ASSUME FeedInv, NEW c \in Client, NEW new \in Conn(c), conn' = [conn EXCEPT ![c] = new],
         UNCHANGED <<log, writer>>, seen' = [d \in Client |-> seen'[d]]
  PROVE  FeedInv'
<1>1. \A d \in Client : Conn(d)' = Conn(d)
  BY DEF Conn, Own
<1>2. DOMAIN conn' = Client /\ \A d \in Client : conn'[d] \in Conn(d)
  BY DEF FeedInv
<1> QED
  BY <1>1, <1>2 DEF FeedInv

\* What a stream sends is the head of its replay, or of its buffer if it is the client's.
LEMMA StreamStep ==
  ASSUME FeedInv, NEW c \in Client, StreamOwnerEvents(c)
  PROVE  /\ FeedInv'
         /\ UNCHANGED log
         /\ \/ UNCHANGED seen
            \/ \E e \in Own(c) : seen' = [seen EXCEPT ![c] = Append(@, e)]
<1> DEFINE k == conn[c]
<1>0. /\ k \in Conn(c) /\ k.replay \in Seq(Own(c)) /\ k.buf \in Seq(log)
      /\ <<>> \in Seq(Own(c)) /\ <<>> \in Seq(log)
      /\ UNCHANGED <<log, writer>>
  BY DEF FeedInv, Conn, StreamOwnerEvents, ConnectFirst, ConnectAgain, ConnectUnreplayed, Replay, Subscribe, Deliver, Disconnect
<1>1. CASE ConnectFirst(c) \/ ConnectUnreplayed(c) \/ Subscribe(c)
  <2>1. PICK pc \in {"replayed", "live"} : conn' = [conn EXCEPT ![c].pc = pc] /\ UNCHANGED seen
    BY <1>1 DEF ConnectFirst, ConnectUnreplayed, Subscribe, Goto
  <2> DEFINE new == [k EXCEPT !.pc = pc]
  <2>2. new \in Conn(c) /\ conn' = [conn EXCEPT ![c] = new]
    BY <1>0, <2>1 DEF Conn
  <2> HIDE DEF new
  <2> QED
    BY <1>0, <2>1, <2>2, ConnStep DEF FeedInv
<1>2. CASE ConnectAgain(c)
  <2>1. PICK r \in FirstOf(Later(c)) : conn' = [conn EXCEPT ![c] = [pc |-> "replayed", replay |-> r, buf |-> <<>>]]
    BY <1>2 DEF ConnectAgain, ListActorEventsAfter
  <2> DEFINE new == [pc |-> "replayed", replay |-> r, buf |-> <<>>]
  <2>2. IsFiniteSet(Later(c)) /\ Later(c) \subseteq Own(c)
    <3>1. Later(c) \subseteq Own(c) /\ Own(c) \subseteq log
      BY DEF Later, Own
    <3> QED
      BY <3>1, FS_Subset DEF FeedInv
  <2>3. r \in Seq(Own(c))
    BY <2>2, FirstOfType, SeqMonotonic
  <2>4. new \in Conn(c) /\ conn' = [conn EXCEPT ![c] = new] /\ UNCHANGED seen
    BY <1>0, <1>2, <2>1, <2>3 DEF Conn, ConnectAgain
  <2> HIDE DEF new
  <2> QED
    BY <1>0, <2>4, ConnStep DEF FeedInv
<1>3. CASE Replay(c)
  <2> DEFINE new == [k EXCEPT !.replay = Tail(@)]
  <2>1. Head(k.replay) \in Own(c) /\ Tail(k.replay) \in Seq(Own(c))
    BY <1>0, <1>3 DEF Replay
  <2>2. new \in Conn(c) /\ conn' = [conn EXCEPT ![c] = new]
    BY <1>0, <1>3, <2>1 DEF Conn, Replay
  <2>3. seen' = [seen EXCEPT ![c] = Append(@, Head(k.replay))]
    BY <1>3 DEF Replay
  <2>4. seen' = [d \in Client |-> seen'[d]]
    BY <2>3 DEF FeedInv
  <2> HIDE DEF new
  <2>5. FeedInv'
    BY <1>0, <2>2, <2>4, ConnStep
  <2> QED
    BY <1>0, <2>1, <2>3, <2>5
<1>4. CASE Deliver(c)
  <2> DEFINE new == [k EXCEPT !.buf = Tail(@)]
             e == Head(k.buf)
  <2>1. e \in log /\ Tail(k.buf) \in Seq(log)
    BY <1>0, <1>4 DEF Deliver
  <2>2. new \in Conn(c) /\ conn' = [conn EXCEPT ![c] = new]
    BY <1>0, <1>4, <2>1 DEF Conn, Deliver
  <2>3. seen' = [seen EXCEPT ![c] = IF e.actor = Owner[c] THEN Append(@, e) ELSE @]
    BY <1>4 DEF Deliver
  <2>4. seen' = [d \in Client |-> seen'[d]]
    BY <2>3 DEF FeedInv
  <2> HIDE DEF new, e
  <2>5. FeedInv'
    BY <1>0, <2>2, <2>4, ConnStep
  <2>6. CASE e.actor = Owner[c]
    <3>1. e \in Own(c) /\ seen' = [seen EXCEPT ![c] = Append(@, e)]
      BY <2>1, <2>3, <2>6 DEF Own
    <3> QED
      BY <1>0, <2>5, <3>1
  <2>7. CASE e.actor # Owner[c]
    <3>1. seen' = seen
      BY <2>3, <2>7 DEF FeedInv
    <3> QED
      BY <1>0, <2>5, <3>1
  <2> QED
    BY <2>6, <2>7
<1>5. CASE Disconnect(c)
  <2>1. Closed \in Conn(c) /\ conn' = [conn EXCEPT ![c] = Closed] /\ UNCHANGED seen
    BY <1>0, <1>5 DEF Disconnect, Closed, Conn
  <2> QED
    BY <1>0, <2>1, ConnStep DEF FeedInv
<1> QED
  BY <1>1, <1>2, <1>3, <1>4, <1>5 DEF StreamOwnerEvents

LEMMA FeedStep == FeedInv /\ [EventNext]_evars => FeedInv' /\ [FeedSpec!Next]_<<log, seen>>
<1> SUFFICES ASSUME FeedInv, [EventNext]_evars PROVE FeedInv' /\ [FeedSpec!Next]_<<log, seen>>
  OBVIOUS
<1>1. CASE \E w \in Writer : CreateEvent(w)
  BY <1>1, WriterStep DEF FeedSpec!Next, FeedSpec!Record
<1>2. CASE \E c \in Client : StreamOwnerEvents(c)
  <2>1. PICK c \in Client : StreamOwnerEvents(c)
    BY <1>2
  <2>2. CASE UNCHANGED <<log, seen>>
    BY <2>1, <2>2, StreamStep
  <2>3. CASE ~UNCHANGED <<log, seen>>
    <3>1. PICK e \in Own(c) : seen' = [seen EXCEPT ![c] = Append(@, e)] /\ UNCHANGED log
      BY <2>1, <2>3, StreamStep
    <3>2. e \in log /\ FeedSpec!Tell(c, e)
      BY <3>1 DEF FeedSpec!Tell, Own
    <3> QED
      BY <2>1, <3>2, StreamStep DEF FeedSpec!Next
  <2> QED
    BY <2>2, <2>3
<1>3. CASE Tick \/ UNCHANGED evars
  <2>1. UNCHANGED <<log, writer, conn, seen>>
    BY <1>3 DEF Tick, evars
  <2>2. \A c \in Client : Conn(c)' = Conn(c)
    BY <2>1 DEF Conn, Own
  <2> QED
    BY <2>1, <2>2 DEF FeedInv
<1> QED
  BY <1>1, <1>2, <1>3 DEF EventNext

--------------------------------------------------------------------------------
\* The event stream (CreateEvent, streamOwnerEvents) implements the feed: a client is
\* told only of stored events of its own account, one at a time, and the log only grows.
THEOREM StreamIsAFeed == EventSpec => ImplementsFeed
<1>1. EventInit => FeedSpec!Init
  BY DEF EventInit, FeedSpec!Init
<1> QED
  BY <1>1, FeedInvInit, FeedStep, PTL DEF EventSpec, ImplementsFeed, FeedSpec!Spec

--------------------------------------------------------------------------------
(* Lost events *)

OneEvent == \A w \in Writer : \A e, f \in writer[w] : e = f

Typed == log \subseteq Event /\ seen \in [Client -> Seq(Event)] /\ now \in 0 .. MaxTime

\* While it replays, a client has been sent, or is about to be, what its replay's query
\* could know, except what the code gives up on.
ReplayCovers ==
  \A c \in Client : conn[c].pc = "replayed" =>
     known[c] \subseteq Range(seen[c]) \cup Range(conn[c].replay) \cup excused[c]

Histories == known \in [Client -> SUBSET Event] /\ excused \in [Client -> SUBSET Event]

LossInv == FeedInv /\ OneEvent /\ Typed /\ Histories /\ ReplayCovers /\ LossesAreKnown

LEMMA RangeOfAppend ==
  ASSUME NEW S, NEW s \in Seq(S), NEW e \in S
  PROVE  Range(Append(s, e)) = Range(s) \cup {e}
<1>1. Append(s, e) \in Seq(S) /\ Len(Append(s, e)) = Len(s) + 1
  OBVIOUS
<1>2. \A i \in 1 .. Len(s) : Append(s, e)[i] = s[i]
  OBVIOUS
<1>3. Append(s, e)[Len(s) + 1] = e
  OBVIOUS
<1>4. DOMAIN s = 1 .. Len(s) /\ DOMAIN Append(s, e) = 1 .. Len(s) + 1 /\ Len(s) \in Nat
  BY <1>1
<1>5. 1 .. Len(s) + 1 = (1 .. Len(s)) \cup {Len(s) + 1}
  BY <1>4
<1> QED
  BY <1>2, <1>3, <1>4, <1>5 DEF Range

LEMMA RangeOfRest ==
  ASSUME NEW S, NEW s \in Seq(S), s # <<>>
  PROVE  Range(s) = {Head(s)} \cup Range(Tail(s))
<1>1. Tail(s) \in Seq(S) /\ Len(Tail(s)) = Len(s) - 1 /\ Len(s) \in Nat \ {0} /\ Head(s) = s[1]
  OBVIOUS
<1>2. \A i \in 1 .. Len(s) - 1 : Tail(s)[i] = s[i + 1]
  OBVIOUS
<1>3. DOMAIN s = 1 .. Len(s) /\ DOMAIN Tail(s) = 1 .. Len(s) - 1
  BY <1>1
<1>4. \A j \in 1 .. Len(s) : j = 1 \/ (j - 1 \in 1 .. Len(s) - 1 /\ s[j] = Tail(s)[j - 1])
  BY <1>1, <1>2
<1>5. ASSUME NEW x \in Range(s)
      PROVE  x \in {Head(s)} \cup Range(Tail(s))
  <2>1. PICK j \in 1 .. Len(s) : x = s[j]
    BY <1>3 DEF Range
  <2> QED
    BY <1>1, <1>3, <1>4, <2>1 DEF Range
<1>6. {Head(s)} \cup Range(Tail(s)) \subseteq Range(s)
  <2>1. \A i \in 1 .. Len(s) - 1 : i + 1 \in 1 .. Len(s)
    BY <1>1
  <2>2. 1 \in 1 .. Len(s)
    BY <1>1
  <2> QED
    BY <1>1, <1>2, <1>3, <2>1, <2>2 DEF Range
<1> QED
  BY <1>5, <1>6

LEMMA BeforeIsStrict ==
  ASSUME NEW g \in Event
  PROVE  ~Before(g, g)
<1>1. g.at \in 0 .. MaxTime /\ g.id \in Id
  BY DEF Event
<1>2. MaxTime \in Nat /\ Id \subseteq Nat
  BY Bounds
<1>3. g.at \in Nat
  BY <1>1, <1>2
<1>4. g.id \in Nat
  BY <1>1, <1>2
<1> QED
  BY <1>3, <1>4 DEF Before

\* A replay leaves out only what at least Limit others of the query come before.
LEMMA FirstOfIsFirst ==
  ASSUME NEW S \in SUBSET Event, IsFiniteSet(S), NEW r \in FirstOf(S), NEW e \in S, e \notin Range(r)
  PROVE  Cardinality({f \in S : Before(f, e)}) >= Limit
<1>1. PICK n : n = IF Cardinality(S) > Limit THEN Limit ELSE Cardinality(S)
  OBVIOUS
<1>2. Cardinality(S) \in Nat /\ n \in Nat
  BY <1>1, FS_CardinalityType, Bounds
<1>3. /\ r \in [1 .. n -> S]
      /\ \A i, j \in 1 .. n : i < j => Before(r[i], r[j])
      /\ \A g \in S \ Range(r), i \in 1 .. n : Before(r[i], g)
  BY <1>1 DEF FirstOf
<1>4. \A g \in Event : ~Before(g, g)
  BY BeforeIsStrict
<1>5. \A i, j \in 1 .. n : r[i] = r[j] => i = j
  <2>1. \A i, j \in 1 .. n : i < j => r[i] # r[j]
    BY <1>3, <1>4
  <2> QED
    BY <1>2, <2>1
<1>6. IsFiniteSet(1 .. n) /\ Cardinality(1 .. n) = n
  <2>1. 1 \in Int /\ n \in Int
    BY <1>2
  <2> QED
    BY <1>2, <2>1, FS_Interval
<1>7. CASE n = Cardinality(S)
  <2>1. r \in Injection(1 .. n, S)
    BY <1>3, <1>5 DEF Injection, IsInjective
  <2>2. r \in Surjection(1 .. n, S)
    BY <1>6, <1>7, <2>1, FS_Injection
  <2>3. e \in Range(r)
    BY <1>3, <2>2 DEF Surjection, Range
  <2> QED
    BY <2>3
<1>8. CASE n = Limit
  <2>1. PICK B : B = {f \in S : Before(f, e)}
    OBVIOUS
  <2>2. r \in Injection(1 .. n, B)
    BY <1>3, <1>5, <2>1 DEF Injection, IsInjective
  <2>3. IsFiniteSet(B)
    BY <2>1, FS_Subset
  <2>4. n <= Cardinality(B)
    BY <1>6, <2>2, <2>3, FS_Injection
  <2> QED
    BY <1>8, <2>1, <2>4
<1> QED
  BY <1>1, <1>7, <1>8
LEMMA LossInvInit == EventInit => LossInv
<1> SUFFICES ASSUME EventInit PROVE LossInv
  OBVIOUS
<1>1. OneEvent /\ Typed /\ Histories
  BY Bounds DEF EventInit, OneEvent, Typed, Histories
<1>2. ReplayCovers /\ LossesAreKnown
  BY DEF EventInit, ReplayCovers, LossesAreKnown, Closed
<1> QED
  BY <1>1, <1>2, FeedInvInit DEF LossInv

\* A new event is unpublished; one that is published is in every open subscription of its
\* owner, or was dropped there.
LEMMA WriterLosses ==
  ASSUME LossInv, NEW w \in Writer, CreateEvent(w)
  PROVE  LossInv'
<1>1. FeedInv /\ FeedInv' /\ UNCHANGED seen
  BY WriterStep DEF LossInv
<1>2. CASE Insert(w)
  <2>1. PICK e : /\ e \in Event /\ log' = log \cup {e}
                 /\ writer[w] = {} /\ writer' = [writer EXCEPT ![w] = {e}]
    <3>1. PICK i \in Id, a \in Actor :
             /\ writer[w] = {} /\ log' = log \cup {[id |-> i, at |-> now, actor |-> a]}
             /\ writer' = [writer EXCEPT ![w] = {[id |-> i, at |-> now, actor |-> a]}]
      BY <1>2 DEF Insert
    <3>2. [id |-> i, at |-> now, actor |-> a] \in Event
      BY DEF Event, LossInv, Typed
    <3> QED
      BY <3>1, <3>2
  <2>2. UNCHANGED now /\ UNCHANGED conn /\ UNCHANGED known /\ UNCHANGED excused
    BY <1>2 DEF Insert
  <2>3. Unpublished \cup {e} \subseteq Unpublished'
    BY <1>1, <2>1 DEF Unpublished, FeedInv
  <2>4. OneEvent'
    BY <1>1, <2>1 DEF OneEvent, LossInv, FeedInv
  <2>5. Typed' /\ Histories'
    BY <1>1, <2>1, <2>2 DEF LossInv, Typed, Histories
  <2>6. ReplayCovers'
    BY <1>1, <2>2 DEF LossInv, ReplayCovers
  <2>7. LossesAreKnown'
    <3>1. \A c \in Client : Own(c)' \subseteq Own(c) \cup {e}
      BY <2>1 DEF Own
    <3> QED
      BY <1>1, <2>2, <2>3, <3>1 DEF LossInv, LossesAreKnown
  <2> QED
    BY <1>1, <2>4, <2>5, <2>6, <2>7 DEF LossInv
<1>3. CASE Publish(w) \/ PublishSkipped(w)
  <2>1. PICK e \in writer[w] :
          /\ writer' = [writer EXCEPT ![w] = {}] /\ UNCHANGED <<now, log, seen, known>>
          /\ DOMAIN conn' = Client
          /\ excused' = [c \in Client |-> excused'[c]]
          /\ \A c \in Client :
               /\ conn'[c].pc = conn[c].pc /\ conn'[c].replay = conn[c].replay
               /\ excused'[c] \in {excused[c], excused[c] \cup {e}}
               /\ conn[c].pc = "live" /\ e.actor = Owner[c] =>
                    \/ e \in excused'[c] /\ conn'[c].buf = conn[c].buf
                    \/ conn'[c].buf = Append(conn[c].buf, e)
               /\ \/ conn'[c].buf = conn[c].buf
                  \/ conn'[c].buf = Append(conn[c].buf, e)
    <3>1. CASE Publish(w)
      <4> DEFINE live == {c \in Client : conn[c].pc = "live"}
                 full == {c \in live : Len(conn[c].buf) = Buffer}
      <4>1. \A c \in Client : c \in live <=> conn[c].pc = "live"
        OBVIOUS
      <4>2. PICK e \in writer[w] :
              /\ writer' = [writer EXCEPT ![w] = {}] /\ UNCHANGED <<now, log, seen, known>>
              /\ conn' = [c \in Client |-> IF c \in live \ full THEN [conn[c] EXCEPT !.buf = Append(@, e)] ELSE conn[c]]
              /\ excused' = [c \in Client |-> IF c \in full /\ e.actor = Owner[c] THEN excused[c] \cup {e} ELSE excused[c]]
        BY <3>1 DEF Publish
      <4> HIDE DEF live, full
      <4>3. ASSUME NEW c \in Client
            PROVE  /\ conn'[c].pc = conn[c].pc /\ conn'[c].replay = conn[c].replay
                   /\ conn'[c].buf = IF c \in live \ full THEN Append(conn[c].buf, e) ELSE conn[c].buf
        <5>1. conn[c] \in Conn(c)
          BY <1>1 DEF FeedInv
        <5> QED
          BY <4>2, <5>1 DEF Conn
      <4> QED
        BY <4>1, <4>2, <4>3
    <3>2. CASE PublishSkipped(w)
      <4>1. PICK e \in writer[w] :
              /\ writer' = [writer EXCEPT ![w] = {}] /\ UNCHANGED <<now, log, conn, seen, known>>
              /\ excused' = [c \in Client |->
                   IF conn[c].pc # "closed" /\ e.actor = Owner[c] THEN excused[c] \cup {e} ELSE excused[c]]
        BY <3>2 DEF PublishSkipped
      <4> QED
        BY <1>1, <4>1 DEF FeedInv
    <3> QED
      BY <1>3, <3>1, <3>2
  <2>2. e \in log /\ e \in Event
    BY <1>1, <2>1 DEF FeedInv, LossInv, Typed
  <2>3. Unpublished \subseteq Unpublished' \cup {e}
    <3>1. writer[w] \subseteq {e}
      BY <2>1 DEF LossInv, OneEvent
    <3>2. \A v \in Writer \ {w} : writer'[v] = writer[v]
      BY <1>1, <2>1 DEF FeedInv
    <3> QED
      BY <3>1, <3>2 DEF Unpublished
  <2>4. OneEvent'
    BY <1>1, <2>1 DEF OneEvent, LossInv, FeedInv
  <2>5. Typed'
    BY <2>1 DEF LossInv, Typed
  <2>6. Histories'
    <3>1. \A c \in Client : excused'[c] \in SUBSET Event
      BY <2>1, <2>2 DEF LossInv, Histories
    <3> QED
      BY <2>1, <3>1 DEF LossInv, Histories
  <2>7. \A c \in Client : excused[c] \subseteq excused'[c]
    BY <2>1
  <2>8. ReplayCovers'
    BY <2>1, <2>7 DEF LossInv, ReplayCovers
  <2>9. LossesAreKnown'
    <3> SUFFICES ASSUME NEW c \in Client, conn'[c].pc = "live"
                 PROVE  Own(c)' \subseteq Range(seen'[c]) \cup Range(conn'[c].buf) \cup Unpublished' \cup excused'[c]
      BY DEF LossesAreKnown
    <3>1. Own(c)' = Own(c) /\ seen'[c] = seen[c] /\ conn[c].pc = "live"
      BY <2>1 DEF Own
    <3>2. Own(c) \subseteq Range(seen[c]) \cup Range(conn[c].buf) \cup Unpublished \cup excused[c]
      BY <3>1 DEF LossInv, LossesAreKnown
    <3>3. Range(Append(conn[c].buf, e)) = Range(conn[c].buf) \cup {e}
      <4>1. conn[c].buf \in Seq(log)
        BY <1>1 DEF FeedInv, Conn
      <4> QED
        BY <2>2, <4>1, RangeOfAppend
    <3>4. Range(conn[c].buf) \subseteq Range(conn'[c].buf)
      BY <2>1, <3>3
    <3>5. e \in Own(c) => e \in Range(conn'[c].buf) \cup excused'[c]
      BY <2>1, <3>1, <3>3 DEF Own
    <3> QED
      BY <2>3, <2>7, <3>1, <3>2, <3>4, <3>5
  <2> QED
    BY <1>1, <2>4, <2>5, <2>6, <2>8, <2>9 DEF LossInv
<1> QED
  BY <1>2, <1>3 DEF CreateEvent

\* What a client's step does to the others: nothing.
LEMMA OwnLosses ==
  ASSUME LossInv, FeedInv', NEW c \in Client, UNCHANGED <<now, log, writer>>,
         Typed', Histories', \A d \in Client \ {c} : conn'[d] = conn[d] /\ seen'[d] = seen[d]
                                                     /\ known'[d] = known[d] /\ excused'[d] = excused[d],
         conn'[c].pc = "replayed" => known'[c] \subseteq Range(seen'[c]) \cup Range(conn'[c].replay) \cup excused'[c],
         conn'[c].pc = "live" => Own(c) \subseteq Range(seen'[c]) \cup Range(conn'[c].buf) \cup Unpublished \cup excused'[c]
  PROVE  LossInv'
<1>1. \A d \in Client : Own(d)' = Own(d)
  BY DEF Own
<1>2. Unpublished' = Unpublished /\ OneEvent'
  BY DEF Unpublished, OneEvent, LossInv
<1>3. ReplayCovers'
  BY DEF LossInv, ReplayCovers
<1>4. LossesAreKnown'
  BY <1>1, <1>2 DEF LossInv, LossesAreKnown
<1> QED
  BY <1>2, <1>3, <1>4 DEF LossInv

LEMMA StreamLosses ==
  ASSUME LossInv, NEW c \in Client, StreamOwnerEvents(c)
  PROVE  LossInv'
<1>1. FeedInv /\ FeedInv' /\ conn[c] \in Conn(c) /\ UNCHANGED log
  BY StreamStep DEF LossInv, FeedInv
<1>2. UNCHANGED now /\ UNCHANGED writer
  BY DEF StreamOwnerEvents, ConnectFirst, ConnectAgain, ConnectUnreplayed, Replay, Subscribe, Deliver, Disconnect
<1>3. DOMAIN conn = Client /\ seen \in [Client -> Seq(Event)] /\ known \in [Client -> SUBSET Event]
      /\ excused \in [Client -> SUBSET Event] /\ log \subseteq Event
  BY <1>1 DEF FeedInv, LossInv, Typed, Histories
<1>4. Own(c) \subseteq log /\ Own(c) \subseteq Event
  BY <1>3 DEF Own
<1>5. CASE ConnectFirst(c) \/ ConnectUnreplayed(c)
  <2>1. PICK missed \in SUBSET Own(c) :
          /\ Goto(c, "replayed") /\ known' = [known EXCEPT ![c] = missed]
          /\ excused' = [excused EXCEPT ![c] = excused[c] \cup missed] /\ UNCHANGED seen
    <3>1. CASE ConnectFirst(c)
      BY <3>1 DEF ConnectFirst
    <3>2. CASE ConnectUnreplayed(c)
      <4>1. known' = [known EXCEPT ![c] = Own(c)] /\ excused' = [excused EXCEPT ![c] = excused[c] \cup Own(c)]
            /\ Goto(c, "replayed") /\ UNCHANGED seen
        BY <3>2 DEF ConnectUnreplayed
      <4> QED
        BY <4>1
    <3> QED
      BY <1>5, <3>1, <3>2
  <2>2. conn'[c].pc = "replayed" /\ \A d \in Client \ {c} : conn'[d] = conn[d]
    BY <1>1, <1>3, <2>1 DEF Goto, Conn
  <2>3. Typed' /\ Histories'
    BY <1>1, <1>2, <1>3, <1>4, <2>1 DEF LossInv, Typed, Histories
  <2>4. known'[c] = missed /\ missed \subseteq excused'[c]
        /\ \A d \in Client \ {c} : known'[d] = known[d] /\ excused'[d] = excused[d]
    BY <1>3, <2>1
  <2> QED
    BY <1>1, <1>2, <2>1, <2>2, <2>3, <2>4, OwnLosses
<1>6. CASE ConnectAgain(c)
  <2>1. PICK r \in FirstOf(Later(c)) : conn' = [conn EXCEPT ![c] = [pc |-> "replayed", replay |-> r, buf |-> <<>>]]
    BY <1>6 DEF ConnectAgain, ListActorEventsAfter
  <2>2. PICK lost : lost = {e \in Own(c) : \/ ~Before(Last(seen[c]), e)
                                           \/ Cardinality({f \in Later(c) : Before(f, e)}) >= Limit}
    OBVIOUS
  <2>3. /\ known' = [known EXCEPT ![c] = Own(c)]
        /\ excused' = [excused EXCEPT ![c] = excused[c] \cup lost] /\ UNCHANGED seen
    BY <1>6, <2>2 DEF ConnectAgain
  <2>4. Own(c) \subseteq Range(r) \cup lost
    <3> SUFFICES ASSUME NEW e \in Own(c), e \notin Range(r), e \notin lost PROVE FALSE
      OBVIOUS
    <3>1. e \in Later(c)
      BY <2>2 DEF Later
    <3>2. Later(c) \in SUBSET Event /\ IsFiniteSet(Later(c))
      <4>1. Later(c) \subseteq Own(c)
        BY DEF Later
      <4> QED
        BY <1>1, <1>4, <4>1, FS_Subset DEF FeedInv
    <3>3. Cardinality({f \in Later(c) : Before(f, e)}) >= Limit
      BY <3>1, <3>2, FirstOfIsFirst
    <3> QED
      BY <2>2, <3>3
  <2>5. /\ conn'[c].pc = "replayed" /\ conn'[c].replay = r /\ known'[c] = Own(c) /\ excused'[c] = excused[c] \cup lost
        /\ \A d \in Client \ {c} : conn'[d] = conn[d] /\ known'[d] = known[d] /\ excused'[d] = excused[d]
    BY <1>3, <2>1, <2>3
  <2>6. Typed' /\ Histories'
    <3>1. lost \subseteq Event
      BY <1>4, <2>2
    <3> QED
      BY <1>1, <1>2, <1>3, <1>4, <2>3, <3>1 DEF LossInv, Typed, Histories
  <2> QED
    BY <1>1, <1>2, <2>3, <2>4, <2>5, <2>6, OwnLosses
<1>7. CASE Replay(c)
  <2>1. /\ conn[c].pc = "replayed" /\ conn[c].replay # <<>> /\ conn[c].replay \in Seq(Own(c))
        /\ seen' = [seen EXCEPT ![c] = Append(seen[c], Head(conn[c].replay))]
        /\ conn' = [conn EXCEPT ![c].replay = Tail(conn[c].replay)] /\ UNCHANGED <<known, excused>>
    BY <1>1, <1>7 DEF Replay, Conn
  <2>2. PICK e : e = Head(conn[c].replay)
    OBVIOUS
  <2>3. e \in Event
    BY <1>4, <2>1, <2>2
  <2>4. /\ conn'[c].pc = "replayed" /\ conn'[c].replay = Tail(conn[c].replay) /\ seen'[c] = Append(seen[c], e)
        /\ \A d \in Client \ {c} : conn'[d] = conn[d] /\ seen'[d] = seen[d]
    BY <1>1, <1>3, <2>1, <2>2 DEF Conn
  <2>5. Typed' /\ Histories'
    BY <1>1, <1>2, <1>3, <2>1, <2>2, <2>3 DEF LossInv, Typed, Histories
  <2>6. Range(seen'[c]) = Range(seen[c]) \cup {e} /\ Range(conn[c].replay) = {e} \cup Range(conn'[c].replay)
    BY <1>3, <2>1, <2>2, <2>3, <2>4, RangeOfAppend, RangeOfRest
  <2>7. known[c] \subseteq Range(seen[c]) \cup Range(conn[c].replay) \cup excused[c]
    BY <2>1 DEF LossInv, ReplayCovers
  <2> QED
    BY <1>1, <1>2, <2>1, <2>4, <2>5, <2>6, <2>7, OwnLosses
<1>8. CASE Subscribe(c)
  <2>1. /\ conn[c].pc = "replayed" /\ conn[c].replay = <<>> /\ Goto(c, "live")
        /\ excused' = [excused EXCEPT ![c] = excused[c] \cup Missed(c)] /\ UNCHANGED <<seen, known>>
    BY <1>8 DEF Subscribe
  <2>2. conn'[c].pc = "live" /\ excused'[c] = excused[c] \cup Missed(c)
        /\ \A d \in Client \ {c} : conn'[d] = conn[d] /\ excused'[d] = excused[d]
    BY <1>1, <1>3, <2>1 DEF Goto, Conn
  <2>3. Missed(c) \subseteq Event
    BY <1>4 DEF Missed
  <2>4. Typed' /\ Histories'
    BY <1>1, <1>2, <1>3, <2>1, <2>3 DEF LossInv, Typed, Histories
  <2>5. known[c] \subseteq Range(seen[c]) \cup excused[c]
    <3>1. Range(conn[c].replay) = {}
      BY <2>1 DEF Range
    <3> QED
      BY <2>1, <3>1 DEF LossInv, ReplayCovers
  <2>6. Own(c) \subseteq Range(seen[c]) \cup Unpublished \cup excused'[c]
    BY <2>2, <2>5 DEF Missed
  <2> QED
    BY <1>1, <1>2, <2>1, <2>2, <2>4, <2>6, OwnLosses
<1>9. CASE Deliver(c)
  <2>1. PICK e : e = Head(conn[c].buf)
    OBVIOUS
  <2>2. /\ conn[c].pc = "live" /\ conn[c].buf # <<>> /\ conn[c].buf \in Seq(log)
        /\ conn' = [conn EXCEPT ![c].buf = Tail(conn[c].buf)]
        /\ seen' = [seen EXCEPT ![c] = IF e.actor = Owner[c] THEN Append(seen[c], e) ELSE seen[c]]
        /\ UNCHANGED <<known, excused>>
    BY <1>1, <1>9, <2>1 DEF Deliver, Conn
  <2>3. e \in Event
    BY <1>3, <2>1, <2>2
  <2>4. /\ conn'[c].pc = "live" /\ conn'[c].buf = Tail(conn[c].buf)
        /\ seen'[c] = (IF e.actor = Owner[c] THEN Append(seen[c], e) ELSE seen[c])
        /\ \A d \in Client \ {c} : conn'[d] = conn[d] /\ seen'[d] = seen[d]
    BY <1>1, <1>3, <2>2 DEF Conn
  <2>5. Typed' /\ Histories'
    <3>1. Append(seen[c], e) \in Seq(Event)
      BY <1>3, <2>3
    <3> QED
      BY <1>1, <1>2, <1>3, <2>2, <3>1 DEF LossInv, Typed, Histories
  <2>6. Range(conn[c].buf) = {e} \cup Range(conn'[c].buf)
    BY <2>1, <2>2, <2>4, RangeOfRest
  <2>7. Range(seen[c]) \subseteq Range(seen'[c]) /\ (e.actor = Owner[c] => e \in Range(seen'[c]))
    BY <1>3, <2>3, <2>4, RangeOfAppend
  <2>8. Own(c) \subseteq Range(seen[c]) \cup Range(conn[c].buf) \cup Unpublished \cup excused[c]
    BY <2>2 DEF LossInv, LossesAreKnown
  <2>9. e \in Own(c) => e.actor = Owner[c]
    BY DEF Own
  <2>10. Own(c) \subseteq Range(seen'[c]) \cup Range(conn'[c].buf) \cup Unpublished \cup excused'[c]
    BY <2>2, <2>6, <2>7, <2>8, <2>9
  <2> QED
    BY <1>1, <1>2, <2>2, <2>4, <2>5, <2>10, OwnLosses
<1>10. CASE Disconnect(c)
  <2>1. conn' = [conn EXCEPT ![c] = Closed] /\ UNCHANGED <<seen, known, excused>>
    BY <1>10 DEF Disconnect
  <2>2. conn'[c].pc = "closed" /\ \A d \in Client \ {c} : conn'[d] = conn[d]
    BY <1>3, <2>1 DEF Closed
  <2>3. Typed' /\ Histories'
    BY <1>1, <1>2, <2>1 DEF LossInv, Typed, Histories
  <2> QED
    BY <1>1, <1>2, <2>1, <2>2, <2>3, OwnLosses
<1> QED
  BY <1>5, <1>6, <1>7, <1>8, <1>9, <1>10 DEF StreamOwnerEvents

LEMMA LossInvNext == LossInv /\ [EventNext]_evars => LossInv'
<1> SUFFICES ASSUME LossInv, [EventNext]_evars PROVE LossInv'
  OBVIOUS
<1>1. CASE Tick \/ UNCHANGED evars
  <2>1. UNCHANGED log /\ UNCHANGED writer /\ UNCHANGED conn /\ UNCHANGED seen /\ UNCHANGED known /\ UNCHANGED excused
    BY <1>1 DEF Tick, evars
  <2>2. now' \in 0 .. MaxTime
    BY <1>1, Bounds DEF LossInv, Typed, Tick, evars
  <2>3. FeedInv'
    BY FeedStep DEF LossInv
  <2> QED
    BY <2>1, <2>2, <2>3 DEF LossInv, Typed, Histories, OneEvent, ReplayCovers, LossesAreKnown, Own, Unpublished
<1> QED
  BY <1>1, WriterLosses, StreamLosses DEF EventNext

\* A client that follows live has been sent, or is about to be sent, every event of its
\* account but those of the five known losses (CreateEvent, ListActorEventsAfter,
\* streamOwnerEvents), for any clients, writers, limit, buffer and clock.
THEOREM LossesAreKnownAlways == EventSpec => []LossesAreKnown
<1>1. LossInv => LossesAreKnown
  BY DEF LossInv
<1> QED
  BY <1>1, LossInvInit, LossInvNext, PTL DEF EventSpec
================================================================================
