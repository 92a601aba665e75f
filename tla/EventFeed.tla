------------------------------- MODULE EventFeed -------------------------------
(***************************************************************************)
(* What the event stream promises a client, whatever the hub, the replay   *)
(* and the lost connections do: the log only grows, and a client is told,  *)
(* one at a time, of events of its own account that are in the log.        *)
(***************************************************************************)
EXTENDS Sequences

CONSTANTS Client, Actor, Owner

VARIABLES log, seen

Init == log = {} /\ seen = [c \in Client |-> <<>>]

Record(e) == e.actor \in Actor /\ log' = log \cup {e} /\ UNCHANGED seen

Tell(c, e) ==
  /\ e \in log /\ e.actor = Owner[c]
  /\ seen' = [seen EXCEPT ![c] = Append(@, e)]
  /\ UNCHANGED log

Next ==
  \/ \E e \in log' : Record(e)
  \/ \E c \in Client, e \in log : Tell(c, e)

Spec == Init /\ [][Next]_<<log, seen>>
================================================================================
