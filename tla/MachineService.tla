---------------------------- MODULE MachineService ----------------------------
(***************************************************************************)
(* What the control plane promises the owner of a machine about its row,   *)
(* whatever handlers, create jobs and reconcile passes do: a user is       *)
(* served one operation at a time; a row comes, goes and turns             *)
(* transitional only by its owner's operation on it; behind the user's     *)
(* back a creation ends, and a row that is not CREATING follows its VM.    *)
(***************************************************************************)
EXTENDS Naturals

CONSTANTS Name, User, NoUser

VARIABLES
  rows,       \* for each name its row, or NoRow
  issued,     \* number of rows ever inserted
  working     \* for each user the operation and name that is being worked on

NoRow == [id |-> 0, owner |-> NoUser, state |-> "none"]
Nothing == [op |-> "none", name |-> "none"]

\* what an operation may make of the row it is for
Outcomes ==
  [create |-> {},
   fork   |-> {"RUNNING", "STOPPED", "FAILED"},
   start  |-> {"STARTING", "RUNNING", "STOPPED"},
   stop   |-> {"STOPPING", "STOPPED", "RUNNING"},
   delete |-> {"DELETING", "RUNNING", "STOPPED", "FAILED", "missing"}]

Init ==
  /\ rows = [n \in Name |-> NoRow]
  /\ issued = 0
  /\ working = [u \in User |-> Nothing]

Become(n, s) == rows' = [rows EXCEPT ![n].state = s] /\ UNCHANGED issued

\* a user's operation gets the user's lock
Serve(u) ==
  /\ working[u] = Nothing
  /\ \E op \in DOMAIN Outcomes, n \in Name : working' = [working EXCEPT ![u] = [op |-> op, name |-> n]]
  /\ UNCHANGED <<rows, issued>>

Insert(u, n) ==
  /\ working[u].op \in {"create", "fork"}
  /\ rows[n] = NoRow
  /\ rows' = [rows EXCEPT ![n] = [id |-> issued + 1, owner |-> u, state |-> "CREATING"]]
  /\ issued' = issued + 1

\* only a fork ends the creation it waits for
Change(u, n) ==
  /\ rows[n].owner = u
  /\ rows[n].state = "CREATING" => working[u].op = "fork"
  /\ \E s \in Outcomes[working[u].op] : Become(n, s)

Remove(u, n) ==
  /\ working[u].op = "delete" /\ rows[n].owner = u /\ rows[n].state # "CREATING"
  /\ rows' = [rows EXCEPT ![n] = NoRow]
  /\ UNCHANGED issued

\* one step of the operation a user is served, which may be its last
Work(u) ==
  /\ working[u] # Nothing
  /\ \/ UNCHANGED <<rows, issued>>
     \/ LET n == working[u].name IN Insert(u, n) \/ Change(u, n) \/ Remove(u, n)
  /\ UNCHANGED working \/ working' = [working EXCEPT ![u] = Nothing]

CreationEnds(n) ==
  /\ rows[n].state = "CREATING"
  /\ \E s \in {"RUNNING", "STOPPED", "FAILED"} : Become(n, s)
  /\ UNCHANGED working

\* a get, a pass, or a create job that finds another row under its name
Follow(n) ==
  /\ rows[n].id # 0 /\ rows[n].state # "CREATING"
  /\ \E s \in {"RUNNING", "STOPPED", "missing", "FAILED"} : Become(n, s)
  /\ UNCHANGED working

\* the control plane dies, and with it what it was working on
Restart ==
  /\ working' = [u \in User |-> Nothing]
  /\ UNCHANGED <<rows, issued>>

Next ==
  \/ \E u \in User : Serve(u) \/ Work(u)
  \/ \E n \in Name : CreationEnds(n) \/ Follow(n)
  \/ Restart

Spec == Init /\ [][Next]_<<rows, issued, working>>
================================================================================
