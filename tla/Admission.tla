------------------------------ MODULE Admission ------------------------------
(***************************************************************************)
(* Admission control (controlplane/budgets.go, hosts.go): what a create, a *)
(* fork or a start must fit into before its row is written.  Usage is      *)
(* stored nowhere: it is added up from the rows each time and compared     *)
(* with the limits of the user and of the host while the host's lock is    *)
(* held.  Only the local host runs machines.                               *)
(*                                                                         *)
(* A STOPPING row counts like a RUNNING one and is not told apart from it. *)
(* Machines have the configured default size, so a limit on memory, or on  *)
(* the host's CPUs, counts machines; a user's CPUs are limited by nothing. *)
(* Disk figures change outside admission (heartbeats measure the files, a  *)
(* save replaces its reservation by the real size): a disk limit may       *)
(* reject any request here, and nothing is claimed of it.                  *)
(* What the other components write into a row is ChangeState.              *)
(***************************************************************************)
EXTENDS Naturals, FiniteSets

CONSTANTS
  User, Mach,    \* a machine is the id of a row
  Owner,         \* the owner of each
  Req,           \* handlers, each serving one request after the other
  NoReq, NoMach,
  Limits         \* the configurations considered, each of three limits: the
                 \* machines a user's memory budget holds, the machines a user
                 \* may have, the machines the host's memory and CPU ceiling
                 \* hold; 0 is unlimited

ASSUME OwnerAssumption == Owner \in [Mach -> User]
ASSUME LimitAssumption == Limits \subseteq [compute : Nat, machines : Nat, host : Nat]
ASSUME MachAssumption == IsFiniteSet(Mach) /\ NoMach \notin Mach /\ NoReq \notin Req

VARIABLES
  limit,      \* the configuration, chosen once
  row,        \* the state of each machine's row, "none" without one
  host,       \* the host's row: status, whether the last heartbeat is recent,
              \* whether what it recorded leaves no room for a machine
  userLock, hostLock,
  req,        \* what each handler is doing: its stage, operation and machine
  unadmitted, \* history: machines that consume compute without admission
  uncounted   \* history: machines that count again after they had FAILED

hvars == <<limit, row, host, userLock, hostLock, req, unadmitted, uncounted>>
table == <<limit, row, unadmitted, uncounted>>

MachineState == {"none", "CREATING", "RUNNING", "STOPPED", "STARTING",
                 "DELETING", "FAILED"}

-----------------------------------------------------------------------------
(* What counts *)

\* machineConsumesCompute, machineCountsTowardQuota
Consumes(state) == state \in {"CREATING", "STARTING", "RUNNING"}
Counts(state)   == state \notin {"none", "FAILED"}

\* calculateUserUsage and calculateHostUsage
Active   == {m \in Mach : Consumes(row[m])}
Counted  == {m \in Mach : Counts(row[m])}
Of(u, machines) == {m \in machines : Owner[m] = u}

Fits(machines, delta, max) == max = 0 \/ Cardinality(machines) + delta <= max

\* computeBudgetDelta and its caller: a start adds compute only.
NewMachines(op) == IF op = "create" THEN 1 ELSE 0

UserFitsCount(u, op) == Fits(Of(u, Counted), NewMachines(op), limit.machines)

\* ensureUserCanCreateMachine, ensureUserCanStartMachine
UserFits(u, op) ==
  /\ Fits(Of(u, Counted), NewMachines(op), limit.machines)
  /\ Fits(Of(u, Active), 1, limit.compute)

\* ensureHostCanFitDelta
Usable == host.status = "ACTIVE" /\ host.fresh
HostFits == Usable /\ Fits(Active, 1, limit.host)

\* getPlacementHost: by what the last heartbeat recorded.
Placeable == Usable /\ ~host.full

-----------------------------------------------------------------------------

NoRequest == [pc |-> "idle", op |-> "none", mach |-> NoMach]

\* EnsureLocalHost
LocalHost == [status |-> "ACTIVE", fresh |-> FALSE, full |-> FALSE]

AdmissionInit ==
  /\ limit \in Limits
  /\ row  = [m \in Mach |-> "none"]
  /\ host = LocalHost
  /\ userLock = [u \in User |-> NoReq] /\ hostLock = NoReq
  /\ req = [r \in Req |-> NoRequest]
  /\ unadmitted = {} /\ uncounted = {}

Advance(r, pc) == req' = [req EXCEPT ![r].pc = pc]

\* The request holds its user's lock and has read its rows: a create needs a
\* new id and a place (a fork, or a create from a snapshot, stays on the host
\* of its source), a start a stopped machine.
BeginRequest(r, op, m) ==
  /\ req[r].pc = "idle" /\ userLock[Owner[m]] = NoReq
  /\ \/ op = "create" /\ row[m] = "none" /\ Placeable
     \/ op = "fork"   /\ row[m] = "none"
     \/ op = "start"  /\ row[m] = "STOPPED"
  /\ userLock' = [userLock EXCEPT ![Owner[m]] = r]
  /\ req' = [req EXCEPT ![r] = [pc |-> "prepared", mach |-> m,
                                op |-> IF op = "start" THEN "start" ELSE "create"]]
  /\ UNCHANGED <<table, host, hostLock>>

LockHostShared(r) ==
  /\ req[r].pc = "prepared"
  /\ hostLock' = r
  /\ Advance(r, "inside")
  /\ UNCHANGED <<table, host, userLock>>

LockHost(r) ==
  /\ req[r].pc = "prepared" /\ hostLock = NoReq
  /\ hostLock' = r
  /\ Advance(r, "inside")
  /\ UNCHANGED <<table, host, userLock>>

\* hostByID and the two ensure...: they read the host's row and the tables.
Check(r) ==
  /\ req[r].pc = "inside"
  /\ \/ /\ UserFits(Owner[req[r].mach], req[r].op) /\ HostFits
        /\ Advance(r, "admitted")
     \/ Advance(r, "decided")       \* rejected, perhaps for want of disk
  /\ UNCHANGED <<table, host, userLock, hostLock>>

\* store.CreateMachine, with an id of its own.
Insert(r) ==
  LET m == req[r].mach IN
  /\ req[r].pc = "admitted" /\ req[r].op = "create"
  /\ row' = [row EXCEPT ![m] = "CREATING"]
  /\ Advance(r, "decided")
  /\ UNCHANGED <<limit, host, userLock, hostLock, unadmitted, uncounted>>

\* UpdateMachineState(STARTING), whatever the row says by now.
MarkStarting(r) ==
  LET m == req[r].mach IN
  /\ req[r].pc = "admitted" /\ req[r].op = "start"
  /\ row' = [row EXCEPT ![m] = IF @ = "none" THEN @ ELSE "STARTING"]
  /\ unadmitted' = unadmitted \ {m}
  /\ uncounted'  = IF row[m] = "FAILED" THEN uncounted \cup {m} ELSE uncounted
  /\ Advance(r, "decided")
  /\ UNCHANGED <<limit, host, userLock, hostLock>>

UnlockHost(r) ==
  /\ req[r].pc = "decided"
  /\ hostLock' = NoReq
  /\ Advance(r, "leaving")
  /\ UNCHANGED <<table, host, userLock>>

Return(r) ==
  /\ req[r].pc = "leaving"
  /\ userLock' = [userLock EXCEPT ![Owner[req[r].mach]] = NoReq]
  /\ req' = [req EXCEPT ![r] = NoRequest]
  /\ UNCHANGED <<table, host, hostLock>>

Handle(r) ==
  \/ \E op \in {"create", "fork", "start"}, m \in Mach : BeginRequest(r, op, m)
  \/ LockHost(r) \/ Check(r) \/ Insert(r) \/ MarkStarting(r)
  \/ UnlockHost(r) \/ Return(r)

-----------------------------------------------------------------------------
(* The rest of the control plane *)

\* What jobs, power handlers, deletes and the reads that adopt a VM's state
\* write into an existing row.  A read may write long after it read: it is
\* not bound to the row's present state.
Written(state) ==
  {"RUNNING", "STOPPED"} \cup
  (IF state = "DELETING" THEN {"FAILED", "none"} ELSE {"DELETING", "FAILED"})

ChangeState(m) ==
  /\ row[m] # "none"
  /\ \E state \in Written(row[m]) \ {row[m]} :
       /\ row' = [row EXCEPT ![m] = state]
       /\ unadmitted' = IF ~Consumes(state) THEN unadmitted \ {m}
                        ELSE IF Consumes(row[m]) THEN unadmitted ELSE unadmitted \cup {m}
       /\ uncounted' = IF ~Counts(state) THEN uncounted \ {m}
                       ELSE IF Counts(row[m]) THEN uncounted ELSE uncounted \cup {m}
  /\ UNCHANGED <<limit, host, userLock, hostLock, req>>

\* UpdateHostHeartbeat: DRAINING stays.
Reported(healthy) ==
  IF host.status = "DRAINING" THEN "DRAINING"
  ELSE IF healthy THEN "ACTIVE" ELSE "UNHEALTHY"

\* HeartbeatLocalHost: an unhealthy host reports that it runs nothing.
Heartbeat(healthy) ==
  /\ host' = [status |-> Reported(healthy), fresh |-> TRUE,
              full |-> healthy /\ ~Fits(Active, 1, limit.host)]
  /\ UNCHANGED <<table, userLock, hostLock, req>>

\* Three intervals without a heartbeat.
Expire ==
  /\ host.fresh
  /\ host' = [host EXCEPT !.fresh = FALSE]
  /\ UNCHANGED <<table, userLock, hostLock, req>>

\* An operator takes the host out of service.
Drain ==
  /\ host.status # "DRAINING"
  /\ host' = [host EXCEPT !.status = "DRAINING"]
  /\ UNCHANGED <<table, userLock, hostLock, req>>

AdmissionNext ==
  \/ \E r \in Req : Handle(r)
  \/ \E m \in Mach : ChangeState(m)
  \/ \E healthy \in BOOLEAN : Heartbeat(healthy)
  \/ Expire \/ Drain

AdmissionSpec == AdmissionInit /\ [][AdmissionNext]_hvars

-----------------------------------------------------------------------------
(* Properties *)

ReqPC == {"idle", "prepared", "inside", "admitted", "decided", "leaving"}
Host == [status : {"ACTIVE", "UNHEALTHY", "DRAINING"}, fresh : BOOLEAN, full : BOOLEAN]
Request == [pc : ReqPC, op : {"none", "create", "start"}, mach : Mach \cup {NoMach}]

AdmissionTypeOK ==
  /\ limit \in Limits
  /\ row \in [Mach -> MachineState]
  /\ host \in Host
  /\ userLock \in [User -> Req \cup {NoReq}] /\ hostLock \in Req \cup {NoReq}
  /\ req \in [Req -> Request]
  /\ unadmitted \subseteq Active /\ uncounted \subseteq Counted

\* However requests and reads interleave, the machines that consume memory by
\* admission fit the user's budget: only a job or a read that revives a row
\* nobody reserved for can exceed it.
UserComputeKept == \A u \in User : Fits(Of(u, Active \ unadmitted), 0, limit.compute)

\* The same for the host's memory and CPU ceiling, over all users.
HostComputeKept == Fits(Active \ unadmitted, 0, limit.host)

\* A user's machines stay within their number, but for rows that had FAILED,
\* so freed their place, and came back.
UserMachinesKept == \A u \in User : Fits(Of(u, Counted \ uncounted), 0, limit.machines)
=============================================================================
