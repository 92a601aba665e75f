------------------------------ MODULE HostProofs ------------------------------
(***************************************************************************)
(* Theorems about what the machines of a host share.  Of Admission: for    *)
(* any users, machines, handlers and limits, what requests admit fits,     *)
(* whatever jobs, reads and heartbeats do between a check and the write it *)
(* allows.  Of VMRuntime: for any names, calls and bounds, addresses       *)
(* differ, a machine has one VM, and nothing of it is lost between calls.  *)
(***************************************************************************)
EXTENDS Admission, VMRuntime, FiniteSetTheorems, WellFoundedInduction, TLAPS

(* Admission *)

ByAdmission == Active \ unadmitted
CountedByAdmission == Counted \ uncounted

\* the host's lock is held from the check to the write
LockHeld == \A r \in Req : req[r].pc \in {"inside", "admitted", "decided"} => hostLock = r

RequestsNamed == \A r \in Req : req[r].pc # "idle" => req[r].mach \in Mach /\ req[r].op \in {"create", "start"}

\* what an admitted request was told still holds when it writes
StillFits ==
  \A r \in Req : req[r].pc = "admitted" =>
     /\ Fits(ByAdmission, 1, limit.host)
     /\ Fits(Of(Owner[req[r].mach], ByAdmission), 1, limit.compute)
     /\ req[r].op = "create" => Fits(Of(Owner[req[r].mach], CountedByAdmission), 1, limit.machines)

Kept == HostComputeKept /\ UserComputeKept /\ UserMachinesKept

AdmissionInv == AdmissionTypeOK /\ LockHeld /\ RequestsNamed /\ StillFits /\ Kept

--------------------------------------------------------------------------------
LEMMA LimitsAreNat ==
  ASSUME AdmissionTypeOK
  PROVE  limit.compute \in Nat /\ limit.machines \in Nat /\ limit.host \in Nat
<1>1. limit \in [compute : Nat, machines : Nat, host : Nat]
  BY LimitAssumption DEF AdmissionTypeOK
<1> QED
  BY <1>1

\* Fewer machines need less, and one more needs one more.
LEMMA FitsLess ==
  ASSUME NEW A \in SUBSET Mach, NEW B \in SUBSET Mach, A \subseteq B,
         NEW d \in Nat, NEW max \in Nat, Fits(B, d, max)
  PROVE  Fits(A, d, max)
<1>1. IsFiniteSet(B)
  BY MachAssumption, FS_Subset
<1>2. Cardinality(A) <= Cardinality(B) /\ Cardinality(A) \in Nat /\ Cardinality(B) \in Nat
  BY <1>1, FS_Subset, FS_CardinalityType
<1> QED
  BY <1>2 DEF Fits

LEMMA FitsOneMore ==
  ASSUME NEW A \in SUBSET Mach, NEW B \in SUBSET Mach, NEW m \in Mach, A \subseteq B \cup {m},
         NEW max \in Nat, Fits(B, 1, max)
  PROVE  Fits(A, 0, max)
<1>1. IsFiniteSet(B)
  BY MachAssumption, FS_Subset
<1>2. IsFiniteSet(B \cup {m}) /\ Cardinality(B \cup {m}) <= Cardinality(B) + 1
  <2>1. Cardinality(B) \in Nat
    BY <1>1, FS_CardinalityType
  <2>2. /\ IsFiniteSet(B \cup {m})
        /\ Cardinality(B \cup {m}) = IF m \in B THEN Cardinality(B) ELSE Cardinality(B) + 1
    BY <1>1, FS_AddElement
  <2> QED
    BY <2>1, <2>2
<1>3. Cardinality(A) <= Cardinality(B \cup {m}) /\ IsFiniteSet(A)
  BY <1>2, FS_Subset
<1>4. Cardinality(A) \in Nat /\ Cardinality(B) \in Nat /\ Cardinality(B \cup {m}) \in Nat
  BY <1>1, <1>2, <1>3, FS_CardinalityType
<1> QED
  BY <1>2, <1>3, <1>4 DEF Fits

\* A step that brings no machine in by admission keeps what fits.
LEMMA NothingComesIn ==
  ASSUME AdmissionTypeOK, AdmissionTypeOK', Kept, UNCHANGED limit,
         ByAdmission' \subseteq ByAdmission, CountedByAdmission' \subseteq CountedByAdmission
  PROVE  /\ Kept'
         /\ \A d \in Nat :
              /\ Fits(ByAdmission, d, limit.host) => Fits(ByAdmission', d, limit.host)
              /\ \A u \in User :
                   /\ Fits(Of(u, ByAdmission), d, limit.compute) => Fits(Of(u, ByAdmission'), d, limit.compute)
                   /\ Fits(Of(u, CountedByAdmission), d, limit.machines) => Fits(Of(u, CountedByAdmission'), d, limit.machines)
<1>1. limit.compute \in Nat /\ limit.machines \in Nat /\ limit.host \in Nat
  BY LimitsAreNat
<1>2. /\ ByAdmission \subseteq Mach /\ CountedByAdmission \subseteq Mach
      /\ ByAdmission' \subseteq Mach /\ CountedByAdmission' \subseteq Mach
  BY DEF ByAdmission, CountedByAdmission, Active, Counted
<1>3. ASSUME NEW u \in User
      PROVE  /\ Of(u, ByAdmission') \subseteq Of(u, ByAdmission) /\ Of(u, ByAdmission) \subseteq Mach
             /\ Of(u, CountedByAdmission') \subseteq Of(u, CountedByAdmission) /\ Of(u, CountedByAdmission) \subseteq Mach
  BY <1>2 DEF Of
<1>4. ASSUME NEW d \in Nat
      PROVE  /\ Fits(ByAdmission, d, limit.host) => Fits(ByAdmission', d, limit.host)
             /\ \A u \in User :
                  /\ Fits(Of(u, ByAdmission), d, limit.compute) => Fits(Of(u, ByAdmission'), d, limit.compute)
                  /\ Fits(Of(u, CountedByAdmission), d, limit.machines) => Fits(Of(u, CountedByAdmission'), d, limit.machines)
  <2>1. Fits(ByAdmission, d, limit.host) => Fits(ByAdmission', d, limit.host)
    BY <1>1, <1>2, FitsLess
  <2>2. ASSUME NEW u \in User
        PROVE  Fits(Of(u, ByAdmission), d, limit.compute) => Fits(Of(u, ByAdmission'), d, limit.compute)
    BY <1>1, <1>3, FitsLess
  <2>3. ASSUME NEW u \in User
        PROVE  Fits(Of(u, CountedByAdmission), d, limit.machines) => Fits(Of(u, CountedByAdmission'), d, limit.machines)
    BY <1>1, <1>3, FitsLess
  <2> QED
    BY <2>1, <2>2, <2>3
<1>5. Kept'
  <2>1. Fits(ByAdmission, 0, limit.host) => Fits(ByAdmission', 0, limit.host)
    BY <1>4
  <2>2. \A u \in User : Fits(Of(u, ByAdmission), 0, limit.compute) => Fits(Of(u, ByAdmission'), 0, limit.compute)
    BY <1>4
  <2>3. \A u \in User : Fits(Of(u, CountedByAdmission), 0, limit.machines) => Fits(Of(u, CountedByAdmission'), 0, limit.machines)
    BY <1>4
  <2> QED
    BY <2>1, <2>2, <2>3 DEF Kept, HostComputeKept, UserComputeKept, UserMachinesKept, ByAdmission, CountedByAdmission, Fits, Of
<1> QED
  BY <1>4, <1>5

LEMMA AdmissionInvInit == AdmissionInit => AdmissionInv
<1> SUFFICES ASSUME AdmissionInit PROVE AdmissionInv
  OBVIOUS
<1>1. NoRequest \in Request /\ NoRequest.pc = "idle" /\ LocalHost \in Host
  BY DEF NoRequest, Request, ReqPC, LocalHost, Host
<1>2. Active = {} /\ Counted = {}
  BY DEF AdmissionInit, Active, Counted, Consumes, Counts
<1>3. AdmissionTypeOK
  BY <1>1, <1>2 DEF AdmissionInit, AdmissionTypeOK, MachineState
<1>4. LockHeld /\ RequestsNamed /\ StillFits
  BY <1>1 DEF AdmissionInit, LockHeld, RequestsNamed, StillFits
<1>5. Kept
  <2>1. /\ Active \ unadmitted = {}
        /\ \A u \in User : Of(u, Active \ unadmitted) = {} /\ Of(u, Counted \ uncounted) = {}
    BY <1>2 DEF Of
  <2>2. Cardinality({}) = 0
    BY FS_EmptySet
  <2>3. limit.compute \in Nat /\ limit.machines \in Nat /\ limit.host \in Nat
    BY <1>3, LimitsAreNat
  <2>4. ASSUME NEW A, A = {}, NEW max \in Nat PROVE Fits(A, 0, max)
    BY <2>2, <2>4 DEF Fits
  <2>5. HostComputeKept
    BY <2>1, <2>3, <2>4 DEF HostComputeKept
  <2>6. UserComputeKept
    BY <2>1, <2>3, <2>4 DEF UserComputeKept
  <2>7. UserMachinesKept
    BY <2>1, <2>3, <2>4 DEF UserMachinesKept
  <2> QED
    BY <2>5, <2>6, <2>7 DEF Kept
<1> QED
  BY <1>3, <1>4, <1>5 DEF AdmissionInv

\* A handler that moves on keeps its operation and its machine.
LEMMA HandlerMoves ==
  ASSUME AdmissionInv, NEW r \in Req, NEW pc \in ReqPC \ {"idle"}, Advance(r, pc), req[r].pc # "idle"
  PROVE  /\ req' \in [Req -> Request]
         /\ req'[r].pc = pc /\ req'[r].op = req[r].op /\ req'[r].mach = req[r].mach
         /\ \A q \in Req \ {r} : req'[q] = req[q]
         /\ RequestsNamed'
<1> DEFINE new == [req[r] EXCEPT !.pc = pc]
<1>1. req \in [Req -> Request] /\ req[r] \in Request
  BY DEF AdmissionInv, AdmissionTypeOK
<1>2. new \in Request /\ new.pc = pc /\ new.op = req[r].op /\ new.mach = req[r].mach
  BY <1>1 DEF Request
<1>3. req' = [req EXCEPT ![r] = new]
  BY DEF Advance
<1> HIDE DEF new
<1>4. /\ req' \in [Req -> Request]
      /\ req'[r].pc = pc /\ req'[r].op = req[r].op /\ req'[r].mach = req[r].mach
      /\ \A q \in Req \ {r} : req'[q] = req[q]
  BY <1>1, <1>2, <1>3
<1>5. RequestsNamed'
  BY <1>4 DEF AdmissionInv, RequestsNamed
<1> QED
  BY <1>4, <1>5

\* A step that leaves the rows alone keeps what counts.
LEMMA RowsAlone ==
  ASSUME AdmissionInv, UNCHANGED table
  PROVE  /\ UNCHANGED <<ByAdmission, CountedByAdmission, Active, Counted, limit>>
         /\ Kept'
<1>1. UNCHANGED <<ByAdmission, CountedByAdmission, Active, Counted, limit>>
  BY DEF table, ByAdmission, CountedByAdmission, Active, Counted
<1>2. Kept'
  BY <1>1 DEF AdmissionInv, Kept, HostComputeKept, UserComputeKept, UserMachinesKept, ByAdmission, CountedByAdmission, Fits, Of
<1> QED
  BY <1>1, <1>2

--------------------------------------------------------------------------------
LEMMA BeginKeeps ==
  ASSUME AdmissionInv, NEW r \in Req, NEW o, NEW m \in Mach, BeginRequest(r, o, m)
  PROVE  AdmissionInv'
<1> DEFINE new == [pc |-> "prepared", mach |-> m, op |-> IF o = "start" THEN "start" ELSE "create"]
<1>1. new \in Request /\ new.pc = "prepared" /\ new.mach = m /\ new.op \in {"create", "start"}
  BY DEF Request, ReqPC
<1>2. req' = [req EXCEPT ![r] = new] /\ UNCHANGED <<limit, row, unadmitted, uncounted, host, hostLock>>
  BY DEF BeginRequest, table
<1> HIDE DEF new
<1>3. /\ req' \in [Req -> Request] /\ req'[r] = new /\ \A q \in Req \ {r} : req'[q] = req[q]
  BY <1>1, <1>2 DEF AdmissionInv, AdmissionTypeOK
<1>4. UNCHANGED <<ByAdmission, CountedByAdmission, Active, Counted, limit>> /\ Kept'
  BY <1>2, RowsAlone DEF table
<1>5. AdmissionTypeOK'
  BY <1>2, <1>3, <1>4, OwnerAssumption DEF AdmissionInv, AdmissionTypeOK, BeginRequest
<1>6. LockHeld' /\ RequestsNamed'
  BY <1>1, <1>2, <1>3 DEF AdmissionInv, LockHeld, RequestsNamed
<1>7. StillFits'
  BY <1>1, <1>3, <1>4 DEF AdmissionInv, StillFits, Fits, Of
<1> QED
  BY <1>4, <1>5, <1>6, <1>7 DEF AdmissionInv

LEMMA LockKeeps == ASSUME AdmissionInv, NEW r \in Req, LockHost(r) PROVE AdmissionInv'
<1>1. /\ req' \in [Req -> Request] /\ req'[r].pc = "inside"
      /\ \A q \in Req \ {r} : req'[q] = req[q]
      /\ RequestsNamed'
  BY HandlerMoves DEF LockHost, ReqPC
<1>2. hostLock = NoReq /\ hostLock' = r /\ UNCHANGED <<limit, row, unadmitted, uncounted, host, userLock>>
  BY DEF LockHost, table
<1>3. UNCHANGED <<ByAdmission, CountedByAdmission, Active, Counted, limit>> /\ Kept'
  BY <1>2, RowsAlone DEF table
<1>4. AdmissionTypeOK'
  BY <1>1, <1>2, <1>3 DEF AdmissionInv, AdmissionTypeOK
<1>5. LockHeld'
  BY <1>1, <1>2, MachAssumption DEF AdmissionInv, LockHeld
<1>6. StillFits'
  BY <1>1, <1>3 DEF AdmissionInv, StillFits, Fits, Of
<1> QED
  BY <1>1, <1>3, <1>4, <1>5, <1>6 DEF AdmissionInv

\* What is checked is all that consumes, so what came in by admission fits too.
LEMMA CheckKeeps == ASSUME AdmissionInv, NEW r \in Req, Check(r) PROVE AdmissionInv'
<1>1. PICK pc \in {"admitted", "decided"} :
         /\ Advance(r, pc)
         /\ pc = "admitted" => UserFits(Owner[req[r].mach], req[r].op) /\ HostFits
  BY DEF Check
<1>2. req[r].pc = "inside" /\ UNCHANGED <<limit, row, unadmitted, uncounted, host, userLock, hostLock>>
  BY DEF Check, table
<1>3. /\ req' \in [Req -> Request] /\ req'[r].pc = pc
      /\ req'[r].op = req[r].op /\ req'[r].mach = req[r].mach
      /\ \A q \in Req \ {r} : req'[q] = req[q]
      /\ RequestsNamed'
  BY <1>1, <1>2, HandlerMoves DEF ReqPC
<1>4. UNCHANGED <<ByAdmission, CountedByAdmission, Active, Counted, limit>> /\ Kept'
  BY <1>2, RowsAlone DEF table
<1>5. AdmissionTypeOK' /\ LockHeld'
  BY <1>1, <1>2, <1>3, <1>4 DEF AdmissionInv, AdmissionTypeOK, LockHeld
<1>6. StillFits'
  <2> DEFINE u == Owner[req[r].mach]
  <2>1. ASSUME pc = "admitted"
        PROVE  /\ Fits(ByAdmission, 1, limit.host)
               /\ Fits(Of(u, ByAdmission), 1, limit.compute)
               /\ req[r].op = "create" => Fits(Of(u, CountedByAdmission), 1, limit.machines)
    <3>1. /\ Fits(Active, 1, limit.host) /\ Fits(Of(u, Active), 1, limit.compute)
          /\ req[r].op = "create" => Fits(Of(u, Counted), 1, limit.machines)
      BY <1>1, <2>1 DEF UserFits, HostFits, NewMachines
    <3>2. /\ ByAdmission \subseteq Active /\ Active \subseteq Mach
          /\ Of(u, ByAdmission) \subseteq Of(u, Active) /\ Of(u, Active) \subseteq Mach
          /\ Of(u, CountedByAdmission) \subseteq Of(u, Counted) /\ Of(u, Counted) \subseteq Mach
      BY DEF ByAdmission, CountedByAdmission, Active, Counted, Of
    <3>3. limit.compute \in Nat /\ limit.machines \in Nat /\ limit.host \in Nat
      BY LimitsAreNat DEF AdmissionInv
    <3> HIDE DEF u
    <3>4. Fits(ByAdmission, 1, limit.host)
      BY <3>1, <3>2, <3>3, FitsLess
    <3>5. Fits(Of(u, ByAdmission), 1, limit.compute)
      BY <3>1, <3>2, <3>3, FitsLess
    <3>6. req[r].op = "create" => Fits(Of(u, CountedByAdmission), 1, limit.machines)
      BY <3>1, <3>2, <3>3, FitsLess
    <3> QED
      BY <3>4, <3>5, <3>6
  <2>2. ASSUME NEW q \in Req \ {r}, req'[q].pc = "admitted"
        PROVE  /\ Fits(ByAdmission, 1, limit.host)'
               /\ Fits(Of(Owner[req[q].mach], ByAdmission), 1, limit.compute)'
               /\ req'[q].op = "create" => Fits(Of(Owner[req[q].mach], CountedByAdmission), 1, limit.machines)'
    BY <1>3, <1>4, <2>2 DEF AdmissionInv, StillFits, Fits, Of
  <2>3. ASSUME pc = "admitted"
        PROVE  /\ Fits(ByAdmission, 1, limit.host)'
               /\ Fits(Of(Owner[req[r].mach], ByAdmission), 1, limit.compute)'
               /\ req'[r].op = "create" => Fits(Of(Owner[req[r].mach], CountedByAdmission), 1, limit.machines)'
    BY <1>3, <1>4, <2>1, <2>3 DEF Fits, Of
  <2> HIDE DEF u
  <2> QED
    BY <1>3, <2>2, <2>3 DEF StillFits
<1> QED
  BY <1>3, <1>4, <1>5, <1>6 DEF AdmissionInv

LEMMA LeaveKeeps ==
  ASSUME AdmissionInv, NEW r \in Req, UnlockHost(r) \/ Return(r)
  PROVE  AdmissionInv'
<1>1. UNCHANGED <<limit, row, unadmitted, uncounted, host>>
  BY DEF UnlockHost, Return, table
<1>2. UNCHANGED <<ByAdmission, CountedByAdmission, Active, Counted, limit>> /\ Kept'
  BY <1>1, RowsAlone DEF table
<1>3. /\ req' \in [Req -> Request] /\ req'[r].pc \in {"leaving", "idle"}
      /\ \A q \in Req \ {r} : req'[q] = req[q]
      /\ RequestsNamed'
  <2>1. CASE UnlockHost(r)
    BY <2>1, HandlerMoves DEF UnlockHost, ReqPC
  <2>2. CASE Return(r)
    <3>1. NoRequest \in Request /\ NoRequest.pc = "idle"
      BY DEF NoRequest, Request, ReqPC
    <3> QED
      BY <2>2, <3>1 DEF Return, AdmissionInv, AdmissionTypeOK, RequestsNamed
  <2> QED
    BY <2>1, <2>2
<1>4. AdmissionTypeOK'
  BY <1>1, <1>2, <1>3 DEF AdmissionInv, AdmissionTypeOK, UnlockHost, Return
<1>5. LockHeld'
  BY <1>3 DEF AdmissionInv, LockHeld, UnlockHost, Return
<1>6. StillFits'
  BY <1>2, <1>3 DEF AdmissionInv, StillFits, Fits, Of
<1> QED
  BY <1>2, <1>3, <1>4, <1>5, <1>6 DEF AdmissionInv

LEMMA HostKeeps ==
  ASSUME AdmissionInv, (\E healthy \in BOOLEAN : Heartbeat(healthy)) \/ Expire \/ Drain
  PROVE  AdmissionInv'
<1>1. UNCHANGED <<limit, row, unadmitted, uncounted, userLock, hostLock, req>>
  BY DEF Heartbeat, Expire, Drain, table
<1>2. UNCHANGED <<ByAdmission, CountedByAdmission, Active, Counted, limit>> /\ Kept'
  BY <1>1, RowsAlone DEF table
<1>3. host' \in Host
  <2>0. host \in Host
    BY DEF AdmissionInv, AdmissionTypeOK
  <2>1. ASSUME NEW healthy \in BOOLEAN, Heartbeat(healthy) PROVE host' \in Host
    <3> DEFINE full == healthy /\ ~Fits(Active, 1, limit.host)
    <3>1. full \in BOOLEAN
      OBVIOUS
    <3>2. Reported(healthy) \in {"ACTIVE", "UNHEALTHY", "DRAINING"}
      BY DEF Reported
    <3>3. host' = [status |-> Reported(healthy), fresh |-> TRUE, full |-> full]
      BY <2>1 DEF Heartbeat
    <3> HIDE DEF full
    <3> QED
      BY <3>1, <3>2, <3>3 DEF Host
  <2>2. CASE Expire \/ Drain
    BY <2>0, <2>2 DEF Expire, Drain, Host
  <2> QED
    BY <2>1, <2>2
<1>4. AdmissionTypeOK'
  BY <1>1, <1>2, <1>3 DEF AdmissionInv, AdmissionTypeOK
<1>5. LockHeld' /\ RequestsNamed' /\ StillFits'
  BY <1>1, <1>2 DEF AdmissionInv, LockHeld, RequestsNamed, StillFits, Fits, Of
<1> QED
  BY <1>2, <1>4, <1>5 DEF AdmissionInv

\* One machine comes in where one more fits.
LEMMA OneComesIn ==
  ASSUME AdmissionTypeOK, Kept, NEW m \in Mach, UNCHANGED limit,
         ByAdmission' \subseteq ByAdmission \cup {m},
         CountedByAdmission' \subseteq CountedByAdmission \cup {m},
         Fits(ByAdmission, 1, limit.host),
         Fits(Of(Owner[m], ByAdmission), 1, limit.compute),
         \/ CountedByAdmission' \subseteq CountedByAdmission
         \/ Fits(Of(Owner[m], CountedByAdmission), 1, limit.machines)
  PROVE  Kept'
<1>1. limit.compute \in Nat /\ limit.machines \in Nat /\ limit.host \in Nat
  BY LimitsAreNat
<1>2. /\ ByAdmission \subseteq Mach /\ CountedByAdmission \subseteq Mach
      /\ ByAdmission' \subseteq Mach /\ CountedByAdmission' \subseteq Mach
  BY DEF ByAdmission, CountedByAdmission, Active, Counted
<1>3. Fits(ByAdmission', 0, limit.host)
  BY <1>1, <1>2, FitsOneMore
<1>4. ASSUME NEW u \in User PROVE Fits(Of(u, ByAdmission'), 0, limit.compute)
  <2>0. Of(u, ByAdmission') \subseteq Mach /\ Of(u, ByAdmission) \subseteq Mach
    BY <1>2 DEF Of
  <2>1. CASE u = Owner[m]
    <3>1. Of(u, ByAdmission') \subseteq Of(u, ByAdmission) \cup {m}
      BY DEF Of
    <3>2. Fits(Of(u, ByAdmission), 1, limit.compute)
      BY <2>1
    <3> QED
      BY <1>1, <2>0, <3>1, <3>2, FitsOneMore
  <2>2. CASE u # Owner[m]
    <3>1. Of(u, ByAdmission') \subseteq Of(u, ByAdmission)
      BY <2>2 DEF Of
    <3>2. Fits(Of(u, ByAdmission), 0, limit.compute)
      BY DEF Kept, UserComputeKept, ByAdmission
    <3> QED
      BY <1>1, <2>0, <3>1, <3>2, FitsLess
  <2> QED
    BY <2>1, <2>2
<1>5. ASSUME NEW u \in User PROVE Fits(Of(u, CountedByAdmission'), 0, limit.machines)
  <2>0. Of(u, CountedByAdmission') \subseteq Mach /\ Of(u, CountedByAdmission) \subseteq Mach
    BY <1>2 DEF Of
  <2>1. CASE u = Owner[m] /\ ~(CountedByAdmission' \subseteq CountedByAdmission)
    <3>1. Of(u, CountedByAdmission') \subseteq Of(u, CountedByAdmission) \cup {m}
      BY DEF Of
    <3>2. Fits(Of(u, CountedByAdmission), 1, limit.machines)
      BY <2>1
    <3> QED
      BY <1>1, <2>0, <3>1, <3>2, FitsOneMore
  <2>2. CASE u # Owner[m] \/ CountedByAdmission' \subseteq CountedByAdmission
    <3>1. Of(u, CountedByAdmission') \subseteq Of(u, CountedByAdmission)
      BY <2>2 DEF Of
    <3>2. Fits(Of(u, CountedByAdmission), 0, limit.machines)
      BY DEF Kept, UserMachinesKept, CountedByAdmission
    <3> QED
      BY <1>1, <2>0, <3>1, <3>2, FitsLess
  <2> QED
    BY <2>1, <2>2
<1> QED
  BY <1>3, <1>4, <1>5 DEF Kept, HostComputeKept, UserComputeKept, UserMachinesKept, ByAdmission, CountedByAdmission, Fits, Of

\* The host's lock leaves no other admitted request whose room this one could take.
LEMMA InsertKeeps ==
  ASSUME AdmissionInv, NEW r \in Req, Insert(r) \/ MarkStarting(r)
  PROVE  AdmissionInv'
<1> DEFINE m == req[r].mach
<1>0. AdmissionTypeOK /\ m \in Mach /\ req[r].pc = "admitted" /\ hostLock = r
  BY DEF AdmissionInv, RequestsNamed, LockHeld, Insert, MarkStarting
<1>1. /\ req' \in [Req -> Request] /\ req'[r].pc = "decided"
      /\ \A q \in Req \ {r} : req'[q] = req[q]
      /\ RequestsNamed'
  BY <1>0, HandlerMoves DEF Insert, MarkStarting, ReqPC
<1>2. /\ UNCHANGED <<limit, host, userLock, hostLock>>
      /\ \/ /\ req[r].op = "create" /\ row' = [row EXCEPT ![m] = "CREATING"]
            /\ UNCHANGED <<unadmitted, uncounted>>
         \/ /\ row[m] = "none" /\ row' = row /\ unadmitted' = unadmitted \ {m} /\ uncounted' = uncounted
         \/ /\ row[m] # "none" /\ row' = [row EXCEPT ![m] = "STARTING"] /\ unadmitted' = unadmitted \ {m}
            /\ uncounted' = IF row[m] = "FAILED" THEN uncounted \cup {m} ELSE uncounted
  <2>1. CASE Insert(r)
    BY <2>1 DEF Insert
  <2>2. CASE MarkStarting(r)
    <3>1. row[m] = "none" => row' = row
      BY <1>0, <2>2 DEF MarkStarting, AdmissionTypeOK
    <3> QED
      BY <2>2, <3>1 DEF MarkStarting
  <2> QED
    BY <2>1, <2>2
<1>3. /\ Fits(ByAdmission, 1, limit.host)
      /\ Fits(Of(Owner[m], ByAdmission), 1, limit.compute)
      /\ req[r].op = "create" => Fits(Of(Owner[m], CountedByAdmission), 1, limit.machines)
  BY <1>0 DEF AdmissionInv, StillFits
<1> HIDE DEF m
<1>4. /\ row' \in [Mach -> MachineState]
      /\ \A k \in Mach \ {m} : row'[k] = row[k]
      /\ row'[m] = row[m] \/ row'[m] \in {"CREATING", "STARTING"}
  BY <1>0, <1>2 DEF AdmissionTypeOK, MachineState
<1>5. unadmitted' \subseteq Active' /\ uncounted' \subseteq Counted'
  <2>1. unadmitted \subseteq Active /\ uncounted \subseteq Counted
    BY <1>0 DEF AdmissionTypeOK
  <2>2. ASSUME NEW k \in unadmitted' PROVE k \in Active'
    BY <1>0, <1>2, <1>4, <2>1, <2>2 DEF Active, Consumes, AdmissionTypeOK
  <2>3. ASSUME NEW k \in uncounted' PROVE k \in Counted'
    BY <1>0, <1>2, <1>4, <2>1, <2>3 DEF Counted, Counts, AdmissionTypeOK
  <2> QED
    BY <2>2, <2>3
<1>6. AdmissionTypeOK'
  BY <1>0, <1>1, <1>2, <1>4, <1>5 DEF AdmissionTypeOK
<1>7. ByAdmission' \subseteq ByAdmission \cup {m} /\ CountedByAdmission' \subseteq CountedByAdmission \cup {m}
  BY <1>2, <1>4 DEF ByAdmission, CountedByAdmission, Active, Counted
<1>8. req[r].op = "create" \/ CountedByAdmission' \subseteq CountedByAdmission
  <2>1. ASSUME req[r].op # "create", NEW k \in CountedByAdmission' PROVE k \in CountedByAdmission
    BY <1>0, <1>2, <1>4, <2>1 DEF CountedByAdmission, Counted, Counts, AdmissionTypeOK
  <2> QED
    BY <2>1
<1>9. Kept'
  BY <1>0, <1>2, <1>3, <1>7, <1>8, OneComesIn DEF AdmissionInv
<1>10. LockHeld' /\ StillFits'
  BY <1>0, <1>1, <1>2 DEF AdmissionInv, LockHeld, StillFits
<1> QED
  BY <1>1, <1>6, <1>9, <1>10 DEF AdmissionInv

\* Whatever a job or a read writes, what it brings in is recorded as unadmitted.
LEMMA ChangeKeeps == ASSUME AdmissionInv, NEW m \in Mach, ChangeState(m) PROVE AdmissionInv'
<1>0. AdmissionTypeOK /\ UNCHANGED <<limit, host, userLock, hostLock, req>>
  BY DEF AdmissionInv, ChangeState
<1>1. PICK state \in Written(row[m]) :
         /\ row' = [row EXCEPT ![m] = state]
         /\ unadmitted' = IF ~Consumes(state) THEN unadmitted \ {m}
                          ELSE IF Consumes(row[m]) THEN unadmitted ELSE unadmitted \cup {m}
         /\ uncounted' = IF ~Counts(state) THEN uncounted \ {m}
                         ELSE IF Counts(row[m]) THEN uncounted ELSE uncounted \cup {m}
  BY DEF ChangeState
<1>2. state \in MachineState
  BY DEF Written, MachineState
<1>3. row' \in [Mach -> MachineState] /\ row'[m] = state /\ \A k \in Mach \ {m} : row'[k] = row[k]
  BY <1>0, <1>1, <1>2 DEF AdmissionTypeOK
<1>4. unadmitted \subseteq Active /\ uncounted \subseteq Counted
  BY <1>0 DEF AdmissionTypeOK
<1>5. /\ \A k \in Mach : k \in Active <=> Consumes(row[k])
      /\ \A k \in Mach : k \in Active' <=> Consumes(row'[k])
      /\ \A k \in Mach : k \in Counted <=> Counts(row[k])
      /\ \A k \in Mach : k \in Counted' <=> Counts(row'[k])
      /\ Active \subseteq Mach /\ Active' \subseteq Mach /\ Counted \subseteq Mach /\ Counted' \subseteq Mach
  BY DEF Active, Counted
<1>6. unadmitted' \subseteq Active' /\ ByAdmission' \subseteq ByAdmission
  <2>1. CASE ~Consumes(state)
    BY <1>1, <1>3, <1>4, <1>5, <2>1 DEF ByAdmission
  <2>2. CASE Consumes(state) /\ Consumes(row[m])
    BY <1>1, <1>3, <1>4, <1>5, <2>2 DEF ByAdmission
  <2>3. CASE Consumes(state) /\ ~Consumes(row[m])
    BY <1>1, <1>3, <1>4, <1>5, <2>3 DEF ByAdmission
  <2> QED
    BY <2>1, <2>2, <2>3
<1>7. uncounted' \subseteq Counted' /\ CountedByAdmission' \subseteq CountedByAdmission
  <2>1. CASE ~Counts(state)
    BY <1>1, <1>3, <1>4, <1>5, <2>1 DEF CountedByAdmission
  <2>2. CASE Counts(state) /\ Counts(row[m])
    BY <1>1, <1>3, <1>4, <1>5, <2>2 DEF CountedByAdmission
  <2>3. CASE Counts(state) /\ ~Counts(row[m])
    BY <1>1, <1>3, <1>4, <1>5, <2>3 DEF CountedByAdmission
  <2> QED
    BY <2>1, <2>2, <2>3
<1>8. AdmissionTypeOK'
  BY <1>0, <1>3, <1>6, <1>7 DEF AdmissionTypeOK
<1>9. LockHeld' /\ RequestsNamed'
  BY <1>0 DEF AdmissionInv, LockHeld, RequestsNamed
<1>10. /\ Kept'
       /\ \A d \in Nat :
              /\ Fits(ByAdmission, d, limit.host) => Fits(ByAdmission', d, limit.host)
              /\ \A u \in User :
                   /\ Fits(Of(u, ByAdmission), d, limit.compute) => Fits(Of(u, ByAdmission'), d, limit.compute)
                   /\ Fits(Of(u, CountedByAdmission), d, limit.machines) => Fits(Of(u, CountedByAdmission'), d, limit.machines)
  BY <1>0, <1>6, <1>7, <1>8, NothingComesIn DEF AdmissionInv
<1>11. StillFits'
  <2>1. ASSUME NEW r \in Req, req[r].pc = "admitted"
        PROVE  /\ Fits(ByAdmission', 1, limit.host)
               /\ Fits(Of(Owner[req[r].mach], ByAdmission'), 1, limit.compute)
               /\ req[r].op = "create" => Fits(Of(Owner[req[r].mach], CountedByAdmission'), 1, limit.machines)
    <3>1. req[r].mach \in Mach /\ Owner[req[r].mach] \in User
      BY <2>1, OwnerAssumption DEF AdmissionInv, RequestsNamed
    <3>2. /\ Fits(ByAdmission, 1, limit.host)
          /\ Fits(Of(Owner[req[r].mach], ByAdmission), 1, limit.compute)
          /\ req[r].op = "create" => Fits(Of(Owner[req[r].mach], CountedByAdmission), 1, limit.machines)
      BY <2>1 DEF AdmissionInv, StillFits
    <3> QED
      BY <1>10, <3>1, <3>2
  <2> QED
    BY <1>0, <2>1 DEF StillFits, Fits, Of
<1> QED
  BY <1>8, <1>9, <1>10, <1>11 DEF AdmissionInv

LEMMA AdmissionInvStep == AdmissionInv /\ [AdmissionNext]_hvars => AdmissionInv'
<1> SUFFICES ASSUME AdmissionInv, [AdmissionNext]_hvars PROVE AdmissionInv'
  OBVIOUS
<1>1. CASE \E r \in Req : Handle(r)
  BY <1>1, BeginKeeps, LockKeeps, CheckKeeps, InsertKeeps, LeaveKeeps DEF Handle
<1>2. CASE \E m \in Mach : ChangeState(m)
  BY <1>2, ChangeKeeps
<1>3. CASE (\E healthy \in BOOLEAN : Heartbeat(healthy)) \/ Expire \/ Drain
  BY <1>3, HostKeeps
<1>4. CASE UNCHANGED hvars
  <2>1. UNCHANGED <<limit, row, host, userLock, hostLock, req, unadmitted, uncounted>>
    BY <1>4 DEF hvars
  <2>2. UNCHANGED <<ByAdmission, CountedByAdmission, Active, Counted, limit>> /\ Kept'
    BY <2>1, RowsAlone DEF table
  <2> QED
    BY <2>1, <2>2 DEF AdmissionInv, AdmissionTypeOK, LockHeld, RequestsNamed, StillFits, Fits, Of
<1> QED
  BY <1>1, <1>2, <1>3, <1>4 DEF AdmissionNext

--------------------------------------------------------------------------------
\* The machines that consume by admission fit the host (ensureHostCanFitDelta, under
\* the host's lock), for any number of users, machines and requests.
THEOREM HostIsNotOvercommitted == AdmissionSpec => []HostComputeKept
<1>1. AdmissionInv => HostComputeKept
  BY DEF AdmissionInv, Kept
<1> QED
  BY <1>1, AdmissionInvInit, AdmissionInvStep, PTL DEF AdmissionSpec

\* They fit each user's budget too (ensureUserCanCreateMachine, ensureUserCanStartMachine).
THEOREM UsersAreWithinBudget == AdmissionSpec => []UserComputeKept
<1>1. AdmissionInv => UserComputeKept
  BY DEF AdmissionInv, Kept
<1> QED
  BY <1>1, AdmissionInvInit, AdmissionInvStep, PTL DEF AdmissionSpec

\* And a user's machines stay within their number, but for rows that had FAILED and
\* came back.
THEOREM UsersHaveTheirNumber == AdmissionSpec => []UserMachinesKept
<1>1. AdmissionInv => UserMachinesKept
  BY DEF AdmissionInv, Kept
<1> QED
  BY <1>1, AdmissionInvInit, AdmissionInvStep, PTL DEF AdmissionSpec

--------------------------------------------------------------------------------
(* The VM runtime *)

\* A call that builds or changes its machine; a build has no metadata before
\* it has an address.
Changing(o) == op[o].kind \in Changes \cup {"create", "reap"}
Removing == {"delete", "reap"}
Building(o) == op[o].kind = "create" /\ op[o].pc \in {"mkdir", "lock"}
Loaded(o) == Changing(o) /\ ~Building(o)
\* its machine's directory is there
Holds(o) ==
  \/ op[o].kind = "start"
  \/ op[o].kind = "create" /\ ~op[o].cancelled /\ op[o].pc \notin {"mkdir", "lock", "remove"}

CallsWellFormed ==
  \A o \in Op :
    /\ op[o].pc = "idle" <=> op[o].kind = "none"
    /\ op[o].pc # "idle" => op[o].name \in Name
    /\ op[o].pc = "mkdir" => op[o].kind = "create"
    /\ op[o].pc \in {"lock", "network", "boot"} => op[o].kind \in {"create", "start"}
    /\ op[o].pc \in {"forward", "port", "wait", "failed"} => op[o].kind \in {"create", "start", "get"}
    /\ op[o].pc \in {"unforward", "halt", "unlink", "store"} => op[o].kind # "get"
    /\ op[o].pc = "remove" => op[o].kind \in {"create", "delete", "reap"}
    /\ op[o].cancelled => op[o].kind = "create"

\* A change has its machine to itself, except that a delete may run beside
\* the build it has cancelled, and a delete without lock beside what stops or
\* deletes.  This and all that follows is said of machines no such delete has
\* met while they were built or started.
Beside(o, q) ==
  \/ op[o].kind = "delete" /\ op[q].cancelled
  \/ op[o].kind = "reap" /\ op[q].kind \in {"stop", "delete", "reap"}

OneChange ==
  \A o, q \in Op :
    /\ o # q /\ Changing(o) /\ Changing(q)
    /\ op[o].name = op[q].name /\ op[o].name \notin raced
    => Beside(o, q) \/ Beside(q, o)

MetaOfDir ==
  \A n \in Name \ raced :
    /\ dir[n] # "meta" => meta[n] = NoMeta
    /\ dir[n] = "meta" => meta[n].addr # 0

\* What a call loaded or stored is still what the machine has.
Agrees(o) ==
  /\ Building(o) => dir[op[o].name] # "meta" /\ ~op[o].cancelled
  /\ Loaded(o) => dir[op[o].name] # "bare"
  /\ Loaded(o) /\ dir[op[o].name] = "meta" => meta[op[o].name].addr = op[o].meta.addr
  /\ Holds(o) => dir[op[o].name] = "meta"

CopiesAgree == \A o \in Op : op[o].name \notin raced => Agrees(o)

\* There is no network before a build makes one and after a stop took it away.
Unlinked(o) == op[o].pc \in {"store", "remove"} \/ (op[o].kind = "create" /\ op[o].pc = "network")

NetworkNamed ==
  /\ \A n \in Name \ raced : net[n] # 0 => dir[n] = "meta" /\ meta[n].addr = net[n]
  /\ \A o \in Op : Unlinked(o) /\ op[o].name \notin raced => net[op[o].name] = 0

AddressesTaken ==
  \A m, n \in Name \ raced :
    m # n /\ dir[m] = "meta" /\ dir[n] = "meta" => meta[m].addr # meta[n].addr

Tidy == OneChange /\ MetaOfDir /\ CopiesAgree /\ NetworkNamed /\ AddressesTaken

\* A VM is the one its machine's metadata name, or the one of a call that
\* failed to store it and is about to stop it.
Named(p) == dir[p[1]] = "meta" /\ meta[p[1]].vm = p[2]
Failing(p) ==
  \E o \in Op : /\ op[o].name = p[1] /\ op[o].kind \in {"create", "start"}
                /\ op[o].pc \in {"unforward", "halt"} /\ op[o].meta.vm = p[2]

\* What a call knows of the VM p of its machine.
Stopped(o) == op[o].pc \in {"unlink", "store", "remove"}
Knows(o, p) ==
  /\ op[o].pc \notin {"mkdir", "lock", "network", "boot"}
  /\ op[o].kind \in {"create", "start", "stop"} => ~Stopped(o) /\ p[2] = op[o].meta.vm
  /\ op[o].kind \in Removing => Failing(p) \/ (~Stopped(o) /\ p[2] = op[o].meta.vm)

OneEach == \A p, q \in vms : p[1] = q[1] /\ p[1] \notin raced => p = q
AllKnown == \A p \in vms : p[1] \notin raced => Named(p) \/ Failing(p)
CallsKnow == \A o \in Op : \A p \in vms : p[1] = op[o].name /\ p[1] \notin raced => Knows(o, p)
VMsKnown == OneEach /\ AllKnown /\ CallsKnow

RuntimeInv ==
  /\ RuntimeTypeOK /\ CallsWellFormed
  /\ Orderly => Tidy
  /\ Orderly /\ crashes = 0 => VMsKnown

--------------------------------------------------------------------------------
\* A set of naturals has a least element.
LEMMA LeastOf ==
  ASSUME NEW T \in SUBSET Nat, T # {}
  PROVE  \E x \in T : \A y \in T : x <= y
<1>1. PICK x \in T : \A y \in T : <<y, x>> \notin OpToRel(<, Nat)
  BY NatLessThanWellFounded, WFMin, Zenon
<1>2. \A y \in T : ~(y < x)
  BY <1>1 DEF OpToRel
<1> QED
  BY <1>2

\* The address prepareNetworkMetadata picks is free.
LEMMA FirstFreeIsFree ==
  ASSUME RuntimeTypeOK, NEW n \in Name, Free(n) # {}
  PROVE  FirstFree(n) \in Free(n)
<1>1. Free(n) \in SUBSET Nat
  BY RuntimeAssumption DEF Free
<1>2. \E a \in Free(n) : \A b \in Free(n) : a <= b
  BY <1>1, LeastOf
<1> QED
  BY <1>2 DEF FirstFree

LEMMA IdleIsCall == Idle \in Call /\ Idle.pc = "idle" /\ Idle.kind = "none" /\ Idle.cancelled = FALSE
BY RuntimeAssumption DEF Idle, Call, OpPC, Meta, NoMeta

LEMMA RuntimeInvInit == RuntimeInit => RuntimeInv
<1> SUFFICES ASSUME RuntimeInit PROVE RuntimeInv
  OBVIOUS
<1>1. RuntimeTypeOK
  BY RuntimeAssumption, IdleIsCall DEF RuntimeInit, RuntimeTypeOK, NoMeta, Meta
<1>2. CallsWellFormed
  BY IdleIsCall DEF RuntimeInit, CallsWellFormed
<1>3. Tidy
  BY IdleIsCall DEF RuntimeInit, Tidy, OneChange, MetaOfDir, CopiesAgree, Agrees, NetworkNamed, Unlinked,
     AddressesTaken, Changing, Changes, Building, Loaded, Holds
<1>4. VMsKnown
  BY DEF RuntimeInit, VMsKnown, OneEach, AllKnown, CallsKnow
<1> QED
  BY <1>1, <1>2, <1>3, <1>4 DEF RuntimeInv

--------------------------------------------------------------------------------
(* The types *)

LEMMA TypesBegin ==
  ASSUME RuntimeInv, NEW o \in Op, NEW n \in Name, NEW c \in Call, op' = [op EXCEPT ![o] = c],
         c.name = n, c.pc # "idle", c.kind # "none", ~c.cancelled,
         c.pc = "mkdir" => c.kind = "create",
         c.pc \in {"lock", "network", "boot"} => c.kind \in {"create", "start"},
         c.pc \in {"forward", "port", "wait", "failed"} => c.kind \in {"create", "start", "get"},
         c.pc \in {"unforward", "halt"} => c.kind # "get", c.pc \notin {"unlink", "store", "remove"},
         UNCHANGED <<disk, net, processes, mutex, crashes, stale>>, raced' \in SUBSET Name
  PROVE  RuntimeTypeOK' /\ CallsWellFormed'
<1>1. RuntimeTypeOK'
  BY DEF RuntimeInv, RuntimeTypeOK, disk, processes
<1>2. CallsWellFormed'
  BY DEF RuntimeInv, RuntimeTypeOK, CallsWellFormed
<1> QED
  BY <1>1, <1>2

\* How a step changes the call it is of.
OthersWait(o) == op' \in [Op -> Call] /\ \A q \in Op \ {o} : op'[q] = op[q]
Keeps(o) ==
  /\ op'[o].kind = op[o].kind /\ op'[o].name = op[o].name
  /\ op'[o].cancelled = op[o].cancelled
KeepsCopy(o) == op'[o].meta.addr = op[o].meta.addr /\ op'[o].meta.vm = op[o].meta.vm

LEMMA GotoMoves ==
  ASSUME RuntimeTypeOK, NEW o \in Op, NEW pc \in OpPC, Goto(o, pc)
  PROVE  OthersWait(o) /\ Keeps(o) /\ KeepsCopy(o) /\ op'[o].pc = pc /\ op'[o].meta = op[o].meta
<1>1. op \in [Op -> Call] /\ op[o] \in Call
  BY DEF RuntimeTypeOK
<1>2. [op[o] EXCEPT !.pc = pc] \in Call
  BY <1>1 DEF Call
<1>3. op' = [op EXCEPT ![o] = [op[o] EXCEPT !.pc = pc]]
  BY DEF Goto
<1>4. op'[o] = [op[o] EXCEPT !.pc = pc] /\ OthersWait(o)
  BY <1>1, <1>2, <1>3 DEF OthersWait
<1> QED
  BY <1>1, <1>4 DEF Keeps, KeepsCopy, Call

LEMMA CopyMoves ==
  ASSUME RuntimeTypeOK, NEW o \in Op, NEW pc \in OpPC, NEW m \in Meta,
         op' = [op EXCEPT ![o].pc = pc, ![o].meta = m]
  PROVE  OthersWait(o) /\ Keeps(o) /\ op'[o].pc = pc /\ op'[o].meta = m
<1>1. op \in [Op -> Call] /\ op[o] \in Call
  BY DEF RuntimeTypeOK
<1> DEFINE c == [op[o] EXCEPT !.pc = pc, !.meta = m]
<1>2. c \in Call
  BY <1>1 DEF Call
<1>3. op' = [op EXCEPT ![o] = c]
  BY <1>1
<1>4. op'[o] = c /\ OthersWait(o)
  BY <1>1, <1>2, <1>3 DEF OthersWait
<1> QED
  BY <1>1, <1>4 DEF Keeps, Call

LEMMA ForwarderMoves ==
  ASSUME RuntimeTypeOK, NEW o \in Op, NEW pc \in OpPC, NEW id \in 0 .. MaxFwd,
         op' = [op EXCEPT ![o].pc = pc, ![o].meta.fwd = id]
  PROVE  OthersWait(o) /\ Keeps(o) /\ KeepsCopy(o) /\ op'[o].pc = pc
<1>1. op \in [Op -> Call] /\ op[o] \in Call /\ op[o].meta \in Meta
  BY DEF RuntimeTypeOK, Call
<1> DEFINE m == [op[o].meta EXCEPT !.fwd = id]
<1> DEFINE c == [op[o] EXCEPT !.pc = pc, !.meta = m]
<1>2. m \in Meta /\ m.addr = op[o].meta.addr /\ m.vm = op[o].meta.vm
  BY <1>1 DEF Meta
<1>3. c \in Call /\ c.pc = pc /\ c.meta = m /\ c.kind = op[o].kind /\ c.name = op[o].name /\ c.cancelled = op[o].cancelled
  BY <1>1, <1>2 DEF Call
<1>4. op' = [op EXCEPT ![o] = c]
  BY <1>1 DEF Call
<1>5. op'[o] = c /\ OthersWait(o)
  BY <1>1, <1>3, <1>4 DEF OthersWait
<1> QED
  BY <1>2, <1>3, <1>5 DEF Keeps, KeepsCopy

LEMMA LeaveMoves ==
  ASSUME RuntimeTypeOK, NEW o \in Op, Leave(o)
  PROVE  OthersWait(o) /\ op'[o] = Idle /\ mutex' \in Op \cup {NoOp}
<1>1. op \in [Op -> Call] /\ mutex \in Op \cup {NoOp}
  BY DEF RuntimeTypeOK
<1> QED
  BY <1>1, IdleIsCall DEF Leave, OthersWait

\* A call that goes on is still well formed, and so are the others.
LEMMA StaysWellFormed ==
  ASSUME RuntimeInv, NEW o \in Op, OthersWait(o),
         \/ op'[o] = Idle
         \/ /\ Keeps(o) /\ op[o].pc # "idle" /\ op'[o].pc # "idle"
            /\ op'[o].pc # "mkdir"
            /\ op'[o].pc \in {"lock", "network", "boot"} => op[o].kind \in {"create", "start"}
            /\ op'[o].pc \in {"forward", "port", "wait", "failed"} => op[o].kind \in {"create", "start", "get"}
            /\ op'[o].pc \in {"unforward", "halt", "unlink", "store"} => op[o].kind # "get"
            /\ op'[o].pc = "remove" => op[o].kind \in {"create", "delete", "reap"}
  PROVE  CallsWellFormed'
<1>1. CallsWellFormed
  BY DEF RuntimeInv
<1>2. CASE op'[o] = Idle
  BY <1>1, <1>2, IdleIsCall DEF CallsWellFormed, OthersWait
<1>3. CASE op'[o] # Idle
  BY <1>1, <1>3 DEF CallsWellFormed, OthersWait, Keeps
<1> QED
  BY <1>2, <1>3

LEMMA StoredTypes ==
  ASSUME RuntimeTypeOK, NEW n \in Name, NEW m \in Meta, Store(n, m) \/ Remove(n)
  PROVE  dir' \in [Name -> {"none", "bare", "meta"}] /\ meta' \in [Name -> Meta]
<1>1. NoMeta \in Meta
  BY RuntimeAssumption DEF NoMeta, Meta
<1>2. dir \in [Name -> {"none", "bare", "meta"}] /\ meta \in [Name -> Meta]
  BY DEF RuntimeTypeOK
<1>3. CASE Store(n, m)
  BY <1>2, <1>3 DEF Store
<1>4. CASE Remove(n)
  BY <1>1, <1>2, <1>4 DEF Remove
<1> QED
  BY <1>3, <1>4

--------------------------------------------------------------------------------
(* Machines that were raced *)

\* A step that concerns only a machine of which nothing is claimed.
LEMMA RacedMove ==
  ASSUME RuntimeInv, RuntimeTypeOK', NEW n \in Name, n \in raced', raced \subseteq raced', UNCHANGED <<crashes, stale>>,
         \A k \in Name \ {n} : dir'[k] = dir[k] /\ meta'[k] = meta[k] /\ net'[k] = net[k],
         \A p \in vms' : p[1] # n => p \in vms,
         \A q \in Op : \/ op'[q] = op[q]
                       \/ /\ op[q] = Idle \/ op[q].name = n
                          /\ op'[q] = Idle \/ op'[q].name = n
  PROVE  /\ Orderly' => Tidy'
         /\ Orderly' /\ (crashes = 0)' => VMsKnown'
<1>1. CallsWellFormed /\ RuntimeTypeOK
  BY DEF RuntimeInv
<1>2. \A q \in Op : op'[q].name \notin raced' => op'[q] = op[q] \/ op'[q] = Idle
  OBVIOUS
<1>3. \A q \in Op : Changing(q)' /\ op'[q].name \notin raced'
                    => op'[q] = op[q] /\ op[q].name \in Name \ (raced \cup {n})
  BY <1>1, <1>2, IdleIsCall DEF Changing, Changes, CallsWellFormed
<1>4. ASSUME Orderly'
      PROVE  Tidy'
  <2>1. Tidy
    BY <1>4 DEF RuntimeInv, Orderly
  <2>2. OneChange'
    <3> SUFFICES ASSUME NEW q \in Op, NEW r \in Op, q # r, Changing(q)', Changing(r)', op'[q].name = op'[r].name,
                        op'[q].name \notin raced'
                 PROVE  Beside(q, r)' \/ Beside(r, q)'
      BY DEF OneChange
    <3>1. op'[q] = op[q] /\ op'[r] = op[r] /\ op[q].name \notin raced
      BY <1>3
    <3>2. Beside(q, r) \/ Beside(r, q)
      BY <2>1, <3>1 DEF Tidy, OneChange, Changing
    <3> QED
      BY <3>1, <3>2 DEF Beside
  <2>3. MetaOfDir' /\ AddressesTaken'
    BY <2>1 DEF Tidy, MetaOfDir, AddressesTaken
  <2>4. CopiesAgree'
    <3> SUFFICES ASSUME NEW q \in Op, op'[q].name \notin raced' PROVE Agrees(q)'
      BY DEF CopiesAgree
    <3>1. CASE Changing(q)'
      <4>1. op'[q] = op[q] /\ op[q].name \in Name \ (raced \cup {n})
        BY <1>3, <3>1
      <4>2. Agrees(q)
        BY <2>1, <4>1 DEF Tidy, CopiesAgree
      <4> QED
        BY <4>1, <4>2 DEF Agrees, Building, Loaded, Holds, Changing, Changes
    <3>2. CASE ~Changing(q)'
      BY <3>2 DEF Agrees, Building, Loaded, Holds, Changing, Changes
    <3> QED
      BY <3>1, <3>2
  <2>5. NetworkNamed'
    <3>1. \A k \in Name \ raced' : net'[k] # 0 => dir'[k] = "meta" /\ meta'[k].addr = net'[k]
      BY <2>1 DEF Tidy, NetworkNamed
    <3>2. ASSUME NEW q \in Op, Unlinked(q)', op'[q].name \notin raced'
          PROVE  net'[op'[q].name] = 0
      <4>1. op'[q] = op[q] /\ Unlinked(q)
        BY <1>2, <3>2, IdleIsCall DEF Unlinked
      <4>2. op[q].name \in Name \ (raced \cup {n})
        BY <1>1, <3>2, <4>1 DEF CallsWellFormed, Unlinked
      <4> QED
        BY <2>1, <4>1, <4>2 DEF Tidy, NetworkNamed
    <3> QED
      BY <3>1, <3>2 DEF NetworkNamed
  <2> QED
    BY <2>2, <2>3, <2>4, <2>5 DEF Tidy
<1>5. ASSUME Orderly', (crashes = 0)'
      PROVE  VMsKnown'
  <2>1. VMsKnown
    BY <1>5 DEF RuntimeInv, Orderly
  <2>2. ASSUME NEW p \in vms', p[1] \notin raced'
        PROVE  p \in vms /\ p[1] \in Name \ (raced \cup {n}) /\ (Named(p) => Named(p)') /\ (Failing(p) => Failing(p)')
    <3>1. p \in vms /\ p[1] \in Name \ (raced \cup {n})
      BY <1>1, <2>2 DEF RuntimeTypeOK
    <3>2. Named(p) => Named(p)'
      BY <3>1 DEF Named
    <3>3. Failing(p) => Failing(p)'
      BY <3>1, IdleIsCall DEF Failing
    <3> QED
      BY <3>1, <3>2, <3>3
  <2>3. OneEach' /\ AllKnown'
    BY <2>1, <2>2 DEF VMsKnown, OneEach, AllKnown
  <2>4. ASSUME NEW q \in Op, NEW p \in vms', p[1] = op'[q].name, p[1] \notin raced'
        PROVE  Knows(q, p)'
    <3>1. CASE op'[q] = op[q]
      <4>1. Knows(q, p)
        BY <2>1, <2>2, <2>4, <3>1 DEF VMsKnown, CallsKnow
      <4> QED
        BY <2>2, <2>4, <3>1, <4>1 DEF Knows, Stopped
    <3>2. CASE op'[q] = Idle
      BY <3>2, IdleIsCall DEF Knows, Removing
    <3> QED
      BY <1>2, <2>4, <3>1, <3>2
  <2> QED
    BY <2>3, <2>4 DEF VMsKnown, CallsKnow
<1> QED
  BY <1>4, <1>5

--------------------------------------------------------------------------------
(* Steps that leave machine, network and VMs alone *)

\* A call that goes on towards its end with the address it has.
Proceeds(o) ==
  /\ Keeps(o) /\ op'[o].meta.addr = op[o].meta.addr
  /\ ~Building(o) /\ op[o].pc \notin {"idle", "store", "remove"}
  /\ op'[o].pc \notin {"idle", "mkdir", "lock", "store", "remove"}
  /\ op'[o].pc \in {"network", "boot"} => op[o].pc \in {"lock", "network", "boot"} /\ op[o].kind = "start"

\* The same, with the VM it has.
GoesOn(o) ==
  /\ Proceeds(o) /\ KeepsCopy(o)
  /\ op[o].pc # "unlink" /\ op'[o].pc # "unlink"
  /\ op[o].pc \in {"unforward", "halt"} => op'[o].pc \in {"unforward", "halt"}

\* At most the forwarders that metadata name have changed.
SameDisk ==
  /\ UNCHANGED dir
  /\ \A n \in Name : /\ meta'[n].addr = meta[n].addr /\ meta'[n].vm = meta[n].vm
                     /\ dir[n] # "meta" => meta'[n] = meta[n]

LEMMA QuietTidy ==
  ASSUME RuntimeInv, Orderly, NEW o \in Op, OthersWait(o), op'[o] = Idle \/ Proceeds(o),
         SameDisk, UNCHANGED <<net, raced>>
  PROVE  Tidy'
<1>1. SameDisk /\ UNCHANGED net /\ UNCHANGED raced
  OBVIOUS
<1>2. CallsWellFormed /\ RuntimeTypeOK /\ Tidy
  BY DEF RuntimeInv
<1>3. OneChange'
  <2>1. \A q \in Op : Changing(q)' => /\ Changing(q) /\ op'[q].kind = op[q].kind /\ op'[q].name = op[q].name
                                      /\ op'[q].cancelled = op[q].cancelled
    BY IdleIsCall DEF Changing, Changes, OthersWait, Proceeds, Keeps
  <2> QED
    BY <1>1, <1>2, <2>1 DEF Tidy, OneChange, Beside
<1>4. MetaOfDir' /\ AddressesTaken'
  BY <1>1, <1>2 DEF Tidy, MetaOfDir, AddressesTaken, SameDisk
<1>5. CopiesAgree'
  <2> SUFFICES ASSUME NEW q \in Op, op'[q].name \notin raced' PROVE Agrees(q)'
    BY DEF CopiesAgree
  <2>1. CASE op'[q] = op[q]
    <3>1. Agrees(q)
      BY <1>1, <1>2, <2>1 DEF Tidy, CopiesAgree
    <3>2. Changing(q) => op[q].name \in Name
      BY <1>2 DEF CallsWellFormed, Changing, Changes
    <3> QED
      BY <1>1, <2>1, <3>1, <3>2 DEF SameDisk, Agrees, Building, Loaded, Holds, Changing, Changes
  <2>2. CASE op'[q] = Idle
    BY <2>2, IdleIsCall DEF Agrees, Building, Loaded, Holds, Changing, Changes
  <2>3. CASE q = o /\ Proceeds(o)
    <3>1. op[o].name \in Name /\ Agrees(o)
      BY <1>1, <1>2, <2>3 DEF Tidy, CopiesAgree, CallsWellFormed, Proceeds, Keeps
    <3> QED
      BY <1>1, <2>3, <3>1 DEF SameDisk, Agrees, Building, Loaded, Holds, Changing, Changes, Proceeds, Keeps
  <2> QED
    BY <2>1, <2>2, <2>3 DEF OthersWait
<1>6. NetworkNamed'
  <2>1. \A q \in Op : Unlinked(q)' => Unlinked(q) /\ op'[q].name = op[q].name
    BY IdleIsCall DEF Unlinked, OthersWait, Proceeds, Keeps
  <2> QED
    BY <1>1, <1>2, <2>1 DEF SameDisk, Tidy, NetworkNamed
<1> QED
  BY <1>3, <1>4, <1>5, <1>6 DEF Tidy

LEMMA QuietMove ==
  ASSUME RuntimeInv, NEW o \in Op, OthersWait(o),
         (op'[o] = Idle /\ op[o].pc \notin {"unforward", "halt"}) \/ GoesOn(o),
         SameDisk, UNCHANGED <<net, vms, crashes, raced, stale>>
  PROVE  /\ Orderly' => Tidy'
         /\ Orderly' /\ (crashes = 0)' => VMsKnown'
<1>1. SameDisk /\ UNCHANGED net /\ UNCHANGED vms /\ UNCHANGED crashes /\ UNCHANGED raced /\ UNCHANGED stale
  OBVIOUS
<1>2. Orderly' => Tidy'
  BY <1>1, QuietTidy DEF Orderly, GoesOn
<1>4. CallsWellFormed /\ RuntimeTypeOK
  BY DEF RuntimeInv
<1>3. ASSUME Orderly', (crashes = 0)'
      PROVE  VMsKnown'
  <2>1. VMsKnown /\ CallsWellFormed
    BY <1>1, <1>3 DEF RuntimeInv, Orderly
  <2>2. \A p \in vms : (Named(p)' <=> Named(p)) /\ (Failing(p) => Failing(p)')
    BY <1>1, <1>4 DEF SameDisk, RuntimeTypeOK, Named, Failing, OthersWait, GoesOn, Proceeds, Keeps, KeepsCopy
  <2>3. OneEach' /\ AllKnown'
    BY <1>1, <2>1, <2>2 DEF VMsKnown, OneEach, AllKnown
  <2>4. ASSUME NEW q \in Op, NEW p \in vms, p[1] = op'[q].name, p[1] \notin raced
        PROVE  Knows(q, p)'
    <3>1. CASE q # o
      BY <1>1, <2>1, <2>2, <2>4, <3>1 DEF VMsKnown, CallsKnow, Knows, Stopped, OthersWait
    <3>2. CASE q = o /\ op'[o] = Idle
      BY <3>2, IdleIsCall DEF Knows, Removing
    <3>3. CASE q = o /\ GoesOn(o)
      <4>1. Knows(o, p)
        BY <2>1, <2>4, <3>3 DEF VMsKnown, CallsKnow, GoesOn, Proceeds, Keeps
      <4> QED
        BY <1>1, <2>1, <2>2, <2>4, <3>3, <4>1
        DEF CallsWellFormed, Knows, Stopped, Removing, GoesOn, Proceeds, Keeps, KeepsCopy
    <3> QED
      BY <3>1, <3>2, <3>3
  <2> QED
    BY <1>1, <2>3, <2>4 DEF VMsKnown, CallsKnow
<1> QED
  BY <1>2, <1>3

--------------------------------------------------------------------------------
(* Calls begin *)

\* A call that begins on a machine that is not, or no longer, claimed for.
LEMMA BeginsRaced ==
  ASSUME RuntimeInv, NEW o \in Op, NEW n \in Name, op[o] = Idle, OthersWait(o), op'[o].name = n,
         n \in raced', raced \subseteq raced', RuntimeTypeOK', UNCHANGED <<disk, net, processes, crashes, stale>>
  PROVE  /\ Orderly' => Tidy'
         /\ Orderly' /\ (crashes = 0)' => VMsKnown'
<1>1. \A k \in Name \ {n} : dir'[k] = dir[k] /\ meta'[k] = meta[k] /\ net'[k] = net[k]
  BY DEF disk
<1>2. \A p \in vms' : p[1] # n => p \in vms
  BY DEF processes
<1>3. \A q \in Op : \/ op'[q] = op[q]
                    \/ /\ op[q] = Idle \/ op[q].name = n
                       /\ op'[q] = Idle \/ op'[q].name = n
  BY DEF OthersWait
<1>4. UNCHANGED <<crashes, stale>>
  OBVIOUS
<1> QED
  BY <1>1, <1>2, <1>3, <1>4, RacedMove

\* What holds of the others when a call begins and its machine was not raced.
LEMMA OthersKnow ==
  ASSUME RuntimeInv, NEW o \in Op, op[o] = Idle, OthersWait(o), UNCHANGED <<disk, net, vms, raced>>
  PROVE  /\ \A p \in vms : (Named(p)' <=> Named(p)) /\ (Failing(p) => Failing(p)')
         /\ VMsKnown => /\ OneEach' /\ AllKnown'
                        /\ \A q \in Op \ {o}, p \in vms : p[1] = op'[q].name /\ p[1] \notin raced => Knows(q, p)'
<1>1. UNCHANGED dir /\ UNCHANGED meta /\ UNCHANGED net /\ UNCHANGED vms /\ UNCHANGED raced
  BY DEF disk
<1>2. \A p \in vms : (Named(p)' <=> Named(p)) /\ (Failing(p) => Failing(p)')
  BY <1>1, IdleIsCall DEF Named, Failing, OthersWait
<1>3. ASSUME VMsKnown
      PROVE  OneEach' /\ AllKnown'
  BY <1>1, <1>2, <1>3 DEF VMsKnown, OneEach, AllKnown
<1>4. ASSUME VMsKnown, NEW q \in Op \ {o}, NEW p \in vms, p[1] = op'[q].name, p[1] \notin raced
      PROVE  Knows(q, p)'
  BY <1>1, <1>2, <1>4 DEF VMsKnown, CallsKnow, Knows, Stopped, OthersWait
<1> QED
  BY <1>2, <1>3, <1>4

\* The new call's part, when it agrees with its machine and no change beside it
\* needs the machine to itself.
LEMMA BeginTidy ==
  ASSUME RuntimeInv, Orderly, NEW o \in Op, op[o] = Idle, OthersWait(o), UNCHANGED <<disk, net, raced>>,
         ~Unlinked(o)', Agrees(o)',
         Changing(o)' => \A q \in Op \ {o} : Changing(q) /\ op[q].name = op'[o].name
                                           => Beside(o, q)' \/ Beside(q, o)'
  PROVE  Tidy'
<1>1. UNCHANGED dir /\ UNCHANGED meta /\ UNCHANGED net /\ UNCHANGED raced
  BY DEF disk
<1>2. Tidy
  BY DEF RuntimeInv
<1>3. OneChange'
  <2> SUFFICES ASSUME NEW q \in Op, NEW r \in Op, q # r, Changing(q)', Changing(r)', op'[q].name = op'[r].name,
                      op'[q].name \notin raced
               PROVE  Beside(q, r)' \/ Beside(r, q)'
    BY <1>1 DEF OneChange
  <2>1. CASE q # o /\ r # o
    <3>1. op'[q] = op[q] /\ op'[r] = op[r]
      BY <2>1 DEF OthersWait
    <3>2. Beside(q, r) \/ Beside(r, q)
      BY <1>2, <3>1 DEF Tidy, OneChange, Changing
    <3> QED
      BY <3>1, <3>2 DEF Beside
  <2>2. CASE q = o \/ r = o
    BY <2>2 DEF OthersWait, Changing
  <2> QED
    BY <2>1, <2>2
<1>4. MetaOfDir' /\ AddressesTaken'
  BY <1>1, <1>2 DEF Tidy, MetaOfDir, AddressesTaken
<1>5. CopiesAgree'
  <2>1. \A q \in Op \ {o} : Agrees(q) => Agrees(q)'
    BY <1>1 DEF Agrees, Building, Loaded, Holds, Changing, OthersWait
  <2> QED
    BY <1>1, <1>2, <2>1 DEF Tidy, CopiesAgree, OthersWait
<1>6. NetworkNamed'
  BY <1>1, <1>2 DEF Tidy, NetworkNamed, Unlinked, OthersWait
<1> QED
  BY <1>3, <1>4, <1>5, <1>6 DEF Tidy

\* A machine without directory has no VM, and no other call changes it.
LEMMA CreateInv ==
  ASSUME RuntimeInv, NEW o \in Op, NEW n \in Name, Create(o, n)
  PROVE  RuntimeInv'
<1>1. PICK c : c = [Idle EXCEPT !.pc = "mkdir", !.kind = "create", !.name = n]
  OBVIOUS
<1>2. c \in Call /\ c.pc = "mkdir" /\ c.kind = "create" /\ c.name = n /\ c.cancelled = FALSE
  BY <1>1, IdleIsCall DEF Idle, Call, OpPC
<1>3. /\ op' = [op EXCEPT ![o] = c] /\ op[o] = Idle /\ dir[n] = "none" /\ Orderly
      /\ On(n, Changes \cup {"create"}) = {} /\ UNCHANGED <<disk, net, processes, mutex, crashes, stale>>
  BY <1>1 DEF Create
<1>4. raced' = IF On(n, {"reap"}) = {} THEN raced ELSE raced \cup {n}
  BY DEF Create, Meets
<1>5. RuntimeTypeOK' /\ CallsWellFormed'
  <2>1. raced' \in SUBSET Name
    BY <1>4 DEF RuntimeInv, RuntimeTypeOK
  <2> QED
    BY <1>2, <1>3, <2>1, TypesBegin
<1>6. OthersWait(o) /\ op'[o] = c
  BY <1>2, <1>3, <1>5 DEF OthersWait, RuntimeInv, RuntimeTypeOK
<1>7. CASE n \in raced'
  <2>1. /\ Orderly' => Tidy'
        /\ Orderly' /\ (crashes = 0)' => VMsKnown'
    BY <1>2, <1>3, <1>4, <1>5, <1>6, <1>7, BeginsRaced
  <2> QED
    BY <1>5, <2>1 DEF RuntimeInv
<1>8. CASE n \notin raced'
  <2>1. UNCHANGED raced /\ On(n, {"reap"}) = {}
    BY <1>4, <1>8
  <2>2. UNCHANGED dir /\ UNCHANGED meta /\ UNCHANGED net /\ UNCHANGED vms /\ UNCHANGED crashes /\ UNCHANGED stale
    BY <1>3 DEF disk, processes
  <2>3. \A q \in Op : op[q].name = n => ~Changing(q)
    BY <1>3, <2>1 DEF On, Changing
  <2>4. Tidy'
    <3>1. ~Unlinked(o)' /\ Agrees(o)'
      BY <1>2, <1>3, <1>6, <2>2 DEF Unlinked, Agrees, Building, Loaded, Holds, Changing
    <3>2. UNCHANGED <<disk, net, raced>>
      BY <1>3, <2>1
    <3> QED
      BY <1>2, <1>3, <1>6, <2>3, <3>1, <3>2, BeginTidy
  <2>5. ASSUME (crashes = 0)'
        PROVE  VMsKnown'
    <3>1. VMsKnown
      BY <1>3, <2>2, <2>5 DEF RuntimeInv
    <3>2. /\ OneEach' /\ AllKnown'
          /\ \A q \in Op \ {o}, p \in vms : p[1] = op'[q].name /\ p[1] \notin raced => Knows(q, p)'
      <4>1. UNCHANGED <<disk, net, vms, raced>>
        BY <1>3, <2>1, <2>2
      <4> QED
        BY <1>3, <1>6, <3>1, <4>1, OthersKnow
    <3>3. \A p \in vms : p[1] # n
      BY <1>3, <1>8, <2>1, <2>3, <3>1 DEF VMsKnown, AllKnown, Named, Failing, Changing, Changes
    <3> QED
      BY <1>2, <1>6, <2>1, <2>2, <3>2, <3>3 DEF VMsKnown, CallsKnow
  <2> QED
    BY <1>5, <2>4, <2>5 DEF RuntimeInv
<1> QED
  BY <1>7, <1>8

\* The VM a start finds alive is the only one of its machine; if it finds none there is none.
LEMMA StartInv ==
  ASSUME RuntimeInv, NEW o \in Op, NEW n \in Name, Start(o, n)
  PROVE  RuntimeInv'
<1>1. PICK c : c = [Idle EXCEPT !.pc = IF Alive(n, meta[n].vm) THEN "forward" ELSE "lock",
                                !.kind = "start", !.name = n, !.meta = meta[n]]
  OBVIOUS
<1>2. /\ c \in Call /\ c.pc = (IF Alive(n, meta[n].vm) THEN "forward" ELSE "lock")
      /\ c.kind = "start" /\ c.name = n /\ c.cancelled = FALSE /\ c.meta = meta[n]
  <2>1. meta[n] \in Meta
    BY DEF RuntimeInv, RuntimeTypeOK
  <2> QED
    BY <1>1, <2>1, IdleIsCall DEF Idle, Call, OpPC
<1>3. /\ op' = [op EXCEPT ![o] = c] /\ op[o] = Idle /\ dir[n] = "meta" /\ Orderly
      /\ On(n, Changes \cup {"create"}) = {} /\ UNCHANGED <<disk, net, processes, mutex, crashes, stale>>
  BY <1>1 DEF Start
<1>4. raced' = IF On(n, {"reap"}) = {} THEN raced ELSE raced \cup {n}
  BY DEF Start, Meets
<1>5. RuntimeTypeOK' /\ CallsWellFormed'
  <2>1. raced' \in SUBSET Name
    BY <1>4 DEF RuntimeInv, RuntimeTypeOK
  <2> QED
    BY <1>2, <1>3, <2>1, TypesBegin
<1>6. OthersWait(o) /\ op'[o] = c
  BY <1>2, <1>3, <1>5 DEF OthersWait, RuntimeInv, RuntimeTypeOK
<1>7. CASE n \in raced'
  <2>1. /\ Orderly' => Tidy'
        /\ Orderly' /\ (crashes = 0)' => VMsKnown'
    BY <1>2, <1>3, <1>4, <1>5, <1>6, <1>7, BeginsRaced
  <2> QED
    BY <1>5, <2>1 DEF RuntimeInv
<1>8. CASE n \notin raced'
  <2>1. UNCHANGED raced /\ On(n, {"reap"}) = {}
    BY <1>4, <1>8
  <2>2. UNCHANGED dir /\ UNCHANGED meta /\ UNCHANGED net /\ UNCHANGED vms /\ UNCHANGED crashes /\ UNCHANGED stale
    BY <1>3 DEF disk, processes
  <2>3. \A q \in Op : op[q].name = n => ~Changing(q)
    BY <1>3, <2>1 DEF On, Changing
  <2>4. Tidy'
    <3>1. ~Unlinked(o)' /\ Agrees(o)'
      BY <1>2, <1>3, <1>6, <2>2 DEF Unlinked, Agrees, Building, Loaded, Holds, Changing
    <3>2. UNCHANGED <<disk, net, raced>>
      BY <1>3, <2>1
    <3> QED
      BY <1>2, <1>3, <1>6, <2>3, <3>1, <3>2, BeginTidy
  <2>5. ASSUME (crashes = 0)'
        PROVE  VMsKnown'
    <3>1. VMsKnown
      BY <1>3, <2>2, <2>5 DEF RuntimeInv
    <3>2. /\ OneEach' /\ AllKnown'
          /\ \A q \in Op \ {o}, p \in vms : p[1] = op'[q].name /\ p[1] \notin raced => Knows(q, p)'
      <4>1. UNCHANGED <<disk, net, vms, raced>>
        BY <1>3, <2>1, <2>2
      <4> QED
        BY <1>3, <1>6, <3>1, <4>1, OthersKnow
    <3>3. \A p \in vms : p[1] = n => p[2] = meta[n].vm
      BY <1>8, <2>1, <2>3, <3>1 DEF VMsKnown, AllKnown, Named, Failing, Changing, Changes
    <3>4. \A p \in vms : p = <<p[1], p[2]>>
      BY DEF RuntimeInv, RuntimeTypeOK
    <3>5. \A p \in vms : p[1] = n => Knows(o, p)'
      BY <1>2, <1>6, <3>3, <3>4 DEF Knows, Stopped, Removing, Alive
    <3> QED
      BY <1>2, <1>6, <2>1, <2>2, <3>2, <3>5 DEF VMsKnown, CallsKnow
  <2> QED
    BY <1>5, <2>4, <2>5 DEF RuntimeInv
<1> QED
  BY <1>7, <1>8

LEMMA GetInv ==
  ASSUME RuntimeInv, NEW o \in Op, NEW n \in Name, Get(o, n)
  PROVE  RuntimeInv'
<1>1. PICK c : c = [Idle EXCEPT !.pc = "forward", !.kind = "get", !.name = n, !.meta = meta[n]]
  OBVIOUS
<1>2. /\ c \in Call /\ c.pc = "forward" /\ c.kind = "get" /\ c.name = n /\ c.cancelled = FALSE
  <2>1. meta[n] \in Meta
    BY DEF RuntimeInv, RuntimeTypeOK
  <2> QED
    BY <1>1, <2>1, IdleIsCall DEF Idle, Call, OpPC
<1>3. /\ op' = [op EXCEPT ![o] = c] /\ op[o] = Idle /\ Orderly
      /\ UNCHANGED <<disk, net, processes, mutex, crashes, raced, stale>>
  BY <1>1 DEF Get
<1>4. RuntimeTypeOK' /\ CallsWellFormed'
  <2>1. UNCHANGED <<disk, net, processes, mutex, crashes, stale>> /\ raced' \in SUBSET Name
    BY <1>3 DEF RuntimeInv, RuntimeTypeOK
  <2> QED
    BY <1>2, <1>3, <2>1, TypesBegin
<1>5. OthersWait(o) /\ op'[o] = c
  BY <1>2, <1>3, <1>4 DEF OthersWait, RuntimeInv, RuntimeTypeOK
<1>6. /\ UNCHANGED dir /\ UNCHANGED meta /\ UNCHANGED net /\ UNCHANGED vms /\ UNCHANGED crashes
      /\ UNCHANGED raced /\ UNCHANGED stale
  BY <1>3 DEF disk, processes
<1>7. Tidy'
  <2>1. ~Unlinked(o)' /\ Agrees(o)' /\ ~Changing(o)'
    BY <1>2, <1>5 DEF Unlinked, Agrees, Building, Loaded, Holds, Changing, Changes
  <2>2. UNCHANGED <<disk, net, raced>>
    BY <1>3
  <2> QED
    BY <1>3, <1>5, <2>1, <2>2, BeginTidy
<1>8. ASSUME (crashes = 0)'
      PROVE  VMsKnown'
  <2>1. VMsKnown
    BY <1>3, <1>6, <1>8 DEF RuntimeInv
  <2>2. /\ OneEach' /\ AllKnown'
        /\ \A q \in Op \ {o}, p \in vms : p[1] = op'[q].name /\ p[1] \notin raced => Knows(q, p)'
    <3>1. UNCHANGED <<disk, net, vms, raced>>
      BY <1>3, <1>6
    <3> QED
      BY <1>3, <1>5, <2>1, <3>1, OthersKnow
  <2>3. \A p : Knows(o, p)'
    BY <1>2, <1>5 DEF Knows, Stopped, Removing
  <2> QED
    BY <1>6, <2>2, <2>3 DEF VMsKnown, CallsKnow
<1> QED
  BY <1>4, <1>7, <1>8 DEF RuntimeInv

\* A delete without lock finds its machine unbuilt and unstarted, or races.
LEMMA ReapInv ==
  ASSUME RuntimeInv, NEW o \in Op, NEW n \in Name, Reap(o, n)
  PROVE  RuntimeInv'
<1>1. PICK c : c = [Idle EXCEPT !.pc = "unforward", !.kind = "reap", !.name = n, !.meta = meta[n]]
  OBVIOUS
<1>2. /\ c \in Call /\ c.pc = "unforward" /\ c.kind = "reap" /\ c.name = n /\ c.cancelled = FALSE
      /\ c.meta = meta[n]
  <2>1. meta[n] \in Meta
    BY DEF RuntimeInv, RuntimeTypeOK
  <2> QED
    BY <1>1, <2>1, IdleIsCall DEF Idle, Call, OpPC
<1>3. /\ op' = [op EXCEPT ![o] = c] /\ op[o] = Idle /\ dir[n] = "meta" /\ Orderly
      /\ UNCHANGED <<disk, net, processes, mutex, crashes, stale>>
  BY <1>1 DEF Reap
<1>4. raced' = IF On(n, {"create", "start"}) = {} THEN raced ELSE raced \cup {n}
  BY DEF Reap
<1>5. RuntimeTypeOK' /\ CallsWellFormed'
  <2>1. raced' \in SUBSET Name
    BY <1>4 DEF RuntimeInv, RuntimeTypeOK
  <2> QED
    BY <1>2, <1>3, <2>1, TypesBegin
<1>6. OthersWait(o) /\ op'[o] = c
  BY <1>2, <1>3, <1>5 DEF OthersWait, RuntimeInv, RuntimeTypeOK
<1>7. CASE n \in raced'
  <2>1. /\ Orderly' => Tidy'
        /\ Orderly' /\ (crashes = 0)' => VMsKnown'
    BY <1>2, <1>3, <1>4, <1>5, <1>6, <1>7, BeginsRaced
  <2> QED
    BY <1>5, <2>1 DEF RuntimeInv
<1>8. CASE n \notin raced'
  <2>1. UNCHANGED raced /\ On(n, {"create", "start"}) = {}
    BY <1>4, <1>8
  <2>2. UNCHANGED dir /\ UNCHANGED meta /\ UNCHANGED net /\ UNCHANGED vms /\ UNCHANGED crashes /\ UNCHANGED stale
    BY <1>3 DEF disk, processes
  <2>3. \A q \in Op : op[q].name = n => op[q].kind \notin {"create", "start"}
    BY <2>1 DEF On
  <2>4. Tidy'
    <3>1. ~Unlinked(o)' /\ Agrees(o)'
      BY <1>2, <1>3, <1>6, <2>2 DEF Unlinked, Agrees, Building, Loaded, Holds, Changing
    <3>2. UNCHANGED <<disk, net, raced>>
      BY <1>3, <2>1
    <3>3. \A q \in Op \ {o} : Changing(q) /\ op[q].name = op'[o].name => Beside(o, q)'
      BY <1>2, <1>6, <2>3 DEF Changing, Changes, Beside, OthersWait
    <3> QED
      BY <1>3, <1>6, <3>1, <3>2, <3>3, BeginTidy
  <2>5. ASSUME (crashes = 0)'
        PROVE  VMsKnown'
    <3>1. VMsKnown
      BY <1>3, <2>2, <2>5 DEF RuntimeInv
    <3>2. /\ OneEach' /\ AllKnown'
          /\ \A q \in Op \ {o}, p \in vms : p[1] = op'[q].name /\ p[1] \notin raced => Knows(q, p)'
      <4>1. UNCHANGED <<disk, net, vms, raced>>
        BY <1>3, <2>1, <2>2
      <4> QED
        BY <1>3, <1>6, <3>1, <4>1, OthersKnow
    <3>3. \A p \in vms : p[1] = n => p[2] = meta[n].vm
      BY <1>8, <2>1, <2>3, <3>1 DEF VMsKnown, AllKnown, Named, Failing
    <3>5. \A p \in vms : p[1] = n => Knows(o, p)'
      BY <1>2, <1>6, <3>3 DEF Knows, Stopped, Removing
    <3> QED
      BY <1>2, <1>6, <2>1, <2>2, <3>2, <3>5 DEF VMsKnown, CallsKnow
  <2> QED
    BY <1>5, <2>4, <2>5 DEF RuntimeInv
<1> QED
  BY <1>7, <1>8

\* A stop has its machine to itself; a delete cancels the build it runs beside.
LEMMA StopOrDeleteInv ==
  ASSUME RuntimeInv, NEW o \in Op, NEW n \in Name, NEW kind \in {"stop", "delete"}, StopOrDelete(o, n, kind)
  PROVE  RuntimeInv'
<1>1. PICK c : c = [Idle EXCEPT !.pc = "unforward", !.kind = kind, !.name = n, !.meta = meta[n]]
  OBVIOUS
<1>2. /\ c \in Call /\ c.pc = "unforward" /\ c.kind = kind /\ c.name = n /\ c.cancelled = FALSE
      /\ c.meta = meta[n]
  <2>1. meta[n] \in Meta
    BY DEF RuntimeInv, RuntimeTypeOK
  <2> QED
    BY <1>1, <2>1, IdleIsCall DEF Idle, Call, OpPC
<1>3. /\ op[o] = Idle /\ Orderly /\ On(n, Changes) = {} /\ (kind = "stop" => On(n, {"create"}) = {})
      /\ dir[n] = "meta" /\ UNCHANGED <<disk, net, processes, mutex, crashes, raced, stale>>
      /\ op' = [q \in Op |-> IF q = o THEN c
                             ELSE IF q \in On(n, {"create"}) THEN [op[q] EXCEPT !.cancelled = TRUE]
                             ELSE op[q]]
  BY <1>1 DEF StopOrDelete
<1>4. UNCHANGED dir /\ UNCHANGED meta /\ UNCHANGED net /\ UNCHANGED vms /\ UNCHANGED forwards
      /\ UNCHANGED mutex /\ UNCHANGED crashes /\ UNCHANGED raced /\ UNCHANGED stale
  BY <1>3 DEF disk, processes
<1>5. op \in [Op -> Call] /\ CallsWellFormed
  BY DEF RuntimeInv, RuntimeTypeOK
<1>6. ASSUME NEW q \in Op \ {o}
      PROVE  /\ op'[q] \in Call
             /\ op'[q].pc = op[q].pc /\ op'[q].kind = op[q].kind /\ op'[q].name = op[q].name /\ op'[q].meta = op[q].meta
             /\ op'[q].cancelled <=> op[q].cancelled \/ (op[q].name = n /\ op[q].kind = "create")
  <2>1. CASE q \in On(n, {"create"})
    <3>1. op'[q] = [op[q] EXCEPT !.cancelled = TRUE]
      BY <1>3, <2>1
    <3> QED
      BY <1>5, <2>1, <3>1 DEF On, Call
  <2>2. CASE q \notin On(n, {"create"})
    <3>1. op'[q] = op[q]
      BY <1>3, <2>2
    <3> QED
      BY <1>5, <2>2, <3>1 DEF On, Call
  <2> QED
    BY <2>1, <2>2
<1>7. op'[o] = c
  BY <1>3
<1>8. RuntimeTypeOK'
  <2>1. op' \in [Op -> Call]
    BY <1>2, <1>3, <1>6, <1>7
  <2> QED
    BY <1>4, <2>1 DEF RuntimeInv, RuntimeTypeOK
<1>9. CallsWellFormed'
  <2>1. ASSUME NEW q \in Op \ {o}
        PROVE  /\ op'[q].pc = "idle" <=> op'[q].kind = "none"
               /\ op'[q].pc # "idle" => op'[q].name \in Name
               /\ op'[q].pc = "mkdir" => op'[q].kind = "create"
               /\ op'[q].pc \in {"lock", "network", "boot"} => op'[q].kind \in {"create", "start"}
               /\ op'[q].pc \in {"forward", "port", "wait", "failed"} => op'[q].kind \in {"create", "start", "get"}
               /\ op'[q].pc \in {"unforward", "halt", "unlink", "store"} => op'[q].kind # "get"
               /\ op'[q].pc = "remove" => op'[q].kind \in {"create", "delete", "reap"}
               /\ op'[q].cancelled => op'[q].kind = "create"
    BY <1>5, <1>6 DEF CallsWellFormed
  <2> QED
    BY <1>2, <1>7, <2>1 DEF CallsWellFormed
<1>10. Tidy /\ (crashes = 0 => VMsKnown)
  BY <1>3 DEF RuntimeInv
<1>11. CASE n \in raced
  <2>1. \A q \in Op : \/ op'[q] = op[q]
                      \/ /\ op[q] = Idle \/ op[q].name = n
                         /\ op'[q] = Idle \/ op'[q].name = n
    BY <1>2, <1>3, <1>7 DEF On
  <2>2. UNCHANGED <<crashes, stale>> /\ raced \subseteq raced' /\ n \in raced'
    BY <1>4, <1>11
  <2>3. /\ \A k \in Name \ {n} : dir'[k] = dir[k] /\ meta'[k] = meta[k] /\ net'[k] = net[k]
        /\ \A p \in vms' : p[1] # n => p \in vms
    BY <1>4
  <2>4. /\ Orderly' => Tidy'
        /\ Orderly' /\ (crashes = 0)' => VMsKnown'
    BY <1>8, <2>1, <2>2, <2>3, RacedMove
  <2> QED
    BY <1>8, <1>9, <2>4 DEF RuntimeInv
<1>12. CASE n \notin raced
  <2>1. \A q \in Op \ {o} : op[q].name = n /\ Changing(q)
                          => (op[q].kind = "create" /\ kind = "delete") \/ op[q].kind = "reap"
    BY <1>3 DEF On, Changing
  <2>2. Tidy'
    <3>1. OneChange'
      <4>1. ASSUME NEW q \in Op \ {o}, Changing(q)', op'[q].name = n
            PROVE  Beside(o, q)' \/ Beside(q, o)'
        BY <1>2, <1>6, <1>7, <2>1, <4>1 DEF Changing, Beside
      <4>2. ASSUME NEW q \in Op \ {o}, NEW r \in Op \ {o}, q # r, Changing(q)', Changing(r)',
                   op'[q].name = op'[r].name, op'[q].name \notin raced
            PROVE  Beside(q, r)' \/ Beside(r, q)'
        <5>1. Beside(q, r) \/ Beside(r, q)
          BY <1>6, <1>10, <4>2 DEF Tidy, OneChange, Changing
        <5> QED
          BY <1>6, <5>1 DEF Beside
      <4> QED
        BY <1>2, <1>4, <1>7, <4>1, <4>2 DEF OneChange
    <3>2. MetaOfDir' /\ AddressesTaken'
      BY <1>4, <1>10 DEF Tidy, MetaOfDir, AddressesTaken
    <3>3. CopiesAgree'
      <4> SUFFICES ASSUME NEW q \in Op, op'[q].name \notin raced PROVE Agrees(q)'
        BY <1>4 DEF CopiesAgree
      <4>1. CASE q = o
        BY <1>2, <1>3, <1>4, <1>7, <4>1 DEF Agrees, Building, Loaded, Holds, Changing, Changes
      <4>2. CASE q # o
        <5>1. Agrees(q)
          BY <1>6, <1>10, <4>2 DEF Tidy, CopiesAgree
        <5>2. Building(q) => op[q].name # n
          BY <1>3, <5>1 DEF Agrees
        <5>3. /\ Building(q)' <=> Building(q)
              /\ Loaded(q)' <=> Loaded(q)
              /\ Holds(q)' => Holds(q)
          BY <1>6, <4>2 DEF Building, Loaded, Holds, Changing
        <5>4. Building(q) => ~op'[q].cancelled
          BY <1>6, <4>2, <5>1, <5>2 DEF Agrees
        <5> QED
          BY <1>4, <1>6, <4>2, <5>1, <5>3, <5>4 DEF Agrees
      <4> QED
        BY <4>1, <4>2
    <3>4. NetworkNamed'
      BY <1>2, <1>4, <1>6, <1>7, <1>10 DEF Tidy, NetworkNamed, Unlinked
    <3> QED
      BY <3>1, <3>2, <3>3, <3>4 DEF Tidy
  <2>3. ASSUME (crashes = 0)'
        PROVE  VMsKnown'
    <3>1. VMsKnown
      BY <1>4, <1>10, <2>3
    <3>2. ASSUME NEW p \in vms
          PROVE  (Named(p)' <=> Named(p)) /\ (Failing(p) => Failing(p)')
      <4>1. Named(p)' <=> Named(p)
        BY <1>4 DEF Named
      <4>2. ASSUME Failing(p) PROVE Failing(p)'
        <5>1. PICK q \in Op : /\ op[q].name = p[1] /\ op[q].kind \in {"create", "start"}
                              /\ op[q].pc \in {"unforward", "halt"} /\ op[q].meta.vm = p[2]
          BY <4>2 DEF Failing
        <5>2. q # o
          BY <1>3, <5>1, IdleIsCall
        <5> QED
          BY <1>6, <5>1, <5>2 DEF Failing
      <4> QED
        BY <4>1, <4>2
    <3>3. OneEach' /\ AllKnown'
      BY <1>4, <3>1, <3>2 DEF VMsKnown, OneEach, AllKnown
    <3>4. ASSUME NEW q \in Op \ {o}, NEW p \in vms, p[1] = op'[q].name, p[1] \notin raced
          PROVE  Knows(q, p)'
      <4>1. Knows(q, p)
        BY <1>6, <3>1, <3>4 DEF VMsKnown, CallsKnow
      <4> QED
        BY <1>6, <3>2, <4>1 DEF Knows, Stopped
    <3>5. ASSUME NEW p \in vms, p[1] = n
          PROVE  Knows(o, p)'
      <4>1. Named(p) \/ (Failing(p) /\ Failing(p)')
        BY <1>12, <3>1, <3>2, <3>5 DEF VMsKnown, AllKnown
      <4>2. CASE Named(p)
        BY <1>2, <1>7, <3>5, <4>2 DEF Knows, Stopped, Removing, Named
      <4>3. CASE Failing(p) /\ Failing(p)'
        <5>1. kind = "delete"
          BY <1>3, <2>1, <3>5, <4>3, IdleIsCall DEF Failing, Changing, Changes
        <5> QED
          BY <1>2, <1>7, <4>3, <5>1 DEF Knows, Removing
      <4> QED
        BY <4>1, <4>2, <4>3
    <3> QED
      BY <1>2, <1>4, <1>7, <3>3, <3>4, <3>5 DEF VMsKnown, CallsKnow
  <2> QED
    BY <1>8, <1>9, <2>2, <2>3 DEF RuntimeInv
<1> QED
  BY <1>11, <1>12

--------------------------------------------------------------------------------
(* The directory is removed *)

\* Who removes the directory has taken the network away, and what VM is left is that of
\* another call, which is about to stop it.
LEMMA RemoveInv ==
  ASSUME RuntimeInv, NEW o \in Op, NEW n \in Name, op[o].name = n, op[o].kind \in {"create", "delete", "reap"},
         op[o].pc \notin {"unforward", "halt"}, Remove(n), Leave(o),
         UNCHANGED net \/ net' = [net EXCEPT ![n] = 0], UNCHANGED <<vms, crashes, raced, stale>>,
         forwards' \subseteq Name \X (1 .. MaxFwd), Orderly /\ n \notin raced => net[n] = 0,
         VMsKnown /\ n \notin raced => \A p \in vms : p[1] = n => Failing(p)
  PROVE  RuntimeInv'
<1>1. OthersWait(o) /\ op'[o] = Idle /\ mutex' \in Op \cup {NoOp}
  BY LeaveMoves DEF RuntimeInv
<1>2. CallsWellFormed'
  BY <1>1, StaysWellFormed
<1>3. RuntimeTypeOK'
  <2>1. dir' \in [Name -> {"none", "bare", "meta"}] /\ meta' \in [Name -> Meta]
    <3>1. NoMeta \in Meta
      BY RuntimeAssumption DEF NoMeta, Meta
    <3> QED
      BY <3>1, StoredTypes DEF RuntimeInv
  <2>2. net' \in [Name -> 0 .. Addrs]
    BY RuntimeAssumption DEF RuntimeInv, RuntimeTypeOK
  <2> QED
    BY <1>1, <2>1, <2>2 DEF RuntimeInv, RuntimeTypeOK, OthersWait
<1>4. /\ dir'[n] = "none" /\ meta'[n] = NoMeta
      /\ \A k \in Name \ {n} : dir'[k] = dir[k] /\ meta'[k] = meta[k] /\ net'[k] = net[k]
      /\ UNCHANGED vms /\ UNCHANGED crashes /\ UNCHANGED raced /\ UNCHANGED stale
  BY DEF Remove, RuntimeInv, RuntimeTypeOK
<1>5. CASE n \in raced
  <2>1. \A q \in Op : \/ op'[q] = op[q]
                      \/ /\ op[q] = Idle \/ op[q].name = n
                         /\ op'[q] = Idle \/ op'[q].name = n
    BY <1>1 DEF OthersWait
  <2>2. UNCHANGED <<crashes, stale>> /\ raced \subseteq raced' /\ n \in raced'
    BY <1>4, <1>5
  <2>3. /\ \A k \in Name \ {n} : dir'[k] = dir[k] /\ meta'[k] = meta[k] /\ net'[k] = net[k]
        /\ \A p \in vms' : p[1] # n => p \in vms
    BY <1>4
  <2>4. /\ Orderly' => Tidy'
        /\ Orderly' /\ (crashes = 0)' => VMsKnown'
    BY <1>3, <2>1, <2>2, <2>3, RacedMove
  <2> QED
    BY <1>2, <1>3, <2>4 DEF RuntimeInv
<1>6. CASE n \notin raced
  <2>1. CallsWellFormed
    BY DEF RuntimeInv
  <2>2. ASSUME Orderly'
        PROVE  Tidy'
    <3>1. Tidy /\ net[n] = 0
      BY <1>4, <1>6, <2>2 DEF RuntimeInv, Orderly
    <3>2. net'[n] = 0
      BY <3>1 DEF RuntimeInv, RuntimeTypeOK
    <3>3. ASSUME NEW q \in Op \ {o}, Changing(q), op[q].name = n
          PROVE  ~Building(q) /\ ~Holds(q)
      <4>1. Changing(o)
        BY DEF Changing, Changes
      <4>2. Beside(o, q) \/ Beside(q, o)
        BY <1>6, <3>1, <3>3, <4>1 DEF Tidy, OneChange
      <4>3. Agrees(q)
        BY <1>6, <3>1, <3>3 DEF Tidy, CopiesAgree
      <4> QED
        BY <2>1, <4>2, <4>3 DEF Beside, Agrees, CallsWellFormed, Building, Holds
    <3>4. OneChange'
      <4>1. \A q \in Op : Changing(q)' => op'[q] = op[q]
        BY <1>1, IdleIsCall DEF Changing, Changes, OthersWait
      <4> QED
        BY <1>4, <3>1, <4>1 DEF Tidy, OneChange, Beside, Changing
    <3>5. MetaOfDir' /\ AddressesTaken'
      BY <1>4, <3>1 DEF Tidy, MetaOfDir, AddressesTaken
    <3>6. CopiesAgree'
      <4> SUFFICES ASSUME NEW q \in Op, op'[q].name \notin raced PROVE Agrees(q)'
        BY <1>4 DEF CopiesAgree
      <4>1. CASE q # o /\ Changing(q) /\ op[q].name = n
        BY <1>1, <1>4, <3>3, <4>1 DEF OthersWait, Agrees, Building, Loaded, Holds, Changing
      <4>2. CASE q # o /\ Changing(q) /\ op[q].name # n
        <5>1. op[q].name \in Name \ {n} /\ op'[q] = op[q]
          BY <1>1, <2>1, <4>2 DEF CallsWellFormed, Changing, Changes, OthersWait
        <5>2. Agrees(q)
          BY <3>1, <5>1 DEF Tidy, CopiesAgree
        <5> QED
          BY <1>4, <5>1, <5>2 DEF Agrees, Building, Loaded, Holds, Changing
      <4>3. CASE q # o /\ ~Changing(q)
        BY <1>1, <4>3 DEF OthersWait, Agrees, Building, Loaded, Holds, Changing, Changes
      <4>4. CASE q = o
        BY <1>1, <4>4, IdleIsCall DEF Agrees, Building, Loaded, Holds, Changing, Changes
      <4> QED
        BY <4>1, <4>2, <4>3, <4>4
    <3>7. NetworkNamed'
      <4>1. \A k \in Name \ raced : net'[k] # 0 => dir'[k] = "meta" /\ meta'[k].addr = net'[k]
        BY <1>4, <3>1, <3>2 DEF Tidy, NetworkNamed
      <4>2. ASSUME NEW q \in Op, Unlinked(q)', op'[q].name \notin raced
            PROVE  net'[op'[q].name] = 0
        <5>1. op'[q] = op[q] /\ Unlinked(q)
          BY <1>1, <4>2, IdleIsCall DEF OthersWait, Unlinked
        <5>2. op[q].name \in Name /\ net[op[q].name] = 0
          BY <2>1, <3>1, <4>2, <5>1 DEF Tidy, NetworkNamed, Unlinked, CallsWellFormed
        <5> QED
          BY <1>4, <3>2, <5>1, <5>2
      <4> QED
        BY <1>4, <4>1, <4>2 DEF NetworkNamed
    <3> QED
      BY <3>4, <3>5, <3>6, <3>7 DEF Tidy
  <2>3. ASSUME Orderly', (crashes = 0)'
        PROVE  VMsKnown'
    <3>1. VMsKnown
      BY <1>4, <2>3 DEF RuntimeInv, Orderly
    <3>2. \A p \in vms : Failing(p) => Failing(p)'
      BY <1>1 DEF Failing, OthersWait
    <3>3. ASSUME NEW p \in vms, Named(p)
          PROVE  Named(p)' \/ Failing(p)'
      <4>1. CASE p[1] = n
        BY <1>6, <3>1, <3>2, <4>1
      <4>2. CASE p[1] # n
        <5>1. p[1] \in Name
          BY DEF RuntimeInv, RuntimeTypeOK
        <5> QED
          BY <1>4, <3>3, <4>2, <5>1 DEF Named
      <4> QED
        BY <4>1, <4>2
    <3>4. OneEach' /\ AllKnown'
      BY <1>4, <3>1, <3>2, <3>3 DEF VMsKnown, OneEach, AllKnown
    <3>5. ASSUME NEW q \in Op, NEW p \in vms, p[1] = op'[q].name, p[1] \notin raced
          PROVE  Knows(q, p)'
      <4>1. CASE q # o
        BY <1>1, <3>1, <3>2, <3>5, <4>1 DEF VMsKnown, CallsKnow, Knows, Stopped, OthersWait
      <4>2. CASE q = o
        BY <1>1, <4>2, IdleIsCall DEF Knows, Removing
      <4> QED
        BY <4>1, <4>2
    <3> QED
      BY <1>4, <3>4, <3>5 DEF VMsKnown, CallsKnow
  <2> QED
    BY <1>2, <1>3, <2>2, <2>3 DEF RuntimeInv
<1> QED
  BY <1>5, <1>6

LEMMA RemoveAllInv ==
  ASSUME RuntimeInv, NEW o \in Op, RemoveAll(o)
  PROVE  RuntimeInv'
<1>1. CallsWellFormed /\ RuntimeTypeOK
  BY DEF RuntimeInv
<1>2. op[o].name \in Name /\ op[o].kind \in {"create", "delete", "reap"} /\ op[o].pc = "remove"
  BY <1>1 DEF RemoveAll, CallsWellFormed
<1>3. Orderly /\ op[o].name \notin raced => net[op[o].name] = 0
  BY <1>2 DEF RuntimeInv, Tidy, NetworkNamed, Unlinked
<1>4. VMsKnown /\ op[o].name \notin raced => \A p \in vms : p[1] = op[o].name => Failing(p)
  BY <1>2 DEF VMsKnown, CallsKnow, Knows, Stopped, Removing
<1>5. /\ Remove(op[o].name) /\ Leave(o) /\ UNCHANGED net /\ UNCHANGED <<vms, crashes, raced, stale>>
      /\ forwards' \subseteq Name \X (1 .. MaxFwd)
  BY <1>1 DEF RemoveAll, processes, RuntimeTypeOK
<1> QED
  BY <1>2, <1>3, <1>4, <1>5, RemoveInv

--------------------------------------------------------------------------------
(* Building and starting *)

\* Nothing else changes the machine of a build or a start that goes on.
LEMMA Alone ==
  ASSUME RuntimeInv, Orderly, NEW o \in Op, op[o].kind \in {"create", "start"}, ~op[o].cancelled,
         op[o].name \notin raced, NEW q \in Op \ {o}, op[q].name = op[o].name
  PROVE  ~Changing(q)
BY DEF RuntimeInv, Tidy, OneChange, Beside, Changing, Changes

\* What a step of a build or a start that goes on leaves of its machine: the
\* directory with the call's address, which nobody else has, or a bare one; and
\* a VM of it may come.
Placed(o, n) ==
  Orderly /\ n \notin raced =>
    \/ dir'[n] = "meta" /\ ~(op'[o].pc = "lock" /\ op[o].kind = "create")
       /\ meta'[n].addr = op'[o].meta.addr /\ meta'[n].addr # 0
       /\ (net'[n] # 0 => net'[n] = meta'[n].addr)
       /\ (op'[o].pc = "network" /\ op[o].kind = "create" => net'[n] = 0)
       /\ \A k \in Name \ (raced \cup {n}) : dir[k] = "meta" => meta[k].addr # meta'[n].addr
    \/ dir'[n] = "bare" /\ meta'[n] = NoMeta /\ op[o].kind = "create" /\ op'[o].pc = "lock" /\ net'[n] = 0
ComesUp(o, n) ==
  \/ UNCHANGED vms
  \/ /\ op'[o].pc \in {"forward", "unforward"}
     /\ vms' = vms \cup {<<n, op'[o].meta.vm>>}
     /\ Orderly /\ n \notin raced /\ op'[o].pc = "forward"
          => dir'[n] = "meta" /\ meta'[n].vm = op'[o].meta.vm
ElseSame(n) == \A k \in Name \ {n} : dir'[k] = dir[k] /\ meta'[k] = meta[k] /\ net'[k] = net[k]

LEMMA BuildMove ==
  ASSUME RuntimeInv, RuntimeTypeOK', NEW o \in Op, NEW n \in Name, op[o].name = n, op[o].kind \in {"create", "start"},
         OthersWait(o), Keeps(o), op[o].pc \in {"mkdir", "lock", "network", "boot"},
         op'[o].pc \notin {"idle", "mkdir", "unlink", "store", "remove"}, UNCHANGED <<crashes, raced, stale>>,
         Orderly /\ n \notin raced => ~op[o].cancelled, ElseSame(n), Placed(o, n), ComesUp(o, n)
  PROVE  /\ Orderly' => Tidy'
         /\ Orderly' /\ (crashes = 0)' => VMsKnown'
<1>1. CallsWellFormed /\ RuntimeTypeOK /\ UNCHANGED raced
  BY DEF RuntimeInv
<1>2. CASE n \in raced
  <2>1. \A q \in Op : \/ op'[q] = op[q]
                      \/ /\ op[q] = Idle \/ op[q].name = n
                         /\ op'[q] = Idle \/ op'[q].name = n
    BY DEF OthersWait, Keeps
  <2>2. UNCHANGED <<crashes, stale>> /\ raced \subseteq raced' /\ n \in raced'
    BY <1>2
  <2>3. \A p \in vms' : p[1] # n => p \in vms
    BY DEF ComesUp
  <2>4. \A k \in Name \ {n} : dir'[k] = dir[k] /\ meta'[k] = meta[k] /\ net'[k] = net[k]
    BY DEF ElseSame
  <2> QED
    BY <2>1, <2>2, <2>3, <2>4, RacedMove
<1>3. ASSUME n \notin raced, Orderly'
      PROVE  Tidy'
  <2>1. Tidy /\ Orderly
    BY <1>3 DEF RuntimeInv, Orderly
  <2>2. \A q \in Op \ {o} : op[q].name = n => ~Changing(q)
    BY <1>3, <2>1, Alone
  <2>3. OneChange'
    <3>1. \A q \in Op : op'[q].kind = op[q].kind /\ op'[q].name = op[q].name /\ op'[q].cancelled = op[q].cancelled
      BY DEF OthersWait, Keeps
    <3> QED
      BY <1>1, <2>1, <3>1 DEF Tidy, OneChange, Changing, Beside
  <2>4. MetaOfDir' /\ AddressesTaken'
    BY <1>1, <1>3, <2>1 DEF Tidy, MetaOfDir, AddressesTaken, Placed, ElseSame
  <2>5. CopiesAgree'
    <3> SUFFICES ASSUME NEW q \in Op, op'[q].name \notin raced PROVE Agrees(q)'
      BY <1>1 DEF CopiesAgree
    <3>1. CASE q # o /\ Changing(q)
      <4>1. op[q].name \in Name \ {n} /\ op'[q] = op[q]
        BY <1>1, <2>2, <3>1 DEF CallsWellFormed, Changing, Changes, OthersWait
      <4>2. Agrees(q)
        BY <2>1, <4>1 DEF Tidy, CopiesAgree
      <4> QED
        BY <4>1, <4>2 DEF ElseSame, Agrees, Building, Loaded, Holds, Changing
    <3>2. CASE q # o /\ ~Changing(q)
      BY <3>2 DEF OthersWait, Agrees, Building, Loaded, Holds, Changing, Changes
    <3>3. CASE q = o
      BY <1>3, <2>1, <3>3 DEF Placed, Keeps, Agrees, Building, Loaded, Holds, Changing
    <3> QED
      BY <3>1, <3>2, <3>3
  <2>6. NetworkNamed'
    <3>1. \A k \in Name \ raced : net'[k] # 0 => dir'[k] = "meta" /\ meta'[k].addr = net'[k]
      BY <1>3, <2>1 DEF Tidy, NetworkNamed, Placed, ElseSame
    <3>2. ASSUME NEW q \in Op \ {o}, Unlinked(q)', op'[q].name \notin raced
          PROVE  net'[op'[q].name] = 0
      <4>1. op'[q] = op[q] /\ Unlinked(q)
        BY <3>2 DEF OthersWait, Unlinked
      <4>2. Changing(q) /\ op[q].name \in Name
        <5>1. op[q].pc # "idle" /\ op[q].kind # "get"
          BY <1>1, <4>1 DEF CallsWellFormed, Unlinked
        <5>2. op[q].kind \in {"none", "create", "start", "stop", "delete", "reap", "get"}
          BY <1>1 DEF RuntimeTypeOK, Call
        <5> QED
          BY <1>1, <5>1, <5>2 DEF CallsWellFormed, Changing, Changes
      <4>3. op[q].name \in Name \ {n}
        BY <2>2, <4>2
      <4> QED
        BY <2>1, <3>2, <4>1, <4>3 DEF Tidy, NetworkNamed, ElseSame
    <3>3. Unlinked(o)' => net'[op'[o].name] = 0
      BY <1>3, <2>1 DEF Placed, Keeps, Unlinked
    <3> QED
      BY <1>1, <3>1, <3>2, <3>3 DEF NetworkNamed
  <2> QED
    BY <2>3, <2>4, <2>5, <2>6 DEF Tidy
<1>4. ASSUME n \notin raced, Orderly', (crashes = 0)'
      PROVE  VMsKnown'
  <2>1. VMsKnown /\ Orderly
    BY <1>4 DEF RuntimeInv, Orderly
  <2>2. \A p \in vms : p[1] # n /\ p[1] \in Name
    BY <1>1, <1>4, <2>1 DEF VMsKnown, CallsKnow, Knows, RuntimeTypeOK
  <2>3. \A q \in Op \ {o} : op[q].name = n => ~Changing(q)
    BY <1>4, <2>1, Alone
  <2>4. \A p \in vms : (Named(p) => Named(p)') /\ (Failing(p) => Failing(p)')
    BY <2>2 DEF ElseSame, Named, Failing, OthersWait
  <2>5. ASSUME NEW p \in vms' \ vms
        PROVE  p = <<n, op'[o].meta.vm>> /\ (Named(p)' \/ Failing(p)') /\ op'[o].pc \in {"forward", "unforward"}
    BY <1>4, <2>1, <2>5 DEF ComesUp, Named, Failing, Keeps
  <2>6. OneEach' /\ AllKnown'
    BY <1>1, <2>1, <2>2, <2>4, <2>5 DEF VMsKnown, OneEach, AllKnown
  <2>7. ASSUME NEW q \in Op, NEW p \in vms', p[1] = op'[q].name, p[1] \notin raced
        PROVE  Knows(q, p)'
    <3>1. CASE q # o /\ p \in vms
      BY <2>1, <2>4, <2>7, <3>1 DEF VMsKnown, CallsKnow, Knows, Stopped, OthersWait
    <3>2. CASE q = o /\ p \in vms
      BY <2>2, <2>7, <3>2 DEF Keeps
    <3>3. CASE q # o /\ p \notin vms
      <4>1. op'[q] = op[q] /\ ~Changing(q)
        BY <2>3, <2>5, <2>7, <3>3 DEF OthersWait
      <4> QED
        BY <1>1, <4>1 DEF Knows, Removing, Changing, Changes, CallsWellFormed
    <3>4. CASE q = o /\ p \notin vms
      BY <2>5, <2>7, <3>4 DEF Knows, Stopped, Removing, Keeps
    <3> QED
      BY <3>1, <3>2, <3>3, <3>4
  <2> QED
    BY <1>1, <2>6, <2>7 DEF VMsKnown, CallsKnow
<1> QED
  BY <1>2, <1>3, <1>4

LEMMA MkdirInv ==
  ASSUME RuntimeInv, NEW o \in Op, Mkdir(o)
  PROVE  RuntimeInv'
<1>1. CallsWellFormed /\ RuntimeTypeOK
  BY DEF RuntimeInv
<1>2. PICK n \in Name : n = op[o].name /\ op[o].kind = "create" /\ op[o].pc = "mkdir"
  BY <1>1 DEF Mkdir, CallsWellFormed
<1>3. OthersWait(o) /\ Keeps(o) /\ op'[o].pc = "lock"
  BY <1>1, GotoMoves DEF Mkdir, OpPC
<1>4. /\ dir' = [dir EXCEPT ![n] = IF dir[n] = "none" THEN "bare" ELSE dir[n]]
      /\ UNCHANGED meta /\ UNCHANGED net /\ UNCHANGED vms /\ UNCHANGED forwards /\ UNCHANGED mutex
      /\ UNCHANGED crashes /\ UNCHANGED raced /\ UNCHANGED stale
  BY <1>2 DEF Mkdir, processes
<1>5. RuntimeTypeOK'
  BY <1>1, <1>3, <1>4 DEF RuntimeTypeOK, OthersWait
<1>6. CallsWellFormed'
  BY <1>2, <1>3, StaysWellFormed
<1>7. ASSUME Orderly, n \notin raced
      PROVE  ~op[o].cancelled /\ dir'[n] = "bare" /\ meta'[n] = NoMeta /\ net'[n] = 0
  <2>1. Building(o) /\ Tidy
    BY <1>2, <1>7 DEF Building, RuntimeInv
  <2>2. Agrees(o)
    BY <1>2, <1>7, <2>1 DEF Tidy, CopiesAgree
  <2>3. dir[n] # "meta" /\ ~op[o].cancelled
    BY <1>2, <2>1, <2>2 DEF Agrees
  <2>4. dir[n] # "meta" /\ ~op[o].cancelled /\ meta[n] = NoMeta /\ net[n] = 0
    <3>1. n \in Name \ raced
      BY <1>7
    <3>2. meta[n] = NoMeta
      <4>1. MetaOfDir
        BY <2>1 DEF Tidy
      <4> QED
        BY <2>3, <3>1, <4>1 DEF MetaOfDir
    <3>3. net[n] # 0 => dir[n] = "meta"
      <4>1. NetworkNamed
        BY <2>1 DEF Tidy
      <4> QED
        BY <3>1, <4>1 DEF NetworkNamed
    <3> QED
      BY <2>3, <3>2, <3>3
  <2>5. dir[n] \in {"none", "bare"} /\ n \in DOMAIN dir
    BY <1>1, <2>4 DEF RuntimeTypeOK
  <2>6. dir'[n] = "bare"
    BY <1>4, <2>5
  <2> QED
    BY <1>4, <2>4, <2>6
<1>8. ElseSame(n) /\ Placed(o, n) /\ ComesUp(o, n)
  BY <1>1, <1>2, <1>3, <1>4, <1>7 DEF RuntimeTypeOK, ElseSame, Placed, ComesUp
<1>9. /\ Orderly' => Tidy'
      /\ Orderly' /\ (crashes = 0)' => VMsKnown'
  BY <1>2, <1>3, <1>4, <1>5, <1>7, <1>8, BuildMove
<1> QED
  BY <1>5, <1>6, <1>9 DEF RuntimeInv

\* The address is free of what the other machines' metadata and interfaces have.
LEMMA PrepareInv ==
  ASSUME RuntimeInv, NEW o \in Op, Prepare(o)
  PROVE  RuntimeInv'
<1>1. CallsWellFormed /\ RuntimeTypeOK
  BY DEF RuntimeInv
<1>2. PICK n \in Name : n = op[o].name /\ op[o].kind = "create" /\ op[o].pc = "lock"
  BY <1>1 DEF Prepare, CallsWellFormed
<1>3. Building(o)
  BY <1>2 DEF Building
<1>4. UNCHANGED net /\ UNCHANGED vms /\ UNCHANGED forwards /\ UNCHANGED crashes /\ UNCHANGED raced /\ UNCHANGED stale
  BY DEF Prepare, processes
<1>5. PICK m : m = [NoMeta EXCEPT !.addr = FirstFree(n)]
  OBVIOUS
<1>6. CASE /\ Free(n) # {} /\ dir[n] # "none" /\ Store(n, m)
           /\ op' = [op EXCEPT ![o].pc = "network", ![o].meta = m] /\ mutex' = o
  <2>1. FirstFree(n) \in Free(n)
    BY <1>1, <1>6, FirstFreeIsFree
  <2>2. FirstFree(n) \in 1 .. Addrs /\ \A k \in Name \ {n} : meta[k].addr # FirstFree(n)
    BY <2>1 DEF Free, Used
  <2>3. m \in Meta /\ m.addr = FirstFree(n) /\ m.addr # 0
    BY <1>5, <2>2, RuntimeAssumption DEF NoMeta, Meta
  <2>4. OthersWait(o) /\ Keeps(o) /\ op'[o].pc = "network" /\ op'[o].meta = m
    BY <1>1, <1>6, <2>3, CopyMoves DEF OpPC
  <2>5. RuntimeTypeOK'
    <3>1. dir' \in [Name -> {"none", "bare", "meta"}] /\ meta' \in [Name -> Meta]
      BY <1>1, <1>6, <2>3, StoredTypes
    <3> QED
      BY <1>1, <1>4, <1>6, <2>4, <3>1 DEF RuntimeTypeOK, OthersWait
  <2>6. CallsWellFormed'
    BY <1>2, <2>4, StaysWellFormed
  <2>7. /\ dir'[n] = "meta" /\ meta'[n] = m
        /\ \A k \in Name \ {n} : dir'[k] = dir[k] /\ meta'[k] = meta[k] /\ net'[k] = net[k]
    BY <1>1, <1>4, <1>6 DEF RuntimeTypeOK, Store
  <2>8. Orderly /\ n \notin raced => ~op[o].cancelled /\ net'[n] = 0
    BY <1>2, <1>3, <1>4 DEF RuntimeInv, Tidy, CopiesAgree, Agrees, NetworkNamed
  <2>9. \A k \in Name \ {n} : dir[k] = "meta" => meta[k].addr # meta'[n].addr
    BY <2>2, <2>3, <2>7
  <2>10. ElseSame(n) /\ Placed(o, n) /\ ComesUp(o, n)
    BY <1>2, <1>4, <2>3, <2>4, <2>7, <2>8, <2>9 DEF ElseSame, Placed, ComesUp
  <2>11. /\ Orderly' => Tidy'
         /\ Orderly' /\ (crashes = 0)' => VMsKnown'
    BY <1>2, <1>4, <2>4, <2>5, <2>8, <2>10, BuildMove
  <2> QED
    BY <2>5, <2>6, <2>11 DEF RuntimeInv
<1>7. CASE Remove(n) /\ Leave(o)
  <2>1. Orderly /\ n \notin raced => net[n] = 0
    BY <1>2, <1>3 DEF RuntimeInv, Tidy, CopiesAgree, Agrees, NetworkNamed
  <2>2. VMsKnown /\ n \notin raced => \A p \in vms : p[1] = n => Failing(p)
    BY <1>2 DEF VMsKnown, CallsKnow, Knows
  <2>3. forwards' \subseteq Name \X (1 .. MaxFwd)
    BY <1>1, <1>4 DEF RuntimeTypeOK
  <2> QED
    BY <1>2, <1>4, <1>7, <2>1, <2>2, <2>3, RemoveInv
<1> QED
  BY <1>2, <1>5, <1>6, <1>7 DEF Prepare

\* A network is made for the address the metadata name, and only by a call that was not
\* cancelled.
LEMMA NetworkInv ==
  ASSUME RuntimeInv, NEW o \in Op, Network(o)
  PROVE  RuntimeInv'
<1>1. CallsWellFormed /\ RuntimeTypeOK
  BY DEF RuntimeInv
<1>2. PICK n \in Name : n = op[o].name
  BY <1>1 DEF Network, CallsWellFormed
<1>3. op[o].kind \in {"create", "start"} /\ op[o].pc = "network"
  BY <1>1 DEF Network, CallsWellFormed
<1>4. /\ UNCHANGED vms /\ UNCHANGED crashes /\ UNCHANGED raced /\ UNCHANGED stale
      /\ forwards' \subseteq Name \X (1 .. MaxFwd)
  BY <1>1 DEF Network, RuntimeTypeOK
<1>5. CASE /\ ~op[o].cancelled /\ net' = [net EXCEPT ![n] = op[o].meta.addr]
           /\ Goto(o, "boot") /\ UNCHANGED <<disk, mutex>>
  <2>1. OthersWait(o) /\ Keeps(o) /\ KeepsCopy(o) /\ op'[o].pc = "boot"
    BY <1>1, <1>5, GotoMoves DEF OpPC
  <2>2. UNCHANGED dir /\ UNCHANGED meta /\ UNCHANGED mutex
    BY <1>5 DEF disk
  <2>3. RuntimeTypeOK'
    <3>1. op[o].meta.addr \in 0 .. Addrs
      BY <1>1 DEF RuntimeTypeOK, Call, Meta
    <3> QED
      BY <1>1, <1>4, <1>5, <2>1, <2>2, <3>1 DEF RuntimeTypeOK, OthersWait
  <2>4. CallsWellFormed'
    BY <1>3, <2>1, StaysWellFormed
  <2>5. ASSUME Orderly, n \notin raced
        PROVE  /\ dir[n] = "meta" /\ meta[n].addr = op[o].meta.addr /\ meta[n].addr # 0
               /\ \A k \in Name \ (raced \cup {n}) : dir[k] = "meta" => meta[k].addr # meta[n].addr
    <3>1. Holds(o) /\ Loaded(o) /\ Tidy
      BY <1>3, <1>5, <2>5 DEF Holds, Loaded, Changing, Changes, Building, RuntimeInv
    <3> QED
      BY <1>2, <2>5, <3>1 DEF Tidy, CopiesAgree, Agrees, MetaOfDir, AddressesTaken
  <2>6. /\ net'[n] = op[o].meta.addr
        /\ \A k \in Name \ {n} : dir'[k] = dir[k] /\ meta'[k] = meta[k] /\ net'[k] = net[k]
    BY <1>1, <1>5, <2>2 DEF RuntimeTypeOK
  <2>7. ElseSame(n) /\ Placed(o, n) /\ ComesUp(o, n)
    BY <1>2, <1>4, <2>1, <2>2, <2>5, <2>6 DEF KeepsCopy, ElseSame, Placed, ComesUp
  <2>8. /\ Orderly' => Tidy'
        /\ Orderly' /\ (crashes = 0)' => VMsKnown'
    BY <1>2, <1>3, <1>4, <1>5, <2>1, <2>3, <2>7, BuildMove
  <2> QED
    BY <2>3, <2>4, <2>8 DEF RuntimeInv
<1>6. CASE /\ UNCHANGED net \/ net' = [net EXCEPT ![n] = 0]
           /\ Leave(o) /\ op[o].kind = "create" /\ Remove(n)
  <2>1. Orderly /\ n \notin raced => net[n] = 0
    BY <1>2, <1>3, <1>6 DEF RuntimeInv, Tidy, NetworkNamed, Unlinked
  <2>2. VMsKnown /\ n \notin raced => \A p \in vms : p[1] = n => Failing(p)
    BY <1>2, <1>3 DEF VMsKnown, CallsKnow, Knows
  <2> QED
    BY <1>2, <1>3, <1>4, <1>6, <2>1, <2>2, RemoveInv
<1>7. CASE /\ UNCHANGED net \/ net' = [net EXCEPT ![n] = 0]
           /\ Leave(o) /\ op[o].kind = "start" /\ UNCHANGED disk
  <2>1. OthersWait(o) /\ op'[o] = Idle /\ mutex' \in Op \cup {NoOp}
    BY <1>1, <1>7, LeaveMoves
  <2>2. UNCHANGED dir /\ UNCHANGED meta
    BY <1>7 DEF disk
  <2>3. RuntimeTypeOK'
    <3>1. net' \in [Name -> 0 .. Addrs]
      BY <1>1, <1>7, RuntimeAssumption DEF RuntimeTypeOK
    <3> QED
      BY <1>1, <1>4, <2>1, <2>2, <3>1 DEF RuntimeTypeOK, OthersWait
  <2>4. CallsWellFormed'
    BY <2>1, StaysWellFormed
  <2>5. ASSUME Orderly' PROVE Tidy'
    <3>1. Tidy
      BY <1>4, <2>5 DEF RuntimeInv, Orderly
    <3>2. \A q \in Op : op'[q] = op[q] \/ op'[q] = Idle
      BY <2>1 DEF OthersWait
    <3>3. \A q \in Op : Changing(q)' => op'[q] = op[q]
      BY <3>2, IdleIsCall DEF Changing, Changes
    <3>4. OneChange'
      BY <1>4, <3>1, <3>3 DEF Tidy, OneChange, Beside, Changing
    <3>5. MetaOfDir' /\ AddressesTaken'
      BY <1>4, <2>2, <3>1 DEF Tidy, MetaOfDir, AddressesTaken
    <3>6. CopiesAgree'
      <4>1. \A q \in Op : Agrees(q) /\ op'[q] = op[q] => Agrees(q)'
        BY <2>2 DEF Agrees, Building, Loaded, Holds, Changing
      <4>2. \A q \in Op : op'[q] = Idle => Agrees(q)'
        BY IdleIsCall DEF Agrees, Building, Loaded, Holds, Changing, Changes
      <4> QED
        BY <1>4, <3>1, <3>2, <4>1, <4>2 DEF Tidy, CopiesAgree
    <3>7. NetworkNamed'
      <4>1. \A k \in Name : net'[k] = net[k] \/ net'[k] = 0
        BY <1>1, <1>7 DEF RuntimeTypeOK
      <4>2. \A k \in Name : net[k] = 0 => net'[k] = 0
        BY <4>1
      <4>3. \A q \in Op : Unlinked(q)' => Unlinked(q) /\ op'[q] = op[q] /\ op[q].name \in Name
        BY <1>1, <3>2, IdleIsCall DEF Unlinked, CallsWellFormed
      <4> QED
        BY <1>4, <2>2, <3>1, <4>1, <4>2, <4>3 DEF Tidy, NetworkNamed
    <3> QED
      BY <3>4, <3>5, <3>6, <3>7 DEF Tidy
  <2>6. ASSUME Orderly', (crashes = 0)' PROVE VMsKnown'
    <3>1. VMsKnown
      BY <1>4, <2>6 DEF RuntimeInv, Orderly
    <3>2. \A p \in vms : (Named(p)' <=> Named(p)) /\ (Failing(p) => Failing(p)')
      BY <1>3, <2>1, <2>2 DEF Named, Failing, OthersWait
    <3>3. OneEach' /\ AllKnown'
      BY <1>4, <3>1, <3>2 DEF VMsKnown, OneEach, AllKnown
    <3>4. \A q \in Op, p \in vms : p[1] = op'[q].name /\ p[1] \notin raced => Knows(q, p)'
      BY <2>1, <3>1, <3>2, IdleIsCall DEF VMsKnown, CallsKnow, Knows, Stopped, Removing, OthersWait
    <3> QED
      BY <1>4, <3>3, <3>4 DEF VMsKnown, CallsKnow
  <2> QED
    BY <2>3, <2>4, <2>5, <2>6 DEF RuntimeInv
<1> QED
  BY <1>2, <1>3, <1>5, <1>6, <1>7 DEF Network

\* A VM that was not stored is the failing call's own.
LEMMA BootInv ==
  ASSUME RuntimeInv, NEW o \in Op, Boot(o)
  PROVE  RuntimeInv'
<1>1. CallsWellFormed /\ RuntimeTypeOK
  BY DEF RuntimeInv
<1>2. PICK n \in Name : n = op[o].name
  BY <1>1 DEF Boot, CallsWellFormed
<1>3. op[o].kind \in {"create", "start"} /\ op[o].pc = "boot"
  BY <1>1 DEF Boot, CallsWellFormed
<1>4. UNCHANGED net /\ UNCHANGED forwards /\ UNCHANGED crashes /\ UNCHANGED raced /\ UNCHANGED stale
  BY DEF Boot
<1>5. ASSUME Orderly, n \notin raced, ~op[o].cancelled
      PROVE  /\ dir[n] = "meta" /\ meta[n].addr = op[o].meta.addr /\ meta[n].addr # 0
             /\ (net[n] # 0 => net[n] = meta[n].addr)
             /\ \A k \in Name \ (raced \cup {n}) : dir[k] = "meta" => meta[k].addr # meta[n].addr
  <2>1. Holds(o) /\ Loaded(o) /\ Tidy
    BY <1>3, <1>5 DEF Holds, Loaded, Changing, Changes, Building, RuntimeInv
  <2>2. Agrees(o)
    BY <1>2, <1>5, <2>1 DEF Tidy, CopiesAgree
  <2>3. dir[n] = "meta" /\ meta[n].addr = op[o].meta.addr
    BY <1>2, <2>1, <2>2 DEF Agrees
  <2>4. meta[n].addr # 0 /\ (net[n] # 0 => net[n] = meta[n].addr)
    BY <1>5, <2>1, <2>3 DEF Tidy, MetaOfDir, NetworkNamed
  <2>5. \A k \in Name \ (raced \cup {n}) : dir[k] = "meta" => meta[k].addr # meta[n].addr
    BY <1>5, <2>1, <2>3 DEF Tidy, AddressesTaken
  <2> QED
    BY <2>3, <2>4, <2>5
<1>6. ASSUME ~op[o].cancelled, dir[n] # "none", NEW pid \in NewVM(n), NEW m, m = [op[o].meta EXCEPT !.vm = pid],
             vms' = vms \cup {<<n, pid>>},
             \/ /\ Store(n, m) /\ mutex' = NoOp
                /\ op' = [op EXCEPT ![o].pc = "forward", ![o].meta = m]
             \/ /\ op' = [op EXCEPT ![o].pc = "unforward", ![o].meta = m]
                /\ UNCHANGED <<disk, mutex>>
      PROVE  RuntimeInv'
  <2>1. pid \in 1 .. MaxPid
    BY <1>6 DEF NewVM, NewPids
  <2>2. m \in Meta /\ m.addr = op[o].meta.addr /\ m.vm = pid
    <3>1. op[o].meta \in Meta
      BY <1>1 DEF RuntimeTypeOK, Call
    <3> QED
      BY <1>6, <2>1, <3>1, RuntimeAssumption DEF Meta
  <2>3. /\ OthersWait(o) /\ Keeps(o) /\ op'[o].meta = m
        /\ \/ op'[o].pc = "forward" /\ Store(n, m) /\ mutex' = NoOp
           \/ op'[o].pc = "unforward" /\ UNCHANGED <<disk, mutex>>
    <3>1. CASE Store(n, m) /\ mutex' = NoOp /\ op' = [op EXCEPT ![o].pc = "forward", ![o].meta = m]
      BY <1>1, <2>2, <3>1, CopyMoves DEF OpPC
    <3>2. CASE op' = [op EXCEPT ![o].pc = "unforward", ![o].meta = m] /\ UNCHANGED <<disk, mutex>>
      BY <1>1, <2>2, <3>2, CopyMoves DEF OpPC
    <3> QED
      BY <1>6, <3>1, <3>2
  <2>4. dir' \in [Name -> {"none", "bare", "meta"}] /\ meta' \in [Name -> Meta] /\ mutex' \in Op \cup {NoOp}
    <3>1. CASE Store(n, m) /\ mutex' = NoOp
      BY <1>1, <2>2, <3>1, StoredTypes
    <3>2. CASE UNCHANGED <<disk, mutex>>
      BY <1>1, <3>2 DEF disk, RuntimeTypeOK
    <3> QED
      BY <2>3, <3>1, <3>2
  <2>5. vms' \subseteq Name \X (1 .. MaxPid)
    BY <1>1, <1>6, <2>1 DEF RuntimeTypeOK
  <2>6. RuntimeTypeOK'
    BY <1>1, <1>4, <2>3, <2>4, <2>5 DEF RuntimeTypeOK, OthersWait
  <2>7. CallsWellFormed'
    BY <1>3, <2>3, StaysWellFormed
  <2>8. /\ \A k \in Name \ {n} : dir'[k] = dir[k] /\ meta'[k] = meta[k] /\ net'[k] = net[k]
        /\ Orderly /\ n \notin raced =>
             /\ dir'[n] = "meta" /\ meta'[n].addr = m.addr
             /\ op'[o].pc = "forward" => meta'[n].vm = pid
    <3>1. CASE Store(n, m) /\ op'[o].pc = "forward"
      BY <1>1, <1>4, <1>5, <1>6, <2>2, <3>1 DEF Store, RuntimeTypeOK
    <3>2. CASE UNCHANGED disk /\ op'[o].pc = "unforward"
      BY <1>1, <1>4, <1>5, <1>6, <2>2, <3>2 DEF disk, RuntimeTypeOK
    <3> QED
      BY <2>3, <3>1, <3>2
  <2>9. /\ Orderly' => Tidy'
        /\ Orderly' /\ (crashes = 0)' => VMsKnown'
    <3>1. Placed(o, n)
      <4> SUFFICES ASSUME Orderly, n \notin raced
                   PROVE  /\ dir'[n] = "meta" /\ ~(op'[o].pc = "lock" /\ op[o].kind = "create")
                          /\ meta'[n].addr = op'[o].meta.addr /\ meta'[n].addr # 0
                          /\ (net'[n] # 0 => net'[n] = meta'[n].addr)
                          /\ (op'[o].pc = "network" /\ op[o].kind = "create" => net'[n] = 0)
                          /\ \A k \in Name \ (raced \cup {n}) : dir[k] = "meta" => meta[k].addr # meta'[n].addr
        BY DEF Placed
      <4>1. dir'[n] = "meta" /\ meta'[n].addr = meta[n].addr /\ meta'[n].addr = op'[o].meta.addr
        BY <1>5, <1>6, <2>2, <2>3, <2>8
      <4>2. op'[o].pc \in {"forward", "unforward"}
        BY <2>3
      <4> QED
        BY <1>4, <1>5, <1>6, <4>1, <4>2
    <3>2. ComesUp(o, n)
      BY <1>6, <2>2, <2>3, <2>8 DEF ComesUp
    <3>3. /\ op[o].name = n /\ op[o].kind \in {"create", "start"} /\ op[o].pc \in {"mkdir", "lock", "network", "boot"}
          /\ op'[o].pc \notin {"idle", "mkdir", "unlink", "store", "remove"} /\ UNCHANGED <<crashes, raced, stale>>
          /\ Orderly /\ n \notin raced => ~op[o].cancelled
      BY <1>2, <1>3, <1>4, <1>6, <2>3
    <3>4. ElseSame(n)
      BY <2>8 DEF ElseSame
    <3> QED
      BY <2>3, <2>6, <3>1, <3>2, <3>3, <3>4, BuildMove
  <2> QED
    BY <2>6, <2>7, <2>9 DEF RuntimeInv
<1>7. CASE Goto(o, "unforward") /\ UNCHANGED <<disk, vms, mutex>>
  <2>1. OthersWait(o) /\ Keeps(o) /\ KeepsCopy(o) /\ op'[o].pc = "unforward"
    BY <1>1, <1>7, GotoMoves DEF OpPC
  <2>2. RuntimeTypeOK'
    BY <1>1, <1>4, <1>7, <2>1 DEF disk, RuntimeTypeOK, OthersWait
  <2>3. CallsWellFormed'
    BY <1>3, <2>1, StaysWellFormed
  <2>4. SameDisk
    BY <1>7 DEF SameDisk, disk
  <2>5. GoesOn(o)
    BY <1>3, <2>1 DEF GoesOn, Proceeds, Building, KeepsCopy
  <2>6. /\ Orderly' => Tidy'
        /\ Orderly' /\ (crashes = 0)' => VMsKnown'
    BY <1>4, <1>7, <2>1, <2>4, <2>5, QuietMove
  <2> QED
    BY <2>2, <2>3, <2>6 DEF RuntimeInv
<1> QED
  BY <1>2, <1>6, <1>7 DEF Boot

\* A forwarder's start, its wait and what follows their failure.
LEMMA QuietInv ==
  ASSUME RuntimeInv, NEW o \in Op, StartLock(o) \/ Forward(o) \/ Wait(o) \/ Fail(o) \/ Unforward(o)
  PROVE  RuntimeInv'
<1>1. CallsWellFormed /\ RuntimeTypeOK
  BY DEF RuntimeInv
<1>2. /\ UNCHANGED dir /\ UNCHANGED meta /\ UNCHANGED net /\ UNCHANGED vms /\ UNCHANGED crashes
      /\ UNCHANGED raced /\ UNCHANGED stale
  BY DEF StartLock, Forward, Wait, Fail, Unforward, disk, processes
<1>3. SameDisk
  BY <1>2 DEF SameDisk
<1>4. OthersWait(o) /\ mutex' \in Op \cup {NoOp} /\ forwards' \subseteq Name \X (1 .. MaxFwd)
      /\ ((op'[o] = Idle /\ op[o].pc \notin {"unforward", "halt"}) \/ GoesOn(o))
      /\ CallsWellFormed'
  <2>1. CASE StartLock(o)
    <3>1. OthersWait(o) /\ Keeps(o) /\ KeepsCopy(o) /\ op'[o].pc = "network"
      BY <1>1, <2>1, GotoMoves DEF StartLock, OpPC
    <3>2. CallsWellFormed'
      BY <2>1, <3>1, StaysWellFormed DEF StartLock
    <3> QED
      BY <1>1, <2>1, <3>1, <3>2 DEF StartLock, GoesOn, Proceeds, KeepsCopy, Building, RuntimeTypeOK, processes
  <2>2. CASE Forward(o)
    <3>1. op[o].pc = "forward" /\ op[o].name \in Name /\ op[o].kind \in {"create", "start", "get"} /\ UNCHANGED mutex
      BY <1>1, <2>2 DEF Forward, CallsWellFormed
    <3>2. OthersWait(o) /\ Keeps(o) /\ KeepsCopy(o) /\ op'[o].pc \in {"wait", "port", "failed"}
          /\ forwards' \subseteq Name \X (1 .. MaxFwd)
      <4>1. CASE Goto(o, "wait") /\ UNCHANGED forwards
        BY <1>1, <4>1, GotoMoves DEF OpPC, RuntimeTypeOK
      <4>2. CASE Goto(o, "failed") /\ UNCHANGED forwards
        BY <1>1, <4>2, GotoMoves DEF OpPC, RuntimeTypeOK
      <4>3. ASSUME NEW pid \in NewFwd(op[o].name), forwards' = forwards \cup {<<op[o].name, pid>>},
                   op' = [op EXCEPT ![o].pc = "port", ![o].meta.fwd = pid]
            PROVE  OthersWait(o) /\ Keeps(o) /\ KeepsCopy(o) /\ op'[o].pc \in {"wait", "port", "failed"}
                   /\ forwards' \subseteq Name \X (1 .. MaxFwd)
        <5>1. pid \in 1 .. MaxFwd /\ pid \in 0 .. MaxFwd
          BY <4>3, RuntimeAssumption DEF NewFwd, NewPids
        <5>2. OthersWait(o) /\ Keeps(o) /\ KeepsCopy(o) /\ op'[o].pc = "port"
          BY <1>1, <4>3, <5>1, ForwarderMoves DEF OpPC
        <5> QED
          BY <1>1, <3>1, <4>3, <5>1, <5>2 DEF RuntimeTypeOK
      <4> QED
        BY <2>2, <4>1, <4>2, <4>3 DEF Forward
    <3>3. CallsWellFormed'
      BY <3>1, <3>2, StaysWellFormed
    <3> QED
      BY <1>1, <3>1, <3>2, <3>3 DEF GoesOn, Proceeds, KeepsCopy, Building, RuntimeTypeOK
  <2>3. CASE Wait(o)
    <3>1. OthersWait(o) /\ op'[o] = Idle /\ mutex' \in Op \cup {NoOp}
      BY <1>1, <2>3, LeaveMoves DEF Wait
    <3>2. CallsWellFormed'
      BY <3>1, StaysWellFormed
    <3> QED
      BY <1>1, <2>3, <3>1, <3>2 DEF Wait, processes, RuntimeTypeOK
  <2>4. CASE Fail(o) /\ op[o].kind = "get"
    <3>1. OthersWait(o) /\ op'[o] = Idle /\ mutex' \in Op \cup {NoOp}
      BY <1>1, <2>4, LeaveMoves DEF Fail
    <3>2. CallsWellFormed'
      BY <3>1, StaysWellFormed
    <3> QED
      BY <1>1, <2>4, <3>1, <3>2 DEF Fail, processes, RuntimeTypeOK
  <2>5. CASE Fail(o) /\ op[o].kind # "get"
    <3>1. OthersWait(o) /\ Keeps(o) /\ KeepsCopy(o) /\ op'[o].pc = "unforward" /\ UNCHANGED mutex
      BY <1>1, <2>5, GotoMoves DEF Fail, OpPC
    <3>2. CallsWellFormed'
      BY <2>5, <3>1, StaysWellFormed DEF Fail
    <3> QED
      BY <1>1, <2>5, <3>1, <3>2 DEF Fail, GoesOn, Proceeds, KeepsCopy, Building, processes, RuntimeTypeOK
  <2>6. CASE Unforward(o)
    <3>1. 0 \in 0 .. MaxFwd
      BY RuntimeAssumption
    <3>2. OthersWait(o) /\ Keeps(o) /\ KeepsCopy(o) /\ op'[o].pc = "halt"
      BY <1>1, <2>6, <3>1, ForwarderMoves DEF Unforward, OpPC
    <3>3. CallsWellFormed'
      BY <1>1, <2>6, <3>2, StaysWellFormed DEF Unforward, CallsWellFormed
    <3> QED
      BY <1>1, <2>6, <3>2, <3>3 DEF Unforward, GoesOn, Proceeds, KeepsCopy, Building, RuntimeTypeOK
  <2> QED
    BY <2>1, <2>2, <2>3, <2>4, <2>5, <2>6
<1>5. RuntimeTypeOK'
  BY <1>1, <1>2, <1>4 DEF RuntimeTypeOK, OthersWait
<1>6. /\ Orderly' => Tidy'
      /\ Orderly' /\ (crashes = 0)' => VMsKnown'
  BY <1>2, <1>3, <1>4, QuietMove
<1> QED
  BY <1>4, <1>5, <1>6 DEF RuntimeInv

\* The metadata a forwarder's start stores are of the same VM in the same
\* network, or nothing is claimed any more.
LEMMA PortInv ==
  ASSUME RuntimeInv, NEW o \in Op, Port(o)
  PROVE  RuntimeInv'
<1>1. CallsWellFormed /\ RuntimeTypeOK
  BY DEF RuntimeInv
<1>2. PICK n \in Name : n = op[o].name
  BY <1>1 DEF Port, CallsWellFormed
<1>3. op[o].pc = "port" /\ op[o].kind \in {"create", "start", "get"}
  BY <1>1 DEF Port, CallsWellFormed
<1>4. UNCHANGED net /\ UNCHANGED vms /\ UNCHANGED forwards /\ UNCHANGED mutex /\ UNCHANGED crashes /\ UNCHANGED raced
  BY DEF Port, processes
<1>5. OthersWait(o) /\ Keeps(o) /\ KeepsCopy(o) /\ op'[o].pc \in {"wait", "failed"}
  BY <1>1, GotoMoves DEF Port, OpPC
<1>6. CallsWellFormed' /\ GoesOn(o)
  <2>1. CallsWellFormed'
    BY <1>3, <1>5, StaysWellFormed
  <2> QED
    BY <1>3, <1>5, <2>1 DEF GoesOn, Proceeds, KeepsCopy, Building
<1>7. CASE /\ dir' = [dir EXCEPT ![n] = "meta"] /\ meta' = [meta EXCEPT ![n] = op[o].meta]
           /\ stale' = IF dir[n] = "meta" /\ Same(meta[n], op[o].meta) THEN stale ELSE stale \cup {n}
  <2>1. RuntimeTypeOK'
    <3>1. op[o].meta \in Meta
      BY <1>1 DEF RuntimeTypeOK, Call
    <3> QED
      BY <1>1, <1>4, <1>5, <1>7, <3>1 DEF RuntimeTypeOK, OthersWait
  <2>2. ASSUME Orderly'
        PROVE  SameDisk /\ UNCHANGED stale
    <3>1. dir[n] = "meta" /\ Same(meta[n], op[o].meta)
      BY <1>7, <2>2 DEF Orderly
    <3> QED
      BY <1>1, <1>7, <3>1 DEF SameDisk, Same, RuntimeTypeOK
  <2>3. /\ Orderly' => Tidy'
        /\ Orderly' /\ (crashes = 0)' => VMsKnown'
    BY <1>4, <1>5, <1>6, <2>2, QuietMove
  <2> QED
    BY <1>6, <2>1, <2>3 DEF RuntimeInv
<1>8. CASE UNCHANGED <<disk, stale>>
  <2>1. SameDisk /\ UNCHANGED stale
    BY <1>8 DEF SameDisk, disk
  <2>2. RuntimeTypeOK'
    BY <1>1, <1>4, <1>5, <1>8 DEF RuntimeTypeOK, OthersWait, disk
  <2>3. /\ Orderly' => Tidy'
        /\ Orderly' /\ (crashes = 0)' => VMsKnown'
    BY <1>4, <1>5, <1>6, <2>1, QuietMove
  <2> QED
    BY <1>6, <2>2, <2>3 DEF RuntimeInv
<1> QED
  BY <1>2, <1>7, <1>8 DEF Port

--------------------------------------------------------------------------------
(* Stopping, and the environment *)

\* A stop kills the VM of its copy of the metadata, which is the machine's only one, or
\* the other is a failing build's.
LEMMA HaltInv ==
  ASSUME RuntimeInv, NEW o \in Op, Halt(o)
  PROVE  RuntimeInv'
<1>1. CallsWellFormed /\ RuntimeTypeOK
  BY DEF RuntimeInv
<1>2. PICK n \in Name : n = op[o].name
  BY <1>1 DEF Halt, CallsWellFormed
<1>3. op[o].pc = "halt" /\ op[o].kind \in {"create", "start", "stop", "delete", "reap"}
  <2>1. op[o].kind \in {"none", "create", "start", "stop", "delete", "reap", "get"}
    BY <1>1 DEF RuntimeTypeOK, Call
  <2> QED
    BY <1>1, <2>1 DEF Halt, CallsWellFormed
<1>4. PICK m : m = [op[o].meta EXCEPT !.vm = 0]
  OBVIOUS
<1>5. m \in Meta /\ m.addr = op[o].meta.addr
  <2>1. op[o].meta \in Meta
    BY <1>1 DEF RuntimeTypeOK, Call
  <2> QED
    BY <1>4, <2>1, RuntimeAssumption DEF Meta
<1>6. OthersWait(o) /\ Keeps(o) /\ op'[o].pc = "unlink" /\ op'[o].meta = m
  <2>1. op' = [op EXCEPT ![o].pc = "unlink", ![o].meta = m]
    BY <1>1, <1>4 DEF Halt, RuntimeTypeOK, Call
  <2> QED
    BY <1>1, <1>5, <2>1, CopyMoves DEF OpPC
<1>7. /\ vms' = vms \ {<<n, op[o].meta.vm>>}
      /\ UNCHANGED dir /\ UNCHANGED meta /\ UNCHANGED net /\ UNCHANGED forwards /\ UNCHANGED mutex
      /\ UNCHANGED crashes /\ UNCHANGED raced /\ UNCHANGED stale
  BY <1>2 DEF Halt, disk
<1>8. RuntimeTypeOK' /\ CallsWellFormed'
  <2>1. RuntimeTypeOK'
    BY <1>1, <1>6, <1>7 DEF RuntimeTypeOK, OthersWait
  <2>2. CallsWellFormed'
    BY <1>3, <1>6, StaysWellFormed
  <2> QED
    BY <2>1, <2>2
<1>9. ASSUME Orderly'
      PROVE  Tidy'
  <2>1. SameDisk
    BY <1>7 DEF SameDisk
  <2>2. Proceeds(o)
    BY <1>3, <1>5, <1>6 DEF Proceeds, Building
  <2> QED
    BY <1>6, <1>7, <1>9, <2>1, <2>2, QuietTidy DEF Orderly
<1>10. ASSUME Orderly', (crashes = 0)'
       PROVE  VMsKnown'
  <2>1. VMsKnown
    BY <1>7, <1>10 DEF RuntimeInv, Orderly
  <2>2. \A p \in vms : p = <<p[1], p[2]>> /\ p[1] \in Name
    BY <1>1 DEF RuntimeTypeOK
  <2>3. ASSUME NEW p \in vms', Failing(p)
        PROVE  Failing(p)'
    <3>1. PICK q \in Op : /\ op[q].name = p[1] /\ op[q].kind \in {"create", "start"}
                          /\ op[q].pc \in {"unforward", "halt"} /\ op[q].meta.vm = p[2]
      BY <2>3 DEF Failing
    <3>2. q # o
      BY <1>2, <1>7, <2>2, <3>1
    <3> QED
      BY <1>6, <3>1, <3>2 DEF Failing, OthersWait
  <2>4. \A p \in vms' : p \in vms /\ (Named(p) <=> Named(p)')
    BY <1>7 DEF Named
  <2>5. OneEach' /\ AllKnown'
    BY <1>7, <2>1, <2>3, <2>4 DEF VMsKnown, OneEach, AllKnown
  <2>6. ASSUME NEW p \in vms', p[1] = n, n \notin raced
        PROVE  op[o].kind \in Removing /\ Failing(p)'
    <3>1. p \in vms /\ p[2] # op[o].meta.vm
      BY <1>7, <2>2, <2>6
    <3>2. Knows(o, p)
      BY <1>2, <2>1, <2>6, <3>1 DEF VMsKnown, CallsKnow
    <3> QED
      BY <1>3, <2>3, <2>6, <3>1, <3>2 DEF Knows, Removing
  <2>7. ASSUME NEW q \in Op, NEW p \in vms', p[1] = op'[q].name, p[1] \notin raced
        PROVE  Knows(q, p)'
    <3>1. CASE q # o
      <4>1. op'[q] = op[q] /\ p \in vms
        BY <1>6, <2>4, <3>1 DEF OthersWait
      <4>2. Knows(q, p)
        BY <2>1, <2>7, <4>1 DEF VMsKnown, CallsKnow
      <4> QED
        BY <2>3, <2>7, <4>1, <4>2 DEF Knows, Stopped
    <3>2. CASE q = o
      <4>1. op[o].kind \in Removing /\ Failing(p)'
        BY <1>2, <1>6, <2>6, <2>7, <3>2 DEF Keeps
      <4> QED
        BY <1>6, <3>2, <4>1 DEF Knows, Keeps, Removing
    <3> QED
      BY <3>1, <3>2
  <2> QED
    BY <1>7, <2>5, <2>7 DEF VMsKnown, CallsKnow
<1> QED
  BY <1>8, <1>9, <1>10 DEF RuntimeInv

\* A step of a call that has killed its VM touches no VM.
LEMMA StoppedMove ==
  ASSUME RuntimeInv, Orderly, crashes = 0, NEW o \in Op, OthersWait(o), Stopped(o),
         op'[o] = Idle \/ (Keeps(o) /\ Stopped(o)'),
         \A k \in Name \ {op[o].name} : dir'[k] = dir[k] /\ meta'[k] = meta[k],
         UNCHANGED <<vms, raced>>
  PROVE  VMsKnown'
<1>1. CallsWellFormed /\ RuntimeTypeOK /\ VMsKnown
  BY DEF RuntimeInv
<1>2. UNCHANGED vms /\ UNCHANGED raced
  OBVIOUS
<1>3. \A p \in vms : Failing(p) => Failing(p)'
  BY DEF Failing, OthersWait, Stopped
<1>4. ASSUME NEW p \in vms, p[1] \notin raced
      PROVE  Named(p)' \/ Failing(p)'
  <2>1. CASE p[1] = op[o].name
    <3>1. Knows(o, p)
      BY <1>1, <1>4, <2>1 DEF VMsKnown, CallsKnow
    <3>2. op[o].kind \in {"none", "create", "start", "stop", "delete", "reap", "get"}
      BY <1>1 DEF RuntimeTypeOK, Call
    <3>3. op[o].kind \in {"create", "start", "stop"} \cup Removing
      BY <1>1, <3>2 DEF CallsWellFormed, Stopped, Removing
    <3> QED
      BY <1>3, <1>4, <3>1, <3>3 DEF Knows
  <2>2. CASE p[1] # op[o].name
    <3>1. Named(p) => Named(p)'
      BY <1>1, <2>2 DEF Named, RuntimeTypeOK
    <3> QED
      BY <1>1, <1>3, <1>4, <3>1 DEF VMsKnown, AllKnown
  <2> QED
    BY <2>1, <2>2
<1>5. ASSUME NEW q \in Op, NEW p \in vms, p[1] = op'[q].name, p[1] \notin raced
      PROVE  Knows(q, p)'
  <2>1. CASE op'[q] = op[q]
    <3>1. Knows(q, p)
      BY <1>1, <1>5, <2>1 DEF VMsKnown, CallsKnow
    <3> QED
      BY <1>3, <1>5, <2>1, <3>1 DEF Knows, Stopped
  <2>2. CASE op'[q] = Idle
    BY <2>2, IdleIsCall DEF Knows, Removing
  <2>3. CASE q = o /\ Keeps(o) /\ Stopped(o)'
    <3>1. Knows(o, p)
      BY <1>1, <1>5, <2>3 DEF VMsKnown, CallsKnow, Keeps
    <3> QED
      BY <1>3, <1>5, <2>3, <3>1 DEF Knows, Stopped, Keeps
  <2> QED
    BY <2>1, <2>2, <2>3 DEF OthersWait
<1> QED
  BY <1>1, <1>2, <1>4, <1>5 DEF VMsKnown, OneEach, AllKnown, CallsKnow

\* The machine has no network any more, and its call knows.
LEMMA UnlinkInv ==
  ASSUME RuntimeInv, NEW o \in Op, Unlink(o)
  PROVE  RuntimeInv'
<1>1. CallsWellFormed /\ RuntimeTypeOK
  BY DEF RuntimeInv
<1>2. PICK n \in Name : n = op[o].name
  BY <1>1 DEF Unlink, CallsWellFormed
<1>3. op[o].pc = "unlink" /\ op[o].kind # "get"
  BY <1>1 DEF Unlink, CallsWellFormed
<1>4. OthersWait(o) /\ Keeps(o) /\ KeepsCopy(o) /\ op'[o].pc = "store"
  BY <1>1, GotoMoves DEF Unlink, OpPC
<1>5. /\ net' = [net EXCEPT ![n] = 0]
      /\ UNCHANGED dir /\ UNCHANGED meta /\ UNCHANGED vms /\ UNCHANGED forwards /\ UNCHANGED mutex
      /\ UNCHANGED crashes /\ UNCHANGED raced /\ UNCHANGED stale
  BY <1>2 DEF Unlink, disk, processes
<1>6. RuntimeTypeOK' /\ CallsWellFormed'
  <2>1. RuntimeTypeOK'
    BY <1>1, <1>4, <1>5, RuntimeAssumption DEF RuntimeTypeOK, OthersWait
  <2>2. CallsWellFormed'
    BY <1>3, <1>4, StaysWellFormed
  <2> QED
    BY <2>1, <2>2
<1>7. net'[n] = 0 /\ \A k \in Name \ {n} : net'[k] = net[k]
  BY <1>1, <1>5 DEF RuntimeTypeOK
<1>8. ASSUME Orderly'
      PROVE  Tidy'
  <2>1. Tidy
    BY <1>5, <1>8 DEF RuntimeInv, Orderly
  <2>2. OneChange'
    BY <1>4, <1>5, <2>1 DEF Tidy, OneChange, Beside, Changing, OthersWait, Keeps
  <2>3. MetaOfDir' /\ AddressesTaken'
    BY <1>5, <2>1 DEF Tidy, MetaOfDir, AddressesTaken
  <2>4. CopiesAgree'
    <3> SUFFICES ASSUME NEW q \in Op, op'[q].name \notin raced PROVE Agrees(q)'
      BY <1>5 DEF CopiesAgree
    <3>1. Agrees(q)
      BY <1>4, <2>1 DEF Tidy, CopiesAgree, OthersWait, Keeps
    <3>2. CASE q # o
      BY <1>4, <1>5, <3>1, <3>2 DEF Agrees, Building, Loaded, Holds, Changing, OthersWait
    <3>3. CASE q = o
      BY <1>3, <1>4, <1>5, <3>1, <3>3 DEF Agrees, Building, Loaded, Holds, Changing, Keeps, KeepsCopy
    <3> QED
      BY <3>2, <3>3
  <2>5. NetworkNamed'
    <3>1. \A k \in Name \ raced : net'[k] # 0 => dir'[k] = "meta" /\ meta'[k].addr = net'[k]
      BY <1>5, <1>7, <2>1 DEF Tidy, NetworkNamed
    <3>2. ASSUME NEW q \in Op, Unlinked(q)', op'[q].name \notin raced
          PROVE  net'[op'[q].name] = 0
      <4>1. CASE op'[q].name = n
        BY <1>7, <4>1
      <4>2. CASE op'[q].name # n
        <5>1. q # o
          BY <1>2, <1>4, <4>2 DEF Keeps
        <5>2. op'[q] = op[q] /\ Unlinked(q)
          BY <1>4, <3>2, <5>1 DEF Unlinked, OthersWait
        <5>3. op[q].name \in Name \ {n}
          BY <1>1, <4>2, <5>2 DEF CallsWellFormed, Unlinked
        <5> QED
          BY <1>7, <2>1, <3>2, <5>2, <5>3 DEF Tidy, NetworkNamed
      <4> QED
        BY <4>1, <4>2
    <3> QED
      BY <1>5, <3>1, <3>2 DEF NetworkNamed
  <2> QED
    BY <2>2, <2>3, <2>4, <2>5 DEF Tidy
<1>9. ASSUME Orderly', (crashes = 0)'
      PROVE  VMsKnown'
  <2>1. Orderly /\ crashes = 0 /\ Stopped(o) /\ Stopped(o)'
    BY <1>3, <1>4, <1>5, <1>9 DEF Orderly, Stopped
  <2>2. UNCHANGED <<vms, raced>> /\ \A k \in Name \ {op[o].name} : dir'[k] = dir[k] /\ meta'[k] = meta[k]
    BY <1>5
  <2> QED
    BY <1>4, <2>1, <2>2, StoppedMove
<1> QED
  BY <1>6, <1>8, <1>9 DEF RuntimeInv

\* What is stored is the address the machine has.
LEMMA StoreStoppedInv ==
  ASSUME RuntimeInv, NEW o \in Op, StoreStopped(o)
  PROVE  RuntimeInv'
<1>1. CallsWellFormed /\ RuntimeTypeOK
  BY DEF RuntimeInv
<1>2. PICK n \in Name : n = op[o].name
  BY <1>1 DEF StoreStopped, CallsWellFormed
<1>3. op[o].pc = "store" /\ op[o].kind \in {"create", "start", "stop", "delete", "reap"}
  <2>1. op[o].kind \in {"none", "create", "start", "stop", "delete", "reap", "get"}
    BY <1>1 DEF RuntimeTypeOK, Call
  <2> QED
    BY <1>1, <2>1 DEF StoreStopped, CallsWellFormed
<1>4. PICK m : m = op[o].meta
  OBVIOUS
<1>5. m \in Meta
  BY <1>1, <1>4 DEF RuntimeTypeOK, Call
<1>6. /\ Store(n, m)
      /\ UNCHANGED net /\ UNCHANGED vms /\ UNCHANGED forwards
      /\ UNCHANGED crashes /\ UNCHANGED raced /\ UNCHANGED stale
  BY <1>2, <1>4 DEF StoreStopped, processes
<1>7. /\ OthersWait(o) /\ mutex' \in Op \cup {NoOp}
      /\ \/ op'[o] = Idle
         \/ op'[o].pc = "remove" /\ Keeps(o) /\ KeepsCopy(o) /\ op[o].kind \in {"create", "delete", "reap"}
  <2>1. CASE op[o].kind \in {"create", "delete", "reap"}
    <3>1. Goto(o, "remove") /\ UNCHANGED mutex
      BY <2>1 DEF StoreStopped
    <3> QED
      BY <1>1, <2>1, <3>1, GotoMoves DEF OpPC, RuntimeTypeOK
  <2>2. CASE op[o].kind \notin {"create", "delete", "reap"}
    <3>1. Leave(o)
      BY <2>2 DEF StoreStopped
    <3> QED
      BY <1>1, <3>1, LeaveMoves
  <2> QED
    BY <2>1, <2>2
<1>8. CallsWellFormed'
  BY <1>3, <1>7, StaysWellFormed
<1>9. RuntimeTypeOK'
  <2>1. dir' \in [Name -> {"none", "bare", "meta"}] /\ meta' \in [Name -> Meta]
    BY <1>1, <1>5, <1>6, StoredTypes
  <2> QED
    BY <1>1, <1>6, <1>7, <2>1 DEF RuntimeTypeOK, OthersWait
<1>10. \A k \in Name \ {n} : dir'[k] = dir[k] /\ meta'[k] = meta[k]
  BY <1>1, <1>6 DEF RuntimeTypeOK, Store
<1>11. CASE n \in raced
  <2>1. \A q \in Op : \/ op'[q] = op[q]
                      \/ /\ op[q] = Idle \/ op[q].name = n
                         /\ op'[q] = Idle \/ op'[q].name = n
    BY <1>2, <1>7 DEF OthersWait, Keeps
  <2>2. UNCHANGED <<crashes, stale>> /\ raced \subseteq raced' /\ n \in raced'
    BY <1>6, <1>11
  <2>3. /\ \A k \in Name \ {n} : dir'[k] = dir[k] /\ meta'[k] = meta[k] /\ net'[k] = net[k]
        /\ \A p \in vms' : p[1] # n => p \in vms
    BY <1>6, <1>10
  <2>4. /\ Orderly' => Tidy'
        /\ Orderly' /\ (crashes = 0)' => VMsKnown'
    BY <1>9, <2>1, <2>2, <2>3, RacedMove
  <2> QED
    BY <1>8, <1>9, <2>4 DEF RuntimeInv
<1>12. CASE n \notin raced
  <2>1. ASSUME Orderly'
        PROVE  Tidy'
    <3>1. Tidy
      BY <1>6, <2>1 DEF RuntimeInv, Orderly
    <3>2. /\ dir'[n] = dir[n] /\ meta'[n].addr = meta[n].addr
          /\ dir[n] = "none" => meta'[n] = meta[n]
          /\ dir[n] \in {"none", "meta"}
      <4>1. Loaded(o)
        BY <1>3 DEF Loaded, Building, Changing, Changes
      <4>2. Agrees(o)
        BY <1>2, <1>12, <3>1 DEF Tidy, CopiesAgree
      <4>3. dir[n] \in {"none", "meta"} /\ (dir[n] = "meta" => meta[n].addr = m.addr)
        BY <1>1, <1>2, <1>4, <4>1, <4>2 DEF Agrees, RuntimeTypeOK
      <4> QED
        BY <1>1, <1>6, <4>3 DEF Store, RuntimeTypeOK
    <3>3. \A k \in Name : /\ dir'[k] = dir[k] /\ meta'[k].addr = meta[k].addr
                          /\ dir[k] # "meta" => meta'[k] = meta[k]
      BY <1>10, <3>2
    <3>4. OneChange'
      <4>1. \A q \in Op : Changing(q)' => /\ Changing(q) /\ op'[q].kind = op[q].kind /\ op'[q].name = op[q].name
                                          /\ op'[q].cancelled = op[q].cancelled
        BY <1>7, IdleIsCall DEF Changing, Changes, OthersWait, Keeps
      <4> QED
        BY <1>6, <3>1, <4>1 DEF Tidy, OneChange, Beside
    <3>5. MetaOfDir' /\ AddressesTaken'
      BY <1>6, <3>1, <3>3 DEF Tidy, MetaOfDir, AddressesTaken
    <3>6. CopiesAgree'
      <4> SUFFICES ASSUME NEW q \in Op, op'[q].name \notin raced PROVE Agrees(q)'
        BY <1>6 DEF CopiesAgree
      <4>1. CASE op'[q] = op[q]
        <5>1. Agrees(q)
          BY <3>1, <4>1 DEF Tidy, CopiesAgree
        <5>2. Changing(q) => op[q].name \in Name
          BY <1>1 DEF CallsWellFormed, Changing, Changes
        <5> QED
          BY <3>3, <4>1, <5>1, <5>2 DEF Agrees, Building, Loaded, Holds, Changing, Changes
      <4>2. CASE op'[q] = Idle
        BY <4>2, IdleIsCall DEF Agrees, Building, Loaded, Holds, Changing, Changes
      <4>3. CASE q = o /\ op'[o].pc = "remove" /\ Keeps(o) /\ KeepsCopy(o)
        <5>1. Agrees(o)
          BY <1>2, <1>12, <3>1 DEF Tidy, CopiesAgree
        <5> QED
          BY <1>2, <1>3, <3>3, <4>3, <5>1 DEF Agrees, Building, Loaded, Holds, Changing, Changes, Keeps, KeepsCopy
      <4> QED
        BY <1>7, <4>1, <4>2, <4>3 DEF OthersWait
    <3>7. NetworkNamed'
      <4>1. \A q \in Op : Unlinked(q)' => Unlinked(q) /\ op'[q].name = op[q].name
        BY <1>3, <1>7, IdleIsCall DEF Unlinked, OthersWait, Keeps
      <4> QED
        BY <1>6, <3>1, <3>3, <4>1 DEF Tidy, NetworkNamed
    <3> QED
      BY <3>4, <3>5, <3>6, <3>7 DEF Tidy
  <2>2. ASSUME Orderly', (crashes = 0)'
        PROVE  VMsKnown'
    <3>1. Orderly /\ crashes = 0 /\ Stopped(o) /\ (op'[o] = Idle \/ (Keeps(o) /\ Stopped(o)'))
      BY <1>3, <1>6, <1>7, <2>2 DEF Orderly, Stopped
    <3>2. UNCHANGED <<vms, raced>> /\ \A k \in Name \ {op[o].name} : dir'[k] = dir[k] /\ meta'[k] = meta[k]
      BY <1>2, <1>6, <1>10
    <3> QED
      BY <1>7, <3>1, <3>2, StoppedMove
  <2> QED
    BY <1>8, <1>9, <2>1, <2>2 DEF RuntimeInv
<1> QED
  BY <1>11, <1>12

LEMMA VMExitInv ==
  ASSUME RuntimeInv, VMExit
  PROVE  RuntimeInv'
<1>1. UNCHANGED dir /\ UNCHANGED meta /\ UNCHANGED net /\ UNCHANGED forwards /\ UNCHANGED mutex /\ UNCHANGED op
      /\ UNCHANGED crashes /\ UNCHANGED raced /\ UNCHANGED stale /\ vms' \subseteq vms
  BY DEF VMExit, disk
<1>2. RuntimeTypeOK' /\ CallsWellFormed'
  BY <1>1 DEF RuntimeInv, RuntimeTypeOK, CallsWellFormed
<1>3. Orderly => Tidy'
  BY <1>1 DEF RuntimeInv, Tidy, OneChange, MetaOfDir, CopiesAgree, NetworkNamed, AddressesTaken,
     Agrees, Unlinked, Beside, Changing, Building, Loaded, Holds
<1>4. ASSUME VMsKnown
      PROVE  VMsKnown'
  <2>1. \A p : (Named(p) <=> Named(p)') /\ (Failing(p) <=> Failing(p)')
    BY <1>1 DEF Named, Failing
  <2>2. OneEach' /\ AllKnown'
    BY <1>1, <1>4, <2>1 DEF VMsKnown, OneEach, AllKnown
  <2>3. CallsKnow'
    BY <1>1, <1>4, <2>1 DEF VMsKnown, CallsKnow, Knows, Stopped
  <2> QED
    BY <2>2, <2>3 DEF VMsKnown
<1> QED
  BY <1>1, <1>2, <1>3, <1>4 DEF RuntimeInv, Orderly

LEMMA CrashInv ==
  ASSUME RuntimeInv, Crash
  PROVE  RuntimeInv'
<1>1. UNCHANGED dir /\ UNCHANGED meta /\ UNCHANGED net /\ UNCHANGED vms /\ UNCHANGED forwards
      /\ UNCHANGED raced /\ UNCHANGED stale
      /\ op' = [o \in Op |-> Idle] /\ mutex' = NoOp /\ crashes < MaxCrash /\ crashes' = crashes + 1
  BY DEF Crash, disk, processes
<1>2. RuntimeTypeOK' /\ crashes' # 0
  BY <1>1, IdleIsCall, RuntimeAssumption DEF RuntimeInv, RuntimeTypeOK
<1>3. CallsWellFormed'
  BY <1>1, IdleIsCall DEF CallsWellFormed
<1>4. Orderly => Tidy'
  BY <1>1, IdleIsCall DEF RuntimeInv, Tidy, OneChange, MetaOfDir, CopiesAgree, NetworkNamed, AddressesTaken,
     Agrees, Unlinked, Changing, Changes, Building, Loaded, Holds
<1> QED
  BY <1>1, <1>2, <1>3, <1>4 DEF RuntimeInv, Orderly

LEMMA RuntimeInvStutter == RuntimeInv /\ UNCHANGED rvars => RuntimeInv'
<1> SUFFICES ASSUME RuntimeInv, UNCHANGED rvars PROVE RuntimeInv'
  OBVIOUS
<1>1. UNCHANGED dir /\ UNCHANGED meta /\ UNCHANGED net /\ UNCHANGED vms /\ UNCHANGED forwards /\ UNCHANGED mutex
      /\ UNCHANGED op /\ UNCHANGED crashes /\ UNCHANGED raced /\ UNCHANGED stale
  BY DEF rvars, disk, processes
<1>2. RuntimeTypeOK' /\ CallsWellFormed'
  BY <1>1 DEF RuntimeInv, RuntimeTypeOK, CallsWellFormed
<1>3. Orderly => Tidy'
  BY <1>1 DEF RuntimeInv, Tidy, OneChange, MetaOfDir, CopiesAgree, NetworkNamed, AddressesTaken,
     Agrees, Unlinked, Beside, Changing, Building, Loaded, Holds
<1>4. VMsKnown => VMsKnown'
  BY <1>1 DEF VMsKnown, OneEach, AllKnown, CallsKnow, Knows, Stopped, Named, Failing
<1> QED
  BY <1>1, <1>2, <1>3, <1>4 DEF RuntimeInv, Orderly

LEMMA RuntimeInvNext == RuntimeInv /\ [RuntimeNext]_rvars => RuntimeInv'
<1> SUFFICES ASSUME RuntimeInv, [RuntimeNext]_rvars PROVE RuntimeInv'
  OBVIOUS
<1>1. ASSUME NEW o \in Op, Step(o) PROVE RuntimeInv'
  <2>1. CASE StartLock(o) \/ Forward(o) \/ Wait(o) \/ Fail(o) \/ Unforward(o)
    BY <2>1, QuietInv
  <2> QED
    BY <1>1, <2>1, MkdirInv, PrepareInv, NetworkInv, BootInv, PortInv, HaltInv, UnlinkInv, StoreStoppedInv,
       RemoveAllInv DEF Step
<1>2. ASSUME NEW o \in Op, NEW n \in Name,
             \/ Create(o, n) \/ Start(o, n) \/ Reap(o, n) \/ Get(o, n)
             \/ \E kind \in {"stop", "delete"} : StopOrDelete(o, n, kind)
      PROVE  RuntimeInv'
  BY <1>2, CreateInv, StartInv, ReapInv, GetInv, StopOrDeleteInv
<1> QED
  BY <1>1, <1>2, VMExitInv, CrashInv, RuntimeInvStutter DEF RuntimeNext

\* The strengthened invariant of the runtime holds of every state, for any names, calls
\* and bounds; RuntimeTypeOK is one of its parts.
THEOREM RuntimeInvHolds == RuntimeSpec => []RuntimeInv
<1> QED
  BY RuntimeInvInit, RuntimeInvNext, PTL DEF RuntimeSpec

\* No two machines of a host have the same address, in their metadata
\* (prepareNetworkMetadata) or on its interfaces (createNamespaceNetwork), over any
\* builds, starts, stops, deletes and deaths of the server; a machine that a delete
\* without lock met during a build or a start is excepted.
THEOREM AddressesDifferAlways == RuntimeSpec => []AddressesDiffer
<1>1. RuntimeInv => AddressesDiffer
  BY DEF RuntimeInv, Tidy, NetworkNamed, AddressesTaken, AddressesDiffer, RuntimeTypeOK
<1> QED
  BY <1>1, RuntimeInvHolds, PTL

\* Until the server dies a machine has one VM process at most: startVM and restoreVM
\* never run beside a VM of the same machine, unless a delete without lock met them.
THEOREM OneVMAlways == RuntimeSpec => []OneVM
<1>1. ASSUME RuntimeInv PROVE OneVM
  <2> SUFFICES ASSUME NEW n \in Name \ raced, Orderly, crashes = 0
               PROVE  Cardinality({p \in vms : p[1] = n}) <= 1
    BY DEF OneVM
  <2> DEFINE own == {p \in vms : p[1] = n}
  <2>1. \A p, q \in own : p = q
    BY <1>1 DEF RuntimeInv, VMsKnown, OneEach
  <2>2. own = {} \/ \E p : own = {p}
    BY <2>1
  <2>3. Cardinality({}) = 0 /\ \A p : Cardinality({p}) = 1
    BY FS_EmptySet, FS_Singleton
  <2> HIDE DEF own
  <2>4. Cardinality(own) <= 1
    <3>1. Cardinality(own) = 0 \/ Cardinality(own) = 1
      BY <2>2, <2>3, Zenon
    <3> QED
      BY <3>1
  <2> QED
    BY <2>4 DEF own
<1> QED
  BY <1>1, RuntimeInvHolds, PTL

\* Between the calls on a machine its interface and its VM are those its metadata name,
\* so that the next stop or delete finds them (stopMachineRuntime, cleanupMachine); a
\* machine that a delete without lock met during a build or a start is excepted.
THEOREM NothingLostAlways == RuntimeSpec => []NothingLost
<1>1. ASSUME RuntimeInv PROVE NothingLost
  <2> SUFFICES ASSUME NEW n \in Name \ raced, Orderly, crashes = 0,
                      On(n, Changes \cup {"create", "reap", "get"}) = {}
               PROVE  /\ net[n] # 0 => dir[n] = "meta" /\ meta[n].addr = net[n]
                      /\ \A p \in vms : p[1] = n => dir[n] = "meta" /\ meta[n].vm = p[2]
    BY DEF NothingLost
  <2>1. \A p \in vms : p[1] = n => ~Failing(p)
    BY DEF On, Changes, Failing
  <2> QED
    BY <1>1, <2>1 DEF RuntimeInv, Tidy, NetworkNamed, VMsKnown, AllKnown, Named
<1> QED
  BY <1>1, RuntimeInvHolds, PTL
================================================================================
