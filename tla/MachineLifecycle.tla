-------------------------- MODULE MachineLifecycle --------------------------
(***************************************************************************)
(* The life of a machine: its row in the control plane's database, its VM  *)
(* in the host runtime, and everything that moves the two concurrently:    *)
(*                                                                         *)
(*   - request handlers (create, delete, start, stop, fork, get);          *)
(*   - create jobs, the goroutines queueMachineCreate starts;              *)
(*   - the reconcile pass, run at startup and then every 30 seconds;       *)
(*   - the environment: guests that power off, a control-plane crash, a    *)
(*     host reboot.                                                        *)
(*                                                                         *)
(* One action is one database statement, one runtime call or one use of an *)
(* in-memory lock or map: the points at which the goroutines interleave.   *)
(* There is one host, so machines.host_id and the executor map are left    *)
(* out.  A machine's runtime name is its name.  Admission (budgets, host   *)
(* capacity, validation) is an arbitrary accept or reject.                 *)
(***************************************************************************)
EXTENDS Naturals, FiniteSets

CONSTANTS Name,      \* machine names; unique over all users
          User,      \* owners
          Req,       \* concurrent API requests
          Job,       \* goroutine slots for create jobs
          Pass,      \* concurrent reconcile passes
          NoUser, NoReq, NoJob,  \* none of them
          Ops,       \* what is started: client operations, reconcile passes
          Faults,    \* what the environment may do
          MaxId,     \* bound: machine rows ever inserted
          MaxCrash   \* bound: crashes and reboots

ClientOps == {"create", "delete", "start", "stop", "fork", "get"}

\* Calls of the runtime fail; the context of a delete expires after its VM is
\* gone; a reconcile pass ends early; a guest powers off; the control plane
\* dies; the host restarts.
FaultKinds == {"runtimeError", "deleteTimeout", "reconcileError", "vmExit",
               "crash", "reboot"}

ASSUME ConstantsAssumption ==
  /\ NoUser \notin User
  /\ NoReq \notin Req
  /\ NoJob \notin Job
  /\ Ops \subseteq ClientOps \cup {"reconcile"}
  /\ Faults \subseteq FaultKinds
  /\ MaxId \in Nat
  /\ MaxCrash \in Nat

VARIABLES
  machines,       \* the machines table: for each name its row, or NoRecord
  nextId,         \* number of rows ever inserted; a row's id is its ordinal
  vms,            \* the runtime's state directory, one entry per name
  createCancels,  \* Service.createCancels: the registered job of a name
  userLocks,      \* Service.userLocks
  hostLock,       \* Service.hostLocks, for the one host
  req,            \* request handlers
  job,            \* create jobs
  recon,          \* reconcile passes
  crashes         \* crashes and reboots so far

vars == <<machines, nextId, vms, createCancels, userLocks, hostLock, req, job,
          recon, crashes>>

-----------------------------------------------------------------------------
(* The machines table *)

Transitional == {"CREATING", "STARTING", "STOPPING", "DELETING"}

MachineState == Transitional \cup {"RUNNING", "STOPPED", "FAILED", "missing"}

NoRecord == [id |-> 0, owner |-> NoUser, state |-> "none"]

Exists(n) == machines[n].id # 0

\* UPDATE machines SET state = ... WHERE id = ?: no row, no effect.
WithState(n, id, s) ==
  IF Exists(n) /\ machines[n].id = id
  THEN [machines EXCEPT ![n].state = s]
  ELSE machines

\* The same through GetMachineByName: whichever row has the name now.
WithStateByName(n, s) == WithState(n, machines[n].id, s)

Insert(n, u) ==
  /\ machines' = [machines EXCEPT ![n] =
                    [id |-> nextId + 1, owner |-> u, state |-> "CREATING"]]
  /\ nextId' = nextId + 1

\* ownedMachineRecord, and its mutant without the check of the owner
OwnedAnyone(n, u) == Exists(n)
Owned(n, u) == Exists(n) /\ machines[n].owner = u

\* Mutant of ShouldAdopt: RUNNING is never left.
AdoptUpwards(recordState, runtimeState) ==
  /\ recordState # runtimeState
  /\ recordState \notin Transitional \cup {"FAILED", "RUNNING"}

\* shouldAdoptRuntimeState
ShouldAdopt(recordState, runtimeState) ==
  /\ recordState # runtimeState
  /\ recordState \notin Transitional \cup {"FAILED"}

\* machineStateAllowsMissingRuntime
AllowsMissing(s) == s \in {"CREATING", "DELETING", "FAILED"}

\* Mutant of Accepts: a delete cancels the creation that is under way.
AcceptsCreating(op) ==
  CASE op = "delete" -> MachineState \ (Transitional \ {"CREATING"})
    [] op = "start"  -> {"STOPPED"}
    [] op = "stop"   -> {"RUNNING"}

\* The states DeleteMachine, StartMachine and StopMachine accept.
Accepts(op) ==
  CASE op = "delete" -> MachineState \ Transitional
    [] op = "start"  -> {"STOPPED"}
    [] op = "stop"   -> {"RUNNING"}

(* The runtime: "none" no directory, "dir" a directory without metadata,   *)
(* otherwise the state machineFromMetadata reports.                        *)

VMState == {"none", "dir", "STOPPED", "RUNNING"}

\* loadMetadata succeeds; the mutant lists directories instead.
VisibleDir(n) == vms[n] # "none"
Visible(n) == vms[n] \in {"STOPPED", "RUNNING"}

\* Runtime DeleteMachine: without metadata it is ErrMachineNotFound and
\* leaves a bare directory in place.
Deleted(n) == IF Visible(n) THEN [vms EXCEPT ![n] = "none"] ELSE vms

\* stopMachineRuntime
Halted(n) == IF Visible(n) THEN [vms EXCEPT ![n] = "STOPPED"] ELSE vms

\* What a runtime call that stops or deletes a VM leaves behind when it fails:
\* everything, or the VM stopped already.
Failing(n) == IF "runtimeError" \in Faults THEN {vms, Halted(n)} ELSE {}

-----------------------------------------------------------------------------
(* Control points *)

\* Under the user lock, before any row is known.
PreparePC == {"begin", "forkAdmit"}

\* Under the user lock, working on the row req[r].id.
PowerPC == {"mark", "startRun", "startGuest", "startEnv", "startDone",
            "startFail", "stopRun", "stopDone", "stopFail", "refresh",
            "adopt"}
DeletePC == {"delRun", "delDb"}
NewPC == {"queue", "mkdir", "store", "boot", "guest", "built", "persist",
          "env", "fail", "failMark"}
HoldingPC == PowerPC \cup DeletePC \cup NewPC

LockedPC == PreparePC \cup HoldingPC
ReadPC == {"getLive", "getWrite"}
ReqPC == {"idle", "lock"} \cup LockedPC \cup ReadPC

IdleReq == [pc |-> "idle", op |-> "get", user |-> NoUser, name |-> "none",
            id |-> 0, seen |-> "none"]

BuildPC == {"mkdir", "store", "boot", "guest"}

JobPC == {"idle", "built", "env", "finish", "persist", "cleanup", "fail", "failMark",
          "clear"} \cup BuildPC

IdleJob == [pc |-> "idle", name |-> "none", id |-> 0, cancelled |-> FALSE,
            live |-> "STOPPED"]

IdleRecon == [pc |-> "idle",
              known |-> [n \in Name |-> NoRecord],
              live |-> [n \in Name |-> "none"],
              todo |-> {}]

Init ==
  /\ machines = [n \in Name |-> NoRecord]
  /\ nextId = 0
  /\ vms = [n \in Name |-> "none"]
  /\ createCancels = [n \in Name |-> NoJob]
  /\ userLocks = [u \in User |-> NoReq]
  /\ hostLock = NoReq
  /\ req = [r \in Req |-> IdleReq]
  /\ job = [j \in Job |-> IdleJob]
  /\ recon = [p \in Pass |-> IdleRecon]
  /\ crashes = 0

-----------------------------------------------------------------------------
(* Building blocks of the handlers *)

At(r, pc) == req[r].pc = pc

Goto(r, pc) == req' = [req EXCEPT ![r].pc = pc]

\* Mutant of Return: no deferred unlock.
ReturnLocked(r) ==
  /\ req' = [req EXCEPT ![r] = IdleReq]
  /\ UNCHANGED userLocks

\* Return from the handler: the deferred unlock of the user lock.
Return(r) ==
  /\ userLocks' = [userLocks EXCEPT ![req[r].user] = NoReq]
  /\ req' = [req EXCEPT ![r] = IdleReq]

\* Mutant of Queue: a job that is registered already is overwritten.
QueueAgain(n) ==
  \E j \in Job, pc \in {"mkdir", "fail"} :
    /\ job[j].pc = "idle"
    /\ createCancels' = [createCancels EXCEPT ![n] = j]
    /\ job' = [job EXCEPT ![j] = [pc |-> pc, name |-> n, id |-> 0,
                                  cancelled |-> FALSE, live |-> "STOPPED"]]

\* queueMachineCreate: registerCreateCancel refuses a name that already has
\* a registered job; otherwise a goroutine is started.  It keeps the row it was
\* given but only ever uses its name.
\* When looking up its size, snapshot or host fails the job goes straight to
\* finishCreateFailure.
Queue(n) ==
  \/ /\ createCancels[n] # NoJob
     /\ UNCHANGED <<createCancels, job>>
  \/ /\ createCancels[n] = NoJob
     /\ \E j \in Job, pc \in {"mkdir", "fail"} :
          /\ job[j].pc = "idle"
          /\ createCancels' = [createCancels EXCEPT ![n] = j]
          /\ job' = [job EXCEPT ![j] = [pc |-> pc, name |-> n, id |-> 0,
                                        cancelled |-> FALSE, live |-> "STOPPED"]]

\* clearCreateCancel, and takeCreateCancel followed by the cancel it took:
\* the entry is found by NAME, whoever registered it.  jobs is the value the
\* job table has otherwise.
TakeCancel(n, jobs) ==
  /\ createCancels' = [createCancels EXCEPT ![n] = NoJob]
  /\ job' = IF createCancels[n] \in Job /\ jobs[createCancels[n]].pc # "idle"
            THEN [jobs EXCEPT ![createCancels[n]].cancelled = TRUE]
            ELSE jobs

\* Mutant of Building: a failure before the VM is started removes nothing.
BuildingLeavesDir(pc, n, cancelled) ==
  LET failed == IF pc = "store" THEN <<vms[n], "fail">> ELSE <<"none", "fail">>
      step(ok, v, next) == {failed} \cup (IF ok THEN {<<v, next>>} ELSE {})
  IN CASE pc = "mkdir" ->
            {IF vms[n] = "none" THEN <<"dir", "store">> ELSE <<vms[n], "fail">>}
       [] pc = "store" -> step(vms[n] # "none", "STOPPED", "boot")
       [] pc = "boot" -> step(vms[n] # "none" /\ ~cancelled, "RUNNING", "guest")
       [] pc = "guest" -> step(vms[n] = "RUNNING" /\ ~cancelled, "RUNNING", "built")

\* Runtime CreateMachine, from a base image or a snapshot: the directory is
\* made (or exists already: refused), metadata is stored, the VM is started
\* and waited for.  The step at pc has the outcomes <<what is in the runtime
\* directory afterwards, where the caller goes on>>.  On failure, and once its
\* context is cancelled, it removes what is under the name.
Building(pc, n, cancelled) ==
  LET failed == <<"none", "fail">>
      step(ok, v, next) == {failed} \cup (IF ok THEN {<<v, next>>} ELSE {})
  IN CASE pc = "mkdir" ->
            {IF vms[n] = "none" THEN <<"dir", "store">> ELSE <<vms[n], "fail">>}
       [] pc = "store" -> step(vms[n] # "none", "STOPPED", "boot")
       [] pc = "boot" -> step(vms[n] # "none" /\ ~cancelled, "RUNNING", "guest")
       [] pc = "guest" -> step(vms[n] = "RUNNING" /\ ~cancelled, "RUNNING", "built")

\* What the runtime says of the VM it has built, once its guest has answered:
\* machineFromMetadata looks whether the process is there still.
Reported(n) == IF vms[n] = "RUNNING" THEN "RUNNING" ELSE "STOPPED"

-----------------------------------------------------------------------------
(* Requests: arrival, the user lock, create *)

\* A request arrives.  GetMachine, GetPublicMachine and ListMachines take no
\* lock: they read the row and go on to ask the runtime.  Every other
\* operation first queues for its user's lock.
ReqBegin(r, op, u, n) ==
  /\ At(r, "idle")
  /\ op \in Ops \cap ClientOps
  /\ op \in {"create", "fork"} => nextId < MaxId
  /\ \/ /\ op = "get"
        /\ Exists(n)
        /\ req' = [req EXCEPT ![r] =
                     [pc |-> "getLive", op |-> op, user |-> NoUser, name |-> n,
                      id |-> machines[n].id, seen |-> machines[n].state]]
     \/ /\ op # "get"
        /\ req' = [req EXCEPT ![r] =
                     [pc |-> "lock", op |-> op, user |-> u, name |-> n,
                      id |-> 0, seen |-> "none"]]
  /\ UNCHANGED <<machines, nextId, vms, createCancels, userLocks, hostLock,
                 job, recon, crashes>>

\* Mutant of AcquireUserLock: the handler does not wait.
EnterUnlocked(r) ==
  /\ At(r, "lock")
  /\ userLocks' = [userLocks EXCEPT ![req[r].user] = r]
  /\ Goto(r, "begin")
  /\ UNCHANGED <<machines, nextId, vms, createCancels, hostLock, job, recon,
                 crashes>>

\* lockUserMutations
AcquireUserLock(r) ==
  /\ At(r, "lock")
  /\ userLocks[req[r].user] = NoReq
  /\ userLocks' = [userLocks EXCEPT ![req[r].user] = r]
  /\ Goto(r, "begin")
  /\ UNCHANGED <<machines, nextId, vms, createCancels, hostLock, job, recon,
                 crashes>>

\* Under the host lock: admission, then INSERT, which the unique name index
\* refuses when any user's row has the name.
Admit(r, pc) ==
  /\ hostLock = NoReq
  /\ \/ Return(r) /\ UNCHANGED <<machines, nextId>>
     \/ /\ ~Exists(req[r].name)
        /\ nextId < MaxId
        /\ Insert(req[r].name, req[r].user)
        /\ req' = [req EXCEPT ![r] = [@ EXCEPT !.pc = pc, !.id = nextId + 1]]
        /\ UNCHANGED userLocks
  /\ UNCHANGED <<vms, createCancels, hostLock, job, recon, crashes>>

CreateAdmit(r) == At(r, "begin") /\ req[r].op = "create" /\ Admit(r, "queue")

CreateQueue(r) ==
  /\ At(r, "queue")
  /\ Queue(req[r].name)
  /\ Return(r)
  /\ UNCHANGED <<machines, nextId, vms, hostLock, recon, crashes>>

-----------------------------------------------------------------------------
(* Delete, start and stop *)

\* ownedMachineRecord and the check of the row's state.  DeleteMachine also
\* takes and cancels the registered create job of the name.
ReqRead(r) ==
  /\ At(r, "begin")
  /\ req[r].op \in {"delete", "start", "stop"}
  /\ LET n == req[r].name
         row == machines[n]
     IN IF Owned(n, req[r].user) /\ row.state \in Accepts(req[r].op)
        THEN /\ req' = [req EXCEPT ![r] = [@ EXCEPT !.pc = "mark", !.id = row.id,
                                                  !.seen = row.state]]
             /\ IF req[r].op = "delete"
                THEN TakeCancel(n, job)
                ELSE UNCHANGED <<createCancels, job>>
             /\ UNCHANGED userLocks
        ELSE Return(r) /\ UNCHANGED <<createCancels, job>>
  /\ UNCHANGED <<machines, nextId, vms, hostLock, recon, crashes>>

\* Persist the state s of the handler's row and go on at pc.
Persist(r, s, pc) ==
  /\ machines' = WithState(req[r].name, req[r].id, s)
  /\ Goto(r, pc)
  /\ UNCHANGED <<nextId, vms, createCancels, userLocks, hostLock, job, recon,
                 crashes>>

\* Persist the state s of the handler's row and return.
PersistReturn(r, s) ==
  /\ machines' = WithState(req[r].name, req[r].id, s)
  /\ Return(r)
  /\ UNCHANGED <<nextId, vms, createCancels, hostLock, job, recon, crashes>>

\* A runtime call of the handler: the VM directory becomes v.
Call(r, v, pc) ==
  /\ vms' = v
  /\ Goto(r, pc)
  /\ UNCHANGED <<machines, nextId, createCancels, userLocks, hostLock, job,
                 recon, crashes>>

\* DeleteMachine keeps the host lock from here to its return.
DeleteMark(r) ==
  /\ At(r, "mark")
  /\ req[r].op = "delete"
  /\ hostLock = NoReq
  /\ hostLock' = r
  /\ machines' = WithState(req[r].name, req[r].id, "DELETING")
  /\ Goto(r, "delRun")
  /\ UNCHANGED <<nextId, vms, createCancels, userLocks, job, recon, crashes>>

\* Deleting what the runtime does not know is a success.
DeleteRuntime(r) ==
  /\ At(r, "delRun")
  /\ Call(r, Deleted(req[r].name), "delDb")

\* The runtime refuses: the previous state is restored.
DeleteRuntimeError(r) ==
  /\ At(r, "delRun")
  /\ Visible(req[r].name)
  /\ vms' \in Failing(req[r].name)
  /\ machines' = WithState(req[r].name, req[r].id, req[r].seen)
  /\ hostLock' = NoReq
  /\ Return(r)
  /\ UNCHANGED <<nextId, createCancels, job, recon, crashes>>

\* MarkMachineDeleted removes the row.  The 30 s context that the guest's
\* shutdown has already spent may make it fail: the row stays DELETING.
DeleteDb(r) ==
  /\ At(r, "delDb")
  /\ \/ machines' = IF Exists(req[r].name) /\ machines[req[r].name].id = req[r].id
                     THEN [machines EXCEPT ![req[r].name] = NoRecord]
                     ELSE machines
     \/ "deleteTimeout" \in Faults /\ UNCHANGED machines
  /\ hostLock' = NoReq
  /\ Return(r)
  /\ UNCHANGED <<nextId, vms, createCancels, job, recon, crashes>>

\* Under the host lock: admission of the start, then STARTING.
StartMark(r) ==
  /\ At(r, "mark")
  /\ req[r].op = "start"
  /\ hostLock = NoReq
  /\ \/ Persist(r, "STARTING", "startRun")
     \/ /\ Return(r)
        /\ UNCHANGED <<machines, nextId, vms, createCancels, hostLock, job,
                       recon, crashes>>

\* Runtime StartMachine: a VM that runs already only gets its forwarders
\* back; what is not there cannot be started; every case may fail.
StartRun(r) ==
  /\ At(r, "startRun")
  /\ LET n == req[r].name
     IN \/ vms[n] = "RUNNING" /\ Call(r, vms, "startEnv")
        \/ vms[n] = "STOPPED" /\ Call(r, [vms EXCEPT ![n] = "RUNNING"], "startGuest")
        \/ Call(r, vms, "startFail")

\* waitForGuestSSH: on failure, a timeout or a VM that died, the VM is stopped.
StartGuest(r) ==
  /\ At(r, "startGuest")
  /\ \/ vms[req[r].name] = "RUNNING" /\ Call(r, vms, "startEnv")
     \/ Call(r, Halted(req[r].name), "startFail")

\* syncManagedEnv; on failure the VM is stopped, best effort.
StartEnv(r) ==
  /\ At(r, "startEnv")
  /\ \/ Call(r, vms, "startDone")
     \/ \E v \in {Halted(req[r].name)} \cup Failing(req[r].name) : Call(r, v, "startFail")

StartDone(r) == At(r, "startDone") /\ Persist(r, "RUNNING", "refresh")

StartFail(r) == At(r, "startFail") /\ PersistReturn(r, "STOPPED")

StopMark(r) ==
  /\ At(r, "mark")
  /\ req[r].op = "stop"
  /\ Persist(r, "STOPPING", "stopRun")

StopRun(r) ==
  /\ At(r, "stopRun")
  /\ LET n == req[r].name
     IN \/ Visible(n) /\ Call(r, Halted(n), "stopDone")
        \/ ~Visible(n) /\ Call(r, vms, "stopFail")
        \/ \E v \in Failing(n) : Call(r, v, "stopFail")

StopDone(r) == At(r, "stopDone") /\ Persist(r, "STOPPED", "refresh")

StopFail(r) == At(r, "stopFail") /\ PersistReturn(r, "RUNNING")

\* The row is read again, and the state the runtime call had returned is
\* adopted if the row does not show it.
Refresh(r) ==
  /\ At(r, "refresh")
  /\ LET live == IF req[r].op = "start" THEN "RUNNING" ELSE "STOPPED"
     IN IF ShouldAdopt(machines[req[r].name].state, live)
        THEN req' = [req EXCEPT ![r] = [@ EXCEPT !.pc = "adopt", !.seen = live]] /\ UNCHANGED userLocks
        ELSE Return(r)
  /\ UNCHANGED <<machines, nextId, vms, createCancels, hostLock, job, recon,
                 crashes>>

Adopt(r) == At(r, "adopt") /\ PersistReturn(r, req[r].seen)

-----------------------------------------------------------------------------
(* Fork and get *)

\* The source must be the user's, RUNNING and known to the runtime; the
\* request's name is the target.
ForkRead(r) ==
  /\ At(r, "begin")
  /\ req[r].op = "fork"
  /\ \/ /\ \E src \in Name \ {req[r].name} :
             machines[src].owner = req[r].user /\ machines[src].state = "RUNNING"
               /\ Visible(src)
        /\ Goto(r, "forkAdmit")
        /\ UNCHANGED userLocks
     \/ Return(r)
  /\ UNCHANGED <<machines, nextId, vms, createCancels, hostLock, job, recon,
                 crashes>>

\* The source is snapshotted first, which may fail.
ForkAdmit(r) ==
  At(r, "forkAdmit") /\ \E pc \in {"mkdir", "fail"} : Admit(r, pc)

ForkBuild(r) ==
  /\ req[r].pc \in BuildPC
  /\ \E out \in Building(req[r].pc, req[r].name, FALSE) :
       Call(r, [vms EXCEPT ![req[r].name] = out[1]], out[2])

\* The runtime call returns with the VM's state; measuring its disk may fail.
ForkBuilt(r) ==
  /\ At(r, "built")
  /\ \E pc \in {"persist", "fail"} :
       req' = [req EXCEPT ![r] = [@ EXCEPT !.pc = pc, !.seen = Reported(req[r].name)]]
  /\ UNCHANGED <<machines, nextId, vms, createCancels, userLocks, hostLock, job,
                 recon, crashes>>

\* The reported state is persisted, which fails when the row is gone.
ForkDone(r) ==
  /\ At(r, "persist")
  /\ LET n == req[r].name
         found == Exists(n) /\ machines[n].id = req[r].id
     IN Persist(r, req[r].seen, IF found THEN "env" ELSE "fail")

\* syncManagedEnv is the last thing that may fail.
ForkEnv(r) ==
  /\ At(r, "env")
  /\ Return(r) \/ (Goto(r, "fail") /\ UNCHANGED userLocks)
  /\ UNCHANGED <<machines, nextId, vms, createCancels, hostLock, job, recon,
                 crashes>>

\* finishForkFailure: the VM under the target's name is deleted, best effort,
\* and whichever row has that name is FAILED.
ForkFail(r) ==
  /\ At(r, "fail")
  /\ LET n == req[r].name
     IN \E v \in {Deleted(n)} \cup Failing(n) : Call(r, v, "failMark")

ForkMark(r) ==
  /\ At(r, "failMark")
  /\ machines' = WithStateByName(req[r].name, "FAILED")
  /\ Return(r)
  /\ UNCHANGED <<nextId, vms, createCancels, hostLock, job, recon, crashes>>

\* machineFromRecordWithRuntime compares the row it read with the VM it finds
\* now; ListMachines leaves a row without a VM alone.
GetLive(r) ==
  /\ At(r, "getLive")
  /\ LET n == req[r].name
         write(s) == req' = [req EXCEPT ![r] = [@ EXCEPT !.pc = "getWrite", !.seen = s]]
         done == req' = [req EXCEPT ![r] = IdleReq]
     IN \/ /\ Visible(n)
           /\ IF ShouldAdopt(req[r].seen, vms[n]) THEN write(vms[n]) ELSE done
        \/ /\ ~Visible(n)
           /\ done \/ (~AllowsMissing(req[r].seen) /\ write("missing"))
  /\ UNCHANGED <<machines, nextId, vms, createCancels, userLocks, hostLock, job,
                 recon, crashes>>

GetWrite(r) ==
  /\ At(r, "getWrite")
  /\ machines' = WithState(req[r].name, req[r].id, req[r].seen)
  /\ req' = [req EXCEPT ![r] = IdleReq]
  /\ UNCHANGED <<nextId, vms, createCancels, userLocks, hostLock, job, recon,
                 crashes>>

-----------------------------------------------------------------------------
(* Create jobs: runMachineCreate *)

JobGoto(j, pc) ==
  /\ job' = [job EXCEPT ![j].pc = pc]
  /\ UNCHANGED <<nextId, createCancels, userLocks, hostLock, req, recon, crashes>>

JobBuild(j) ==
  /\ job[j].pc \in BuildPC
  /\ \E out \in Building(job[j].pc, job[j].name, job[j].cancelled) :
       vms' = [vms EXCEPT ![job[j].name] = out[1]] /\ JobGoto(j, out[2])
  /\ UNCHANGED machines

\* The runtime call returns with the VM's state.
JobBuilt(j) ==
  /\ job[j].pc = "built"
  /\ job' = [job EXCEPT ![j] = [@ EXCEPT !.pc = "env", !.live = Reported(job[j].name)]]
  /\ UNCHANGED <<machines, nextId, vms, createCancels, userLocks, hostLock, req,
                 recon, crashes>>

\* restoreToolAuth and syncManagedEnv
JobEnv(j) ==
  /\ job[j].pc = "env"
  /\ JobGoto(j, "fail") \/ (~job[j].cancelled /\ JobGoto(j, "finish"))
  /\ UNCHANGED <<machines, vms>>

\* finishCreateSuccess: the row that has the NAME is read, and the state the
\* runtime had reported is persisted by its id; without a row the VM is deleted.
JobFinish(j) ==
  /\ job[j].pc = "finish"
  /\ LET n == job[j].name
     IN job' = IF Exists(n)
               THEN [job EXCEPT ![j] = [@ EXCEPT !.pc = "persist", !.id = machines[n].id]]
               ELSE [job EXCEPT ![j].pc = "cleanup"]
  /\ UNCHANGED <<machines, nextId, vms, createCancels, userLocks, hostLock, req,
                 recon, crashes>>

JobPersist(j) ==
  /\ job[j].pc = "persist"
  /\ LET n == job[j].name
         found == Exists(n) /\ machines[n].id = job[j].id
     IN /\ machines' = WithState(n, job[j].id, job[j].live)
        /\ JobGoto(j, IF found THEN "clear" ELSE "cleanup")
  /\ UNCHANGED vms

\* cleanupRuntimeMachine, best effort; finishCreateFailure starts with it.
JobCleanup(j) ==
  /\ job[j].pc \in {"cleanup", "fail"}
  /\ vms' \in {Deleted(job[j].name)} \cup Failing(job[j].name)
  /\ JobGoto(j, IF job[j].pc = "cleanup" THEN "clear" ELSE "failMark")
  /\ UNCHANGED machines

\* Mutant of JobFailMark: the row is left alone.
JobFailUnmarked(j) ==
  job[j].pc = "failMark" /\ JobGoto(j, "clear") /\ UNCHANGED <<machines, vms>>

JobFailMark(j) ==
  /\ job[j].pc = "failMark"
  /\ machines' = WithStateByName(job[j].name, "FAILED")
  /\ JobGoto(j, "clear")
  /\ UNCHANGED vms

\* Mutant of JobClear: the job stays registered.
JobForgets(j) ==
  /\ job[j].pc = "clear"
  /\ job' = [job EXCEPT ![j] = IdleJob]
  /\ UNCHANGED <<machines, nextId, vms, createCancels, userLocks, hostLock, req,
                 recon, crashes>>

\* The deferred clearCreateCancel: whatever job the name has is unregistered
\* and cancelled.
JobClear(j) ==
  /\ job[j].pc = "clear"
  /\ TakeCancel(job[j].name, [job EXCEPT ![j] = IdleJob])
  /\ UNCHANGED <<machines, nextId, vms, userLocks, hostLock, req, recon, crashes>>

-----------------------------------------------------------------------------
(* ReconcileRuntimeState, which takes no lock.  The pass at startup and that *)
(* of the periodic loop may overlap.                                        *)

Known(p, n) == recon[p].known[n].id # 0

ReconList(p) ==
  /\ recon[p].pc = "idle"
  /\ "reconcile" \in Ops
  /\ recon' = [recon EXCEPT ![p] = [@ EXCEPT !.pc = "listed", !.known = machines]]
  /\ UNCHANGED <<machines, nextId, vms, createCancels, userLocks, hostLock, req,
                 job, crashes>>

\* Mutant of ReconRuntime: VMs without a row are passed over.
ReconKeepsOrphans(p) ==
  /\ recon[p].pc = "listed"
  /\ recon' = [recon EXCEPT ![p] =
       [@ EXCEPT !.pc = "delete",
                 !.live = [n \in Name |-> IF Visible(n) THEN vms[n] ELSE "none"]]]
  /\ UNCHANGED <<machines, nextId, vms, createCancels, userLocks, hostLock, req,
                 job, crashes>>

ReconRuntime(p) ==
  /\ recon[p].pc = "listed"
  /\ recon' = [recon EXCEPT ![p] =
       [@ EXCEPT !.pc = "delete",
                 !.live = [n \in Name |-> IF Visible(n) THEN vms[n] ELSE "none"],
                 !.todo = {n \in Name : Visible(n) /\ ~Known(p, n)}]]
  /\ UNCHANGED <<machines, nextId, vms, createCancels, userLocks, hostLock, req,
                 job, crashes>>

\* A listed VM without a listed row is deleted.
ReconDelete(p, n) ==
  /\ recon[p].pc = "delete"
  /\ n \in recon[p].todo
  /\ vms' = Deleted(n)
  /\ recon' = [recon EXCEPT ![p].todo = @ \ {n}]
  /\ UNCHANGED <<machines, nextId, createCancels, userLocks, hostLock, req, job,
                 crashes>>

ReconDeleted(p) ==
  /\ recon[p].pc = "delete"
  /\ recon[p].todo = {}
  /\ recon' = [recon EXCEPT ![p] =
       [@ EXCEPT !.pc = "visit", !.todo = {n \in Name : Known(p, n)}]]
  /\ UNCHANGED <<machines, nextId, vms, createCancels, userLocks, hostLock, req,
                 job, crashes>>

\* A CREATING row without a VM gets a create job; the state of a VM that is
\* there is adopted.  Both go by the rows as they were listed.
ReconVisit(p, n) ==
  /\ recon[p].pc = "visit"
  /\ n \in recon[p].todo
  /\ recon' = [recon EXCEPT ![p] =
       [recon[p] EXCEPT !.todo = @ \ {n}, !.known[n] = NoRecord, !.live[n] = "none"]]
  /\ LET row == recon[p].known[n]
         live == recon[p].live[n]
     IN /\ IF live = "none" /\ row.state = "CREATING"
           THEN Queue(n)
           ELSE UNCHANGED <<createCancels, job>>
        /\ machines' = IF live # "none" /\ ShouldAdopt(row.state, live)
                       THEN WithState(n, row.id, live)
                       ELSE machines
  /\ UNCHANGED <<nextId, vms, userLocks, hostLock, req, crashes>>

\* The pass is over, or an error or its deadline ended it early.
ReconEnd(p) ==
  /\ \/ recon[p].pc = "visit" /\ recon[p].todo = {}
     \/ recon[p].pc # "idle" /\ "reconcileError" \in Faults
  /\ recon' = [recon EXCEPT ![p] = IdleRecon]
  /\ UNCHANGED <<machines, nextId, vms, createCancels, userLocks, hostLock, req,
                 job, crashes>>

-----------------------------------------------------------------------------
(* The environment *)

\* The guest powers off, or its VMM dies.
VMExit(n) ==
  /\ "vmExit" \in Faults
  /\ vms[n] = "RUNNING"
  /\ vms' = [vms EXCEPT ![n] = "STOPPED"]
  /\ UNCHANGED <<machines, nextId, createCancels, userLocks, hostLock, req, job,
                 recon, crashes>>

\* The control plane dies and is restarted: the database and the VMs, which
\* are processes of their own, survive.
Restart ==
  /\ crashes < MaxCrash
  /\ crashes' = crashes + 1
  /\ createCancels' = [n \in Name |-> NoJob]
  /\ userLocks' = [u \in User |-> NoReq]
  /\ hostLock' = NoReq
  /\ req' = [r \in Req |-> IdleReq]
  /\ job' = [j \in Job |-> IdleJob]
  /\ recon' = [p \in Pass |-> IdleRecon]
  /\ UNCHANGED <<machines, nextId>>

Crash == "crash" \in Faults /\ Restart /\ UNCHANGED vms

\* The host goes down and comes back: no VM process is left.
Reboot ==
  /\ "reboot" \in Faults
  /\ Restart
  /\ vms' = [n \in Name |-> IF vms[n] = "RUNNING" THEN "STOPPED" ELSE vms[n]]

-----------------------------------------------------------------------------

\* What a request does once it has arrived, the user lock excepted.
ReqStep(r) ==
  \/ CreateAdmit(r) \/ CreateQueue(r)
  \/ ReqRead(r)
  \/ DeleteMark(r) \/ DeleteRuntime(r) \/ DeleteRuntimeError(r) \/ DeleteDb(r)
  \/ StartMark(r) \/ StartRun(r) \/ StartGuest(r) \/ StartEnv(r) \/ StartDone(r)
  \/ StartFail(r)
  \/ StopMark(r) \/ StopRun(r) \/ StopDone(r) \/ StopFail(r)
  \/ Refresh(r) \/ Adopt(r)
  \/ ForkRead(r) \/ ForkAdmit(r) \/ ForkBuild(r) \/ ForkBuilt(r) \/ ForkDone(r)
  \/ ForkEnv(r) \/ ForkFail(r) \/ ForkMark(r)
  \/ GetLive(r) \/ GetWrite(r)

JobStep(j) ==
  \/ JobBuild(j) \/ JobBuilt(j) \/ JobEnv(j) \/ JobFinish(j) \/ JobPersist(j)
  \/ JobCleanup(j) \/ JobFailMark(j) \/ JobClear(j)

ReconStep(p) ==
  \/ ReconList(p) \/ ReconRuntime(p) \/ ReconDeleted(p) \/ ReconEnd(p)
  \/ \E n \in Name : ReconDelete(p, n) \/ ReconVisit(p, n)

Next ==
  \/ \E r \in Req :
       \/ \E op \in ClientOps, u \in User, n \in Name : ReqBegin(r, op, u, n)
       \/ AcquireUserLock(r)
       \/ ReqStep(r)
  \/ \E j \in Job : JobStep(j)
  \/ \E p \in Pass : ReconStep(p)
  \/ \E n \in Name : VMExit(n)
  \/ Crash
  \/ Reboot

Spec == Init /\ [][Next]_vars

-----------------------------------------------------------------------------
(* Fairness: goroutines run; a Go mutex does not starve a waiter; the        *)
(* reconcile loop never ends.                                                *)

Fairness ==
  /\ \A r \in Req : SF_vars(AcquireUserLock(r)) /\ SF_vars(ReqStep(r))
  /\ \A j \in Job : WF_vars(JobStep(j))
  /\ \A p \in Pass : WF_vars(ReconStep(p))

FairSpec == Spec /\ Fairness

-----------------------------------------------------------------------------
(* Safety *)

Row == [id : 0 .. MaxId, owner : User \cup {NoUser},
        state : MachineState \cup {"none"}]

Request == [pc : ReqPC, op : ClientOps, user : User \cup {NoUser},
            name : Name \cup {"none"}, id : 0 .. MaxId,
            seen : MachineState \cup {"none"}]

CreateJob == [pc : JobPC, name : Name \cup {"none"}, id : 0 .. MaxId,
              cancelled : BOOLEAN, live : {"RUNNING", "STOPPED"}]

ReconPass == [pc : {"idle", "listed", "delete", "visit"}, known : [Name -> Row],
              live : [Name -> {"none", "STOPPED", "RUNNING"}],
              todo : SUBSET Name]

\* Every variable stays in its type.
TypeOK ==
  /\ machines \in [Name -> Row]
  /\ nextId \in 0 .. MaxId
  /\ vms \in [Name -> VMState]
  /\ createCancels \in [Name -> Job \cup {NoJob}]
  /\ userLocks \in [User -> Req \cup {NoReq}]
  /\ hostLock \in Req \cup {NoReq}
  /\ req \in [Req -> Request]
  /\ job \in [Job -> CreateJob]
  /\ recon \in [Pass -> ReconPass]
  /\ crashes \in 0 .. MaxCrash

\* From the moment a handler has found or inserted its row until it returns,
\* that row stays: no other handler, job or reconcile pass removes it or lets
\* another row take its name, so the runtime calls the handler makes by name
\* are calls for its own machine.
HandlerOwnsRecord ==
  \A r \in Req :
    req[r].pc \in HoldingPC =>
      /\ machines[req[r].name].id = req[r].id
      /\ machines[req[r].name].owner = req[r].user

\* No two handlers ever work on the same machine.
OneHandlerPerMachine ==
  \A r, q \in Req :
    req[r].pc \in HoldingPC /\ req[q].pc \in HoldingPC
      /\ req[r].name = req[q].name => r = q

\* While a row is CREATING only the end of its creation changes it: whatever
\* state the half-built VM shows, and however old the row a reader or a
\* reconcile pass holds, CREATING is left for FAILED or for what the runtime
\* reported of the VM it had built (STOPPED when the VM died after its guest
\* had answered), by the fork that inserted the row or by a create job that
\* found this row under its name.  (A failing job goes by the name alone and
\* may fail the row of a newer machine.)
CreatingIsProtected ==
  \A n \in Name :
    machines[n].state = "CREATING" /\ machines'[n] # machines[n] =>
      /\ machines'[n] \in {[machines[n] EXCEPT !.state = s] :
                            s \in {"RUNNING", "STOPPED", "FAILED"}}
      /\ \/ \E j \in Job :
              /\ job[j].name = n
              /\ \/ job[j].pc = "persist" /\ job[j].id = machines[n].id
                 \/ job[j].pc = "failMark" /\ machines'[n].state = "FAILED"
         \/ \E r \in Req :
              /\ req[r].name = n /\ req[r].op = "fork"
              /\ req[r].id = machines[n].id

CreatingProtected == [][CreatingIsProtected]_vars

\* A running create job can be cancelled by name: it is the job registered
\* under its name, unless it has been cancelled already.  And no job is
\* registered that is not running.
JobsRegistered ==
  /\ \A j \in Job :
       job[j].pc \notin {"idle", "clear"} /\ ~job[j].cancelled =>
         createCancels[job[j].name] = j
  /\ \A n \in Name :
       createCancels[n] # NoJob =>
         /\ job[createCancels[n]].pc # "idle"
         /\ job[createCancels[n]].name = n

\* A directory without metadata, which no list or delete sees and which makes
\* every create of its name fail, is one that a create or fork is filling.
\* (A crash between making the directory and storing its metadata leaves one
\* for good.)
BareDirHasBuilder ==
  crashes = 0 =>
    \A n \in Name :
      vms[n] = "dir" =>
        \/ \E j \in Job : job[j].pc = "store" /\ job[j].name = n
        \/ \E r \in Req : req[r].pc = "store" /\ req[r].name = n

\* The handlers, jobs and passes implement the service as its users know it:
\* who holds a user's lock is what the user is served.
Working ==
  [u \in User |-> IF userLocks[u] = NoReq THEN [op |-> "none", name |-> "none"]
                 ELSE [op |-> req[userLocks[u]].op, name |-> req[userLocks[u]].name]]

Service == INSTANCE MachineService WITH rows <- machines, issued <- nextId, working <- Working
ImplementsService == Service!Spec

-----------------------------------------------------------------------------
(* Liveness *)

\* Every request that waits for its user's lock is answered in the end.
RequestsComplete == \A r \in Req : At(r, "lock") ~> At(r, "idle")

Is(n, id, states) == machines[n].id = id /\ machines[n].state \in states

\* A row does not stay CREATING.
CreatingResolves ==
  \A n \in Name, id \in 1 .. MaxId :
    Is(n, id, {"CREATING"}) ~> ~Is(n, id, {"CREATING"})

\* A VM that no row stands for is deleted, unless a row takes its name.
OrphanVMRemoved ==
  \A n \in Name : (Visible(n) /\ ~Exists(n)) ~> (~Visible(n) \/ Exists(n))

\* A settled row whose VM is in the other state is brought in line, unless
\* one of the two moves on.
RuntimeStateAdopted ==
  \A n \in Name, id \in 1 .. MaxId :
    LET apart == /\ Visible(n)
                 /\ Is(n, id, {"RUNNING", "STOPPED", "missing"})
                 /\ machines[n].state # vms[n]
    IN apart ~> ~apart

=============================================================================
