----------------------- MODULE MachineLifecycleProofs -----------------------
EXTENDS MachineLifecycle, TLAPS

\* Handlers and jobs that are under way work for a name of Name and, unless
\* they only read, a user of User.
Bound ==
  /\ \A r \in Req : req[r].pc # "idle" => req[r].name \in Name
  /\ \A r \in Req : req[r].pc \in {"lock"} \cup LockedPC => req[r].user \in User
  /\ \A j \in Job : job[j].pc # "idle" => job[j].name \in Name

TypeInv == TypeOK /\ Bound

LEMMA WithStateType ==
  ASSUME machines \in [Name -> Row], NEW n, NEW id, NEW s \in MachineState \cup {"none"}
  PROVE  WithState(n, id, s) \in [Name -> Row]
BY DEF WithState, Row

LEMMA LockedIsBusy == LockedPC \subseteq ReqPC /\ "idle" \notin LockedPC /\ "idle" \in ReqPC
BY DEF LockedPC, ReqPC, PreparePC, HoldingPC, PowerPC, DeletePC, NewPC, ReadPC

LEMMA GotoType ==
  ASSUME TypeInv, NEW r \in Req, req[r].pc \in LockedPC, NEW pc \in LockedPC, Goto(r, pc)
  PROVE  /\ req' \in [Req -> Request]
         /\ \A q \in Req : req'[q].pc # "idle" => req'[q].name \in Name
         /\ \A q \in Req : req'[q].pc \in {"lock"} \cup LockedPC => req'[q].user \in User
BY LockedIsBusy DEF Goto, TypeInv, TypeOK, Bound, Request

LEMMA UpdateType ==
  ASSUME TypeInv, NEW r \in Req, req[r].pc \in LockedPC, NEW pc \in LockedPC,
         NEW id \in 0 .. MaxId, NEW seen \in MachineState \cup {"none"},
         req' = [req EXCEPT ![r] = [@ EXCEPT !.pc = pc, !.id = id, !.seen = seen]]
  PROVE  /\ req' \in [Req -> Request]
         /\ \A q \in Req : req'[q].pc # "idle" => req'[q].name \in Name
         /\ \A q \in Req : req'[q].pc \in {"lock"} \cup LockedPC => req'[q].user \in User
<1> DEFINE rec == [req[r] EXCEPT !.pc = pc, !.id = id, !.seen = seen]
<1>1. rec \in Request /\ rec.name = req[r].name /\ rec.user = req[r].user /\ rec.pc = pc
  BY LockedIsBusy DEF TypeInv, TypeOK, Request
<1>2. req' = [req EXCEPT ![r] = rec]
  OBVIOUS
<1> HIDE DEF rec
<1> QED
  BY <1>1, <1>2, LockedIsBusy DEF TypeInv, TypeOK, Bound

LEMMA ReturnType ==
  ASSUME TypeInv, NEW r \in Req, Return(r)
  PROVE  /\ req' \in [Req -> Request]
         /\ userLocks' \in [User -> Req \cup {NoReq}]
         /\ \A q \in Req : req'[q].pc # "idle" => req'[q].name \in Name
         /\ \A q \in Req : req'[q].pc \in {"lock"} \cup LockedPC => req'[q].user \in User
<1>1. IdleReq \in Request /\ IdleReq.pc = "idle"
  BY LockedIsBusy, ConstantsAssumption DEF IdleReq, Request, ClientOps
<1> QED
  BY <1>1, LockedIsBusy DEF Return, TypeInv, TypeOK, Bound

LEMMA PersistType ==
  ASSUME TypeInv, NEW r \in Req, req[r].pc \in LockedPC, NEW s \in MachineState \cup {"none"},
         NEW pc \in LockedPC, Persist(r, s, pc)
  PROVE  TypeInv'
<1>1. Goto(r, pc) /\ machines' = WithState(req[r].name, req[r].id, s)
  BY DEF Persist
<1>2. machines' \in [Name -> Row]
  BY <1>1, WithStateType DEF TypeInv, TypeOK
<1> QED
  BY <1>1, <1>2, GotoType DEF Persist, TypeInv, TypeOK, Bound

LEMMA PersistReturnType ==
  ASSUME TypeInv, NEW r \in Req, NEW s \in MachineState, PersistReturn(r, s)
  PROVE  TypeInv'
<1>1. Return(r) /\ machines' = WithState(req[r].name, req[r].id, s)
  BY DEF PersistReturn
<1>2. machines' \in [Name -> Row]
  BY <1>1, WithStateType DEF TypeInv, TypeOK
<1> QED
  BY <1>1, <1>2, ReturnType DEF PersistReturn, TypeInv, TypeOK, Bound

LEMMA CallType ==
  ASSUME TypeInv, NEW r \in Req, req[r].pc \in LockedPC, NEW v \in [Name -> VMState],
         NEW pc \in LockedPC, Call(r, v, pc)
  PROVE  TypeInv'
<1>1. Goto(r, pc)
  BY DEF Call
<1> QED
  BY <1>1, GotoType DEF Call, TypeInv, TypeOK, Bound

LEMMA RuntimeType ==
  ASSUME vms \in [Name -> VMState], NEW n
  PROVE  /\ Deleted(n) \in [Name -> VMState]
         /\ Halted(n) \in [Name -> VMState]
         /\ Failing(n) \subseteq [Name -> VMState]
BY DEF Deleted, Halted, Failing, VMState

LEMMA TakeCancelType ==
  ASSUME TypeInv, NEW n, NEW jobs \in [Job -> CreateJob], TakeCancel(n, jobs),
         \A j \in Job : jobs[j].pc # "idle" => jobs[j].name \in Name
  PROVE  /\ createCancels' \in [Name -> Job \cup {NoJob}]
         /\ job' \in [Job -> CreateJob]
         /\ \A j \in Job : job'[j].pc # "idle" => job'[j].name \in Name
<1> DEFINE taken == createCancels[n]
<1>1. createCancels' \in [Name -> Job \cup {NoJob}]
  BY DEF TakeCancel, TypeInv, TypeOK
<1>2. CASE job' = jobs
  BY <1>1, <1>2
<1>3. CASE taken \in Job /\ job' = [jobs EXCEPT ![taken].cancelled = TRUE]
  <2> DEFINE rec == [jobs[taken] EXCEPT !.cancelled = TRUE]
  <2>1. rec \in CreateJob /\ rec.pc = jobs[taken].pc /\ rec.name = jobs[taken].name
    BY <1>3 DEF CreateJob
  <2>2. job' = [jobs EXCEPT ![taken] = rec]
    BY <1>3
  <2> HIDE DEF rec
  <2> QED
    BY <1>1, <1>3, <2>1, <2>2
<1> QED
  BY <1>2, <1>3 DEF TakeCancel

LEMMA QueueType ==
  ASSUME TypeInv, NEW n \in Name, Queue(n)
  PROVE  /\ createCancels' \in [Name -> Job \cup {NoJob}]
         /\ job' \in [Job -> CreateJob]
         /\ \A j \in Job : job'[j].pc # "idle" => job'[j].name \in Name
<1>1. CASE UNCHANGED <<createCancels, job>>
  BY <1>1 DEF TypeInv, TypeOK, Bound
<1>2. ASSUME NEW j \in Job, NEW pc \in {"mkdir", "fail"},
             createCancels' = [createCancels EXCEPT ![n] = j],
             job' = [job EXCEPT ![j] = [pc |-> pc, name |-> n, id |-> 0, cancelled |-> FALSE,
                                          live |-> "STOPPED"]]
      PROVE  /\ createCancels' \in [Name -> Job \cup {NoJob}]
             /\ job' \in [Job -> CreateJob]
             /\ \A i \in Job : job'[i].pc # "idle" => job'[i].name \in Name
  <2>1. [pc |-> pc, name |-> n, id |-> 0, cancelled |-> FALSE,
                                          live |-> "STOPPED"] \in CreateJob
    BY ConstantsAssumption DEF CreateJob, JobPC, BuildPC
  <2> QED
    BY <1>2, <2>1 DEF TypeInv, TypeOK, Bound
<1> QED
  BY <1>1, <1>2 DEF Queue

LEMMA AdmitType ==
  ASSUME TypeInv, NEW r \in Req, req[r].pc \in LockedPC, NEW pc \in LockedPC, Admit(r, pc)
  PROVE  TypeInv'
<1>1. CASE Return(r) /\ UNCHANGED <<machines, nextId>>
  BY <1>1, ReturnType DEF Admit, TypeInv, TypeOK, Bound
<1>2. CASE /\ ~Exists(req[r].name)
           /\ nextId < MaxId
           /\ Insert(req[r].name, req[r].user)
           /\ req' = [req EXCEPT ![r] = [@ EXCEPT !.pc = pc, !.id = nextId + 1]]
           /\ UNCHANGED userLocks
  <2>1. nextId + 1 \in 0 .. MaxId
    BY <1>2, ConstantsAssumption DEF TypeInv, TypeOK
  <2>2. /\ machines' = [machines EXCEPT ![req[r].name] =
                          [id |-> nextId + 1, owner |-> req[r].user, state |-> "CREATING"]]
        /\ nextId' = nextId + 1
    BY <1>2 DEF Insert
  <2>4. [id |-> nextId + 1, owner |-> req[r].user, state |-> "CREATING"] \in Row
    BY <2>1 DEF TypeInv, TypeOK, Row, Request, MachineState, Transitional
  <2>3. /\ req' \in [Req -> Request]
        /\ \A q \in Req : req'[q].pc # "idle" => req'[q].name \in Name
        /\ \A q \in Req : req'[q].pc \in {"lock"} \cup LockedPC => req'[q].user \in User
    <3> DEFINE rec == [req[r] EXCEPT !.pc = pc, !.id = nextId + 1]
    <3>1. req[r] \in Request
      BY DEF TypeInv, TypeOK
    <3>2. rec = [req[r] EXCEPT !.pc = pc, !.id = nextId + 1, !.seen = req[r].seen]
      BY <3>1 DEF Request
    <3>3. req' = [req EXCEPT ![r] = [@ EXCEPT !.pc = pc, !.id = nextId + 1, !.seen = req[r].seen]]
      BY <1>2, <3>2
    <3>4. req[r].seen \in MachineState \cup {"none"}
      BY <3>1 DEF Request
    <3> QED
      BY <2>1, <3>3, <3>4, UpdateType
  <2> QED
    BY <1>2, <2>1, <2>2, <2>3, <2>4 DEF Admit, TypeInv, TypeOK, Bound
<1> QED
  BY <1>1, <1>2 DEF Admit

LEMMA InitType == Init => TypeInv
BY ConstantsAssumption DEF Init, TypeInv, TypeOK, Bound, Row, NoRecord, VMState, Request, IdleReq,
   CreateJob, IdleJob, ReconPass, IdleRecon, ReqPC, JobPC, ClientOps, LockedPC, PreparePC, HoldingPC,
   PowerPC, DeletePC, NewPC

LEMMA BeginType ==
  ASSUME TypeInv, NEW r \in Req, NEW op \in ClientOps, NEW u \in User, NEW n \in Name,
         ReqBegin(r, op, u, n)
  PROVE  TypeInv'
<1> DEFINE get == [pc |-> "getLive", op |-> op, user |-> NoUser, name |-> n,
                   id |-> machines[n].id, seen |-> machines[n].state]
           wait == [pc |-> "lock", op |-> op, user |-> u, name |-> n, id |-> 0, seen |-> "none"]
<1>1. get \in Request /\ wait \in Request
  BY ConstantsAssumption DEF TypeInv, TypeOK, Row, Request, ReqPC, ReadPC
<1>2. "getLive" \notin {"lock"} \cup LockedPC
  BY DEF LockedPC, PreparePC, HoldingPC, PowerPC, DeletePC, NewPC
<1>3. \E rec \in {get, wait} : req' = [req EXCEPT ![r] = rec]
  BY DEF ReqBegin
<1>4. /\ req' \in [Req -> Request]
      /\ \A q \in Req : req'[q].pc # "idle" => req'[q].name \in Name
      /\ \A q \in Req : req'[q].pc \in {"lock"} \cup LockedPC => req'[q].user \in User
  BY <1>1, <1>2, <1>3 DEF TypeInv, TypeOK, Bound
<1> QED
  BY <1>4 DEF ReqBegin, TypeInv, TypeOK, Bound

LEMMA ArrivalType ==
  ASSUME TypeInv, NEW r \in Req
  PROVE  /\ AcquireUserLock(r) => TypeInv'
         /\ CreateAdmit(r) => TypeInv'
         /\ CreateQueue(r) => TypeInv'
         /\ ReqRead(r) => TypeInv'
<1>2. ASSUME AcquireUserLock(r) PROVE TypeInv'
  <2> DEFINE rec == [req[r] EXCEPT !.pc = "begin"]
  <2>1. req[r].pc = "lock" /\ req' = [req EXCEPT ![r] = rec]
    BY <1>2 DEF AcquireUserLock, At, Goto
  <2>2. "begin" \in LockedPC /\ "begin" \in ReqPC /\ "begin" # "idle"
    BY DEF LockedPC, PreparePC, ReqPC
  <2>3. req[r] \in Request /\ req[r].name \in Name /\ req[r].user \in User
    BY <2>1 DEF TypeInv, TypeOK, Bound
  <2>4. rec \in Request /\ rec.name \in Name /\ rec.user \in User
    BY <2>2, <2>3 DEF Request
  <2> HIDE DEF rec
  <2>5. /\ req' \in [Req -> Request]
        /\ \A q \in Req : req'[q].pc # "idle" => req'[q].name \in Name
        /\ \A q \in Req : req'[q].pc \in {"lock"} \cup LockedPC => req'[q].user \in User
    BY <2>1, <2>4 DEF TypeInv, TypeOK, Bound
  <2>6. userLocks' \in [User -> Req \cup {NoReq}]
    BY <1>2 DEF AcquireUserLock, TypeInv, TypeOK
  <2> QED
    BY <1>2, <2>5, <2>6 DEF AcquireUserLock, TypeInv, TypeOK, Bound
<1>3. ASSUME CreateAdmit(r) PROVE TypeInv'
  BY <1>3, AdmitType DEF CreateAdmit, At, LockedPC, PreparePC, HoldingPC, NewPC
<1>4. ASSUME CreateQueue(r) PROVE TypeInv'
  <2>1. req[r].name \in Name
    BY <1>4 DEF CreateQueue, At, TypeInv, Bound
  <2> QED
    BY <1>4, <2>1, QueueType, ReturnType DEF CreateQueue, TypeInv, TypeOK, Bound
<1>5. ASSUME ReqRead(r) PROVE TypeInv'
  <2> DEFINE n == req[r].name
  <2>1. req[r].pc \in LockedPC /\ n \in Name
    BY <1>5 DEF ReqRead, At, TypeInv, Bound, LockedPC, PreparePC
  <2>2. CASE Return(r) /\ UNCHANGED <<createCancels, job>>
    BY <1>5, <2>2, ReturnType DEF ReqRead, TypeInv, TypeOK, Bound
  <2>3. CASE /\ req' = [req EXCEPT ![r] = [@ EXCEPT !.pc = "mark", !.id = machines[n].id,
                                                !.seen = machines[n].state]]
             /\ UNCHANGED userLocks
             /\ TakeCancel(n, job) \/ UNCHANGED <<createCancels, job>>
    <3>1. /\ createCancels' \in [Name -> Job \cup {NoJob}]
          /\ job' \in [Job -> CreateJob]
          /\ \A j \in Job : job'[j].pc # "idle" => job'[j].name \in Name
      BY <2>3, TakeCancelType DEF TypeInv, TypeOK, Bound
    <3>2. "mark" \in LockedPC
      BY DEF LockedPC, HoldingPC, PowerPC
    <3>3. /\ req' \in [Req -> Request]
          /\ \A q \in Req : req'[q].pc # "idle" => req'[q].name \in Name
          /\ \A q \in Req : req'[q].pc \in {"lock"} \cup LockedPC => req'[q].user \in User
      <4>1. machines[n].id \in 0 .. MaxId /\ machines[n].state \in MachineState \cup {"none"}
        BY <2>1 DEF TypeInv, TypeOK, Row
      <4> QED
        BY <2>1, <2>3, <3>2, <4>1, UpdateType
    <3> QED
      BY <1>5, <2>3, <3>1, <3>3 DEF ReqRead, TypeInv, TypeOK, Bound
  <2> QED
    BY <1>5, <2>2, <2>3 DEF ReqRead
<1> QED
  BY <1>2, <1>3, <1>4, <1>5

LEMMA HoldingPCs ==
  /\ {"mark", "startRun", "startGuest", "startEnv", "startDone", "startFail", "stopRun",
      "stopDone", "stopFail", "refresh", "adopt", "delRun", "delDb", "queue", "mkdir",
      "store", "boot", "guest", "built", "persist", "env", "fail", "failMark"} \subseteq HoldingPC
  /\ HoldingPC \subseteq LockedPC
  /\ {"begin", "forkAdmit"} \subseteq LockedPC
BY DEF LockedPC, PreparePC, HoldingPC, PowerPC, DeletePC, NewPC

\* Building stays within the runtime's states and its callers' control points.
LEMMA BuildingType ==
  ASSUME vms \in [Name -> VMState], NEW n \in Name, NEW pc \in BuildPC, NEW c,
         NEW out \in Building(pc, n, c)
  PROVE  out[1] \in VMState /\ out[2] \in {"store", "boot", "guest", "built", "fail"}
BY DEF Building, BuildPC, VMState

LEMMA DeleteType ==
  ASSUME TypeInv, NEW r \in Req
  PROVE  /\ DeleteMark(r) => TypeInv'
         /\ DeleteRuntime(r) => TypeInv'
         /\ DeleteRuntimeError(r) => TypeInv'
         /\ DeleteDb(r) => TypeInv'
<1>1. ASSUME DeleteMark(r) PROVE TypeInv'
  <2>1. "DELETING" \in MachineState
    BY DEF MachineState, Transitional
  <2>2. machines' \in [Name -> Row]
    BY <1>1, <2>1, WithStateType DEF DeleteMark, TypeInv, TypeOK
  <2> QED
    BY <1>1, <2>2, GotoType, HoldingPCs DEF DeleteMark, At, TypeInv, TypeOK, Bound
<1>2. ASSUME DeleteRuntime(r) PROVE TypeInv'
  BY <1>2, CallType, RuntimeType, HoldingPCs DEF DeleteRuntime, At, TypeInv, TypeOK
<1>3. ASSUME DeleteRuntimeError(r) PROVE TypeInv'
  <2>1. machines' \in [Name -> Row]
    BY <1>3, WithStateType DEF DeleteRuntimeError, TypeInv, TypeOK, Request
  <2>2. vms' \in [Name -> VMState]
    BY <1>3, RuntimeType DEF DeleteRuntimeError, TypeInv, TypeOK
  <2> QED
    BY <1>3, <2>1, <2>2, ReturnType DEF DeleteRuntimeError, TypeInv, TypeOK, Bound
<1>4. ASSUME DeleteDb(r) PROVE TypeInv'
  <2>1. machines' \in [Name -> Row]
    BY <1>4, ConstantsAssumption DEF DeleteDb, TypeInv, TypeOK, Row, NoRecord
  <2> QED
    BY <1>4, <2>1, ReturnType DEF DeleteDb, TypeInv, TypeOK, Bound
<1> QED
  BY <1>1, <1>2, <1>3, <1>4

LEMMA StartType ==
  ASSUME TypeInv, NEW r \in Req
  PROVE  /\ StartMark(r) => TypeInv'
         /\ StartRun(r) => TypeInv'
         /\ StartGuest(r) => TypeInv'
         /\ StartEnv(r) => TypeInv'
         /\ StartDone(r) => TypeInv'
         /\ StartFail(r) => TypeInv'
<1> USE HoldingPCs DEF At
<1>0. /\ {"STARTING", "RUNNING", "STOPPED"} \subseteq MachineState
      /\ vms \in [Name -> VMState]
      /\ [vms EXCEPT ![req[r].name] = "RUNNING"] \in [Name -> VMState]
  BY DEF MachineState, Transitional, TypeInv, TypeOK, VMState
<1>1. ASSUME StartMark(r) PROVE TypeInv'
  <2>1. CASE Persist(r, "STARTING", "startRun")
    BY <1>0, <1>1, <2>1, PersistType DEF StartMark
  <2>2. CASE Return(r) /\ UNCHANGED <<machines, nextId, vms, createCancels, hostLock, job,
                                      recon, crashes>>
    BY <2>2, ReturnType DEF TypeInv, TypeOK, Bound
  <2> QED
    BY <1>1, <2>1, <2>2 DEF StartMark
<1>2. ASSUME StartRun(r) PROVE TypeInv'
  BY <1>0, <1>2, CallType DEF StartRun
<1>3. ASSUME StartGuest(r) PROVE TypeInv'
  BY <1>0, <1>3, CallType, RuntimeType DEF StartGuest
<1>4. ASSUME StartEnv(r) PROVE TypeInv'
  BY <1>0, <1>4, CallType, RuntimeType DEF StartEnv
<1>5. ASSUME StartDone(r) PROVE TypeInv'
  BY <1>0, <1>5, PersistType DEF StartDone
<1>6. ASSUME StartFail(r) PROVE TypeInv'
  BY <1>0, <1>6, PersistReturnType DEF StartFail
<1> QED
  BY <1>1, <1>2, <1>3, <1>4, <1>5, <1>6

LEMMA StopType ==
  ASSUME TypeInv, NEW r \in Req
  PROVE  /\ StopMark(r) => TypeInv'
         /\ StopRun(r) => TypeInv'
         /\ StopDone(r) => TypeInv'
         /\ StopFail(r) => TypeInv'
<1> USE HoldingPCs DEF At
<1>0. {"STOPPING", "RUNNING", "STOPPED"} \subseteq MachineState /\ vms \in [Name -> VMState]
  BY DEF MachineState, Transitional, TypeInv, TypeOK
<1>1. ASSUME StopMark(r) PROVE TypeInv'
  BY <1>0, <1>1, PersistType DEF StopMark
<1>2. ASSUME StopRun(r) PROVE TypeInv'
  BY <1>0, <1>2, CallType, RuntimeType DEF StopRun
<1>3. ASSUME StopDone(r) PROVE TypeInv'
  BY <1>0, <1>3, PersistType DEF StopDone
<1>4. ASSUME StopFail(r) PROVE TypeInv'
  BY <1>0, <1>4, PersistReturnType DEF StopFail
<1> QED
  BY <1>1, <1>2, <1>3, <1>4

LEMMA RefreshType ==
  ASSUME TypeInv, NEW r \in Req
  PROVE  /\ Refresh(r) => TypeInv'
         /\ Adopt(r) => TypeInv'
<1> USE HoldingPCs DEF At
<1>1. ASSUME Refresh(r) PROVE TypeInv'
  <2> DEFINE live == IF req[r].op = "start" THEN "RUNNING" ELSE "STOPPED"
  <2>1. CASE Return(r)
    BY <1>1, <2>1, ReturnType DEF Refresh, TypeInv, TypeOK, Bound
  <2>2. CASE /\ req' = [req EXCEPT ![r] = [@ EXCEPT !.pc = "adopt", !.seen = live]]
             /\ UNCHANGED userLocks
    <3>1. req[r] \in Request
      BY DEF TypeInv, TypeOK
    <3>2. live \in MachineState /\ req[r].id \in 0 .. MaxId /\ req[r].pc \in LockedPC
      BY <1>1, <3>1 DEF MachineState, Request, Refresh
    <3>3. [req[r] EXCEPT !.pc = "adopt", !.seen = live] =
            [req[r] EXCEPT !.pc = "adopt", !.id = req[r].id, !.seen = live]
      BY <3>1 DEF Request
    <3>4. req' = [req EXCEPT ![r] = [@ EXCEPT !.pc = "adopt", !.id = req[r].id, !.seen = live]]
      BY <2>2, <3>3
    <3> HIDE DEF live
    <3>5. /\ req' \in [Req -> Request]
          /\ \A q \in Req : req'[q].pc # "idle" => req'[q].name \in Name
          /\ \A q \in Req : req'[q].pc \in {"lock"} \cup LockedPC => req'[q].user \in User
      BY <3>2, <3>4, UpdateType
    <3> QED
      BY <1>1, <2>2, <3>5 DEF Refresh, TypeInv, TypeOK, Bound
  <2> QED
    BY <1>1, <2>1, <2>2 DEF Refresh
<1>2. ASSUME Adopt(r) PROVE TypeInv'
  <2>1. machines' \in [Name -> Row]
    BY <1>2, WithStateType DEF Adopt, PersistReturn, TypeInv, TypeOK, Request
  <2> QED
    BY <1>2, <2>1, ReturnType DEF Adopt, PersistReturn, TypeInv, TypeOK, Bound
<1> QED
  BY <1>1, <1>2

LEMMA ForkType ==
  ASSUME TypeInv, NEW r \in Req
  PROVE  /\ ForkRead(r) => TypeInv'
         /\ ForkAdmit(r) => TypeInv'
         /\ ForkBuild(r) => TypeInv'
         /\ ForkBuilt(r) => TypeInv'
         /\ ForkDone(r) => TypeInv'
         /\ ForkEnv(r) => TypeInv'
         /\ ForkFail(r) => TypeInv'
         /\ ForkMark(r) => TypeInv'
<1> USE HoldingPCs DEF At
<1>0. {"RUNNING", "FAILED"} \subseteq MachineState /\ vms \in [Name -> VMState]
  BY DEF MachineState, TypeInv, TypeOK
<1>1. ASSUME ForkRead(r) PROVE TypeInv'
  BY <1>1, GotoType, ReturnType DEF ForkRead, TypeInv, TypeOK, Bound
<1>2. ASSUME ForkAdmit(r) PROVE TypeInv'
  BY <1>2, AdmitType DEF ForkAdmit
<1>3. ASSUME ForkBuild(r) PROVE TypeInv'
  <2>1. req[r].pc \in LockedPC /\ req[r].name \in Name /\ req[r].pc \in BuildPC
    BY <1>3, LockedIsBusy DEF ForkBuild, BuildPC, TypeInv, Bound
  <2>2. PICK out \in Building(req[r].pc, req[r].name, FALSE) :
          Call(r, [vms EXCEPT ![req[r].name] = out[1]], out[2])
    BY <1>3 DEF ForkBuild
  <2>3. out[1] \in VMState /\ out[2] \in LockedPC
    BY <1>0, <2>1, BuildingType
  <2>4. [vms EXCEPT ![req[r].name] = out[1]] \in [Name -> VMState]
    BY <1>0, <2>3
  <2> QED
    BY <2>1, <2>2, <2>3, <2>4, CallType
<1>8. ASSUME ForkBuilt(r) PROVE TypeInv'
  <2>1. req[r].pc \in LockedPC /\ req[r] \in Request
    BY <1>8, LockedIsBusy DEF ForkBuilt, TypeInv, TypeOK
  <2>2. PICK pc \in {"persist", "fail"} :
          req' = [req EXCEPT ![r] = [@ EXCEPT !.pc = pc, !.seen = Reported(req[r].name)]]
    BY <1>8 DEF ForkBuilt
  <2>3. req' = [req EXCEPT ![r] = [@ EXCEPT !.pc = pc, !.id = req[r].id,
                                            !.seen = Reported(req[r].name)]]
    BY <2>1, <2>2 DEF Request
  <2>4. /\ Reported(req[r].name) \in MachineState /\ req[r].id \in 0 .. MaxId
        /\ pc \in LockedPC
    BY <2>1 DEF Reported, MachineState, Request
  <2> QED
    BY <1>8, <2>1, <2>3, <2>4, UpdateType DEF ForkBuilt, TypeInv, TypeOK, Bound
<1>4. ASSUME ForkDone(r) PROVE TypeInv'
  <2>1. req[r].seen \in MachineState \cup {"none"} /\ req[r].pc \in LockedPC
    BY <1>4 DEF ForkDone, TypeInv, TypeOK, Request
  <2> QED
    BY <1>4, <2>1, PersistType DEF ForkDone
<1>5. ASSUME ForkEnv(r) PROVE TypeInv'
  BY <1>5, GotoType, ReturnType DEF ForkEnv, TypeInv, TypeOK, Bound
<1>6. ASSUME ForkFail(r) PROVE TypeInv'
  BY <1>0, <1>6, CallType, RuntimeType DEF ForkFail
<1>7. ASSUME ForkMark(r) PROVE TypeInv'
  <2>1. machines' \in [Name -> Row]
    BY <1>0, <1>7, WithStateType DEF ForkMark, WithStateByName, TypeInv, TypeOK
  <2> QED
    BY <1>7, <2>1, ReturnType DEF ForkMark, TypeInv, TypeOK, Bound
<1> QED
  BY <1>1, <1>2, <1>3, <1>4, <1>5, <1>6, <1>7, <1>8

LEMMA GetType ==
  ASSUME TypeInv, NEW r \in Req
  PROVE  /\ GetLive(r) => TypeInv'
         /\ GetWrite(r) => TypeInv'
<1>0. IdleReq \in Request /\ IdleReq.pc = "idle"
  BY LockedIsBusy, ConstantsAssumption DEF IdleReq, Request, ClientOps
<1>1. ASSUME GetLive(r) PROVE TypeInv'
  <2>1. CASE req' = [req EXCEPT ![r] = IdleReq]
    BY <1>0, <1>1, <2>1, LockedIsBusy DEF GetLive, TypeInv, TypeOK, Bound
  <2>2. ASSUME NEW s \in MachineState,
               req' = [req EXCEPT ![r] = [@ EXCEPT !.pc = "getWrite", !.seen = s]]
        PROVE  TypeInv'
    <3> DEFINE rec == [req[r] EXCEPT !.pc = "getWrite", !.seen = s]
    <3>1. rec \in Request /\ rec.name = req[r].name /\ rec.pc = "getWrite"
      BY DEF TypeInv, TypeOK, Request, ReqPC, ReadPC
    <3>2. "getWrite" \notin {"lock"} \cup LockedPC /\ req[r].pc # "idle"
      BY <1>1 DEF GetLive, At, LockedPC, PreparePC, HoldingPC, PowerPC, DeletePC, NewPC
    <3>3. req' = [req EXCEPT ![r] = rec]
      BY <2>2
    <3> HIDE DEF rec
    <3> QED
      BY <1>1, <3>1, <3>2, <3>3 DEF GetLive, TypeInv, TypeOK, Bound
  <2>3. Visible(req[r].name) => vms[req[r].name] \in MachineState
    BY DEF Visible, MachineState
  <2>4. "missing" \in MachineState
    BY DEF MachineState
  <2> QED
    BY <1>1, <2>1, <2>2, <2>3, <2>4 DEF GetLive
<1>2. ASSUME GetWrite(r) PROVE TypeInv'
  <2>1. machines' \in [Name -> Row]
    BY <1>2, WithStateType DEF GetWrite, TypeInv, TypeOK, Request
  <2> QED
    BY <1>0, <1>2, <2>1, LockedIsBusy DEF GetWrite, TypeInv, TypeOK, Bound
<1> QED
  BY <1>1, <1>2

LEMMA JobGotoType ==
  ASSUME TypeInv, NEW j \in Job, job[j].pc # "idle", NEW pc \in JobPC \ {"idle"},
         JobGoto(j, pc), machines' \in [Name -> Row], vms' \in [Name -> VMState]
  PROVE  TypeInv'
<1>1. /\ job' \in [Job -> CreateJob]
      /\ \A i \in Job : job'[i].pc # "idle" => job'[i].name \in Name
  BY DEF JobGoto, TypeInv, TypeOK, Bound, CreateJob
<1> QED
  BY <1>1 DEF JobGoto, TypeInv, TypeOK, Bound

LEMMA JobType ==
  ASSUME TypeInv, NEW j \in Job, JobStep(j)
  PROVE  TypeInv'
<1>0. /\ machines \in [Name -> Row] /\ vms \in [Name -> VMState]
      /\ {"RUNNING", "STOPPED", "FAILED"} \subseteq MachineState
      /\ JobPC = {"idle", "built", "env", "finish", "persist", "cleanup", "fail", "failMark", "clear",
                  "mkdir", "store", "boot", "guest"}
  BY DEF TypeInv, TypeOK, MachineState, JobPC, BuildPC
<1>1. CASE JobBuild(j)
  <2>1. job[j].pc \in BuildPC /\ job[j].pc # "idle" /\ job[j].name \in Name
    BY <1>1 DEF JobBuild, BuildPC, TypeInv, Bound
  <2>2. PICK out \in Building(job[j].pc, job[j].name, job[j].cancelled) :
          vms' = [vms EXCEPT ![job[j].name] = out[1]] /\ JobGoto(j, out[2])
    BY <1>1 DEF JobBuild
  <2>3. out[1] \in VMState /\ out[2] \in JobPC \ {"idle"}
    BY <1>0, <2>1, BuildingType
  <2>4. vms' \in [Name -> VMState] /\ machines' \in [Name -> Row]
    BY <1>0, <1>1, <2>2, <2>3 DEF JobBuild
  <2> QED
    BY <2>1, <2>2, <2>3, <2>4, JobGotoType
<1>8. CASE JobBuilt(j)
  <2> DEFINE rec == [job[j] EXCEPT !.pc = "env", !.live = Reported(job[j].name)]
  <2>1. /\ rec \in CreateJob /\ rec.name = job[j].name
        /\ job' = [job EXCEPT ![j] = rec] /\ job[j].pc # "idle"
    BY <1>0, <1>8 DEF JobBuilt, Reported, TypeInv, TypeOK, CreateJob
  <2> HIDE DEF rec
  <2>2. /\ job' \in [Job -> CreateJob]
        /\ \A i \in Job : job'[i].pc # "idle" => job'[i].name \in Name
    BY <2>1 DEF TypeInv, TypeOK, Bound
  <2> QED
    BY <1>8, <2>2 DEF JobBuilt, TypeInv, TypeOK, Bound
<1>2. CASE JobEnv(j)
  BY <1>0, <1>2, JobGotoType DEF JobEnv
<1>3. CASE JobFinish(j)
  <2>1. job[j].name \in Name
    BY <1>3 DEF JobFinish, TypeInv, Bound
  <2>2. machines[job[j].name].id \in 0 .. MaxId
    BY <2>1 DEF TypeInv, TypeOK, Row
  <2>3. /\ [job[j] EXCEPT !.pc = "persist", !.id = machines[job[j].name].id] \in CreateJob
        /\ [job[j] EXCEPT !.pc = "persist", !.id = machines[job[j].name].id].name = job[j].name
        /\ [job[j] EXCEPT !.pc = "cleanup"] \in CreateJob
        /\ [job[j] EXCEPT !.pc = "cleanup"].name = job[j].name
    BY <1>0, <2>2 DEF TypeInv, TypeOK, CreateJob
  <2>4. /\ job' \in [Job -> CreateJob]
        /\ \A i \in Job : job'[i].pc # "idle" => job'[i].name \in Name
    BY <1>3, <2>1, <2>3 DEF JobFinish, TypeInv, TypeOK, Bound
  <2> QED
    BY <1>3, <2>4 DEF JobFinish, TypeInv, TypeOK, Bound
<1>4. CASE JobPersist(j)
  <2>1. job[j].live \in MachineState
    BY <1>0 DEF TypeInv, TypeOK, CreateJob
  <2> QED
    BY <1>0, <1>4, <2>1, JobGotoType, WithStateType DEF JobPersist
<1>5. CASE JobCleanup(j)
  BY <1>0, <1>5, JobGotoType, RuntimeType DEF JobCleanup
<1>6. CASE JobFailMark(j)
  BY <1>0, <1>6, JobGotoType, WithStateType DEF JobFailMark, WithStateByName
<1>7. CASE JobClear(j)
  <2> DEFINE jobs == [job EXCEPT ![j] = IdleJob]
  <2>1. jobs \in [Job -> CreateJob] /\ \A i \in Job : jobs[i].pc # "idle" => jobs[i].name \in Name
    BY <1>0, ConstantsAssumption DEF TypeInv, TypeOK, Bound, CreateJob, IdleJob
  <2>2. TakeCancel(job[j].name, jobs)
    BY <1>7 DEF JobClear
  <2> HIDE DEF jobs
  <2>3. /\ createCancels' \in [Name -> Job \cup {NoJob}]
        /\ job' \in [Job -> CreateJob]
        /\ \A i \in Job : job'[i].pc # "idle" => job'[i].name \in Name
    BY <2>1, <2>2, TakeCancelType
  <2> QED
    BY <1>7, <2>3 DEF JobClear, TypeInv, TypeOK, Bound
<1> QED
  BY <1>1, <1>2, <1>3, <1>4, <1>5, <1>6, <1>7, <1>8 DEF JobStep

LEMMA PassType ==
  ASSUME TypeInv, NEW p \in Pass, NEW rec \in ReconPass,
         recon' = [recon EXCEPT ![p] = rec],
         machines' \in [Name -> Row], vms' \in [Name -> VMState],
         createCancels' \in [Name -> Job \cup {NoJob}], job' \in [Job -> CreateJob],
         \A j \in Job : job'[j].pc # "idle" => job'[j].name \in Name,
         UNCHANGED <<nextId, userLocks, hostLock, req, crashes>>
  PROVE  TypeInv'
BY DEF TypeInv, TypeOK, Bound

LEMMA ReconType ==
  ASSUME TypeInv, NEW p \in Pass, ReconStep(p)
  PROVE  TypeInv'
<1>0. /\ machines \in [Name -> Row] /\ vms \in [Name -> VMState]
      /\ createCancels \in [Name -> Job \cup {NoJob}] /\ job \in [Job -> CreateJob]
      /\ \A j \in Job : job[j].pc # "idle" => job[j].name \in Name
      /\ recon[p] \in ReconPass
      /\ IdleRecon \in ReconPass
  BY ConstantsAssumption DEF TypeInv, TypeOK, Bound, ReconPass, IdleRecon, NoRecord, Row
<1>1. CASE ReconList(p)
  <2>1. [recon[p] EXCEPT !.pc = "listed", !.known = machines] \in ReconPass
    BY <1>0 DEF ReconPass
  <2> QED
    BY <1>0, <1>1, <2>1, PassType DEF ReconList
<1>2. CASE ReconRuntime(p)
  <2> DEFINE live == [n \in Name |-> IF Visible(n) THEN vms[n] ELSE "none"]
             todo == {n \in Name : Visible(n) /\ ~Known(p, n)}
  <2>1. live \in [Name -> {"none", "STOPPED", "RUNNING"}] /\ todo \in SUBSET Name
    BY DEF Visible
  <2> HIDE DEF live, todo
  <2>2. [recon[p] EXCEPT !.pc = "delete", !.live = live, !.todo = todo] \in ReconPass
    BY <1>0, <2>1 DEF ReconPass
  <2>3. recon' = [recon EXCEPT ![p] = [recon[p] EXCEPT !.pc = "delete", !.live = live, !.todo = todo]]
    BY <1>2 DEF ReconRuntime, live, todo
  <2> QED
    BY <1>0, <1>2, <2>2, <2>3, PassType DEF ReconRuntime
<1>3. CASE ReconDeleted(p)
  <2>1. [recon[p] EXCEPT !.pc = "visit", !.todo = {n \in Name : Known(p, n)}] \in ReconPass
    BY <1>0 DEF ReconPass
  <2> QED
    BY <1>0, <1>3, <2>1, PassType DEF ReconDeleted
<1>4. CASE ReconEnd(p)
  BY <1>0, <1>4, PassType DEF ReconEnd
<1>5. ASSUME NEW n \in Name, ReconDelete(p, n) PROVE TypeInv'
  <2>1. [recon[p] EXCEPT !.todo = @ \ {n}] \in ReconPass
    BY <1>0 DEF ReconPass
  <2>2. recon' = [recon EXCEPT ![p] = [recon[p] EXCEPT !.todo = @ \ {n}]]
    BY <1>5 DEF ReconDelete
  <2> QED
    BY <1>0, <1>5, <2>1, <2>2, PassType, RuntimeType DEF ReconDelete
<1>6. ASSUME NEW n \in Name, ReconVisit(p, n) PROVE TypeInv'
  <2> DEFINE rec == [recon[p] EXCEPT !.todo = @ \ {n}, !.known[n] = NoRecord, !.live[n] = "none"]
             row == recon[p].known[n]
             live == recon[p].live[n]
  <2>1. NoRecord \in Row
    BY ConstantsAssumption DEF NoRecord, Row
  <2>2. rec \in ReconPass
    <3> DEFINE known == [recon[p].known EXCEPT ![n] = NoRecord]
               alive == [recon[p].live EXCEPT ![n] = "none"]
               todo == recon[p].todo \ {n}
    <3>1. /\ known \in [Name -> Row]
          /\ alive \in [Name -> {"none", "STOPPED", "RUNNING"}]
          /\ todo \in SUBSET Name
      BY <1>0, <2>1 DEF ReconPass
    <3>2. rec = [recon[p] EXCEPT !.todo = todo, !.known = known, !.live = alive]
      BY <1>0 DEF ReconPass
    <3> HIDE DEF known, alive, todo, rec
    <3> QED
      BY <1>0, <3>1, <3>2 DEF ReconPass
  <2>3. recon' = [recon EXCEPT ![p] = rec]
    BY <1>6 DEF ReconVisit
  <2>4. machines' \in [Name -> Row]
    <3>1. live # "none" => live \in MachineState
      BY <1>0 DEF ReconPass, MachineState
    <3> QED
      BY <1>0, <1>6, <3>1, WithStateType DEF ReconVisit
  <2>5. /\ createCancels' \in [Name -> Job \cup {NoJob}]
        /\ job' \in [Job -> CreateJob]
        /\ \A j \in Job : job'[j].pc # "idle" => job'[j].name \in Name
    BY <1>0, <1>6, QueueType DEF ReconVisit
  <2> HIDE DEF rec
  <2> QED
    BY <1>0, <1>6, <2>2, <2>3, <2>4, <2>5, PassType DEF ReconVisit
<1> QED
  BY <1>1, <1>2, <1>3, <1>4, <1>5, <1>6 DEF ReconStep

LEMMA RestartType ==
  ASSUME TypeInv, Restart, vms' \in [Name -> VMState]
  PROVE  TypeInv'
<1>1. /\ IdleReq \in Request /\ IdleJob \in CreateJob /\ IdleRecon \in ReconPass
      /\ IdleReq.pc \notin {"lock"} \cup LockedPC /\ IdleReq.pc = "idle" /\ IdleJob.pc = "idle"
  BY ConstantsAssumption, LockedIsBusy
     DEF IdleReq, Request, ClientOps, IdleJob, CreateJob, JobPC, IdleRecon, ReconPass, NoRecord, Row
<1>2. crashes' \in 0 .. MaxCrash
  BY ConstantsAssumption DEF Restart, TypeInv, TypeOK
<1> QED
  BY <1>1, <1>2 DEF Restart, TypeInv, TypeOK, Bound

LEMMA TypeStep == TypeInv /\ [Next]_vars => TypeInv'
<1> SUFFICES ASSUME TypeInv, [Next]_vars PROVE TypeInv'
  OBVIOUS
<1>1. ASSUME NEW r \in Req, NEW op \in ClientOps, NEW u \in User, NEW n \in Name,
             ReqBegin(r, op, u, n)
      PROVE  TypeInv'
  BY <1>1, BeginType
<1>2. ASSUME NEW r \in Req, AcquireUserLock(r) PROVE TypeInv'
  BY <1>2, ArrivalType
<1>3. ASSUME NEW r \in Req, ReqStep(r) PROVE TypeInv'
  BY <1>3, ArrivalType, DeleteType, StartType, StopType, RefreshType, ForkType, GetType
     DEF ReqStep
<1>4. ASSUME NEW j \in Job, JobStep(j) PROVE TypeInv'
  BY <1>4, JobType
<1>5. ASSUME NEW p \in Pass, ReconStep(p) PROVE TypeInv'
  BY <1>5, ReconType
<1>6. ASSUME NEW n \in Name, VMExit(n) PROVE TypeInv'
  BY <1>6 DEF VMExit, TypeInv, TypeOK, Bound, VMState
<1>7. CASE Crash
  BY <1>7, RestartType DEF Crash, TypeInv, TypeOK
<1>8. CASE Reboot
  <2>1. vms' \in [Name -> VMState]
    BY <1>8 DEF Reboot, TypeInv, TypeOK, VMState
  <2> QED
    BY <1>8, <2>1, RestartType DEF Reboot
<1>9. CASE UNCHANGED vars
  BY <1>9 DEF vars, TypeInv, TypeOK, Bound
<1> QED
  BY <1>1, <1>2, <1>3, <1>4, <1>5, <1>6, <1>7, <1>8, <1>9 DEF Next

\* Every variable stays in its type, for any number of requests, jobs, passes,
\* names and users: no stale write puts a state no row may have into the table,
\* and ids stay below the number of rows inserted.
THEOREM TypeCorrect == Spec => []TypeOK
<1>1. Spec => []TypeInv
  BY InitType, TypeStep, PTL DEF Spec
<1> QED
  BY <1>1, PTL DEF TypeInv

-----------------------------------------------------------------------------
(* The inductive invariant.  HandlerOwnsRecord needs the user locks; that a *)
(* CREATING row is protected needs to know what readers and passes with an  *)
(* old row can still do to the row that has the name now.                   *)

\* The handlers that have been admitted as forks.
ForkPC == {"forkAdmit", "mkdir", "store", "boot", "guest", "built", "persist", "env", "fail",
           "failMark"}

\* Ids are handed out in order, and a name without a row has NoRecord.
RowInv ==
  \A n \in Name :
    /\ machines[n].id <= nextId
    /\ machines[n].id = 0 => machines[n] = NoRecord

\* A handler holds its user's lock, and from the time it has found its row
\* that row is the one with its name.  It works on no CREATING row but one it
\* inserted itself, and no reader will write to one.
ReqInv(r) ==
  LET q == req[r]
      row == machines[q.name]
  IN /\ q.id <= nextId
     /\ q.pc \in LockedPC => userLocks[q.user] = r
     /\ q.pc \in HoldingPC => row.id = q.id /\ row.owner = q.user
     /\ q.pc \in PowerPC \cup DeletePC => row.state # "CREATING" /\ q.seen # "CREATING"
     /\ q.pc = "getWrite" => q.seen # "CREATING"
     /\ q.pc \in ReadPC /\ q.seen # "CREATING" /\ row.id = q.id => row.state # "CREATING"
     /\ q.pc \in ForkPC => q.op = "fork"
     /\ q.pc = "persist" => q.seen \in {"RUNNING", "STOPPED"}

\* A row a pass has listed and would adopt a state for is not CREATING now.
PassInv(p) ==
  \A n \in Name :
    /\ recon[p].known[n].id <= nextId
    /\ recon[p].known[n].state # "CREATING" /\ recon[p].known[n].id = machines[n].id
         => machines[n].state # "CREATING"

IInv ==
  /\ RowInv
  /\ \A r \in Req : ReqInv(r)
  /\ \A p \in Pass : PassInv(p)

\* No row comes or goes, and none becomes CREATING.
RowsKept ==
  \A n \in Name :
    /\ machines'[n].id = machines[n].id
    /\ machines'[n].owner = machines[n].owner
    /\ machines[n].id = 0 => machines'[n] = machines[n]
    /\ machines'[n].state = "CREATING" => machines[n].state = "CREATING"

LEMMA PCFacts ==
  /\ ReadPC \cap LockedPC = {}
  /\ HoldingPC = PowerPC \cup DeletePC \cup NewPC
  /\ LockedPC = PreparePC \cup HoldingPC
  /\ PreparePC \cap HoldingPC = {}
  /\ (PowerPC \cup DeletePC) \cap NewPC = {}
  /\ ForkPC = {"forkAdmit"} \cup (NewPC \ {"queue"})
  /\ PreparePC = {"begin", "forkAdmit"}
  /\ PowerPC \cup DeletePC = {"mark", "startRun", "startGuest", "startEnv", "startDone",
       "startFail", "stopRun", "stopDone", "stopFail", "refresh", "adopt", "delRun", "delDb"}
  /\ ReadPC = {"getLive", "getWrite"}
  /\ "idle" \notin LockedPC \cup ReadPC \cup ForkPC
  /\ "lock" \notin LockedPC \cup ReadPC \cup ForkPC
  /\ ReadPC \cap ForkPC = {}
  /\ "persist" \in NewPC \cap ForkPC
BY DEF LockedPC, PreparePC, HoldingPC, PowerPC, DeletePC, NewPC, ReadPC, ForkPC

LEMMA WithStateKeeps ==
  ASSUME machines \in [Name -> Row], NEW n, NEW id, NEW s, s # "CREATING",
         machines' = WithState(n, id, s)
  PROVE  RowsKept
BY DEF RowsKept, WithState, Exists, Row

LEMMA RowStays ==
  ASSUME RowInv, RowsKept, nextId' = nextId
  PROVE  RowInv'
BY DEF RowInv, RowsKept, NoRecord

LEMMA PassStays ==
  ASSUME RowsKept, NEW p \in Pass, PassInv(p), recon'[p] = recon[p], nextId' = nextId
  PROVE  PassInv(p)'
BY DEF PassInv, RowsKept

LEMMA ReqStays ==
  ASSUME TypeInv, RowsKept, NEW q \in Req, ReqInv(q), req'[q] = req[q], nextId' = nextId,
         req[q].pc \in LockedPC => userLocks'[req[q].user] = userLocks[req[q].user]
  PROVE  ReqInv(q)'
<1>1. req[q].pc \in HoldingPC \cup ReadPC => req[q].name \in Name
  BY PCFacts DEF TypeInv, Bound
<1> QED
  BY <1>1, PCFacts DEF ReqInv, RowsKept

\* A step of one handler that keeps the rows.
LEMMA HandlerStep ==
  ASSUME TypeInv, IInv, NEW r \in Req, RowsKept, UNCHANGED <<nextId, recon>>,
         \A q \in Req : q # r => req'[q] = req[q],
         \A q \in Req : q # r /\ req[q].pc \in LockedPC
                        => userLocks'[req[q].user] = userLocks[req[q].user],
         ReqInv(r)'
  PROVE  IInv'
<1>1. \A q \in Req : ReqInv(q)'
  BY ReqStays DEF IInv
<1> QED
  BY <1>1, RowStays, PassStays DEF IInv

\* A step that leaves the handlers and the passes alone.
LEMMA OtherStep ==
  ASSUME TypeInv, IInv, RowsKept, UNCHANGED <<nextId, recon, req, userLocks>>
  PROVE  IInv'
<1>1. \A q \in Req : ReqInv(q)'
  BY ReqStays DEF IInv
<1> QED
  BY <1>1, RowStays, PassStays DEF IInv

LEMMA GotoInv ==
  ASSUME TypeInv, IInv, NEW r \in Req, NEW pc, pc # "persist", Goto(r, pc), RowsKept,
         UNCHANGED <<nextId, recon, userLocks>>,
         \/ req[r].pc \in PowerPC \cup DeletePC /\ pc \in PowerPC \cup DeletePC
         \/ req[r].pc \in NewPC \cap ForkPC /\ pc \in NewPC \cap ForkPC
  PROVE  IInv'
<1>1. /\ req'[r] = [req[r] EXCEPT !.pc = pc]
      /\ \A q \in Req : q # r => req'[q] = req[q]
  BY DEF Goto, TypeInv, TypeOK
<1>2. req[r].name \in Name
  BY PCFacts DEF TypeInv, Bound
<1>3. req[r] \in Request
  BY DEF TypeInv, TypeOK
<1>4. ReqInv(r)'
  BY <1>1, <1>2, <1>3, PCFacts DEF IInv, ReqInv, RowsKept, Request
<1> QED
  BY <1>1, <1>4, HandlerStep

LEMMA ReturnInv ==
  ASSUME TypeInv, IInv, NEW r \in Req, Return(r), req[r].pc \in LockedPC, RowsKept,
         UNCHANGED <<nextId, recon>>
  PROVE  IInv'
<1>1. /\ req'[r] = IdleReq
      /\ \A q \in Req : q # r => req'[q] = req[q]
  BY DEF Return, TypeInv, TypeOK
<1>2. nextId \in Nat
  BY ConstantsAssumption DEF TypeInv, TypeOK
<1>3. ReqInv(r)'
  BY <1>1, <1>2, PCFacts DEF ReqInv, IdleReq
<1>4. ASSUME NEW q \in Req, q # r, req[q].pc \in LockedPC
      PROVE  userLocks'[req[q].user] = userLocks[req[q].user]
  <2>1. userLocks[req[r].user] = r /\ userLocks[req[q].user] = q
    BY <1>4 DEF IInv, ReqInv
  <2>2. req[q].user # req[r].user
    BY <1>4, <2>1
  <2> QED
    BY <2>2, <1>4 DEF Return, TypeInv, TypeOK, Bound
<1> QED
  BY <1>1, <1>3, <1>4, HandlerStep

LEMMA NoRowsChanged == machines' = machines => RowsKept
BY DEF RowsKept

LEMMA PersistInv ==
  ASSUME TypeInv, IInv, NEW r \in Req, NEW s, s # "CREATING", NEW pc, pc # "persist",
         Persist(r, s, pc),
         \/ req[r].pc \in PowerPC \cup DeletePC /\ pc \in PowerPC \cup DeletePC
         \/ req[r].pc \in NewPC \cap ForkPC /\ pc \in NewPC \cap ForkPC
  PROVE  IInv'
<1>1. RowsKept
  BY WithStateKeeps DEF Persist, TypeInv, TypeOK
<1> QED
  BY <1>1, GotoInv DEF Persist

LEMMA PersistReturnInv ==
  ASSUME TypeInv, IInv, NEW r \in Req, NEW s, s # "CREATING", PersistReturn(r, s),
         req[r].pc \in LockedPC
  PROVE  IInv'
<1>1. RowsKept
  BY WithStateKeeps DEF PersistReturn, TypeInv, TypeOK
<1> QED
  BY <1>1, ReturnInv DEF PersistReturn

LEMMA CallInv ==
  ASSUME TypeInv, IInv, NEW r \in Req, NEW v, NEW pc, pc # "persist", Call(r, v, pc),
         \/ req[r].pc \in PowerPC \cup DeletePC /\ pc \in PowerPC \cup DeletePC
         \/ req[r].pc \in NewPC \cap ForkPC /\ pc \in NewPC \cap ForkPC
  PROVE  IInv'
BY NoRowsChanged, GotoInv DEF Call

LEMMA IdsAreNat == TypeInv => nextId \in Nat
BY ConstantsAssumption DEF TypeInv, TypeOK

LEMMA InitInv == Init => IInv
BY PCFacts DEF Init, IInv, RowInv, ReqInv, PassInv, NoRecord, IdleReq, IdleRecon

\* Whoever refers to the name of a new row refers to an older row.
LEMMA AdmitInv ==
  ASSUME TypeInv, IInv, NEW r \in Req, req[r].pc \in PreparePC, NEW pc \in NewPC \ {"persist"},
         pc \in ForkPC => req[r].op = "fork", Admit(r, pc)
  PROVE  IInv'
<1> DEFINE n == req[r].name
<1>1. n \in Name /\ req[r].user \in User /\ req[r] \in Request /\ nextId \in Nat
  BY PCFacts, IdsAreNat DEF TypeInv, TypeOK, Bound
<1>2. CASE Return(r) /\ UNCHANGED <<machines, nextId>>
  BY <1>2, PCFacts, NoRowsChanged, ReturnInv DEF Admit
<1>3. CASE /\ ~Exists(req[r].name)
           /\ nextId < MaxId
           /\ Insert(req[r].name, req[r].user)
           /\ req' = [req EXCEPT ![r] = [@ EXCEPT !.pc = pc, !.id = nextId + 1]]
           /\ UNCHANGED userLocks
  <2>1. /\ machines' = [machines EXCEPT ![n] =
                          [id |-> nextId + 1, owner |-> req[r].user, state |-> "CREATING"]]
        /\ nextId' = nextId + 1
        /\ machines[n] = NoRecord
    BY <1>1, <1>3 DEF Insert, Exists, IInv, RowInv
  <2>2. /\ machines'[n] = [id |-> nextId + 1, owner |-> req[r].user, state |-> "CREATING"]
        /\ \A m \in Name : m # n => machines'[m] = machines[m]
    BY <1>1, <2>1 DEF TypeInv, TypeOK
  <2>3. \A m \in Name : machines[m].id \in Nat /\ machines[m].id <= nextId
    BY ConstantsAssumption DEF TypeInv, TypeOK, Row, IInv, RowInv
  <2>4. RowInv'
    BY <1>1, <2>1, <2>2, <2>3 DEF IInv, RowInv
  <2>5. /\ req'[r] = [req[r] EXCEPT !.pc = pc, !.id = nextId + 1]
        /\ \A q \in Req : q # r => req'[q] = req[q]
    BY <1>3 DEF TypeInv, TypeOK
  <2>6. ReqInv(r)'
    <3> DEFINE rec == [req[r] EXCEPT !.pc = pc, !.id = nextId + 1]
    <3>1. /\ rec.pc = pc /\ rec.id = nextId + 1 /\ rec.name = n
          /\ rec.user = req[r].user /\ rec.op = req[r].op
      BY <1>1 DEF Request
    <3>2. userLocks'[req[r].user] = r
      BY <1>3, PCFacts DEF IInv, ReqInv
    <3>3. req'[r] = rec
      BY <2>5
    <3> HIDE DEF rec
    <3> QED
      BY <1>1, <2>1, <2>2, <3>1, <3>2, <3>3, PCFacts DEF ReqInv
  <2>7. ASSUME NEW q \in Req, q # r PROVE ReqInv(q)'
    <3>1. req'[q] = req[q] /\ ReqInv(q) /\ userLocks' = userLocks /\ req[q].id \in Nat
      BY <1>3, <2>5, <2>7, ConstantsAssumption DEF IInv, TypeInv, TypeOK, Request
    <3>2. req[q].id <= nextId /\ req[q].id <= nextId'
      BY <1>1, <2>1, <3>1 DEF ReqInv
    <3>3. CASE req[q].name = n
      <4>1. req[q].pc \notin HoldingPC
        BY <2>1, <3>1, <3>3, ConstantsAssumption, PCFacts
           DEF ReqInv, NoRecord, TypeInv, Bound
      <4>2. machines'[n].id # req[q].id
        BY <1>1, <2>2, <3>1, <3>2
      <4> QED
        BY <3>1, <3>2, <3>3, <4>1, <4>2, PCFacts DEF ReqInv
    <3>4. CASE req[q].name # n
      <4>1. req[q].pc \in HoldingPC \cup ReadPC => req[q].name \in Name
        BY PCFacts DEF TypeInv, Bound
      <4> QED
        BY <2>2, <3>1, <3>2, <3>4, <4>1, PCFacts DEF ReqInv
    <3> QED
      BY <3>3, <3>4
  <2>8. ASSUME NEW p \in Pass PROVE PassInv(p)'
    <3>1. recon' = recon /\ PassInv(p)
      BY DEF Admit, IInv
    <3>2. \A m \in Name : recon[p].known[m].id \in Nat
      BY ConstantsAssumption DEF TypeInv, TypeOK, ReconPass, Row
    <3>3. \A m \in Name : recon[p].known[m].id <= nextId
      BY <3>1 DEF PassInv
    <3> QED
      BY <1>1, <2>1, <2>2, <3>1, <3>2, <3>3 DEF PassInv
  <2> QED
    BY <2>4, <2>6, <2>7, <2>8 DEF IInv
<1> QED
  BY <1>2, <1>3 DEF Admit

LEMMA ArrivalInv ==
  ASSUME TypeInv, IInv, NEW r \in Req
  PROVE  /\ \A op \in ClientOps, u \in User, n \in Name : ReqBegin(r, op, u, n) => IInv'
         /\ AcquireUserLock(r) => IInv'
         /\ CreateAdmit(r) => IInv'
         /\ CreateQueue(r) => IInv'
         /\ ReqRead(r) => IInv'
<1>0. req[r] \in Request /\ nextId \in Nat /\ ReqInv(r)
  BY IdsAreNat DEF TypeInv, TypeOK, IInv
<1>1. ASSUME NEW op \in ClientOps, NEW u \in User, NEW n \in Name, ReqBegin(r, op, u, n)
      PROVE  IInv'
  <2>1. \A q \in Req : q # r => req'[q] = req[q]
    BY <1>1 DEF ReqBegin, TypeInv, TypeOK
  <2>2. CASE req' = [req EXCEPT ![r] =
                      [pc |-> "getLive", op |-> op, user |-> NoUser, name |-> n,
                       id |-> machines[n].id, seen |-> machines[n].state]]
    <3>1. req'[r] = [pc |-> "getLive", op |-> op, user |-> NoUser, name |-> n,
                     id |-> machines[n].id, seen |-> machines[n].state]
      BY <2>2 DEF TypeInv, TypeOK
    <3>2. ReqInv(r)'
      BY <1>1, <3>1, PCFacts DEF ReqBegin, ReqInv, IInv, RowInv
    <3> QED
      BY <1>1, <2>1, <3>2, NoRowsChanged, HandlerStep DEF ReqBegin
  <2>3. CASE req' = [req EXCEPT ![r] =
                      [pc |-> "lock", op |-> op, user |-> u, name |-> n,
                       id |-> 0, seen |-> "none"]]
    <3>1. req'[r] = [pc |-> "lock", op |-> op, user |-> u, name |-> n,
                     id |-> 0, seen |-> "none"]
      BY <2>3 DEF TypeInv, TypeOK
    <3>2. ReqInv(r)'
      BY <1>0, <1>1, <3>1, PCFacts DEF ReqBegin, ReqInv
    <3> QED
      BY <1>1, <2>1, <3>2, NoRowsChanged, HandlerStep DEF ReqBegin
  <2> QED
    BY <1>1, <2>2, <2>3 DEF ReqBegin
<1>2. ASSUME AcquireUserLock(r) PROVE IInv'
  <2> DEFINE u == req[r].user
  <2>1. /\ u \in User
        /\ userLocks[u] = NoReq
        /\ userLocks' = [userLocks EXCEPT ![u] = r]
        /\ req' = [req EXCEPT ![r].pc = "begin"]
        /\ UNCHANGED <<machines, nextId, recon>>
    BY <1>2 DEF AcquireUserLock, At, Goto, TypeInv, Bound
  <2>2. /\ req'[r] = [req[r] EXCEPT !.pc = "begin"]
        /\ \A q \in Req : q # r => req'[q] = req[q]
        /\ userLocks'[u] = r
        /\ \A v \in User : v # u => userLocks'[v] = userLocks[v]
    BY <2>1 DEF TypeInv, TypeOK
  <2>3. ReqInv(r)'
    <3>1. "begin" \notin HoldingPC \cup ReadPC \cup ForkPC
      BY PCFacts
    <3> QED
      BY <1>0, <2>1, <2>2, <3>1, PCFacts DEF ReqInv, Request
  <2>4. ASSUME NEW q \in Req, q # r, req[q].pc \in LockedPC
        PROVE  userLocks'[req[q].user] = userLocks[req[q].user]
    <3>1. userLocks[req[q].user] = q /\ req[q].user \in User
      BY <2>4 DEF IInv, ReqInv, TypeInv, Bound
    <3> QED
      BY <2>1, <2>2, <3>1, ConstantsAssumption
  <2> QED
    BY <2>1, <2>2, <2>3, <2>4, NoRowsChanged, HandlerStep
<1>3. ASSUME CreateAdmit(r) PROVE IInv'
  <2>1. "queue" \in NewPC \ ForkPC /\ req[r].pc \in PreparePC /\ Admit(r, "queue")
    BY <1>3, PCFacts DEF CreateAdmit, At, NewPC, ForkPC
  <2> QED
    BY <2>1, AdmitInv
<1>4. ASSUME CreateQueue(r) PROVE IInv'
  BY <1>4, HoldingPCs, NoRowsChanged, ReturnInv DEF CreateQueue, At
<1>5. ASSUME ReqRead(r) PROVE IInv'
  <2> DEFINE n == req[r].name
             row == machines[n]
  <2>1. /\ req[r].pc = "begin" /\ req[r].pc \in LockedPC /\ n \in Name
        /\ UNCHANGED <<machines, nextId, recon>>
    BY <1>5, PCFacts DEF ReqRead, At, TypeInv, Bound
  <2>2. CASE Return(r)
    BY <2>1, <2>2, NoRowsChanged, ReturnInv
  <2>3. CASE /\ Owned(n, req[r].user) /\ row.state \in Accepts(req[r].op)
             /\ req' = [req EXCEPT ![r] = [@ EXCEPT !.pc = "mark", !.id = row.id, !.seen = row.state]]
             /\ UNCHANGED userLocks
    <3> DEFINE rec == [req[r] EXCEPT !.pc = "mark", !.id = row.id, !.seen = row.state]
    <3>1. /\ req'[r] = rec
          /\ \A q \in Req : q # r => req'[q] = req[q]
      BY <2>3 DEF TypeInv, TypeOK
    <3>2. rec.pc = "mark" /\ rec.id = row.id /\ rec.seen = row.state /\ rec.name = n
            /\ rec.user = req[r].user
      BY <1>0 DEF Request
    <3>3. row.state # "CREATING"
      BY <1>5, <2>3 DEF ReqRead, Accepts, Transitional
    <3>4. row.owner = req[r].user /\ row.id <= nextId
      BY <2>1, <2>3 DEF Owned, IInv, RowInv
    <3>5. "mark" \in PowerPC /\ "mark" \notin ReadPC \cup ForkPC
      BY PCFacts DEF PowerPC
    <3> HIDE DEF rec
    <3>6. ReqInv(r)'
      BY <1>0, <2>1, <2>3, <3>1, <3>2, <3>3, <3>4, <3>5, PCFacts DEF ReqInv
    <3> QED
      BY <2>1, <2>3, <3>1, <3>6, NoRowsChanged, HandlerStep
  <2> QED
    BY <1>5, <2>2, <2>3 DEF ReqRead
<1> QED
  BY <1>1, <1>2, <1>3, <1>4, <1>5

\* The row that goes is its handler's own: nobody else holds the user's lock.
LEMMA DeleteInv ==
  ASSUME TypeInv, IInv, NEW r \in Req
  PROVE  /\ DeleteMark(r) => IInv'
         /\ DeleteRuntime(r) => IInv'
         /\ DeleteRuntimeError(r) => IInv'
         /\ DeleteDb(r) => IInv'
<1> USE HoldingPCs DEF At
<1>0. {"mark", "delRun", "delDb"} \subseteq PowerPC \cup DeletePC /\ machines \in [Name -> Row]
  BY PCFacts DEF TypeInv, TypeOK
<1>1. ASSUME DeleteMark(r) PROVE IInv'
  BY <1>0, <1>1, WithStateKeeps, GotoInv DEF DeleteMark
<1>2. ASSUME DeleteRuntime(r) PROVE IInv'
  BY <1>0, <1>2, CallInv DEF DeleteRuntime
<1>3. ASSUME DeleteRuntimeError(r) PROVE IInv'
  <2>1. req[r].seen # "CREATING" /\ req[r].pc \in LockedPC
    BY <1>0, <1>3 DEF DeleteRuntimeError, IInv, ReqInv
  <2>2. RowsKept
    BY <1>0, <1>3, <2>1, WithStateKeeps DEF DeleteRuntimeError
  <2> QED
    BY <1>3, <2>1, <2>2, ReturnInv DEF DeleteRuntimeError
<1>4. ASSUME DeleteDb(r) PROVE IInv'
  <2> DEFINE n == req[r].name
  <2>1. /\ req[r].pc \in HoldingPC /\ req[r].pc \in LockedPC /\ n \in Name /\ nextId \in Nat
        /\ Return(r) /\ UNCHANGED <<nextId, recon>>
    BY <1>0, <1>4, PCFacts, IdsAreNat DEF DeleteDb, TypeInv, Bound
  <2>2. CASE machines' = machines
    BY <2>1, <2>2, NoRowsChanged, ReturnInv
  <2>3. CASE machines' = [machines EXCEPT ![n] = NoRecord]
    <3>1. /\ machines'[n] = NoRecord
          /\ \A m \in Name : m # n => machines'[m] = machines[m]
      BY <1>0, <2>1, <2>3
    <3>2. /\ req'[r] = IdleReq
          /\ \A q \in Req : q # r => req'[q] = req[q]
      BY <2>1 DEF Return, TypeInv, TypeOK
    <3>3. RowInv'
      BY <2>1, <3>1 DEF IInv, RowInv, NoRecord
    <3>4. ASSUME NEW p \in Pass PROVE PassInv(p)'
      BY <2>1, <3>1, <3>4 DEF IInv, PassInv, NoRecord
    <3>5. ASSUME NEW q \in Req PROVE ReqInv(q)'
      <4>1. CASE q = r
        BY <2>1, <3>2, <4>1, PCFacts DEF ReqInv, IdleReq
      <4>2. CASE q # r
        <5>1. ReqInv(q) /\ ReqInv(r) /\ req'[q] = req[q]
          BY <3>2, <4>2 DEF IInv
        <5>2. req[q].pc \in LockedPC => req[q].user # req[r].user
          BY <2>1, <4>2, <5>1 DEF ReqInv
        <5>3. req[q].pc \in LockedPC => userLocks'[req[q].user] = userLocks[req[q].user]
          BY <2>1, <5>2 DEF Return, TypeInv, TypeOK, Bound
        <5>4. req[q].pc \in HoldingPC => req[q].name # n
          BY <2>1, <5>1, <5>2, PCFacts DEF ReqInv
        <5>5. req[q].pc \in HoldingPC \cup ReadPC => req[q].name \in Name
          BY PCFacts DEF TypeInv, Bound
        <5>6. CASE req[q].name = n
          BY <2>1, <3>1, <5>1, <5>3, <5>4, <5>6, PCFacts DEF ReqInv, NoRecord
        <5>7. CASE req[q].name # n
          BY <2>1, <3>1, <5>1, <5>3, <5>5, <5>7, PCFacts DEF ReqInv
        <5> QED
          BY <5>6, <5>7
      <4> QED
        BY <4>1, <4>2
    <3> QED
      BY <3>3, <3>4, <3>5 DEF IInv
  <2> QED
    BY <1>4, <2>2, <2>3 DEF DeleteDb
<1> QED
  BY <1>1, <1>2, <1>3, <1>4

LEMMA PowerInv ==
  ASSUME TypeInv, IInv, NEW r \in Req
  PROVE  /\ StartMark(r) \/ StartRun(r) \/ StartGuest(r) \/ StartEnv(r) \/ StartDone(r)
              \/ StartFail(r) => IInv'
         /\ StopMark(r) \/ StopRun(r) \/ StopDone(r) \/ StopFail(r) => IInv'
         /\ Refresh(r) => IInv'
         /\ Adopt(r) => IInv'
<1> USE HoldingPCs DEF At
<1>0. /\ {"mark", "startRun", "startGuest", "startEnv", "startDone", "startFail", "stopRun",
          "stopDone", "stopFail", "refresh", "adopt"} \subseteq PowerPC \cup DeletePC
      /\ "adopt" \in PowerPC
  BY PCFacts DEF PowerPC
<1>1. ASSUME StartMark(r) PROVE IInv'
  <2>1. CASE Persist(r, "STARTING", "startRun")
    BY <1>0, <1>1, <2>1, PersistInv DEF StartMark
  <2>2. CASE Return(r) /\ UNCHANGED <<machines, nextId, recon>>
    BY <1>1, <2>2, NoRowsChanged, ReturnInv DEF StartMark
  <2> QED
    BY <1>1, <2>1, <2>2 DEF StartMark
<1>2. ASSUME StartRun(r) PROVE IInv'
  BY <1>0, <1>2, CallInv DEF StartRun
<1>3. ASSUME StartGuest(r) PROVE IInv'
  BY <1>0, <1>3, CallInv DEF StartGuest
<1>4. ASSUME StartEnv(r) PROVE IInv'
  BY <1>0, <1>4, CallInv DEF StartEnv
<1>5. ASSUME StartDone(r) PROVE IInv'
  BY <1>0, <1>5, PersistInv DEF StartDone
<1>6. ASSUME StartFail(r) PROVE IInv'
  BY <1>6, PersistReturnInv DEF StartFail
<1>7. ASSUME StopMark(r) PROVE IInv'
  BY <1>0, <1>7, PersistInv DEF StopMark
<1>8. ASSUME StopRun(r) PROVE IInv'
  BY <1>0, <1>8, CallInv DEF StopRun
<1>9. ASSUME StopDone(r) PROVE IInv'
  BY <1>0, <1>9, PersistInv DEF StopDone
<1>10. ASSUME StopFail(r) PROVE IInv'
  BY <1>10, PersistReturnInv DEF StopFail
<1>11. ASSUME Refresh(r) PROVE IInv'
  <2> DEFINE live == IF req[r].op = "start" THEN "RUNNING" ELSE "STOPPED"
             rec == [req[r] EXCEPT !.pc = "adopt", !.seen = live]
  <2>1. CASE Return(r)
    BY <1>11, <2>1, NoRowsChanged, ReturnInv DEF Refresh
  <2>2. CASE req' = [req EXCEPT ![r] = [@ EXCEPT !.pc = "adopt", !.seen = live]]
               /\ UNCHANGED userLocks
    <3>1. /\ req'[r] = rec
          /\ \A q \in Req : q # r => req'[q] = req[q]
      BY <2>2 DEF TypeInv, TypeOK
    <3>2. /\ rec.pc = "adopt" /\ rec.seen # "CREATING" /\ rec.id = req[r].id
          /\ rec.name = req[r].name /\ rec.user = req[r].user
      BY DEF TypeInv, TypeOK, Request
    <3>3. "adopt" \notin ReadPC \cup ForkPC
      BY PCFacts
    <3>4. ReqInv(r) /\ req[r].pc \in PowerPC \cup DeletePC
      BY <1>0, <1>11 DEF Refresh, IInv
    <3> HIDE DEF rec
    <3>5. ReqInv(r)'
      BY <1>0, <1>11, <2>2, <3>1, <3>2, <3>3, <3>4, PCFacts DEF Refresh, ReqInv
    <3> QED
      BY <1>11, <2>2, <3>1, <3>5, NoRowsChanged, HandlerStep DEF Refresh
  <2> QED
    BY <1>11, <2>1, <2>2 DEF Refresh
<1>12. ASSUME Adopt(r) PROVE IInv'
  <2>1. req[r].seen # "CREATING"
    BY <1>0, <1>12 DEF Adopt, IInv, ReqInv
  <2> QED
    BY <1>12, <2>1, PersistReturnInv DEF Adopt
<1> QED
  BY <1>1, <1>2, <1>3, <1>4, <1>5, <1>6, <1>7, <1>8, <1>9, <1>10, <1>11, <1>12

LEMMA ForkInv ==
  ASSUME TypeInv, IInv, NEW r \in Req
  PROVE  /\ ForkRead(r) => IInv'
         /\ ForkAdmit(r) => IInv'
         /\ ForkBuild(r) => IInv'
         /\ ForkBuilt(r) => IInv'
         /\ ForkDone(r) => IInv'
         /\ ForkEnv(r) => IInv'
         /\ ForkFail(r) => IInv'
         /\ ForkMark(r) => IInv'
<1> USE HoldingPCs DEF At
<1>0. /\ {"mkdir", "store", "boot", "guest", "built", "persist", "env", "fail", "failMark"}
           \subseteq NewPC \cap ForkPC
      /\ "forkAdmit" \in PreparePC \cap ForkPC
  BY PCFacts DEF NewPC
<1>1. ASSUME ForkRead(r) PROVE IInv'
  <2>1. CASE Return(r)
    BY <1>1, <2>1, NoRowsChanged, ReturnInv DEF ForkRead
  <2>2. CASE Goto(r, "forkAdmit") /\ UNCHANGED userLocks
    <3>1. /\ req'[r] = [req[r] EXCEPT !.pc = "forkAdmit"]
          /\ \A q \in Req : q # r => req'[q] = req[q]
      BY <2>2 DEF Goto, TypeInv, TypeOK
    <3>2. req[r] \in Request /\ ReqInv(r) /\ req[r].op = "fork" /\ req[r].pc \in LockedPC
      BY <1>1, PCFacts DEF ForkRead, TypeInv, TypeOK, IInv
    <3>3. "forkAdmit" \notin HoldingPC \cup ReadPC
      BY PCFacts
    <3>4. ReqInv(r)'
      BY <1>1, <2>2, <3>1, <3>2, <3>3, PCFacts DEF ForkRead, ReqInv, Request
    <3> QED
      BY <1>1, <2>2, <3>1, <3>4, NoRowsChanged, HandlerStep DEF ForkRead
  <2> QED
    BY <1>1, <2>1, <2>2 DEF ForkRead
<1>2. ASSUME ForkAdmit(r) PROVE IInv'
  <2>1. PICK pc \in {"mkdir", "fail"} : Admit(r, pc)
    BY <1>2 DEF ForkAdmit
  <2>2. req[r].op = "fork" /\ req[r].pc \in PreparePC /\ pc \in NewPC \ {"persist"}
    BY <1>0, <1>2 DEF ForkAdmit, IInv, ReqInv
  <2> QED
    BY <2>1, <2>2, AdmitInv
<1>3. ASSUME ForkBuild(r) PROVE IInv'
  <2>1. req[r].pc \in BuildPC /\ req[r].pc \in NewPC \cap ForkPC /\ req[r].name \in Name
    BY <1>0, <1>3, PCFacts DEF ForkBuild, BuildPC, TypeInv, Bound
  <2>2. PICK out \in Building(req[r].pc, req[r].name, FALSE) :
          Call(r, [vms EXCEPT ![req[r].name] = out[1]], out[2])
    BY <1>3 DEF ForkBuild
  <2>3. out[2] \in NewPC \cap ForkPC /\ out[2] # "persist"
    <3>1. vms \in [Name -> VMState]
      BY DEF TypeInv, TypeOK
    <3>2. out[2] \in {"store", "boot", "guest", "built", "fail"}
      BY <2>1, <2>2, <3>1, BuildingType
    <3> QED
      BY <3>2 DEF NewPC, ForkPC
  <2> DEFINE built == [vms EXCEPT ![req[r].name] = out[1]]
             next == out[2]
  <2>4. Call(r, built, next) /\ next \in NewPC \cap ForkPC /\ next # "persist"
    BY <2>2, <2>3
  <2> HIDE DEF built, next
  <2>5. req[r].pc \in NewPC \cap ForkPC
    BY <2>1
  <2> QED
    BY <2>4, <2>5, CallInv
<1>8. ASSUME ForkBuilt(r) PROVE IInv'
  <2>1. PICK pc \in {"persist", "fail"} :
          req' = [req EXCEPT ![r] = [@ EXCEPT !.pc = pc, !.seen = Reported(req[r].name)]]
    BY <1>8 DEF ForkBuilt
  <2> DEFINE rec == [req[r] EXCEPT !.pc = pc, !.seen = Reported(req[r].name)]
  <2>2. /\ req'[r] = rec
        /\ \A q \in Req : q # r => req'[q] = req[q]
    BY <2>1 DEF TypeInv, TypeOK
  <2>3. /\ rec.pc = pc /\ rec.seen \in {"RUNNING", "STOPPED"} /\ rec.id = req[r].id
        /\ rec.name = req[r].name /\ rec.user = req[r].user /\ rec.op = req[r].op
    BY DEF TypeInv, TypeOK, Request, Reported
  <2>4. /\ req[r].pc \in NewPC \cap ForkPC /\ pc \in NewPC \cap ForkPC
        /\ ReqInv(r) /\ req[r].name \in Name
        /\ UNCHANGED <<machines, nextId, userLocks, recon>>
    BY <1>0, <1>8, PCFacts DEF ForkBuilt, IInv, TypeInv, Bound
  <2> HIDE DEF rec
  <2>5. ReqInv(r)'
    BY <2>2, <2>3, <2>4, PCFacts DEF ReqInv
  <2> QED
    BY <2>2, <2>4, <2>5, NoRowsChanged, HandlerStep
<1>4. ASSUME ForkDone(r) PROVE IInv'
  <2>1. req[r].pc = "persist" /\ req[r].seen # "CREATING"
    BY <1>4 DEF ForkDone, IInv, ReqInv
  <2> QED
    BY <1>0, <1>4, <2>1, PersistInv DEF ForkDone
<1>5. ASSUME ForkEnv(r) PROVE IInv'
  <2>1. CASE Return(r)
    BY <1>5, <2>1, NoRowsChanged, ReturnInv DEF ForkEnv
  <2>2. CASE Goto(r, "fail") /\ UNCHANGED userLocks
    BY <1>0, <1>5, <2>2, NoRowsChanged, GotoInv DEF ForkEnv
  <2> QED
    BY <1>5, <2>1, <2>2 DEF ForkEnv
<1>6. ASSUME ForkFail(r) PROVE IInv'
  BY <1>0, <1>6, CallInv DEF ForkFail
<1>7. ASSUME ForkMark(r) PROVE IInv'
  <2>1. RowsKept
    BY <1>7, WithStateKeeps DEF ForkMark, WithStateByName, TypeInv, TypeOK
  <2> QED
    BY <1>7, <2>1, ReturnInv DEF ForkMark
<1> QED
  BY <1>1, <1>2, <1>3, <1>4, <1>5, <1>6, <1>7, <1>8

LEMMA GetInv ==
  ASSUME TypeInv, IInv, NEW r \in Req
  PROVE  /\ GetLive(r) => IInv'
         /\ GetWrite(r) => IInv'
<1>0. nextId \in Nat /\ ReqInv(r) /\ req[r] \in Request
  BY IdsAreNat DEF IInv, TypeInv, TypeOK
<1>1. ASSUME req' = [req EXCEPT ![r] = IdleReq], RowsKept, UNCHANGED <<nextId, recon, userLocks>>
      PROVE  IInv'
  <2>1. /\ req'[r] = IdleReq
        /\ \A q \in Req : q # r => req'[q] = req[q]
    BY <1>1 DEF TypeInv, TypeOK
  <2>2. ReqInv(r)'
    BY <1>0, <1>1, <2>1, PCFacts DEF ReqInv, IdleReq
  <2> QED
    BY <1>1, <2>1, <2>2, HandlerStep
<1>2. ASSUME GetLive(r) PROVE IInv'
  <2>1. ASSUME NEW s, s # "CREATING", req[r].seen # "CREATING",
               req' = [req EXCEPT ![r] = [@ EXCEPT !.pc = "getWrite", !.seen = s]]
        PROVE  IInv'
    <3> DEFINE rec == [req[r] EXCEPT !.pc = "getWrite", !.seen = s]
    <3>1. /\ req'[r] = rec
          /\ \A q \in Req : q # r => req'[q] = req[q]
      BY <2>1 DEF TypeInv, TypeOK
    <3>2. rec.pc = "getWrite" /\ rec.seen = s /\ rec.id = req[r].id /\ rec.name = req[r].name
      BY <1>0 DEF Request
    <3>3. "getWrite" \notin LockedPC \cup ForkPC /\ req[r].pc \in ReadPC
      BY <1>2, PCFacts DEF GetLive, At
    <3> HIDE DEF rec
    <3>4. ReqInv(r)'
      BY <1>0, <1>2, <2>1, <3>1, <3>2, <3>3, PCFacts DEF GetLive, ReqInv
    <3> QED
      BY <1>2, <3>1, <3>4, NoRowsChanged, HandlerStep DEF GetLive
  <2>2. CASE req' = [req EXCEPT ![r] = IdleReq]
    BY <1>1, <1>2, <2>2, NoRowsChanged DEF GetLive
  <2>3. CASE /\ Visible(req[r].name) /\ ShouldAdopt(req[r].seen, vms[req[r].name])
             /\ req' = [req EXCEPT ![r] = [@ EXCEPT !.pc = "getWrite", !.seen = vms[req[r].name]]]
    BY <2>1, <2>3 DEF Visible, ShouldAdopt, Transitional
  <2>4. CASE /\ ~AllowsMissing(req[r].seen)
             /\ req' = [req EXCEPT ![r] = [@ EXCEPT !.pc = "getWrite", !.seen = "missing"]]
    BY <2>1, <2>4 DEF AllowsMissing
  <2> QED
    BY <1>2, <2>2, <2>3, <2>4 DEF GetLive
<1>3. ASSUME GetWrite(r) PROVE IInv'
  <2>1. req[r].seen # "CREATING"
    BY <1>0, <1>3 DEF GetWrite, At, ReqInv
  <2>2. RowsKept
    BY <1>3, <2>1, WithStateKeeps DEF GetWrite, TypeInv, TypeOK
  <2> QED
    BY <1>1, <1>3, <2>2 DEF GetWrite
<1> QED
  BY <1>2, <1>3

LEMMA JobInv ==
  ASSUME TypeInv, IInv, NEW j \in Job, JobStep(j)
  PROVE  IInv'
<1>0. machines \in [Name -> Row]
  BY DEF TypeInv, TypeOK
<1>1. CASE JobBuild(j)
  BY <1>1, NoRowsChanged, OtherStep DEF JobBuild, JobGoto
<1>2. CASE JobEnv(j)
  BY <1>2, NoRowsChanged, OtherStep DEF JobEnv, JobGoto
<1>8. CASE JobBuilt(j)
  BY <1>8, NoRowsChanged, OtherStep DEF JobBuilt
<1>3. CASE JobFinish(j)
  BY <1>3, NoRowsChanged, OtherStep DEF JobFinish
<1>4. CASE JobPersist(j)
  <2>1. job[j].live # "CREATING"
    BY DEF TypeInv, TypeOK, CreateJob
  <2> QED
    BY <1>0, <1>4, <2>1, WithStateKeeps, OtherStep DEF JobPersist, JobGoto
<1>5. CASE JobCleanup(j)
  BY <1>5, NoRowsChanged, OtherStep DEF JobCleanup, JobGoto
<1>6. CASE JobFailMark(j)
  BY <1>0, <1>6, WithStateKeeps, OtherStep DEF JobFailMark, JobGoto, WithStateByName
<1>7. CASE JobClear(j)
  BY <1>7, NoRowsChanged, OtherStep DEF JobClear
<1> QED
  BY <1>1, <1>2, <1>3, <1>4, <1>5, <1>6, <1>7, <1>8 DEF JobStep

\* A step of one pass that keeps the rows.
LEMMA PassStep ==
  ASSUME TypeInv, IInv, NEW p \in Pass, RowsKept, UNCHANGED <<nextId, userLocks, req>>,
         NEW rec, recon' = [recon EXCEPT ![p] = rec], PassInv(p)'
  PROVE  IInv'
<1>1. \A q \in Pass : q # p => recon'[q] = recon[q]
  BY DEF TypeInv, TypeOK
<1>2. \A q \in Req : ReqInv(q)'
  BY ReqStays DEF IInv
<1> QED
  BY <1>1, <1>2, RowStays, PassStays DEF IInv

\* A step that leaves what the pass has listed alone.
LEMMA PassGoesOn ==
  ASSUME TypeInv, IInv, NEW p \in Pass, UNCHANGED <<machines, nextId, userLocks, req>>,
         NEW rec \in ReconPass, rec.known = recon[p].known, recon' = [recon EXCEPT ![p] = rec]
  PROVE  IInv'
<1>1. recon'[p] = rec
  BY DEF TypeInv, TypeOK
<1>2. PassInv(p)'
  BY <1>1 DEF IInv, PassInv
<1> QED
  BY <1>2, NoRowsChanged, PassStep

LEMMA ReconInv ==
  ASSUME TypeInv, IInv, NEW p \in Pass, ReconStep(p)
  PROVE  IInv'
<1>0. recon[p] \in ReconPass /\ machines \in [Name -> Row] /\ nextId \in Nat
  BY IdsAreNat DEF TypeInv, TypeOK
<1>1. CASE ReconList(p)
  <2> DEFINE rec == [recon[p] EXCEPT !.pc = "listed", !.known = machines]
  <2>1. rec.known = machines
    BY <1>0 DEF ReconPass
  <2>2. recon' = [recon EXCEPT ![p] = rec]
    BY <1>1 DEF ReconList
  <2> HIDE DEF rec
  <2>3. recon'[p] = rec
    BY <2>2 DEF TypeInv, TypeOK
  <2>4. PassInv(p)'
    BY <1>1, <2>1, <2>3 DEF ReconList, PassInv, IInv, RowInv
  <2> QED
    BY <1>1, <2>2, <2>4, NoRowsChanged, PassStep DEF ReconList
<1>2. CASE ReconRuntime(p)
  <2> DEFINE live == [n \in Name |-> IF Visible(n) THEN vms[n] ELSE "none"]
             todo == {n \in Name : Visible(n) /\ ~Known(p, n)}
  <2>1. live \in [Name -> {"none", "STOPPED", "RUNNING"}] /\ todo \in SUBSET Name
    BY DEF Visible
  <2>2. recon' = [recon EXCEPT ![p] = [recon[p] EXCEPT !.pc = "delete", !.live = live, !.todo = todo]]
    BY <1>2 DEF ReconRuntime
  <2> HIDE DEF live, todo
  <2>3. [recon[p] EXCEPT !.pc = "delete", !.live = live, !.todo = todo] \in ReconPass
    BY <1>0, <2>1 DEF ReconPass
  <2>4. [recon[p] EXCEPT !.pc = "delete", !.live = live, !.todo = todo].known = recon[p].known
    BY <1>0 DEF ReconPass
  <2> QED
    BY <1>2, <2>2, <2>3, <2>4, PassGoesOn DEF ReconRuntime
<1>3. CASE ReconDeleted(p)
  <2> DEFINE rec == [recon[p] EXCEPT !.pc = "visit", !.todo = {n \in Name : Known(p, n)}]
  <2>1. rec \in ReconPass /\ rec.known = recon[p].known
    BY <1>0 DEF ReconPass
  <2> QED
    BY <1>3, <2>1, PassGoesOn DEF ReconDeleted
<1>4. CASE ReconEnd(p)
  <2>1. recon' = [recon EXCEPT ![p] = IdleRecon]
    BY <1>4 DEF ReconEnd
  <2>2. recon'[p] = IdleRecon
    BY <2>1 DEF TypeInv, TypeOK
  <2>3. PassInv(p)'
    BY <1>0, <1>4, <2>2 DEF ReconEnd, PassInv, IdleRecon, NoRecord, IInv, RowInv
  <2> QED
    BY <1>4, <2>1, <2>3, NoRowsChanged, PassStep DEF ReconEnd
<1>5. ASSUME NEW n \in Name, ReconDelete(p, n) PROVE IInv'
  <2> DEFINE rec == [recon[p] EXCEPT !.todo = @ \ {n}]
  <2>1. rec \in ReconPass /\ rec.known = recon[p].known
    BY <1>0 DEF ReconPass
  <2>2. recon' = [recon EXCEPT ![p] = rec]
    BY <1>5 DEF ReconDelete
  <2> HIDE DEF rec
  <2> QED
    BY <1>5, <2>1, <2>2, PassGoesOn DEF ReconDelete
<1>6. ASSUME NEW n \in Name, ReconVisit(p, n) PROVE IInv'
  <2> DEFINE rec == [recon[p] EXCEPT !.todo = @ \ {n}, !.known[n] = NoRecord, !.live[n] = "none"]
  <2>1. rec.known = [recon[p].known EXCEPT ![n] = NoRecord]
    BY <1>0 DEF ReconPass
  <2>2. recon' = [recon EXCEPT ![p] = rec]
    BY <1>6 DEF ReconVisit
  <2> HIDE DEF rec
  <2>3. recon'[p] = rec
    BY <2>2 DEF TypeInv, TypeOK
  <2>4. RowsKept
    <3>1. recon[p].live[n] # "CREATING"
      BY <1>0 DEF ReconPass
    <3> QED
      BY <1>0, <1>6, <3>1, NoRowsChanged, WithStateKeeps DEF ReconVisit
  <2>5. RowInv'
    BY <1>6, <2>4, RowStays DEF ReconVisit, IInv
  <2>6. /\ rec.known[n] = NoRecord
        /\ \A m \in Name : m # n => rec.known[m] = recon[p].known[m]
    BY <1>0, <2>1 DEF ReconPass
  <2>7. PassInv(p)'
    <3>1. nextId' = nextId
      BY <1>6 DEF ReconVisit
    <3> QED
      BY <1>0, <2>3, <2>4, <2>5, <2>6, <3>1 DEF PassInv, IInv, RowInv, RowsKept, NoRecord
  <2> QED
    BY <1>6, <2>2, <2>4, <2>7, PassStep DEF ReconVisit
<1> QED
  BY <1>1, <1>2, <1>3, <1>4, <1>5, <1>6 DEF ReconStep

LEMMA RestartInv ==
  ASSUME TypeInv, IInv, Restart
  PROVE  IInv'
<1>1. nextId \in Nat /\ UNCHANGED <<machines, nextId>>
  BY IdsAreNat DEF Restart
<1>2. ASSUME NEW r \in Req PROVE ReqInv(r)'
  <2>1. req'[r] = IdleReq
    BY DEF Restart
  <2> QED
    BY <1>1, <2>1, PCFacts DEF ReqInv, IdleReq
<1>3. ASSUME NEW p \in Pass PROVE PassInv(p)'
  <2>1. recon'[p] = IdleRecon
    BY DEF Restart
  <2> QED
    BY <1>1, <2>1 DEF PassInv, IdleRecon, NoRecord, IInv, RowInv
<1> QED
  BY <1>1, <1>2, <1>3 DEF IInv, RowInv

LEMMA InvStep == TypeInv /\ IInv /\ [Next]_vars => IInv'
<1> SUFFICES ASSUME TypeInv, IInv, [Next]_vars PROVE IInv'
  OBVIOUS
<1>1. ASSUME NEW r \in Req, NEW op \in ClientOps, NEW u \in User, NEW n \in Name,
             ReqBegin(r, op, u, n)
      PROVE  IInv'
  BY <1>1, ArrivalInv
<1>2. ASSUME NEW r \in Req, AcquireUserLock(r) PROVE IInv'
  BY <1>2, ArrivalInv
<1>3. ASSUME NEW r \in Req, ReqStep(r) PROVE IInv'
  BY <1>3, ArrivalInv, DeleteInv, PowerInv, ForkInv, GetInv DEF ReqStep
<1>4. ASSUME NEW j \in Job, JobStep(j) PROVE IInv'
  BY <1>4, JobInv
<1>5. ASSUME NEW p \in Pass, ReconStep(p) PROVE IInv'
  BY <1>5, ReconInv
<1>6. ASSUME NEW n \in Name, VMExit(n) PROVE IInv'
  BY <1>6, NoRowsChanged, OtherStep DEF VMExit
<1>7. CASE Crash \/ Reboot
  BY <1>7, RestartInv DEF Crash, Reboot
<1>8. CASE UNCHANGED vars
  BY <1>8, NoRowsChanged, OtherStep DEF vars
<1> QED
  BY <1>1, <1>2, <1>3, <1>4, <1>5, <1>6, <1>7, <1>8 DEF Next

LEMMA Invariance == Spec => [](TypeInv /\ IInv)
BY InitType, TypeStep, InitInv, InvStep, PTL DEF Spec

\* The row a handler has found or inserted stays its own until it returns: the
\* per-user mutex is enough, although reads, create jobs and reconcile passes
\* take no lock and names are reused.
THEOREM RecordOwned == Spec => []HandlerOwnsRecord
<1>1. IInv => HandlerOwnsRecord
  BY DEF IInv, ReqInv, HandlerOwnsRecord
<1> QED
  BY <1>1, Invariance, PTL

\* Two handlers never work on one machine, whoever started them: the lock is
\* per user, but a machine has one owner.
THEOREM OneHandler == Spec => []OneHandlerPerMachine
<1>1. IInv => OneHandlerPerMachine
  <2> SUFFICES ASSUME IInv, NEW r \in Req, NEW q \in Req,
                      req[r].pc \in HoldingPC, req[q].pc \in HoldingPC, req[r].name = req[q].name
               PROVE  r = q
    BY DEF OneHandlerPerMachine
  <2>1. ReqInv(r) /\ ReqInv(q)
    BY DEF IInv
  <2>2. req[r].user = req[q].user
    BY <2>1 DEF ReqInv
  <2>3. userLocks[req[r].user] = r /\ userLocks[req[q].user] = q
    BY <2>1, PCFacts DEF ReqInv
  <2> QED
    BY <2>2, <2>3
<1> QED
  BY <1>1, Invariance, PTL

-----------------------------------------------------------------------------
(* A CREATING row is changed by the end of its creation only. *)

LEMMA WithStateLocal ==
  ASSUME machines \in [Name -> Row], NEW m, NEW id, NEW s, machines' = WithState(m, id, s)
  PROVE  /\ \A n \in Name : n # m => machines'[n] = machines[n]
         /\ \A n \in Name : machines'[n] # machines[n] =>
              machines[n].id = id /\ machines'[n] = [machines[n] EXCEPT !.state = s]
BY DEF WithState, Row

LEMMA RowsUntouched == machines' = machines => CreatingIsProtected
BY DEF CreatingIsProtected

\* A handler that starts, stops or deletes touches its own row, which is
\* not CREATING.
LEMMA SettledRow ==
  ASSUME TypeInv, IInv, NEW r \in Req, req[r].pc \in PowerPC \cup DeletePC,
         \A n \in Name : n # req[r].name => machines'[n] = machines[n]
  PROVE  CreatingIsProtected
<1>1. machines[req[r].name].state # "CREATING"
  BY DEF IInv, ReqInv
<1> QED
  BY <1>1 DEF CreatingIsProtected

LEMMA SettledHandlers ==
  ASSUME TypeInv, IInv, NEW r \in Req,
         \/ DeleteMark(r) \/ DeleteRuntime(r) \/ DeleteRuntimeError(r) \/ DeleteDb(r)
         \/ StartMark(r) \/ StartRun(r) \/ StartGuest(r) \/ StartEnv(r) \/ StartDone(r)
         \/ StartFail(r) \/ StopMark(r) \/ StopRun(r) \/ StopDone(r) \/ StopFail(r)
         \/ Refresh(r) \/ Adopt(r)
  PROVE  CreatingIsProtected
<1> DEFINE n == req[r].name
<1>1. req[r].pc \in PowerPC \cup DeletePC
  BY PCFacts DEF At, DeleteMark, DeleteRuntime, DeleteRuntimeError, DeleteDb, StartMark, StartRun,
     StartGuest, StartEnv, StartDone, StartFail, StopMark, StopRun, StopDone, StopFail, Refresh, Adopt
<1>2. \/ machines' = machines
      \/ \E s \in {"DELETING", "STARTING", "STOPPING", "RUNNING", "STOPPED", req[r].seen} :
           machines' = WithState(n, req[r].id, s)
      \/ machines' = [machines EXCEPT ![n] = NoRecord]
  <2>1. CASE DeleteMark(r) \/ DeleteRuntime(r) \/ DeleteRuntimeError(r) \/ DeleteDb(r)
    BY <2>1 DEF DeleteMark, DeleteRuntime, DeleteRuntimeError, DeleteDb, Call
  <2>2. CASE StartMark(r) \/ StartRun(r) \/ StartGuest(r) \/ StartEnv(r) \/ StartDone(r)
               \/ StartFail(r)
    BY <2>2 DEF StartMark, StartRun, StartGuest, StartEnv, StartDone, StartFail, Call, Persist,
       PersistReturn
  <2>3. CASE StopMark(r) \/ StopRun(r) \/ StopDone(r) \/ StopFail(r)
    BY <2>3 DEF StopMark, StopRun, StopDone, StopFail, Call, Persist, PersistReturn
  <2>4. CASE Refresh(r) \/ Adopt(r)
    BY <2>4 DEF Refresh, Adopt, PersistReturn
  <2> QED
    BY <2>1, <2>2, <2>3, <2>4
<1>3. machines \in [Name -> Row]
  BY DEF TypeInv, TypeOK
<1>4. \A m \in Name : m # n => machines'[m] = machines[m]
  BY <1>2, <1>3, WithStateLocal
<1> QED
  BY <1>1, <1>4, SettledRow

\* Who ends the creation of the row id of name m with state s: a job that has
\* found the row, a failing job of its name, or the row's fork.
Ends(m, id, s) ==
  \/ \E j \in Job : /\ job[j].name = m
                   /\ \/ job[j].pc = "persist" /\ job[j].id = id
                      \/ job[j].pc = "failMark" /\ s = "FAILED"
  \/ \E r \in Req : req[r].name = m /\ req[r].op = "fork" /\ req[r].id = id

\* What may change a CREATING row changes it as the end of a creation does.
LEMMA CreationEnds ==
  ASSUME TypeInv, NEW m, NEW id, NEW s \in {"RUNNING", "STOPPED", "FAILED"},
         machines' = WithState(m, id, s), Ends(m, id, s)
  PROVE  CreatingIsProtected
<1>1. \A n \in Name : machines'[n] # machines[n] =>
        n = m /\ machines[n].id = id /\ machines'[n] = [machines[n] EXCEPT !.state = s]
  BY WithStateLocal DEF TypeInv, TypeOK
<1> SUFFICES ASSUME NEW n \in Name, machines'[n] # machines[n]
             PROVE  /\ machines'[n] \in {[machines[n] EXCEPT !.state = t] :
                                            t \in {"RUNNING", "STOPPED", "FAILED"}}
                    /\ \/ \E j \in Job :
                            /\ job[j].name = n
                            /\ \/ job[j].pc = "persist" /\ job[j].id = machines[n].id
                               \/ job[j].pc = "failMark" /\ machines'[n].state = "FAILED"
                       \/ \E r \in Req :
                            /\ req[r].name = n /\ req[r].op = "fork"
                            /\ req[r].id = machines[n].id
  BY DEF CreatingIsProtected
<1>2. n = m /\ machines[n].id = id /\ machines'[n] = [machines[n] EXCEPT !.state = s]
  BY <1>1
<1>3. machines'[n].state = s
  BY <1>2 DEF TypeInv, TypeOK, Row
<1>4. \/ \E j \in Job : /\ job[j].name = n
                        /\ \/ job[j].pc = "persist" /\ job[j].id = machines[n].id
                           \/ job[j].pc = "failMark" /\ machines'[n].state = "FAILED"
      \/ \E r \in Req : req[r].name = n /\ req[r].op = "fork" /\ req[r].id = machines[n].id
  BY <1>2, <1>3 DEF Ends
<1> QED
  BY <1>2, <1>4

\* A write to a row that is not CREATING.
LEMMA SettledWrite ==
  ASSUME TypeInv, NEW m, NEW id, NEW s, machines' = WithState(m, id, s),
         machines[m].id = id => machines[m].state # "CREATING"
  PROVE  CreatingIsProtected
<1>1. \A n \in Name : machines'[n] # machines[n] => n = m /\ machines[n].id = id
  BY DEF WithState, TypeInv, TypeOK
<1> QED
  BY <1>1 DEF CreatingIsProtected

LEMMA Creators ==
  ASSUME TypeInv, IInv, NEW r \in Req,
         \/ CreateAdmit(r) \/ CreateQueue(r) \/ ReqRead(r)
         \/ ForkRead(r) \/ ForkAdmit(r) \/ ForkBuild(r) \/ ForkBuilt(r) \/ ForkDone(r)
         \/ ForkEnv(r) \/ ForkFail(r) \/ ForkMark(r)
  PROVE  CreatingIsProtected
<1>1. ASSUME NEW pc, Admit(r, pc) PROVE CreatingIsProtected
  <2>1. CASE machines' = machines
    BY <2>1, RowsUntouched
  <2>2. CASE ~Exists(req[r].name) /\ Insert(req[r].name, req[r].user)
    <3>1. \A n \in Name : machines'[n] # machines[n] => machines[n].id = 0
      BY <2>2 DEF Insert, Exists, TypeInv, TypeOK
    <3>2. \A n \in Name : machines[n].id = 0 => machines[n].state # "CREATING"
      BY DEF IInv, RowInv, NoRecord
    <3> QED
      BY <3>1, <3>2 DEF CreatingIsProtected
  <2> QED
    BY <1>1, <2>1, <2>2 DEF Admit
<1>2. CASE CreateAdmit(r)
  BY <1>1, <1>2 DEF CreateAdmit
<1>3. CASE ForkAdmit(r)
  BY <1>1, <1>3 DEF ForkAdmit
<1>4. CASE ForkDone(r)
  <2>1. req[r].op = "fork" /\ req[r].seen \in {"RUNNING", "STOPPED"}
    BY <1>4, PCFacts DEF ForkDone, At, IInv, ReqInv
  <2>2. machines' = WithState(req[r].name, req[r].id, req[r].seen)
    BY <1>4 DEF ForkDone, Persist
  <2>3. Ends(req[r].name, req[r].id, req[r].seen)
    BY <2>1 DEF Ends
  <2> QED
    BY <2>1, <2>2, <2>3, CreationEnds
<1>5. CASE ForkMark(r)
  <2>1. req[r].op = "fork" /\ machines[req[r].name].id = req[r].id
    BY <1>5, PCFacts DEF ForkMark, At, IInv, ReqInv, NewPC
  <2>2. machines' = WithState(req[r].name, req[r].id, "FAILED")
    BY <1>5, <2>1 DEF ForkMark, WithStateByName
  <2>3. Ends(req[r].name, req[r].id, "FAILED")
    BY <2>1 DEF Ends
  <2> QED
    BY <2>2, <2>3, CreationEnds
<1>6. CASE \/ CreateQueue(r) \/ ReqRead(r) \/ ForkRead(r) \/ ForkBuild(r) \/ ForkBuilt(r)
           \/ ForkEnv(r) \/ ForkFail(r)
  BY <1>6, RowsUntouched
     DEF CreateQueue, ReqRead, ForkRead, ForkBuild, ForkBuilt, ForkEnv, ForkFail, Call
<1> QED
  BY <1>2, <1>3, <1>4, <1>5, <1>6

\* A reader that writes has read a row that was not CREATING, and its row is
\* still that one or has gone.
LEMMA Readers ==
  ASSUME TypeInv, IInv, NEW r \in Req, GetLive(r) \/ GetWrite(r)
  PROVE  CreatingIsProtected
<1>1. CASE GetLive(r)
  BY <1>1, RowsUntouched DEF GetLive
<1>2. CASE GetWrite(r)
  <2>1. machines' = WithState(req[r].name, req[r].id, req[r].seen)
    BY <1>2 DEF GetWrite
  <2>2. machines[req[r].name].id = req[r].id => machines[req[r].name].state # "CREATING"
    BY <1>2, PCFacts DEF GetWrite, At, IInv, ReqInv
  <2> QED
    BY <2>1, <2>2, SettledWrite
<1> QED
  BY <1>1, <1>2

LEMMA CreateJobs ==
  ASSUME TypeInv, NEW j \in Job, JobStep(j)
  PROVE  CreatingIsProtected
<1>1. CASE JobPersist(j)
  <2>1. job[j].live \in {"RUNNING", "STOPPED"}
    BY DEF TypeInv, TypeOK, CreateJob
  <2>2. Ends(job[j].name, job[j].id, job[j].live)
    BY <1>1 DEF JobPersist, Ends
  <2> QED
    BY <1>1, <2>1, <2>2, CreationEnds DEF JobPersist
<1>2. CASE JobFailMark(j)
  <2>1. Ends(job[j].name, machines[job[j].name].id, "FAILED")
    BY <1>2 DEF JobFailMark, Ends
  <2> QED
    BY <1>2, <2>1, CreationEnds DEF JobFailMark, WithStateByName
<1>3. CASE JobBuild(j) \/ JobBuilt(j) \/ JobEnv(j) \/ JobFinish(j) \/ JobCleanup(j) \/ JobClear(j)
  BY <1>3, RowsUntouched DEF JobBuild, JobBuilt, JobEnv, JobFinish, JobCleanup, JobClear
<1> QED
  BY <1>1, <1>2, <1>3 DEF JobStep

\* A pass adopts a state for rows it has listed and that were not CREATING.
LEMMA Passes ==
  ASSUME TypeInv, IInv, NEW p \in Pass, ReconStep(p)
  PROVE  CreatingIsProtected
<1>1. ASSUME NEW n \in Name, ReconVisit(p, n) PROVE CreatingIsProtected
  <2> DEFINE row == recon[p].known[n]
             live == recon[p].live[n]
  <2>1. CASE machines' = machines
    BY <2>1, RowsUntouched
  <2>2. CASE ShouldAdopt(row.state, live) /\ machines' = WithState(n, row.id, live)
    <3>1. row.state # "CREATING"
      BY <2>2 DEF ShouldAdopt, Transitional
    <3>2. machines[n].id = row.id => machines[n].state # "CREATING"
      BY <3>1 DEF IInv, PassInv
    <3> QED
      BY <2>2, <3>2, SettledWrite
  <2> QED
    BY <1>1, <2>1, <2>2 DEF ReconVisit
<1>2. CASE \/ ReconList(p) \/ ReconRuntime(p) \/ ReconDeleted(p) \/ ReconEnd(p)
           \/ \E n \in Name : ReconDelete(p, n)
  BY <1>2, RowsUntouched DEF ReconList, ReconRuntime, ReconDeleted, ReconEnd, ReconDelete
<1> QED
  BY <1>1, <1>2 DEF ReconStep

LEMMA ProtectStep == TypeInv /\ IInv /\ [Next]_vars => [CreatingIsProtected]_vars
<1> SUFFICES ASSUME TypeInv, IInv, [Next]_vars PROVE CreatingIsProtected
  OBVIOUS
<1>1. ASSUME NEW r \in Req, ReqStep(r) PROVE CreatingIsProtected
  BY <1>1, Creators, SettledHandlers, Readers DEF ReqStep
<1>2. ASSUME NEW r \in Req, NEW op \in ClientOps, NEW u \in User, NEW n \in Name,
             ReqBegin(r, op, u, n) \/ AcquireUserLock(r)
      PROVE  CreatingIsProtected
  BY <1>2, RowsUntouched DEF ReqBegin, AcquireUserLock
<1>3. ASSUME NEW j \in Job, JobStep(j) PROVE CreatingIsProtected
  BY <1>3, CreateJobs
<1>4. ASSUME NEW p \in Pass, ReconStep(p) PROVE CreatingIsProtected
  BY <1>4, Passes
<1>5. CASE \/ \E n \in Name : VMExit(n)
           \/ Crash
           \/ Reboot
           \/ UNCHANGED vars
  BY <1>5, RowsUntouched DEF VMExit, Crash, Reboot, Restart, vars
<1>6. \/ \E r \in Req : ReqStep(r)
      \/ \E r \in Req, op \in ClientOps, u \in User, n \in Name : ReqBegin(r, op, u, n)
      \/ \E r \in Req : AcquireUserLock(r)
      \/ \E j \in Job : JobStep(j)
      \/ \E p \in Pass : ReconStep(p)
      \/ \E n \in Name : VMExit(n)
      \/ Crash
      \/ Reboot
      \/ UNCHANGED vars
  BY DEF Next
<1>7. ASSUME NEW r \in Req, AcquireUserLock(r) PROVE CreatingIsProtected
  BY <1>7, RowsUntouched DEF AcquireUserLock
<1> QED
  BY <1>1, <1>2, <1>3, <1>4, <1>5, <1>6, <1>7

\* Whatever a reader or an overlapping reconcile pass has read, and however
\* long ago, it never writes to a row that is still being created.
THEOREM CreatingIsSafe == Spec => CreatingProtected
<1>1. Spec => [](TypeInv /\ IInv)
  BY Invariance
<1>2. Spec => [][Next]_vars
  BY PTL DEF Spec
<1> QED
  BY <1>1, <1>2, ProtectStep, PTL DEF CreatingProtected

-----------------------------------------------------------------------------
(* Create jobs and the map of their cancels.  JobsRegistered is inductive. *)

\* A step that moves jobs on, leaves the map alone and starts or ends none.
LEMMA JobsMove ==
  ASSUME TypeInv, JobsRegistered, createCancels' = createCancels,
         \A j \in Job : /\ job'[j].name = job[j].name
                        /\ job'[j].cancelled = job[j].cancelled
                        /\ job[j].pc # "idle" => job'[j].pc # "idle"
                        /\ job'[j].pc \notin {"idle", "clear"} =>
                             job[j].pc \notin {"idle", "clear"}
  PROVE  JobsRegistered'
<1>1. \A n \in Name : createCancels[n] # NoJob => createCancels[n] \in Job
  BY DEF TypeInv, TypeOK
<1> QED
  BY <1>1 DEF JobsRegistered

\* Whoever is registered under the name is cancelled and taken out of the map.
LEMMA JobsTaken ==
  ASSUME TypeInv, JobsRegistered, NEW n, NEW jobs \in [Job -> CreateJob],
         \A j \in Job : jobs[j] = job[j] \/ (jobs[j].pc = "idle" /\ job[j].name = n),
         TakeCancel(n, jobs)
  PROVE  JobsRegistered'
<1> DEFINE k == createCancels[n]
<1>0. /\ createCancels \in [Name -> Job \cup {NoJob}] /\ NoJob \notin Job
      /\ \A j \in Job : job[j].pc # "idle" => job[j].name \in Name
  BY ConstantsAssumption DEF TypeInv, TypeOK, Bound
<1>1. createCancels' = [createCancels EXCEPT ![n] = NoJob]
  BY DEF TakeCancel
<1>2. \A j \in Job : /\ job'[j].pc = jobs[j].pc
                     /\ job'[j].name = jobs[j].name
                     /\ job'[j].cancelled = (jobs[j].cancelled \/ (j = k /\ jobs[j].pc # "idle"))
  <2>1. CASE k \in Job /\ jobs[k].pc # "idle"
    <3>1. job' = [jobs EXCEPT ![k].cancelled = TRUE]
      BY <2>1 DEF TakeCancel
    <3> QED
      BY <2>1, <3>1 DEF CreateJob
  <2>2. CASE ~(k \in Job /\ jobs[k].pc # "idle")
    <3>1. job' = jobs
      BY <2>2 DEF TakeCancel
    <3>2. \A j \in Job : ~(j = k /\ jobs[j].pc # "idle") /\ jobs[j].cancelled \in BOOLEAN
      BY <2>2 DEF CreateJob
    <3> QED
      BY <3>1, <3>2
  <2> QED
    BY <2>1, <2>2
<1>3. ASSUME NEW j \in Job, job'[j].pc \notin {"idle", "clear"}, ~job'[j].cancelled
      PROVE  createCancels'[job'[j].name] = j
  <2>1. jobs[j] = job[j] /\ j # k /\ ~job[j].cancelled
    BY <1>2, <1>3
  <2>2. createCancels[job[j].name] = j /\ job[j].name \in Name
    BY <1>0, <1>2, <1>3, <2>1 DEF JobsRegistered
  <2>3. job[j].name # n
    BY <2>1, <2>2
  <2> QED
    BY <1>0, <1>1, <1>2, <2>1, <2>2, <2>3
<1>4. ASSUME NEW m \in Name, createCancels'[m] # NoJob
      PROVE  job'[createCancels'[m]].pc # "idle" /\ job'[createCancels'[m]].name = m
  <2>1. m # n /\ createCancels'[m] = createCancels[m] /\ createCancels[m] \in Job
    BY <1>0, <1>1, <1>4
  <2>2. job[createCancels[m]].pc # "idle" /\ job[createCancels[m]].name = m
    BY <1>4, <2>1 DEF JobsRegistered
  <2>3. jobs[createCancels[m]] = job[createCancels[m]]
    BY <2>1, <2>2
  <2> QED
    BY <1>2, <2>1, <2>2, <2>3
<1> QED
  BY <1>3, <1>4 DEF JobsRegistered

\* Only a name without a job is queued, and for a slot no job has.
LEMMA JobsQueued ==
  ASSUME TypeInv, JobsRegistered, NEW n \in Name, Queue(n)
  PROVE  JobsRegistered'
<1>0. /\ createCancels \in [Name -> Job \cup {NoJob}] /\ NoJob \notin Job
      /\ job \in [Job -> CreateJob]
      /\ \A j \in Job : job[j].pc # "idle" => job[j].name \in Name
  BY ConstantsAssumption DEF TypeInv, TypeOK, Bound
<1>1. CASE UNCHANGED <<createCancels, job>>
  BY <1>1, JobsMove
<1>2. ASSUME NEW j \in Job, NEW pc \in {"mkdir", "fail"}, createCancels[n] = NoJob,
             job[j].pc = "idle",
             createCancels' = [createCancels EXCEPT ![n] = j],
             job' = [job EXCEPT ![j] = [pc |-> pc, name |-> n, id |-> 0, cancelled |-> FALSE,
                                          live |-> "STOPPED"]]
      PROVE  JobsRegistered'
  <2>1. /\ job'[j].pc = pc /\ job'[j].name = n /\ createCancels'[n] = j
        /\ \A i \in Job : i # j => job'[i] = job[i]
        /\ \A m \in Name : m # n => createCancels'[m] = createCancels[m]
    BY <1>0, <1>2
  <2>2. ASSUME NEW i \in Job, job'[i].pc \notin {"idle", "clear"}, ~job'[i].cancelled
        PROVE  createCancels'[job'[i].name] = i
    <3>1. CASE i = j
      BY <2>1, <3>1
    <3>2. CASE i # j
      <4>1. createCancels[job[i].name] = i /\ job[i].name \in Name
        BY <1>0, <2>1, <2>2, <3>2 DEF JobsRegistered
      <4>2. job[i].name # n
        BY <1>0, <1>2, <4>1
      <4> QED
        BY <2>1, <3>2, <4>1, <4>2
    <3> QED
      BY <3>1, <3>2
  <2>3. ASSUME NEW m \in Name, createCancels'[m] # NoJob
        PROVE  job'[createCancels'[m]].pc # "idle" /\ job'[createCancels'[m]].name = m
    <3>1. CASE m = n
      BY <1>2, <2>1, <3>1
    <3>2. CASE m # n
      <4>1. createCancels'[m] = createCancels[m] /\ createCancels[m] \in Job
        BY <1>0, <2>1, <2>3, <3>2
      <4>2. job[createCancels[m]].pc # "idle" /\ job[createCancels[m]].name = m
        BY <2>3, <4>1 DEF JobsRegistered
      <4> QED
        BY <1>2, <2>1, <4>1, <4>2
    <3> QED
      BY <3>1, <3>2
  <2> QED
    BY <2>2, <2>3 DEF JobsRegistered
<1> QED
  BY <1>1, <1>2 DEF Queue

LEMMA JobsStep == TypeInv /\ JobsRegistered /\ [Next]_vars => JobsRegistered'
<1> SUFFICES ASSUME TypeInv, JobsRegistered, [Next]_vars PROVE JobsRegistered'
  OBVIOUS
<1>0. job \in [Job -> CreateJob]
  BY DEF TypeInv, TypeOK
<1>1. ASSUME UNCHANGED <<createCancels, job>> PROVE JobsRegistered'
  BY <1>1, JobsMove
<1>2. ASSUME NEW n, TakeCancel(n, job) PROVE JobsRegistered'
  BY <1>0, <1>2, JobsTaken
<1>3. ASSUME NEW r \in Req, ReqStep(r) PROVE JobsRegistered'
  <2>1. CASE CreateQueue(r)
    <3>1. req[r].name \in Name
      BY <2>1 DEF CreateQueue, At, TypeInv, Bound
    <3> QED
      BY <2>1, <3>1, JobsQueued DEF CreateQueue
  <2>2. CASE ReqRead(r)
    BY <1>1, <1>2, <2>2 DEF ReqRead
  <2>3. CASE CreateAdmit(r) \/ ForkAdmit(r)
    BY <1>1, <2>3 DEF CreateAdmit, ForkAdmit, Admit
  <2>4. CASE DeleteMark(r) \/ DeleteRuntime(r) \/ DeleteRuntimeError(r) \/ DeleteDb(r)
    BY <1>1, <2>4 DEF DeleteMark, DeleteRuntime, DeleteRuntimeError, DeleteDb, Call
  <2>5. CASE StartMark(r) \/ StartRun(r) \/ StartGuest(r) \/ StartEnv(r) \/ StartDone(r)
               \/ StartFail(r)
    BY <1>1, <2>5 DEF StartMark, StartRun, StartGuest, StartEnv, StartDone, StartFail, Call,
                      Persist, PersistReturn
  <2>6. CASE StopMark(r) \/ StopRun(r) \/ StopDone(r) \/ StopFail(r) \/ Refresh(r) \/ Adopt(r)
    BY <1>1, <2>6 DEF StopMark, StopRun, StopDone, StopFail, Refresh, Adopt, Call, Persist,
                      PersistReturn
  <2>7. CASE \/ ForkRead(r) \/ ForkBuild(r) \/ ForkBuilt(r) \/ ForkDone(r) \/ ForkEnv(r)
             \/ ForkFail(r) \/ ForkMark(r)
    BY <1>1, <2>7 DEF ForkRead, ForkBuild, ForkBuilt, ForkDone, ForkEnv, ForkFail, ForkMark, Call,
                      Persist
  <2>8. CASE GetLive(r) \/ GetWrite(r)
    BY <1>1, <2>8 DEF GetLive, GetWrite
  <2> QED
    BY <1>3, <2>1, <2>2, <2>3, <2>4, <2>5, <2>6, <2>7, <2>8 DEF ReqStep
<1>4. ASSUME NEW j \in Job, JobStep(j) PROVE JobsRegistered'
  <2>1. ASSUME NEW rec, job' = [job EXCEPT ![j] = rec], createCancels' = createCancels,
               rec.name = job[j].name, rec.cancelled = job[j].cancelled, rec.pc # "idle",
               job[j].pc \notin {"idle", "clear"}
        PROVE  JobsRegistered'
    <3>1. \A i \in Job : /\ job'[i].name = job[i].name
                         /\ job'[i].cancelled = job[i].cancelled
                         /\ job[i].pc # "idle" => job'[i].pc # "idle"
                         /\ job'[i].pc \notin {"idle", "clear"} =>
                              job[i].pc \notin {"idle", "clear"}
      BY <1>0, <2>1
    <3> QED
      BY <2>1, <3>1, JobsMove
  <2>2. ASSUME NEW pc, pc # "idle", JobGoto(j, pc), job[j].pc \notin {"idle", "clear"}
        PROVE  JobsRegistered'
    <3> DEFINE rec == [job[j] EXCEPT !.pc = pc]
    <3>1. job' = [job EXCEPT ![j] = rec] /\ createCancels' = createCancels
      BY <2>2 DEF JobGoto
    <3>2. rec.name = job[j].name /\ rec.cancelled = job[j].cancelled /\ rec.pc = pc
      BY <1>0 DEF CreateJob
    <3> HIDE DEF rec
    <3> QED
      BY <2>1, <2>2, <3>1, <3>2
  <2>3. CASE JobBuild(j)
    <3>1. job[j].pc \in BuildPC /\ job[j].pc \notin {"idle", "clear"}
      BY <2>3 DEF JobBuild, BuildPC
    <3>2. PICK out \in Building(job[j].pc, job[j].name, job[j].cancelled) : JobGoto(j, out[2])
      BY <2>3 DEF JobBuild
    <3>3. out[2] # "idle"
      <4>1. job[j].pc # "idle" /\ job[j].name \in Name /\ vms \in [Name -> VMState]
        BY <3>1 DEF TypeInv, TypeOK, Bound
      <4> QED
        BY <3>1, <3>2, <4>1 DEF Building, BuildPC
    <3> QED
      BY <2>2, <3>1, <3>2, <3>3
  <2>4. CASE JobEnv(j) \/ JobPersist(j) \/ JobCleanup(j) \/ JobFailMark(j)
    BY <2>2, <2>4 DEF JobEnv, JobPersist, JobCleanup, JobFailMark
  <2>5. CASE JobFinish(j)
    <3>1. CASE Exists(job[j].name)
      <4> DEFINE rec == [job[j] EXCEPT !.pc = "persist", !.id = machines[job[j].name].id]
      <4>1. /\ job' = [job EXCEPT ![j] = rec] /\ createCancels' = createCancels
            /\ job[j].pc = "finish"
        BY <2>5, <3>1 DEF JobFinish
      <4>2. rec.name = job[j].name /\ rec.cancelled = job[j].cancelled /\ rec.pc = "persist"
        BY <1>0 DEF CreateJob
      <4> HIDE DEF rec
      <4> QED
        BY <2>1, <4>1, <4>2
    <3>2. CASE ~Exists(job[j].name)
      <4>1. JobGoto(j, "cleanup") /\ job[j].pc = "finish"
        BY <2>5, <3>2 DEF JobFinish, JobGoto
      <4> QED
        BY <2>2, <4>1
    <3> QED
      BY <3>1, <3>2
  <2>6. CASE JobClear(j)
    <3> DEFINE jobs == [job EXCEPT ![j] = IdleJob]
    <3>1. TakeCancel(job[j].name, jobs)
      BY <2>6 DEF JobClear
    <3>2. IdleJob \in CreateJob /\ IdleJob.pc = "idle"
      BY ConstantsAssumption DEF IdleJob, CreateJob, JobPC
    <3>3. jobs \in [Job -> CreateJob]
      BY <1>0, <3>2
    <3>4. \A i \in Job : jobs[i] = job[i] \/ (jobs[i].pc = "idle" /\ job[i].name = job[j].name)
      BY <1>0, <3>2
    <3> HIDE DEF jobs
    <3> QED
      BY <3>1, <3>3, <3>4, JobsTaken
  <2>7. CASE JobBuilt(j)
    <3> DEFINE rec == [job[j] EXCEPT !.pc = "env", !.live = Reported(job[j].name)]
    <3>1. job' = [job EXCEPT ![j] = rec] /\ createCancels' = createCancels /\ job[j].pc = "built"
      BY <2>7 DEF JobBuilt
    <3>2. rec.name = job[j].name /\ rec.cancelled = job[j].cancelled /\ rec.pc = "env"
      BY <1>0 DEF CreateJob
    <3> HIDE DEF rec
    <3> QED
      BY <2>1, <3>1, <3>2
  <2> QED
    BY <1>4, <2>3, <2>4, <2>5, <2>6, <2>7 DEF JobStep
<1>5. ASSUME NEW p \in Pass, ReconStep(p) PROVE JobsRegistered'
  <2>1. ASSUME NEW n \in Name, ReconVisit(p, n) PROVE JobsRegistered'
    BY <1>1, <2>1, JobsQueued DEF ReconVisit
  <2>2. CASE \/ ReconList(p) \/ ReconRuntime(p) \/ ReconDeleted(p) \/ ReconEnd(p)
             \/ \E n \in Name : ReconDelete(p, n)
    BY <1>1, <2>2 DEF ReconList, ReconRuntime, ReconDeleted, ReconEnd, ReconDelete
  <2> QED
    BY <1>5, <2>1, <2>2 DEF ReconStep
<1>6. CASE Crash \/ Reboot
  <2>1. /\ \A n \in Name : createCancels'[n] = NoJob
        /\ \A j \in Job : job'[j].pc = "idle"
    BY <1>6 DEF Crash, Reboot, Restart, IdleJob
  <2> QED
    BY <2>1 DEF JobsRegistered
<1>7. CASE \/ \E r \in Req, op \in ClientOps, u \in User, n \in Name : ReqBegin(r, op, u, n)
           \/ \E r \in Req : AcquireUserLock(r)
           \/ \E n \in Name : VMExit(n)
           \/ UNCHANGED vars
  BY <1>1, <1>7 DEF ReqBegin, AcquireUserLock, VMExit, vars
<1> QED
  BY <1>3, <1>4, <1>5, <1>6, <1>7 DEF Next

\* A create job that runs can be cancelled by name, and no job is registered
\* that does not run, although clearCreateCancel takes out whichever job the
\* name has and deletes, passes and other creates use the map in between.
THEOREM JobsAreRegistered == Spec => []JobsRegistered
<1>1. Init => JobsRegistered
  BY DEF Init, JobsRegistered, IdleJob
<1> QED
  BY <1>1, InitType, TypeStep, JobsStep, PTL DEF Spec

-----------------------------------------------------------------------------
(* Bare directories *)

\* Somebody is about to store the metadata of the name.
Builder(n) ==
  \/ \E j \in Job : job[j].pc = "store" /\ job[j].name = n
  \/ \E r \in Req : req[r].pc = "store" /\ req[r].name = n

LEMMA BareMeans ==
  BareDirHasBuilder <=> (crashes = 0 => \A n \in Name : vms[n] = "dir" => Builder(n))
BY DEF BareDirHasBuilder, Builder

\* A builder's step: what it does to its own name, and that the others stay.
LEMMA BareBuild ==
  ASSUME BareDirHasBuilder, crashes' = crashes, NEW m,
         \A n \in Name : n # m => vms'[n] = vms[n] /\ (Builder(n) => Builder(n)'),
         vms'[m] = "dir" => Builder(m)' \/ (vms[m] = "dir" /\ (Builder(m) => Builder(m)'))
  PROVE  BareDirHasBuilder'
<1>1. crashes = 0 => \A n \in Name : vms[n] = "dir" => Builder(n)
  BY BareMeans
<1>2. crashes' = 0 => \A n \in Name : vms'[n] = "dir" => Builder(n)'
  BY <1>1
<1>3. BareDirHasBuilder' <=> (crashes' = 0 => \A n \in Name : vms'[n] = "dir" => Builder(n)')
  BY DEF BareDirHasBuilder, Builder
<1> QED
  BY <1>2, <1>3

\* A step that makes no directory and leaves those who fill one where they are.
LEMMA BareKept ==
  ASSUME BareDirHasBuilder, crashes' = crashes,
         \A n \in Name : vms'[n] = "dir" => vms[n] = "dir",
         \A j \in Job : job[j].pc = "store" => job'[j].pc = "store" /\ job'[j].name = job[j].name,
         \A r \in Req : req[r].pc = "store" => req'[r].pc = "store" /\ req'[r].name = req[r].name
  PROVE  BareDirHasBuilder'
<1>1. \A n \in Name : Builder(n) => Builder(n)'
  BY DEF Builder
<1> QED
  BY <1>1 DEF BareDirHasBuilder, Builder

\* Only mkdir makes one, and goes on to fill it.
LEMMA BuildingDir ==
  ASSUME NEW pc \in BuildPC, NEW n, NEW c \in BOOLEAN, NEW out \in Building(pc, n, c)
  PROVE  /\ pc = "mkdir" => out = <<"dir", "store">> \/ out = <<vms[n], "fail">>
         /\ pc # "mkdir" => out[1] # "dir"
<1>1. CASE pc = "mkdir"
  BY <1>1 DEF Building, BuildPC
<1>2. CASE pc = "store"
  BY <1>2 DEF Building, BuildPC
<1>3. CASE pc = "boot"
  BY <1>3 DEF Building, BuildPC
<1>4. CASE pc = "guest"
  BY <1>4 DEF Building, BuildPC
<1> QED
  BY <1>1, <1>2, <1>3, <1>4 DEF BuildPC

LEMMA CallsBare ==
  ASSUME vms \in [Name -> VMState], NEW m
  PROVE  /\ \A n \in Name : Deleted(m)[n] = "dir" => vms[n] = "dir"
         /\ \A n \in Name : Halted(m)[n] = "dir" => vms[n] = "dir"
         /\ \A v \in Failing(m), n \in Name : v[n] = "dir" => vms[n] = "dir"
BY DEF Deleted, Halted, Failing, Visible

\* A handler that is not storing metadata itself.
LEMMA BareHandler ==
  ASSUME TypeInv, BareDirHasBuilder, NEW r \in Req, req[r].pc # "store",
         \A n \in Name : vms'[n] = "dir" => vms[n] = "dir",
         \A j \in Job : job[j].pc = "store" => job'[j].pc = "store" /\ job'[j].name = job[j].name,
         \A q \in Req : q # r => req'[q] = req[q],
         crashes' = crashes
  PROVE  BareDirHasBuilder'
BY BareKept

LEMMA BareReq ==
  ASSUME TypeInv, BareDirHasBuilder, NEW r \in Req, ReqStep(r)
  PROVE  BareDirHasBuilder'
<1>0. /\ req \in [Req -> Request] /\ vms \in [Name -> VMState]
      /\ job \in [Job -> CreateJob] /\ createCancels \in [Name -> Job \cup {NoJob}]
  BY DEF TypeInv, TypeOK
<1>1. ASSUME NEW pc, Goto(r, pc) \/ Return(r) PROVE \A q \in Req : q # r => req'[q] = req[q]
  BY <1>0, <1>1 DEF Goto, Return
<1>2. ASSUME req[r].pc # "store", vms' = vms, job' = job, crashes' = crashes,
             \A q \in Req : q # r => req'[q] = req[q]
      PROVE  BareDirHasBuilder'
  BY <1>2, BareHandler
<1>3. ASSUME NEW v, NEW pc, Call(r, v, pc), req[r].pc # "store",
             \A n \in Name : v[n] = "dir" => vms[n] = "dir"
      PROVE  BareDirHasBuilder'
  <2>1. vms' = v /\ job' = job /\ crashes' = crashes /\ Goto(r, pc)
    BY <1>3 DEF Call
  <2>2. \A q \in Req : q # r => req'[q] = req[q]
    BY <1>1, <2>1
  <2> QED
    BY <1>3, <2>1, <2>2, BareHandler
<1>4. ASSUME NEW s, NEW pc, Persist(r, s, pc) \/ PersistReturn(r, s), req[r].pc # "store"
      PROVE  BareDirHasBuilder'
  <2>1. vms' = vms /\ job' = job /\ crashes' = crashes /\ (Goto(r, pc) \/ Return(r))
    BY <1>4 DEF Persist, PersistReturn
  <2> QED
    BY <1>1, <1>2, <1>4, <2>1
<1>5. CASE CreateAdmit(r) \/ ForkAdmit(r)
  <2>1. PICK pc : Admit(r, pc)
    BY <1>5 DEF CreateAdmit, ForkAdmit
  <2>2. req[r].pc # "store"
    BY <1>5 DEF CreateAdmit, ForkAdmit, At
  <2>3. \A q \in Req : q # r => req'[q] = req[q]
    BY <1>0, <2>1 DEF Admit, Return
  <2> QED
    BY <1>2, <2>1, <2>2, <2>3 DEF Admit
<1>6. CASE CreateQueue(r)
  <2>1. req[r].pc # "store" /\ Return(r) /\ vms' = vms /\ crashes' = crashes /\ Queue(req[r].name)
    BY <1>6 DEF CreateQueue, At
  <2>2. \A j \in Job : job[j].pc = "store" => job'[j] = job[j]
    BY <1>0, <2>1 DEF Queue
  <2>3. \A q \in Req : q # r => req'[q] = req[q]
    BY <1>1, <2>1
  <2> QED
    BY <2>1, <2>2, <2>3, BareHandler
<1>7. CASE ReqRead(r)
  <2>1. req[r].pc # "store" /\ vms' = vms /\ crashes' = crashes
    BY <1>7 DEF ReqRead, At
  <2>2. TakeCancel(req[r].name, job) \/ job' = job
    BY <1>7 DEF ReqRead
  <2>3. \A j \in Job : job'[j].pc = job[j].pc /\ job'[j].name = job[j].name
    BY <1>0, <2>2 DEF TakeCancel, CreateJob
  <2>4. \A q \in Req : q # r => req'[q] = req[q]
    BY <1>0, <1>7 DEF ReqRead, Return
  <2> QED
    BY <2>1, <2>3, <2>4, BareHandler
<1>8. CASE DeleteMark(r) \/ DeleteDb(r)
  <2>1. req[r].pc # "store" /\ vms' = vms /\ job' = job /\ crashes' = crashes
    BY <1>8 DEF DeleteMark, DeleteDb, At
  <2>2. Goto(r, "delRun") \/ Return(r)
    BY <1>8 DEF DeleteMark, DeleteDb
  <2> QED
    BY <1>1, <1>2, <2>1, <2>2
<1>9. CASE DeleteRuntime(r)
  BY <1>0, <1>3, <1>9, CallsBare DEF DeleteRuntime, At
<1>10. CASE DeleteRuntimeError(r)
  <2>1. req[r].pc # "store" /\ job' = job /\ crashes' = crashes /\ Return(r)
    BY <1>10 DEF DeleteRuntimeError, At
  <2>2. vms' \in Failing(req[r].name)
    BY <1>10 DEF DeleteRuntimeError
  <2>3. \A n \in Name : vms'[n] = "dir" => vms[n] = "dir"
    BY <1>0, <2>2, CallsBare
  <2>4. \A q \in Req : q # r => req'[q] = req[q]
    BY <1>1, <2>1
  <2> QED
    BY <2>1, <2>3, <2>4, BareHandler
<1>11. CASE StartMark(r)
  <2>1. req[r].pc # "store"
    BY <1>11 DEF StartMark, At
  <2>2. CASE Persist(r, "STARTING", "startRun")
    BY <1>4, <2>1, <2>2
  <2>3. CASE Return(r) /\ vms' = vms /\ job' = job /\ crashes' = crashes
    BY <1>1, <1>2, <2>1, <2>3
  <2> QED
    BY <1>11, <2>2, <2>3 DEF StartMark
<1>12. CASE StartRun(r)
  <2>1. req[r].pc # "store"
    BY <1>12 DEF StartRun, At
  <2>2. \A n \in Name : [vms EXCEPT ![req[r].name] = "RUNNING"][n] = "dir" => vms[n] = "dir"
    BY <1>0
  <2> QED
    BY <1>3, <1>12, <2>1, <2>2 DEF StartRun
<1>13. CASE StartGuest(r) \/ StartEnv(r)
  <2>1. req[r].pc # "store"
    BY <1>13 DEF StartGuest, StartEnv, At
  <2>2. PICK v \in {vms, Halted(req[r].name)} \cup Failing(req[r].name), pc \in {"startEnv", "startFail", "startDone"} :
          Call(r, v, pc)
    BY <1>13 DEF StartGuest, StartEnv
  <2>3. \A n \in Name : v[n] = "dir" => vms[n] = "dir"
    BY <1>0, <2>2, CallsBare
  <2> QED
    BY <1>3, <2>1, <2>2, <2>3
<1>14. CASE StartDone(r) \/ StartFail(r) \/ StopMark(r) \/ StopDone(r) \/ StopFail(r) \/ Adopt(r)
  <2>1. req[r].pc # "store"
    BY <1>14 DEF StartDone, StartFail, StopMark, StopDone, StopFail, Adopt, At
  <2> QED
    BY <1>4, <1>14, <2>1 DEF StartDone, StartFail, StopMark, StopDone, StopFail, Adopt
<1>15. CASE StopRun(r)
  <2>1. req[r].pc # "store"
    BY <1>15 DEF StopRun, At
  <2>2. PICK v \in {vms, Halted(req[r].name)} \cup Failing(req[r].name), pc \in {"stopDone", "stopFail"} :
          Call(r, v, pc)
    BY <1>15 DEF StopRun
  <2>3. \A n \in Name : v[n] = "dir" => vms[n] = "dir"
    BY <1>0, <2>2, CallsBare
  <2> QED
    BY <1>3, <2>1, <2>2, <2>3
<1>16. CASE Refresh(r) \/ ForkRead(r) \/ ForkBuilt(r) \/ ForkEnv(r)
  <2>1. req[r].pc # "store" /\ vms' = vms /\ job' = job /\ crashes' = crashes
    BY <1>16 DEF Refresh, ForkRead, ForkBuilt, ForkEnv, At
  <2>2. \A q \in Req : q # r => req'[q] = req[q]
    BY <1>0, <1>16 DEF Refresh, ForkRead, ForkBuilt, ForkEnv, Goto, Return
  <2> QED
    BY <1>2, <2>1, <2>2
<1>17. CASE ForkBuild(r)
  <2>0. PICK m : m = req[r].name
    OBVIOUS
  <2>1. req[r].pc \in BuildPC /\ m \in Name
    BY <1>17, <2>0 DEF ForkBuild, BuildPC, TypeInv, Bound
  <2>2. PICK out \in Building(req[r].pc, m, FALSE) : Call(r, [vms EXCEPT ![m] = out[1]], out[2])
    BY <1>17, <2>0 DEF ForkBuild
  <2>3. /\ req[r].pc = "mkdir" => out = <<"dir", "store">> \/ out = <<vms[m], "fail">>
        /\ req[r].pc # "mkdir" => out[1] # "dir"
    BY <2>1, <2>2, BuildingDir
  <2>4. /\ vms' = [vms EXCEPT ![m] = out[1]] /\ req' = [req EXCEPT ![r].pc = out[2]]
        /\ job' = job /\ crashes' = crashes
    BY <2>0, <2>2 DEF Call, Goto
  <2>5. /\ req'[r].pc = out[2] /\ req'[r].name = m
        /\ \A q \in Req : q # r => req'[q] = req[q]
    BY <1>0, <2>0, <2>4 DEF Request
  <2>6. vms'[m] = out[1] /\ \A n \in Name : n # m => vms'[n] = vms[n]
    BY <1>0, <2>1, <2>4
  <2>7. \A n \in Name : n # m => vms'[n] = vms[n] /\ (Builder(n) => Builder(n)')
    <3>1. \A n \in Name : n # m /\ Builder(n) => Builder(n)'
      BY <2>0, <2>4, <2>5 DEF Builder
    <3> QED
      BY <2>6, <3>1
  <2>8. vms'[m] = "dir" => Builder(m)' \/ (vms[m] = "dir" /\ (Builder(m) => Builder(m)'))
    <3>1. CASE out = <<"dir", "store">>
      BY <2>5, <3>1 DEF Builder
    <3>2. CASE out = <<vms[m], "fail">> /\ req[r].pc = "mkdir"
      <4>1. Builder(m) => Builder(m)'
        BY <2>4, <2>5, <3>2 DEF Builder
      <4> QED
        BY <2>6, <3>2, <4>1
    <3> QED
      BY <2>3, <2>6, <3>1, <3>2
  <2> QED
    BY <2>4, <2>7, <2>8, BareBuild
<1>18. CASE ForkDone(r)
  BY <1>4, <1>18 DEF ForkDone, At
<1>19. CASE ForkFail(r)
  <2>1. req[r].pc # "store"
    BY <1>19 DEF ForkFail, At
  <2>2. PICK v \in {Deleted(req[r].name)} \cup Failing(req[r].name) : Call(r, v, "failMark")
    BY <1>19 DEF ForkFail
  <2>3. \A n \in Name : v[n] = "dir" => vms[n] = "dir"
    BY <1>0, <2>2, CallsBare
  <2> QED
    BY <1>3, <2>1, <2>2, <2>3
<1>20. CASE ForkMark(r)
  <2>1. req[r].pc # "store" /\ vms' = vms /\ job' = job /\ crashes' = crashes /\ Return(r)
    BY <1>20 DEF ForkMark, At
  <2> QED
    BY <1>1, <1>2, <2>1
<1>21. CASE GetLive(r) \/ GetWrite(r)
  <2>1. req[r].pc # "store" /\ vms' = vms /\ job' = job /\ crashes' = crashes
    BY <1>21 DEF GetLive, GetWrite, At
  <2>2. \A q \in Req : q # r => req'[q] = req[q]
    BY <1>0, <1>21 DEF GetLive, GetWrite
  <2> QED
    BY <1>2, <2>1, <2>2
<1> QED
  BY <1>5, <1>6, <1>7, <1>8, <1>9, <1>10, <1>11, <1>12, <1>13, <1>14, <1>15, <1>16, <1>17,
     <1>18, <1>19, <1>20, <1>21 DEF ReqStep

LEMMA BareJob ==
  ASSUME TypeInv, BareDirHasBuilder, NEW j \in Job, JobStep(j)
  PROVE  BareDirHasBuilder'
<1>0. /\ vms \in [Name -> VMState] /\ job \in [Job -> CreateJob]
      /\ createCancels \in [Name -> Job \cup {NoJob}]
  BY DEF TypeInv, TypeOK
<1>1. ASSUME job[j].pc # "store", req' = req, crashes' = crashes,
             \A n \in Name : vms'[n] = "dir" => vms[n] = "dir",
             \A i \in Job : i # j => job'[i].pc = job[i].pc /\ job'[i].name = job[i].name
      PROVE  BareDirHasBuilder'
  BY <1>1, BareKept
<1>2. ASSUME NEW pc, JobGoto(j, pc)
      PROVE  /\ \A i \in Job : i # j => job'[i] = job[i]
             /\ job'[j].pc = pc /\ job'[j].name = job[j].name
             /\ req' = req /\ crashes' = crashes
  BY <1>0, <1>2 DEF JobGoto, CreateJob
<1>3. CASE JobBuild(j)
  <2>0. PICK m : m = job[j].name
    OBVIOUS
  <2>1. job[j].pc \in BuildPC /\ m \in Name /\ job[j].cancelled \in BOOLEAN
    BY <1>0, <1>3, <2>0 DEF JobBuild, BuildPC, TypeInv, Bound, CreateJob
  <2>2. PICK out \in Building(job[j].pc, m, job[j].cancelled) :
          vms' = [vms EXCEPT ![m] = out[1]] /\ JobGoto(j, out[2])
    BY <1>3, <2>0 DEF JobBuild
  <2>3. /\ job[j].pc = "mkdir" => out = <<"dir", "store">> \/ out = <<vms[m], "fail">>
        /\ job[j].pc # "mkdir" => out[1] # "dir"
    BY <2>1, <2>2, BuildingDir
  <2>4. /\ job'[j].pc = out[2] /\ job'[j].name = m
        /\ \A i \in Job : i # j => job'[i] = job[i]
        /\ req' = req /\ crashes' = crashes
    BY <1>2, <2>0, <2>2
  <2>5. vms'[m] = out[1] /\ \A n \in Name : n # m => vms'[n] = vms[n]
    BY <1>0, <2>1, <2>2
  <2>6. \A n \in Name : n # m => vms'[n] = vms[n] /\ (Builder(n) => Builder(n)')
    <3>1. \A n \in Name : n # m /\ Builder(n) => Builder(n)'
      BY <2>0, <2>4 DEF Builder
    <3> QED
      BY <2>5, <3>1
  <2>7. vms'[m] = "dir" => Builder(m)' \/ (vms[m] = "dir" /\ (Builder(m) => Builder(m)'))
    <3>1. CASE out = <<"dir", "store">>
      BY <2>4, <3>1 DEF Builder
    <3>2. CASE out = <<vms[m], "fail">> /\ job[j].pc = "mkdir"
      <4>1. Builder(m) => Builder(m)'
        BY <2>4, <3>2 DEF Builder
      <4> QED
        BY <2>5, <3>2, <4>1
    <3> QED
      BY <2>3, <2>5, <3>1, <3>2
  <2> QED
    BY <2>4, <2>6, <2>7, BareBuild
<1>4. CASE JobEnv(j) \/ JobPersist(j) \/ JobFailMark(j)
  <2>1. job[j].pc # "store" /\ vms' = vms
    BY <1>4 DEF JobEnv, JobPersist, JobFailMark
  <2>2. PICK pc : JobGoto(j, pc)
    BY <1>4 DEF JobEnv, JobPersist, JobFailMark
  <2> QED
    BY <1>1, <1>2, <2>1, <2>2
<1>5. CASE JobCleanup(j)
  <2>1. job[j].pc # "store" /\ vms' \in {Deleted(job[j].name)} \cup Failing(job[j].name)
    BY <1>5 DEF JobCleanup
  <2>2. PICK pc : JobGoto(j, pc)
    BY <1>5 DEF JobCleanup
  <2>3. \A n \in Name : vms'[n] = "dir" => vms[n] = "dir"
    BY <1>0, <2>1, CallsBare
  <2> QED
    BY <1>1, <1>2, <2>1, <2>2, <2>3
<1>6. CASE JobBuilt(j) \/ JobFinish(j)
  <2>1. job[j].pc # "store" /\ vms' = vms /\ req' = req /\ crashes' = crashes
    BY <1>6 DEF JobBuilt, JobFinish
  <2>2. \A i \in Job : i # j => job'[i] = job[i]
    BY <1>0, <1>6 DEF JobBuilt, JobFinish
  <2> QED
    BY <1>1, <2>1, <2>2
<1>7. CASE JobClear(j)
  <2> DEFINE jobs == [job EXCEPT ![j] = IdleJob]
             k == createCancels[job[j].name]
  <2>1. job[j].pc # "store" /\ vms' = vms /\ req' = req /\ crashes' = crashes
    BY <1>7 DEF JobClear
  <2>2. job' = jobs \/ (k \in Job /\ job' = [jobs EXCEPT ![k].cancelled = TRUE])
    BY <1>7 DEF JobClear, TakeCancel
  <2>3. jobs \in [Job -> CreateJob] /\ \A i \in Job : i # j => jobs[i] = job[i]
    BY <1>0, ConstantsAssumption DEF IdleJob, CreateJob, JobPC
  <2> HIDE DEF jobs
  <2>4. \A i \in Job : job'[i].pc = jobs[i].pc /\ job'[i].name = jobs[i].name
    BY <2>2, <2>3 DEF CreateJob
  <2> QED
    BY <1>1, <2>1, <2>3, <2>4
<1> QED
  BY <1>3, <1>4, <1>5, <1>6, <1>7 DEF JobStep

LEMMA BareStep == TypeInv /\ BareDirHasBuilder /\ [Next]_vars => BareDirHasBuilder'
<1> SUFFICES ASSUME TypeInv, BareDirHasBuilder, [Next]_vars PROVE BareDirHasBuilder'
  OBVIOUS
<1>0. /\ vms \in [Name -> VMState] /\ job \in [Job -> CreateJob] /\ req \in [Req -> Request]
  BY DEF TypeInv, TypeOK
<1>1. ASSUME NEW r \in Req, NEW op \in ClientOps, NEW u \in User, NEW n \in Name,
             ReqBegin(r, op, u, n)
      PROVE  BareDirHasBuilder'
  <2>1. req[r].pc # "store" /\ vms' = vms /\ job' = job /\ crashes' = crashes
    BY <1>1 DEF ReqBegin, At
  <2>2. \A q \in Req : q # r => req'[q] = req[q]
    BY <1>0, <1>1 DEF ReqBegin
  <2> QED
    BY <2>1, <2>2, BareHandler
<1>2. ASSUME NEW r \in Req, AcquireUserLock(r) PROVE BareDirHasBuilder'
  <2>1. req[r].pc # "store" /\ vms' = vms /\ job' = job /\ crashes' = crashes
    BY <1>2 DEF AcquireUserLock, At
  <2>2. \A q \in Req : q # r => req'[q] = req[q]
    BY <1>0, <1>2 DEF AcquireUserLock, Goto
  <2> QED
    BY <2>1, <2>2, BareHandler
<1>3. ASSUME NEW p \in Pass, ReconStep(p) PROVE BareDirHasBuilder'
  <2>1. ASSUME NEW n \in Name, ReconVisit(p, n) PROVE BareDirHasBuilder'
    <3>1. vms' = vms /\ req' = req /\ crashes' = crashes
      BY <2>1 DEF ReconVisit
    <3>2. Queue(n) \/ job' = job
      BY <2>1 DEF ReconVisit
    <3>3. \A j \in Job : job[j].pc = "store" => job'[j] = job[j]
      BY <1>0, <3>2 DEF Queue
    <3> QED
      BY <3>1, <3>3, BareKept
  <2>2. ASSUME NEW n \in Name, ReconDelete(p, n) PROVE BareDirHasBuilder'
    <3>1. vms' = Deleted(n) /\ req' = req /\ job' = job /\ crashes' = crashes
      BY <2>2 DEF ReconDelete
    <3> QED
      BY <1>0, <3>1, CallsBare, BareKept
  <2>3. CASE ReconList(p) \/ ReconRuntime(p) \/ ReconDeleted(p) \/ ReconEnd(p)
    <3>1. vms' = vms /\ req' = req /\ job' = job /\ crashes' = crashes
      BY <2>3 DEF ReconList, ReconRuntime, ReconDeleted, ReconEnd
    <3> QED
      BY <3>1, BareKept
  <2> QED
    BY <1>3, <2>1, <2>2, <2>3 DEF ReconStep
<1>4. CASE \E n \in Name : VMExit(n)
  <2>1. PICK n \in Name : VMExit(n)
    BY <1>4
  <2>2. vms' = [vms EXCEPT ![n] = "STOPPED"] /\ req' = req /\ job' = job /\ crashes' = crashes
    BY <2>1 DEF VMExit
  <2>3. \A m \in Name : vms'[m] = "dir" => vms[m] = "dir"
    BY <1>0, <2>2
  <2> QED
    BY <2>2, <2>3, BareKept
<1>5. CASE Crash \/ Reboot
  <2>1. crashes' = crashes + 1 /\ crashes \in Nat
    BY <1>5, ConstantsAssumption DEF Crash, Reboot, Restart, TypeInv, TypeOK
  <2>2. crashes' # 0
    BY <2>1
  <2> QED
    BY <2>2 DEF BareDirHasBuilder
<1>6. CASE UNCHANGED vars
  <2>1. vms' = vms /\ req' = req /\ job' = job /\ crashes' = crashes
    BY <1>6 DEF vars
  <2> QED
    BY <2>1, BareKept
<1> QED
  BY <1>1, <1>2, <1>3, <1>4, <1>5, <1>6, BareReq, BareJob DEF Next

\* Until the control plane first dies, a directory without metadata is one that
\* a create job or a fork is filling, however creates, deletes and passes of
\* the same name meet.
THEOREM BareDirsAreFilled == Spec => []BareDirHasBuilder
<1>1. Init => BareDirHasBuilder
  BY DEF Init, BareDirHasBuilder
<1> QED
  BY <1>1, InitType, TypeStep, BareStep, PTL DEF Spec


-----------------------------------------------------------------------------
(* The handlers, jobs and passes implement the service (MachineService).     *)
(* The proof needs to know, beyond the invariant above, that who holds a     *)
(* user's lock is under way for that user, and what operation a control      *)
(* point belongs to.                                                         *)

\* What a handler's control point says of its operation, and of the state it
\* will write back or adopt.
Fits(q) ==
  /\ q.pc \in {"lock"} \cup LockedPC => q.op # "get"
  /\ q.pc = "mark" => q.op \in {"delete", "start", "stop"}
  /\ q.pc \in DeletePC => q.op = "delete"
  /\ q.pc \in {"startRun", "startGuest", "startEnv", "startDone", "startFail"} => q.op = "start"
  /\ q.pc \in {"stopRun", "stopDone", "stopFail"} => q.op = "stop"
  /\ q.pc \in {"refresh", "adopt"} => q.op \in {"start", "stop"}
  /\ q.pc \in {"mark", "delRun"} /\ q.op = "delete" => q.seen \in Accepts("delete")
  /\ q.pc = "adopt" => q.seen \in {"RUNNING", "STOPPED"}
  /\ q.pc = "getWrite" => q.seen \in {"RUNNING", "STOPPED", "missing"}

\* A user lock that is held is held by a handler of that user that is under way.
LocksHeld ==
  \A u \in User :
    userLocks[u] # NoReq =>
      req[userLocks[u]].pc \in LockedPC /\ req[userLocks[u]].user = u

ServeInv == LocksHeld /\ \A r \in Req : Fits(req[r])

\* A handler that holds the lock goes on with its operation.
Moves(r, rec) ==
  /\ Fits(rec) /\ rec.pc \in LockedPC
  /\ rec.op = req[r].op /\ rec.name = req[r].name /\ rec.user = req[r].user
  /\ req' = [req EXCEPT ![r] = rec]
  /\ UNCHANGED userLocks

GoesOn(r) == req[r].pc \in LockedPC /\ (Return(r) \/ \E rec \in Request : Moves(r, rec))

\* What it does to the machines table meanwhile.
Leaves == machines' = machines /\ nextId' = nextId

Inserts(r) ==
  /\ req[r].op \in {"create", "fork"}
  /\ machines[req[r].name] = NoRecord
  /\ Insert(req[r].name, req[r].user)

Changes(r) ==
  /\ machines[req[r].name].owner = req[r].user
  /\ machines[req[r].name].state = "CREATING" => req[r].op = "fork"
  /\ \E s \in Service!Outcomes[req[r].op] :
       machines' = [machines EXCEPT ![req[r].name].state = s]
  /\ nextId' = nextId

Removes(r) ==
  /\ req[r].op = "delete"
  /\ machines[req[r].name].owner = req[r].user
  /\ machines[req[r].name].state # "CREATING"
  /\ machines' = [machines EXCEPT ![req[r].name] = NoRecord]
  /\ nextId' = nextId

Serves(r) == GoesOn(r) /\ (Leaves \/ Inserts(r) \/ Changes(r) \/ Removes(r))

LEMMA OutcomeFacts ==
  /\ DOMAIN Service!Outcomes = {"create", "fork", "start", "stop", "delete"}
  /\ Service!Outcomes["fork"] = {"RUNNING", "STOPPED", "FAILED"}
  /\ Service!Outcomes["start"] = {"STARTING", "RUNNING", "STOPPED"}
  /\ Service!Outcomes["stop"] = {"STOPPING", "STOPPED", "RUNNING"}
  /\ Service!Outcomes["delete"] = {"DELETING", "RUNNING", "STOPPED", "FAILED", "missing"}
BY DEF Service!Outcomes

LEMMA DeleteAccepts == Accepts("delete") = {"RUNNING", "STOPPED", "FAILED", "missing"}
BY DEF Accepts, MachineState, Transitional

\* A row's state that a handler persists is one the service allows it.
LEMMA PersistChanges ==
  ASSUME TypeInv, IInv, NEW r \in Req, req[r].pc \in HoldingPC,
         NEW s \in Service!Outcomes[req[r].op],
         machines[req[r].name].state = "CREATING" => req[r].op = "fork",
         machines' = WithState(req[r].name, req[r].id, s), nextId' = nextId
  PROVE  Leaves \/ Changes(r)
<1>1. machines[req[r].name].owner = req[r].user
  BY DEF IInv, ReqInv
<1> QED
  BY <1>1 DEF WithState, Leaves, Changes

LEMMA GotoGoesOn ==
  ASSUME TypeInv, ServeInv, NEW r \in Req, req[r].pc \in LockedPC, NEW pc \in LockedPC,
         Goto(r, pc), UNCHANGED userLocks,
         pc = "mark" => req[r].op \in {"delete", "start", "stop"},
         pc \in DeletePC => req[r].op = "delete",
         pc \in {"startRun", "startGuest", "startEnv", "startDone", "startFail"} => req[r].op = "start",
         pc \in {"stopRun", "stopDone", "stopFail"} => req[r].op = "stop",
         pc = "refresh" => req[r].op \in {"start", "stop"},
         pc # "adopt",
         pc \in {"mark", "delRun"} /\ req[r].op = "delete" => req[r].seen \in Accepts("delete")
  PROVE  GoesOn(r)
<1> DEFINE rec == [req[r] EXCEPT !.pc = pc]
<1>1. req[r] \in Request /\ pc \in ReqPC
  BY LockedIsBusy DEF TypeInv, TypeOK
<1>2. /\ rec \in Request /\ rec.pc = pc /\ rec.op = req[r].op /\ rec.name = req[r].name
      /\ rec.user = req[r].user /\ rec.seen = req[r].seen
  BY <1>1 DEF Request
<1>3. req' = [req EXCEPT ![r] = rec]
  BY DEF Goto
<1> HIDE DEF rec
<1>4. Fits(req[r]) /\ pc # "getWrite" /\ pc # "lock"
  BY PCFacts DEF ServeInv
<1>5. Fits(rec)
  BY <1>2, <1>4 DEF Fits
<1> QED
  BY <1>2, <1>3, <1>5 DEF GoesOn, Moves

LEMMA ArrivalServes ==
  ASSUME TypeInv, IInv, ServeInv, NEW r \in Req
  PROVE  /\ CreateAdmit(r) => Serves(r)
         /\ CreateQueue(r) => Serves(r)
         /\ ReqRead(r) => Serves(r)
         /\ ForkRead(r) => Serves(r)
         /\ ForkAdmit(r) => Serves(r)
<1>0. req[r] \in Request /\ Fits(req[r]) /\ nextId \in Nat
  BY IdsAreNat DEF TypeInv, TypeOK, ServeInv
<1>1. ASSUME NEW pc \in {"queue", "mkdir", "fail"}, req[r].pc \in LockedPC, Admit(r, pc),
             req[r].op \in {"create", "fork"}
      PROVE  Serves(r)
  <2>1. CASE Return(r) /\ UNCHANGED <<machines, nextId>>
    BY <1>1, <2>1 DEF Serves, GoesOn, Leaves
  <2>2. CASE /\ ~Exists(req[r].name)
             /\ nextId < MaxId
             /\ Insert(req[r].name, req[r].user)
             /\ req' = [req EXCEPT ![r] = [@ EXCEPT !.pc = pc, !.id = nextId + 1]]
             /\ UNCHANGED userLocks
    <3> DEFINE rec == [req[r] EXCEPT !.pc = pc, !.id = nextId + 1]
    <3>1. nextId + 1 \in 0 .. MaxId
      BY <1>0, <2>2, ConstantsAssumption
    <3>2. pc \in LockedPC /\ pc \in ReqPC
      BY HoldingPCs, LockedIsBusy
    <3>3. /\ rec \in Request /\ rec.pc = pc /\ rec.op = req[r].op /\ rec.name = req[r].name
          /\ rec.user = req[r].user /\ rec.seen = req[r].seen
      BY <1>0, <3>1, <3>2 DEF Request
    <3>4. req' = [req EXCEPT ![r] = rec]
      BY <2>2
    <3> HIDE DEF rec
    <3>5. Fits(rec)
      BY <1>1, <3>3 DEF Fits, DeletePC
    <3>6. req[r].name \in Name
      BY <1>1, LockedIsBusy DEF TypeInv, Bound
    <3>7. machines[req[r].name] = NoRecord
      BY <2>2, <3>6 DEF IInv, RowInv, Exists
    <3> QED
      BY <1>1, <2>2, <3>2, <3>3, <3>4, <3>5, <3>7 DEF Serves, GoesOn, Moves, Inserts
  <2> QED
    BY <1>1, <2>1, <2>2 DEF Admit
<1>2. ASSUME CreateAdmit(r) PROVE Serves(r)
  <2>1. req[r].pc \in LockedPC /\ req[r].op = "create" /\ Admit(r, "queue")
    BY <1>2, HoldingPCs DEF CreateAdmit, At
  <2> QED
    BY <1>1, <2>1
<1>3. ASSUME ForkAdmit(r) PROVE Serves(r)
  <2>1. req[r].pc = "forkAdmit" /\ \E pc \in {"mkdir", "fail"} : Admit(r, pc)
    BY <1>3 DEF ForkAdmit, At
  <2>2. req[r].op = "fork" /\ req[r].pc \in LockedPC
    BY <2>1, PCFacts, HoldingPCs DEF IInv, ReqInv
  <2> QED
    BY <1>1, <2>1, <2>2
<1>4. ASSUME CreateQueue(r) PROVE Serves(r)
  BY <1>4, HoldingPCs DEF CreateQueue, At, Serves, GoesOn, Leaves
<1>5. ASSUME ForkRead(r) PROVE Serves(r)
  <2>1. req[r].pc = "begin" /\ Leaves /\ req[r].pc \in LockedPC
    BY <1>5, HoldingPCs DEF ForkRead, At, Leaves
  <2>2. CASE Return(r)
    BY <2>1, <2>2 DEF Serves, GoesOn
  <2>3. CASE Goto(r, "forkAdmit") /\ UNCHANGED userLocks
    <3>1. "forkAdmit" \in LockedPC /\ "forkAdmit" \notin DeletePC
      BY HoldingPCs DEF DeletePC
    <3>2. GoesOn(r)
      BY <2>1, <2>3, <3>1, GotoGoesOn
    <3> QED
      BY <2>1, <3>2 DEF Serves
  <2> QED
    BY <1>5, <2>2, <2>3 DEF ForkRead
<1>6. ASSUME ReqRead(r) PROVE Serves(r)
  <2> DEFINE n == req[r].name
  <2>1. req[r].pc = "begin" /\ Leaves /\ req[r].pc \in LockedPC /\ n \in Name
    BY <1>6, HoldingPCs DEF ReqRead, At, Leaves, TypeInv, Bound
  <2>2. CASE Return(r)
    BY <2>1, <2>2 DEF Serves, GoesOn
  <2>3. CASE /\ machines[n].state \in Accepts(req[r].op)
             /\ req' = [req EXCEPT ![r] = [@ EXCEPT !.pc = "mark", !.id = machines[n].id,
                                                    !.seen = machines[n].state]]
             /\ UNCHANGED userLocks
    <3> DEFINE rec == [req[r] EXCEPT !.pc = "mark", !.id = machines[n].id, !.seen = machines[n].state]
    <3>1. machines[n] \in Row
      BY <2>1 DEF TypeInv, TypeOK
    <3>2. "mark" \in LockedPC /\ "mark" \in ReqPC
      BY HoldingPCs, LockedIsBusy
    <3>3. /\ rec \in Request /\ rec.pc = "mark" /\ rec.op = req[r].op /\ rec.name = req[r].name
          /\ rec.user = req[r].user /\ rec.seen = machines[n].state
      BY <1>0, <3>1, <3>2 DEF Request, Row
    <3>4. req' = [req EXCEPT ![r] = rec]
      BY <2>3
    <3> HIDE DEF rec
    <3>5. req[r].op \in {"delete", "start", "stop"}
      BY <1>6 DEF ReqRead
    <3>6. Fits(rec)
      BY <2>3, <3>3, <3>5 DEF Fits, DeletePC
    <3> QED
      BY <2>1, <2>3, <3>2, <3>3, <3>4, <3>6 DEF Serves, GoesOn, Moves
  <2> QED
    BY <1>6, <2>2, <2>3 DEF ReqRead
<1> QED
  BY <1>2, <1>3, <1>4, <1>5, <1>6

LEMMA DeleteServes ==
  ASSUME TypeInv, IInv, ServeInv, NEW r \in Req
  PROVE  /\ DeleteMark(r) => Serves(r)
         /\ DeleteRuntime(r) => Serves(r)
         /\ DeleteRuntimeError(r) => Serves(r)
         /\ DeleteDb(r) => Serves(r)
<1> DEFINE n == req[r].name
<1> USE HoldingPCs DEF At
<1>0. /\ req[r] \in Request /\ Fits(req[r])
      /\ req[r].pc \in {"mark", "delRun", "delDb"} =>
           machines[n].state # "CREATING" /\ machines[n].owner = req[r].user
  BY PCFacts DEF TypeInv, TypeOK, ServeInv, IInv, ReqInv
<1>1. ASSUME DeleteMark(r) PROVE Serves(r)
  <2>1. req[r].pc = "mark" /\ req[r].op = "delete" /\ Goto(r, "delRun") /\ UNCHANGED userLocks
    BY <1>1 DEF DeleteMark
  <2>2. machines' = WithState(n, req[r].id, "DELETING") /\ nextId' = nextId
    BY <1>1 DEF DeleteMark
  <2>3. req[r].seen \in Accepts("delete")
    BY <1>0, <2>1 DEF Fits
  <2>4. GoesOn(r)
    BY <2>1, <2>3, GotoGoesOn
  <2>5. Leaves \/ Changes(r)
    BY <1>0, <2>1, <2>2, OutcomeFacts, PersistChanges
  <2> QED
    BY <2>4, <2>5 DEF Serves
<1>2. ASSUME DeleteRuntime(r) PROVE Serves(r)
  <2>1. req[r].pc = "delRun" /\ Goto(r, "delDb") /\ UNCHANGED userLocks /\ Leaves
    BY <1>2 DEF DeleteRuntime, Call, Leaves
  <2>2. req[r].op = "delete"
    BY <1>0, <2>1 DEF Fits, DeletePC
  <2>3. GoesOn(r)
    BY <2>1, <2>2, GotoGoesOn
  <2> QED
    BY <2>1, <2>3 DEF Serves
<1>3. ASSUME DeleteRuntimeError(r) PROVE Serves(r)
  <2>1. req[r].pc = "delRun" /\ Return(r) /\ nextId' = nextId
    BY <1>3 DEF DeleteRuntimeError
  <2>2. machines' = WithState(n, req[r].id, req[r].seen)
    BY <1>3 DEF DeleteRuntimeError
  <2>3. req[r].op = "delete" /\ req[r].seen \in Service!Outcomes[req[r].op]
    BY <1>0, <2>1, OutcomeFacts, DeleteAccepts DEF Fits, DeletePC
  <2>4. Leaves \/ Changes(r)
    BY <1>0, <2>1, <2>2, <2>3, PersistChanges
  <2> QED
    BY <2>1, <2>4 DEF Serves, GoesOn
<1>4. ASSUME DeleteDb(r) PROVE Serves(r)
  <2>1. req[r].pc = "delDb" /\ Return(r) /\ nextId' = nextId
    BY <1>4 DEF DeleteDb
  <2>2. machines' = machines \/ machines' = [machines EXCEPT ![n] = NoRecord]
    BY <1>4 DEF DeleteDb
  <2>3. req[r].op = "delete"
    BY <1>0, <2>1 DEF Fits, DeletePC
  <2>4. Leaves \/ Removes(r)
    BY <1>0, <2>1, <2>2, <2>3 DEF Leaves, Removes
  <2> QED
    BY <2>1, <2>4 DEF Serves, GoesOn
<1> QED
  BY <1>1, <1>2, <1>3, <1>4

\* A handler's persisting step, and its runtime calls.
LEMMA PersistServes ==
  ASSUME TypeInv, IInv, ServeInv, NEW r \in Req, req[r].pc \in HoldingPC,
         NEW s \in Service!Outcomes[req[r].op],
         machines[req[r].name].state = "CREATING" => req[r].op = "fork"
  PROVE  /\ PersistReturn(r, s) => Serves(r)
         /\ \A pc : Persist(r, s, pc) /\ GoesOn(r) => Serves(r)
<1>1. ASSUME PersistReturn(r, s) PROVE Serves(r)
  BY <1>1, PersistChanges, HoldingPCs DEF PersistReturn, Serves, GoesOn
<1>2. ASSUME NEW pc, Persist(r, s, pc), GoesOn(r) PROVE Serves(r)
  BY <1>2, PersistChanges DEF Persist, Serves
<1> QED
  BY <1>1, <1>2

LEMMA PowerServes ==
  ASSUME TypeInv, IInv, ServeInv, NEW r \in Req
  PROVE  /\ StartMark(r) => Serves(r)
         /\ StartRun(r) \/ StartGuest(r) \/ StartEnv(r) => Serves(r)
         /\ StartDone(r) => Serves(r)
         /\ StartFail(r) => Serves(r)
         /\ StopMark(r) => Serves(r)
         /\ StopRun(r) => Serves(r)
         /\ StopDone(r) => Serves(r)
         /\ StopFail(r) => Serves(r)
<1> DEFINE starting == {"startRun", "startGuest", "startEnv", "startDone", "startFail"}
           stopping == {"stopRun", "stopDone", "stopFail"}
<1> USE HoldingPCs DEF At
<1>0. /\ req[r] \in Request
      /\ req[r].pc \in starting => req[r].op = "start"
      /\ req[r].pc \in stopping => req[r].op = "stop"
      /\ req[r].pc \in {"mark"} \cup starting \cup stopping =>
           req[r].pc \in HoldingPC /\ machines[req[r].name].state # "CREATING"
  BY PCFacts DEF TypeInv, TypeOK, ServeInv, Fits, IInv, ReqInv
<1>g. /\ \A pc \in starting : req[r].pc \in LockedPC /\ Goto(r, pc) /\ UNCHANGED userLocks
           /\ req[r].op = "start" => GoesOn(r)
      /\ \A pc \in stopping : req[r].pc \in LockedPC /\ Goto(r, pc) /\ UNCHANGED userLocks
           /\ req[r].op = "stop" => GoesOn(r)
      /\ req[r].pc \in LockedPC /\ Goto(r, "refresh") /\ UNCHANGED userLocks
           /\ req[r].op \in {"start", "stop"} => GoesOn(r)
  BY GotoGoesOn DEF DeletePC
<1>1. ASSUME StartMark(r) PROVE Serves(r)
  <2>1. req[r].pc = "mark" /\ req[r].op = "start"
    BY <1>1 DEF StartMark
  <2>2. CASE Persist(r, "STARTING", "startRun")
    <3>1. GoesOn(r)
      BY <1>g, <2>1, <2>2 DEF Persist
    <3> QED
      BY <1>0, <2>1, <2>2, <3>1, OutcomeFacts, PersistServes
  <2>3. CASE Return(r) /\ Leaves
    BY <2>1, <2>3 DEF Serves, GoesOn
  <2> QED
    BY <1>1, <2>2, <2>3 DEF StartMark, Leaves
<1>2. ASSUME StartRun(r) \/ StartGuest(r) \/ StartEnv(r) PROVE Serves(r)
  <2>1. req[r].pc \in {"startRun", "startGuest", "startEnv"}
    BY <1>2 DEF StartRun, StartGuest, StartEnv
  <2>2. \E pc \in starting : Goto(r, pc) /\ UNCHANGED <<machines, nextId, userLocks>>
    BY <1>2 DEF Call, StartRun, StartGuest, StartEnv
  <2>3. GoesOn(r) /\ Leaves
    BY <1>0, <1>g, <2>1, <2>2 DEF Leaves
  <2> QED
    BY <2>3 DEF Serves
<1>3. ASSUME StartDone(r) PROVE Serves(r)
  <2>1. req[r].pc = "startDone" /\ Persist(r, "RUNNING", "refresh") /\ req[r].op = "start"
    BY <1>0, <1>3 DEF StartDone
  <2>2. GoesOn(r)
    BY <1>g, <2>1 DEF Persist
  <2> QED
    BY <1>0, <2>1, <2>2, OutcomeFacts, PersistServes
<1>4. ASSUME StartFail(r) PROVE Serves(r)
  <2>1. req[r].pc = "startFail" /\ PersistReturn(r, "STOPPED") /\ req[r].op = "start"
    BY <1>0, <1>4 DEF StartFail
  <2> QED
    BY <1>0, <2>1, OutcomeFacts, PersistServes
<1>5. ASSUME StopMark(r) PROVE Serves(r)
  <2>1. req[r].pc = "mark" /\ Persist(r, "STOPPING", "stopRun") /\ req[r].op = "stop"
    BY <1>5 DEF StopMark
  <2>2. GoesOn(r)
    BY <1>g, <2>1 DEF Persist
  <2> QED
    BY <1>0, <2>1, <2>2, OutcomeFacts, PersistServes
<1>6. ASSUME StopRun(r) PROVE Serves(r)
  <2>1. req[r].pc = "stopRun"
    BY <1>6 DEF StopRun
  <2>2. \E pc \in stopping : Goto(r, pc) /\ UNCHANGED <<machines, nextId, userLocks>>
    BY <1>6 DEF Call, StopRun
  <2>3. GoesOn(r) /\ Leaves
    BY <1>0, <1>g, <2>1, <2>2 DEF Leaves
  <2> QED
    BY <2>3 DEF Serves
<1>7. ASSUME StopDone(r) PROVE Serves(r)
  <2>1. req[r].pc = "stopDone" /\ Persist(r, "STOPPED", "refresh") /\ req[r].op = "stop"
    BY <1>0, <1>7 DEF StopDone
  <2>2. GoesOn(r)
    BY <1>g, <2>1 DEF Persist
  <2> QED
    BY <1>0, <2>1, <2>2, OutcomeFacts, PersistServes
<1>8. ASSUME StopFail(r) PROVE Serves(r)
  <2>1. req[r].pc = "stopFail" /\ PersistReturn(r, "RUNNING") /\ req[r].op = "stop"
    BY <1>0, <1>8 DEF StopFail
  <2> QED
    BY <1>0, <2>1, OutcomeFacts, PersistServes
<1> QED
  BY <1>1, <1>2, <1>3, <1>4, <1>5, <1>6, <1>7, <1>8

LEMMA RefreshServes ==
  ASSUME TypeInv, IInv, ServeInv, NEW r \in Req
  PROVE  /\ Refresh(r) => Serves(r)
         /\ Adopt(r) => Serves(r)
<1> USE HoldingPCs DEF At
<1>0. /\ req[r] \in Request /\ Fits(req[r])
      /\ req[r].pc \in {"refresh", "adopt"} =>
           req[r].pc \in HoldingPC /\ machines[req[r].name].state # "CREATING"
  BY PCFacts DEF TypeInv, TypeOK, ServeInv, IInv, ReqInv
<1>1. ASSUME Refresh(r) PROVE Serves(r)
  <2> DEFINE live == IF req[r].op = "start" THEN "RUNNING" ELSE "STOPPED"
  <2>1. req[r].pc = "refresh" /\ Leaves
    BY <1>1 DEF Refresh, Leaves
  <2>2. CASE Return(r)
    BY <2>1, <2>2 DEF Serves, GoesOn
  <2>3. CASE /\ req' = [req EXCEPT ![r] = [@ EXCEPT !.pc = "adopt", !.seen = live]]
             /\ UNCHANGED userLocks
    <3> DEFINE rec == [req[r] EXCEPT !.pc = "adopt", !.seen = live]
    <3>1. live \in {"RUNNING", "STOPPED"} /\ live \in MachineState
      BY DEF MachineState
    <3>2. "adopt" \in LockedPC /\ "adopt" \in ReqPC
      BY LockedIsBusy
    <3>3. /\ rec \in Request /\ rec.pc = "adopt" /\ rec.op = req[r].op /\ rec.name = req[r].name
          /\ rec.user = req[r].user /\ rec.seen = live
      BY <1>0, <3>1, <3>2 DEF Request
    <3>4. req' = [req EXCEPT ![r] = rec]
      BY <2>3
    <3> HIDE DEF rec, live
    <3>5. Fits(rec)
      BY <1>0, <2>1, <3>1, <3>3 DEF Fits, DeletePC
    <3> QED
      BY <2>1, <2>3, <3>2, <3>3, <3>4, <3>5 DEF Serves, GoesOn, Moves
  <2> QED
    BY <1>1, <2>2, <2>3 DEF Refresh
<1>2. ASSUME Adopt(r) PROVE Serves(r)
  <2>1. req[r].pc = "adopt" /\ PersistReturn(r, req[r].seen)
    BY <1>2 DEF Adopt
  <2>2. req[r].seen \in Service!Outcomes[req[r].op]
    BY <1>0, <2>1, OutcomeFacts DEF Fits
  <2> QED
    BY <1>0, <2>1, <2>2, PersistServes
<1> QED
  BY <1>1, <1>2

LEMMA ForkServes ==
  ASSUME TypeInv, IInv, ServeInv, NEW r \in Req
  PROVE  /\ ForkBuild(r) => Serves(r)
         /\ ForkBuilt(r) => Serves(r)
         /\ ForkDone(r) => Serves(r)
         /\ ForkEnv(r) => Serves(r)
         /\ ForkFail(r) => Serves(r)
         /\ ForkMark(r) => Serves(r)
<1> DEFINE forking == {"mkdir", "store", "boot", "guest", "built", "persist", "env", "fail",
                       "failMark"}
<1> USE HoldingPCs DEF At
<1>0. /\ req[r] \in Request
      /\ req[r].pc \in forking => req[r].op = "fork" /\ req[r].pc \in HoldingPC
  BY PCFacts DEF TypeInv, TypeOK, IInv, ReqInv, NewPC
<1>g. \A pc \in forking : req[r].pc \in forking /\ Goto(r, pc) /\ UNCHANGED userLocks => GoesOn(r)
  BY <1>0, GotoGoesOn DEF DeletePC
<1>1. ASSUME ForkBuild(r) PROVE Serves(r)
  <2>1. req[r].pc \in BuildPC /\ req[r].pc \in forking
    BY <1>1 DEF ForkBuild, BuildPC
  <2>2. PICK out \in Building(req[r].pc, req[r].name, FALSE) :
          Call(r, [vms EXCEPT ![req[r].name] = out[1]], out[2])
    BY <1>1 DEF ForkBuild
  <2>3. req[r].name \in Name /\ vms \in [Name -> VMState]
    BY <2>1, LockedIsBusy DEF TypeInv, TypeOK, Bound
  <2>4. out[2] \in forking
    BY <2>1, <2>3, BuildingType
  <2>5. Leaves /\ Goto(r, out[2]) /\ UNCHANGED userLocks
    BY <2>2 DEF Call, Leaves
  <2> QED
    BY <1>g, <2>1, <2>4, <2>5 DEF Serves
<1>2. ASSUME ForkDone(r) PROVE Serves(r)
  <2>1. req[r].pc = "persist" /\ \E pc \in {"env", "fail"} : Persist(r, req[r].seen, pc)
    BY <1>2 DEF ForkDone
  <2>2. PICK pc \in {"env", "fail"} : Persist(r, req[r].seen, pc)
    BY <2>1
  <2>3. GoesOn(r)
    BY <1>g, <2>1, <2>2 DEF Persist
  <2>4. req[r].seen \in Service!Outcomes[req[r].op]
    BY <1>0, <2>1, OutcomeFacts DEF IInv, ReqInv
  <2> QED
    BY <1>0, <2>1, <2>2, <2>3, <2>4, PersistServes
<1>3. ASSUME ForkEnv(r) PROVE Serves(r)
  <2>1. req[r].pc = "env" /\ Leaves
    BY <1>3 DEF ForkEnv, Leaves
  <2>2. Return(r) \/ (Goto(r, "fail") /\ UNCHANGED userLocks)
    BY <1>3 DEF ForkEnv
  <2>3. GoesOn(r)
    BY <1>g, <2>1, <2>2 DEF GoesOn
  <2> QED
    BY <2>1, <2>3 DEF Serves
<1>4. ASSUME ForkFail(r) PROVE Serves(r)
  <2>1. req[r].pc = "fail" /\ \E v : Call(r, v, "failMark")
    BY <1>4 DEF ForkFail
  <2>2. Leaves /\ Goto(r, "failMark") /\ UNCHANGED userLocks
    BY <2>1 DEF Call, Leaves
  <2> QED
    BY <1>g, <2>1, <2>2 DEF Serves
<1>5. ASSUME ForkMark(r) PROVE Serves(r)
  <2>1. req[r].pc = "failMark" /\ Return(r) /\ nextId' = nextId
    BY <1>5 DEF ForkMark
  <2>2. machines' = WithStateByName(req[r].name, "FAILED") /\ machines[req[r].name].id = req[r].id
    BY <1>0, <1>5, <2>1 DEF ForkMark, IInv, ReqInv
  <2>3. machines' = WithState(req[r].name, req[r].id, "FAILED")
    BY <2>2 DEF WithStateByName
  <2>4. Leaves \/ Changes(r)
    BY <1>0, <2>1, <2>3, OutcomeFacts, PersistChanges
  <2> QED
    BY <2>1, <2>4 DEF Serves, GoesOn
<1>6. ASSUME ForkBuilt(r) PROVE Serves(r)
  <2>1. /\ req[r].pc = "built" /\ req[r].pc \in forking /\ userLocks' = userLocks /\ Leaves
        /\ Reported(req[r].name) \in MachineState
    BY <1>6 DEF ForkBuilt, Leaves, Reported, MachineState
  <2>2. PICK pc \in {"persist", "fail"} :
          req' = [req EXCEPT ![r] = [@ EXCEPT !.pc = pc, !.seen = Reported(req[r].name)]]
    BY <1>6 DEF ForkBuilt
  <2> DEFINE rec == [req[r] EXCEPT !.pc = pc, !.seen = Reported(req[r].name)]
  <2>3. pc \in LockedPC /\ pc \in ReqPC
    BY LockedIsBusy
  <2>4. /\ rec \in Request /\ rec.pc = pc /\ rec.op = req[r].op /\ rec.name = req[r].name
        /\ rec.user = req[r].user
    BY <1>0, <2>1, <2>3 DEF Request
  <2>5. req' = [req EXCEPT ![r] = rec]
    BY <2>2
  <2> HIDE DEF rec
  <2>6. Fits(rec)
    BY <1>0, <2>1, <2>2, <2>4 DEF Fits, DeletePC
  <2> QED
    BY <1>0, <2>1, <2>3, <2>4, <2>5, <2>6 DEF Serves, GoesOn, Moves
<1> QED
  BY <1>1, <1>2, <1>3, <1>4, <1>5, <1>6

\* The service's invariant after a step of a handler that holds the lock, and
\* what its user is served then.
LEMMA GoesOnServes ==
  ASSUME TypeInv, ServeInv, NEW r \in Req, GoesOn(r)
  PROVE  /\ ServeInv'
         /\ Working' \in {Working, [Working EXCEPT ![req[r].user] = Service!Nothing]}
<1> DEFINE u == req[r].user
<1>1. u \in User /\ r # NoReq /\ req \in [Req -> Request] /\ userLocks \in [User -> Req \cup {NoReq}]
  BY ConstantsAssumption DEF GoesOn, TypeInv, TypeOK, Bound
<1>2. CASE Return(r)
  <2>1. /\ userLocks' = [userLocks EXCEPT ![u] = NoReq]
        /\ req' = [req EXCEPT ![r] = IdleReq]
    BY <1>2 DEF Return
  <2>2. \A w \in User : w # u /\ userLocks[w] # NoReq => userLocks[w] # r
    BY DEF ServeInv, LocksHeld
  <2>3. \A w \in User : w # u /\ userLocks[w] # NoReq => req'[userLocks[w]] = req[userLocks[w]]
    BY <1>1, <2>1, <2>2
  <2>4. Fits(IdleReq)
    BY PCFacts DEF Fits, IdleReq, DeletePC
  <2>5. ServeInv'
    <3>1. \A q \in Req : req'[q] = req[q] \/ req'[q] = IdleReq
      BY <1>1, <2>1
    <3>2. \A q \in Req : Fits(req'[q])
      BY <2>4, <3>1 DEF ServeInv
    <3>3. LocksHeld'
      BY <1>1, <2>1, <2>3 DEF ServeInv, LocksHeld
    <3> QED
      BY <3>2, <3>3 DEF ServeInv
  <2>6. \A w \in User : Working'[w] = IF w = u THEN Service!Nothing ELSE Working[w]
    BY <1>1, <2>1, <2>3 DEF Working, Service!Nothing
  <2>7. Working' = [Working EXCEPT ![u] = Service!Nothing]
    BY <1>1, <2>6 DEF Working
  <2> QED
    BY <2>5, <2>7
<1>3. ASSUME NEW rec \in Request, Moves(r, rec)
      PROVE  ServeInv' /\ Working' = Working
  <2>1. req'[r] = rec /\ userLocks' = userLocks /\ \A q \in Req \ {r} : req'[q] = req[q]
    BY <1>1, <1>3 DEF Moves
  <2>2. ServeInv'
    BY <1>1, <1>3, <2>1 DEF ServeInv, LocksHeld, Moves
  <2>3. \A q \in Req : req'[q].op = req[q].op /\ req'[q].name = req[q].name
    BY <1>3, <2>1 DEF Moves
  <2>4. Working' = Working
    BY <1>1, <2>1, <2>3 DEF Working
  <2> QED
    BY <2>2, <2>4
<1> QED
  BY <1>2, <1>3 DEF GoesOn

\* A request without the lock says nothing about what its user is served.
LEMMA OutsideServes ==
  ASSUME TypeInv, ServeInv, NEW r \in Req, req[r].pc \notin LockedPC,
         userLocks' = userLocks, \A q \in Req \ {r} : req'[q] = req[q], Fits(req'[r])
  PROVE  ServeInv' /\ Working' = Working
<1>1. \A u \in User : userLocks[u] # NoReq => userLocks[u] \in Req /\ userLocks[u] # r
  BY DEF TypeInv, TypeOK, ServeInv, LocksHeld
<1>2. ServeInv'
  BY <1>1 DEF ServeInv, LocksHeld
<1>3. Working' = Working
  BY <1>1 DEF Working
<1> QED
  BY <1>2, <1>3

LEMMA LocksUntouched ==
  ASSUME ServeInv, userLocks' = userLocks, req' = req
  PROVE  ServeInv' /\ Working' = Working
BY DEF ServeInv, LocksHeld, Fits, Working

\* A handler's step is a step of the operation its user is served.
LEMMA ServesWorks ==
  ASSUME TypeInv, IInv, ServeInv, NEW r \in Req, Serves(r)
  PROVE  Service!Work(req[r].user)
<1> DEFINE u == req[r].user
           n == req[r].name
<1>1. u \in User /\ req[r].pc \in LockedPC /\ r # NoReq
  BY ConstantsAssumption DEF Serves, GoesOn, TypeInv, TypeOK, Bound
<1>2. userLocks[u] = r
  BY <1>1 DEF IInv, ReqInv
<1>3. Working[u].op = req[r].op /\ Working[u].name = n
  BY <1>1, <1>2 DEF Working
<1>4. Working[u] # Service!Nothing
  <2>1. req[r].op \in ClientOps
    BY DEF TypeInv, TypeOK, Request
  <2> QED
    BY <1>3, <2>1 DEF Service!Nothing, ClientOps
<1>5. Working' = Working \/ Working' = [Working EXCEPT ![u] = Service!Nothing]
  BY GoesOnServes DEF Serves
<1>6. CASE Leaves
  BY <1>4, <1>5, <1>6 DEF Leaves, Service!Work
<1>7. CASE Inserts(r)
  <2>1. Service!Insert(u, n)
    BY <1>3, <1>7 DEF Inserts, Insert, Service!Insert, Service!NoRow, NoRecord
  <2> QED
    BY <1>3, <1>4, <1>5, <2>1 DEF Service!Work
<1>8. CASE Changes(r)
  <2>1. Service!Change(u, n)
    BY <1>3, <1>8 DEF Changes, Service!Change, Service!Become
  <2> QED
    BY <1>3, <1>4, <1>5, <2>1 DEF Service!Work
<1>9. CASE Removes(r)
  <2>1. Service!Remove(u, n)
    BY <1>3, <1>9 DEF Removes, Service!Remove, Service!NoRow, NoRecord
  <2> QED
    BY <1>3, <1>4, <1>5, <2>1 DEF Service!Work
<1> QED
  BY <1>6, <1>7, <1>8, <1>9 DEF Serves

LEMMA HandlerServes ==
  ASSUME TypeInv, IInv, ServeInv, NEW r \in Req, ReqStep(r), ~GetLive(r), ~GetWrite(r)
  PROVE  Serves(r)
BY ArrivalServes, DeleteServes, PowerServes, RefreshServes, ForkServes DEF ReqStep

\* Behind the user's back a row is written without his lock: a creation ends, or
\* a row that is not CREATING follows its VM.
LEMMA WriteBehind ==
  ASSUME TypeInv, IInv, NEW n \in Name, NEW id,
         NEW s \in {"RUNNING", "STOPPED", "missing", "FAILED"},
         machines' = WithState(n, id, s), nextId' = nextId, Working' = Working,
         machines[n].id = id /\ machines[n].state = "CREATING" =>
           s \in {"RUNNING", "STOPPED", "FAILED"}
  PROVE  Service!CreationEnds(n) \/ Service!Follow(n) \/ UNCHANGED <<machines, nextId, Working>>
BY DEF WithState, Exists, Service!CreationEnds, Service!Follow, Service!Become

LEMMA ReadersServe ==
  ASSUME TypeInv, IInv, ServeInv, NEW r \in Req, GetLive(r) \/ GetWrite(r)
  PROVE  /\ ServeInv'
         /\ \/ \E n \in Name : Service!CreationEnds(n) \/ Service!Follow(n)
            \/ UNCHANGED <<machines, nextId, Working>>
<1>0. /\ req \in [Req -> Request] /\ vms \in [Name -> VMState] /\ req[r].pc \in ReadPC
      /\ req[r].pc \notin LockedPC /\ userLocks' = userLocks /\ nextId' = nextId
  BY PCFacts DEF TypeInv, TypeOK, GetLive, GetWrite, At
<1>1. req[r].name \in Name /\ req[r] \in Request
  BY <1>0, PCFacts DEF TypeInv, Bound
<1>2. Fits(IdleReq)
  BY PCFacts DEF Fits, IdleReq, DeletePC
<1>3. CASE GetLive(r)
  <2>1. CASE req' = [req EXCEPT ![r] = IdleReq]
    BY <1>0, <1>2, <1>3, <2>1, OutsideServes DEF GetLive
  <2>2. ASSUME NEW s \in {"STOPPED", "RUNNING", "missing"},
               req' = [req EXCEPT ![r] = [@ EXCEPT !.pc = "getWrite", !.seen = s]]
        PROVE  ServeInv' /\ Working' = Working
    <3> DEFINE rec == [req[r] EXCEPT !.pc = "getWrite", !.seen = s]
    <3>1. rec.pc = "getWrite" /\ rec.seen = s /\ req' = [req EXCEPT ![r] = rec]
      BY <1>1, <2>2 DEF Request
    <3> HIDE DEF rec
    <3>2. Fits(rec)
      BY <3>1, PCFacts DEF Fits, DeletePC
    <3> QED
      BY <1>0, <3>1, <3>2, OutsideServes
  <2>3. \/ req' = [req EXCEPT ![r] = IdleReq]
        \/ \E s \in {"STOPPED", "RUNNING", "missing"} :
             req' = [req EXCEPT ![r] = [@ EXCEPT !.pc = "getWrite", !.seen = s]]
    BY <1>3 DEF GetLive, Visible
  <2>4. machines' = machines
    BY <1>3 DEF GetLive
  <2> QED
    BY <1>0, <2>1, <2>2, <2>3, <2>4
<1>4. CASE GetWrite(r)
  <2>1. req[r].pc = "getWrite" /\ machines' = WithState(req[r].name, req[r].id, req[r].seen)
    BY <1>4 DEF GetWrite, At
  <2>2. ServeInv' /\ Working' = Working
    BY <1>0, <1>2, <1>4, OutsideServes DEF GetWrite
  <2>3. req[r].seen \in {"RUNNING", "STOPPED", "missing"}
    BY <2>1 DEF ServeInv, Fits
  <2>4. machines[req[r].name].id = req[r].id => machines[req[r].name].state # "CREATING"
    BY <1>0, <2>3 DEF IInv, ReqInv
  <2> QED
    BY <1>0, <1>1, <2>1, <2>2, <2>3, <2>4, WriteBehind
<1> QED
  BY <1>3, <1>4

LEMMA JobsServe ==
  ASSUME TypeInv, IInv, ServeInv, NEW j \in Job, JobStep(j)
  PROVE  /\ ServeInv'
         /\ \/ \E n \in Name : Service!CreationEnds(n) \/ Service!Follow(n)
            \/ UNCHANGED <<machines, nextId, Working>>
<1>1. userLocks' = userLocks /\ req' = req /\ nextId' = nextId
  BY DEF JobStep, JobBuild, JobBuilt, JobEnv, JobFinish, JobPersist, JobCleanup, JobFailMark,
         JobClear, JobGoto
<1>2. ServeInv' /\ Working' = Working
  BY <1>1, LocksUntouched
<1>3. CASE JobPersist(j) \/ JobFailMark(j)
  <2>1. job[j].name \in Name
    BY <1>3 DEF JobPersist, JobFailMark, TypeInv, Bound
  <2>2. \/ machines' = WithState(job[j].name, job[j].id, "RUNNING")
        \/ machines' = WithState(job[j].name, job[j].id, "STOPPED")
        \/ machines' = WithState(job[j].name, machines[job[j].name].id, "FAILED")
    <3>1. job[j].live \in {"RUNNING", "STOPPED"}
      BY DEF TypeInv, TypeOK, CreateJob
    <3> QED
      BY <1>3, <3>1 DEF JobPersist, JobFailMark, WithStateByName
  <2> QED
    BY <1>1, <1>2, <2>1, <2>2, WriteBehind
<1>4. CASE \/ JobBuild(j) \/ JobBuilt(j) \/ JobEnv(j) \/ JobFinish(j) \/ JobCleanup(j)
           \/ JobClear(j)
  <2>1. machines' = machines
    BY <1>4 DEF JobBuild, JobBuilt, JobEnv, JobFinish, JobCleanup, JobClear
  <2> QED
    BY <1>1, <1>2, <2>1
<1> QED
  BY <1>3, <1>4 DEF JobStep

LEMMA PassesServe ==
  ASSUME TypeInv, IInv, ServeInv, NEW p \in Pass, ReconStep(p)
  PROVE  /\ ServeInv'
         /\ \/ \E n \in Name : Service!CreationEnds(n) \/ Service!Follow(n)
            \/ UNCHANGED <<machines, nextId, Working>>
<1>1. userLocks' = userLocks /\ req' = req /\ nextId' = nextId
  <2>1. \A n \in Name : ReconVisit(p, n) => userLocks' = userLocks /\ req' = req /\ nextId' = nextId
    BY DEF ReconVisit
  <2>2. \A n \in Name : ReconDelete(p, n) => userLocks' = userLocks /\ req' = req /\ nextId' = nextId
    BY DEF ReconDelete
  <2>3. ReconList(p) \/ ReconRuntime(p) \/ ReconDeleted(p) \/ ReconEnd(p)
          => userLocks' = userLocks /\ req' = req /\ nextId' = nextId
    BY DEF ReconList, ReconRuntime, ReconDeleted, ReconEnd
  <2> QED
    BY <2>1, <2>2, <2>3 DEF ReconStep
<1>2. ServeInv' /\ Working' = Working
  BY <1>1, LocksUntouched
<1>3. ASSUME NEW n \in Name, ReconVisit(p, n)
      PROVE  Service!CreationEnds(n) \/ Service!Follow(n) \/ UNCHANGED <<machines, nextId, Working>>
  <2> DEFINE row == recon[p].known[n]
             live == recon[p].live[n]
  <2>1. live \in {"none", "STOPPED", "RUNNING"}
    BY DEF TypeInv, TypeOK, ReconPass
  <2>2. CASE machines' = machines
    BY <1>1, <1>2, <2>2
  <2>3. CASE live # "none" /\ ShouldAdopt(row.state, live) /\ machines' = WithState(n, row.id, live)
    <3>1. machines[n].id = row.id => machines[n].state # "CREATING"
      BY <2>3 DEF IInv, PassInv, ShouldAdopt, Transitional
    <3> HIDE DEF row, live
    <3> QED
      BY <1>1, <1>2, <2>1, <2>3, <3>1, WriteBehind
  <2> QED
    BY <1>3, <2>2, <2>3 DEF ReconVisit
<1>4. CASE \/ ReconList(p) \/ ReconRuntime(p) \/ ReconDeleted(p) \/ ReconEnd(p)
           \/ \E n \in Name : ReconDelete(p, n)
  <2>1. machines' = machines
    BY <1>4 DEF ReconList, ReconRuntime, ReconDeleted, ReconEnd, ReconDelete
  <2> QED
    BY <1>1, <1>2, <2>1
<1> QED
  BY <1>2, <1>3, <1>4 DEF ReconStep

LEMMA ServiceStep ==
  ASSUME TypeInv, IInv, ServeInv, [Next]_vars
  PROVE  ServeInv' /\ [Service!Next]_<<machines, nextId, Working>>
<1>0. req \in [Req -> Request] /\ userLocks \in [User -> Req \cup {NoReq}]
  BY DEF TypeInv, TypeOK
<1>1. ASSUME NEW r \in Req, ReqStep(r)
      PROVE  ServeInv' /\ [Service!Next]_<<machines, nextId, Working>>
  <2>1. CASE GetLive(r) \/ GetWrite(r)
    BY <2>1, ReadersServe DEF Service!Next
  <2>2. CASE ~GetLive(r) /\ ~GetWrite(r)
    <3>1. Serves(r)
      BY <1>1, <2>2, HandlerServes
    <3>2. Service!Work(req[r].user) /\ ServeInv'
      BY <3>1, ServesWorks, GoesOnServes DEF Serves
    <3>3. req[r].user \in User
      BY <3>1 DEF Serves, GoesOn, TypeInv, Bound
    <3> QED
      BY <3>2, <3>3 DEF Service!Next
  <2> QED
    BY <2>1, <2>2
<1>2. ASSUME NEW r \in Req, NEW op \in ClientOps, NEW u \in User, NEW n \in Name,
             ReqBegin(r, op, u, n)
      PROVE  ServeInv' /\ UNCHANGED <<machines, nextId, Working>>
  <2> DEFINE get == [pc |-> "getLive", op |-> op, user |-> NoUser, name |-> n,
                     id |-> machines[n].id, seen |-> machines[n].state]
             wait == [pc |-> "lock", op |-> op, user |-> u, name |-> n, id |-> 0, seen |-> "none"]
  <2>1. Fits(get)
    BY PCFacts DEF Fits, DeletePC
  <2>2. op # "get" => Fits(wait)
    BY PCFacts DEF Fits, DeletePC
  <2>3. /\ req' = [req EXCEPT ![r] = get] \/ (op # "get" /\ req' = [req EXCEPT ![r] = wait])
        /\ userLocks' = userLocks /\ machines' = machines /\ nextId' = nextId /\ req[r].pc = "idle"
    BY <1>2 DEF ReqBegin, At
  <2> HIDE DEF get, wait
  <2>4. Fits(req'[r]) /\ \A q \in Req \ {r} : req'[q] = req[q]
    BY <1>0, <2>1, <2>2, <2>3
  <2> QED
    BY <2>3, <2>4, LockedIsBusy, OutsideServes
<1>3. ASSUME NEW r \in Req, AcquireUserLock(r)
      PROVE  ServeInv' /\ \E u \in User : Service!Serve(u)
  <2> DEFINE u == req[r].user
             rec == [req[r] EXCEPT !.pc = "begin"]
  <2>1. /\ req[r].pc = "lock" /\ userLocks[u] = NoReq /\ userLocks' = [userLocks EXCEPT ![u] = r]
        /\ req' = [req EXCEPT ![r] = rec] /\ machines' = machines /\ nextId' = nextId
    BY <1>3 DEF AcquireUserLock, At, Goto
  <2>2. req[r] \in Request /\ u \in User /\ req[r].name \in Name /\ req[r].op \in ClientOps \ {"get"}
    BY <1>0, <2>1 DEF TypeInv, Bound, ServeInv, Fits, Request
  <2>3. /\ rec.pc = "begin" /\ rec.op = req[r].op /\ rec.name = req[r].name /\ rec.user = u
    BY <2>2 DEF Request
  <2> HIDE DEF rec
  <2>4. "begin" \in LockedPC /\ Fits(rec)
    BY <2>2, <2>3, HoldingPCs DEF Fits, DeletePC
  <2>5. r # NoReq /\ \A w \in User : userLocks[w] # NoReq => userLocks[w] \in Req /\ userLocks[w] # r
    BY <1>0, <2>1, ConstantsAssumption, PCFacts DEF ServeInv, LocksHeld
  <2>6. req'[r] = rec /\ \A q \in Req \ {r} : req'[q] = req[q]
    BY <1>0, <2>1
  <2>7. LocksHeld'
    BY <1>0, <2>1, <2>3, <2>4, <2>5, <2>6 DEF ServeInv, LocksHeld
  <2>8. \A q \in Req : Fits(req'[q])
    BY <2>4, <2>6 DEF ServeInv
  <2>9. Working[u] = Service!Nothing
    BY <2>1, <2>2 DEF Working, Service!Nothing
  <2>10. \A w \in User : Working'[w] = IF w = u THEN [op |-> req[r].op, name |-> req[r].name]
                                       ELSE Working[w]
    BY <1>0, <2>1, <2>2, <2>3, <2>5, <2>6 DEF Working
  <2>11. Working' = [Working EXCEPT ![u] = [op |-> req[r].op, name |-> req[r].name]]
    BY <2>2, <2>10 DEF Working
  <2>12. req[r].op \in DOMAIN Service!Outcomes
    BY <2>2, OutcomeFacts DEF ClientOps
  <2>13. Service!Serve(u)
    BY <2>1, <2>2, <2>9, <2>11, <2>12 DEF Service!Serve
  <2> QED
    BY <2>2, <2>7, <2>8, <2>13 DEF ServeInv
<1>4. CASE \E j \in Job : JobStep(j)
  BY <1>4, JobsServe DEF Service!Next
<1>5. CASE \E p \in Pass : ReconStep(p)
  BY <1>5, PassesServe DEF Service!Next
<1>6. CASE (\E n \in Name : VMExit(n)) \/ UNCHANGED vars
  <2>1. userLocks' = userLocks /\ req' = req /\ machines' = machines /\ nextId' = nextId
    BY <1>6 DEF VMExit, vars
  <2> QED
    BY <2>1, LocksUntouched
<1>7. CASE Crash \/ Reboot
  <2>1. /\ userLocks' = [u \in User |-> NoReq] /\ req' = [r \in Req |-> IdleReq]
        /\ machines' = machines /\ nextId' = nextId
    BY <1>7 DEF Crash, Reboot, Restart
  <2>2. Fits(IdleReq)
    BY PCFacts DEF Fits, IdleReq, DeletePC
  <2>3. ServeInv'
    BY <2>1, <2>2 DEF ServeInv, LocksHeld
  <2>4. Service!Restart
    BY <2>1 DEF Service!Restart, Working, Service!Nothing
  <2> QED
    BY <2>3, <2>4 DEF Service!Next
<1> QED
  BY <1>1, <1>2, <1>3, <1>4, <1>5, <1>6, <1>7 DEF Next, Service!Next

LEMMA ServiceInit == Init => ServeInv /\ Service!Init
<1> SUFFICES ASSUME Init PROVE ServeInv /\ Service!Init
  OBVIOUS
<1>1. Fits(IdleReq)
  BY PCFacts DEF Fits, IdleReq, DeletePC
<1>2. ServeInv
  BY <1>1 DEF Init, ServeInv, LocksHeld
<1>3. Service!Init
  BY DEF Init, Service!Init, Service!NoRow, NoRecord, Working, Service!Nothing
<1> QED
  BY <1>2, <1>3

\* Through all the handlers, jobs, passes and crashes the machines table is
\* what the service says: a user is served one operation at a time, only it
\* inserts, removes or marks his rows, and what else is written ends a creation
\* or follows a VM (lockUserMutations, DeleteMachine, StartMachine, StopMachine,
\* CloneMachine, finishCreateSuccess, ReconcileRuntimeState).
THEOREM LifecycleIsService == Spec => ImplementsService
<1>1. Spec => [](TypeInv /\ IInv)
  BY Invariance
<1>2. TypeInv /\ IInv /\ ServeInv /\ [Next]_vars => ServeInv' /\ [Service!Next]_<<machines, nextId, Working>>
  BY ServiceStep
<1> QED
  BY <1>1, <1>2, ServiceInit, PTL DEF Spec, ImplementsService, Service!Spec
=============================================================================
