------------------------------ MODULE VMRuntime ------------------------------
(***************************************************************************)
(* The Cloud Hypervisor runtime on one host: the directory of each machine *)
(* with its metadata file, its network namespace and host-side address,    *)
(* its VM process and its port forwarders, and the calls that build, start, *)
(* stop, delete and read machines.  Only networkMu is shared; a call works *)
(* on the copy of the metadata it loaded and stores that copy whole.       *)
(*                                                                         *)
(* The two forwarders of a machine are one process here.  Processes have   *)
(* ids that are not used again while some metadata name them.  Of the      *)
(* callers that hold a user's lock two things are assumed, which that lock *)
(* and the row states give: one call builds a machine, and meanwhile it is *)
(* not started or stopped; at most one of their starts, stops and deletes  *)
(* is under way for a machine.  The reconcile pass and the failing create  *)
(* jobs delete without a lock, whatever else is under way: Reap.           *)
(***************************************************************************)
EXTENDS Naturals, FiniteSets

CONSTANTS
  Name,
  Op,            \* calls into the runtime that may be under way together
  NoOp,
  Addrs,         \* the number of /30 networks
  MaxPid,        \* the ids of a machine's VM processes,
  MaxFwd,        \* and of its forwarders
  MaxCrash       \* deaths of the server

ASSUME RuntimeAssumption == Addrs \in Nat /\ MaxPid \in Nat /\ MaxFwd \in Nat /\ MaxCrash \in Nat

VARIABLES
  dir,           \* the state directory: "none", "bare" (no metadata), "meta"
  meta,          \* the metadata file, when there is one
  net,           \* the address of each machine's host interface, 0 without one
  vms, forwards, \* the live processes: pairs of a machine and an id
  mutex,         \* the holder of networkMu
  op,            \* what each call is doing
  crashes,
  raced,         \* history: machines that a delete without lock has met while
                 \* they were being built or started
  stale          \* history: machines whose metadata a forwarder's start
                 \* overwrote although they had changed since they were loaded

disk == <<dir, meta>>
processes == <<vms, forwards>>
rvars == <<disk, net, processes, mutex, op, crashes, raced, stale>>

Meta == [addr : 0 .. Addrs, vm : 0 .. MaxPid, fwd : 0 .. MaxFwd]
NoMeta == [addr |-> 0, vm |-> 0, fwd |-> 0]

Idle == [pc |-> "idle", kind |-> "none", name |-> "none", meta |-> NoMeta,
         cancelled |-> FALSE]

RuntimeInit ==
  /\ dir  = [n \in Name |-> "none"] /\ meta = [n \in Name |-> NoMeta]
  /\ net  = [n \in Name |-> 0]
  /\ vms = {} /\ forwards = {}
  /\ mutex = NoOp
  /\ op = [o \in Op |-> Idle]
  /\ crashes = 0 /\ raced = {} /\ stale = {}

\* Nothing is claimed of a host on which such a store has mixed up a machine,
\* and no further calls are made then.
Orderly == stale = {}

On(n, kinds) == {o \in Op : op[o].name = n /\ op[o].kind \in kinds}
Changes == {"start", "stop", "delete"}

\* A build or a start begins: beside a delete without lock it is a race.
Meets(n) == raced' = IF On(n, {"reap"}) = {} THEN raced ELSE raced \cup {n}

Alive(n, id) == <<n, id>> \in vms
Forwarding(n, id) == <<n, id>> \in forwards

\* An id that no process of the machine has and none of its metadata name;
\* <<n, id>> is not mixed up with a process of another machine.
Metas(n) == {meta[n]} \cup {op[o].meta : o \in {q \in Op : op[q].name = n}}
NewPids(max, used) ==
  LET new == (1 .. max) \ used IN {p \in new : \A q \in new : p <= q}
NewVM(n)  == NewPids(MaxPid, {p[2] : p \in {q \in vms : q[1] = n}} \cup {m.vm : m \in Metas(n)})
NewFwd(n) == NewPids(MaxFwd, {p[2] : p \in {q \in forwards : q[1] = n}} \cup {m.fwd : m \in Metas(n)})

Goto(o, pc) == op' = [op EXCEPT ![o].pc = pc]
Leave(o) ==
  /\ op' = [op EXCEPT ![o] = Idle]
  /\ mutex' = IF mutex = o THEN NoOp ELSE mutex

\* storeMetadata fails when the directory has gone.
Store(n, m) ==
  /\ dir'  = [dir EXCEPT ![n] = IF @ = "none" THEN @ ELSE "meta"]
  /\ meta' = IF dir[n] = "none" THEN meta ELSE [meta EXCEPT ![n] = m]

Remove(n) ==
  /\ dir'  = [dir EXCEPT ![n] = "none"]
  /\ meta' = [meta EXCEPT ![n] = NoMeta]

-----------------------------------------------------------------------------
(* Calls begin *)

\* The Stat of createMachineFromBaseImage and restoreMachineFromSnapshot.
Create(o, n) ==
  /\ op[o] = Idle /\ Orderly /\ On(n, Changes \cup {"create"}) = {}
  /\ dir[n] = "none"
  /\ op' = [op EXCEPT ![o] = [Idle EXCEPT !.pc = "mkdir", !.kind = "create", !.name = n]]
  /\ Meets(n)
  /\ UNCHANGED <<disk, net, processes, mutex, crashes, stale>>

StartAnew(o, n) ==
  /\ op[o] = Idle /\ Orderly /\ On(n, Changes \cup {"create"}) = {}
  /\ dir[n] = "meta"
  /\ op' = [op EXCEPT ![o] = [Idle EXCEPT !.pc = "lock", !.kind = "start", !.name = n, !.meta = meta[n]]]
  /\ Meets(n)
  /\ UNCHANGED <<disk, net, processes, mutex, crashes, stale>>

\* loadMetadata, and the branch on whether the VM is alive.
Start(o, n) ==
  /\ op[o] = Idle /\ Orderly /\ On(n, Changes \cup {"create"}) = {}
  /\ dir[n] = "meta"
  /\ op' = [op EXCEPT ![o] =
       [Idle EXCEPT !.pc = IF Alive(n, meta[n].vm) THEN "forward" ELSE "lock",
                    !.kind = "start", !.name = n, !.meta = meta[n]]]
  /\ Meets(n)
  /\ UNCHANGED <<disk, net, processes, mutex, crashes, stale>>

\* A delete has cancelled the create job of its machine.
StopOrDelete(o, n, kind) ==
  /\ op[o] = Idle /\ Orderly /\ On(n, Changes) = {}
  /\ kind = "stop" => On(n, {"create"}) = {}
  /\ dir[n] = "meta"
  /\ op' = [q \in Op |->
       IF q = o THEN [Idle EXCEPT !.pc = "unforward", !.kind = kind, !.name = n,
                                  !.meta = meta[n]]
       ELSE IF q \in On(n, {"create"}) THEN [op[q] EXCEPT !.cancelled = TRUE]
       ELSE op[q]]
  /\ UNCHANGED <<disk, net, processes, mutex, crashes, raced, stale>>

\* DeleteMachine of a reconcile pass and of cleanupRuntimeMachine: no lock is
\* taken, no build cancelled.
Reap(o, n) ==
  /\ op[o] = Idle /\ Orderly
  /\ dir[n] = "meta"
  /\ op' = [op EXCEPT ![o] = [Idle EXCEPT !.pc = "unforward", !.kind = "reap", !.name = n,
                                          !.meta = meta[n]]]
  /\ raced' = IF On(n, {"create", "start"}) = {} THEN raced ELSE raced \cup {n}
  /\ UNCHANGED <<disk, net, processes, mutex, crashes, stale>>

\* GetMachine and ListMachines: without effect unless the VM is alive and its
\* forwarder is not.
Get(o, n) ==
  /\ op[o] = Idle /\ Orderly
  /\ dir[n] = "meta" /\ Alive(n, meta[n].vm) /\ ~Forwarding(n, meta[n].fwd)
  /\ op' = [op EXCEPT ![o] = [Idle EXCEPT !.pc = "forward", !.kind = "get", !.name = n,
                                          !.meta = meta[n]]]
  /\ UNCHANGED <<disk, net, processes, mutex, crashes, raced, stale>>

-----------------------------------------------------------------------------
(* Building and starting *)

Mkdir(o) ==
  LET n == op[o].name IN
  /\ op[o].pc = "mkdir"
  /\ dir' = [dir EXCEPT ![n] = IF @ = "none" THEN "bare" ELSE @]
  /\ Goto(o, "lock")
  /\ UNCHANGED <<meta, net, processes, mutex, crashes, raced, stale>>

UsedOnHost(n) == {net[m] : m \in Name}

\* prepareNetworkMetadata: the addresses of the other machines' metadata, and
\* of the host's interfaces whoever they belong to.
Used(n) == {meta[m].addr : m \in Name \ {n}} \cup {net[m] : m \in Name}
Free(n) == {a \in 1 .. Addrs : a \notin Used(n)}
FirstFree(n) == CHOOSE a \in Free(n) : \A b \in Free(n) : a <= b

\* Under networkMu: the metadata are stored before the network exists.
Prepare(o) ==
  LET n == op[o].name
      m == [NoMeta EXCEPT !.addr = FirstFree(n)] IN
  /\ op[o].pc = "lock" /\ op[o].kind = "create" /\ mutex = NoOp
  /\ \/ /\ Free(n) # {} /\ dir[n] # "none"
        /\ Store(n, m)
        /\ op' = [op EXCEPT ![o].pc = "network", ![o].meta = m]
        /\ mutex' = o
     \/ Remove(n) /\ Leave(o)
  /\ UNCHANGED <<net, processes, crashes, raced, stale>>

StartLock(o) ==
  /\ op[o].pc = "lock" /\ op[o].kind = "start" /\ mutex = NoOp
  /\ mutex' = o /\ Goto(o, "network")
  /\ UNCHANGED <<disk, net, processes, crashes, raced, stale>>

\* createNamespaceNetwork (and, of a build, disk and seed before it).  What
\* the machine had is deleted first; a failure takes the rest away as well,
\* unless nothing was begun.
Network(o) ==
  LET n == op[o].name  m == op[o].meta IN
  /\ op[o].pc = "network"
  /\ \/ /\ ~op[o].cancelled
        /\ net' = [net EXCEPT ![n] = m.addr]
        /\ forwards' = forwards \ {<<n, m.fwd>>}
        /\ Goto(o, "boot")
        /\ UNCHANGED <<disk, mutex>>
     \/ /\ \/ UNCHANGED <<net, forwards>>
           \/ /\ ~op[o].cancelled
              /\ net' = [net EXCEPT ![n] = 0]
              /\ forwards' = forwards \ {<<n, m.fwd>>}
        /\ IF op[o].kind = "create" THEN Remove(n) ELSE UNCHANGED disk
        /\ Leave(o)
  /\ UNCHANGED <<vms, crashes, raced, stale>>

\* startVM or restoreVM: the process, then the metadata with its pid; the lock
\* is released.  A failure, before or after the process is there, cleans up
\* with the lock still held.
Boot(o) ==
  LET n == op[o].name IN
  /\ op[o].pc = "boot"
  /\ \/ /\ ~op[o].cancelled /\ dir[n] # "none"
        /\ \E pid \in NewVM(n) :
           LET m == [op[o].meta EXCEPT !.vm = pid] IN
           /\ vms' = vms \cup {<<n, pid>>}
           /\ \/ /\ Store(n, m)
                 /\ mutex' = NoOp
                 /\ op' = [op EXCEPT ![o].pc = "forward", ![o].meta = m]
              \/ /\ op' = [op EXCEPT ![o].pc = "unforward", ![o].meta = m]
                 /\ UNCHANGED <<disk, mutex>>
     \/ /\ Goto(o, "unforward")
        /\ UNCHANGED <<disk, vms, mutex>>
  /\ UNCHANGED <<net, forwards, crashes, raced, stale>>

\* startForwarder, to the start of the process.
Forward(o) ==
  LET n == op[o].name IN
  /\ op[o].pc = "forward"
  /\ \/ /\ Forwarding(n, op[o].meta.fwd)
        /\ Goto(o, "wait") /\ UNCHANGED forwards
     \/ /\ ~Forwarding(n, op[o].meta.fwd) /\ dir[n] # "none" /\ ~op[o].cancelled
        /\ \E pid \in NewFwd(n) :
             /\ forwards' = forwards \cup {<<n, pid>>}
             /\ op' = [op EXCEPT ![o].pc = "port", ![o].meta.fwd = pid]
     \/ /\ ~Forwarding(n, op[o].meta.fwd)
        /\ Goto(o, "failed") /\ UNCHANGED forwards
  /\ UNCHANGED <<disk, net, vms, mutex, crashes, raced, stale>>

\* The same VM process in the same network.
Same(m, k) == m.addr = k.addr /\ m.vm = k.vm

\* The forwarder writes its port file, making the directory when it has gone,
\* and the metadata loaded before are stored with its pid.
Port(o) ==
  LET n == op[o].name IN
  /\ op[o].pc = "port"
  /\ \/ /\ dir'  = [dir EXCEPT ![n] = "meta"]
        /\ meta' = [meta EXCEPT ![n] = op[o].meta]
        /\ Goto(o, "wait")
        /\ stale' = IF dir[n] = "meta" /\ Same(meta[n], op[o].meta) THEN stale
                    ELSE stale \cup {n}
     \/ Goto(o, "failed") /\ UNCHANGED <<disk, stale>>
  /\ UNCHANGED <<net, processes, mutex, crashes, raced>>

\* The guest answers, or does not; a read does not wait for it, nor does a
\* start that found its VM alive.
Wait(o) ==
  /\ op[o].pc = "wait"
  /\ ~op[o].cancelled
  /\ Leave(o)
  /\ UNCHANGED <<disk, net, processes, crashes, raced, stale>>

\* A build removes what it made, a start stops what it started, a read
\* returns the error.
Fail(o) ==
  /\ op[o].pc \in {"failed", "wait"}
  /\ IF op[o].kind = "get" THEN Leave(o)
     ELSE Goto(o, "unforward") /\ UNCHANGED mutex
  /\ UNCHANGED <<disk, net, processes, crashes, raced, stale>>

-----------------------------------------------------------------------------
(* stopMachineRuntime and cleanupMachine *)

Unforward(o) ==
  LET n == op[o].name IN
  /\ op[o].pc = "unforward"
  /\ forwards' = forwards \ {<<n, op[o].meta.fwd>>}
  /\ op' = [op EXCEPT ![o].pc = "halt", ![o].meta.fwd = 0]
  /\ UNCHANGED <<disk, net, vms, mutex, crashes, raced, stale>>

\* The guest is given 45 s to shut down, its process 10 s more, then the
\* process is killed.
Halt(o) ==
  /\ op[o].pc = "halt"
  /\ vms' = vms \ {<<op[o].name, op[o].meta.vm>>}
  /\ op' = [op EXCEPT ![o].pc = "unlink", ![o].meta.vm = 0]
  /\ UNCHANGED <<disk, net, forwards, mutex, crashes, raced, stale>>

UnlinkNothing(o) ==
  /\ op[o].pc = "unlink"
  /\ Goto(o, "store")
  /\ UNCHANGED <<disk, net, processes, mutex, crashes, raced, stale>>

\* deleteNamespaceNetwork.
Unlink(o) ==
  /\ op[o].pc = "unlink"
  /\ net' = [net EXCEPT ![op[o].name] = 0]
  /\ Goto(o, "store")
  /\ UNCHANGED <<disk, processes, mutex, crashes, raced, stale>>

\* The metadata say so; a build and a delete go on to the directory.
StoreStopped(o) ==
  /\ op[o].pc = "store"
  /\ Store(op[o].name, op[o].meta)
  /\ IF op[o].kind \in {"create", "delete", "reap"}
     THEN Goto(o, "remove") /\ UNCHANGED mutex
     ELSE Leave(o)
  /\ UNCHANGED <<net, processes, crashes, raced, stale>>

RemoveAll(o) ==
  /\ op[o].pc = "remove"
  /\ Remove(op[o].name)
  /\ Leave(o)
  /\ UNCHANGED <<net, processes, crashes, raced, stale>>

-----------------------------------------------------------------------------
(* The environment *)

\* The guest powers off.
VMExit ==
  /\ \E p \in vms : vms' = vms \ {p}
  /\ UNCHANGED <<disk, net, forwards, mutex, op, crashes, raced, stale>>

\* The server dies and comes back; its children live on (KillMode=process).
Crash ==
  /\ crashes < MaxCrash
  /\ crashes' = crashes + 1
  /\ op' = [o \in Op |-> Idle] /\ mutex' = NoOp
  /\ UNCHANGED <<disk, net, processes, raced, stale>>

Step(o) ==
  \/ Mkdir(o) \/ Prepare(o) \/ StartLock(o) \/ Network(o) \/ Boot(o)
  \/ Forward(o) \/ Port(o) \/ Wait(o) \/ Fail(o)
  \/ Unforward(o) \/ Halt(o) \/ Unlink(o) \/ StoreStopped(o) \/ RemoveAll(o)

RuntimeNext ==
  \/ \E o \in Op, n \in Name :
       \/ Create(o, n) \/ Start(o, n) \/ Reap(o, n) \/ Get(o, n)
       \/ \E kind \in {"stop", "delete"} : StopOrDelete(o, n, kind)
  \/ \E o \in Op : Step(o)
  \/ VMExit \/ Crash

RuntimeSpec == RuntimeInit /\ [][RuntimeNext]_rvars

-----------------------------------------------------------------------------
(* Properties *)

OpPC == {"idle", "mkdir", "lock", "network", "boot", "forward", "port", "wait",
         "failed", "unforward", "halt", "unlink", "store", "remove"}
Call == [pc : OpPC, kind : {"none", "create", "start", "stop", "delete", "reap", "get"},
         name : Name \cup {"none"}, meta : Meta, cancelled : BOOLEAN]

RuntimeTypeOK ==
  /\ dir \in [Name -> {"none", "bare", "meta"}] /\ meta \in [Name -> Meta]
  /\ net \in [Name -> 0 .. Addrs]
  /\ vms \subseteq Name \X (1 .. MaxPid) /\ forwards \subseteq Name \X (1 .. MaxFwd)
  /\ mutex \in Op \cup {NoOp} /\ op \in [Op -> Call] /\ crashes \in 0 .. MaxCrash
  /\ raced \subseteq Name /\ stale \subseteq Name

\* Machines that are built, started and deleted together never get the same
\* address, neither in their metadata nor on the host.  Nothing is claimed of
\* a machine that a delete without lock has met during a build or a start.
AddressesDiffer ==
  \A m, n \in Name \ raced : m # n /\ Orderly =>
    /\ net[m] # 0 => net[m] # net[n]
    /\ dir[m] = "meta" /\ dir[n] = "meta" => meta[m].addr # meta[n].addr

\* A machine has one VM process at most, so one writer of its disk.
OneVM ==
  \A n \in Name \ raced :
    Orderly /\ crashes = 0 => Cardinality({p \in vms : p[1] = n}) <= 1

\* Between calls, the interface and the VM process of a machine are those its
\* metadata name, and a machine without directory has neither.  (Of its
\* forwarders this is not true: a read that overlaps a stop may leave one.)
NothingLost ==
  \A n \in Name \ raced :
    Orderly /\ crashes = 0 /\ On(n, Changes \cup {"create", "reap", "get"}) = {} =>
      /\ net[n] # 0 => dir[n] = "meta" /\ meta[n].addr = net[n]
      /\ \A p \in vms : p[1] = n => dir[n] = "meta" /\ meta[n].vm = p[2]
=============================================================================
