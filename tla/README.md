# Fascinate in TLA+

Fascinate is a Go server that gives users persistent developer VMs. One process
holds an HTTP API, a control plane over an SQLite database, a runtime that drives
Cloud Hypervisor on the host, browser terminals, and background loops. This
directory holds TLA+ models of it, the TLC runs that check them and TLAPS proofs
about them. File and line references are to `src/`.

Contents: 1 the system, 2 modules, 3 how model and code correspond, 4 properties,
5 runs and bounds, 6 fairness, 7 proofs, 8 what the documents say and the code
does not, 9 what is left out, 10 plan.

## 1. The system

| component | state | operations | what is hard | what makes it correct |
|---|---|---|---|---|
| machine lifecycle (`controlplane/service.go`, `machine_power.go`) | rows of `machines`; `createCancels`, `userLocks`, `hostLocks` in memory | create, delete, start, stop, fork, get, list; create jobs; reconcile | handlers hold a per-user lock only, while jobs, reads and reconcile take no lock; every database and runtime call is an interleaving point; crash | a handler works on its own row to the end; a creation in progress is not disturbed; every row leaves its transitional state; table and runtime converge |
| machines table (`database/machines.go`) | one row per name, unique index over all users | insert, get by name, update by id, delete by id | update of a row deleted meanwhile; a new row of the same name | no update reaches a row it was not meant for |
| VM runtime (`runtime/cloudhypervisor`) | per machine a directory with metadata, a network namespace, a VM process, forwarders; `networkMu` | create, restore, start, stop, delete, get, list | each call stores the copy of the metadata it loaded; half-built directories, processes that end by themselves, failures between process and metadata | one VM per disk, one address per machine, no VM or network nobody knows of |
| admission and hosts (`budgets.go`, `hosts.go`) | machine and snapshot reservations, host capacity and heartbeat | check of user budget and host headroom, placement | sum, compare and insert under the host lock while others write rows without it | no user over his budget of memory and machines, no host over its memory and CPU |
| snapshots (`service.go`, `database/snapshots.go`, runtime `snapshots.go`) | snapshot rows and artifact directories | create (asynchronous), delete, list, fork | the save pauses and resumes a VM that others pause, stop and start; it outlives its request; delete, list and crash during the save | a disk is copied of a VM that stands still; what is READY can be restored |
| env vars (`envvars.go`) | rows per user, files in each guest | set, delete, sync to running machines | background syncs reorder; a machine starts meanwhile | stored values render; guests end with them |
| tool auth (`toolauth`) | two files per user, tool and method | capture, restore, mark | files replaced one by one through shared names, no lock | profile and bundle belong together; a login is not lost to an empty capture |
| browser auth (`browserauth`, `database`) | e-mail codes, web sessions, API tokens | request and verify code, authenticate, log out | several live codes, double submits, expiry | a code pays for one grant; a logout is final |
| shells (`browserterm/manager.go`) | shell rows, attachment tokens, connections, tmux in the guest, the git gate | create, attach, stream, command, git, delete | the row is read before the lock is taken; a delete has four steps | a token admits one websocket; a delete ends the shell |
| exec jobs (`browserterm/exec.go`) | rows of `execs`; `execJobs` with each job's context, result and subscribers | start, follow, cancel, finish | cancel, timeout and the end of the process race; streams subscribe while the job ends; a full subscriber is dropped | one outcome for all who ask, no gaps in what a stream is given, nobody left waiting |
| events (`httpapi/events.go`, `database/events.go`) | event table, subscriptions with a buffer of 64 | append, publish, replay, subscribe | replay and subscribe are two steps, publish drops, ids are random | a client hears of its own events only; what it misses, it misses in a known way |
| image store (`images.go`, `cmd/fascinate`) | candidate and release directories, two links | build, validate, promote, rollback, from several processes | no lock; commands may be killed between two steps | what is current has booted under validation |
| app loops (`app/app.go`) | none of their own | startup reconcile (2 minutes), reconcile every 30 s, heartbeat, tool-auth capture | the startup pass and the loop may overlap | drift does not last |
| HTTP routes, CLI, file transfers, web UI, diagnostics, config, migrations, ops | | | | not modelled, see section 9 |

Interactions: the HTTP layer calls the control plane in one goroutine per request.
`CreateMachine` is admitted under the host lock, inserts a `CREATING` row, starts a
goroutine and returns; the goroutine calls the runtime, writes environment and tool
state into the guest, and finishes the row. `DeleteMachine` cancels that goroutine
through `createCancels`. Reads ask the runtime and write what they learn back into the
row. The reconcile pass does the same for all rows, deletes VMs without rows and
requeues creations that lost their goroutine to a crash. Snapshots and forks pause the
VM of a running machine. Shells and commands go to the guest of a running machine
directly, over ssh. All of them append events.

## 2. Modules

| module | what it is |
|---|---|
| `MachineLifecycle` | table, runtime as the control plane sees it, locks, handlers, jobs, passes |
| `MachineService` | abstract: the rows a user has and the one operation he is served; implemented by `MachineLifecycle` (`INSTANCE ... WITH`) |
| `MachineClaims` | two sentences of the documents about it that the code does not keep |
| `ExecJob` | one command in a machine: its row, job, process, the reader of its output, streams and cancels |
| `Snapshots` | the snapshots and forks of one machine: rows, saves, artifacts, deletes, lists |
| `Admission` | the checks of budget and headroom, the rows they add up, placement and heartbeat |
| `VMRuntime` | directories, metadata, addresses, processes and forwarders of the machines on a host |
| `Accounts` | codes, sign-ins, sessions and tokens, logouts |
| `EventFeed` | abstract: a log that grows and clients that are told of their own events in it |
| `EventStream` | the hub, the replay and the returning client; implements `EventFeed` (`INSTANCE ... WITH`) |
| `ShellAttach` | the shells of a machine with tokens, websockets, commands and deletes |
| `EnvSync` | a user's variables, their validation and their way into the guests |
| `ToolAuth` | one persisted login, its two files, captures, restores and marks |
| `ImageStore` | the image directories and links under several commands, and the machines made from them |
| `MC...` | what an instance needs beyond its `.cfg`: symmetry, functions as constants, the union of several components (section 5) |
| `...Proofs` | the theorems about a module with their proofs |

The modules meet at few points, and each models what it sees of the others as an input:
`ChangeState` in `Admission` is what the handlers, jobs and reads of `MachineLifecycle`
write into a row; the admission in `MachineLifecycle` is an accept or reject; `vms`
there is what `VMRuntime`'s directories and processes show to `machineFromMetadata`, and
what `VMRuntime` assumes of the callers that hold a user's lock (one start, stop or
delete of a machine at a time) is `OneHandlerPerMachine`, while `Reap` there is the
delete of `ReconDelete` and `JobCleanup`, which hold none; `MachineDeleted` of
`ExecJob`, `SourceStop` and `SourceStart` of `Snapshots`, `MachineDown` of `ShellAttach`
and the builds of `EnvSync` are the lifecycle as these components see it.

## 3. Model and code

One action is one database statement, one runtime call, or one use of an in-memory
lock or map: between two of these another goroutine may run. Where steps are merged it
is said below. A mutant (a definition such as `EnterUnlocked`) stands next to the
definition it replaces and is used by no specification.

### MachineLifecycle

Each handler has a control point `req[r].pc`, each create job `job[j].pc`, each pass
`recon[p].pc`.

| variable | code |
|---|---|
| `machines`, `nextId` | the table; a row is its id, owner and state, ids are never reused |
| `vms` | `<state dir>/<name>`: `none`, `dir` (no readable metadata), `STOPPED`, `RUNNING` as `machineFromMetadata` reports |
| `createCancels` | `Service.createCancels`, by name |
| `userLocks`, `hostLock` | the mutexes of `lockUserMutations` and `lockHostMutations` |
| `req` | a request: operation, user, name, the id of the row it works on, the state it saw |
| `job` | `runMachineCreate` goroutines with their context's cancellation and the state the runtime reported |
| `recon` | a pass: the rows it listed, the VMs it listed, the names it has still to visit |

Actions by operation:

- arrival: `ReqBegin`, `AcquireUserLock`, `ReqRead` (row read, state check)
- create: `CreateAdmit`, `CreateQueue`; then the job: `JobBuild` (four steps of
  `Building`), `JobBuilt`, `JobEnv`, `JobFinish`, `JobPersist`, `JobCleanup`,
  `JobFailMark`, `JobClear`. What `JobPersist` writes is what the runtime reported of the
  new VM (`Reported`, kept in the job's `live`): `RUNNING`, or `STOPPED` when the VM died
  after its guest had answered
- delete: `DeleteMark`, `DeleteRuntime`, `DeleteRuntimeError`, `DeleteDb`
- start: `StartMark`, `StartRun`, `StartGuest`, `StartEnv`, `StartDone`, `StartFail`;
  stop: `StopMark`, `StopRun`, `StopDone`, `StopFail`; both end in `Refresh`, `Adopt`
- fork: `ForkRead`, `ForkAdmit`, `ForkBuild`, `ForkBuilt`, `ForkDone` (which persists what
  was reported), `ForkEnv`, `ForkFail`, `ForkMark`
- get and list: `GetLive`, `GetWrite`
- reconcile: `ReconList`, `ReconRuntime`, `ReconDelete`, `ReconDeleted`, `ReconVisit`,
  `ReconEnd`
- environment: `VMExit`, `Crash`, `Reboot`

`MachineService` is what remains of this for the owner of a machine. Its `working` is
read off the locks (`Working`: who holds a user's lock is what the user is served);
`Serve`, `Insert`, `Change`, `Remove`, `CreationEnds`, `Follow` and `Restart` say who may
write which state into whose row. Runtime, jobs, passes and the locks themselves are
gone: their steps are stutters or one of these.

What is merged or abstracted:

- Admission is an arbitrary accept or reject inside the host lock. There is one host.
- `DeleteMachine`'s row read and `takeCreateCancel` are one step, as are a fork's read
  of its source and the runtime `GetMachine` of it: nothing in between changes what
  the second sees except in ways another order of whole steps also gives.
- `finishCreateFailure`'s read by name and its update are one step.
- Runtime `DeleteMachine` stops and removes in one step when it succeeds; when it fails
  the VM may have been stopped. `Stat` and `MkdirAll` of a build are one step.
- Database errors other than "not found" are left out, except the expired context of a
  delete (`deleteTimeout`), the one the code's own numbers make likely: 30 s for the
  whole delete, 45 s for a guest to shut down.
- Disk usage, events, tool auth and the contents of a guest are left out. A runtime name
  equals the machine's name.
- `CREATING` jobs restored from a snapshot start like the others; a lookup that fails
  before the build is the job starting at `fail`.

`Faults` selects what may go wrong in an instance: failing runtime calls
(`runtimeError`), the expired delete (`deleteTimeout`), a pass that ends early
(`reconcileError`), a VM whose process ends (`vmExit`), a control-plane crash
(`crash`: all memory is lost, VMs run on), a host reboot (`reboot`: VMs stop too).

### ExecJob

Commands have ids of their own and share only the map `execJobs`, so one command
stands for all.

| variable | code |
|---|---|
| `row` | the row of `execs`: its state, and whether `cancel_requested_at` is set |
| `registered` | the entry in `execJobs` |
| `ctx`, `cancelled`, `final`, `subs` | the job: its context, `cancelled`, `final`, `subscribers` |
| `chan` | the channel of each stream, its content and whether it is open |
| `run`, `err`, `outcome` | where `CreateExec` and then `runExec` are, what `Wait` returned, the state decided on |
| `cmd`, `out`, `pipe`, `read`, `reader` | the ssh process, the chunks it has written, our end of its output, and `captureExecStream` |
| `stream`, `cancel` | requests in `StreamExec` and `CancelExec` |

- the job: `Create`, `Register`, `Prepare`, `Wait`, `Drain`, `Complete`, `SetFinal`,
  `BroadcastResult`, `CloseSubscribers`, `Unregister`
- the process and its reader: `Write`, `Exit`, `Kill`, `Read`, `ReadEnd`
- a stream: `StreamLoad`, `StreamLookup`, `StreamSubscribe`, `StreamReceive`,
  `StreamClosed`, `StreamGone`; a cancel: `CancelLoad`, `CancelMark`, `CancelLookup`,
  `CancelFlag`, `CancelFire`
- the environment: `Deadline`, `MachineDeleted`, `Crash`

Merged or abstracted: a read of the pipe and the broadcast of what it returned are one
step (one goroutine, and only the job's lock in between); the classification of an
error reads context and flag in one step; stdout and stderr are one stream of numbered
chunks; texts, the 256 KiB store limit, stdin and events are left out. `Buffer` stands
for the 128 of the code. `Wait` closes the pipe, as the documentation of `os/exec` says,
and a read after that is an error whatever was in it.

`Faults` here: the request's timeout passes (`timeout`), the guest is not reached
(`noAccess`), a database call of the job fails (`storeError`), the machine is deleted
(`machineDelete`), the server dies (`crash`).

### Snapshots

| variable | code |
|---|---|
| `row` | the state in the `snapshots` table |
| `vm` | the source VM: running, paused, stopped (or deleted) |
| `tmp`, `final` | the directories `<artifact>.tmp` and `<artifact>`, and how far their content is |
| `save` | where `createSnapshotArtifact` and then `runSnapshotCreate` are |
| `fork`, `user` | ids that are a fork's temporary snapshot; the user's lock, held by a fork or a delete |
| `del`, `list` | a `DeleteSnapshot` between runtime and row; a `ListSnapshots` with the rows it read |
| `torn`, `restarted`, `dropped`, `stuck`, `crashed` | history variables of the properties |

A save goes `SavePause`, `SaveCapture`, `SaveCopy`, `SaveRename`, `SaveRewrite`,
`SaveResume`; a failure between pause and resume removes the directory and resumes too.
The resume is deferred only after the pause has been answered, and its error is dropped:
`SavePause` may fail with the VM paused (the request timed out, its context was
cancelled), `SaveResume` may leave it paused (`Resumed`), and `stuck` records either.
Then `SaveLookup`, `SaveReady` or `SaveFailed`, or `ForkReturn`. `ListRows`, `ListDirs`,
`ListAdopt` are the three steps of a list: it takes every directory with metadata, a
`.tmp` one too, for a READY snapshot. A crash runs no deferred step: the VM stays paused
until it is stopped, and a row CREATING stays so unless a list finds its directory.

### Admission and VMRuntime

`Admission`: usage is stored nowhere but added up from the rows by `calculateUserUsage`
and `calculateHostUsage`. `BeginRequest` is a handler under its user's lock, past
placement; `LockHost`, `Check`, then `Insert` or `MarkStarting`, `UnlockHost`, `Return`.
`ChangeState` is every other write into a row, by writers that take no host lock and may
have read the row long ago. `Heartbeat`, `Expire` and `Drain` change the host's row.
`Limits` is the set of configurations considered. Machines have the default size, so
memory and CPU limits count machines. Disk figures change outside admission: a disk
limit may reject any request and nothing is claimed of it. A heartbeat's read of the
usage and its write are one step. The number of snapshots and its limit are left out.

`VMRuntime`: a call loads metadata, changes its copy and stores it whole; only
`networkMu` (`mutex`) is shared. A create goes `Create` (the `Stat`), `Mkdir`, `Prepare`
(address and metadata under the mutex), `Network`, `Boot`, `Forward`, `Port`, `Wait`; a
start from `StartLock`; stop, delete and every clean-up go `Unforward`, `Halt` (the
process), `Unlink` (interface and namespace), `StoreStopped`, and a delete `RemoveAll`;
`Reap` is a delete by a reconcile pass or a failing create job, which hold no lock,
cancel no build and may meet any call; a get or list that finds a dead forwarder goes
`Forward`, `Port`. `Fail` ends a call that failed. Processes and networks (`vms`,
`forwards`, `net`) outlive the server. Two forwarders of one machine are one; process
ids are not reused while metadata name them; builds from an image and from a snapshot
are one operation. A forwarder's start stores the metadata it loaded before: if the
machine was stopped, or deleted and made again, meanwhile, the store brings the old
state back. The history variable `stale` records it, and the properties are stated for
hosts where it has not happened (`Orderly`). `raced` records the machines which a `Reap`
has met while they were built or started (by `Meets` or `Reap`, whichever came second).

### Accounts and EventStream

`Accounts`: `RequestCode` inserts a row whatever the address has; `ConsumeEmailCode` is
the one UPDATE that both finds and marks; `UpsertUser`, `CreateGrant` follow. The
handlers of requests and logouts are split where they read a row and use it
(`AuthLookup`/`AuthFinish`, `LogoutLookup`/`Revoke`). Time is the database's
`CURRENT_TIMESTAMP`, whole seconds.

`EventStream`: `Insert`, then `Publish` (or `PublishSkipped`, when the row cannot be read
back). A client `ConnectFirst` without, `ConnectAgain` with the id of the last event it
saw; `Replay` or `Missed`, `Subscribe`, `Deliver`, `Disconnect`. Events are ordered by
second and random id, as the query orders them. `FirstOf` says what `ORDER BY ... LIMIT`
returns. A client never gives an id that is not one of its own events; a connection that
gives none, the first one or not, is told nothing of the past.

### ShellAttach

`CreateAttachment` is `AttachLoad`, `AttachPut` (token into the map, expired ones out)
and `AttachTouch`; `StreamSession` is `StreamLoad` (row of the URL's shell), `Take` (under
the lock), `Register`, `StreamConnect`, `StreamConnected`, `StreamEnd`, `Unregister` with
its failures; `DeleteShell` is `DeleteLoad`, `DeleteMark`, `DeleteDrop`, `DeleteClose`,
`DeleteKill` or `DeleteUnkilled`. `SendInput` and `ReadLines` are `Cmd...`; git requests
are `Git...` on the machine's gate. Terminal contents and the parsing of git output are
left out, as is a restart of the server (it forgets tokens, connections and the gate,
and starts in `ShellInit` but for rows and tmux sessions).

### EnvSync and ToolAuth

`EnvSync`: a value is the set of user keys it refers to; `Renders` is
`renderEffectiveEnv`, which fails on an undefined or circular reference; its recursion
over the keys being resolved is the recursive function `resolved`. A change is
`LockChange`, `SetValidate` or `SetReject`, `SetStore` or `DeleteStore`, `ChangeReturn`,
or `SetUnread` when the stored row cannot be read back, which leaves no goroutine; the
goroutine it leaves is `SyncList` or `SyncListFail`, then per machine `SyncRender`,
`SyncWrite` or `SyncFail`. A machine on its way to `RUNNING` goes `CreateBoot` (no lock)
or `LockedBoot` (start, fork), `BuildRender`, `BuildWrite`, `BuildDone`; a fork's row is
`RUNNING` before its variables are written (`ForkRunning`). A rendered file is the
number of the change it was rendered from. A machine whose guest may be up though its
row does not say `RUNNING` is `AWAY`: a stop or delete has marked it or a read has
judged by an old state of the VM (`StepAside`), or a start or create failed and its VM
could not be stopped (`BuildFail`). It comes back when the stop or delete fails or the
next read or pass sees its VM (`StepBack`), or is stopped (`StopMachine`). `skipped` is
history: the machines a sync has missed since they were last written, and those whose
build failed before it wrote.

`ToolAuth`: `state.enc` and `profile.json`, each written to one shared `.tmp` name and
renamed (`SaveStateTmp`, `SaveState`, `SaveProfileTmp`, `SaveProfile`); `MarkRead`,
`MarkTmp`, `Mark` are `updateProfileMetadata`, which reads the whole profile and writes
it back. A capture is exact (delete) or preserving (loop, create); the latter looks for
a stored login before it stores an empty bundle (`CheckExisting`). A write of a
temporary file is one step; encryption, backups and the lists of files are left out.

### ImageStore

Each command has a control point `cli[c].pc`; every rename, removal, link and manifest
write is a step, and `Quit` ends the command after any of them, as a failure or a kill
would. `rewriteSymlink` removes the link (`Unlink...`) and then makes it (`Link...`).
`qemu-img convert` is one step, the download of the source image is left out. A
directory's `validated` is what its manifest says; `sound` is history: this very image
booted in a validation.

## 4. Properties

`MachineLifecycle`:

- `TypeOK`: the type invariant.
- `HandlerOwnsRecord`: from finding or inserting its row until it returns, a handler's
  row stays and keeps its owner. The lock is per user and jobs, passes and reads take
  none, so this rests on names being unique over users, on updates going by row id, on
  reconcile and reads never deleting rows, and on a failing job only marking its row.
- `OneHandlerPerMachine`: two handlers never work on one machine, although two users'
  handlers can name the same machine.
- `CreatingProtected` (an action property): a `CREATING` row changes only to `RUNNING`,
  `STOPPED` (the VM died after its guest had answered, and that is what the job or fork
  persists) or `FAILED`, and only by a create job of its name or the fork that inserted
  it. (A failing job finds the row by name: it may be a newer one, which is then marked
  too.) Passes and reads that hold an old row or an old runtime state must not touch it.
- `JobsRegistered`: a job that runs and was not cancelled is the one registered under
  its name; an entry belongs to a running job. A new job of a reused name and the
  deferred clean-up of an old one make this fragile, since clean-up goes by name: the late
  clean-up of an old job cancels and unregisters a newer one, whose creation then fails.
- `BareDirHasBuilder`: until the first crash, a directory without metadata (which no
  operation can remove) is one that a build is filling.
- `ImplementsService` (a refinement): the table is what `MachineService` says. A user is
  served one operation at a time; only the operation he is being served inserts or
  removes his rows or marks them `STARTING`, `STOPPING` or `DELETING`, and each only
  with the outcomes its handler has; without it a creation ends (`RUNNING`, `STOPPED` or
  `FAILED`), or a row that is not `CREATING` takes a settled state. Handlers write by
  name or id in up to five places and passes, jobs and reads write beside them, which is
  what this could fail on.
- `RequestsComplete`: a request that queues for its user's lock is answered.
- `CreatingResolves`: without a crash no row stays `CREATING`.
- `OrphanVMRemoved`, `RuntimeStateAdopted`: passes converge: a VM without a row goes, a
  settled row follows its VM.

Not promised, because the code does not do it: that a row and its VM agree at any
moment, that a transitional row is resolved after a crash (section 8), that a
failing job of a stale requeue spares the finished VM of the same name (it deletes it,
`service.go` 1115 and 1174).

`ExecJob`:

- `TypeOK`: the type invariant; a reader that passes the end of the output breaks it.
- `NoGaps`: a stream is given consecutive chunks from where it subscribed, and the result
  only after all that was read. Reader, streams and the dropping of full subscribers
  share the map, so a stream that cannot keep up must lose its channel, not a chunk.
- `OneOutcome`: two streams, and a stream and the row, never tell different outcomes.
  (It compares ends: a row left `RUNNING` because `CompleteExec` failed is not excluded.)
  The outcome reaches them over four paths: the row a stream loads, the broadcast, the
  `final` a late subscriber finds, and the row after `CompleteExec`.
- `SucceededIsComplete`: `SUCCEEDED` only with exit status 0 and all output read.
- `CancelledWasAsked`: a `CANCELLED` row has its request time; a timeout is not
  reported as a cancel.
- `StreamsReleased`: when the job is over no stream waits on an open channel, whenever
  it subscribed.
- `JobNeverStuck`: once a cancel has come through or the timeout has passed, the job's own
  goroutines always have a step until it is over. Its end goes through `Wait`, the two
  readers and the broadcast; the command need not exit by itself, its output need not be
  read, the store may fail and streams may stand still. The job has finitely many steps,
  so the command stops.

`Snapshots`:

- `PointInTime`: a disk is copied while the VM stands still after its memory was
  captured, although other saves pause and resume the same VM. Only a start of the
  machine during the save (`restarted`) breaks it; the code does not exclude that.
- `OnePauser`: two saves of one boot are never both inside the paused section. Nothing
  but the hypervisor's refusal to pause a VM that is not running sees to it.
- `SavedStaysRestorable`: what a save finished stays READY and complete until a delete
  is asked for, whatever lists, forks and crashes come in between.
- `PausedIsHeld`: a VM that stands still is held by a save that will resume it, whichever
  step fails and whoever else saves, forks, stops and starts. The code leaves it paused in
  three cases: the server dies (`crashed`), the pause is answered too late or the resume
  fails (`stuck`).
- `SavesSettle` (under fairness): while the server lives, no row stays CREATING and no
  save or fork goes on for ever.

`Admission`:

- `UserComputeKept`, `HostComputeKept`: the machines that consume memory by admission
  fit the user's memory budget, and the memory and CPU ceiling of the host. (A user has
  a memory budget and a number of machines; his CPU figure is a soft entitlement that
  `budgets.go` 393-412 does not enforce.) What a job or a read revives without asking (a
  FAILED or STOPPED row that becomes RUNNING again) is told apart in `unadmitted`: the
  code does not count it, and the sums can be exceeded by it.

`VMRuntime`:

- `AddressesDiffer`: no two machines have one address, in the metadata or on the host.
- `OneVM`: a machine has one VM process at most, so one writer of its disk.
- `NothingLost`: without a crash, the interface and the VM process of a machine that no
  call is busy with are those its metadata name, so that a later stop finds them. A
  forwarder may be left over by a read that overlaps a stop.

All three leave out a machine that a delete without lock (a reconcile pass,
`service.go` 1105, or a failing create job, 1181) has met while it was built or started
(`raced`): the delete cancels no build and waits for no start, and the build goes on in
the directory it removes. For such a machine each of the three can be violated: its VM
may live on without a directory, and its address be given out again. What is claimed is
that every other overlap, of such deletes with stops, deletes, reads and each other
too, does no harm.

`Accounts`:

- `GrantsArePaid`: every session and token was paid for with code rows of its address
  that no other sign-in consumed, however double submits interleave.
- `LogoutHolds`: a request that comes in after a logout returned is not accepted with
  what was logged out. (A logout whose `Revoke` failed has not returned here; the web
  route answers 204 all the same, `server.go` 364.)

`EventStream`:

- `ImplementsFeed`: the stream is an `EventFeed`.
- `LossesAreKnown`: a connected client has or is about to get every event of its account
  except those lost in one of five ways: stored before a connection that named no last
  event, dropped at a full buffer, stored between the replay's query and the
  subscription, sorted before the last event it saw or beyond the replay's limit, not
  read back by replay or writer.

`ShellAttach`:

- `TokenAdmitsOne`: one token admits one websocket.
- `DeleteEndsShell`: when a delete has returned no websocket of the shell is open and its
  tmux session is gone, unless the guest could not be told, or a request that had read
  the row before came back to the shell after (`late`).

`EnvSync`:

- `StoredVarsSound`: stored values never refer to each other in a circle, and refer to
  nothing undefined but what was deleted after they were stored.
- `GuestsCurrent`: once the goroutines of all changes are over, a RUNNING guest holds
  what is stored. The code has gaps, and the property names them: a change stored while
  an older version was on its way (`raced`), a machine that a sync has missed
  (`skipped`: the listing, the read-back of the row or the write failed, or its row did
  not say RUNNING just then because a stop or delete that later failed had marked it), a
  fork that has not yet made its own write. What is left to go wrong is the rest: every
  order in which changes, goroutines, creations, starts, stops and forks may come.

`ToolAuth`:

- `ProfileMatches`: one capture that has the store to itself leaves the profile saying
  of the bundle what the bundle is, and marks that have it to themselves keep it so. An
  overlap or a crash can mix the two files (`mixed`); the next capture by itself ends
  that.
- `LoginKept` (an action property): a stored login gives way to an empty bundle only by
  a delete's exact capture, unless captures overlap or one was cut short.

`ImageStore`:

- `LinksValidated`: `current` and `previous` name releases whose own image booted in a
  validation, although a version may be built twice and a validation may write its
  result into a directory that has been replaced.

## 5. Runs and bounds

In the lifecycle's instances `MaxId` bounds the rows ever inserted, `MaxCrash` the
crashes and reboots; a slot of `Req`, `Job` or `Pass` is reused when it is idle, so the
number of requests, jobs and passes over time is unbounded.

| run | instance | checks | states |
|---|---|---|---|
| `requests` | 2 names, 2 users, 2 requests, 1 job; create, delete, start, stop, fork; failing runtime, guest exits, delete timeout; 2 rows | `HandlerOwnsRecord`, `OneHandlerPerMachine`, `JobsRegistered`, `BareDirHasBuilder`, `CreatingProtected`, `ImplementsService` | 1.4 million |
| `recovery` | 1 name, 1 user, 1 request, 2 jobs, 1 pass; create, delete, reconcile; crash, reboot, early end of a pass; 2 rows, 1 crash | `JobsRegistered` | 2.7 million |
| `progress` | 1 name, 2 users, 2 requests, 1 job; create, delete, start, stop; guest exits; 1 row; fair | `RequestsComplete`, `CreatingResolves` | 22 thousand |
| `converges` | 1 name, 1 user, 1 request, 1 job, 1 pass; create, delete, start, stop, get, reconcile; guest exits, failing runtime; 1 row; fair | `TypeOK`, `OrphanVMRemoved`, `RuntimeStateAdopted` | 320 thousand |
| `exec` | 2 streams, 1 cancel, channels of 1, 2 chunks; every fault | the seven of `ExecJob` | 735 thousand |
| `snapshots` | 2 snapshots or forks, 1 restart of the VM or crash; fair | the five of `Snapshots` | 495 thousand |
| `host` | admission: 3 machines of 2 users, 2 requests, 2 configurations. Runtime: 2 machines, 2 calls, 2 addresses, 2 ids for VMs and 1 for forwarders, 1 crash | `UserComputeKept`, `HostComputeKept`, `AddressesDiffer`, `OneVM`, `NothingLost` | 2.0 million |
| `services` | see below | the eleven of the six services | 1.2 million |
| `claim_orphans`, `claim_recovery`, `claim_exec_output`, `claim_image` | the smallest instances that show it | one property each | violated |

`host` and `services` explore several components in one run. The components have no
variable in common, so `part`, chosen in the initial state, says which one moves and the
others stay as they start: the state graph is the union of theirs, not the product. An
invariant of a part that does not move holds in its initial state. What is
interchangeable in several of them shares its model values, so that one symmetry set
serves.

Bounds, and why the interesting cases are within them:

- Lifecycle: two names are a fork and its source; two users are two lock holders for one
  name; two rows are a machine and the one that reuses its name after a delete, the case
  in which going by name instead of by id matters; two jobs are the old and the new job
  of such a name; one pass with one request is stale state on either side.
- `exec`: two streams are one that keeps up and one that does not, and the pair
  `OneOutcome` compares; a channel of one is full after one chunk; one cancel meets the
  timeout, the exit and the registration.
- `snapshots`: two saves pause each other's VM, one list meets both, the restart is a
  start under a save or a crash.
- `host`: two of the machines have one owner, so that a configuration can be short of
  the user's budget (compute 1), of the number (machines 1) or of the host (2, then 1).
  Two addresses for two machines are given back before they are reused. The constraint
  `Claimed` ends the search of a state where the properties claim nothing any more (a
  forwarder's late store, both machines `raced`), and of states with two of these: a
  crash, a raced machine, a second VM process id. Each is explored by itself. In
  admission it lets one machine at a time come back without having been asked for.
- `services`: two sign-ins, two code rows that look alike for two addresses, one request
  and one logout, a clock of 0 to 2 with codes that live 0 and tokens that live 0 or 1;
  two writers, three event ids of two accounts in two seconds, one client, buffer and
  replay limit 1; one shell, two tokens, two websockets, one delete, one command, two
  git requests at a gate of one slot; two keys, three changes, one machine; one guest,
  one login and the empty one, two captures or restores; two versions, two image
  commands, one machine. Three image commands were checked by themselves (2.3 million
  states). The constraint `Claimed` ends the search where a change was stored while an
  older version was on its way (`raced`): `GuestsCurrent` claims nothing from there on,
  and `StoredVarsSound` is about the changes alone.

Symmetry is used where only invariants and action properties are checked, never in a
run with fairness. Deadlock is checked in the lifecycle's runs and in `snapshots`: an
idle server can always take a request, start a pass or a list. `exec`, `host`, `services`
and `claim_image` turn it off: their requests, ids or ticks are finite in number and
such a system rests when they are used up.

`ImplementsService` was checked in the instance of `recovery` as well, with crashes and
passes ; the run keeps to one property.

Each property is checked against a mutant of the code as well: replacing the definition
by its mutant violates the property in the same run. The type invariants of the modules
explored by `host` and `services` are not among the runs' properties; where a module has
theorems, types are the first conjunct of its inductive invariant.

## 6. Fairness

`FairSpec` of `MachineLifecycle` assumes

- strong fairness of `AcquireUserLock(r)` and of a handler's steps, which also take the
  host lock: a Go mutex hands itself to a waiter after 1 ms (starvation mode), so a
  waiter is not overtaken for ever;
- weak fairness of each create job and each pass: goroutines are scheduled, runtime
  calls have contexts with deadlines and return, and the loop of `app.go` 189 never
  ends.

Nothing is assumed of arrivals, guest exits or failures. `runtimeError` lets a call fail
every time it is made; the convergence run still holds because a handler's and a job's
failures leave a settled or failed row, and the deletion of an orphan by a pass is not
among the calls that fail there (a pass that could always fail would never converge).

`FairSpec` of `Snapshots` assumes weak fairness of each save, of a delete that has begun
and of a list that has begun: each is one goroutine whose calls return. Requests and
restarts need never come.

The other modules assume no fairness: what must be true in the end is stated of the
states in which it must be true (`StreamsReleased`, `GuestsCurrent`, `DeleteEndsShell`),
or that there is always a next step to it (`JobNeverStuck`).

## 7. Proofs

Every theorem holds for all values of the constants that satisfy the assumptions of its
module, with no bound on requests, jobs, ids or clocks but those the assumptions name.

### Machines (`MachineLifecycleProofs`)

From `ConstantsAssumption` (the three "none" values are outside their sets, `Ops` and
`Faults` are among the known ones, the bounds are naturals; no finiteness is needed):
`TypeCorrect` (`TypeOK`), `RecordOwned` (`HandlerOwnsRecord`), `OneHandler`
(`OneHandlerPerMachine`), `CreatingIsSafe` (`CreatingProtected`), `JobsAreRegistered`
(`JobsRegistered`), `BareDirsAreFilled` (`BareDirHasBuilder`), `LifecycleIsService`
(`ImplementsService`).

`TypeOK` is not inductive: that a busy handler's name is a name and its user a user
follows from the control point, which `Bound` adds (`TypeInv`).

`HandlerOwnsRecord` is not inductive either. Whether an update by id reaches the right
row depends on who else may hold that id. The invariant `IInv` adds

- `RowInv`: a row's id is at most `nextId`, and a name without a row has `NoRecord`, so a
  new row has an id nobody holds yet;
- `ReqInv(r)`: a handler at a locked control point holds its user's lock; from there on
  the row of its name is the one it holds, of its user; the handlers of delete, start
  and stop hold no row that is `CREATING`; a read that is about to write, or may come to,
  holds no row that is `CREATING` now;
- `PassInv(p)`: a row a pass has listed in another state than `CREATING` is not
  `CREATING` now: a row is only ever `CREATING` from its insertion on.

The step lemmas are split by who moves: `HandlerStep` (a handler's own step that keeps
the rows) and `OtherStep` (a job, a pass or the environment), both from `RowsKept`: no
row comes or goes, and none becomes `CREATING`. The insertions and the one deletion are
treated by themselves (`AdmitInv`, `DeleteInv`). Two handlers of one machine would hold
the lock of the same user, the owner of its row, so `OneHandlerPerMachine` follows from
`ReqInv`. For `CreatingProtected` the proof goes through the actions that write
`machines`: the handlers of delete, start and stop hold a row that is not `CREATING`
(`SettledHandlers`), a read and a pass write by id a row that has left `CREATING`
(`Readers`, `Passes`), and the rest are the ends of a creation (`Creators`, `CreateJobs`).

`JobsRegistered` and `BareDirHasBuilder` are inductive on top of the types. For the
first, the map changes in two ways only: `Queue` registers a job for a name that has
none (`JobsQueued`), and `TakeCancel` unregisters and cancels whichever job the name has
(`JobsTaken`), which is the only uncancelled one. For the second, only `mkdir` makes a
directory without metadata and goes on to fill it (`BuildingDir`), and who fills one
leaves it with metadata or removes it (`BareBuild`).

For the refinement `ServeInv` is added: a lock that is held is held by a handler of that
user that is under way (`LocksHeld`), and a control point tells the operation and which
state it may still write back (`Fits`). Each handler step is then shown to be in one of
two shapes for the user's operation, it goes on or returns (`GoesOn`), and one of four for
the table (`Leaves`, `Inserts`, `Changes`, `Removes`), from which `ServesWorks` concludes
that it is a `Work` of the service. Where a handler persists by id, `ReqInv` says that the
row of the name is that one (`PersistChanges`). Reads, jobs and passes are `CreationEnds`,
`Follow` or stutters (`WriteBehind`), by the part of `IInv` that keeps old readers and
passes off a `CREATING` row.

### Commands (`ExecJobProofs`)

From `ExecAssumption` (`Buffer` positive, `MaxOut` a natural, `Faults` known ones), for
any sets of streams and cancels:

- `TypeCorrect`
- `SucceededComplete` (`SucceededIsComplete`), from `OutcomeInv`: there is no outcome
  before the command is over, a reader at the end has read everything and the process no
  longer writes, and a wait without error was for exit status 0
- `CancelledAsked` (`CancelledWasAsked`), from `AskedInv`: whatever a cancel leaves behind
  (flag, context, outcome, row, its own later steps) is there only if the row is marked,
  or is gone for good
- `StreamsAreReleased` (`StreamsReleased`), from `ReleaseInv`: open channels belong to
  subscribers, there are none after `CloseSubscribers`, and a stream that has found the
  job but not subscribed will find `final` there
- `OutcomeIsOne` (`OneOutcome`), from `AgreeInv` over what is `Told`: a state in the
  row, in `final`, in what a stream has read or returned, or in an event that still
  waits in a channel. Nothing is told before runExec has decided, while it runs only its
  decision is, and no step tells anything else (`AgreeKept`)
- `OutputHasNoGaps` (`NoGaps`), from `ReleaseInv` and `GapInv`: nothing is read after the
  drain, no result is in a channel before `BroadcastResult`, and a subscriber's channel
  reaches exactly to what was read, so that the next chunk or the result follows
  (`FollowsAppend`, `FollowsTail`)

### Snapshots (`SnapshotsProofs`)

From `UpsetsAssumption` (a natural), for any number of snapshots and forks:
`TypeCorrect`, `DisksAreWhole` (`PointInTime`), `SavesExclude` (`OnePauser`),
`PausedSourceIsHeld` (`PausedIsHeld`), `SavedStays` (`SavedStaysRestorable`).
`OnePauser` says how many are inside, not what that means for the VM. `OneInside` adds:
as long as the VM was not started under a save, someone inside means the VM does not
run, and there is one inside only. A pause needs a running VM, so nobody is inside; a
resume ends the only stay; so no copy is under way when the VM runs again.
`PausedIsHeld` is inductive beside it: a pause that comes through makes its caller a
holder or sets `stuck`. `RestorableInv` follows a save to its end: the row stays while
nobody deletes it (`RowsStay`), the artifact stays once it is whole (`ArtifactStays`),
and only deletes and the fork's own end remove either.

### Admission and the runtime (`HostProofs`)

Admission, from the assumptions on `Owner`, `Limits` and a finite `Mach`:
`HostIsNotOvercommitted` (`HostComputeKept`), `UsersAreWithinBudget`
(`UserComputeKept`), `UsersHaveTheirNumber` (`UserMachinesKept`, which no run lists).
`AdmissionInv` says that a handler between its check and its write holds the host lock,
so it is the only one there, and that its machine still fits (`StillFits`): every other
step leaves the set of admitted machines as it is or takes from it (`ByAdmission`). Two
lemmas on cardinalities, `FitsLess` and `FitsOneMore`, turn that into the sums.

The runtime, from `RuntimeAssumption` (three naturals): `RuntimeInvHolds`,
`AddressesDifferAlways` (`AddressesDiffer`), `OneVMAlways` (`OneVM`), `NothingLostAlways`
(`NothingLost`). No lock protects a machine's directory; what protects it is the order in
which calls come, so `RuntimeInv` is about what each call knows:

- `CallsWellFormed`: which calls can be at which control point.
- `Tidy`, as long as no forwarder has stored metadata that are out of date (`Orderly`),
  and for machines that are not `raced`: one change of a machine at a time, but for a
  delete beside the build it cancelled and a delete without lock beside what stops or
  deletes (`OneChange`, `Beside`); a directory without metadata has none, and one with
  metadata an address (`MetaOfDir`); the address in a call's copy of the metadata is the
  machine's (`CopiesAgree`); an interface exists only under metadata that name its
  address, and not for a call that has taken it away (`NetworkNamed`, `Unlinked`); no
  address is named twice (`AddressesTaken`). The last is inductive because the scan of all
  metadata and the store of the new one are one step under `networkMu`. `Tidy` survives
  crashes, and so does `AddressesDiffer`.
- `VMsKnown`, until the server first dies: one VM for each machine (`OneEach`), which
  its metadata name, or which a call that failed to store it is about to stop
  (`AllKnown`); and a call that is going to start, stop or remove knows of any VM there
  is (`CallsKnow`), until it has stopped it (`Stopped`). `OneVM` and `NothingLost`
  follow. A crash between process and metadata leaves a VM nobody knows of, so the
  condition is the code's, not the proof's.

Deletes without lock overlap each other and those with it, so one may store "stopped" or
remove the directory after another has; the proof goes through because none of them is
under way when a build or start begins, unless the machine is `raced`.

### Accounts, variables, tool auth (`UserProofs`)

- Accounts (`TimeAssumption`): `SignInsPay` (`GrantsArePaid`) and `LogoutIsFinal`
  (`LogoutHolds`). `AccountInv`: rows a sign-in consumed stay consumed, so no other
  matches them; a grant's address is its sign-in's; what was logged out is revoked and
  stays so; so no request has looked a grant up after its logout returned.
- Variables (`EnvAssumption`: finitely many keys, and names that are apart):
  `EnvInvHolds`, `StoredVarsSoundAlways` (`StoredVarsSound`), `GuestsCurrentAlways`
  (`GuestsCurrent`), `UndroppedRendersAlways`. In `EnvInv` a request past its lock holds
  it (`ChangeHoldsLock`), so what it validated is still what would be stored
  (`ValidatedRenders`): without the lock two values that are sound alone could close a
  circle. `GuestsCurrent` needs no lock: while nothing raced, all that is rendered and not
  yet written is of the stored version (`InFlightCurrent`), and a guest that may be up,
  is not `skipped` and is not being built (`Due`) and that lacks it will still be reached
  by a goroutine (`GuestsReached`).
- The recursion of `Renders`. That a recursive function over subsets of keys has the
  value its definition says is itself to be proved: `ResolverExists` gives a solution, the
  largest of the functions that hold themselves up. Then `Renders` accepts exactly the
  values that refer to stored keys and have no circle: `RendersOnlySound` takes, among the
  sets of keys under way that a circle could go on from, one that leaves fewest keys;
  `SoundRenders` is the converse. So both properties speak of circles, whatever shape the
  resolver has.
- Tool auth (`LoginAssumption`): `ToolInvHolds`, `ProfileMatchesAlways`
  (`ProfileMatches`), `LoginKeptAlways` (`LoginKept`, an action property). `ToolInv`: a
  call that is alone is the only one (`AloneMeansAlone`), so between its steps the files
  and the shared temporary names are as it left them (`OwnStateFile`, `OwnProfileFile`),
  and an empty preserving capture goes on only over a store without a login
  (`NoLoginStored`).

### Shells, images, events

- `ShellAttachProofs` (`SlotsAssumption`): `TokensAreSpentOnce` (`TokenAdmitsOne`) and
  `DeletesEnd` (`DeleteEndsShell`). `ShellInv`: a token a websocket came with was issued,
  so nothing puts it back into the map; one that is taken is no longer there; an open
  websocket is known to `activeConnections`; after each of a delete's steps the row is
  marked, no connection is known, no session runs, unless the shell is `late`.
- `ImageStoreProofs` (`ImageAssumption`): `LinksAreValidated` (`LinksValidated`).
  `ImageInv`: a release is sound; a sound candidate has its image; a candidate with
  `validated` set is sound or its version is released, so that no rename of it can
  succeed; what a promotion or validation has read still holds or the version has been
  released; links, and what a command is about to link, are releases.
- `EventStreamProofs` (`OwnerActor`, `Bounds`): `StreamIsAFeed` (`ImplementsFeed`), a
  refinement: the initial state is a feed's, and each step is a record, a tell or a
  stutter. `FeedInv`: what is in a buffer or a replay is stored, and a replay is of the
  client's own events, so `Deliver` and `Replay` are tells. `LossesAreKnownAlways`
  (`LossesAreKnown`), from `LossInv`: a writer has at most one event it has not published
  (`OneEvent`), and while a client replays, what its query could know has been sent, is
  still to be replayed, or has been excused (`ReplayCovers`). Every step then moves an
  event along the chain unpublished, replay or buffer, seen, or into `excused`
  (`OwnLosses`).

### Only model-checked

Every other invariant, action property and refinement the passing runs check is proved.
What remains with TLC are the liveness properties `RequestsComplete`,
`CreatingResolves`, `OrphanVMRemoved`, `RuntimeStateAdopted` and `SavesSettle`, and the
invariant `JobNeverStuck`: fairness, and that invariant itself, speak of `ENABLED`,
which the provers do not handle. Induction over data is out of their reach too, since
the library's induction theorems take an operator as a parameter; where a recursive
definition had to be understood (`Renders`), a fixed point and a least counterexample
take its place. The four claims of section 8 are refuted by runs.

## 8. Where the documents and the code differ

Shown by a run:

- `ReconcileDeletesOnlyOrphans`. `ONBOARDING.md` 778: a pass deletes "runtime machines
  that exist on disk but have no DB record". The pass lists rows first and VMs second;
  a machine inserted between has a row, is not in the first list, and loses its
  half-built VM (`service.go` 1105).
- `TransitionsResolve`. `ONBOARDING.md` 782 calls reconcile the crash recovery without
  which the system "would get stuck". A `CREATING` row whose VM has metadata, or a
  `STARTING`, `STOPPING` or `DELETING` row, is neither requeued nor adopted and refuses
  every operation (`service.go` 1113).
- `ExitZeroSucceeds`. The `agent-command-execution` specification (line 9) promises the
  command's exit status and output. `runExec` calls `Wait` while the readers still read
  from the pipes, which `Wait` closes (`exec.go` 355): a command that exited with 0 may
  be stored as `ERROR`.
- `MachineKeepsItsImage`. `prebaked-vm-images` specification, line 35: "later fresh
  machines use the promoted image instead of the prior one". (That machines
  made before keep theirs is what this says of "later fresh" ones only; the document does
  not say it in so many words.) An overlay names its
  backing file through the link `images/current` (`runtime.go` 558, path from
  `ops/host/install-control-plane.sh` 57), so a promotion or rollback changes the disk
  under every machine that starts after it.

Seen while modelling; the models contain the behaviour, no run is kept for it:

- `vm-power-states` specification, line 40: a starting machine is not exposed as
  `RUNNING`. A get that read the row before `STARTING` was set and the runtime after the
  boot writes `RUNNING` (`service.go` 933).
- `agent-command-execution` specification, line 35: a stream ends with the terminal
  status. A stream that loads the row as `RUNNING` and then finds no job sends the
  `RUNNING` row as the result (`exec.go` 264).
- `vm-snapshots` specification, line 13, promises one moment for memory and disk. A start
  of the machine during the save resumes it under the copy (`restarted`). A list also
  shows READY for a save that has not renamed its directory yet, or has failed after it
  was copied.
- `docs/stress-matrix.md` 23: a delete leaves nothing behind. Temporary fork snapshots
  (`.fork-...`) stay on disk after a crash, and a forwarder whose start races a delete
  makes the removed directory again (`stale`).
- `hidden-vm-sizing` specification, line 38: a snapshot is admitted by its retained and
  memory bytes, but its row reserves the machine's full disk and memory.
- `build-agent-first-cli`, `tasks.md` 18 and `design.md` 93: a client resumes the stream
  where it left. Events are lost in the five ways of `LossesAreKnown`, and some told
  twice.
- `shared-shell-sessions` specification, line 39: a deleted shell is gone for all. A
  request from before the delete may start its tmux session again (`late`), and a crash
  between the mark and the kill leaves it.
- `fascinate-env-vars` specification, line 16: running machines get a change. A create
  job that rendered before the change, or syncs that arrive in the other order, leave
  the older version (`raced`), and a machine misses the change when the listing, the
  read-back of the stored row or its write fails, or when a stop or delete that later
  fails has marked its row (`skipped`; `envvars.go` 138, 210, 216). Deleting a key
  others refer to makes every later rendering fail, and with it syncs, creates and
  starts, until the values are repaired.
- `fascinate-env-vars` specification, line 58: a clone's files are rewritten "before the
  machine is considered ready". `ForkMachine` stores `RUNNING` (`service.go` 618) before
  it writes them (624): reads in between show a RUNNING machine with the source's files.
- `vm-snapshots` specification, line 14: the source resumes after the snapshot. A pause
  whose answer comes after the client's 30 s, or under a cancelled context, pauses the VM
  without a deferred resume (`snapshots.go` 263-267), and a resume that fails is not tried
  again: the VM stays paused (`stuck`) until it is stopped.
- A delete by a reconcile pass or by a failing create job (`service.go` 1105, 1181) that
  meets a build or start of the same name (`raced`) may leave a VM without a directory,
  which no later call finds.
- `hidden-vm-sizing` specification, line 25: a start is refused that would exceed the
  user's CPU budget. `ensureUserCanFitDelta` looks at machines, memory and disk; the
  later `support-shared-cpu-budgets` change makes the user's CPU a soft entitlement.
- `persistent-tool-auth` specification, line 57: an empty sync does not clobber a login.
  It may when captures overlap, or when one was cut between the two files, because the
  profile's flag then says nothing of the bundle (`mixed`); a mark that read an old
  profile writes its flag back. A restore that fails makes the create fail
  (`service.go` 1253), where the specification asks for a clean fall-back.
- A promotion or rollback killed between removing and making the `current` link leaves no
  link: promote then says the version is promoted already, rollback that there is no
  current image; only building and promoting another version helps (`images.go` 574).

## 9. What is left out

Not modelled, and why:

- HTTP routing, decoding and error texts (`httpapi/server.go`); which credential
  authenticates is in `Accounts`.
- The CLI: a sequential client of the API.
- File transfers: bytes over one ssh connection, no state between calls.
- Diagnostics: read-only reports. Configuration, migrations, the mail sender: no
  behaviour over time. The web UI and the ops scripts: presentation and deployment.

Left out of modelled components: a process id that is given to another process over a
reboot (`runtime.go` 1226 would take it for the VM); two builders of one name
(`images.go` 385), which a stale requeue beside a fork can be; an image command that
allocates addresses in a process of its own, beside the server's `networkMu`; the number
of snapshots; a restart of the server as its shells see it; database errors other than
those named in section 3; several hosts (only the local one runs machines).

## 10. Plan

Done: the lifecycle, commands, snapshots, admission, the runtime, accounts, events,
shells, variables, tool auth and images, each with its run; two refinements; an inductive
invariant for each of the eleven components, with every safety property of the runs
proved from it. Next:

1. An abstract command (asked, running, ended once, heard by its streams) that `ExecJob`
   implements, proved from `AgreeInv` and `GapInv`.
2. An abstract host (a machine has a disk, an address and at most a VM) that `VMRuntime`
   implements while it is `Orderly`.
3. Fork and reconcile over `VMRuntime` in one module, for the two builders of one name.
4. The number of snapshots and its limit in `Admission`.
