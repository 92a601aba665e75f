-------------------------------- MODULE EnvSync --------------------------------
(***************************************************************************)
(* A user's environment variables (controlplane/envvars.go): changes are   *)
(* validated and stored under the user's lock, then a goroutine of each    *)
(* change renders them for the running machines and writes them into the   *)
(* guests.  A machine that is created or started gets them before it is    *)
(* RUNNING, a forked one right after.  A value is the set of user keys it  *)
(* refers to; built-in keys are always defined.  What a guest holds is the *)
(* number of the change its files were rendered from.                      *)
(***************************************************************************)
EXTENDS Naturals, FiniteSets, Functions

CONSTANTS
  Key,        \* names of user variables
  Change,     \* SetEnvVar and DeleteEnvVar requests
  Mach,       \* the user's machines
  Nobody      \* holder of a free lock

ASSUME EnvAssumption == IsFiniteSet(Key) /\ Nobody \notin Change /\ Change \cap Mach = {}

VARIABLES
  vars,       \* user_env_vars: the stored keys and what each value refers to
  version,    \* number of changes stored
  holder,     \* who holds the user's lock
  change,     \* per request: control state, key and new value
  sync,       \* per request: its goroutine, the machines left and the version rendered
  mach,       \* state of the machine's row; "AWAY": not RUNNING though the guest may be up
  build,      \* per machine: create, fork or start on its way to RUNNING
  files,      \* per machine: version the guest's files hold
  raced,      \* history: a change met a write on its way
  skipped,    \* history: machines a sync has missed since they were last written
  dropped     \* history: keys deleted since a value that refers to them was last stored

nvars == <<vars, version, holder, change, sync, mach, build, files, raced, skipped, dropped>>

NoSync == [pc |-> "idle", todo |-> {}, version |-> 0]
NoBuild == [pc |-> "idle", version |-> 0]

\* renderEffectiveEnv: depth first from every key; a key without a value or one
\* that is being resolved already ends the rendering with an error
Renders(raw) ==
  LET resolved[resolving \in SUBSET Key] ==
        {k \in DOMAIN raw \ resolving : raw[k] \subseteq resolved[resolving \cup {k}]}
  IN DOMAIN raw \subseteq resolved[{}]

With(k, refs) == [i \in DOMAIN vars \cup {k} |-> IF i = k THEN refs ELSE vars[i]]

EnvInit ==
  /\ vars = <<>> /\ version = 0 /\ holder = Nobody
  /\ change = [c \in Change |-> [pc |-> "idle"]]
  /\ sync = [c \in Change |-> NoSync]
  /\ mach = [m \in Mach |-> "none"] /\ build = [m \in Mach |-> NoBuild]
  /\ files = [m \in Mach |-> 0]
  /\ raced = FALSE /\ skipped = {} /\ dropped = {}

\* a write of an older version may land after this change
InFlight == \/ \E c \in Change : sync[c].pc = "rendered"
            \/ \E m \in Mach : build[m].pc # "idle" /\ build[m].pc # "booted"

EnterUnlockedChange(c) ==
  /\ change[c].pc = "idle"
  /\ \E k \in Key, refs \in SUBSET Key, op \in {"set", "delete"} :
        change' = [change EXCEPT ![c] = [pc |-> "locked", op |-> op, key |-> k, refs |-> refs]]
  /\ UNCHANGED <<vars, version, holder, sync, mach, build, files, raced, skipped, dropped>>

LockChange(c) ==
  /\ change[c].pc = "idle" /\ holder = Nobody
  /\ holder' = c
  /\ \E k \in Key, refs \in SUBSET Key, op \in {"set", "delete"} :
        change' = [change EXCEPT ![c] = [pc |-> "locked", op |-> op, key |-> k, refs |-> refs]]
  /\ UNCHANGED <<vars, version, sync, mach, build, files, raced, skipped, dropped>>

ChangeOver(c, pc) == change' = [change EXCEPT ![c] = [pc |-> pc]]

\* the stored variables and the new value are rendered for validation
SetValidate(c) ==
  /\ change[c].pc = "locked" /\ change[c].op = "set"
  /\ Renders(With(change[c].key, change[c].refs))
  /\ change' = [change EXCEPT ![c].pc = "validated"]
  /\ UNCHANGED <<vars, version, holder, sync, mach, build, files, raced, skipped, dropped>>

SetReject(c) ==
  /\ change[c].pc = "locked" /\ change[c].op = "set"
  /\ ~Renders(With(change[c].key, change[c].refs))
  /\ ChangeOver(c, "over") /\ holder' = Nobody
  /\ UNCHANGED <<vars, version, sync, mach, build, files, raced, skipped, dropped>>

Stored(c) ==
  /\ version' = version + 1
  /\ change' = [change EXCEPT ![c] = [pc |-> "stored", op |-> change[c].op]]
  /\ raced' = (raced \/ InFlight)
  /\ UNCHANGED <<holder, sync, mach, build, files, skipped>>

SetStore(c) ==
  /\ change[c].pc = "validated"
  /\ vars' = With(change[c].key, change[c].refs)
  /\ dropped' = dropped \ change[c].refs
  /\ Stored(c)

\* nothing asks whether another value refers to the key
DeleteStore(c) ==
  /\ change[c].pc = "locked" /\ change[c].op = "delete" /\ change[c].key \in DOMAIN vars
  /\ vars' = Restrict(vars, DOMAIN vars \ {change[c].key})
  /\ dropped' = dropped \cup {change[c].key}
  /\ Stored(c)

DeleteNotFound(c) ==
  /\ change[c].pc = "locked" /\ change[c].op = "delete" /\ change[c].key \notin DOMAIN vars
  /\ ChangeOver(c, "over") /\ holder' = Nobody
  /\ UNCHANGED <<vars, version, sync, mach, build, files, raced, skipped, dropped>>

\* the goroutine is started and the lock released by the deferred unlock
ChangeReturn(c) ==
  /\ change[c].pc = "stored"
  /\ ChangeOver(c, "over") /\ holder' = Nobody
  /\ sync' = [sync EXCEPT ![c].pc = "started"]
  /\ UNCHANGED <<vars, version, mach, build, files, raced, skipped, dropped>>

\* guests that may be up on rows that a build is not about to make RUNNING
Up == {m \in Mach : mach[m] \in {"RUNNING", "AWAY"}}

\* the row that was stored is read back: an error ends the request without a sync
SetUnread(c) ==
  /\ change[c].pc = "stored" /\ change[c].op = "set"
  /\ ChangeOver(c, "over") /\ holder' = Nobody
  /\ skipped' = skipped \cup Up
  /\ UNCHANGED <<vars, version, sync, mach, build, files, raced, dropped>>

--------------------------------------------------------------------------------
\* syncRunningMachineEnvBestEffort

syncOnly == UNCHANGED <<vars, version, holder, change, mach, build, raced, dropped>>

\* rows that do not say RUNNING are passed over
SyncList(c) ==
  /\ sync[c].pc = "started"
  /\ sync' = [sync EXCEPT ![c].pc = "listed", ![c].todo = {m \in Mach : mach[m] = "RUNNING"}]
  /\ skipped' = skipped \cup {m \in Mach : mach[m] = "AWAY"}
  /\ UNCHANGED files /\ syncOnly

SyncListFail(c) ==
  /\ sync[c].pc = "started"
  /\ sync' = [sync EXCEPT ![c].pc = "over"]
  /\ skipped' = skipped \cup Up
  /\ UNCHANGED files /\ syncOnly

SyncRender(c) ==
  /\ sync[c].pc = "listed" /\ sync[c].todo # {} /\ Renders(vars)
  /\ sync' = [sync EXCEPT ![c].pc = "rendered", ![c].version = version]
  /\ UNCHANGED <<files, skipped>> /\ syncOnly

SyncWrite(c) ==
  /\ sync[c].pc = "rendered"
  /\ \E m \in sync[c].todo :
        /\ mach[m] \notin {"none", "STOPPED"}
        /\ files' = [files EXCEPT ![m] = sync[c].version]
        /\ sync' = [sync EXCEPT ![c] = [pc |-> "listed", todo |-> @.todo \ {m}, version |-> 0]]
        /\ skipped' = skipped \ {m}
  /\ syncOnly

\* the variables do not render, the guest does not answer, or 30 s are over
SyncFail(c) ==
  /\ sync[c].pc \in {"listed", "rendered"}
  /\ \E m \in sync[c].todo :
        /\ sync' = [sync EXCEPT ![c] = [pc |-> "listed", todo |-> @.todo \ {m}, version |-> 0]]
        /\ skipped' = IF Renders(vars) THEN skipped \cup {m} ELSE skipped
  /\ UNCHANGED files /\ syncOnly

SyncEnd(c) ==
  /\ sync[c].pc = "listed" /\ sync[c].todo = {}
  /\ sync' = [sync EXCEPT ![c] = [NoSync EXCEPT !.pc = "over"]]
  /\ UNCHANGED <<files, skipped>> /\ syncOnly

--------------------------------------------------------------------------------
\* machines on their way to RUNNING, and off it

buildOnly == UNCHANGED <<vars, version, change, sync, raced, dropped>>

\* the create job has left the request, and its lock, behind
CreateBoot(m) ==
  /\ mach[m] = "none" /\ build[m].pc = "idle"
  /\ mach' = [mach EXCEPT ![m] = "CREATING"]
  /\ build' = [build EXCEPT ![m].pc = "booted"]
  /\ UNCHANGED <<holder, files, skipped>> /\ buildOnly

\* start and fork hold the user's lock until they return
LockedBoot(m) ==
  /\ mach[m] \in {"none", "STOPPED", "AWAY"} /\ build[m].pc = "idle" /\ holder = Nobody
  /\ holder' = m
  /\ mach' = [mach EXCEPT ![m] = IF @ = "none" THEN "CREATING" ELSE "STARTING"]
  /\ build' = [build EXCEPT ![m].pc = "booted"]
  /\ UNCHANGED <<files, skipped>> /\ buildOnly

Forking(m) == holder = m /\ mach[m] = "CREATING"

\* a fork stores its VM's state before it writes the variables
ForkRunning(m) ==
  /\ build[m].pc = "booted" /\ Forking(m)
  /\ mach' = [mach EXCEPT ![m] = "RUNNING"]
  /\ UNCHANGED <<holder, build, files, skipped>> /\ buildOnly

BuildRender(m) ==
  /\ build[m].pc = "booted" /\ ~Forking(m) /\ Renders(vars)
  /\ build' = [build EXCEPT ![m] = [pc |-> "rendered", version |-> version]]
  /\ UNCHANGED <<holder, mach, files, skipped>> /\ buildOnly

BuildWrite(m) ==
  /\ build[m].pc = "rendered"
  /\ files' = [files EXCEPT ![m] = build[m].version]
  /\ build' = [build EXCEPT ![m] = [pc |-> "written", version |-> 0]]
  /\ skipped' = skipped \ {m}
  /\ UNCHANGED <<holder, mach>> /\ buildOnly

Unlock(m) == holder' = IF holder = m THEN Nobody ELSE holder

BuildDoneUnwritten(m) ==
  /\ build[m].pc \in {"booted", "written"}
  /\ mach' = [mach EXCEPT ![m] = "RUNNING"]
  /\ build' = [build EXCEPT ![m] = NoBuild]
  /\ Unlock(m) /\ UNCHANGED <<files, skipped>> /\ buildOnly

BuildDone(m) ==
  /\ build[m].pc = "written"
  /\ mach' = [mach EXCEPT ![m] = "RUNNING"]
  /\ build' = [build EXCEPT ![m] = NoBuild]
  /\ Unlock(m) /\ UNCHANGED <<files, skipped>> /\ buildOnly

\* a failed sync fails the start, or the create or fork and its VM; a start also
\* fails when its row cannot be stored.  A VM that could not be stopped or deleted
\* stays up, and a read or pass will find it.
BuildFail(m) ==
  /\ build[m].pc # "idle" /\ (build[m].pc = "written" => mach[m] = "STARTING")
  /\ \/ /\ mach' = [mach EXCEPT ![m] = IF @ = "STARTING" THEN "STOPPED" ELSE "none"]
        /\ UNCHANGED skipped
     \/ /\ mach' = [mach EXCEPT ![m] = "AWAY"]
        /\ skipped' = IF build[m].pc = "written" THEN skipped ELSE skipped \cup {m}
  /\ build' = [build EXCEPT ![m] = NoBuild]
  /\ Unlock(m) /\ UNCHANGED files /\ buildOnly

\* a stop or delete marks the row and keeps the lock; a read or pass that judges by
\* an old state of the VM writes STOPPED without one
StepAside(m) ==
  /\ mach[m] = "RUNNING" /\ build[m].pc = "idle"
  /\ mach' = [mach EXCEPT ![m] = "AWAY"]
  /\ \/ holder = Nobody /\ holder' = m
     \/ UNCHANGED holder
  /\ UNCHANGED <<build, files, skipped>> /\ buildOnly

\* the failed stop or delete restores RUNNING, as does the next read or pass
StepBack(m) ==
  /\ mach[m] = "AWAY"
  /\ mach' = [mach EXCEPT ![m] = "RUNNING"]
  /\ Unlock(m) /\ UNCHANGED <<build, files, skipped>> /\ buildOnly

StopMachine(m) ==
  /\ mach[m] = "AWAY"
  /\ mach' = [mach EXCEPT ![m] = "STOPPED"]
  /\ Unlock(m) /\ UNCHANGED <<build, files, skipped>> /\ buildOnly

SetEnvVar(c) == SetValidate(c) \/ SetReject(c) \/ SetStore(c) \/ SetUnread(c)
DeleteEnvVar(c) == DeleteStore(c) \/ DeleteNotFound(c)
SyncRunningMachineEnv(c) ==
  \/ SyncList(c) \/ SyncListFail(c) \/ SyncRender(c) \/ SyncWrite(c)
  \/ SyncFail(c) \/ SyncEnd(c)
SyncManagedEnv(m) == BuildRender(m) \/ BuildWrite(m)

EnvNext ==
  \/ \E c \in Change :
        \/ LockChange(c) \/ SetEnvVar(c) \/ DeleteEnvVar(c) \/ ChangeReturn(c)
        \/ SyncRunningMachineEnv(c)
  \/ \E m \in Mach :
        \/ CreateBoot(m) \/ LockedBoot(m) \/ ForkRunning(m) \/ SyncManagedEnv(m)
        \/ BuildDone(m) \/ BuildFail(m)
        \/ StepAside(m) \/ StepBack(m) \/ StopMachine(m)

EnvSpec == EnvInit /\ [][EnvNext]_nvars

--------------------------------------------------------------------------------
\* Set by set, the stored values never come to refer to each other in a circle,
\* and a value refers to nothing undefined but what was deleted after it was stored:
\* changes that are sound on their own are not validated side by side.
StoredVarsSound ==
  /\ \A circle \in SUBSET DOMAIN vars :
        circle # {} => \E k \in circle : vars[k] \cap circle = {}
  /\ \A k \in DOMAIN vars : vars[k] \subseteq DOMAIN vars \cup dropped

\* Once the goroutines of all changes are over, a RUNNING machine's guest holds the
\* variables as they are stored.  Not claimed: of a fork that has not written them yet;
\* of a machine that a sync has missed since, because a listing failed or its row was
\* not RUNNING just then, a stored value could not be read back, or a write failed;
\* and of anything after a change was stored while an older version was on its way.
GuestsCurrent ==
  ~raced /\ Renders(vars) /\ (\A c \in Change : change[c].pc # "stored" /\ sync[c].pc \in {"idle", "over"})
    => \A m \in Mach \ skipped :
         mach[m] = "RUNNING" /\ build[m].pc = "idle" => files[m] = version
================================================================================
