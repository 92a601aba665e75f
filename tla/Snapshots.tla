------------------------------ MODULE Snapshots ------------------------------
(***************************************************************************)
(* Snapshots of one source machine: the rows of the snapshots table, the   *)
(* goroutine runSnapshotCreate behind each of them, the artifact it builds *)
(* beside the source VM, and what may meet it: a delete, a list that       *)
(* copies the runtime's state into the rows, a fork (which saves a         *)
(* snapshot of its own), a stop, a start or a delete of the source, and a  *)
(* crash of the server.                                                    *)
(*                                                                         *)
(* A snapshot is its id: row ids and runtime names are fresh uuids, so an  *)
(* artifact belongs to one row.  Requests that change a user's machines or *)
(* snapshots hold the user's lock; the save and the list do not.  A store  *)
(* call succeeds unless its row is gone.                                   *)
(***************************************************************************)
EXTENDS Naturals, FiniteSets

CONSTANTS
  Snap,       \* snapshot ids, saved or temporary (of a fork)
  NoSnap,
  MaxUpsets   \* how often the source VM is started again or the server dies

ASSUME UpsetsAssumption == MaxUpsets \in Nat

VARIABLES
  row,        \* the state of each snapshot's row, "none" without one
  vm,         \* the source VM
  tmp, final, \* the directories <artifact>.tmp and <artifact>
  save,       \* where createSnapshotArtifact and its caller are
  fork,       \* the ids that are temporary snapshots of a fork
  user,       \* the holder of the user's lock: nobody, a delete or a fork
  del,        \* the snapshot a delete has removed from the runtime or not
  list,       \* a list, and the rows it will set to READY
  torn,       \* history: the VM ran while this snapshot's disk was copied
  restarted,  \* history: the VM was started while a save was under way
  dropped,    \* history: the snapshots a delete was asked for
  stuck,      \* history: a pause came through unnoticed, or a resume was lost
  crashed,    \* history: the server died
  upsets      \* the restarts of the VM and of the server

vars == <<row, vm, tmp, final, save, fork, user, del, list,
          torn, restarted, dropped, stuck, crashed, upsets>>
saveVars == <<tmp, final, save>>
history  == <<torn, restarted, dropped, stuck, crashed, upsets>>

RowState == {"none", "CREATING", "READY", "FAILED"}
VMState  == {"running", "paused", "stopped"}

\* The stages of a save.  Between "captured" and "stored" the disk is copied.
Building == {"queued", "paused", "captured", "stored", "renamed"}
SaveStage == Building \cup {"idle", "made", "failing", "saved", "failed",
                            "found", "done", "dead", "lost"}
Saving(s) == save[s] \in Building \cup {"made", "failing"}
Holding == {"paused", "captured", "stored", "renamed", "made"}

Init ==
  /\ row  = [s \in Snap |-> "none"]
  /\ vm   = "running"
  /\ tmp   = [s \in Snap |-> "none"]
  /\ final = [s \in Snap |-> "none"]
  /\ save = [s \in Snap |-> "idle"]
  /\ fork = {}
  /\ user = "nobody"
  /\ del  = [pc |-> "idle", snap |-> NoSnap]
  /\ list = [pc |-> "idle", rows |-> {}]
  /\ torn = [s \in Snap |-> FALSE] /\ restarted = FALSE /\ dropped = {}
  /\ stuck = FALSE /\ crashed = FALSE /\ upsets = 0

-----------------------------------------------------------------------------
(* The source VM.  Whenever it runs again, a disk copy under way is torn.  *)

Torn(mode) ==
  torn' = [s \in Snap |-> \/ torn[s]
                          \/ mode = "running" /\ save[s] = "captured"]

\* StopMachine and DeleteMachine do not ask whether the VM is being saved.  A
\* deleted machine is a stopped one that nobody starts and whose disk can no
\* longer be copied.
SourceStop ==
  /\ user = "nobody" /\ vm \in {"running", "paused"}
  /\ vm' = "stopped" /\ stuck' = FALSE
  /\ UNCHANGED <<row, saveVars, fork, user, del, list, torn, restarted, dropped, crashed, upsets>>

SourceStart ==
  /\ user = "nobody" /\ vm = "stopped" /\ upsets < MaxUpsets
  /\ vm' = "running" /\ upsets' = upsets + 1
  /\ Torn(vm')
  /\ restarted' = (restarted \/ \E s \in Snap : Saving(s))
  /\ UNCHANGED <<row, saveVars, fork, user, del, list, dropped, stuck, crashed>>

-----------------------------------------------------------------------------
(* Saving *)

\* CreateSnapshot: admission, the row, and the goroutine.  The user's lock is
\* released before the goroutine runs.
CreateSnapshot(s) ==
  /\ user = "nobody" /\ save[s] = "idle"
  /\ vm \in {"running", "paused"}
  /\ row'  = [row EXCEPT ![s] = "CREATING"]
  /\ save' = [save EXCEPT ![s] = "queued"]
  /\ UNCHANGED <<vm, tmp, final, fork, user, del, list, history>>

\* ForkMachine keeps the user's lock until it returns and has no snapshot row.
ForkMachine(s) ==
  /\ user = "nobody" /\ save[s] = "idle"
  /\ vm \in {"running", "paused"}
  /\ user' = "fork" /\ fork' = fork \cup {s}
  /\ save' = [save EXCEPT ![s] = "queued"]
  /\ UNCHANGED <<row, vm, tmp, final, del, list, history>>

SaveTo(s, stage, tmpDir, finalDir) ==
  /\ save'  = [save EXCEPT ![s] = stage]
  /\ tmp'   = [tmp EXCEPT ![s] = tmpDir]
  /\ final' = [final EXCEPT ![s] = finalDir]
  /\ UNCHANGED <<row, fork, user, del, list>>

PausableAgain == vm # "stopped"

\* The hypervisor pauses a running VM only; a VM that another save paused, or
\* that is down, fails the request.
Pausable == vm = "running"

SavePauseResumes(s) ==
  /\ save[s] = "queued"
  /\ \/ /\ Pausable /\ vm' = "paused"
        /\ SaveTo(s, "paused", "building", final[s])
     \/ /\ UNCHANGED vm
        /\ SaveTo(s, "failing", "none", final[s])
  /\ UNCHANGED history

\* The pause, or its failure.  The resume is deferred once the request has been
\* answered: when the answer is late (30 s) the VM may stand still, and nobody
\* will resume it.
SavePause(s) ==
  /\ save[s] = "queued"
  /\ \/ /\ Pausable /\ vm' = "paused" /\ UNCHANGED stuck
        /\ SaveTo(s, "paused", "building", final[s])
     \/ /\ UNCHANGED <<vm, stuck>>
        /\ SaveTo(s, "failed", "none", final[s])
     \/ /\ Pausable /\ vm' = "paused" /\ stuck' = TRUE
        /\ SaveTo(s, "failed", "none", final[s])
  /\ UNCHANGED <<torn, restarted, dropped, crashed, upsets>>

\* One step of the body, or its error path: remove the directory, return (and
\* so resume the VM).
SaveStep(s, from, to, ready, tmpDir, finalDir) ==
  /\ save[s] = from
  /\ \/ ready /\ SaveTo(s, to, tmpDir, finalDir)
     \/ SaveTo(s, "failing", "none", IF from = "renamed" THEN "none" ELSE final[s])
  /\ UNCHANGED <<vm, history>>

\* vm.snapshot: memory and devices, of a paused VM.
SaveCapture(s) == SaveStep(s, "paused", "captured", vm = "paused", "building", final[s])
\* Disk, seed and config copied, sizes taken, the metadata written.
SaveCopy(s)    == SaveStep(s, "captured", "stored", TRUE, "listed", final[s])
SaveRename(s)  == SaveStep(s, "stored", "renamed", TRUE, "none", "raw")
\* The paths in the config still point into the .tmp directory.
SaveRewrite(s) == SaveStep(s, "renamed", "made", final[s] = "raw", "none", "complete")

\* The VM after the resume request, which fails unnoticed.
Resumed ==
  \/ /\ vm' = IF vm = "paused" THEN "running" ELSE vm
     /\ UNCHANGED stuck
  \/ /\ vm = "paused" /\ UNCHANGED vm
     /\ stuck' = TRUE

SaveResumeMade(s) ==
  /\ save[s] \in {"made", "failing"}
  /\ IF save[s] = "made" THEN Resumed ELSE UNCHANGED <<vm, stuck>>
  /\ Torn(vm')
  /\ SaveTo(s, IF save[s] = "made" THEN "saved" ELSE "failed", tmp[s], final[s])
  /\ UNCHANGED <<restarted, dropped, crashed, upsets>>

\* The deferred resume, whatever became of the VM meanwhile.
SaveResume(s) ==
  /\ save[s] \in {"made", "failing"}
  /\ Resumed
  /\ Torn(vm')
  /\ SaveTo(s, IF save[s] = "made" THEN "saved" ELSE "failed", tmp[s], final[s])
  /\ UNCHANGED <<restarted, dropped, crashed, upsets>>

\* finishSnapshotSuccess: a row deleted meanwhile takes the artifact with it.
SaveLookup(s) ==
  /\ save[s] = "saved" /\ s \notin fork
  /\ IF row[s] = "none" THEN SaveTo(s, "dead", tmp[s], "none")
                        ELSE SaveTo(s, "found", tmp[s], final[s])
  /\ UNCHANGED <<vm, history>>

Finish(s, from, stage, state) ==
  /\ save[s] = from /\ s \notin fork
  /\ save' = [save EXCEPT ![s] = stage]
  /\ row'  = [row EXCEPT ![s] = IF @ = "none" THEN @ ELSE state]
  /\ UNCHANGED <<vm, tmp, final, fork, user, del, list, history>>

\* UpdateSnapshotArtifacts and UpdateSnapshotState, without a second look.
SaveReady(s)  == Finish(s, "found", "done", "READY")
SaveFailedUnmarked(s) ==
  /\ save[s] = "failed" /\ s \notin fork
  /\ save' = [save EXCEPT ![s] = "dead"]
  /\ UNCHANGED <<row, vm, tmp, final, fork, user, del, list, history>>

\* finishSnapshotFailure.
SaveFailed(s) == Finish(s, "failed", "dead", "FAILED")

\* The fork restores its temporary snapshot, or could not save it; either way
\* the artifact goes and the request returns.
ForkReturn(s) ==
  /\ s \in fork /\ save[s] \in {"saved", "failed"}
  /\ save'  = [save EXCEPT ![s] = "dead"]
  /\ final' = [final EXCEPT ![s] = "none"]
  /\ user'  = "nobody"
  /\ UNCHANGED <<row, vm, tmp, fork, del, list, history>>

Save(s) ==
  \/ SavePause(s) \/ SaveCapture(s) \/ SaveCopy(s) \/ SaveRename(s)
  \/ SaveRewrite(s) \/ SaveResume(s)
  \/ SaveLookup(s) \/ SaveReady(s) \/ SaveFailed(s) \/ ForkReturn(s)

-----------------------------------------------------------------------------
(* Deleting: the runtime first, then the row *)

DeleteSnapshot(s) ==
  /\ user = "nobody" /\ row[s] # "none"
  /\ user' = "delete"
  /\ del'  = [pc |-> "runtime", snap |-> s]
  /\ dropped' = dropped \cup {s}
  /\ UNCHANGED <<row, vm, saveVars, fork, list, torn, restarted, stuck, crashed, upsets>>

\* An artifact still under construction is not there: ErrSnapshotNotFound.
DeleteRuntime ==
  /\ del.pc = "runtime"
  /\ final' = [final EXCEPT ![del.snap] = "none"]
  /\ del'   = [del EXCEPT !.pc = "row"]
  /\ UNCHANGED <<row, vm, tmp, save, fork, user, list, history>>

DeleteRow ==
  /\ del.pc = "row"
  /\ row'  = [row EXCEPT ![del.snap] = "none"]
  /\ user' = "nobody"
  /\ del'  = [pc |-> "idle", snap |-> NoSnap]
  /\ UNCHANGED <<vm, saveVars, fork, list, history>>

Delete == DeleteRuntime \/ DeleteRow

-----------------------------------------------------------------------------
(* Listing: the rows, then the directories, then the rows that differ *)

\* The rows are read once; those that are not READY may be updated later.
ListRows ==
  /\ list.pc = "idle"
  /\ list' = [pc |-> "dirs", rows |-> {s \in Snap : row[s] \in {"CREATING", "FAILED"}}]
  /\ UNCHANGED <<row, vm, saveVars, fork, user, del, history>>

\* Every directory with metadata, the .tmp ones too: they carry the final name.
Listed == {s \in Snap : tmp[s] = "listed" \/ final[s] # "none"}

ListDirs ==
  /\ list.pc = "dirs"
  /\ \E live \in {Listed, {}} :      \* {}: a directory could not be read
       LET stale == list.rows \cap live
       IN list' = [pc |-> IF stale = {} THEN "idle" ELSE "adopt", rows |-> stale]
  /\ UNCHANGED <<row, vm, saveVars, fork, user, del, history>>

ListAdoptStale ==
  /\ list.pc = "adopt"
  /\ row'  = [s \in Snap |-> IF s \in list.rows /\ row[s] # "none" THEN "CREATING" ELSE row[s]]
  /\ list' = [pc |-> "idle", rows |-> {}]
  /\ UNCHANGED <<vm, saveVars, fork, user, del, history>>

\* Metadata always say READY, and so do the rows then.
ListAdopt ==
  /\ list.pc = "adopt"
  /\ row'  = [s \in Snap |-> IF s \in list.rows /\ row[s] # "none" THEN "READY" ELSE row[s]]
  /\ list' = [pc |-> "idle", rows |-> {}]
  /\ UNCHANGED <<vm, saveVars, fork, user, del, history>>

List == ListDirs \/ ListAdopt

-----------------------------------------------------------------------------
(* The server dies: no deferred resume, no clean-up, and at startup nobody *)
(* looks at snapshots.  The VM is a process of its own.                    *)

Crash ==
  /\ upsets < MaxUpsets
  /\ upsets' = upsets + 1 /\ crashed' = TRUE
  /\ save' = [s \in Snap |-> IF save[s] \in {"idle", "done", "dead"} THEN save[s] ELSE "lost"]
  /\ user' = "nobody"
  /\ del'  = [pc |-> "idle", snap |-> NoSnap]
  /\ list' = [pc |-> "idle", rows |-> {}]
  /\ UNCHANGED <<row, vm, tmp, final, fork, torn, restarted, dropped, stuck>>

Next ==
  \/ SourceStop \/ SourceStart
  \/ \E s \in Snap : CreateSnapshot(s) \/ ForkMachine(s) \/ Save(s)
                     \/ DeleteSnapshot(s)
  \/ Delete \/ ListRows \/ List \/ Crash

Spec == Init /\ [][Next]_vars

\* Goroutines and handlers that were started run on; nobody has to send a
\* request.
FairSpec ==
  /\ Spec
  /\ \A s \in Snap : WF_vars(Save(s))
  /\ WF_vars(Delete) /\ WF_vars(List)

-----------------------------------------------------------------------------
(* Properties *)

DirState == {"none", "building", "listed", "raw", "complete"}

TypeOK ==
  /\ row \in [Snap -> RowState] /\ vm \in VMState
  /\ tmp \in [Snap -> DirState] /\ final \in [Snap -> DirState]
  /\ save \in [Snap -> SaveStage] /\ fork \subseteq Snap
  /\ user \in {"nobody", "delete", "fork"}
  /\ del \in [pc : {"idle", "runtime", "row"}, snap : Snap \cup {NoSnap}]
  /\ list \in [pc : {"idle", "dirs", "adopt"}, rows : SUBSET Snap]
  /\ torn \in [Snap -> BOOLEAN] /\ restarted \in BOOLEAN /\ dropped \subseteq Snap
  /\ stuck \in BOOLEAN /\ crashed \in BOOLEAN /\ upsets \in 0 .. MaxUpsets

\* A snapshot whose save finished stays READY with a complete artifact until a
\* delete is asked for, whatever lists and crashes come in between.
SavedStaysRestorable ==
  \A s \in Snap : save[s] = "done" /\ s \notin dropped =>
    row[s] = "READY" /\ final[s] = "complete"

\* Unless the source was started again under a save, a snapshot's disk was
\* copied while the VM stood still after its memory was captured: concurrent
\* saves and forks of one machine do not resume it under each other.
PointInTime == \A s \in Snap : torn[s] => restarted

\* Two saves are never inside the paused section of one VM's boot together.
OnePauser ==
  ~restarted => Cardinality({s \in Snap : save[s] \in Holding}) <= 1

\* The source stands still only while a save is under way that will resume it,
\* whatever step of a save fails, whoever else saves or forks, and however often
\* the source is stopped and started.  Three things leave it paused in the code,
\* and only they: the server dies, the hypervisor pauses it but is late to say
\* so, or the deferred resume fails.
PausedIsHeld ==
  vm = "paused" => \/ \E s \in Snap : save[s] \in Holding \cup {"failing"}
                   \/ crashed \/ stuck

\* While the server lives, every save and fork comes to its end, and no row
\* stays CREATING.
SavesSettle ==
  \A s \in Snap : row[s] = "CREATING" \/ Saving(s)
                   ~> (row[s] # "CREATING" /\ ~Saving(s)) \/ crashed

=============================================================================
