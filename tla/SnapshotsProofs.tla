---------------------------- MODULE SnapshotsProofs ----------------------------
(***************************************************************************)
(* Theorems about Snapshots: for any number of saves, forks, deletes and   *)
(* lists of one machine, any number of restarts and any crash, concurrent  *)
(* saves do not resume the source under each other nor leave it paused,    *)
(* and a saved snapshot stays restorable until it is deleted.              *)
(***************************************************************************)
EXTENDS Snapshots, FiniteSetTheorems, TLAPS

\* the paused section and its way out: who is inside has paused this boot of the VM
Inside(s) == save[s] \in Holding \cup {"failing"}

OneInside ==
  ~restarted =>
     /\ \A s \in Snap : Inside(s) => vm # "running"
     /\ \A s, t \in Snap : Inside(s) /\ Inside(t) => s = t

PauseInv == PointInTime /\ OneInside /\ PausedIsHeld

\* the row of a save that nobody deletes stays until the save is over
RowsStay ==
  \A s \in Snap : save[s] # "idle" /\ s \notin fork \cup dropped => row[s] # "none"
NewIds == \A s \in Snap : save[s] = "idle" => s \notin fork

\* what is renamed and rewritten stays, unless a delete or its fork removes it
ArtifactStays ==
  \A s \in Snap \ (fork \cup dropped) :
     save[s] \in {"made", "saved", "found", "done"} => final[s] = "complete"
ForksNeverDone == \A s \in fork : save[s] \notin {"found", "done"}
DoneIsReady == \A s \in Snap \ dropped : save[s] = "done" => row[s] = "READY"
DeleteAsked == del.pc # "idle" => del.snap \in dropped

RestorableInv == RowsStay /\ NewIds /\ ArtifactStays /\ ForksNeverDone /\ DoneIsReady /\ DeleteAsked

SnapInv == TypeOK /\ PauseInv /\ RestorableInv

--------------------------------------------------------------------------------
LEMMA TypeInit == Init => TypeOK
<1> SUFFICES ASSUME Init PROVE TypeOK
  OBVIOUS
<1>1. upsets \in 0 .. MaxUpsets
  BY UpsetsAssumption DEF Init
<1>2. /\ del \in [pc : {"idle", "runtime", "row"}, snap : Snap \cup {NoSnap}]
      /\ list \in [pc : {"idle", "dirs", "adopt"}, rows : SUBSET Snap]
  BY DEF Init
<1>3. restarted \in BOOLEAN /\ crashed \in BOOLEAN
  BY Zenon DEF Init
<1>5. stuck \in BOOLEAN
  BY Zenon DEF Init
<1>4. torn \in [Snap -> BOOLEAN]
  BY Zenon DEF Init
<1> QED
  BY <1>1, <1>2, <1>3, <1>4, <1>5 DEF Init, TypeOK, RowState, VMState, DirState, SaveStage, Building

LEMMA TypeStep == TypeOK /\ [Next]_vars => TypeOK'
<1> SUFFICES ASSUME TypeOK, [Next]_vars PROVE TypeOK'
  OBVIOUS
<1> USE DEF TypeOK, RowState, VMState, DirState, SaveStage, Building, saveVars, history, Torn
<1>0. upsets < MaxUpsets => upsets + 1 \in 0 .. MaxUpsets
  BY UpsetsAssumption DEF TypeOK
<1>1. CASE SourceStop \/ SourceStart
  <2>1. CASE SourceStop
    <3>1. stuck' \in BOOLEAN
      BY <2>1, Zenon DEF SourceStop
    <3> QED
      BY <2>1, <3>1 DEF SourceStop
  <2>2. CASE SourceStart
    <3>1. restarted' \in BOOLEAN
      BY <2>2, Zenon DEF SourceStart
    <3>2. torn' \in [Snap -> BOOLEAN]
      BY <2>2 DEF SourceStart
    <3> QED
      BY <2>2, <1>0, <3>1, <3>2 DEF SourceStart
  <2> QED
    BY <1>1, <2>1, <2>2
<1>2. ASSUME NEW s \in Snap, CreateSnapshot(s) \/ ForkMachine(s) PROVE TypeOK'
  BY <1>2 DEF CreateSnapshot, ForkMachine
<1>3. ASSUME NEW s \in Snap, Save(s) PROVE TypeOK'
  <2>1. CASE SavePause(s)
    <3>1. stuck' \in BOOLEAN
      <4>1. stuck' = stuck \/ stuck' = TRUE
        BY <2>1 DEF SavePause
      <4>2. stuck \in BOOLEAN
        BY DEF TypeOK
      <4> QED
        BY <4>1, <4>2, Zenon
    <3> QED
      BY <2>1, <3>1 DEF SavePause, SaveTo
  <2>2. CASE SaveCapture(s) \/ SaveCopy(s) \/ SaveRename(s) \/ SaveRewrite(s)
    BY <2>2 DEF SaveCapture, SaveCopy, SaveRename, SaveRewrite, SaveStep, SaveTo
  <2>3. CASE SaveResume(s)
    <3>1. stuck' \in BOOLEAN
      <4>1. stuck' = stuck \/ stuck' = TRUE
        BY <2>3 DEF SaveResume, Resumed
      <4>2. stuck \in BOOLEAN
        BY DEF TypeOK
      <4> QED
        BY <4>1, <4>2, Zenon
    <3>2. vm' \in VMState
      BY <2>3 DEF SaveResume, Resumed
    <3> QED
      BY <2>3, <3>1, <3>2 DEF SaveResume, SaveTo
  <2>4. CASE SaveLookup(s)
    BY <2>4 DEF SaveLookup, SaveTo
  <2>5. CASE SaveReady(s) \/ SaveFailed(s)
    BY <2>5 DEF SaveReady, SaveFailed, Finish
  <2>6. CASE ForkReturn(s)
    BY <2>6 DEF ForkReturn
  <2> QED
    BY <1>3, <2>1, <2>2, <2>3, <2>4, <2>5, <2>6 DEF Save
<1>4. ASSUME NEW s \in Snap, DeleteSnapshot(s) PROVE TypeOK'
  BY <1>4 DEF DeleteSnapshot
<1>5. CASE Delete
  BY <1>5 DEF Delete, DeleteRuntime, DeleteRow
<1>6. CASE ListRows \/ List
  <2>1. CASE ListRows
    <3>1. {s \in Snap : row[s] \in {"CREATING", "FAILED"}} \in SUBSET Snap
      OBVIOUS
    <3> QED
      BY <2>1, <3>1 DEF ListRows
  <2>2. CASE ListDirs
    <3>1. PICK stale \in SUBSET Snap : list' = [pc |-> IF stale = {} THEN "idle" ELSE "adopt", rows |-> stale]
      BY <2>2 DEF ListDirs
    <3> QED
      BY <2>2, <3>1 DEF ListDirs
  <2>3. CASE ListAdopt
    BY <2>3 DEF ListAdopt
  <2> QED
    BY <1>6, <2>1, <2>2, <2>3 DEF List
<1>7. CASE Crash
  <2>1. save' \in [Snap -> SaveStage]
    BY <1>7 DEF Crash
  <2>2. crashed' \in BOOLEAN
    BY <1>7, Zenon DEF Crash
  <2>3. /\ del' \in [pc : {"idle", "runtime", "row"}, snap : Snap \cup {NoSnap}]
        /\ list' \in [pc : {"idle", "dirs", "adopt"}, rows : SUBSET Snap]
    BY <1>7 DEF Crash
  <2> QED
    BY <1>7, <1>0, <2>1, <2>2, <2>3 DEF Crash
<1>8. CASE UNCHANGED vars
  BY <1>8 DEF vars
<1> QED
  BY <1>1, <1>2, <1>3, <1>4, <1>5, <1>6, <1>7, <1>8 DEF Next

--------------------------------------------------------------------------------
\* Saves that pause and resume one VM.

LEMMA PauseStep == TypeOK /\ PauseInv /\ [Next]_vars => PauseInv'
<1> SUFFICES ASSUME TypeOK, PauseInv, [Next]_vars PROVE PauseInv'
  OBVIOUS
<1> USE DEF PauseInv, PointInTime, OneInside, PausedIsHeld, Inside, Holding, Torn, saveVars, history
<1>1. CASE SourceStop \/ SourceStart
  BY <1>1 DEF SourceStop, SourceStart, Saving, Building, TypeOK
<1>2. ASSUME NEW s \in Snap, CreateSnapshot(s) \/ ForkMachine(s) PROVE PauseInv'
  BY <1>2 DEF CreateSnapshot, ForkMachine, TypeOK
<1>3. ASSUME NEW s \in Snap, Save(s) PROVE PauseInv'
  <2>0. save \in [Snap -> SaveStage] /\ torn \in [Snap -> BOOLEAN]
    BY DEF TypeOK
  <2>1. CASE SavePause(s)
    BY <2>0, <2>1 DEF SavePause, SaveTo, Pausable
  <2>2. CASE SaveCapture(s) \/ SaveCopy(s) \/ SaveRename(s) \/ SaveRewrite(s)
    <3>1. /\ Inside(s) /\ Inside(s)' /\ UNCHANGED <<vm, torn, restarted, stuck, crashed>>
          /\ \A t \in Snap \ {s} : save'[t] = save[t]
      BY <2>0, <2>2 DEF SaveCapture, SaveCopy, SaveRename, SaveRewrite, SaveStep, SaveTo
    <3> QED
      BY <3>1
  <2>3. CASE SaveResume(s)
    <3>1. /\ Inside(s) /\ save[s] # "captured" /\ save'[s] \in {"saved", "failed"}
          /\ vm' = (IF vm = "paused" THEN "running" ELSE vm) \/ vm' = vm
          /\ vm' = "paused" => stuck'
          /\ \A t \in Snap \ {s} : save'[t] = save[t]
          /\ torn' = [t \in Snap |-> torn[t] \/ (vm' = "running" /\ save[t] = "captured")]
          /\ UNCHANGED restarted
      BY <2>0, <2>3 DEF SaveResume, Resumed, SaveTo
    <3>2. ~restarted => \A t \in Snap \ {s} : ~Inside(t)
      BY <3>1
    <3> QED
      BY <3>1, <3>2
  <2>4. CASE SaveLookup(s) \/ SaveReady(s) \/ SaveFailed(s) \/ ForkReturn(s)
    <3>1. /\ UNCHANGED <<vm, torn, restarted, stuck, crashed>>
          /\ ~Inside(s) /\ save'[s] \in {"dead", "found", "done"}
          /\ \A t \in Snap \ {s} : save'[t] = save[t]
      BY <2>0, <2>4 DEF SaveLookup, SaveReady, SaveFailed, Finish, ForkReturn, SaveTo
    <3> QED
      BY <3>1
  <2> QED
    BY <1>3, <2>1, <2>2, <2>3, <2>4 DEF Save
<1>4. CASE (\E s \in Snap : DeleteSnapshot(s)) \/ Delete \/ ListRows \/ List
  BY <1>4 DEF DeleteSnapshot, Delete, DeleteRuntime, DeleteRow, ListRows, List, ListDirs, ListAdopt
<1>5. CASE Crash
  BY <1>5 DEF Crash
<1>6. CASE UNCHANGED vars
  BY <1>6 DEF vars
<1> QED
  BY <1>1, <1>2, <1>3, <1>4, <1>5, <1>6 DEF Next

LEMMA InsideOnePauser == PauseInv => OnePauser
<1> DEFINE holders == {s \in Snap : save[s] \in Holding}
<1> SUFFICES ASSUME PauseInv, ~restarted PROVE Cardinality(holders) <= 1
  BY DEF OnePauser
<1>1. \A s, t \in holders : s = t
  BY DEF PauseInv, OneInside, Inside
<1> HIDE DEF holders
<1>2. CASE holders = {}
  BY <1>2, FS_EmptySet
<1>3. CASE holders # {}
  <2>1. PICK s \in holders : TRUE
    BY <1>3
  <2>2. holders = {s}
    BY <1>1, <2>1
  <2> QED
    BY <2>2, FS_Singleton
<1> QED
  BY <1>2, <1>3

--------------------------------------------------------------------------------
\* Rows and artifacts.

LEMMA RestorableStep == TypeOK /\ RestorableInv /\ [Next]_vars => RestorableInv'
<1> SUFFICES ASSUME TypeOK, RestorableInv, [Next]_vars PROVE RestorableInv'
  OBVIOUS
<1> USE DEF RestorableInv, RowsStay, NewIds, ArtifactStays, ForksNeverDone, DoneIsReady, DeleteAsked, saveVars, history
<1>0. /\ row \in [Snap -> RowState] /\ save \in [Snap -> SaveStage] /\ final \in [Snap -> DirState]
      /\ fork \subseteq Snap /\ dropped \subseteq Snap
  BY DEF TypeOK
<1>1. CASE SourceStop \/ SourceStart
  BY <1>1 DEF SourceStop, SourceStart
<1>2. ASSUME NEW s \in Snap, CreateSnapshot(s) \/ ForkMachine(s) PROVE RestorableInv'
  BY <1>0, <1>2 DEF CreateSnapshot, ForkMachine
<1>3. ASSUME NEW s \in Snap, Save(s) PROVE RestorableInv'
  <2>1. CASE SavePause(s)
    BY <1>0, <2>1 DEF SavePause, SaveTo
  <2>2. CASE SaveCapture(s) \/ SaveCopy(s) \/ SaveRename(s) \/ SaveRewrite(s)
    BY <1>0, <2>2 DEF SaveCapture, SaveCopy, SaveRename, SaveRewrite, SaveStep, SaveTo
  <2>3. CASE SaveResume(s)
    BY <1>0, <2>3 DEF SaveResume, SaveTo
  <2>4. CASE SaveLookup(s)
    BY <1>0, <2>4 DEF SaveLookup, SaveTo
  <2>5. CASE SaveReady(s)
    BY <1>0, <2>5 DEF SaveReady, Finish
  <2>6. CASE SaveFailed(s)
    BY <1>0, <2>6 DEF SaveFailed, Finish
  <2>7. CASE ForkReturn(s)
    BY <1>0, <2>7 DEF ForkReturn
  <2> QED
    BY <1>3, <2>1, <2>2, <2>3, <2>4, <2>5, <2>6, <2>7 DEF Save
<1>4. ASSUME NEW s \in Snap, DeleteSnapshot(s) PROVE RestorableInv'
  BY <1>0, <1>4 DEF DeleteSnapshot
<1>5. CASE Delete
  BY <1>0, <1>5 DEF Delete, DeleteRuntime, DeleteRow, TypeOK
<1>6. CASE ListRows \/ List
  BY <1>0, <1>6 DEF ListRows, List, ListDirs, ListAdopt
<1>7. CASE Crash
  BY <1>0, <1>7 DEF Crash
<1>8. CASE UNCHANGED vars
  BY <1>8 DEF vars
<1> QED
  BY <1>1, <1>2, <1>3, <1>4, <1>5, <1>6, <1>7, <1>8 DEF Next

LEMMA SnapInvInit == Init => SnapInv
<1> SUFFICES ASSUME Init PROVE SnapInv
  OBVIOUS
<1>1. TypeOK
  BY TypeInit
<1>2. PauseInv
  BY DEF Init, PauseInv, PointInTime, OneInside, PausedIsHeld, Inside, Holding
<1>3. RestorableInv
  BY DEF Init, RestorableInv, RowsStay, NewIds, ArtifactStays, ForksNeverDone, DoneIsReady, DeleteAsked
<1> QED
  BY <1>1, <1>2, <1>3 DEF SnapInv

LEMMA SnapInvStep == SnapInv /\ [Next]_vars => SnapInv'
BY TypeStep, PauseStep, RestorableStep DEF SnapInv

--------------------------------------------------------------------------------
\* Every reachable state is well typed.
THEOREM TypeCorrect == Spec => []TypeOK
<1>1. SnapInv => TypeOK
  BY DEF SnapInv
<1> QED
  BY <1>1, SnapInvInit, SnapInvStep, PTL DEF Spec

\* A snapshot's disk is copied while the VM stands still (createSnapshotArtifact), unless
\* the owner starts the VM again under the save.
THEOREM DisksAreWhole == Spec => []PointInTime
<1>1. SnapInv => PointInTime
  BY DEF SnapInv, PauseInv
<1> QED
  BY <1>1, SnapInvInit, SnapInvStep, PTL DEF Spec

\* The VM's paused state keeps a second save of one boot out of the paused section.
THEOREM SavesExclude == Spec => []OnePauser
<1>1. SnapInv => OnePauser
  BY InsideOnePauser DEF SnapInv
<1> QED
  BY <1>1, SnapInvInit, SnapInvStep, PTL DEF Spec

\* A paused source has a save under way that will resume it, unless the server died, a pause
\* was answered too late or a resume failed (pauseVM, resumeVM, createSnapshotArtifact).
THEOREM PausedSourceIsHeld == Spec => []PausedIsHeld
<1>1. SnapInv => PausedIsHeld
  BY DEF SnapInv, PauseInv
<1> QED
  BY <1>1, SnapInvInit, SnapInvStep, PTL DEF Spec

\* A saved snapshot stays READY and complete until a delete is asked for, for any crash
\* and any list (runSnapshotCreate, DeleteSnapshot, ListSnapshots).
THEOREM SavedStays == Spec => []SavedStaysRestorable
<1>1. SnapInv => SavedStaysRestorable
  BY DEF SnapInv, RestorableInv, ArtifactStays, ForksNeverDone, DoneIsReady, SavedStaysRestorable
<1> QED
  BY <1>1, SnapInvInit, SnapInvStep, PTL DEF Spec
================================================================================
