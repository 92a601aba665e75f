-------------------------------- MODULE ToolAuth --------------------------------
(***************************************************************************)
(* One persisted login (toolauth/manager.go, store.go): the bundle of one  *)
(* user, tool and method, kept as two files, state.enc and profile.json.   *)
(* The background loop and the create handler capture a guest's login      *)
(* without overwriting a stored one by an empty one, a delete captures it  *)
(* exactly, a create job restores it.  Nothing locks the store: each file  *)
(* is written to one shared .tmp name and renamed.                         *)
(***************************************************************************)
EXTENDS Naturals, FiniteSets

CONSTANTS
  Guest,      \* RUNNING machines of the user
  Login,      \* contents of a bundle that holds a login
  Proc        \* captures and restores that may be under way together

Empty == "empty"          \* a bundle without entries
NoFile == "none"

ASSUME LoginAssumption == Empty \notin Login /\ NoFile \notin Login

Bundle == Login \cup {Empty}

VARIABLES
  tools,      \* what the tool's files in each guest hold
  state,      \* state.enc
  stateTmp,   \* state.enc.tmp
  profile,    \* the Empty flag of profile.json: "full", "empty" or no file
  profileTmp, \* profile.json.tmp
  proc,       \* control state of each capture or restore
  mixed       \* history: the two files may come from different captures

tvars == <<tools, state, stateTmp, profile, profileTmp, proc, mixed>>

Flag(bundle) == IF bundle = Empty THEN "empty" ELSE "full"

\* alone: no other capture or restore has used the store since this one began to
AtRest == [pc |-> "idle"]
Using(p) == proc[p].pc # "idle"
Enter(p, fields) ==
  LET others == {q \in Proc \ {p} : Using(q)}
  IN proc' = [q \in Proc |->
       IF q = p THEN [fields EXCEPT !.alone = others = {}]
       ELSE IF Using(q) THEN [proc[q] EXCEPT !.alone = FALSE] ELSE proc[q]]
Advance(p, pc) == proc' = [proc EXCEPT ![p].pc = pc]
Return(p) == proc' = [proc EXCEPT ![p] = AtRest]

store == <<state, stateTmp, profile, profileTmp>>

ToolInit ==
  /\ tools = [g \in Guest |-> Empty]
  /\ state = NoFile /\ stateTmp = NoFile /\ profile = NoFile /\ profileTmp = NoFile
  /\ proc = [p \in Proc |-> AtRest]
  /\ mixed = FALSE

\* the user logs in or out inside a guest
UserChanges(g) ==
  /\ \E b \in Bundle \ {tools[g]} : tools' = [tools EXCEPT ![g] = b]
  /\ UNCHANGED <<store, proc, mixed>>

--------------------------------------------------------------------------------
\* captureSessionState

\* what the archive of the tool's files in the guest holds
Captured(g) == tools[g]

Capture(p, g, mode) ==
  /\ proc[p].pc = "idle"
  /\ mode = "exact" => \A q \in Proc : Using(q) => proc[q].mode # "exact"   \* the user's lock
  /\ Enter(p, [pc |-> IF Captured(g) = Empty /\ mode = "preserve" THEN "check" ELSE "save",
               mode |-> mode, bundle |-> Captured(g), alone |-> FALSE, flag |-> NoFile])
  /\ UNCHANGED <<tools, store, mixed>>

\* the guest cannot be read
CaptureFail(p, mode) ==
  /\ proc[p].pc = "idle"
  /\ Enter(p, [pc |-> "mark", mode |-> mode, bundle |-> Empty, alone |-> FALSE, flag |-> NoFile])
  /\ UNCHANGED <<tools, store, mixed>>

CheckNothing(p) ==
  /\ proc[p].pc = "check"
  /\ Advance(p, "save")
  /\ UNCHANGED <<tools, store, mixed>>

\* LoadSessionState before an empty bundle is stored: a missing file is no profile
CheckExisting(p) ==
  /\ proc[p].pc = "check"
  /\ Advance(p, IF profile = "full" /\ state # NoFile THEN "mark" ELSE "save")
  /\ UNCHANGED <<tools, store, mixed>>

\* SaveSessionState: the state first, then the profile
SaveStateTmp(p) ==
  /\ proc[p].pc = "save"
  /\ stateTmp' = proc[p].bundle
  /\ Advance(p, "stateTmp")
  /\ UNCHANGED <<tools, state, profile, profileTmp, mixed>>

\* a rename moves what the shared name holds, if another has not moved it already
SaveState(p) ==
  /\ proc[p].pc = "stateTmp"
  /\ IF stateTmp = NoFile
     THEN Advance(p, "mark") /\ UNCHANGED <<state, stateTmp, mixed>>
     ELSE /\ state' = stateTmp /\ stateTmp' = NoFile
          /\ mixed' = TRUE
          /\ Advance(p, "saveProfile")
  /\ UNCHANGED <<tools, profile, profileTmp>>

SaveProfileTmpFull(p) ==
  /\ proc[p].pc = "saveProfile"
  /\ profileTmp' = "full"
  /\ Advance(p, "profileTmp")
  /\ UNCHANGED <<tools, state, stateTmp, profile, mixed>>

SaveProfileTmp(p) ==
  /\ proc[p].pc = "saveProfile"
  /\ profileTmp' = Flag(proc[p].bundle)
  /\ Advance(p, "profileTmp")
  /\ UNCHANGED <<tools, state, stateTmp, profile, mixed>>

SaveProfile(p) ==
  /\ proc[p].pc = "profileTmp"
  /\ IF profileTmp = NoFile
     THEN UNCHANGED <<profile, profileTmp, mixed>>
     ELSE /\ profile' = profileTmp /\ profileTmp' = NoFile
          /\ mixed' = ~proc[p].alone
  /\ Advance(p, "mark")
  /\ UNCHANGED <<tools, state, stateTmp>>

\* the load, a write or a backup failed: the error is marked
SaveFail(p) ==
  /\ proc[p].pc \in {"check", "save", "stateTmp", "saveProfile", "profileTmp"}
  /\ Advance(p, "mark")
  /\ UNCHANGED <<tools, store, mixed>>

--------------------------------------------------------------------------------
\* restoreSessionState

\* the tool's files are removed and the archive unpacked; the guest may refuse the
\* command, or fail between the two
Restored(g) == {tools, [tools EXCEPT ![g] = Empty], [tools EXCEPT ![g] = state]}

Restore(p, g) ==
  /\ proc[p].pc = "idle" /\ profile # NoFile /\ state # NoFile
  /\ Enter(p, [pc |-> "mark", mode |-> "restore", bundle |-> state, alone |-> FALSE, flag |-> NoFile])
  /\ tools' \in Restored(g)
  /\ UNCHANGED <<store, mixed>>

--------------------------------------------------------------------------------
\* updateProfileMetadata: the whole profile is read, and written back later

MarkRead(p) ==
  /\ proc[p].pc = "mark"
  /\ IF profile = NoFile THEN Return(p)
     ELSE proc' = [proc EXCEPT ![p].pc = "marked", ![p].flag = profile]
  /\ UNCHANGED <<tools, store, mixed>>

MarkTmp(p) ==
  /\ proc[p].pc = "marked"
  /\ profileTmp' = proc[p].flag
  /\ Advance(p, "markTmp")
  /\ UNCHANGED <<tools, state, stateTmp, profile, mixed>>

Mark(p) ==
  /\ proc[p].pc = "markTmp"
  /\ IF profileTmp = NoFile
     THEN UNCHANGED <<profile, profileTmp, mixed>>
     ELSE /\ profile' = profileTmp /\ profileTmp' = NoFile
          /\ mixed' = (mixed \/ ~proc[p].alone)
  /\ Return(p)
  /\ UNCHANGED <<tools, state, stateTmp>>

\* the server dies and starts again; a create job that is resumed restores anew
Crash ==
  /\ \E p \in Proc : Using(p)
  /\ proc' = [p \in Proc |-> AtRest]
  /\ UNCHANGED <<tools, store, mixed>>

SaveSessionState(p) ==
  \/ SaveStateTmp(p) \/ SaveState(p) \/ SaveProfileTmp(p) \/ SaveProfile(p)
  \/ SaveFail(p)
UpdateProfileMetadata(p) == MarkRead(p) \/ MarkTmp(p) \/ Mark(p)

\* syncToolAuthForRecord and its callers: the background loop and a create capture
\* from the running machines, a delete from its own, a create job restores
SyncToolAuthForRecord(p, mode) ==
  CaptureFail(p, mode) \/ \E g \in Guest : Capture(p, g, mode)
SyncRunningToolAuth(p) == SyncToolAuthForRecord(p, "preserve")
CaptureToolAuth(p) == SyncToolAuthForRecord(p, "exact")
RestoreToolAuth(p) == \E g \in Guest : Restore(p, g)

ToolNext ==
  \/ \E g \in Guest : UserChanges(g)
  \/ \E p \in Proc :
        \/ SyncRunningToolAuth(p) \/ CaptureToolAuth(p) \/ RestoreToolAuth(p)
        \/ CheckExisting(p) \/ SaveSessionState(p) \/ UpdateProfileMetadata(p)
  \/ Crash

ToolSpec == ToolInit /\ [][ToolNext]_tvars

--------------------------------------------------------------------------------
\* However captures, restores, failed writes and crashes cut into each other, one
\* capture that has the store to itself leaves the profile saying of the bundle what
\* the bundle is, and marks that have it to themselves keep it so.
ProfileMatches == ~mixed => (state = NoFile /\ profile = NoFile) \/ profile = Flag(state)

\* "Opportunistic empty sync does not clobber valid auth"
\* (openspec/specs/persistent-tool-auth/spec.md:57): a stored login gives way to an
\* empty bundle only by the exact capture of a delete, unless captures overlap or an
\* earlier one was cut short between the two files.
OverwritesLogin(p) == proc[p].pc = "stateTmp" /\ (proc[p].mode = "exact" \/ ~proc[p].alone)

LoginKept ==
  [][(state \in Login /\ state' = Empty) => mixed \/ \E p \in Proc : OverwritesLogin(p)]_tvars
================================================================================
