------------------------------- MODULE ImageStore -------------------------------
(***************************************************************************)
(* The store of guest images (runtime/cloudhypervisor/images.go): build,   *)
(* validate, promote and rollback are commands of processes of their own,  *)
(* so several may be under way together and each can be killed between two *)
(* steps.  Nothing locks the store.  A version is a directory under        *)
(* candidates/ and then releases/; `current' and `previous' are symbolic   *)
(* links.  A machine's disk names its backing file by the path of          *)
(* `current', which is resolved whenever the machine starts.               *)
(***************************************************************************)
EXTENDS Naturals, FiniteSets

CONSTANTS
  Version,    \* versions an operator names
  Cli,        \* commands that may be under way together
  Machine,       \* machines created from the current image
  NoVersion   \* target of a missing link

\* a missing link is told apart from every version
ASSUME ImageAssumption == NoVersion \notin Version

VARIABLES
  tmp,        \* candidates/<version>.tmp: "none", "empty" or "image"
  candidate,  \* candidates/<version>
  release,    \* releases/<version>
  current,    \* target of the link machines are created from
  previous,   \* target of the link rollback returns to
  cli,        \* per command: control state, version and what it has read
  base,       \* per machine: the version it was created from
  booted      \* per machine: the version its disk resolved to when it last started

ivars == <<tmp, candidate, release, current, previous, cli, base, booted>>

\* validated is the manifest's field; sound says that this very image booted in a validation
NoDir == [there |-> FALSE, image |-> FALSE, validated |-> FALSE, sound |-> FALSE]
AtPrompt == [pc |-> "idle"]

ImageInit ==
  /\ tmp = [v \in Version |-> "none"]
  /\ candidate = [v \in Version |-> NoDir] /\ release = [v \in Version |-> NoDir]
  /\ current = NoVersion /\ previous = NoVersion
  /\ cli = [c \in Cli |-> AtPrompt]
  /\ base = [m \in Machine |-> NoVersion] /\ booted = [m \in Machine |-> NoVersion]

machines == <<base, booted>>
links == <<current, previous>>
dirs == <<tmp, candidate, release>>

Continue(c, pc) == cli' = [cli EXCEPT ![c].pc = pc]
Exit(c) == cli' = [cli EXCEPT ![c] = AtPrompt]
At(c, pc) == cli[c].pc = pc
Begin(c, fields) == At(c, "idle") /\ cli' = [cli EXCEPT ![c] = fields]

--------------------------------------------------------------------------------
\* BuildImage

BuildCheck(c, v) ==
  /\ ~candidate[v].there /\ ~release[v].there
  /\ Begin(c, [pc |-> "build", v |-> v])
  /\ UNCHANGED <<dirs, links, machines>>

\* what another builder of this version left or is still filling is removed
BuildTmp(c) ==
  /\ At(c, "build")
  /\ tmp' = [tmp EXCEPT ![cli[c].v] = "empty"]
  /\ Continue(c, "tmp")
  /\ UNCHANGED <<candidate, release, links, machines>>

\* the builder VM is provisioned, stopped and its disk converted
BuildConvert(c) ==
  /\ At(c, "tmp") /\ tmp[cli[c].v] # "none"
  /\ tmp' = [tmp EXCEPT ![cli[c].v] = "image"]
  /\ Continue(c, "converted")
  /\ UNCHANGED <<candidate, release, links, machines>>

\* a rename onto a directory that is there fails
BuildRename(c) ==
  LET v == cli[c].v IN
  /\ At(c, "converted") /\ tmp[v] # "none" /\ ~candidate[v].there
  /\ candidate' = [candidate EXCEPT ![v] = [NoDir EXCEPT !.there = TRUE, !.image = tmp[v] = "image"]]
  /\ tmp' = [tmp EXCEPT ![v] = "none"]
  /\ Continue(c, "renamed")
  /\ UNCHANGED <<release, links, machines>>

\* the manifest is written once more, where the directory is now expected; the
\* deferred RemoveAll takes whatever is under the temporary name
BuildManifest(c) ==
  LET v == cli[c].v IN
  /\ At(c, "renamed")
  /\ candidate' = [candidate EXCEPT ![v].validated = FALSE]
  /\ tmp' = [tmp EXCEPT ![v] = "none"]
  /\ Exit(c)
  /\ UNCHANGED <<release, links, machines>>

BuildAbort(c) ==
  /\ cli[c].pc \in {"tmp", "converted"}
  /\ tmp' = [tmp EXCEPT ![cli[c].v] = "none"]
  /\ Exit(c)
  /\ UNCHANGED <<candidate, release, links, machines>>

--------------------------------------------------------------------------------
\* ValidateImage

\* findImageVersion looks among the candidates first
ValidateFind(c, v) ==
  /\ candidate[v].there \/ release[v].there
  /\ Begin(c, [pc |-> "validate", v |-> v, root |-> IF candidate[v].there THEN "candidates" ELSE "releases"])
  /\ UNCHANGED <<dirs, links, machines>>

\* the image at that path is booted, if it still is there
ValidateBoot(c) ==
  LET v == cli[c].v IN
  /\ At(c, "validate")
  /\ \/ /\ cli[c].root = "candidates" /\ candidate[v].image
        /\ candidate' = [candidate EXCEPT ![v].sound = TRUE]
        /\ UNCHANGED release
     \/ /\ cli[c].root = "releases" /\ release[v].image
        /\ UNCHANGED <<candidate, release>>
  /\ Continue(c, "booted")
  /\ UNCHANGED <<tmp, links, machines>>

\* the manifest as it was read is written back with ValidatedAt
ValidateWrite(c) ==
  LET v == cli[c].v IN
  /\ At(c, "booted")
  /\ candidate' = IF cli[c].root = "candidates" /\ candidate[v].there
                  THEN [candidate EXCEPT ![v].validated = TRUE] ELSE candidate
  /\ Exit(c)
  /\ UNCHANGED <<tmp, release, links, machines>>

--------------------------------------------------------------------------------
\* PromoteImage: the manifest is read, then the link

PromoteUnvalidated(c, v) ==
  /\ candidate[v].there
  /\ Begin(c, [pc |-> "promote", v |-> v, from |-> current])
  /\ UNCHANGED <<dirs, links, machines>>

PromoteCheck(c, v) ==
  /\ candidate[v].there /\ candidate[v].validated
  /\ Begin(c, [pc |-> "promote", v |-> v, from |-> current])
  /\ UNCHANGED <<dirs, links, machines>>

\* the candidate is renamed unless a release has its name; where nothing else was
\* current the previous link is left as it is
PromoteRename(c) ==
  LET v == cli[c].v IN
  /\ At(c, "promote") /\ candidate[v].there /\ ~release[v].there
  /\ release' = [release EXCEPT ![v] = [candidate[v] EXCEPT !.validated = TRUE]]
  /\ candidate' = [candidate EXCEPT ![v] = NoDir]
  /\ cli' = [cli EXCEPT ![c] = [pc |-> IF cli[c].from \in {NoVersion, v} THEN "unlinkCurrent" ELSE "unlinkPrevious",
                                to |-> v, from |-> cli[c].from]]
  /\ UNCHANGED <<tmp, links, machines>>

--------------------------------------------------------------------------------
\* RollbackImage, to a named release or to the previous link

Rollback(c, to) ==
  /\ current \notin {NoVersion, to}
  /\ Begin(c, [pc |-> "unlinkPrevious", to |-> to, from |-> current])
  /\ UNCHANGED <<dirs, links, machines>>

RollbackTo(c, v) == release[v].there /\ Rollback(c, v)
RollbackPrevious(c) == previous # NoVersion /\ Rollback(c, previous)

\* rewriteSymlink removes the link and makes a new one; Symlink fails on a link
\* another command has made meanwhile
UnlinkPrevious(c) ==
  /\ At(c, "unlinkPrevious")
  /\ previous' = NoVersion
  /\ Continue(c, "linkPrevious")
  /\ UNCHANGED <<dirs, current, machines>>

LinkPrevious(c) ==
  /\ At(c, "linkPrevious") /\ previous = NoVersion
  /\ previous' = cli[c].from
  /\ Continue(c, "unlinkCurrent")
  /\ UNCHANGED <<dirs, current, machines>>

UnlinkCurrent(c) ==
  /\ At(c, "unlinkCurrent")
  /\ current' = NoVersion
  /\ Continue(c, "linkCurrent")
  /\ UNCHANGED <<dirs, previous, machines>>

LinkCurrent(c) ==
  /\ At(c, "linkCurrent") /\ current = NoVersion
  /\ current' = cli[c].to
  /\ Exit(c)
  /\ UNCHANGED <<dirs, previous, machines>>

\* a command whose step fails returns; one that is killed leaves everything as it is
Quit(c) ==
  /\ ~At(c, "idle")
  /\ Exit(c)
  /\ UNCHANGED <<dirs, links, machines>>

--------------------------------------------------------------------------------
\* machines: createOverlayDisk needs the image to be there, a start resolves the
\* path of the backing file again

CreateMachine(m) ==
  /\ base[m] = NoVersion /\ current # NoVersion
  /\ base' = [base EXCEPT ![m] = current]
  /\ booted' = [booted EXCEPT ![m] = current]
  /\ UNCHANGED <<dirs, links, cli>>

StartMachine(m) ==
  /\ base[m] # NoVersion /\ current # NoVersion
  /\ booted' = [booted EXCEPT ![m] = current]
  /\ UNCHANGED <<dirs, links, cli, base>>

BuildImage(c) ==
  \/ \E v \in Version : BuildCheck(c, v)
  \/ BuildTmp(c) \/ BuildConvert(c) \/ BuildRename(c) \/ BuildManifest(c) \/ BuildAbort(c)
ValidateImage(c) ==
  (\E v \in Version : ValidateFind(c, v)) \/ ValidateBoot(c) \/ ValidateWrite(c)
PromoteImage(c) == (\E v \in Version : PromoteCheck(c, v)) \/ PromoteRename(c)
RollbackImage(c) == (\E v \in Version : RollbackTo(c, v)) \/ RollbackPrevious(c)
RewriteSymlink(c) ==
  UnlinkPrevious(c) \/ LinkPrevious(c) \/ UnlinkCurrent(c) \/ LinkCurrent(c)

ImageNext ==
  \/ \E c \in Cli :
        \/ BuildImage(c) \/ ValidateImage(c) \/ PromoteImage(c) \/ RollbackImage(c)
        \/ RewriteSymlink(c) \/ Quit(c)
  \/ \E m \in Machine : CreateMachine(m) \/ StartMachine(m)

ImageSpec == ImageInit /\ [][ImageNext]_ivars

--------------------------------------------------------------------------------
\* "the promoted default for fresh machine creation" passed "a boot validation pass"
\* (prebaked-vm-images/spec.md:30): whatever commands overlap or are killed, the links
\* name releases whose own image booted in a validation, though a version may be
\* built twice and a validation may write its result into a directory that has changed.
LinksValidated ==
  \A v \in {current, previous} \ {NoVersion} : release[v].image /\ release[v].sound

\* "later fresh machines use the promoted image instead of the prior one"
\* (prebaked-vm-images/spec.md:35): a promotion or rollback is for machines created
\* after it; a machine keeps running from the image its disk was made over.
MachineKeepsItsImage == \A m \in Machine : booted[m] = base[m]
================================================================================
