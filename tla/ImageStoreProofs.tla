--------------------------- MODULE ImageStoreProofs ---------------------------
(***************************************************************************)
(* Theorem about ImageStore: whatever commands overlap, fail or are        *)
(* killed, `current' and `previous' only ever name releases whose own      *)
(* image booted in a validation.                                           *)
(***************************************************************************)
EXTENDS ImageStore, TLAPS

LinkPC == {"unlinkPrevious", "linkPrevious", "unlinkCurrent", "linkCurrent"}
Link == Version \cup {NoVersion}

\* what a command under way knows, by the command it is
Command ==
  {AtPrompt}
    \cup [pc : {"build", "tmp", "converted", "renamed"}, v : Version]
    \cup [pc : {"validate", "booted"}, v : Version, root : {"candidates", "releases"}]
    \cup [pc : {"promote"}, v : Version, from : Link]
    \cup [pc : LinkPC, to : Version, from : Link]

Dir == [there : BOOLEAN, image : BOOLEAN, validated : BOOLEAN, sound : BOOLEAN]

TypeOK ==
  /\ tmp \in [Version -> {"none", "empty", "image"}]
  /\ candidate \in [Version -> Dir] /\ release \in [Version -> Dir]
  /\ current \in Link /\ previous \in Link
  /\ cli \in [Cli -> Command]

\* a release is never emptied, and it was renamed from a candidate that had booted
ReleasesSound == \A v \in Version : release[v].there => release[v].image /\ release[v].sound

\* only a directory that is there holds an image, and only an image has booted
SoundIsWhole ==
  \A v \in Version : /\ candidate[v].sound => candidate[v].image
                     /\ candidate[v].image => candidate[v].there

\* ValidatedAt may be written into a directory of the same name built later, but only
\* once the version is released, and then no rename can succeed
ValidatedIsSound ==
  \A v \in Version : candidate[v].validated => release[v].there \/ candidate[v].sound

\* what a promotion or validation under way read of a candidate still holds, or another
\* command has released it
PromotionSound ==
  \A c \in Cli : cli[c].pc = "promote" => release[cli[c].v].there \/ candidate[cli[c].v].sound
BootedIsSound ==
  \A c \in Cli : cli[c].pc = "booted" /\ cli[c].root = "candidates"
                   => release[cli[c].v].there \/ candidate[cli[c].v].sound

LinksReleased == \A v \in {current, previous} \ {NoVersion} : release[v].there
TargetsReleased ==
  \A c \in Cli :
    /\ cli[c].pc \in LinkPC => release[cli[c].to].there
    /\ cli[c].pc \in {"promote", "unlinkPrevious", "linkPrevious"} /\ cli[c].from # NoVersion
         => release[cli[c].from].there

ImageInv ==
  /\ TypeOK /\ ReleasesSound /\ SoundIsWhole /\ ValidatedIsSound
  /\ PromotionSound /\ BootedIsSound /\ LinksReleased /\ TargetsReleased

--------------------------------------------------------------------------------
\* What the control state of a command says of the rest of its record.
LEMMA Known ==
  ASSUME TypeOK, NEW c \in Cli
  PROVE  /\ cli[c].pc \in {"build", "tmp", "converted", "renamed", "validate", "booted", "promote"}
              => cli[c].v \in Version
         /\ cli[c].pc \in LinkPC => cli[c].to \in Version
         /\ cli[c].pc \in LinkPC \cup {"promote"} => cli[c].from \in Link
<1>1. cli[c] \in Command
  BY DEF TypeOK
<1> QED
  BY <1>1 DEF Command, AtPrompt, LinkPC

\* A command that moves on keeps what it knows, and no other command notices.
LEMMA Moved ==
  ASSUME TypeOK, NEW c \in Cli, NEW pc, Continue(c, pc),
         \/ cli[c].pc \in {"build", "tmp", "converted"} /\ pc \in {"tmp", "converted", "renamed"}
         \/ cli[c].pc = "validate" /\ pc = "booted"
         \/ cli[c].pc \in LinkPC /\ pc \in LinkPC
  PROVE  /\ cli' \in [Cli -> Command]
         /\ cli'[c].pc = pc
         /\ cli[c].pc = "validate" => cli'[c].v = cli[c].v /\ cli'[c].root = cli[c].root
         /\ cli[c].pc \in LinkPC => cli'[c].to = cli[c].to /\ cli'[c].from = cli[c].from
         /\ \A d \in Cli \ {c} : cli'[d] = cli[d]
<1> DEFINE new == [cli[c] EXCEPT !.pc = pc]
<1>1. cli[c] \in Command
  BY DEF TypeOK
<1>2. /\ new \in Command /\ new.pc = pc
      /\ cli[c].pc = "validate" => new.v = cli[c].v /\ new.root = cli[c].root
      /\ cli[c].pc \in LinkPC => new.to = cli[c].to /\ new.from = cli[c].from
  <2>1. CASE cli[c].pc \in {"build", "tmp", "converted"}
    <3>1. cli[c] \in [pc : {"build", "tmp", "converted", "renamed"}, v : Version]
      BY <1>1, <2>1 DEF Command, AtPrompt, LinkPC
    <3>2. pc \in {"tmp", "converted", "renamed"}
      BY <2>1 DEF LinkPC
    <3> QED
      BY <2>1, <3>1, <3>2 DEF Command, LinkPC
  <2>2. CASE cli[c].pc = "validate"
    <3>1. cli[c] \in [pc : {"validate", "booted"}, v : Version, root : {"candidates", "releases"}]
      BY <1>1, <2>2 DEF Command, AtPrompt, LinkPC
    <3>2. pc = "booted"
      BY <2>2 DEF LinkPC
    <3> QED
      BY <2>2, <3>1, <3>2 DEF Command, LinkPC
  <2>3. CASE cli[c].pc \in LinkPC
    <3>1. cli[c] \in [pc : LinkPC, to : Version, from : Link]
      BY <1>1, <2>3 DEF Command, AtPrompt, LinkPC
    <3>2. pc \in LinkPC
      BY <2>3 DEF LinkPC
    <3> QED
      BY <2>3, <3>1, <3>2 DEF Command, LinkPC
  <2> QED
    BY <2>1, <2>2, <2>3
<1>3. cli' = [cli EXCEPT ![c] = new]
  BY DEF Continue
<1> HIDE DEF new
<1> QED
  BY <1>2, <1>3 DEF TypeOK

LEMMA InitSound == ImageInit => ImageInv
<1>1. AtPrompt \in Command /\ AtPrompt.pc = "idle"
  BY DEF Command, AtPrompt
<1>2. NoDir \in Dir /\ ~NoDir.image /\ ~NoDir.there /\ ~NoDir.validated /\ ~NoDir.sound
  BY DEF NoDir, Dir
<1> SUFFICES ASSUME ImageInit PROVE ImageInv
  OBVIOUS
<1>3. TypeOK
  BY <1>1, <1>2 DEF ImageInit, TypeOK, Link
<1>4. ReleasesSound /\ SoundIsWhole /\ ValidatedIsSound
  BY <1>2 DEF ImageInit, ReleasesSound, SoundIsWhole, ValidatedIsSound
<1>5. PromotionSound /\ BootedIsSound /\ TargetsReleased
  BY <1>1 DEF ImageInit, PromotionSound, BootedIsSound, TargetsReleased, LinkPC
<1>6. LinksReleased
  BY DEF ImageInit, LinksReleased
<1> QED
  BY <1>3, <1>4, <1>5, <1>6 DEF ImageInv

\* A step that touches neither the candidates, the releases nor the links, and leaves
\* every command where it may be, keeps the invariant.
LEMMA QuietStep ==
  ASSUME ImageInv, TypeOK', UNCHANGED <<candidate, release, links>>,
         NEW c \in Cli,
         \A d \in Cli \ {c} : cli'[d] = cli[d],
         cli'[c].pc \notin {"promote", "booted"} \cup LinkPC
  PROVE  ImageInv'
<1> USE DEF links
<1>1. ReleasesSound' /\ SoundIsWhole' /\ ValidatedIsSound' /\ LinksReleased'
  BY DEF ImageInv, ReleasesSound, SoundIsWhole, ValidatedIsSound, LinksReleased
<1>2. PromotionSound' /\ BootedIsSound'
  BY DEF ImageInv, PromotionSound, BootedIsSound
<1>3. TargetsReleased'
  BY DEF ImageInv, TargetsReleased, LinkPC
<1> QED
  BY <1>1, <1>2, <1>3 DEF ImageInv

\* A command that starts, fails or ends replaces its record.
LEMMA Replaced ==
  ASSUME TypeOK, NEW c \in Cli, NEW k \in Command, cli' = [cli EXCEPT ![c] = k]
  PROVE  /\ cli' \in [Cli -> Command]
         /\ cli'[c] = k
         /\ \A d \in Cli \ {c} : cli'[d] = cli[d]
BY DEF TypeOK

LEMMA BuildSound ==
  ASSUME ImageInv, NEW c \in Cli, BuildImage(c)
  PROVE  ImageInv'
<1> USE DEF dirs, links, At
<1>0. TypeOK /\ AtPrompt \in Command /\ AtPrompt.pc = "idle"
  BY DEF ImageInv, Command, AtPrompt
<1>1. CASE \E v \in Version : BuildCheck(c, v)
  <2>1. PICK v \in Version : BuildCheck(c, v)
    BY <1>1
  <2>2. [pc |-> "build", v |-> v] \in Command
    BY DEF Command
  <2>3. TypeOK' /\ cli'[c].pc = "build" /\ \A d \in Cli \ {c} : cli'[d] = cli[d]
    BY <1>0, <2>1, <2>2, Replaced DEF BuildCheck, Begin, TypeOK
  <2> QED
    BY <2>1, <2>3, QuietStep DEF BuildCheck, LinkPC
<1>2. CASE BuildTmp(c) \/ BuildConvert(c)
  <2>1. PICK pc \in {"tmp", "converted"} : Continue(c, pc) /\ cli[c].pc \in {"build", "tmp"}
    BY <1>2 DEF BuildTmp, BuildConvert
  <2>2. cli' \in [Cli -> Command] /\ cli'[c].pc = pc /\ \A d \in Cli \ {c} : cli'[d] = cli[d]
    BY <1>0, <2>1, Moved
  <2>3. TypeOK'
    BY <1>0, <1>2, <2>2 DEF BuildTmp, BuildConvert, TypeOK
  <2> QED
    BY <1>2, <2>2, <2>3, QuietStep DEF BuildTmp, BuildConvert, LinkPC
<1>3. CASE BuildAbort(c)
  <2>1. cli' \in [Cli -> Command] /\ cli'[c] = AtPrompt /\ \A d \in Cli \ {c} : cli'[d] = cli[d]
    BY <1>0, <1>3, Replaced DEF BuildAbort, Exit
  <2>2. TypeOK'
    BY <1>0, <1>3, <2>1 DEF BuildAbort, TypeOK
  <2> QED
    BY <1>0, <1>3, <2>1, <2>2, QuietStep DEF BuildAbort, LinkPC
<1>4. CASE BuildRename(c)
  <2> DEFINE v == cli[c].v
             built == [NoDir EXCEPT !.there = TRUE, !.image = tmp[v] = "image"]
  <2>1. v \in Version
    BY <1>0, <1>4, Known DEF BuildRename
  <2>2. built \in Dir /\ built.there /\ ~built.validated /\ ~built.sound
    BY DEF NoDir, Dir
  <2>3. cli' \in [Cli -> Command] /\ cli'[c].pc = "renamed" /\ \A d \in Cli \ {c} : cli'[d] = cli[d]
    BY <1>0, <1>4, Moved DEF BuildRename
  <2>4. /\ candidate' = [candidate EXCEPT ![v] = built]
        /\ ~candidate[v].there
        /\ UNCHANGED <<release, current, previous>>
    BY <1>4 DEF BuildRename
  <2>5. TypeOK'
    <3>1. tmp' = [tmp EXCEPT ![v] = "none"]
      BY <1>4 DEF BuildRename
    <3> HIDE DEF v, built
    <3> QED
      BY <1>0, <2>1, <2>2, <2>3, <2>4, <3>1 DEF TypeOK
  <2> HIDE DEF v, built
  <2>6. ~candidate[v].sound /\ candidate \in [Version -> Dir]
    BY <2>1, <2>4 DEF ImageInv, SoundIsWhole, TypeOK
  <2>7. ReleasesSound' /\ SoundIsWhole' /\ ValidatedIsSound' /\ LinksReleased'
    BY <2>1, <2>2, <2>4, <2>6 DEF ImageInv, ReleasesSound, SoundIsWhole, ValidatedIsSound, LinksReleased
  <2>8. PromotionSound' /\ BootedIsSound'
    <3>1. \A w \in Version : candidate[w].sound => candidate'[w].sound
      BY <2>1, <2>4, <2>6
    <3>2. \A d \in Cli \ {c} : cli[d].pc \in {"promote", "booted"} => cli[d].v \in Version
      BY <1>0, Known
    <3> QED
      BY <2>3, <2>4, <3>1, <3>2 DEF ImageInv, PromotionSound, BootedIsSound
  <2>9. TargetsReleased'
    BY <2>3, <2>4 DEF ImageInv, TargetsReleased, LinkPC
  <2> QED
    BY <2>5, <2>7, <2>8, <2>9 DEF ImageInv
<1>5. CASE BuildManifest(c)
  <2> DEFINE v == cli[c].v
  <2>1. v \in Version
    BY <1>0, <1>5, Known DEF BuildManifest
  <2>2. cli' \in [Cli -> Command] /\ cli'[c] = AtPrompt /\ \A d \in Cli \ {c} : cli'[d] = cli[d]
    BY <1>0, <1>5, Replaced DEF BuildManifest, Exit
  <2>3. /\ candidate' = [candidate EXCEPT ![v].validated = FALSE]
        /\ tmp' = [tmp EXCEPT ![v] = "none"]
        /\ UNCHANGED <<release, current, previous>>
    BY <1>5 DEF BuildManifest
  <2> HIDE DEF v
  <2>4. candidate \in [Version -> Dir] /\ candidate[v] \in Dir
    BY <1>0, <2>1 DEF TypeOK
  <2>5. /\ candidate' \in [Version -> Dir]
        /\ \A w \in Version : /\ candidate'[w].there = candidate[w].there
                              /\ candidate'[w].image = candidate[w].image
                              /\ candidate'[w].sound = candidate[w].sound
                              /\ candidate'[w].validated => candidate[w].validated
    BY <2>1, <2>3, <2>4 DEF Dir
  <2>6. TypeOK'
    BY <1>0, <2>1, <2>2, <2>3, <2>5 DEF TypeOK
  <2>7. ReleasesSound' /\ SoundIsWhole' /\ ValidatedIsSound' /\ LinksReleased'
    BY <2>3, <2>5 DEF ImageInv, ReleasesSound, SoundIsWhole, ValidatedIsSound, LinksReleased
  <2>8. PromotionSound' /\ BootedIsSound'
    <3>1. \A d \in Cli \ {c} : cli[d].pc \in {"promote", "booted"} => cli[d].v \in Version
      BY <1>0, Known
    <3> QED
      BY <1>0, <2>2, <2>3, <2>5, <3>1 DEF ImageInv, PromotionSound, BootedIsSound
  <2>9. TargetsReleased'
    BY <1>0, <2>2, <2>3 DEF ImageInv, TargetsReleased, LinkPC
  <2> QED
    BY <2>6, <2>7, <2>8, <2>9 DEF ImageInv
<1> QED
  BY <1>1, <1>2, <1>3, <1>4, <1>5 DEF BuildImage

\* Booting a candidate or dating its manifest changes that field and no other.
LEMMA Marked ==
  ASSUME TypeOK, NEW v \in Version, NEW b \in BOOLEAN
  PROVE  /\ candidate' = [candidate EXCEPT ![v].sound = b] =>
              /\ candidate' \in [Version -> Dir]
              /\ \A w \in Version : /\ candidate'[w].there = candidate[w].there
                                    /\ candidate'[w].image = candidate[w].image
                                    /\ candidate'[w].validated = candidate[w].validated
                                    /\ candidate'[w].sound = IF w = v THEN b ELSE candidate[w].sound
         /\ candidate' = [candidate EXCEPT ![v].validated = b] =>
              /\ candidate' \in [Version -> Dir]
              /\ \A w \in Version : /\ candidate'[w].there = candidate[w].there
                                    /\ candidate'[w].image = candidate[w].image
                                    /\ candidate'[w].sound = candidate[w].sound
                                    /\ candidate'[w].validated = IF w = v THEN b ELSE candidate[w].validated
         /\ candidate \in [Version -> Dir]
<1> DEFINE booting == [candidate[v] EXCEPT !.sound = b]
           dating == [candidate[v] EXCEPT !.validated = b]
<1>1. candidate \in [Version -> Dir] /\ candidate[v] \in Dir
  BY DEF TypeOK
<1>2. /\ booting \in Dir /\ booting.sound = b /\ booting.there = candidate[v].there
      /\ booting.image = candidate[v].image /\ booting.validated = candidate[v].validated
  BY <1>1 DEF Dir
<1>3. /\ dating \in Dir /\ dating.validated = b /\ dating.there = candidate[v].there
      /\ dating.image = candidate[v].image /\ dating.sound = candidate[v].sound
  BY <1>1 DEF Dir
<1>4. ASSUME candidate' = [candidate EXCEPT ![v] = booting]
      PROVE  /\ candidate' \in [Version -> Dir]
             /\ \A w \in Version : candidate'[w] = IF w = v THEN booting ELSE candidate[w]
  <2> HIDE DEF booting
  <2> QED
    BY <1>1, <1>2, <1>4
<1>5. ASSUME candidate' = [candidate EXCEPT ![v] = dating]
      PROVE  /\ candidate' \in [Version -> Dir]
             /\ \A w \in Version : candidate'[w] = IF w = v THEN dating ELSE candidate[w]
  <2> HIDE DEF dating
  <2> QED
    BY <1>1, <1>3, <1>5
<1>6. candidate' = [candidate EXCEPT ![v].sound = b] => candidate' = [candidate EXCEPT ![v] = booting]
  OBVIOUS
<1>7. candidate' = [candidate EXCEPT ![v].validated = b] => candidate' = [candidate EXCEPT ![v] = dating]
  OBVIOUS
<1> HIDE DEF booting, dating
<1> QED
  BY <1>1, <1>2, <1>3, <1>4, <1>5, <1>6, <1>7

LEMMA ValidateSound ==
  ASSUME ImageInv, NEW c \in Cli, ValidateImage(c)
  PROVE  ImageInv'
<1> USE DEF dirs, links, At
<1>0. /\ TypeOK /\ AtPrompt \in Command /\ AtPrompt.pc = "idle"
      /\ \A d \in Cli : cli[d].pc \in {"promote", "booted"} => cli[d].v \in Version
  BY Known DEF ImageInv, Command, AtPrompt
<1>1. CASE \E v \in Version : ValidateFind(c, v)
  <2>1. PICK v \in Version : ValidateFind(c, v)
    BY <1>1
  <2> DEFINE root == IF candidate[v].there THEN "candidates" ELSE "releases"
  <2>2. [pc |-> "validate", v |-> v, root |-> root] \in Command
    BY DEF Command
  <2>3. TypeOK' /\ cli'[c].pc = "validate" /\ \A d \in Cli \ {c} : cli'[d] = cli[d]
    <3>1. cli' = [cli EXCEPT ![c] = [pc |-> "validate", v |-> v, root |-> root]]
      BY <2>1 DEF ValidateFind, Begin
    <3>2. cli' \in [Cli -> Command] /\ cli'[c] = [pc |-> "validate", v |-> v, root |-> root]
          /\ \A d \in Cli \ {c} : cli'[d] = cli[d]
      BY <1>0, <2>2, <3>1, Replaced
    <3> QED
      BY <1>0, <2>1, <3>2 DEF ValidateFind, TypeOK
  <2> QED
    BY <2>1, <2>3, QuietStep DEF ValidateFind, LinkPC
<1>2. CASE ValidateBoot(c)
  <2> DEFINE v == cli[c].v
  <2>1. v \in Version
    BY <1>0, <1>2, Known DEF ValidateBoot
  <2>2. /\ cli' \in [Cli -> Command] /\ cli'[c].pc = "booted"
        /\ cli'[c].v = v /\ cli'[c].root = cli[c].root
        /\ \A d \in Cli \ {c} : cli'[d] = cli[d]
    BY <1>0, <1>2, Moved DEF ValidateBoot
  <2>3. /\ \/ candidate[v].image /\ candidate' = [candidate EXCEPT ![v].sound = TRUE]
           \/ candidate' = candidate /\ cli[c].root = "releases"
        /\ UNCHANGED <<tmp, release, current, previous>>
    BY <1>2 DEF ValidateBoot
  <2>4. cli[c].root = "candidates" => candidate'[v].sound
    BY <1>0, <1>2, <2>1, <2>3 DEF TypeOK, Dir
  <2> HIDE DEF v
  <2>5. /\ candidate' \in [Version -> Dir]
        /\ \A w \in Version : /\ candidate'[w].there = candidate[w].there
                              /\ candidate'[w].image = candidate[w].image
                              /\ candidate'[w].validated = candidate[w].validated
                              /\ candidate[w].sound => candidate'[w].sound
                              /\ candidate'[w].sound => candidate[w].sound \/ candidate[w].image
    <3>1. CASE candidate[v].image /\ candidate' = [candidate EXCEPT ![v].sound = TRUE]
      <4>1. /\ candidate' \in [Version -> Dir]
            /\ \A w \in Version : /\ candidate'[w].there = candidate[w].there
                                  /\ candidate'[w].image = candidate[w].image
                                  /\ candidate'[w].validated = candidate[w].validated
                                  /\ candidate'[w].sound = IF w = v THEN TRUE ELSE candidate[w].sound
        BY <1>0, <2>1, <3>1, Marked
      <4> QED
        BY <3>1, <4>1
    <3>2. CASE candidate' = candidate
      BY <1>0, <3>2 DEF TypeOK
    <3> QED
      BY <2>3, <3>1, <3>2
  <2>6. TypeOK'
    BY <1>0, <2>2, <2>3, <2>5 DEF TypeOK
  <2>7. ReleasesSound' /\ SoundIsWhole' /\ ValidatedIsSound' /\ LinksReleased'
    BY <2>3, <2>5 DEF ImageInv, ReleasesSound, SoundIsWhole, ValidatedIsSound, LinksReleased
  <2>8. PromotionSound' /\ BootedIsSound'
    BY <1>0, <2>1, <2>2, <2>3, <2>4, <2>5 DEF ImageInv, PromotionSound, BootedIsSound
  <2>9. TargetsReleased'
    BY <2>2, <2>3 DEF ImageInv, TargetsReleased, LinkPC
  <2> QED
    BY <2>6, <2>7, <2>8, <2>9 DEF ImageInv
<1>3. CASE ValidateWrite(c)
  <2> DEFINE v == cli[c].v
  <2>1. v \in Version
    BY <1>0, <1>3 DEF ValidateWrite
  <2>2. cli' \in [Cli -> Command] /\ cli'[c] = AtPrompt /\ \A d \in Cli \ {c} : cli'[d] = cli[d]
    BY <1>0, <1>3, Replaced DEF ValidateWrite, Exit
  <2>3. /\ \/ /\ cli[c].root = "candidates"
              /\ candidate' = [candidate EXCEPT ![v].validated = TRUE]
           \/ candidate' = candidate
        /\ UNCHANGED <<tmp, release, current, previous>>
    BY <1>3 DEF ValidateWrite
  <2>4. cli[c].root = "candidates" => release[v].there \/ candidate[v].sound
    BY <1>3 DEF ImageInv, BootedIsSound, ValidateWrite
  <2> HIDE DEF v
  <2>5. /\ candidate' \in [Version -> Dir]
        /\ \A w \in Version : /\ candidate'[w].there = candidate[w].there
                              /\ candidate'[w].image = candidate[w].image
                              /\ candidate'[w].sound = candidate[w].sound
                              /\ candidate'[w].validated => candidate[w].validated \/ (w = v /\ cli[c].root = "candidates")
    <3>0. candidate \in [Version -> Dir]
      BY <1>0 DEF TypeOK
    <3>1. CASE cli[c].root = "candidates" /\ candidate' = [candidate EXCEPT ![v].validated = TRUE]
      <4>1. /\ candidate' \in [Version -> Dir]
            /\ \A w \in Version : /\ candidate'[w].there = candidate[w].there
                                  /\ candidate'[w].image = candidate[w].image
                                  /\ candidate'[w].sound = candidate[w].sound
                                  /\ candidate'[w].validated = IF w = v THEN TRUE ELSE candidate[w].validated
        BY <1>0, <2>1, <3>1, Marked
      <4> QED
        BY <3>1, <4>1
    <3>2. CASE candidate' = candidate
      BY <3>0, <3>2
    <3> QED
      BY <2>3, <3>1, <3>2
  <2>6. TypeOK'
    BY <1>0, <2>2, <2>3, <2>5 DEF TypeOK
  <2>7. ReleasesSound' /\ SoundIsWhole' /\ ValidatedIsSound' /\ LinksReleased'
    BY <2>3, <2>4, <2>5 DEF ImageInv, ReleasesSound, SoundIsWhole, ValidatedIsSound, LinksReleased
  <2>8. PromotionSound' /\ BootedIsSound'
    BY <1>0, <2>2, <2>3, <2>5 DEF ImageInv, PromotionSound, BootedIsSound
  <2>9. TargetsReleased'
    BY <1>0, <2>2, <2>3 DEF ImageInv, TargetsReleased, LinkPC
  <2> QED
    BY <2>6, <2>7, <2>8, <2>9 DEF ImageInv
<1> QED
  BY <1>1, <1>2, <1>3 DEF ValidateImage

LEMMA PromoteSound ==
  ASSUME ImageInv, NEW c \in Cli, PromoteImage(c)
  PROVE  ImageInv'
<1> USE DEF dirs, links, At
<1>0. /\ TypeOK
      /\ \A d \in Cli : cli[d].pc \in {"promote", "booted"} => cli[d].v \in Version
      /\ \A d \in Cli : cli[d].pc \in LinkPC => cli[d].to \in Version
      /\ \A d \in Cli : cli[d].pc \in LinkPC \cup {"promote"} => cli[d].from \in Link
  BY Known DEF ImageInv
<1>1. CASE \E v \in Version : PromoteCheck(c, v)
  <2>1. PICK v \in Version : PromoteCheck(c, v)
    BY <1>1
  <2> DEFINE k == [pc |-> "promote", v |-> v, from |-> current]
  <2>2. k \in Command
    BY <1>0 DEF Command, TypeOK
  <2>3. cli' \in [Cli -> Command] /\ cli'[c] = k /\ \A d \in Cli \ {c} : cli'[d] = cli[d]
    <3>1. cli' = [cli EXCEPT ![c] = k]
      BY <2>1 DEF PromoteCheck, Begin
    <3> QED
      BY <1>0, <2>2, <3>1, Replaced
  <2>4. UNCHANGED <<tmp, candidate, release, current, previous>>
    BY <2>1 DEF PromoteCheck
  <2>5. TypeOK'
    BY <1>0, <2>3, <2>4 DEF TypeOK
  <2>6. ReleasesSound' /\ SoundIsWhole' /\ ValidatedIsSound' /\ LinksReleased'
    BY <2>4 DEF ImageInv, ReleasesSound, SoundIsWhole, ValidatedIsSound, LinksReleased
  <2>7. PromotionSound' /\ BootedIsSound'
    <3>1. release[v].there \/ candidate[v].sound
      BY <2>1 DEF ImageInv, ValidatedIsSound, PromoteCheck
    <3> QED
      BY <2>3, <2>4, <3>1 DEF ImageInv, PromotionSound, BootedIsSound
  <2>8. TargetsReleased'
    <3>1. current # NoVersion => release[current].there
      BY DEF ImageInv, LinksReleased
    <3> QED
      BY <2>3, <2>4, <3>1 DEF ImageInv, TargetsReleased, LinkPC
  <2> QED
    BY <2>5, <2>6, <2>7, <2>8 DEF ImageInv
<1>2. CASE PromoteRename(c)
  <2> DEFINE v == cli[c].v
             pc == IF cli[c].from \in {NoVersion, v} THEN "unlinkCurrent" ELSE "unlinkPrevious"
             k == [pc |-> pc, to |-> v, from |-> cli[c].from]
             moved == [candidate[v] EXCEPT !.validated = TRUE]
  <2>1. v \in Version /\ cli[c].from \in Link /\ cli[c].pc = "promote"
    BY <1>0, <1>2 DEF PromoteRename
  <2>2. k \in Command
    BY <2>1 DEF Command, LinkPC
  <2>3. cli' \in [Cli -> Command] /\ cli'[c] = k /\ \A d \in Cli \ {c} : cli'[d] = cli[d]
    <3>1. cli' = [cli EXCEPT ![c] = k]
      BY <1>2 DEF PromoteRename
    <3> QED
      BY <1>0, <2>2, <3>1, Replaced
  <2>4. candidate[v].sound /\ candidate[v].there /\ candidate[v].image
    BY <1>2, <2>1 DEF ImageInv, PromotionSound, SoundIsWhole, PromoteRename
  <2>5. moved \in Dir /\ moved.there /\ moved.image /\ moved.sound
    BY <1>0, <2>1, <2>4 DEF TypeOK, Dir
  <2>6. /\ release' = [release EXCEPT ![v] = moved]
        /\ candidate' = [candidate EXCEPT ![v] = NoDir]
        /\ UNCHANGED <<tmp, current, previous>>
    BY <1>2 DEF PromoteRename
  <2>7. NoDir \in Dir /\ ~NoDir.image /\ ~NoDir.validated /\ ~NoDir.sound
    BY DEF NoDir, Dir
  <2>8. cli'[c].pc \in {"unlinkCurrent", "unlinkPrevious"} /\ cli'[c].to = v /\ cli'[c].from = cli[c].from
    BY <2>3
  <2> HIDE DEF v, k, moved
  <2>9. /\ \A w \in Version : release[w].there => release'[w].there
        /\ release'[v].there
        /\ \A w \in Version : candidate[w].sound => release'[w].there \/ candidate'[w].sound
    BY <1>0, <2>1, <2>5, <2>6 DEF TypeOK
  <2>10. TypeOK'
    BY <1>0, <2>1, <2>3, <2>5, <2>6, <2>7 DEF TypeOK
  <2>11. ReleasesSound' /\ SoundIsWhole' /\ ValidatedIsSound'
    BY <1>0, <2>1, <2>5, <2>6, <2>7 DEF ImageInv, TypeOK, ReleasesSound, SoundIsWhole, ValidatedIsSound
  <2>12. LinksReleased'
    BY <1>0, <2>6, <2>9 DEF ImageInv, TypeOK, Link, LinksReleased
  <2>13. PromotionSound' /\ BootedIsSound'
    BY <1>0, <2>3, <2>8, <2>9 DEF ImageInv, PromotionSound, BootedIsSound
  <2>14. TargetsReleased'
    <3>1. cli[c].from # NoVersion => release'[cli[c].from].there
      BY <2>1, <2>9 DEF ImageInv, TargetsReleased, Link
    <3>2. ASSUME NEW d \in Cli \ {c}
          PROVE  /\ cli'[d].pc \in LinkPC => release'[cli'[d].to].there
                 /\ cli'[d].pc \in {"promote", "unlinkPrevious", "linkPrevious"} /\ cli'[d].from # NoVersion
                      => release'[cli'[d].from].there
      BY <1>0, <2>3, <2>9 DEF ImageInv, TargetsReleased, LinkPC, Link
    <3> QED
      BY <2>8, <2>9, <3>1, <3>2 DEF TargetsReleased
  <2> QED
    BY <2>10, <2>11, <2>12, <2>13, <2>14 DEF ImageInv
<1> QED
  BY <1>1, <1>2 DEF PromoteImage

LEMMA RollbackSound ==
  ASSUME ImageInv, NEW c \in Cli, RollbackImage(c)
  PROVE  ImageInv'
<1> USE DEF dirs, links, At
<1>0. TypeOK
  BY DEF ImageInv
<1>1. PICK to \in Version : release[to].there /\ Rollback(c, to)
  BY <1>0 DEF RollbackImage, RollbackTo, RollbackPrevious, ImageInv, LinksReleased, TypeOK, Link
<1> DEFINE k == [pc |-> "unlinkPrevious", to |-> to, from |-> current]
<1>2. k \in Command /\ release[current].there
  BY <1>0, <1>1 DEF Command, LinkPC, TypeOK, Rollback, ImageInv, LinksReleased
<1>3. cli' \in [Cli -> Command] /\ cli'[c] = k /\ \A d \in Cli \ {c} : cli'[d] = cli[d]
  <2>1. cli' = [cli EXCEPT ![c] = k]
    BY <1>1 DEF Rollback, Begin
  <2> QED
    BY <1>0, <1>2, <2>1, Replaced
<1>4. UNCHANGED <<tmp, candidate, release, current, previous>>
  BY <1>1 DEF Rollback
<1>5. TypeOK'
  BY <1>0, <1>3, <1>4 DEF TypeOK
<1>6. ReleasesSound' /\ SoundIsWhole' /\ ValidatedIsSound' /\ LinksReleased'
  BY <1>4 DEF ImageInv, ReleasesSound, SoundIsWhole, ValidatedIsSound, LinksReleased
<1>7. PromotionSound' /\ BootedIsSound'
  BY <1>3, <1>4 DEF ImageInv, PromotionSound, BootedIsSound
<1>8. TargetsReleased'
  BY <1>1, <1>2, <1>3, <1>4 DEF ImageInv, TargetsReleased, LinkPC
<1> QED
  BY <1>5, <1>6, <1>7, <1>8 DEF ImageInv

\* A link is only ever rewritten to what the command was started with.
LEMMA RewriteSound ==
  ASSUME ImageInv, NEW c \in Cli, RewriteSymlink(c)
  PROVE  ImageInv'
<1> USE DEF dirs, links, At
<1>0. TypeOK /\ AtPrompt \in Command /\ AtPrompt.pc = "idle"
  BY DEF ImageInv, Command, AtPrompt
<1>1. UNCHANGED <<tmp, candidate, release>>
  BY DEF RewriteSymlink, UnlinkPrevious, LinkPrevious, UnlinkCurrent, LinkCurrent
<1>2. /\ cli[c].pc \in LinkPC /\ cli[c].to \in Version /\ cli[c].from \in Link
      /\ release[cli[c].to].there
      /\ cli[c].pc \in {"unlinkPrevious", "linkPrevious"} /\ cli[c].from # NoVersion => release[cli[c].from].there
  <2>1. cli[c].pc \in LinkPC
    BY DEF RewriteSymlink, UnlinkPrevious, LinkPrevious, UnlinkCurrent, LinkCurrent, LinkPC
  <2> QED
    BY <1>0, <2>1, Known DEF ImageInv, TargetsReleased
<1>3. /\ cli' \in [Cli -> Command] /\ \A d \in Cli \ {c} : cli'[d] = cli[d]
      /\ \/ cli'[c].pc = "idle"
         \/ /\ cli'[c].pc \in LinkPC /\ cli'[c].to = cli[c].to /\ cli'[c].from = cli[c].from
            /\ cli'[c].pc = "linkPrevious" => cli[c].pc = "unlinkPrevious"
            /\ cli'[c].pc # "unlinkPrevious"
  <2>1. CASE LinkCurrent(c)
    BY <1>0, <2>1, Replaced DEF LinkCurrent, Exit
  <2>2. CASE UnlinkPrevious(c) \/ LinkPrevious(c) \/ UnlinkCurrent(c)
    <3>1. PICK pc \in LinkPC : /\ Continue(c, pc) /\ pc # "unlinkPrevious"
                               /\ pc = "linkPrevious" => cli[c].pc = "unlinkPrevious"
      BY <2>2 DEF UnlinkPrevious, LinkPrevious, UnlinkCurrent, LinkPC
    <3> QED
      BY <1>0, <1>2, <3>1, Moved
  <2> QED
    BY <2>1, <2>2 DEF RewriteSymlink
<1>4. /\ current' \in {current, NoVersion, cli[c].to}
      /\ previous' \in {previous, NoVersion} \/ (previous' = cli[c].from /\ cli[c].pc = "linkPrevious")
  BY DEF RewriteSymlink, UnlinkPrevious, LinkPrevious, UnlinkCurrent, LinkCurrent
<1>5. TypeOK'
  BY <1>0, <1>1, <1>2, <1>3, <1>4 DEF TypeOK, Link
<1>6. ReleasesSound' /\ SoundIsWhole' /\ ValidatedIsSound'
  BY <1>1 DEF ImageInv, ReleasesSound, SoundIsWhole, ValidatedIsSound
<1>7. LinksReleased'
  BY <1>1, <1>2, <1>4 DEF ImageInv, LinksReleased
<1>8. PromotionSound' /\ BootedIsSound'
  BY <1>1, <1>3 DEF ImageInv, PromotionSound, BootedIsSound, LinkPC
<1>9. TargetsReleased'
  BY <1>1, <1>2, <1>3 DEF ImageInv, TargetsReleased, LinkPC
<1> QED
  BY <1>5, <1>6, <1>7, <1>8, <1>9 DEF ImageInv

LEMMA QuitSound ==
  ASSUME ImageInv, NEW c \in Cli, Quit(c)
  PROVE  ImageInv'
<1>1. TypeOK /\ AtPrompt \in Command /\ AtPrompt.pc = "idle"
  BY DEF ImageInv, Command, AtPrompt
<1>2. cli' \in [Cli -> Command] /\ cli'[c] = AtPrompt /\ \A d \in Cli \ {c} : cli'[d] = cli[d]
  BY <1>1, Replaced DEF Quit, Exit
<1>3. TypeOK'
  BY <1>1, <1>2 DEF Quit, TypeOK, dirs, links
<1> QED
  BY <1>1, <1>2, <1>3, QuietStep DEF Quit, dirs, LinkPC

LEMMA MachineSound ==
  ASSUME ImageInv, UNCHANGED <<dirs, links, cli>>
  PROVE  ImageInv'
BY DEF ImageInv, dirs, links, TypeOK, ReleasesSound, SoundIsWhole, ValidatedIsSound,
       PromotionSound, BootedIsSound, LinksReleased, TargetsReleased

LEMMA StepSound == ImageInv /\ [ImageNext]_ivars => ImageInv'
<1> SUFFICES ASSUME ImageInv, [ImageNext]_ivars PROVE ImageInv'
  OBVIOUS
<1>1. CASE \E c \in Cli : \/ BuildImage(c) \/ ValidateImage(c) \/ PromoteImage(c)
                           \/ RollbackImage(c) \/ RewriteSymlink(c) \/ Quit(c)
  BY <1>1, BuildSound, ValidateSound, PromoteSound, RollbackSound, RewriteSound, QuitSound
<1>2. CASE \E m \in Machine : CreateMachine(m) \/ StartMachine(m)
  BY <1>2, MachineSound DEF CreateMachine, StartMachine
<1>3. CASE UNCHANGED ivars
  BY <1>3, MachineSound DEF ivars, dirs, links
<1> QED
  BY <1>1, <1>2, <1>3 DEF ImageNext

\* The image that new machines are created from, and the one rollback returns to, passed
\* a boot validation (images.go, PromoteImage and RollbackImage), for any number of
\* overlapping commands, versions and machines.
THEOREM LinksAreValidated == ImageSpec => []LinksValidated
<1>1. ImageInv => LinksValidated
  BY DEF ImageInv, LinksReleased, ReleasesSound, LinksValidated, TypeOK, Link
<1> QED
  BY <1>1, InitSound, StepSound, PTL DEF ImageSpec
================================================================================
