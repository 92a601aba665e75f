------------------------------ MODULE MCServices ------------------------------
(***************************************************************************)
(* Instances of the services around the machines: sign-in, the event       *)
(* stream, shells, environment variables, persisted logins and the image   *)
(* store.  They have no variable in common, so one run explores each of    *)
(* them in turn: part, chosen at the start, says which one moves.          *)
(***************************************************************************)
EXTENDS Accounts, EventStream, ShellAttach, EnvSync, ToolAuth, ImageStore, TLC

CONSTANT a1

VARIABLE part

MCOwner == [c \in Client |-> a1]
MCTTL == [k \in Kind |-> IF k = "web" THEN 0 ELSE 1]

\* The components use the same model values for what is interchangeable in
\* each: codes, tokens, keys, captures and versions; sign-ins, streams, git and image
\* commands.
Symmetry == Permutations(Token) \cup Permutations(Stream)

\* Bound of the search: it stops where GuestsCurrent claims nothing any more, a change
\* having been stored while an older version was on its way to a guest.
Claimed == ~raced

ServicesInit ==
  /\ part \in {"accounts", "events", "shells", "env", "tools", "images"}
  /\ AccountInit /\ EventInit /\ ShellInit /\ EnvInit /\ ToolInit /\ ImageInit

ServicesNext ==
  /\ UNCHANGED part
  /\ \/ part = "accounts" /\ AccountNext /\ UNCHANGED <<evars, svars, nvars, tvars, ivars>>
     \/ part = "events" /\ EventNext /\ UNCHANGED <<avars, svars, nvars, tvars, ivars>>
     \/ part = "shells" /\ ShellNext /\ UNCHANGED <<avars, evars, nvars, tvars, ivars>>
     \/ part = "env" /\ EnvNext /\ UNCHANGED <<avars, evars, svars, tvars, ivars>>
     \/ part = "tools" /\ ToolNext /\ UNCHANGED <<avars, evars, svars, nvars, ivars>>
     \/ part = "images" /\ ImageNext /\ UNCHANGED <<avars, evars, svars, nvars, tvars>>

ServicesSpec == ServicesInit /\ [][ServicesNext]_<<part, avars, evars, svars, nvars, tvars, ivars>>
================================================================================
