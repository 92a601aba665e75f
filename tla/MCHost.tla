-------------------------------- MODULE MCHost --------------------------------
(***************************************************************************)
(* Instances of the two components that share out one host: admission its  *)
(* compute, the VM runtime its addresses and processes.  They have no      *)
(* variable in common (what one sees of the other is an input it chooses), *)
(* so one run explores first the one and then the other: part, chosen at   *)
(* the start, says which one moves.                                        *)
(***************************************************************************)
EXTENDS Admission, VMRuntime, TLC

CONSTANTS u1, u2, m1, m2, m3    \* m1 and m2 have one owner

VARIABLE part

MCOwner == (m1 :> u1) @@ (m2 :> u1) @@ (m3 :> u2)

\* First the user's compute is short, then the count and the host.
MCLimits == {[compute |-> 1, machines |-> 2, host |-> 2],
             [compute |-> 2, machines |-> 1, host |-> 1]}

\* The components use the same model values for what is interchangeable in
\* each: requests, calls and commands; machines, names and versions.
Symmetry == Permutations(Req) \cup Permutations(Name)

HostInit ==
  /\ part \in {"admission", "runtime"}
  /\ AdmissionInit /\ RuntimeInit
  /\ part # "admission" => limit = CHOOSE l \in Limits : TRUE

HostNext ==
  /\ UNCHANGED part
  /\ \/ part = "admission" /\ AdmissionNext /\ UNCHANGED rvars
     \/ part = "runtime" /\ RuntimeNext /\ UNCHANGED hvars

\* Bounds of the search.  Admission: one machine at a time that has come back
\* without being asked for.  The runtime: it stops where nothing is claimed any
\* more, a store having mixed up a machine or both having been raced; a crash
\* and a raced machine do not come together, and beside either a machine has
\* one process id.
Claimed ==
  /\ Cardinality(unadmitted \cup uncounted) <= 1
  /\ Orderly /\ raced # Name
  /\ \/ raced = {} /\ crashes = 0
     \/ (raced = {} \/ crashes = 0) /\ \A p \in vms : p[2] = 1

HostSpec == HostInit /\ [][HostNext]_<<part, hvars, rvars>>
================================================================================
