------------------------- MODULE MCMachineLifecycle -------------------------
(* Instances of MachineLifecycle and MachineClaims for TLC.                *)
EXTENDS MachineClaims, TLC

\* Jobs, requests and users are interchangeable; no liveness run uses this.
Symmetry == Permutations(Job) \cup Permutations(Req) \cup Permutations(User)
              \cup Permutations(Name) \cup Permutations(Pass)
=============================================================================
