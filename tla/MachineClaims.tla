---------------------------- MODULE MachineClaims ----------------------------
(***************************************************************************)
(* What the repository's documents say about the life of a machine and the *)
(* code, as MachineLifecycle models it, does not do.  Each formula quotes  *)
(* the sentence it states; a TLC run of its own shows the behaviour that   *)
(* contradicts it.                                                         *)
(***************************************************************************)
EXTENDS MachineLifecycle

\* ONBOARDING.md, Reconciliation, job 1: reconcile deletes runtime machines
\* that have no record.
DeletesOnlyOrphans ==
  \A p \in Pass, n \in Name :
    recon[p].pc = "delete" /\ recon'[p] # recon[p] /\ Visible(n) /\ vms'[n] = "none"
      => ~Exists(n)

ReconcileDeletesOnlyOrphans == [][DeletesOnlyOrphans]_vars

\* "Without it, the system would get stuck whenever the process died mid-create
\* or mid-runtime mutation": with it, a transitional state is left in the end.
TransitionsResolve ==
  \A n \in Name, id \in 1 .. MaxId :
    Is(n, id, Transitional) ~> ~Is(n, id, Transitional)

=============================================================================
