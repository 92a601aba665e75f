----------------------------- MODULE MCExecJob -----------------------------
(* Instances of ExecJob for TLC, and what the agent-command-execution      *)
(* specification of the repository says of it.                             *)
EXTENDS ExecJob, TLC

Symmetry == Permutations(Stream)

\* "It returns the command's exit status, stdout, stderr ... in a structured
\* result": a command that exited with status 0, that nobody cancelled and that
\* ran into no timeout is reported as SUCCEEDED.
ExitZeroSucceeds ==
  outcome # "none" /\ cmd = "exit0" /\ ctx = "live" /\ ~cancelled =>
    outcome = "SUCCEEDED"

=============================================================================
