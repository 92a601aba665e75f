SPECIFICATION Spec
CONSTANTS
  n1 = n1
  Name = {n1}
  u1 = u1
  User = {u1}
  r1 = r1
  Req = {r1}
  j1 = j1
  j2 = j2
  Job = {j1, j2}
  p1 = p1
  Pass = {p1}
  NoUser = NoUser
  NoReq = NoReq
  NoJob = NoJob
  Ops = {"create", "delete", "reconcile"}
  Faults = {"crash", "reboot", "reconcileError"}
  MaxId = 2
  MaxCrash = 1
SYMMETRY Symmetry
INVARIANTS
  JobsRegistered
