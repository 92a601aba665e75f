SPECIFICATION Spec
CONSTANTS
  n1 = n1
  Name = {n1}
  u1 = u1
  User = {u1}
  r1 = r1
  Req = {r1}
  j1 = j1
  Job = {j1}
  p1 = p1
  Pass = {p1}
  NoUser = NoUser
  NoReq = NoReq
  NoJob = NoJob
  Ops = {"create", "reconcile"}
  Faults = {}
  MaxId = 1
  MaxCrash = 0
PROPERTIES
  ReconcileDeletesOnlyOrphans
