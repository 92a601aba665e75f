SPECIFICATION FairSpec
CONSTANTS
  n1 = n1
  Name = {n1}
  u1 = u1
  u2 = u2
  User = {u1, u2}
  r1 = r1
  r2 = r2
  Req = {r1, r2}
  j1 = j1
  Job = {j1}
  Pass = {}
  NoUser = NoUser
  NoReq = NoReq
  NoJob = NoJob
  Ops = {"create", "delete", "start", "stop"}
  Faults = {"vmExit"}
  MaxId = 1
  MaxCrash = 0
PROPERTIES
  RequestsComplete
  CreatingResolves
