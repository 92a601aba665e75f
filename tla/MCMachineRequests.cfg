SPECIFICATION Spec
CONSTANTS
  n1 = n1
  n2 = n2
  Name = {n1, n2}
  u1 = u1
  u2 = u2
  User = {u1, u2}
  r1 = r1
  r2 = r2
  Req = {r1, r2}
  j1 = j1
  Job = {j1}
  Pass = {}
  NoUser = NoUser
  NoReq = NoReq
  NoJob = NoJob
  Ops = {"create", "delete", "start", "stop", "fork"}
  Faults = {"vmExit", "runtimeError", "deleteTimeout"}
  MaxId = 2
  MaxCrash = 0
SYMMETRY Symmetry
INVARIANTS
  HandlerOwnsRecord
  OneHandlerPerMachine
  JobsRegistered
  BareDirHasBuilder
PROPERTIES
  CreatingProtected
  ImplementsService
