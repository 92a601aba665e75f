SPECIFICATION HostSpec
CONSTANTS
  u1 = u1
  u2 = u2
  User = {u1, u2}
  m1 = m1
  m2 = m2
  m3 = m3
  Mach = {m1, m2, m3}
  Owner <- MCOwner
  r1 = r1
  r2 = r2
  Req = {r1, r2}
  NoReq = NoReq
  NoMach = NoMach
  Limits <- MCLimits
  Name = {m1, m2}
  Op = {r1, r2}
  NoOp = NoOp
  Addrs = 2
  MaxPid = 2
  MaxFwd = 1
  MaxCrash = 1
SYMMETRY Symmetry
INVARIANTS
  UserComputeKept
  HostComputeKept
  AddressesDiffer
  OneVM
  NothingLost
CONSTRAINT Claimed
CHECK_DEADLOCK FALSE
