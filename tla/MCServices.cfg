SPECIFICATION ServicesSpec
CONSTANTS
  e1 = e1
  e2 = e2
  Email = {e1, e2}
  Digits = {1}
  Code = {t1, t2}
  Verify = {k1, k2}
  x1 = x1
  Auth = {x1}
  o1 = o1
  Logout = {o1}
  Kind = {"web", "cli"}
  TTL <- MCTTL
  CodeTTL = 0
  MaxClock = 2
  a1 = a1
  a2 = a2
  Actor = {a1, a2}
  cl = cl
  Client = {cl}
  Owner <- MCOwner
  w1 = w1
  w2 = w2
  Writer = {w1, w2}
  Id = {1, 2, 3}
  Limit = 1
  Buffer = 1
  MaxTime = 1
  s1 = s1
  Shell = {s1}
  t1 = t1
  t2 = t2
  Token = {t1, t2}
  k1 = k1
  k2 = k2
  Stream = {k1, k2}
  d1 = d1
  Del = {d1}
  y1 = y1
  Cmd = {y1}
  Git = {k1, k2}
  Slots = 1
  NoShell = NoShell
  NoToken = NoToken
  Key = {t1, t2}
  c1 = c1
  c2 = c2
  c3 = c3
  Change = {c1, c2, c3}
  m1 = m1
  Mach = {m1}
  Nobody = Nobody
  h1 = h1
  Guest = {h1}
  l1 = l1
  Login = {l1}
  Proc = {t1, t2}
  Version = {t1, t2}
  Cli = {k1, k2}
  vm1 = vm1
  Machine = {vm1}
  NoVersion = NoVersion
SYMMETRY Symmetry
INVARIANTS
  GrantsArePaid
  LogoutHolds
  LossesAreKnown
  TokenAdmitsOne
  DeleteEndsShell
  StoredVarsSound
  GuestsCurrent
  ProfileMatches
  LinksValidated
PROPERTIES
  ImplementsFeed
  LoginKept
CONSTRAINT Claimed
CHECK_DEADLOCK FALSE
