SPECIFICATION Spec
CONSTANTS
  s1 = s1
  Stream = {s1}
  c1 = c1
  Cancel = {c1}
  Buffer = 1
  MaxOut = 1
  Faults = {}
INVARIANTS
  ExitZeroSucceeds
