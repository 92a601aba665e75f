SPECIFICATION ImageSpec
CONSTANTS
  v1 = v1
  v2 = v2
  Version = {v1, v2}
  k1 = k1
  Cli = {k1}
  vm1 = vm1
  Machine = {vm1}
  NoVersion = NoVersion
INVARIANTS
  MachineKeepsItsImage
CHECK_DEADLOCK FALSE
