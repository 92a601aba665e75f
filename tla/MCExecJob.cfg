SPECIFICATION Spec
CONSTANTS
  s1 = s1
  s2 = s2
  Stream = {s1, s2}
  c1 = c1
  Cancel = {c1}
  Buffer = 1
  MaxOut = 2
  Faults = {"timeout", "noAccess", "storeError", "machineDelete", "crash"}
SYMMETRY Symmetry
CHECK_DEADLOCK FALSE
INVARIANTS
  TypeOK
  NoGaps
  OneOutcome
  SucceededIsComplete
  CancelledWasAsked
  StreamsReleased
  JobNeverStuck
