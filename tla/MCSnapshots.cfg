SPECIFICATION FairSpec
CONSTANTS
  s1 = s1
  s2 = s2
  Snap = {s1, s2}
  NoSnap = NoSnap
  MaxUpsets = 1
INVARIANTS
  SavedStaysRestorable
  PointInTime
  OnePauser
  PausedIsHeld
PROPERTIES
  SavesSettle
