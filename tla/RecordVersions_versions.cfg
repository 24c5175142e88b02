SPECIFICATION Spec
CONSTANTS
  p1 = p1
  p2 = p2
  p3 = p3
  s1 = s1
  s2 = s2
  Proc = {p1, p2, p3}
  Slot = {s1, s2}
  Primary = Primary
  None = None
  Firsts = {0, 1}
  Started = 3
  MaxTra = 6
  MaxStarting = 1
  MaxReads = 1
  MaxCrashes = 1
  TRA_ACTIVE_CLEANUP = 2
SYMMETRY Symmetry
INVARIANTS TypeOK SnapshotRead NoLostUpdate VersionsKept
CHECK_DEADLOCK FALSE
