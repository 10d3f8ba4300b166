SPECIFICATION Spec
CONSTANTS
  r1 = r1
  r2 = r2
  n1 = n1
  null = null
  Req = {r1, r2}
  Notes = {n1}
  NoId = null
  Cancellable = TRUE
  MuteChild = FALSE
  StrayKinds = {"duplicate", "junk"}
  MaxStray = 1
  PipeCap = 2
  OutCap = 2
SYMMETRY Symmetry
INVARIANTS TypeOK NoStrandedCaller OwnAnswer OnlyAbandonedLeak OnlyDroppedWritersTear
PROPERTIES NoWriteAfterClose
CHECK_DEADLOCK FALSE
