SPECIFICATION Spec
CONSTANTS
  r1 = r1
  r2 = r2
  null = null
  Req = {r1, r2}
  Notes = {}
  NoId = null
  Cancellable = FALSE
  MuteChild = FALSE
  StrayKinds = {"huge"}
  MaxStray = 1
  PipeCap = 1
  OutCap = 1
INVARIANTS NoStrandedCaller
CHECK_DEADLOCK FALSE
