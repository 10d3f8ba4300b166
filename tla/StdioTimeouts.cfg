SPECIFICATION GatewaySpec
CONSTANTS
  r1 = r1
  r2 = r2
  null = null
  Req = {r1, r2}
  Notes = {}
  NoId = null
  Cancellable = TRUE
  MuteChild = TRUE
  StrayKinds = {"duplicate", "huge"}
  MaxStray = 1
  PipeCap = 1
  OutCap = 1
PROPERTIES CallsEndWithChild ShutdownEndsChild ImplementsRpcCall
CHECK_DEADLOCK FALSE
