SPECIFICATION CFairSpec
CONSTANTS
  c1 = c1
  c2 = c2
  v0618 = v0618
  v2024 = v2024
  none = none
  Caller = {c1, c2}
  Version = {v0618, v2024}
  Supported = {v0618}
  Advertised = v0618
  None = none
  Timed = TRUE
  Droppable = TRUE
  PipeCap = 2
INVARIANTS CTypeOK NotifyFindsRoom AcceptedBeforeCalls
PROPERTIES ImplementsMcpClient EveryCallEnds
CHECK_DEADLOCK FALSE
