SPECIFICATION HSpec
CONSTANTS
  c1 = c1
  c3 = c3
  c2 = c2
  v0618 = v0618
  v0326 = v0326
  v2024 = v2024
  none = none
  sA = sA
  sB = sB
  nosession = nosession
  Caller = {c1, c2, c3}
  Version = {v0618, v0326, v2024}
  Supported = {v0618, v0326}
  Advertised = v0618
  None = none
  Timed = TRUE
  Droppable = TRUE
  Session = {sA, sB}
  NoSession = nosession
  AlwaysNames = TRUE
  SessionAnywhere = FALSE
  VersionAnywhere = FALSE
  OmitsVersion = FALSE
SYMMETRY Symmetry
INVARIANTS HTypeOK CallsCarryAgreement HandshakeFirst HandshakesDoNotOverlap UniqueIds
PROPERTIES VersionIsFinal
CHECK_DEADLOCK FALSE
