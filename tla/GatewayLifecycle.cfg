SPECIFICATION FairSpec
CONSTANTS
  r1 = r1
  r2 = r2
  chat = chat
  files = files
  pa = pa
  pb = pb
  pc = pc
  health = health
  healthPost = healthPost
  options = options
  Settings <- AllSettings
  Request = {r1, r2}
  Path = {pa, pb, pc, health, healthPost, options}
  Surface <- SomeSurface
  Forms <- SomeForms
  Flaky = TRUE
INVARIANTS TypeOK NothingLeftOpen TargetsArePooled ValidateMatchesPolicy StrangersStayOutside
PROPERTIES SignalEndsProcess
CHECK_DEADLOCK FALSE
