SPECIFICATION Spec
CONSTANTS
  r1 = r1
  r2 = r2
  chat = chat
  files = files
  pa = pa
  pb = pb
  pc = pc
  health = health
  healthPost = healthPost
  options = options
  Settings <- OneSetting
  Request = {r1}
  Path = {pa, pb, pc, health, healthPost, options}
  Surface <- SomeSurface
  Forms <- SomeForms
  Flaky = FALSE
PROPERTIES DrainsBeforeShutdown
CHECK_DEADLOCK FALSE
