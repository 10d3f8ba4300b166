SPECIFICATION Spec
CONSTANTS
  Responses <- SomeResponses
  Limits <- SomeLimits
INVARIANTS TypeOK KeepsAtMostMax FirstResponseReturned
CHECK_DEADLOCK FALSE
