SPECIFICATION Spec
CONSTANTS
  s1 = s1
  s2 = s2
  p1 = p1
  c1 = c1
  c2 = c2
  w1 = w1
  w2 = w2
  send = send
  play = play
  odd = odd
  nothing = nothing
  Stream = {s1, s2}
  Conn = {c1}
  Post = {p1}
  Scope = {w1}
  Nothing = nothing
  Name = {send}
  Routed = {send}
  Streaming = {}
  Fallback <- OneRow
  DefaultScope = nothing
  Hail = {}
  Greeting <- Silence
  Capacity = 1
  Reader = {}
  ReuseConn = TRUE
  LateSubscribe = FALSE
  MaxSubscribes = 1
INVARIANTS FilterAsAsked
CHECK_DEADLOCK FALSE
