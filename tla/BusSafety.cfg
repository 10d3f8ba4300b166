SPECIFICATION Spec
CONSTANTS
  s1 = s1
  s2 = s2
  p1 = p1
  p2 = p2
  c1 = c1
  c2 = c2
  w1 = w1
  w2 = w2
  send = send
  play = play
  odd = odd
  nothing = nothing
  Stream = {s1, s2}
  Conn = {c1, c2}
  Post = {p1, p2}
  Scope = {w1, w2}
  Nothing = nothing
  Name = {send, odd}
  Routed = {send}
  Streaming = {}
  Fallback <- OneRow
  DefaultScope = nothing
  Hail = {}
  Greeting <- Silence
  Capacity = 1
  Reader = {}
  ReuseConn = FALSE
  LateSubscribe = FALSE
  MaxSubscribes = 2
SYMMETRY Symmetry
INVARIANTS TypeOK OneEnvelopePerIntent AlwaysHeard FilterAsAsked NoLeakedFilter
CHECK_DEADLOCK FALSE
