SPECIFICATION FairSpec
CONSTANTS
  s1 = s1
  s2 = s2
  p1 = p1
  p2 = p2
  h1 = h1
  c1 = c1
  c2 = c2
  w1 = w1
  w2 = w2
  send = send
  play = play
  odd = odd
  nothing = nothing
  Stream = {s1, s2}
  Conn = {c1}
  Post = {p1}
  Scope = {w1}
  Nothing = nothing
  Name = {send, play}
  Routed = {send, play}
  Streaming = {play}
  Fallback <- OneRow
  DefaultScope = nothing
  Hail = {h1}
  Greeting <- Hi
  Capacity = 1
  Reader = {s1}
  ReuseConn = TRUE
  LateSubscribe = TRUE
  MaxSubscribes = 1
PROPERTIES StreamsCatchUp OnlyStreamsHoldServer ImplementsLossyBroadcast
CHECK_DEADLOCK FALSE
