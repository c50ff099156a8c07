SPECIFICATION Spec
CONSTANTS
  p1 = p1
  p2 = p2
  s1 = s1
  s2 = s2
  m1 = m1
  m2 = m2
  m3 = m3
  m4 = m4
  m5 = m5
  m6 = m6
  Pubs = {p1}
  Subs = {s1}
  Msgs = {m1}
  Chans = {1, 2, 3, 4}
  Nil = Nil
  MaxQueueSize = 1
  MaxInFlight = 1
  Requested <- TooMany
  TTL = 1
  MaxTime = 0
SYMMETRY Symmetry
INVARIANT PubNeverPanics
CHECK_DEADLOCK FALSE
