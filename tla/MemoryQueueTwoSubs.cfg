SPECIFICATION Spec
CONSTANTS
  p1 = p1
  p2 = p2
  s1 = s1
  s2 = s2
  m1 = m1
  m2 = m2
  m3 = m3
  m4 = m4
  m5 = m5
  m6 = m6
  Pubs = {p1}
  Subs = {s1, s2}
  Msgs = {m1}
  Chans = {1, 2, 3, 4, 5}
  Nil = Nil
  MaxQueueSize = 1
  MaxInFlight = 1
  Requested <- Zero
  TTL = 1
  MaxTime = 0
SYMMETRY Symmetry
INVARIANT AtMostOnce
CHECK_DEADLOCK FALSE
