SPECIFICATION Spec
CONSTANTS
  Msgs = {m1}
  Groups = {g1, g2}
  Ids = {c1}
  PubAttempts = 1
  Count = 2
  MaxEntries = 2
  Faults = TRUE
  MaxMishaps = 1
SYMMETRY Symmetry
INVARIANT TypeOK
INVARIANT CalledOncePerGroup
INVARIANT NothingSkipped
INVARIANT DeletedWhenHandled
CHECK_DEADLOCK FALSE
