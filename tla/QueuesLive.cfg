SPECIFICATION QueuesSpec
CONSTANTS
  Procs = {p1}
  Slots = {s1, s2}
  Jobs = {j1}
  NoJob = NoJob
  MaxAttempts = 2
  MaxCrashes = 1
  Msgs = {m1}
  Groups = {g1}
  Ids = {c1, c2}
  PubAttempts = 2
  Count = 2
  MaxEntries = 2
  MaxMishaps = 0
  Faults = TRUE
PROPERTY ImplementsWorkQueue
PROPERTY CloseReturns
PROPERTY EntriesReachAHandler
CHECK_DEADLOCK FALSE
