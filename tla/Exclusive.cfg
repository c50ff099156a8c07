SPECIFICATION ExclusiveSpec
CONSTANTS
  Clients = {a, b}
  NoOne = NoOne
  Kinds = {"redsync", "redis", "pgsql"}
  Seconds <- SetExpireArgs
  UintSize = 2
  TTLs = {0, 2}
  Skews <- MCSkews
  Retries = 1
  MaxTime = 4
  Procs = {p1, p2}
  Slots = {w1}
  Jobs = {j1}
  NoJob = NoJob
  MaxAttempts = 2
  Faults = TRUE
  MaxCrashes = 1
SYMMETRY Symmetry
INVARIANT ExclusiveTypes
INVARIANT LeaseHonoured
INVARIANT DeniedMeansNotTaken
 
INVARIANT OneWorkerPerJob
INVARIANT JobsEndWell
PROPERTY ImplementsLeaseLock
CHECK_DEADLOCK FALSE
