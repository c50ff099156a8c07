SPECIFICATION LiveSpec
CONSTANTS
  Procs = {p1}
  Slots = {s1}
  Jobs = {j1}
  NoJob = NoJob
  MaxAttempts = 2
  Faults = FALSE
  MaxCrashes = 0
PROPERTY MessageIsTaken
CHECK_DEADLOCK FALSE
