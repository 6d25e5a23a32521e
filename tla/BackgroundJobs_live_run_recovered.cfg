\* No crash: the restart scan beside an operator that executes a job.
CONSTANTS
  h = h
  tg = tg
  admin = admin
  none = none
  None <- none
  Jobs = {1}
  Runs = {1, 2}
  KeyOf <- OwnKeys
  Services = {h}
  Operators = {admin}
  Watchers = {}
  ApplyStages = 1
  LeaseOutlivesWorker = TRUE
  CrashPoints = {}
  MaxCrashes = 0
SPECIFICATION Spec
PROPERTY RecoveredRunsWereStranded
