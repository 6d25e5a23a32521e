\* One harness that may crash where recovery finds the job again.
CONSTANTS
  h = h
  tg = tg
  admin = admin
  none = none
  None <- none
  Jobs = {1, 2}
  Runs = {1, 2, 3, 4}
  KeyOf <- OwnKeys
  Services = {h}
  Operators = {}
  Watchers = {tg}
  ApplyStages = 1
  LeaseOutlivesWorker = TRUE
  CrashPoints <- RecoveredPoints
  MaxCrashes = 2
SPECIFICATION FairSpec
PROPERTIES
  InterruptedJobsRecover
  PlannedJobsFinish
