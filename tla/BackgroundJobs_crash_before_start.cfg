\* A crash between the lease of a job and the start of its run.
CONSTANTS
  h = h
  tg = tg
  admin = admin
  none = none
  None <- none
  Jobs = {1, 2}
  Runs = {1, 2, 3}
  KeyOf <- OwnKeys
  Services = {h}
  Operators = {}
  Watchers = {}
  ApplyStages = 1
  LeaseOutlivesWorker = TRUE
  CrashPoints <- BeforeStart
  MaxCrashes = 1
SPECIFICATION FairSpec
PROPERTY InterruptedJobsRecover
