\* The harness, `admin background run-next` and `admin recovery supervise` on the
\* same tables; no statement fails between the end of a lease and its checkpoint.
CONSTANTS
  h = h
  tg = tg
  admin = admin
  none = none
  None <- none
  Jobs = {1, 2}
  Runs = {1, 2}
  KeyOf <- SharedKey
  Services = {h}
  Operators = {admin}
  Watchers = {tg}
  ApplyStages = 1
  LeaseOutlivesWorker = FALSE
  CrashPoints <- CheckpointsWritten
  MaxCrashes = 1
SPECIFICATION Spec
PROPERTY RunNeverRevives
PROPERTY LeaseEndsOnce
INVARIANT EndedLeaseReachesRecovery
