\* One turn, whose rows are one trace, and an operator; nothing crashes.
CONSTANTS
  t1 = t1
  admin1 = admin1
  ask = ask
  free = free
  None = None
  Turns = {t1}
  Chats = {}
  Admins = {admin1}
  Supervisors = {}
  Actions = {1, 2}
  Requests = {1}
  Fingerprints = {ask, free}
  NeedsApproval = {ask}
  KindOf <- CommandAndNote
  PendingLimit = 2
  MaxActions = 2
  CapBehavior = "escalate"
  ErrorKinds = {}
  LeaseOutlivesWork = TRUE
  CrashPoints = {}
  MaxCrashes = 0
SPECIFICATION Spec
INVARIANT SafeMeansNothingDone
\* A turn ends and an operator falls silent.
CHECK_DEADLOCK FALSE
