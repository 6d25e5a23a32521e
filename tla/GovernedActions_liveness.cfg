\* Two turns, a chat and a supervisor; a process may die at an action
\* whose lease it holds, and no lease expires under one that is alive.
CONSTANTS
  t1 = t1
  t2 = t2
  chat1 = chat1
  admin1 = admin1
  super1 = super1
  ask = ask
  free = free
  None = None
  Turns = {t1, t2}
  Chats = {chat1}
  Admins = {}
  Supervisors = {super1}
  Actions = {1, 2}
  Requests = {1, 2}
  Fingerprints = {ask, free}
  NeedsApproval = {ask}
  KindOf <- FetchAndScript
  PendingLimit = 2
  MaxActions = 1
  CapBehavior = "always_deny"
  ErrorKinds = {}
  LeaseOutlivesWork = TRUE
  CrashPoints <- UnderLease
  MaxCrashes = 1
SPECIFICATION FairSpec
PROPERTY StartedActionsEnd
PROPERTY FinishedIsFinal
INVARIANT AloneAwaitingCanBeResolved
\* A turn ends and a chat falls silent.
CHECK_DEADLOCK FALSE
