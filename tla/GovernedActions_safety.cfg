\* A turn, an operator and a supervisor; any statement may fail, any lease expire.
CONSTANTS
  t1 = t1
  t2 = t2
  chat1 = chat1
  admin1 = admin1
  super1 = super1
  ask = ask
  free = free
  None = None
  Turns = {t1}
  Chats = {}
  Admins = {admin1}
  Supervisors = {super1}
  Actions = {1, 2}
  Requests = {1, 2}
  Fingerprints = {ask, free}
  NeedsApproval = {ask}
  KindOf <- ScriptAndRead
  PendingLimit = 2
  MaxActions = 1
  CapBehavior = "escalate"
  ErrorKinds = {"run_workspace_script"}
  LeaseOutlivesWork = FALSE
  CrashPoints <- Anywhere
  MaxCrashes = 1
SPECIFICATION Spec
INVARIANT ApprovedBeforeEffect
INVARIANT OneEffectPerApproval
INVARIANT ExecutedIsTrue
INVARIANT UnapprovedEffectsBounded
PROPERTY ImplementsGate
\* A turn ends and a chat falls silent.
CHECK_DEADLOCK FALSE
