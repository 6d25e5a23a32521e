\* One component at a time: each is small, and they share no table.
CONSTANTS
  IdentityRuns = {x1, x2, x3}
  Interviews = {i1}
  Edits = {e1}
  ItemKeys = {"name"}
  StableKeys = {"name"}
  OtherKeys = {"alias"}
  CategoryOf <- Categories
  Proposable <- SomeDeltas
  Describing = {"supersede"}
  Named = {"bootstrap_seed_only"}
  InterviewSteps <- TwoSteps
  Writers = {x1, x2, x3}
  Contents = {"a", "b"}
  ScanLimit = 1
  Episodes = {y1, y2}
  Facts = {f1}
  Assemblies = {a1}
  Maintainers = {y1, y2}
  MaxAttempts = 2
  EpisodeLimit = 1
  FactLimit = 1
  ItemLimit = 2
  Signals = {y1, y2}
  Reviewers = {x1, x2, x3}
  SignalCodes = {"a", "b"}
  MaxPending = 2
  WorkspaceActions = {x1, x2, x3}
  Launches = {l1}
  Processes = {x1, x2, x3}
  Checkouts <- Releases
  MinimumSupported = 1
  MaxBudget = 2
SPECIFICATION ComponentsSpec
SYMMETRY Symmetry
INVARIANTS
  ComponentsTypeOK
  AutomaticRecoveryIsProven
  SelfModelIsKept
  RepeatsAreOldOrRaced
  UnfindableOnlyWhenCut
  ApprovedStayBelowLimit
  AppendsKeepTheirNumber
  NoWorkerOutlivesItsLaunch
  AnswersComeFromTheModel
  SchemaIsReviewed
PROPERTY StableSeenIsKept
\* Each component ends when its actors have.
CHECK_DEADLOCK FALSE
