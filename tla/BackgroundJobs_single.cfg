\* One harness that may crash anywhere, and a process that expires leases.
CONSTANTS
  h = h
  tg = tg
  admin = admin
  none = none
  None <- none
  Jobs = {1, 2}
  Runs = {1, 2, 3}
  KeyOf <- SharedKey
  Services = {h}
  Operators = {}
  Watchers = {tg}
  ApplyStages = 2
  LeaseOutlivesWorker = FALSE
  CrashPoints <- ProgramPoints
  MaxCrashes = 2
SPECIFICATION Spec
INVARIANTS
  OneActiveRunPerJob
  CompletedMeansApplied
  ExecutionReportsTruth
  DedupIndexNeverRejects
PROPERTIES
  OutcomeIsFinal
  ImplementsJobQueue
