CONSTANTS
  Conversations <- Mixed
  Tasks = {1}
  Unbound = {1}
  OneShot = {1}
  Turns = {1, 2}
  CountThreshold = 2
  BatchSize = 2
  MaxPasses = 2
  LiveTurnsGoStale = FALSE
  FaultPoints <- Anywhere
  CrashPoints <- Anywhere
  MaxFaults = 1
SPECIFICATION Spec
INVARIANTS
  TypeOK
  ConfirmedAreStored
  ClosedMeansEnded
  CompletedMeansTold
  OneTurnPerRow
  OutcomeMatchesRun
PROPERTIES
  ImplementsInbox
CHECK_DEADLOCK FALSE
