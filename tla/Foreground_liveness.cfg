CONSTANTS
  Conversations <- Recovering
  Tasks = {1}
  Unbound = {}
  OneShot = {1}
  Turns = {1, 2, 3}
  CountThreshold = 2
  BatchSize = 2
  MaxPasses = 1
  LiveTurnsGoStale = FALSE
  FaultPoints <- Sending
  CrashPoints <- AfterCommit
  MaxFaults = 1
SPECIFICATION FairSpec
PROPERTIES
  MessagesAreClosed
  RunsEnd
CHECK_DEADLOCK FALSE
