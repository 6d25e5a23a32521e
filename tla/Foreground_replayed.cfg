\* One message; the service dies while its turn runs.
CONSTANTS
  Conversations <- OneText
  Tasks = {}
  Unbound = {}
  OneShot = {}
  Turns = {1, 2}
  CountThreshold = 2
  BatchSize = 2
  MaxPasses = 2
  LiveTurnsGoStale = FALSE
  FaultPoints = {}
  CrashPoints = {"lease"}
  MaxFaults = 1
SPECIFICATION Spec
INVARIANT NoBlindReplay
CHECK_DEADLOCK FALSE
