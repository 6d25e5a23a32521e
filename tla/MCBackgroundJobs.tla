-------------------------- MODULE MCBackgroundJobs --------------------------
(***************************************************************************)
(* Small instances of BackgroundJobs.  Jobs 1 and 2 have the same key.     *)
(***************************************************************************)
EXTENDS BackgroundJobs

CONSTANTS h, admin, tg, none      \* a service, an operator and a watcher

SharedKey == [j \in Jobs |-> IF j <= 2 THEN 1 ELSE j]
OwnKeys == [j \in Jobs |-> j]

\* Statements after which a crash leaves a job nothing will ever recover.
UnrecoveredPoints == {"startJob", "startRun", "completeJob", "failJob", "replanJob"}
RecoveredPoints == ProgramPoints \ UnrecoveredPoints
CheckpointsWritten == ProgramPoints \ {"checkpointLeases", "checkpointTimeout"}
BeforeStart == {"startJob", "startRun"}
=============================================================================
