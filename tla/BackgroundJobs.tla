--------------------------- MODULE BackgroundJobs ---------------------------
(***************************************************************************)
(* Background ("unconscious") jobs of the harness: the tables              *)
(* background_jobs, background_job_runs, execution_records and             *)
(* worker_leases, and the processes that share them.  A service is a       *)
(* harness main loop: it expires worker leases, recovers stranded runs and *)
(* runs due jobs.  An operator is `admin background run-next`: it only     *)
(* runs a due job.  A watcher is the Telegram service or `admin recovery   *)
(* supervise`: it only expires leases.                                     *)
(*                                                                         *)
(* Every statement of the code that commits on its own is an action of its *)
(* own, so that a crash, or another process, can come between two of them. *)
(* A database error that makes the code return early is a crash of the     *)
(* process at that statement.                                              *)
(***************************************************************************)
EXTENDS RecoveryDecision, FiniteSets

CONSTANTS
  Jobs,                 \* numbered in the order of available_at, created_at
  Runs,                 \* bound: attempts, numbered in the order of insertion
  KeyOf,                \* deduplication key of each job
  Services, Operators, Watchers,
  ApplyStages,          \* separately committed stages of a worker's results
  LeaseOutlivesWorker,  \* no lease expires while the process it covers goes on
  CrashPoints,          \* statements a process may fail to execute
  MaxCrashes,           \* bound: crashes in a behaviour
  None

Executors == Services \cup Operators
Processes == Executors \cup Watchers

\* The statement a process executes next.
LoopPoints == {"idle", "checkpointLeases", "recover", "failUnstartedRun",
               "failStrandedRun", "replanJob", "failStrandedExecution",
               "schedule"}
RunPoints == {"startJob", "startRun", "acquireLease", "work", "checkLease",
              "releaseLease", "apply", "completeJob", "completeExecution",
              "failRun", "failJob", "failExecution", "endLease",
              "checkpointTimeout"}
ProgramPoints == LoopPoints \cup RunPoints

ASSUME BackgroundJobsAssumption ==
  /\ Jobs \subseteq Nat
  /\ Runs \subseteq Nat
  /\ None \notin Runs \cup Jobs
  /\ DOMAIN KeyOf = Jobs
  /\ Services \cap Operators = {}
  /\ Executors \cap Watchers = {}
  /\ ApplyStages \in Nat
  /\ LeaseOutlivesWorker \in BOOLEAN
  /\ CrashPoints \subseteq ProgramPoints
  /\ MaxCrashes \in Nat

VARIABLES
  jobStatus, runStatus, runJob, execStatus,
  leaseStatus,     \* worker lease of each run
  overdue,         \* active leases whose lease_expires_at has passed
  applied,         \* result stages each run has committed
  checkpoints,     \* recovery checkpoints: run and reason
  pc, cur,         \* next statement of a process, and the run it is about
  todo,            \* rows a listing returned and the process has yet to handle
  cause,           \* why a process is failing its run
  crashes

jobVars == <<jobStatus>>
runVars == <<runStatus, runJob, execStatus, applied>>
leaseVars == <<leaseStatus, overdue>>
procVars == <<pc, cur, todo, cause>>
vars == <<jobVars, runVars, leaseVars, checkpoints, procVars, crashes>>

JobStatuses == {"absent", "planned", "leased", "running", "completed", "failed"}
RunStatuses == {"none", "leased", "running", "completed", "failed", "timed_out"}
LeaseStatuses == {"none", "active", "released", "expired", "terminated"}
CheckpointReasons == {"timeout_or_stall", "supervisor_restart"}
Causes == {"none", "timed_out", "worker_failed", "result_failed"}

InFlight == {"leased", "running"}
RunEnded == {"completed", "failed", "timed_out"}
JobEnded == {"completed", "failed"}

\* Statements that are about one run, which the process remembers.
HoldingPoints == RunPoints \cup {"failUnstartedRun", "failStrandedRun",
                                 "replanJob", "failStrandedExecution"}

TablesTypeOK ==
  /\ jobStatus \in [Jobs -> JobStatuses]
  /\ runStatus \in [Runs -> RunStatuses]
  /\ runJob \in [Runs -> Jobs \cup {None}]
  /\ \A r \in Runs : runJob[r] = None <=> runStatus[r] = "none"
  /\ execStatus \in [Runs -> {"none", "started", "succeeded", "failed"}]
  /\ leaseStatus \in [Runs -> LeaseStatuses]
  /\ \A r \in Runs : runStatus[r] = "none" => leaseStatus[r] = "none"
  /\ overdue \subseteq {r \in Runs : leaseStatus[r] = "active"}
  /\ applied \in [Runs -> 0 .. ApplyStages]
  /\ checkpoints \subseteq Runs \X CheckpointReasons
  /\ crashes \in 0 .. MaxCrashes

ProcessesTypeOK ==
  /\ pc \in [Processes -> ProgramPoints]
  /\ cur \in [Processes -> Runs \cup {None}]
  /\ \A p \in Processes : pc[p] \in HoldingPoints => cur[p] # None
  /\ todo \in [Processes -> SUBSET Runs]
  /\ cause \in [Processes -> Causes]

\* The runs a process remembers are rows of the table.
RememberedRunsExist ==
  \A p \in Processes :
    /\ cur[p] # None => runStatus[cur[p]] # "none"
    /\ \A r \in todo[p] : runStatus[r] # "none"

TypeOK == TablesTypeOK /\ ProcessesTypeOK /\ RememberedRunsExist

Init ==
  /\ jobStatus = [j \in Jobs |-> "absent"]
  /\ runStatus = [r \in Runs |-> "none"]
  /\ runJob = [r \in Runs |-> None]
  /\ execStatus = [r \in Runs |-> "none"]
  /\ leaseStatus = [r \in Runs |-> "none"]
  /\ overdue = {}
  /\ applied = [r \in Runs |-> 0]
  /\ checkpoints = {}
  /\ pc = [p \in Processes |-> "idle"]
  /\ cur = [p \in Processes |-> None]
  /\ todo = [p \in Processes |-> {}]
  /\ cause = [p \in Processes |-> "none"]
  /\ crashes = 0

-----------------------------------------------------------------------------
(* Rows as the queries see them. *)

Job(p) == runJob[cur[p]]

\* Mutant: the active-key lookup forgets leased jobs.
KeyFreeIgnoringLeased(j) ==
  \A k \in Jobs \ {j} :
    KeyOf[k] = KeyOf[j] => jobStatus[k] \notin {"planned", "running"}

\* No other job with j's key is planned, leased or running: what planning looks
\* up, and what the partial unique index enforces on every write.
KeyFree(j) ==
  \A k \in Jobs \ {j} :
    KeyOf[k] = KeyOf[j] => jobStatus[k] \notin {"planned"} \cup InFlight

FreshRuns == {r \in Runs : runStatus[r] = "none"}

\* Bound: once every run is used, no job is due any more.
DueJobs == {j \in Jobs : jobStatus[j] = "planned" /\ FreshRuns # {}}

\* Mutant: the scan looks at the status of the job alone.
StrandedRunsOfActiveJobs ==
  {r \in Runs : /\ runStatus[r] # "none"
                /\ jobStatus[runJob[r]] \in InFlight
                /\ leaseStatus[r] # "active"}

\* Mutant: only runs that have had a lease.
StrandedRunsWithEndedLease ==
  {r \in Runs : /\ runStatus[r] \in InFlight
                /\ jobStatus[runJob[r]] \in InFlight
                /\ leaseStatus[r] \in {"released", "expired", "terminated"}}

\* What list_active_job_run_pairs_without_worker_leases returns.  The scan cannot
\* tell a run whose process died from one whose process is just outside the
\* span its lease covers.
StrandedRuns ==
  {r \in Runs : /\ runStatus[r] \in InFlight
                /\ jobStatus[runJob[r]] \in InFlight
                /\ leaseStatus[r] # "active"}

-----------------------------------------------------------------------------
(* Steps of a process. *)

At(p, point) == pc[p] = point

Goto(p, point) ==
  /\ pc' = [pc EXCEPT ![p] = point]
  /\ UNCHANGED <<cur, todo, cause>>

\* The procedure returns, or the process ends and is started again: all a
\* process knows is in the database.
Exit(p) ==
  /\ pc' = [pc EXCEPT ![p] = "idle"]
  /\ cur' = [cur EXCEPT ![p] = None]
  /\ todo' = [todo EXCEPT ![p] = {}]
  /\ cause' = [cause EXCEPT ![p] = "none"]

SetJob(p, status) == jobStatus' = [jobStatus EXCEPT ![Job(p)] = status]
SetRun(p, status) == runStatus' = [runStatus EXCEPT ![cur[p]] = status]
SetExecution(p, status) == execStatus' = [execStatus EXCEPT ![cur[p]] = status]
SetLease(p, status) ==
  /\ leaseStatus' = [leaseStatus EXCEPT ![cur[p]] = status]
  /\ overdue' = overdue \ {cur[p]}

-----------------------------------------------------------------------------
(* Planning, and the clock. *)

\* A job is planned unless one with its key is active (then it is suppressed).
PlanJob(j) ==
  /\ jobStatus[j] = "absent"
  /\ KeyFree(j)
  /\ jobStatus' = [jobStatus EXCEPT ![j] = "planned"]
  /\ UNCHANGED <<runVars, leaseVars, checkpoints, procVars, crashes>>

LeaseTimePasses(r) ==
  /\ leaseStatus[r] = "active"
  /\ r \notin overdue
  /\ LeaseOutlivesWorker => \A p \in Executors : cur[p] # r
  /\ overdue' = overdue \cup {r}
  /\ UNCHANGED <<jobVars, runVars, leaseStatus, checkpoints, procVars, crashes>>

-----------------------------------------------------------------------------
(* Supervision: expired leases. *)

\* Mutant: the rows the update returned are dropped.
ExpireDueLeasesForgetting(p) ==
  /\ p \in Services \cup Watchers
  /\ At(p, "idle")
  /\ leaseStatus' =
       [r \in Runs |-> IF r \in overdue THEN "expired" ELSE leaseStatus[r]]
  /\ overdue' = {}
  /\ Goto(p, "checkpointLeases")
  /\ UNCHANGED <<jobVars, runVars, checkpoints, crashes>>

\* One UPDATE expires every overdue lease and returns its row.
ExpireDueLeases(p) ==
  /\ p \in Services \cup Watchers
  /\ At(p, "idle")
  /\ leaseStatus' =
       [r \in Runs |-> IF r \in overdue THEN "expired" ELSE leaseStatus[r]]
  /\ overdue' = {}
  /\ pc' = [pc EXCEPT ![p] = "checkpointLeases"]
  /\ todo' = [todo EXCEPT ![p] = overdue]
  /\ UNCHANGED <<jobVars, runVars, checkpoints, cur, cause, crashes>>

\* The decision recorded with the checkpoint is not acted on.
CheckpointExpiredLease(p) ==
  /\ At(p, "checkpointLeases")
  /\ \E r \in todo[p] :
       /\ checkpoints' = checkpoints \cup {<<r, "timeout_or_stall">>}
       /\ todo' = [todo EXCEPT ![p] = @ \ {r}]
  /\ UNCHANGED <<jobVars, runVars, leaseVars, pc, cur, cause, crashes>>

\* A watcher has nothing else to do with background jobs.
FinishWatch(p) ==
  /\ p \in Watchers
  /\ At(p, "checkpointLeases")
  /\ todo[p] = {}
  /\ Exit(p)
  /\ UNCHANGED <<jobVars, runVars, leaseVars, checkpoints, crashes>>

-----------------------------------------------------------------------------
(* Supervision: recovery of stranded runs, on every turn of the loop. *)

ListStrandedRuns(p) ==
  /\ p \in Services
  /\ At(p, "checkpointLeases")
  /\ todo[p] = {}
  /\ pc' = [pc EXCEPT ![p] = "recover"]
  /\ todo' = [todo EXCEPT ![p] = StrandedRuns]
  /\ UNCHANGED <<jobVars, runVars, leaseVars, checkpoints, cur, cause, crashes>>

\* The run is read again, and whether it has started decides the request and
\* what the update below will write into started_at.
IssueRestartTrigger(p) ==
  /\ At(p, "recover")
  /\ \E r \in todo[p] :
       /\ checkpoints' = checkpoints \cup {<<r, "supervisor_restart">>}
       /\ cur' = [cur EXCEPT ![p] = r]
       /\ todo' = [todo EXCEPT ![p] = @ \ {r}]
       /\ pc' = [pc EXCEPT ![p] = IF runStatus[r] = "leased"
                                  THEN "failUnstartedRun" ELSE "failStrandedRun"]
  /\ UNCHANGED <<jobVars, runVars, leaseVars, cause, crashes>>

\* Mutant: the table accepts a failed run that never started.
FailUnstartedRun(p) ==
  /\ At(p, "failUnstartedRun")
  /\ SetRun(p, "failed")
  /\ Goto(p, "replanJob")
  /\ UNCHANGED <<jobVars, runJob, execStatus, applied, leaseVars, checkpoints, crashes>>

\* The update copies the absent started_at into a failed run, the CHECK of
\* background_job_runs refuses it, and the error ends the service.
RejectUnstartedRun(p) ==
  /\ At(p, "failUnstartedRun")
  /\ Exit(p)
  /\ UNCHANGED <<jobVars, runVars, leaseVars, checkpoints, crashes>>

\* Mutant: the run is left as it is.
FailStrandedRunSkipped(p) ==
  /\ At(p, "failStrandedRun")
  /\ Goto(p, "replanJob")
  /\ UNCHANGED <<jobVars, runVars, leaseVars, checkpoints, crashes>>

FailStrandedRun(p) ==
  /\ At(p, "failStrandedRun")
  /\ SetRun(p, "failed")
  /\ Goto(p, "replanJob")
  /\ UNCHANGED <<jobVars, runJob, execStatus, applied, leaseVars, checkpoints, crashes>>

\* The job goes back to the queue, or is given up, as the decision says.
ReplanJob(p) ==
  /\ At(p, "replanJob")
  /\ KeyFree(Job(p))
  /\ SetJob(p, IF ClassifyRecoveryDecision(RestartRequest(TRUE)) \in {"retry", "continue"}
               THEN "planned" ELSE "failed")
  /\ Goto(p, "failStrandedExecution")
  /\ UNCHANGED <<runVars, leaseVars, checkpoints, crashes>>

FailStrandedExecution(p) ==
  /\ At(p, "failStrandedExecution")
  /\ SetExecution(p, "failed")
  /\ pc' = [pc EXCEPT ![p] = "recover"]
  /\ cur' = [cur EXCEPT ![p] = None]
  /\ UNCHANGED <<jobVars, runStatus, runJob, applied, leaseVars, checkpoints,
                 todo, cause, crashes>>

\* Mutant: the turn of the loop ends with recovery.
FinishRecoveryEndsTurn(p) ==
  /\ At(p, "recover")
  /\ todo[p] = {}
  /\ Exit(p)
  /\ UNCHANGED <<jobVars, runVars, leaseVars, checkpoints, crashes>>

FinishRecovery(p) ==
  /\ At(p, "recover")
  /\ todo[p] = {}
  /\ Goto(p, "schedule")
  /\ UNCHANGED <<jobVars, runVars, leaseVars, checkpoints, crashes>>

-----------------------------------------------------------------------------
(* Execution of one job. *)

\* One transaction: the first due job, its execution record and its run.
LeaseDueJob(p) ==
  /\ p \in Executors
  /\ At(p, IF p \in Services THEN "schedule" ELSE "idle")
  /\ \E j \in DueJobs, r \in FreshRuns :
       /\ \A k \in DueJobs : j <= k
       /\ \A s \in FreshRuns : r <= s
       /\ jobStatus' = [jobStatus EXCEPT ![j] = "leased"]
       /\ runStatus' = [runStatus EXCEPT ![r] = "leased"]
       /\ runJob' = [runJob EXCEPT ![r] = j]
       /\ execStatus' = [execStatus EXCEPT ![r] = "started"]
       /\ cur' = [cur EXCEPT ![p] = r]
  /\ pc' = [pc EXCEPT ![p] = "startJob"]
  /\ UNCHANGED <<applied, leaseVars, checkpoints, todo, cause, crashes>>

NoDueJob(p) ==
  /\ At(p, "schedule")
  /\ DueJobs = {}
  /\ Exit(p)
  /\ UNCHANGED <<jobVars, runVars, leaseVars, checkpoints, crashes>>

StartJob(p) ==
  /\ At(p, "startJob")
  /\ KeyFree(Job(p))
  /\ SetJob(p, "running")
  /\ Goto(p, "startRun")
  /\ UNCHANGED <<runVars, leaseVars, checkpoints, crashes>>

StartRun(p) ==
  /\ At(p, "startRun")
  /\ SetRun(p, "running")
  /\ Goto(p, "acquireLease")
  /\ UNCHANGED <<jobVars, runJob, execStatus, applied, leaseVars, checkpoints, crashes>>

AcquireLease(p) ==
  /\ At(p, "acquireLease")
  /\ SetLease(p, "active")
  /\ Goto(p, "work")
  /\ UNCHANGED <<jobVars, runVars, checkpoints, crashes>>

WorkerAnswers(p) ==
  /\ At(p, "work")
  /\ Goto(p, "checkLease")
  /\ UNCHANGED <<jobVars, runVars, leaseVars, checkpoints, crashes>>

\* The worker is killed at its time limit, or exits with an error.
WorkerFails(p) ==
  /\ At(p, "work")
  /\ \E why \in {"timed_out", "worker_failed"} : cause' = [cause EXCEPT ![p] = why]
  /\ pc' = [pc EXCEPT ![p] = "failRun"]
  /\ UNCHANGED <<jobVars, runVars, leaseVars, checkpoints, cur, todo, crashes>>

\* refresh_worker_lease_progress reads the status first ...
CheckLease(p) ==
  /\ At(p, "checkLease")
  /\ leaseStatus[cur[p]] = "active"
  /\ Goto(p, "releaseLease")
  /\ UNCHANGED <<jobVars, runVars, leaseVars, checkpoints, crashes>>

\* ... and returns an error when the lease was expired meanwhile: job and run
\* stay running, for the recovery scan to find.
LeaseLost(p) ==
  /\ At(p, "checkLease")
  /\ leaseStatus[cur[p]] # "active"
  /\ Exit(p)
  /\ UNCHANGED <<jobVars, runVars, leaseVars, checkpoints, crashes>>

\* Mutant: the update no longer asks for an active lease.
ReleaseAnyLease(p) ==
  /\ At(p, "releaseLease")
  /\ SetLease(p, "released")
  /\ Goto(p, "apply")
  /\ UNCHANGED <<jobVars, runVars, checkpoints, crashes>>

ReleaseIfActive(p) ==
  IF leaseStatus[cur[p]] = "active" THEN SetLease(p, "released")
                                    ELSE UNCHANGED leaseVars

\* The refresh and the release only touch an active lease, and neither looks at
\* whether it did: the results are applied all the same.
ReleaseLease(p) ==
  /\ At(p, "releaseLease")
  /\ ReleaseIfActive(p)
  /\ Goto(p, "apply")
  /\ UNCHANGED <<jobVars, runVars, checkpoints, crashes>>

\* Proposals, retrieval updates, diagnostics, wake signals, in this order.
ApplyStage(p) ==
  /\ At(p, "apply")
  /\ applied[cur[p]] < ApplyStages
  /\ applied' = [applied EXCEPT ![cur[p]] = @ + 1]
  /\ UNCHANGED <<jobVars, runStatus, runJob, execStatus, leaseVars, checkpoints,
                 procVars, crashes>>

\* A result of the wrong shape, or a stage that fails; earlier stages stay.
ApplyFails(p) ==
  /\ At(p, "apply")
  /\ applied[cur[p]] < ApplyStages
  /\ cause' = [cause EXCEPT ![p] = "result_failed"]
  /\ pc' = [pc EXCEPT ![p] = "failRun"]
  /\ UNCHANGED <<jobVars, runVars, leaseVars, checkpoints, cur, todo, crashes>>

\* Mutants: completion recorded before the results; the job left out.
CompleteRunEarly(p) ==
  /\ At(p, "apply")
  /\ SetRun(p, "completed")
  /\ Goto(p, "completeJob")
  /\ UNCHANGED <<jobVars, runJob, execStatus, applied, leaseVars, checkpoints, crashes>>

CompleteRunThenExecution(p) ==
  /\ At(p, "apply")
  /\ applied[cur[p]] = ApplyStages
  /\ SetRun(p, "completed")
  /\ Goto(p, "completeExecution")
  /\ UNCHANGED <<jobVars, runJob, execStatus, applied, leaseVars, checkpoints, crashes>>

CompleteRun(p) ==
  /\ At(p, "apply")
  /\ applied[cur[p]] = ApplyStages
  /\ SetRun(p, "completed")
  /\ Goto(p, "completeJob")
  /\ UNCHANGED <<jobVars, runJob, execStatus, applied, leaseVars, checkpoints, crashes>>

CompleteJob(p) ==
  /\ At(p, "completeJob")
  /\ SetJob(p, "completed")
  /\ Goto(p, "completeExecution")
  /\ UNCHANGED <<runVars, leaseVars, checkpoints, crashes>>

\* A service goes on with the next due job, or has run its share for this turn.
CompleteExecution(p) ==
  /\ At(p, "completeExecution")
  /\ SetExecution(p, "succeeded")
  /\ \/ /\ p \in Services
        /\ pc' = [pc EXCEPT ![p] = "schedule"]
        /\ cur' = [cur EXCEPT ![p] = None]
        /\ UNCHANGED <<todo, cause>>
     \/ Exit(p)
  /\ UNCHANGED <<jobVars, runStatus, runJob, applied, leaseVars, checkpoints, crashes>>

-----------------------------------------------------------------------------
(* A run that fails is recorded in three statements, then its lease ends. *)

FailRun(p) ==
  /\ At(p, "failRun")
  /\ SetRun(p, IF cause[p] = "timed_out" THEN "timed_out" ELSE "failed")
  /\ Goto(p, "failJob")
  /\ UNCHANGED <<jobVars, runJob, execStatus, applied, leaseVars, checkpoints, crashes>>

FailJob(p) ==
  /\ At(p, "failJob")
  /\ SetJob(p, "failed")
  /\ Goto(p, "failExecution")
  /\ UNCHANGED <<runVars, leaseVars, checkpoints, crashes>>

\* The lease was released before the results were looked at.
FailExecution(p) ==
  /\ At(p, "failExecution")
  /\ SetExecution(p, "failed")
  /\ IF cause[p] = "result_failed" THEN Exit(p) ELSE Goto(p, "endLease")
  /\ UNCHANGED <<jobVars, runStatus, runJob, applied, leaseVars, checkpoints, crashes>>

ReleaseAfterFailure(p) ==
  /\ At(p, "endLease")
  /\ cause[p] = "worker_failed"
  /\ ReleaseIfActive(p)
  /\ Exit(p)
  /\ UNCHANGED <<jobVars, runVars, checkpoints, crashes>>

TerminateLease(p) ==
  /\ At(p, "endLease")
  /\ cause[p] = "timed_out"
  /\ leaseStatus[cur[p]] = "active"
  /\ SetLease(p, "terminated")
  /\ Goto(p, "checkpointTimeout")
  /\ UNCHANGED <<jobVars, runVars, checkpoints, crashes>>

\* Another process expired the lease first, and has its checkpoint to write.
TerminateRefused(p) ==
  /\ At(p, "endLease")
  /\ cause[p] = "timed_out"
  /\ leaseStatus[cur[p]] # "active"
  /\ Exit(p)
  /\ UNCHANGED <<jobVars, runVars, leaseVars, checkpoints, crashes>>

CheckpointTimeout(p) ==
  /\ At(p, "checkpointTimeout")
  /\ checkpoints' = checkpoints \cup {<<cur[p], "timeout_or_stall">>}
  /\ Exit(p)
  /\ UNCHANGED <<jobVars, runVars, leaseVars, crashes>>

-----------------------------------------------------------------------------
(* Errors and crashes. *)

\* The unique index refuses to make a job active beside another with its key.
DedupIndexRejects(p) ==
  /\ pc[p] \in {"startJob", "replanJob"}
  /\ ~KeyFree(Job(p))
  /\ Exit(p)
  /\ UNCHANGED <<jobVars, runVars, leaseVars, checkpoints, crashes>>

Crash(p) ==
  /\ pc[p] \in CrashPoints
  /\ pc[p] # "idle"
  /\ crashes < MaxCrashes
  /\ crashes' = crashes + 1
  /\ Exit(p)
  /\ UNCHANGED <<jobVars, runVars, leaseVars, checkpoints>>

Supervise(p) ==
  \/ ExpireDueLeases(p) \/ CheckpointExpiredLease(p) \/ FinishWatch(p)
  \/ ListStrandedRuns(p) \/ IssueRestartTrigger(p)
  \/ RejectUnstartedRun(p) \/ FailStrandedRun(p) \/ ReplanJob(p)
  \/ FailStrandedExecution(p) \/ FinishRecovery(p)

Execute(p) ==
  \/ LeaseDueJob(p) \/ NoDueJob(p) \/ StartJob(p) \/ StartRun(p)
  \/ AcquireLease(p) \/ WorkerAnswers(p) \/ WorkerFails(p)
  \/ CheckLease(p) \/ LeaseLost(p) \/ ReleaseLease(p)
  \/ ApplyStage(p) \/ CompleteRun(p) \/ CompleteJob(p) \/ CompleteExecution(p)

Fail(p) ==
  \/ ApplyFails(p) \/ FailRun(p) \/ FailJob(p) \/ FailExecution(p)
  \/ ReleaseAfterFailure(p) \/ TerminateLease(p) \/ TerminateRefused(p)
  \/ CheckpointTimeout(p) \/ DedupIndexRejects(p)

Step(p) == Supervise(p) \/ Execute(p) \/ Fail(p)

Next ==
  \/ \E j \in Jobs : PlanJob(j)
  \/ \E r \in Runs : LeaseTimePasses(r)
  \/ \E p \in Processes : Step(p) \/ Crash(p)

Spec == Init /\ [][Next]_vars

\* A service's loop goes on (the container restarts it when it exits, and every
\* worker call returns by its time limit), and time passes.  Nothing is assumed
\* of operators, watchers, planning or crashes.
FairSpec ==
  /\ Spec
  /\ \A p \in Services : WF_vars(Step(p))
  /\ \A r \in Runs : WF_vars(LeaseTimePasses(r))

-----------------------------------------------------------------------------
(* Properties. *)

\* The harness never has two attempts at one job in flight: recovery ends a
\* stranded run before it puts its job back (recovery.rs, the two updates of
\* recover_background_supervisor_restart).
OneActiveRunPerJob ==
  \A r, s \in Runs :
    /\ runStatus[r] \in InFlight
    /\ runStatus[s] \in InFlight
    /\ runJob[r] = runJob[s]
    => r = s

\* A completed job has a completed run, and a completed run has all its results
\* in the database: completion is written last (background_execution.rs 484-507).
CompletedMeansApplied ==
  /\ \A j \in Jobs : jobStatus[j] = "completed" =>
       \E r \in Runs : runJob[r] = j /\ runStatus[r] = "completed"
  /\ \A r \in Runs : runStatus[r] = "completed" => applied[r] = ApplyStages

\* An execution record never reports an outcome its run and its job do not have.
ExecutionReportsTruth ==
  \A r \in Runs :
    /\ execStatus[r] = "succeeded" =>
         runStatus[r] = "completed" /\ jobStatus[runJob[r]] = "completed"
    /\ execStatus[r] = "failed" => runStatus[r] \in {"failed", "timed_out"}

\* The writes of status that could meet the index of active keys never do: a
\* job about to be started or replanned has kept its key throughout.
DedupIndexNeverRejects ==
  \A p \in Processes : \A k \in Jobs :
    /\ pc[p] \in {"startJob", "replanJob"}
    /\ k # Job(p)
    /\ KeyOf[k] = KeyOf[Job(p)]
    => jobStatus[k] \in {"absent", "completed", "failed"}

\* A lease taken away for lack of time is not forgotten: its run has a recovery
\* checkpoint, or the process that took it is about to write one.
EndedLeaseReachesRecovery ==
  \A r \in Runs : leaseStatus[r] \in {"expired", "terminated"} =>
    \/ <<r, "timeout_or_stall">> \in checkpoints
    \/ \E p \in Processes :
         \/ pc[p] = "checkpointLeases" /\ r \in todo[p]
         \/ pc[p] = "checkpointTimeout" /\ cur[p] = r

\* Recovery never undoes an outcome: a job or a run that has ended keeps the
\* status it ended with, whatever the restart scan finds.
OutcomeIsFinal ==
  [][/\ \A j \in Jobs : jobStatus[j] \in JobEnded => jobStatus'[j] = jobStatus[j]
     /\ \A r \in Runs : runStatus[r] \in RunEnded => runStatus'[r] = runStatus[r]]_vars

\* With several processes: a run that has ended is never in flight again, even
\* when the restart scan takes a live run for a stranded one.
RunNeverRevives ==
  [][\A r \in Runs : runStatus[r] \in RunEnded => runStatus'[r] \in RunEnded]_vars

\* A lease ends once: of the release, the expiry and the termination of a lease
\* only the first takes effect.
LeaseEndsOnce ==
  [][\A r \in Runs :
       leaseStatus[r] \in {"released", "expired", "terminated"} =>
         leaseStatus'[r] = leaseStatus[r]]_vars

\* A job whose execution was interrupted leaves the states leased and running.
InterruptedJobsRecover ==
  \A j \in Jobs : jobStatus[j] \in InFlight ~> jobStatus[j] \notin InFlight

\* A planned job comes to an end, past the crashes on its way.
PlannedJobsFinish ==
  \A j \in Jobs : jobStatus[j] = "planned" ~> jobStatus[j] \in JobEnded

-----------------------------------------------------------------------------
(* What one executor knows, statement by statement. *)

ActiveRunsOf(j) == {r \in Runs : runStatus[r] \in InFlight /\ runJob[r] = j}

RecoveryPoints == {"recover", "failUnstartedRun", "failStrandedRun", "replanJob",
                   "failStrandedExecution"}

ExecutorKnows(p) ==
  /\ pc[p] \in {"startJob", "startRun", "failUnstartedRun"} =>
       runStatus[cur[p]] = "leased"
  /\ pc[p] \in {"acquireLease", "work", "checkLease", "releaseLease", "apply",
                "failRun", "failStrandedRun"} =>
       runStatus[cur[p]] = "running"
  /\ pc[p] \in {"completeJob", "completeExecution"} =>
       runStatus[cur[p]] = "completed"
  /\ pc[p] \in {"failJob", "failExecution", "replanJob", "failStrandedExecution"} =>
       runStatus[cur[p]] \in {"failed", "timed_out"}
  /\ pc[p] \in {"completeJob", "failJob", "replanJob"} =>
       jobStatus[Job(p)] \in InFlight /\ ActiveRunsOf(Job(p)) = {}
  /\ pc[p] = "completeExecution" => jobStatus[Job(p)] = "completed"
  /\ pc[p] \in RecoveryPoints =>
       \A r \in todo[p] : /\ runStatus[r] \in InFlight
                          /\ pc[p] # "recover" => r # cur[p]

\* A run is in flight only under a job in flight, the converse of what a crash
\* breaks; and no two jobs with one key are active.
JobsCoverRuns ==
  \A r \in Runs : runStatus[r] \in InFlight => jobStatus[runJob[r]] \in InFlight

KeysUnique ==
  \A j, k \in Jobs :
    /\ j # k
    /\ KeyOf[j] = KeyOf[k]
    /\ jobStatus[j] \in {"planned"} \cup InFlight
    => jobStatus[k] \notin {"planned"} \cup InFlight

\* Why one harness can recover from its own crashes: before each statement it
\* writes, the rows it is about to write are still as it left or found them.
RecoveryInvariant ==
  /\ JobsCoverRuns
  /\ OneActiveRunPerJob
  /\ KeysUnique
  /\ CompletedMeansApplied
  /\ ExecutionReportsTruth
  /\ \A p \in Executors : ExecutorKnows(p)
  /\ \A p \in Watchers : pc[p] \in {"idle", "checkpointLeases"}

-----------------------------------------------------------------------------
(* One harness implements the abstract queue. *)

QueueState(j) ==
  CASE jobStatus[j] = "absent" -> "absent"
    [] jobStatus[j] = "planned" -> "pending"
    [] jobStatus[j] \in InFlight -> "taken"
    [] OTHER -> "done"

\* The member of a set that has at most one.
OnlyOf(S) == IF S = {} THEN None ELSE CHOOSE r \in S : TRUE

HolderOf(j) == OnlyOf(ActiveRunsOf(j))

Queue == INSTANCE JobQueue WITH
  state <- [j \in Jobs |-> QueueState(j)],
  holder <- [j \in Jobs |-> HolderOf(j)],
  used <- {r \in Runs : runStatus[r] # "none"},
  effects <- applied

\* Whatever crashes and expiries do, what the tables show of a job is the
\* abstract queue: taken by one run, results only from the run that holds it,
\* finished or handed back only when nobody holds it.
ImplementsJobQueue == Queue!Spec

-----------------------------------------------------------------------------
(* What a diagnostic says and the code does not do. *)

\* recovery.rs 901 records that the execution was stranded across a supervisor
\* restart: then no process is executing the run the checkpoint is about.
RecoveredRunsWereStranded ==
  [][\A r \in Runs :
       /\ <<r, "supervisor_restart">> \in checkpoints'
       /\ <<r, "supervisor_restart">> \notin checkpoints
       => \A p \in Executors : cur[p] # r]_vars
=============================================================================
