# Blue Lagoon: formal models

Blue Lagoon is an assistant runtime: a *harness* that owns a PostgreSQL
database and every decision, *workers* it starts for one task each, and a
Telegram service that talks to the user.  All state is in the database; a
process remembers nothing across a restart.  The hard part of the system is
therefore not an algorithm but the sequence of separately committed statements
in each handler: what another process, or a crash, finds between two of them.
These modules model that, statement by statement.

## Inventory

Paths are relative to `src/crates/harness/src/` unless they say otherwise.

| Part | State | Operations | Hard behaviour | What makes it correct | Module |
|---|---|---|---|---|---|
| Background jobs (`background.rs`, `background_planning.rs`, `background_execution.rs`, `execution.rs`) | `background_jobs`, `background_job_runs`, `execution_records` | plan, lease, start, run worker, apply results, complete, fail | crash between statements, several executors, dedup key | one run in flight per job, completed means applied, outcomes final, interrupted jobs recover | `BackgroundJobs` |
| Worker leases and recovery (`recovery.rs`) | `worker_leases`, `recovery_checkpoints` | create, refresh, release, expire, terminate; checkpoint; restart scans | stale lease reads, two supervisors, checkpoint lost in a crash | a lease ends once, an ended lease reaches recovery, only stranded work is recovered | `BackgroundJobs`, `GovernedActions`, `Foreground` |
| Recovery decisions (`recovery.rs` 232-306) | none | classify a request | order of the tests | ambiguous work is never replayed unproven | `RecoveryDecision` |
| Approvals (`approval.rs`) | `approval_requests` | create with pending limit, resolve | a chat and an operator answer at once, limit counted apart from the insert | answered once, nothing done without it | `Approvals` |
| Governed actions (`governed_actions.rs`, `tool_execution.rs`) | `governed_action_executions`, `workspace_script_runs` | plan, attach approval, sync, re-check policy, execute, reconcile | recovery overwrites a result, crash between approval and execution | nothing runs without its approval, at most once | `GovernedActions` |
| Foreground ingress (`ingress.rs`, `foreground.rs`) | `ingress_events` and links to executions | store, deduplicate, plan single and backlog turns | redelivered updates, stale rows | a stored message is answered, by one turn at a time | `Foreground` |
| Foreground orchestration (`foreground_orchestration.rs`) | `episodes`, `episode_messages`, execution records | context, worker turn, actions, delivery, failure notices, approval answers, recovery of interrupted turns | crash between delivery and its record, an error between any two statements | rows close last, an execution recorded as completed has told the user | `Foreground` |
| Scheduled tasks (`scheduled_foreground.rs`, `runtime.rs` 556-960) | `scheduled_foreground_tasks` | upsert, claim, run, suppress, record, recover | claim lost in a crash, runs recorded twice | the outcome of a run is what became of it | `Foreground` |
| Telegram service (`telegram.rs`, `runtime.rs` 218-350, 989-1330) | polling offset | fetch, store, stage, handle callbacks | offset against processing | no update lost or handled twice | `Foreground` |
| Wake signals (`background_execution.rs` 692-968) | `wake_signals` | record, look at others, decide, stage | several jobs review at once, the limit is a count | approved signals stay below the limit | `WakeSignals`, `Foreground` |
| Proposals, memory, self model (`continuity.rs`, `memory.rs`, `self_model.rs`) | `memory_artifacts`, `self_model_artifacts`, `proposals`, `merge_decisions` | propose, decide, merge, seed | plans against rows that change before the merge | there is always a self model; repeats have a cause | `Continuity` |
| Retrieval (`retrieval.rs`) | `retrieval_artifacts` | project, upsert, archive, select | upsert in two statements | a source stays findable | `Retrieval` |
| Identity (`identity.rs`, `proposal.rs`, `management.rs` 873-1460) | lifecycle, interviews, items, diagnostics | kickstart, interview, deltas, operator edits, reset | deltas checked before their target is read again | a stable item a delta has seen outlasts it | `Identity` |
| Workspace (`workspace.rs`) | artifacts, scripts, versions, runs | create, update, append version, run | expectations checked apart from the write | versions keep their number | `Workspace` |
| Schema (`migration.rs`, `schema.rs`) | `schema_migrations` | list, validate, apply, verify | two commands, several checkouts | the history is one reviewed checkout's | `Migrations` |
| Worker protocol and model calls (`worker.rs`, `model_calls.rs`, `src/crates/workers/src/main.rs`) | pipes, `model_call_records` | spawn, request, model call, answer, result, collect | time limit against a late answer, deaths of either side | no worker is left, answers come from the model | `WorkerProtocol` |
| Trace diagnosis (`management.rs` 2167-3831) | none: reads the rows of a trace | report, diagnose | rows in any intermediate state | what is called safe to retry has done nothing | `TraceDiagnosis` |
| Management (`management.rs`, `src/crates/runtime/src/admin.rs`) | none of its own | run-next, supervise, approvals, identity, tasks, migrate; listings | runs beside the services | the guarantees of the services | the commands that write: in the modules of their tables |
| Policy (`policy.rs`) | none | requirement and recheck of approval, verdict on a signal | - | - | `GovernedActions`, `WakeSignals` |
| Configuration, contracts, audit, fetched content | data | validation and formatting | - | - | not modelled, but for the kinds of contracts that control depends on |

How they interact.  The Telegram service and the harness share the ingress rows and
run the same turn over them; a turn launches a worker under a lease, puts its
proposals to identity and continuity, and plans governed actions, which ask for
approval through the chat.  Its end plans background jobs, which the harness runs
under leases of their own, and whose results reach the same tables and may stage
a wake signal as a row of the inbox.  Supervision of leases runs in every service
and in an admin command.  The modules cut this at the tables: `Foreground` has one
step where a turn acts (`Act`), `GovernedActions` shows the statements behind it;
`WakeSignals` ends where a signal is staged, `Foreground` begins there
(`StageWakeSignal`); `Identity` and `Continuity` begin where a worker has answered.

## What is modelled

### Background jobs and their recovery: `BackgroundJobs`

The state is the four tables, one function per column that the control depends
on, and for each process the statement it executes next (`pc`), the run it
holds (`cur`), the rows a listing has returned to it (`todo`) and why it is
failing a run (`cause`).  A row is identified by its number: jobs in the order
in which they become due, runs in the order of insertion.

| Processes | Code | Actions |
|---|---|---|
| `Services` | `run_harness_service` (`runtime.rs` 117-155), restarted when it exits | `Supervise`, `Execute`, `Fail` |
| `Operators` | `admin background run-next` (`management.rs` 2005) | `LeaseDueJob` to `CompleteExecution`, `Fail` |
| `Watchers` | the Telegram service and `admin recovery supervise` | `ExpireDueLeases`, `CheckpointExpiredLease`, `FinishWatch` |

One action is one statement that commits on its own (`lease_next_due_job` is one
transaction and one action).  What lies between - audit events, diagnostics,
formatting - is left out; an error of the database that makes a handler return
early is `Crash` at that statement.  `LeaseTimePasses` is the clock: it makes an
active lease overdue.  `LeaseOutlivesWorker` says whether that may happen while
the process the lease covers goes on; the safety runs on leases allow it, the
liveness runs do not (there a lease ends by its release, by the worker's time
limit or after a crash).

`JobQueue` is the abstract specification: a job is absent, pending, taken by one
run, or done; only the run that holds a job makes results durable; a job is
finished or handed back only when nobody holds it.  `BackgroundJobs` maps to it by
`QueueState`, `HolderOf` and `applied`.

### Recovery decisions: `RecoveryDecision`, `RecoveryEvaluation`

`RecoveryDecision` is the decision table as operators.  `BackgroundJobs` asks it
what becomes of a stranded job, `GovernedActions` what becomes of an action
whose lease ended, and `Foreground` what becomes of an interrupted turn.  `RecoveryEvaluation` applies it to every request.

### Approvals and governed actions: `Approvals`, `GovernedActions`, `ApprovalGate`

`Approvals` is the table `approval_requests`, with one operator per committed
statement.  `GovernedActions` extends it with `governed_action_executions`
(`actionStatus`, `proposal`, `requestOf`, `started`, `completed`, `link`), the
execution record, script run and worker lease of each action, and with the
processes that work on them.  An action is known by its *fingerprint*, the only part
of its payload that control depends on; `effects` counts how often the backend
did what the action says, which no table records.

| Processes | Code | Actions |
|---|---|---|
| `Turns` | one foreground turn (`foreground_orchestration.rs` 1430-1682) | `PlanningStep`, `RoutingStep`, and `ExecutionStep` for what needs no approval |
| `Chats` | a Telegram callback or command (342-560) | `AnswerRequest`, `SyncStep`, `ExecutionStep` for what it approved |
| `Admins` | `admin approvals resolve` (`management.rs` 2088-2190) | the same, but writing the asking turn's execution into the row |
| `Supervisors` | `recover_expired_worker_leases` of any service or of `admin recovery supervise` | `RecoveryStep` |

Every executor goes through `execute_governed_action` statement by statement:
policy recheck, execution record, start, lease, script run, backend, then the three
statements that finish record, run and row, then the lease.  When the backend
times out it recovers its own action (`TerminateLease`, `LoadContext`); otherwise
recovery is a supervisor's.  Recovery reads the context once (`LoadContext`, which
is also where the decision is taken) and writes later (`RecoverRun`,
`RecoverAction`), whatever the rows say by then.

Choices worth knowing.  `Crash` is at once a crash and any error of the
database: the process leaves what it was doing, and a turn does not come back (its
messages may, as another turn).  A turn that continues after an approved action
starts with one action on its count, so `Init` lets every turn start with 0 or 1.  A
chat can answer only what it was prompted for; a prompt that was delivered but
not recorded can be answered.  A callback with another fingerprint invalidates
its request.  The reads that make one recovery context are one step.

`ApprovalGate` is what approvals promise: requests are asked once, answered
once, and an action of a fingerprint that needs consent is performed under a
granted request about that fingerprint which nobody has performed under.
`GovernedActions` maps to it by `requestFor`, `GateAnswer`, `effects` and `GateGrant`.

### Foreground turns: `Foreground`, `Inbox`

The state is one conversation's rows (`rowStatus`, `rowTurn`), each turn's records
(`turnStatus`, `episode`, `messages`, `delivered`, `attached`, `lease`, its `batch` of
rows and the execution it was `resumed` from), the task rows (`taskStatus`,
`current`, `due`, `lastTurn`, `lastOutcome`), the Telegram server (`posted`,
`confirmed`) and, per process, the next statement and the turn it runs.

| Process | Code | Actions |
|---|---|---|
| `Telegram` | the Telegram service | `FetchUpdates` to `StartCallback`; `ScanConversation`, `PlanTurn`, `RecoverRestart`; the turn; the approval answer (`ResolveRequest` to `CloseResolution`) |
| `Harness` | `run_harness_service` 156-217 | `RecoverTask`, `FailStrandedRun`, `ClaimDueTask`, `SuppressRun`, `StageWakeSignal`; the turn; `CompleteTask`, `FailTask`, `SuppressTask` |
| either | `execute_foreground_trigger` and what it calls | `OpenEpisode`, `AssembleContext`, `AcquireLease`, `Work`, `CheckLease`, `Act`, `RecordAnswer`, `DeliverAnswer`, `AttachAnswer`, `SucceedTurn`, `CompleteEpisode`, `CloseRows`, `FinishTurn`; on an error `FailTurn` to `AttachNotice` |
| the clock | - | `RowGoesStale`, `LeaseFallsDue`, `RunGetsOld`, `TaskFallsDue` |
| anyone else | `Post`: the user writes; `UpdateTask`: an operator or an action rewrites a task; `SuperviseLeases` | |

A statement that returns an error takes the error path of the code
(`StatementFails`, `FailureFails`); `Crash` loses what a service knew in memory,
and so does the exit of a service whose turn returned an error.  `kind` fixes
what each row is: text, callback, command, an update that is refused, ignored or
malformed, a wake signal or a scheduled run.  Choices: one conversation, whose
binding is made once; what an action does is one step that may or may not be one
that must not be repeated (`acted`); the time a row may wait and the age of a run are
clock steps, which `LiveTurnsGoStale` keeps away from turns that are alive.

`Inbox` is what the rows promise: stored once, dealt with by one process at a time,
closed only by who deals with it, and closed for good.  `Foreground` maps to it by
`Abstract` and `HandlerOf`.

### Identity: `Identity`

Processes are runs of the code that forms and merges a proposal: a turn
(`WorkerProposes`, `InferProposal`), a reflection job, an operator's edit, and a reset.
A merge takes the statements of the code one by one, each reading what has committed
when it runs: `ReadLifecycle`; the control check, which lists the items of a category for an
addition (`CheckAdd`), or resolves the target of a change (`CheckTarget`) and reads its class
(`InspectTarget`); the second resolve, in the branch of the operation, which reads no
class (`ResolveTarget`); and the writes (`CommitDelta`).  A change without a target passes the
control check and is refused only by the second resolve.  A delta of the self description
(`ReflectOnSelf`) has no control check.  The interview has statements of its own
(`FindInterview`, `ReadInterview`, `WriteAnswer`, `CompleteInterview`).

A row of `identity_items` is a pair of the run that inserted it and its key, which stands for
category and key together; `stable` holds the rows whose class is stable or whose policy is
protected, as the delta that inserted them said.  Values are left out: that two texts
nearly coincide, or that a reinforcement contradicts its item, is a choice.  So is
which of several active rows of a key a query returns (the last updated: updates of confidence and
weight are left out).  A proposal carries one delta; the 64 rows at which the list of a category
ends are never reached.  The index that allows one current lifecycle turns a racing transition
into an error (`AbandonMerge`).  `found` is the one field no statement reads: it keeps what the
control check could find, for `StableSeenIsKept` to speak of.

### Memory and self model: `Continuity`.  Retrieval: `Retrieval`

`Continuity` has turns and jobs that load the self model (`LoadSelfModel`,
`InsertSeed`), record a memory (`RecordMemory`, `PlanMemory`, `InsertMemory`) and merge
an observation (`ObserveSelf` to `MergeSelf`).  Contents are model values.  `Retrieval` has
assemblies that project what has no artifact and select among the active ones, and
jobs that replace their own projection in two statements (`ArchivePrior`,
`InsertUpsert`) and may be cut in between and run again (`MaxAttempts`).

### Wake signals, workspace, migrations: `WakeSignals`, `Workspace`, `Migrations`

`WakeSignals` is the loop of a job over its signals: record, count, decide by
policy, stage, record the decision.  `Workspace` is one note and one script with the actions that
read, compare and write them.  `Migrations` is the table and its users, each with
the files of its own checkout, a sequence of texts (`Matches` compares checksums).

### Worker launches: `WorkerProtocol`

Harness and worker are two processes and three pipes (requests, answers, stderr closed
with the worker).  Each phase of `worker.rs` is an action of the harness
(`Spawn` to `AwaitExit`, `CollectFailure`, `TimeOut`, `LoseHarness`); each way of
serving of `workers/src/main.rs` is one of the worker (`ServeModelWorker`, `ServeSmoke`,
`ServeWrongResult`, `ServeEarlyExit`, `ServeStall`, and `WorkerDies`).

### Trace diagnosis: `TraceDiagnosis`

Operators over the state of `GovernedActions`: `TraceReport` has one operator per
table that `load_trace_report` reads, and `FailureClasses`, `TraceVerdict`,
`SideEffectStatus` and `RetrySafety` are the diagnosis.  The turn's own rows follow from how
it ended (`Endings`), which `GovernedActions` leaves open.  Time is abstracted: it
orders nodes only to break ties, and the model allows every order.

### `MCComponents`

The components with tables of their own share none, so one run checks them:
a behaviour moves one of them (`moving`) and leaves the others as they start.

## Runs

| Run | Instance | Question |
|---|---|---|
| `single_harness` | one harness, one watcher, two jobs with one key, three runs, two result stages, two crashes anywhere | are the tables consistent, and an implementation of `JobQueue`? |
| `shared_tables` | harness, operator and watcher, two runs, one crash not inside a checkpoint | does an ended run stay ended, a lease end once, an ended lease reach recovery? |
| `progress` | one harness, four runs, two crashes at recoverable statements, fairness | does every interrupted job recover and every planned job end? |
| `crash_before_start` | one crash at `startJob` or `startRun` | finding: the recovery update is refused |
| `live_run_recovered` | harness and operator, no crash | finding: a live run is recovered |
| `approved_effects` | a turn, an operator, a supervisor, two actions, two requests, scripts that may return errors, one crash anywhere, leases that expire under running work | was all that was done approved, once and within the cap, and do rows tell the truth? is it an implementation of `ApprovalGate`? |
| `started_actions` | two turns, a chat, a supervisor, one crash under a lease, fairness | is a started action finished, once finished left alone, and does an action that awaits approval alone have a request somebody can answer? |
| `foreground` | six conversations of two rows, one one-shot task that may have no conversation, two turns, batches of two, two worker passes, one error or crash anywhere | is what was confirmed stored, a closed row ended, a completed execution told, a row worked on by one process, a run's outcome true? is it an implementation of `Inbox`? |
| `foreground_progress` | two conversations, three turns, one pass, a failed delivery or a crash after a commit, fairness | is every message closed, and does every run of a task end? |
| `replayed_turn` | one text, a crash while its turn works | finding: the turn is replayed although it has acted |
| `components` | identity (three runs, an interview, an edit, five deltas of items over three keys, two of one category, and one of the self description), continuity (three writers, two contents), retrieval (an assembly, two episodes and a fact, two jobs, two attempts), wake signals (three jobs, two signals, a limit of two), workspace (three actions), one worker launch, migrations (three processes of three checkouts), the decision table | one invariant or more of each, see below |
| `unsafe_retry` | a turn and an operator, two actions, nothing fails but the turn | finding: the diagnosis does not see what was done |

What the properties of `components` say: `AutomaticRecoveryIsProven` of the decision table;
`StableSeenIsKept`: a stable item that a delta names, or that was alone under the delta's
key when it was checked, outlasts the delta whatever commits in between (a reset ends it, a delta
of the self description may, and so may a delta that has not seen it: each of these happens
in the instance); `SelfModelIsKept`: once
there is an active self model there always is; `RepeatsAreOldOrRaced`: a memory is
stored twice only when the scan could not have seen the first;
`UnfindableOnlyWhenCut`: a source that had an artifact loses it only where an upsert was cut;
`ApprovedStayBelowLimit`; `AppendsKeepTheirNumber`: the number an append took under
the lock is free when it inserts; `NoWorkerOutlivesItsLaunch` and
`AnswersComeFromTheModel` of a worker launch; `SchemaIsReviewed`: the history is always that of one
checkout, and a service that runs has the migrations of its own files.

Bounds of the background instances.  Two jobs with one key are the smallest instance in which the
deduplication key matters, three runs allow one job to be restarted twice or
two jobs to interleave, two crashes let a crash hit the recovery of a crash,
and two result stages separate "some" from "all".  A queue whose runs are used
up has no due job (`DueJobs`); this bounds the table and hides only later repetitions of
the same cycle.

Bounds of the governed instances.  Two actions can share a request or compete for one
execution; two requests can be one after the other for one fingerprint; effects
are counted to two, one more than is allowed; one crash is enough to leave any
statement undone, and what follows is another process's work, not the crashed
one's.  When requests run out, creation is refused as by the index
(`CreateRefused`).

Bounds of the foreground instances.  Two rows make a backlog and let a scheduled run or a
wake signal meet a message; the six pairs (`Mixed`) cover every kind of row.  Two turns are one
that is interrupted and one that resumes it, or one of each process; the
third of `foreground_progress` lets the one that resumes be interrupted too.  When
turns run out, planning stops, which only cuts a behaviour short.  Two passes are a
worker that acts and goes on.  One error or crash hits each statement of each path; a second
one would hit the recovery of the first, which the theorems cover for the
safety properties.

Bounds of the components.  Three actors where a race of two can be observed by a third,
two where rows are private to their owner; a scan limit of one makes the second row
the one that is not seen.  The sets that share values in `Components.cfg` do so only
to be permuted together (`Symmetry`): no component looks at another's.

Fairness.  `BackgroundJobs!FairSpec` assumes weak fairness of each service's steps,
because the loop of `run_harness_service` never waits for anything but time-limited
worker calls and its container restarts it when it exits (`src/compose.yaml`), and of
the passage of time.  Planning, operators, watchers and crashes have none.
`progress` leaves out the crash points of the findings and weaknesses below that
break it.  `GovernedActions!FairSpec` assumes it of each process's own steps (a
task that was spawned is scheduled; supervision runs again and again) and of
time, but not of answers: nobody has to answer.  `started_actions` also assumes
`LeaseOutlivesWork`, that no lease expires under a process that is alive
and at its action, and crashes only where the action has a lease; the
list of weaknesses says what happens otherwise.  `Foreground!Fairness` is weak fairness of
the steps of both services, which are loops that are restarted when they exit, and of the
three clocks (a row goes stale, a lease falls due, a run gets old).  Nobody has to write,
no task has to fall due, and errors and crashes are free within their bound.

CHECK_DEADLOCK is off where the system may stop: nobody writes any more, a turn is
over, every component has done what it was started for.

## Proofs

All theorems hold for every set of rows, every key function and configuration,
and any number of crashes at any statements.  The assumptions are those the
modules name (`BackgroundJobsAssumption`, `ApprovalsAssumption`,
`GovernedActionsAssumption`, `ForegroundAssumption` and those of the components): rows
are numbered, process kinds are disjoint, limits are natural numbers.

`BackgroundJobsProofs`:

* `TypeCorrect`, `RunsNeverRevive`, `LeasesEndOnce` and `EndedLeasesReachRecovery` hold
  for any number of processes.  The second needs `OwnedRuns`: each run is executed by one
  process, and no other knows it before it has started.  The third adds `LeaseAwaited`: a
  run has no lease until its owner acquires one, so no second acquisition
  revives a lease that ended; all other writers ask for an active one.  The fourth assumes
  `CheckpointsAreWritten`: no process fails between the end of a lease and its checkpoint.
* `RecoveryIsSafe`, `NeverTwoRuns`, `CompletionIsReal`, `ExecutionIsTrue`,
  `IndexNeverRejects`, `OutcomesAreFinal` and `ImplementsAbstractQueue` assume
  `SingleExecutor` (one harness loop, or one operator; any number of watchers).  The
  assumption is needed: `live_run_recovered` is what happens without it.
  `OneExecutorRecoversStranded` shows that it is all the finding needs: the property that run
  refutes, `RecoveredRunsWereStranded`, is a theorem for one executor, because only an
  executor scans, and one that scans holds no run (`ScansHoldNothing`).
  The inductive invariant is `TypeOK /\ RecoveryInvariant`.  None of its parts is
  inductive alone: that a job has one active run depends on `JobsCoverRuns` (a
  run in flight keeps its job out of the queue), which depends on what the
  executor knows before it ends or replans a job (`ExecutorKnows`), which in
  turn depends on there being one active run.
  `TableWriters` reduces every step to one of the fifteen statements that write
  a job, a run or an execution record, and each lemma goes through those.
* The refinement maps ending a run to `Yield` and ending or replanning its job to
  `Finish` and `HandBack`, so the queue shows the interval in which nobody holds a job that
  is not finished: exactly what a crash leaves behind.

`GovernedActionsProofs`, for any number of turns, chats, operators and supervisors:

* `TypeCorrect` proves `TypeOK` together with `RowsKnown`: neither is inductive
  without the other, because a status that is written was read before, and what
  was read is typed only while its row exists.
* `ConsentIsKept` proves `ConsentInvariant`, and `EffectsAreApproved` and
  `ApprovalsAreUsedOnce` follow.  The argument: a turn executes only rows
  that need no consent and that no other turn has (`TurnsKnow`); a
  resolver executes only the row whose request it approved itself, and a
  request is answered by one resolver (`ResolversKnow`); and no process returns to a
  statement before the backend (`EffectsAhead`).  Recovery runs nothing, so
  supervisors do not occur.  `QuietOrWrites` splits the steps into those that move one
  process while rows stand, by kind of move, and the seven that write what
  consent is about; each has a lemma.
* `ExecutedRowsAreTrue` proves `ExecutedIsTrue` from two more invariants.  `NotStarted`: what is
  put to a person, or about to be executed, has not been started, so no execution
  record is opened twice.  `RecordsAgree`: the execution record, the script run and the row are
  written in this order by one executor (`OneExecutor`), and a recovery that is about to write
  over them concluded what it writes from an execution that had ended
  (`VerdictIsTrue`), which nobody takes back.  It holds even where a lease expires under a live
  executor and the two race.
* `ImplementsApprovalGate` is the refinement: `CreateRequest` asks,
  `AnswerRequest` answers, `Work` and `WorkErrors` perform, all else stutters.

`GovernedOutcomesProofs`, on what becomes of an action, from the invariants of
`GovernedActionsProofs`:

* `OutcomesAreFinal` proves `FinishedIsFinal` when `LeaseOutlivesWork`.  Whoever writes to a row
  that has started knows what became of it (`OutcomeKnown`): an executor that still writes holds an
  active lease and the row is not completed; a supervisor took the row from an expired lease,
  whose executor, by the assumption, is gone, and no two processes have one row in hand
  (`InOneHand`); and a recovery of a completed row writes what the row says.  Without the
  assumption it is false: the weakness of leases that expire under running work.
* `UnapprovedEffectsAreBounded` proves `UnapprovedEffectsBounded` for any finite set of turns and
  any cap.  Each effect nobody was asked about has a place in `Turns \X 1..MaxActions`: its
  turn and the count it got there (`HavePlaces`).  No two have the same place, because a turn
  gives none back (`Used`) and executes only below its cap (`CapKept`), so there are no more
  effects than places.  Crashes do not give a turn a second cap: its count is over with it.
* `AwaitingIsAnswerable` proves `AloneAwaitingCanBeResolved` from two conditions.
  `AnswersReachRows`: no operator answers, and no crash falls between the statements that route
  an action or carry an answer to its row.  `RoomForRequests`: the pending limit is not reached
  by a turn that counts, and a request is left for one that creates.  Each condition stands for a
  listed weakness that leaves an action waiting for ever: an answer before the request is
  attached, a crash between an answer and its row, a refusal at the limit.  Both hold of the
  instance of `started_actions`.
  Everything else that happens keeps the row answerable (`AwaitingKnown`): each request there is
  was asked for by a row or by the turn about to attach it (`RequestsHaveAskers`), the request
  of an action that is alone stays pending until its turn has told a chat about it
  (`TurnAsks`), and no recovery puts a row back to wait (`DefersNothing`).

`ForegroundProofs`, for any conversation, tasks, number of turns, errors and crashes:

* `UpdatesAreKept`: the offset never passes an update that is not stored.
* `RowsCloseLast`, `RowsHaveOneWorker` and `ImplementsAbstractInbox` rest on
  `ForegroundInvariant`.  Its heart is that two processes never run turns with a
  row in common (`TurnsApart`), which needs that a row in the hands of a live turn is
  neither planned again nor claimed; that holds while live turns do not go stale,
  so the last two assume `~LiveTurnsGoStale`, and fail without it.  A turn knows its
  batch, and each statement after the execution has ended knows that it has.
* `TypeCorrect` goes by `RestTypeOK` and `PassesKnown`, each of which needs the
  other: a point is reached only by a turn that has passes left.
* `CompletedTurnsTold` and `OutcomesAreTrue` rest on `TellInvariant`: at each statement a
  process knows how far its turn has told the user (`PointKnown`, `Told`), and the
  run a task row names is the one that its process or recovery reads the
  status of (`RunsKnown`).

`ContinuityProofs`, `WorkerProtocolProofs`, `ComponentProofs` and `IdentityProofs` prove of
the components what `components` checks, for any number of actors: `SelfModelStays`,
`RepeatsHaveCause`; `NoWorkerIsLeft`, `AnswersAreTheModels`; `AppendsAreNumbered`,
`HistoryIsReviewed`, `ApprovalsAreLimited`, `ProjectionsAreFound`; `StableItemsSeenAreKept`; and the
types of each.  Each
strengthens its property by what an actor knows between the read and the write: a self row that
is being merged was active when it was read and is superseded only together with its successor; an
append holds the lock from the read of the newest number to the insert; the history
a command validated can only grow by files it has compared; a review counted itself
before it was approved.  For the identity (`SeenInvariant`), a delta past its control check has
seen no active stable item, since the one it read was not stable or is gone (`SeenIsSafe`); this stays true
while others commit because a run inserts its items in its last transaction only
(`InsertedOnce`), so an item that was there to be seen never becomes active, or stable, afterwards
(`ItemsOnlyAge`).

`ComponentProofs` also proves the decision table for any bound on budgets
(`EvaluationTypeCorrect`, `AutomaticRecoverySafe`), and puts the components
together: `ComponentsKeepApart` shows that every behaviour of the instance the run explores is one
of each component, so what is proved of a component holds of the composition, and
`ComponentsTypeCorrect` gathers the type theorems of the components as `ComponentsTypeOK`.
Both assume `ProgramIsThere`: there is a checkout, and the bound on budgets admits the one a
restart passes.  The types need more than the types: the next step of an interview is a step only
because the answers it is computed from are some of the steps (`KnowsInterview`, `NextIsStep`), and a
turn that projects has a source because it has just found one without an artifact
(`AssembliesTyped`).

Every invariant and action property that a passing run checks is stated by a theorem.  Only
model-checked: the liveness properties (`InterruptedJobsRecover`, `PlannedJobsFinish`,
`StartedActionsEnd`, `MessagesAreClosed`, `RunsEnd`), since fairness is out of the prover's
reach.

## Findings

Each is a `violation` run; the counterexample is short and all of its steps are the code's.

1. `crash_before_start`: a run leased but never started cannot be failed (the
   table wants a start time), so one crash stops every later start of the harness.
2. `live_run_recovered`: the restart scan runs on every turn and takes a run
   outside the span of its lease for a stranded one.
3. `replayed_turn`: an interrupted turn whose actions must not be repeated is run again:
   actions carry an execution of their own or none, so the recovery of the turn does not see
   them, and a row that waits alone does not even go through that recovery
   (`docs/REQUIREMENTS.md:374`).
4. `unsafe_retry`: the report of a trace calls its actions `governed_action`, the diagnosis
   looks for `governed_action_execution`.  It reports no side effect for any trace, and calls a
   failed turn safe to retry whose actions were executed
   (`docs/internal/harness/TRACE_EXPLORER.md:199` asks for the opposite).  With one name in both
   places `SafeMeansNothingDone` holds on the same instance (3,948 states).

Weaknesses met while modelling that contradict no stated promise, or only a loose one, and so
have no run of their own (the models show them unless it says otherwise, and the properties above
are stated so as to leave them out).

Background jobs and leases:

* a job and its run end in two statements; a crash between them leaves the job
  running, holding its deduplication key;
* every restart grants a job the same recovery budget of 1;
* the status of a background lease is checked before, not in, the updates that
  depend on it, so results survive the expiry of a lease.

Approvals and governed actions:

* an operator's answer to the second request of a turn is committed on the request and
  refused on the row, whose `execution_id` is unique (`management.rs:2124`);
* an execution that returns an error releases its lease and leaves the row started for ever
  (`governed_actions.rs:706`), and a crash between the start and the lease hides it from recovery:
  `StartedActionsEnd` fails when `ErrorKinds` holds the kind of an action, so `started_actions`
  leaves it empty;
* a lease that expires under running work is recovered while the work goes on; the last of
  the two writes wins: `FinishedIsFinal` fails with `LeaseOutlivesWork = FALSE`, so
  `started_actions` sets it to TRUE;
* two actions with one fingerprint share a pending request, and the answer reaches
  the newer one only;
* a request refused at the pending limit, a crash between an answer and its row, and an
  operator who answers before the request is attached each leave an action
  waiting for ever; the limit is counted outside the insert it guards;
* nothing calls `expire_due_approval_requests`: a late request stays pending until it is answered.

Foreground:

* a crash between the delivery of an answer and its record answers the user twice;
* an error after the answer (`mark_succeeded`, the episode, the rows) marks the turn failed and
  sends a failure notice after the answer;
* an answer to an approval that does not parse (`/approve` without a token) returns before anything
  is recorded, and is planned again after every restart of the service;
* a callback inside a backlog is closed without being resolved, and a callback that opens one
  closes its own row only;
* a scheduled run whose delivery fails leaves its row in processing, which the Telegram service
  later answers; a suppressed run that a crash cuts is recorded as completed;
* nothing ties the 300 seconds after which a row is stale to the longest turn: with
  `LiveTurnsGoStale` two processes may work on one row; and a lease that the other service
  expires makes a live turn's answer refused;
* a task is read by one statement of an upsert and written by another, which puts back a stale
  due time: a task that has just run may fall due again.

Identity:

* "protect core stable identity from drift" (`docs/IMPLEMENTATION_DESIGN.md:382`) holds of the items a delta
  has seen only: a revise, supersede or expire that finds no target passes the control check
  (`identity.rs` 731-739), and if the completion of an interview or a template commits the
  stable item then, the second resolve (517, 533) finds it and supersedes or expires it, with no
  reset; the same happens when the check read another active item of the key;
* a delta of the self description takes whatever item is active under its key
  (`identity.rs` 568-593), a stable one that an operator has added included;
* every operator edit names `complete_identity_active` (`management.rs:958`), so the approval of one edit
  completes an identity that has one item; revise and supersede edits are always rejected
  (`management.rs` 942-953);
* a reflection job may name a lifecycle state or an interview action, or another source, and is not
  refused (`proposal.rs` 380-387);
* cancelling is two unguarded statements; a reset that races the completion of an interview leaves
  items active under bootstrap or revives the interview;
* an edit is merged before its status is written: it can be approved twice, or approved and
  rejected, and a crash leaves a merged edit pending;
* the prompt of a scheduled task can be recorded as the answer to an interview question.

Memory, self model, retrieval:

* two first loads or two merges of the self model leave two active rows; every later load is then
  refused and no code closes either (`self_model.rs:466`);
* a decision stays accepted when a crash follows it before the merge;
* the check for an artifact counts archived ones, so an episode whose only artifact was archived by a
  cut upsert is never projected again; an upsert before the baseline prevents it; two processes
  project a source twice.

Wake signals, workspace, workers, migrations:

* the count of open signals includes the one under review, so the limit is one lower than it says,
  and a limit of 1 approves none; a signal whose job died stays pending and keeps its
  place; deferred signals are never looked at again;
* expectations on the revision of a note or the version of a script are compared outside the statement
  that writes: an update may be lost; a script run without a version takes the newest at execution;
* a model call stays `pending` for ever after a time limit, a death of the harness or a failed
  insert behind it; a database error after the spawn leaves the worker unattended
  (`worker.rs:166`, not modelled);
* the schema is verified at start only: a later `migrate` upgrades it under a running service.

## Not modelled

* Fetched content (conversion of pages to text) and configuration (parsing and validation at
  start) have no state and no control.
* Audit events and causal links are append-only; no handler reads them to decide anything, and only the
  report of a trace does at all.  Its edges, focus and wording are left out.
* Telegram: the HTTP requests, the splitting and formatting of texts.  Providers: the formats of
  requests and responses.  A failed call is an outcome.
* Ranking of retrieval candidates, the values of identity items, budgets (numbers checked once per
  turn), the retention sweep of model calls (an operator's, it deletes payloads only), and the management
  commands that list.
* Supersession and revision of memories, the archive operation of retrieval and the archived status of
  workspace rows: no path of the code emits them.
* More than one conversation: rows, turns and planning of two share nothing but the
  tables of the other modules.
* `Foreground` and `GovernedActions` in one state space: `Act` stands for what the other module
  shows, and the two are joined by hand at `acted`, `linked` and `execution_id`.
