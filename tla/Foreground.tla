----------------------------- MODULE Foreground -----------------------------
(***************************************************************************)
(* Foreground turns.  The Telegram service polls for updates, stores each  *)
(* as an ingress row and runs turns over the rows of the conversation that *)
(* are pending or were left in processing.  The harness claims due         *)
(* scheduled tasks, gives each run an ingress row of its own and runs its  *)
(* turn; it also stages approved wake signals as rows.  Both run the same  *)
(* turn: open an episode, let a leased worker answer, record the answer,   *)
(* deliver it, end the execution and the episode, close the rows.          *)
(*                                                                         *)
(* Every statement that commits on its own is an action.  A process may    *)
(* crash before any of them, and a statement may return an error, which    *)
(* takes the error path of the code; a service whose turn returns an error *)
(* exits and is started again, with what it knew in memory lost.           *)
(***************************************************************************)
EXTENDS RecoveryDecision, FiniteSets

CONSTANTS
  Conversations,     \* bound: what may arrive, the kind of each row in order
  Tasks,             \* scheduled_foreground_tasks
  Unbound,           \* tasks whose conversation may have no binding
  OneShot,           \* tasks with a one-shot key
  Turns,             \* bound: foreground executions, 1 .. n
  CountThreshold,    \* pending_message_count_threshold
  BatchSize,         \* max_recovery_batch_size
  MaxPasses,         \* worker passes of a turn
  LiveTurnsGoStale,  \* a turn may outlast the age at which rows count as stale
  FaultPoints,       \* statements that may return an error
  CrashPoints,       \* statements a process may crash before
  MaxFaults          \* bound: errors and crashes in a behaviour

Telegram == "telegram"
Harness == "harness"
Processes == {Telegram, Harness}

\* What an update may be, and the rows the harness makes itself.  A command is
\* an answer to an approval request typed as text; malformed, one without a token.
UpdateKinds == {"text", "callback", "command", "malformed", "refused", "ignored"}
RowKinds == UpdateKinds \cup {"wake", "scheduled"}
Rows == UNION {DOMAIN k : k \in Conversations}

TurnPoints == {"episode", "context", "lease", "work", "checkLease", "act", "answer",
               "send", "attach", "succeed", "completeEpisode", "close", "finish"}
ResolutionPoints == {"resolve", "sync", "execute", "sendResolution", "sendExecuted",
                     "openFollowUp", "followUp", "completeResolution",
                     "failResolution", "closeResolution"}
FailurePoints == {"failQuietly", "failEpisodeQuietly", "fail", "failEpisode", "notice",
                  "sendNotice", "sendNoticeOnly", "closeFailed", "attachNotice"}
ServicePoints == {"fetch", "stage", "begin", "plan", "parse", "recover", "block",
                  "closeBlocked", "sendBlocked"}
SchedulerPoints == {"stageWake", "recoverTasks", "failStranded", "recordRecovered",
                    "claim", "suppress", "suppressTask", "completeTask", "failTask"}
ProgramPoints == {"supervise"} \cup TurnPoints \cup ResolutionPoints
                   \cup FailurePoints \cup ServicePoints \cup SchedulerPoints

ASSUME ForegroundAssumption ==
  /\ Rows \subseteq Nat \ {0} /\ IsFiniteSet(Rows)
  /\ \A k \in Conversations : DOMAIN k = Rows /\ \A i \in Rows : k[i] \in RowKinds
  /\ Unbound \subseteq Tasks
  /\ OneShot \subseteq Tasks
  /\ 0 \notin Tasks
  /\ Turns \subseteq Nat \ {0}
  /\ CountThreshold \in Nat
  /\ BatchSize \in Nat \ {0}
  /\ MaxPasses \in Nat \ {0}
  /\ LiveTurnsGoStale \in BOOLEAN
  /\ FaultPoints \subseteq ProgramPoints
  /\ CrashPoints \subseteq ProgramPoints
  /\ MaxFaults \in Nat

VARIABLES
  kind,          \* what each row is, fixed from the start
  posted,        \* updates the Telegram server has received
  confirmed,     \* the server has forgotten the updates below
  rowStatus,     \* foreground_status of each row, or absent
  rowTurn,       \* its execution_id, or 0
  stale,         \* rows whose last_processed_at is past the stale cutoff
  turnStatus,    \* status of the execution record
  batch,         \* the rows a turn was given (execution_ingress_links)
  resumed,       \* the interrupted execution a turn was planned from, or 0
  episode,       \* status of the turn's episode
  messages,      \* assistant rows of the episode: the answer, a notice
  delivered,     \* what the user was sent
  attached,      \* assistant rows with an external message id
  lease,         \* the turn's worker lease
  acted,         \* history: turns that ran an action that must not be repeated
  linked,        \* turns whose id an action of theirs carries as execution_id
  pc, turn,      \* next statement of a process, and the turn it runs
  inbox, offset, \* updates fetched and not yet handled, and next_offset
  news, backlog, \* rows staged in this iteration; rows the scan found
  task,          \* the task whose run the harness executes, or 0
  passes,        \* worker passes of the turn so far
  taskStatus, current, due, old,   \* a task's row: status, running execution,
  lastTurn, lastOutcome,           \* next_due_at and start past, last run
  faults

serverVars == <<posted, confirmed>>
rowVars == <<rowStatus, rowTurn, stale>>
planVars == <<batch, resumed>>
messageVars == <<messages, delivered, attached>>
actionVars == <<acted, linked>>
serviceVars == <<inbox, offset, news, backlog>>
taskVars == <<taskStatus, current, due, old, lastTurn, lastOutcome>>
vars == <<kind, serverVars, rowVars, turnStatus, planVars, episode, messageVars, lease,
          actionVars, pc, turn, serviceVars, task, passes, taskVars, faults>>

RowStatuses == {"absent", "pending", "processing", "processed", "rejected"}
TurnStatuses == {"none", "started", "completed", "failed"}
EpisodeStatuses == {"none", "started", "completed", "failed"}
LeaseStatuses == {"none", "active", "overdue", "ended"}

TypeOK ==
  /\ kind \in Conversations
  /\ posted \subseteq Rows
  /\ confirmed \in Nat /\ offset \in Nat
  /\ rowStatus \in [Rows -> RowStatuses]
  /\ rowTurn \in [Rows -> Turns \cup {0}]
  /\ stale \subseteq {i \in Rows : rowStatus[i] = "processing"}
  /\ turnStatus \in [Turns -> TurnStatuses]
  /\ batch \in [Turns -> SUBSET Rows]
  /\ resumed \in [Turns -> Turns \cup {0}]
  /\ episode \in [Turns -> EpisodeStatuses]
  /\ messages \in [Turns -> SUBSET {"answer", "notice"}]
  /\ delivered \in [Turns -> SUBSET {"answer", "notice", "blocked", "resolution"}]
  /\ attached \in [Turns -> SUBSET {"answer", "notice"}]
  /\ lease \in [Turns -> LeaseStatuses]
  /\ acted \subseteq Turns /\ linked \subseteq Turns
  /\ pc \in [Processes -> ProgramPoints]
  /\ turn \in [Processes -> Turns \cup {0}]
  /\ inbox \subseteq Rows
  /\ news \in BOOLEAN /\ backlog \in BOOLEAN
  /\ task \in Tasks \cup {0}
  /\ passes \in [Processes -> 0 .. MaxPasses]
  /\ taskStatus \in [Tasks -> {"active", "paused", "disabled"}]
  /\ current \in [Tasks -> Turns \cup {0}]
  /\ due \subseteq Tasks
  /\ old \subseteq {t \in Tasks : current[t] # 0}
  /\ lastTurn \in [Tasks -> Turns \cup {0}]
  /\ lastOutcome \in [Tasks -> {"none", "completed", "suppressed", "failed"}]
  /\ faults \in 0 .. MaxFaults

Init ==
  /\ kind \in Conversations
  /\ posted = {} /\ confirmed = 0
  /\ rowStatus = [i \in Rows |-> "absent"]
  /\ rowTurn = [i \in Rows |-> 0]
  /\ stale = {}
  /\ turnStatus = [e \in Turns |-> "none"]
  /\ batch = [e \in Turns |-> {}]
  /\ resumed = [e \in Turns |-> 0]
  /\ episode = [e \in Turns |-> "none"]
  /\ messages = [e \in Turns |-> {}]
  /\ delivered = [e \in Turns |-> {}]
  /\ attached = [e \in Turns |-> {}]
  /\ lease = [e \in Turns |-> "none"]
  /\ acted = {} /\ linked = {}
  /\ pc = [p \in Processes |-> "supervise"]
  /\ turn = [p \in Processes |-> 0]
  /\ inbox = {} /\ offset = 0
  /\ news = FALSE /\ backlog = FALSE
  /\ task = 0
  /\ passes = [p \in Processes |-> 0]
  /\ taskStatus = [t \in Tasks |-> "active"]
  /\ current = [t \in Tasks |-> 0]
  /\ due = {}
  /\ old = {}
  /\ lastTurn = [t \in Tasks |-> 0]
  /\ lastOutcome = [t \in Tasks |-> "none"]
  /\ faults = 0

-----------------------------------------------------------------------------
(* Steps of a process. *)

At(p, point) == pc[p] = point

Goto(p, point) ==
  /\ pc' = [pc EXCEPT ![p] = point]
  /\ UNCHANGED <<turn, serviceVars, task, passes>>

\* The process exits, or dies, and is started again: what it knew is lost.
Restart(p) ==
  /\ pc' = [pc EXCEPT ![p] = "supervise"]
  /\ turn' = [turn EXCEPT ![p] = 0]
  /\ passes' = [passes EXCEPT ![p] = 0]
  /\ IF p = Telegram
     THEN inbox' = {} /\ offset' = 0 /\ news' = FALSE /\ backlog' = FALSE /\ UNCHANGED task
     ELSE task' = 0 /\ UNCHANGED serviceVars

Least(S) == CHOOSE i \in S : \A j \in S : i <= j
Greatest(S) == CHOOSE i \in S : \A j \in S : j <= i

\* The service has run its turn: after an answer that came in a callback it goes
\* on with the updates it fetched, else the iteration is over.
EndIteration ==
  /\ turn' = [turn EXCEPT ![Telegram] = 0]
  /\ passes' = [passes EXCEPT ![Telegram] = 0]
  /\ UNCHANGED <<offset, task>>
  /\ IF inbox # {}
     THEN /\ pc' = [pc EXCEPT ![Telegram] = "stage"]
          /\ inbox' = inbox \ {Least(inbox)}
          /\ UNCHANGED <<news, backlog>>
     ELSE /\ pc' = [pc EXCEPT ![Telegram] = "supervise"]
          /\ news' = FALSE /\ backlog' = FALSE
          /\ UNCHANGED inbox

\* A turn returns: the harness then records the run of its task.
TurnSucceeds(p) == IF p = Telegram THEN EndIteration ELSE Goto(p, "completeTask")
TurnErrs(p) == IF p = Telegram THEN Restart(p) ELSE Goto(p, "failTask")

FreshTurns == {e \in Turns : turnStatus[e] = "none"}
NextTurn == Least(FreshTurns)

\* A process takes a new turn to its next statement.
Take(p, e, point) ==
  /\ pc' = [pc EXCEPT ![p] = point]
  /\ turn' = [turn EXCEPT ![p] = e]

SetTurn(e, status) == turnStatus' = [turnStatus EXCEPT ![e] = status]
SetEpisode(e, status) == episode' = [episode EXCEPT ![e] = status]

\* set_ingress_event_foreground_state also touches last_processed_at.
SetRow(i, status, e) ==
  /\ rowStatus' = [rowStatus EXCEPT ![i] = status]
  /\ rowTurn' = [rowTurn EXCEPT ![i] = e]
  /\ stale' = stale \ {i}

\* A process is at work on the rows of its turn: recording how a scheduled run
\* ended is not.
Handles(p, i) ==
  turn[p] # 0 /\ pc[p] \notin SchedulerPoints /\ i \in batch[turn[p]]

-----------------------------------------------------------------------------
(* Time, and what others do. *)

\* Telegram numbers the updates it receives; rows the harness makes have numbers
\* between theirs.
Post(i) ==
  /\ kind[i] \in UpdateKinds
  /\ i \notin posted
  /\ \A j \in Rows : j < i /\ kind[j] \in UpdateKinds => j \in posted
  /\ posted' = posted \cup {i}
  /\ UNCHANGED <<kind, confirmed, rowVars, turnStatus, planVars, episode, messageVars,
                 lease, actionVars, pc, turn, serviceVars, task, passes, taskVars, faults>>

RowGoesStale(i) ==
  /\ rowStatus[i] = "processing"
  /\ i \notin stale
  /\ LiveTurnsGoStale \/ \A p \in Processes : ~ Handles(p, i)
  /\ stale' = stale \cup {i}
  /\ UNCHANGED <<kind, serverVars, rowStatus, rowTurn, turnStatus, planVars, episode,
                 messageVars, lease, actionVars, pc, turn, serviceVars, task, passes,
                 taskVars, faults>>

LeaseFallsDue(e) ==
  /\ lease[e] = "active"
  /\ lease' = [lease EXCEPT ![e] = "overdue"]
  /\ UNCHANGED <<kind, serverVars, rowVars, turnStatus, planVars, episode, messageVars,
                 actionVars, pc, turn, serviceVars, task, passes, taskVars, faults>>

RunGetsOld(t) ==
  /\ current[t] # 0
  /\ t \notin old
  /\ old' = old \cup {t}
  /\ UNCHANGED <<kind, serverVars, rowVars, turnStatus, planVars, episode, messageVars,
                 lease, actionVars, pc, turn, serviceVars, task, passes, taskStatus,
                 current, due, lastTurn, lastOutcome, faults>>

\* Bound: nothing is asked of a task once the rows for its runs are used up.
RunsLeft ==
  FreshTurns # {} /\ \E i \in Rows : kind[i] = "scheduled" /\ rowStatus[i] = "absent"

TaskFallsDue(t) ==
  /\ RunsLeft
  /\ t \notin due
  /\ due' = due \cup {t}
  /\ UNCHANGED <<kind, serverVars, rowVars, turnStatus, planVars, episode, messageVars,
                 lease, actionVars, pc, turn, serviceVars, task, passes, taskStatus,
                 current, old, lastTurn, lastOutcome, faults>>

\* An operator, or an approved action, rewrites a task: what runs goes on.
UpdateTask(t) ==
  /\ RunsLeft
  /\ \E status \in {"active", "paused", "disabled"} :
       taskStatus' = [taskStatus EXCEPT ![t] = status]
  /\ due' \in {due \cup {t}, due \ {t}}
  /\ UNCHANGED <<kind, serverVars, rowVars, turnStatus, planVars, episode, messageVars,
                 lease, actionVars, pc, turn, serviceVars, task, passes, current, old,
                 lastTurn, lastOutcome, faults>>

-----------------------------------------------------------------------------
(* The Telegram service: fetch, stage, plan. *)

\* Both services begin an iteration by expiring the leases that are past due.
SuperviseLeases(p) ==
  /\ At(p, "supervise")
  /\ lease' = [e \in Turns |-> IF lease[e] = "overdue" THEN "ended" ELSE lease[e]]
  /\ Goto(p, IF p = Telegram THEN "fetch" ELSE "stageWake")
  /\ UNCHANGED <<kind, serverVars, rowVars, turnStatus, planVars, episode, messageVars,
                 actionVars, taskVars, faults>>

\* Mutant: a fetch confirms what it returns.
FetchConfirmingAll ==
  /\ At(Telegram, "fetch")
  /\ LET got == {i \in posted : i >= confirmed /\ i >= offset}
     IN /\ inbox' = got
        /\ offset' = IF got = {} THEN offset ELSE Greatest(got) + 1
        /\ confirmed' = IF got = {} THEN confirmed ELSE Greatest(got) + 1
  /\ pc' = [pc EXCEPT ![Telegram] = "stage"]
  /\ UNCHANGED <<kind, posted, rowVars, turnStatus, planVars, episode, messageVars, lease,
                 actionVars, turn, news, backlog, task, passes, taskVars, faults>>

\* The offset of a request confirms the updates below it; the next one is set as
\* soon as the response is read.
FetchUpdates ==
  /\ At(Telegram, "fetch")
  /\ confirmed' = IF offset > confirmed THEN offset ELSE confirmed
  /\ LET got == {i \in posted : i >= confirmed'}
     IN /\ inbox' = got
        /\ offset' = IF got = {} THEN offset ELSE Greatest(got) + 1
  /\ pc' = [pc EXCEPT ![Telegram] = "stage"]
  /\ UNCHANGED <<kind, posted, rowVars, turnStatus, planVars, episode, messageVars, lease,
                 actionVars, turn, news, backlog, task, passes, taskVars, faults>>

\* An update that was stored already, that normalisation refuses or ignores, or
\* that policy denies, which leaves a rejected row.
SkipUpdate ==
  /\ At(Telegram, "stage")
  /\ inbox # {}
  /\ LET i == Least(inbox)
     IN /\ rowStatus[i] # "absent" \/ kind[i] \in {"ignored", "refused"}
        /\ IF rowStatus[i] = "absent" /\ kind[i] = "refused"
           THEN /\ rowStatus' = [rowStatus EXCEPT ![i] = "rejected"]
                /\ UNCHANGED <<rowTurn, stale>>
           ELSE UNCHANGED rowVars
        /\ inbox' = inbox \ {i}
  /\ UNCHANGED <<kind, serverVars, turnStatus, planVars, episode, messageVars, lease,
                 actionVars, pc, turn, offset, news, backlog, task, passes, taskVars,
                 faults>>

StageMessage ==
  /\ At(Telegram, "stage")
  /\ inbox # {}
  /\ LET i == Least(inbox)
     IN /\ rowStatus[i] = "absent"
        /\ kind[i] \in {"text", "command", "malformed"}
        /\ rowStatus' = [rowStatus EXCEPT ![i] = "pending"]
        /\ inbox' = inbox \ {i}
  /\ news' = TRUE
  /\ UNCHANGED <<kind, serverVars, rowTurn, stale, turnStatus, planVars, episode,
                 messageVars, lease, actionVars, pc, turn, offset, backlog, task, passes,
                 taskVars, faults>>

\* A callback starts its execution with its row, in one transaction, and is
\* answered at once.
StartCallback ==
  /\ At(Telegram, "stage")
  /\ inbox # {}
  /\ FreshTurns # {}
  /\ LET i == Least(inbox)
         e == NextTurn
     IN /\ rowStatus[i] = "absent"
        /\ kind[i] = "callback"
        /\ SetRow(i, "processing", e)
        /\ SetTurn(e, "started")
        /\ batch' = [batch EXCEPT ![e] = {i}]
        /\ Take(Telegram, e, "resolve")
  /\ UNCHANGED <<kind, serverVars, resumed, episode, messageVars, lease, actionVars,
                 serviceVars, task, passes, taskVars, faults>>

\* Mutant: rows left in processing are not looked for.
RecoverablePendingOnly == {i \in Rows : rowStatus[i] = "pending"}

Recoverable == {i \in Rows : rowStatus[i] = "pending"} \cup stale

\* list_recoverable_foreground_conversations, once all updates are staged.
ScanConversation ==
  /\ At(Telegram, "stage")
  /\ inbox = {}
  /\ IF Recoverable = {} /\ ~news
     THEN EndIteration
     ELSE /\ pc' = [pc EXCEPT ![Telegram] = "begin"]
          /\ backlog' = (Recoverable # {})
          /\ UNCHANGED <<turn, inbox, offset, news, task, passes>>
  /\ UNCHANGED <<kind, serverVars, rowVars, turnStatus, planVars, episode, messageVars,
                 lease, actionVars, taskVars, faults>>

BeginExecution ==
  /\ At(Telegram, "begin")
  /\ FreshTurns # {}
  /\ SetTurn(NextTurn, "started")
  /\ Take(Telegram, NextTurn, "plan")
  /\ UNCHANGED <<kind, serverVars, rowVars, planVars, episode, messageVars, lease,
                 actionVars, serviceVars, task, passes, taskVars, faults>>

\* The oldest of the rows waiting, up to the batch size.
Pending == {i \in Recoverable : Cardinality({j \in Recoverable : j < i}) < BatchSize}

Interrupted == {i \in Pending : rowStatus[i] = "processing"}

\* aged: the rows span, or the oldest has waited, longer than the threshold.
Backlogged(aged) ==
  /\ Cardinality(Pending) >= 2
  /\ Interrupted # {} \/ (aged /\ Cardinality(Pending) >= CountThreshold)

Selected(aged) == IF Backlogged(aged) THEN Pending ELSE {Least(Pending)}

\* Interrupted rows resumed together with others, and a backlog that only the
\* scan found, go through recovery first.
GoesThroughRecovery(aged) ==
  /\ Backlogged(aged)
  /\ Interrupted # {} \/ (backlog /\ ~news)

\* The row a turn answers: the last of its batch.
Primary(e) == Greatest(batch[e])

\* What the turn does first: a resolution is recognised by the primary row.
OpeningOf(i) ==
  IF kind[i] \in {"callback", "command"} THEN "resolve"
  ELSE IF kind[i] = "malformed" THEN "parse" ELSE "episode"

\* Mutant: planning leaves the rows as they were.
MarkNoRow(S, e) == UNCHANGED rowVars

MarkProcessing(S, e) ==
  /\ rowStatus' = [i \in Rows |-> IF i \in S THEN "processing" ELSE rowStatus[i]]
  /\ rowTurn' = [i \in Rows |-> IF i \in S THEN e ELSE rowTurn[i]]
  /\ stale' = stale \ S

PlanTurn ==
  /\ At(Telegram, "plan")
  /\ Pending # {}
  /\ LET e == turn[Telegram]
     IN \E aged \in BOOLEAN :
          LET S == Selected(aged)
              resuming == S \cap Interrupted
          IN /\ MarkProcessing(S, e)
             /\ batch' = [batch EXCEPT ![e] = S]
             /\ resumed' = [resumed EXCEPT ![e] =
                              IF resuming = {} THEN 0 ELSE rowTurn[Least(resuming)]]
             /\ Goto(Telegram, IF GoesThroughRecovery(aged) THEN "recover"
                               ELSE OpeningOf(Greatest(S)))
  /\ UNCHANGED <<kind, serverVars, turnStatus, episode, messageVars, lease, actionVars,
                 taskVars, faults>>

\* Nothing is left to plan: the execution record stays as it is.
PlanNothing ==
  /\ At(Telegram, "plan")
  /\ Pending = {}
  /\ EndIteration
  /\ UNCHANGED <<kind, serverVars, rowVars, turnStatus, planVars, episode, messageVars,
                 lease, actionVars, taskVars, faults>>

\* A resolution that cannot be parsed returns before anything is recorded.
RefuseMalformed ==
  /\ At(Telegram, "parse")
  /\ Restart(Telegram)
  /\ UNCHANGED <<kind, serverVars, rowVars, turnStatus, planVars, episode, messageVars,
                 lease, actionVars, taskVars, faults>>

-----------------------------------------------------------------------------
(* Recovery of an interrupted turn. *)

\* recover_foreground_restart_trigger looks at the actions that carry the id of
\* the interrupted execution, or of the new one.
Inspected(e) == IF resumed[e] = 0 THEN e ELSE resumed[e]

RestartDecision(e) ==
  ClassifyRecoveryDecision(
    [kind |-> "foreground", reason |-> "crash",
     action |-> IF Inspected(e) \in linked THEN "ambiguous_or_nonrepeatable"
                ELSE "safe_replay",
     evidence |-> IF Inspected(e) \in linked THEN "ambiguous" ELSE "durable_incomplete",
     approval |-> "not_required", policy |-> "valid", budget |-> 1,
     clarification |-> FALSE])

RecoverRestart ==
  /\ At(Telegram, "recover")
  /\ Goto(Telegram, IF RestartDecision(turn[Telegram]) = "continue"
                    THEN OpeningOf(Primary(turn[Telegram])) ELSE "block")
  /\ UNCHANGED <<kind, serverVars, rowVars, turnStatus, planVars, episode, messageVars,
                 lease, actionVars, taskVars, faults>>

BlockRecovery ==
  /\ At(Telegram, "block")
  /\ SetTurn(turn[Telegram], "failed")
  /\ Goto(Telegram, "closeBlocked")
  /\ UNCHANGED <<kind, serverVars, rowVars, planVars, episode, messageVars, lease,
                 actionVars, taskVars, faults>>

\* A notice that cannot be delivered is only logged.
SendBlocked ==
  /\ At(Telegram, "sendBlocked")
  /\ \E e \in {turn[Telegram]} :
       delivered' \in {delivered, [delivered EXCEPT ![e] = @ \cup {"blocked"}]}
  /\ EndIteration
  /\ UNCHANGED <<kind, serverVars, rowVars, turnStatus, planVars, episode, messages,
                 attached, lease, actionVars, taskVars, faults>>

\* The rows of a turn are closed one statement at a time, in order.
ToClose(e) == {i \in batch[e] : ~ (rowStatus[i] = "processed" /\ rowTurn[i] = e)}

CloseRow(p, here, next) ==
  /\ At(p, here)
  /\ LET e == turn[p]
     IN IF ToClose(e) = {}
        THEN Goto(p, next) /\ UNCHANGED rowVars
        ELSE /\ SetRow(Least(ToClose(e)), "processed", e)
             /\ Goto(p, IF Cardinality(ToClose(e)) = 1 THEN next ELSE here)
  /\ UNCHANGED <<kind, serverVars, turnStatus, planVars, episode, messageVars, lease,
                 actionVars, taskVars, faults>>

CloseBlockedRows == CloseRow(Telegram, "closeBlocked", "sendBlocked")

-----------------------------------------------------------------------------
(* The turn. *)

OpenEpisode(p) ==
  /\ At(p, "episode")
  /\ SetEpisode(turn[p], "started")
  /\ Goto(p, "context")
  /\ UNCHANGED <<kind, serverVars, rowVars, turnStatus, planVars, messageVars, lease,
                 actionVars, taskVars, faults>>

AssembleContext(p) ==
  /\ At(p, "context")
  /\ Goto(p, "lease")
  /\ UNCHANGED <<kind, serverVars, rowVars, turnStatus, planVars, episode, messageVars,
                 lease, actionVars, taskVars, faults>>

AcquireLease(p) ==
  /\ At(p, "lease")
  /\ lease' = [lease EXCEPT ![turn[p]] = "active"]
  /\ passes' = [passes EXCEPT ![p] = @ + 1]
  /\ pc' = [pc EXCEPT ![p] = "work"]
  /\ UNCHANGED <<kind, serverVars, rowVars, turnStatus, planVars, episode, messageVars,
                 actionVars, turn, serviceVars, task, taskVars, faults>>

\* The worker answers, fails or times out; the lease of one that did not answer
\* is ended if it is still active.
Work(p) ==
  /\ At(p, "work")
  /\ \/ Goto(p, "checkLease") /\ UNCHANGED lease
     \/ /\ lease' = [lease EXCEPT ![turn[p]] = "ended"]
        /\ Goto(p, "fail")
  /\ UNCHANGED <<kind, serverVars, rowVars, turnStatus, planVars, episode, messageVars,
                 actionVars, taskVars, faults>>

\* An answer under a lease that was expired meanwhile is refused.
CheckLease(p) ==
  /\ At(p, "checkLease")
  /\ IF lease[turn[p]] \in {"active", "overdue"}
     THEN /\ lease' = [lease EXCEPT ![turn[p]] = "ended"]
          /\ Goto(p, "act")
     ELSE Goto(p, "fail") /\ UNCHANGED lease
  /\ UNCHANGED <<kind, serverVars, rowVars, turnStatus, planVars, episode, messageVars,
                 actionVars, taskVars, faults>>

\* Mutant: a turn may go on for as long as its actions call for it.
ActAgain(p) ==
  /\ At(p, "act")
  /\ \/ UNCHANGED acted /\ Goto(p, "answer")
     \/ /\ acted' = acted \cup {turn[p]}
        /\ Goto(p, "lease") \/ Goto(p, "answer")
  /\ UNCHANGED <<kind, serverVars, rowVars, turnStatus, planVars, episode, messageVars,
                 lease, linked, taskVars, faults>>

\* The proposals of the worker are processed: the rows of the actions a turn runs
\* carry the ids of their own executions.  What they observed may call for
\* another pass.
Act(p) ==
  /\ At(p, "act")
  /\ \/ UNCHANGED acted /\ Goto(p, "answer")
     \/ /\ acted' = acted \cup {turn[p]}
        /\ \/ passes[p] < MaxPasses /\ Goto(p, "lease")
           \/ Goto(p, "answer")
  /\ UNCHANGED <<kind, serverVars, rowVars, turnStatus, planVars, episode, messageVars,
                 lease, linked, taskVars, faults>>

\* Mutant: the answer is recorded and never sent.
RecordAnswerUnsent(p) ==
  /\ At(p, "answer")
  /\ messages' = [messages EXCEPT ![turn[p]] = @ \cup {"answer"}]
  /\ Goto(p, "attach")
  /\ UNCHANGED <<kind, serverVars, rowVars, turnStatus, planVars, episode, delivered,
                 attached, lease, actionVars, taskVars, faults>>

RecordAnswer(p) ==
  /\ At(p, "answer")
  /\ messages' = [messages EXCEPT ![turn[p]] = @ \cup {"answer"}]
  /\ Goto(p, "send")
  /\ UNCHANGED <<kind, serverVars, rowVars, turnStatus, planVars, episode, delivered,
                 attached, lease, actionVars, taskVars, faults>>

DeliverAnswer(p) ==
  /\ At(p, "send")
  /\ delivered' = [delivered EXCEPT ![turn[p]] = @ \cup {"answer"}]
  /\ Goto(p, "attach")
  /\ UNCHANGED <<kind, serverVars, rowVars, turnStatus, planVars, episode, messages,
                 attached, lease, actionVars, taskVars, faults>>

\* The candidate proposals of the answer are applied next.
AttachAnswer(p) ==
  /\ At(p, "attach")
  /\ attached' = [attached EXCEPT ![turn[p]] = @ \cup {"answer"}]
  /\ Goto(p, "succeed")
  /\ UNCHANGED <<kind, serverVars, rowVars, turnStatus, planVars, episode, messages,
                 delivered, lease, actionVars, taskVars, faults>>

\* Mutant: the answer is recorded, its rows are closed and then the turn ends.
SucceedLast(p) ==
  /\ At(p, "succeed")
  /\ Goto(p, "completeEpisode")
  /\ UNCHANGED <<kind, serverVars, rowVars, turnStatus, planVars, episode, messageVars,
                 lease, actionVars, taskVars, faults>>

SucceedTurn(p) ==
  /\ At(p, "succeed")
  /\ SetTurn(turn[p], "completed")
  /\ Goto(p, "completeEpisode")
  /\ UNCHANGED <<kind, serverVars, rowVars, planVars, episode, messageVars, lease,
                 actionVars, taskVars, faults>>

CompleteEpisode(p) ==
  /\ At(p, "completeEpisode")
  /\ SetEpisode(turn[p], "completed")
  /\ Goto(p, "close")
  /\ UNCHANGED <<kind, serverVars, rowVars, turnStatus, planVars, messageVars, lease,
                 actionVars, taskVars, faults>>

CloseRows(p) == CloseRow(p, "close", "finish")

FinishTurn(p) ==
  /\ At(p, "finish")
  /\ TurnSucceeds(p)
  /\ UNCHANGED <<kind, serverVars, rowVars, turnStatus, planVars, episode, messageVars,
                 lease, actionVars, taskVars, faults>>

-----------------------------------------------------------------------------
(* A turn that fails: with a notice to the user, or quietly. *)

FailTurn(p) ==
  /\ pc[p] \in {"fail", "failQuietly"}
  /\ SetTurn(turn[p], "failed")
  /\ Goto(p, IF At(p, "fail") THEN "failEpisode" ELSE "failEpisodeQuietly")
  /\ UNCHANGED <<kind, serverVars, rowVars, planVars, episode, messageVars, lease,
                 actionVars, taskVars, faults>>

\* Quiet failures are those before there is a chat to answer in, and those of
\* delivery itself: the rows stay in processing.
FailEpisode(p) ==
  /\ pc[p] \in {"failEpisode", "failEpisodeQuietly"}
  /\ IF episode[turn[p]] = "none" THEN UNCHANGED episode
     ELSE SetEpisode(turn[p], "failed")
  /\ IF At(p, "failEpisode") THEN Goto(p, "notice") ELSE TurnErrs(p)
  /\ UNCHANGED <<kind, serverVars, rowVars, turnStatus, planVars, messageVars, lease,
                 actionVars, taskVars, faults>>

RecordNotice(p) ==
  /\ At(p, "notice")
  /\ messages' = [messages EXCEPT ![turn[p]] = @ \cup {"notice"}]
  /\ Goto(p, "sendNotice")
  /\ UNCHANGED <<kind, serverVars, rowVars, turnStatus, planVars, episode, delivered,
                 attached, lease, actionVars, taskVars, faults>>

\* A failure that could not be recorded is still announced, and its rows stay open.
DeliverNotice(p) ==
  /\ pc[p] \in {"sendNotice", "sendNoticeOnly"}
  /\ delivered' = [delivered EXCEPT ![turn[p]] = @ \cup {"notice"}]
  /\ IF At(p, "sendNotice") THEN Goto(p, "closeFailed") ELSE TurnErrs(p)
  /\ UNCHANGED <<kind, serverVars, rowVars, turnStatus, planVars, episode, messages,
                 attached, lease, actionVars, taskVars, faults>>

CloseFailedRows(p) == CloseRow(p, "closeFailed", "attachNotice")

AttachNotice(p) ==
  /\ At(p, "attachNotice")
  /\ LET e == turn[p]
     IN IF "notice" \in messages[e] \cap delivered[e]
        THEN attached' = [attached EXCEPT ![e] = @ \cup {"notice"}]
        ELSE UNCHANGED attached
  /\ TurnErrs(p)
  /\ UNCHANGED <<kind, serverVars, rowVars, turnStatus, planVars, episode, messages,
                 delivered, lease, actionVars, taskVars, faults>>

-----------------------------------------------------------------------------
(* The answer to an approval request (modules Approvals and GovernedActions   *)
(* have what it does to the request and to the action).                       *)

\* The token is unknown, the request cannot be resolved, or there is no action to
\* tell, or its row takes the id of this execution.
ResolveRequest ==
  /\ At(Telegram, "resolve")
  /\ \E next \in {"failResolution", "sendResolution", "sync"} : Goto(Telegram, next)
  /\ UNCHANGED <<kind, serverVars, rowVars, turnStatus, planVars, episode, messageVars,
                 lease, actionVars, taskVars, faults>>

SyncAction ==
  /\ At(Telegram, "sync")
  /\ linked' = linked \cup {turn[Telegram]}
  /\ \E next \in {"execute", "sendResolution"} : Goto(Telegram, next)
  /\ UNCHANGED <<kind, serverVars, rowVars, turnStatus, planVars, episode, messageVars,
                 lease, acted, taskVars, faults>>

\* An approved action that starts takes the id of its own execution; one that
\* policy blocks at the last moment does not.
ExecuteApproved ==
  /\ At(Telegram, "execute")
  /\ \/ /\ acted' = acted \cup {turn[Telegram]}
        /\ linked' = linked \ {turn[Telegram]}
        /\ \E next \in {"failResolution", "sendExecuted"} : Goto(Telegram, next)
     \/ UNCHANGED actionVars /\ Goto(Telegram, "sendExecuted")
  /\ UNCHANGED <<kind, serverVars, rowVars, turnStatus, planVars, episode, messageVars,
                 lease, taskVars, faults>>

SendResolution ==
  /\ pc[Telegram] \in {"sendResolution", "sendExecuted"}
  /\ delivered' = [delivered EXCEPT ![turn[Telegram]] = @ \cup {"resolution"}]
  /\ Goto(Telegram, IF At(Telegram, "sendExecuted") THEN "openFollowUp"
                    ELSE "completeResolution")
  /\ UNCHANGED <<kind, serverVars, rowVars, turnStatus, planVars, episode, messages,
                 attached, lease, actionVars, taskVars, faults>>

\* The follow-up turn is best effort: whatever fails in it is only recorded.
OpenFollowUp ==
  /\ At(Telegram, "openFollowUp")
  /\ \/ SetEpisode(turn[Telegram], "started") /\ Goto(Telegram, "followUp")
     \/ UNCHANGED episode /\ Goto(Telegram, "completeResolution")
  /\ UNCHANGED <<kind, serverVars, rowVars, turnStatus, planVars, messageVars, lease,
                 actionVars, taskVars, faults>>

FollowUp ==
  /\ At(Telegram, "followUp")
  /\ LET e == turn[Telegram]
     IN \/ /\ SetEpisode(e, "completed")
           /\ messages' = [messages EXCEPT ![e] = @ \cup {"answer"}]
           /\ delivered' = [delivered EXCEPT ![e] = @ \cup {"answer"}]
           /\ attached' = [attached EXCEPT ![e] = @ \cup {"answer"}]
        \/ SetEpisode(e, "failed") /\ UNCHANGED messageVars
  /\ Goto(Telegram, "completeResolution")
  /\ UNCHANGED <<kind, serverVars, rowVars, turnStatus, planVars, lease, actionVars,
                 taskVars, faults>>

EndResolution ==
  /\ pc[Telegram] \in {"completeResolution", "failResolution"}
  /\ SetTurn(turn[Telegram],
             IF At(Telegram, "failResolution") THEN "failed" ELSE "completed")
  /\ Goto(Telegram, "closeResolution")
  /\ UNCHANGED <<kind, serverVars, rowVars, planVars, episode, messageVars, lease,
                 actionVars, taskVars, faults>>

\* Only the row that carried the answer is closed; after a failure the service
\* exits.
CloseResolution ==
  /\ At(Telegram, "closeResolution")
  /\ LET e == turn[Telegram]
     IN /\ SetRow(Primary(e), "processed", e)
        /\ IF turnStatus[e] = "failed" THEN Restart(Telegram) ELSE EndIteration
  /\ UNCHANGED <<kind, serverVars, turnStatus, planVars, episode, messageVars, lease,
                 actionVars, taskVars, faults>>

-----------------------------------------------------------------------------
(* The harness: wake signals and scheduled tasks. *)

\* The row of an approved wake signal is inserted once.
StageWakeSignal ==
  /\ At(Harness, "stageWake")
  /\ \/ \E i \in Rows :
          /\ kind[i] = "wake"
          /\ rowStatus[i] = "absent"
          /\ rowStatus' = [rowStatus EXCEPT ![i] = "pending"]
     \/ UNCHANGED rowStatus
  /\ Goto(Harness, "recoverTasks")
  /\ UNCHANGED <<kind, serverVars, rowTurn, stale, turnStatus, planVars, episode,
                 messageVars, lease, actionVars, taskVars, faults>>

\* Mutant: only runs whose execution has ended are found.
RecoverableEndedTask(t) ==
  current[t] # 0 /\ turnStatus[current[t]] \in {"completed", "failed"}

\* Runs whose execution has ended, or that are older than a turn may take and
\* hold no active lease.
RecoverableTask(t) ==
  /\ current[t] # 0
  /\ \/ turnStatus[current[t]] \in {"completed", "failed"}
     \/ /\ turnStatus[current[t]] = "started"
        /\ t \in old
        /\ lease[current[t]] \notin {"active", "overdue"}

RecoverTask(t) ==
  /\ At(Harness, "recoverTasks")
  /\ RecoverableTask(t)
  /\ task' = t
  /\ Take(Harness, current[t], IF turnStatus[current[t]] = "started" THEN "failStranded"
                               ELSE "recordRecovered")
  /\ UNCHANGED <<kind, serverVars, rowVars, turnStatus, planVars, episode, messageVars,
                 lease, actionVars, serviceVars, passes, taskVars, faults>>

FailStrandedRun ==
  /\ At(Harness, "failStranded")
  /\ SetTurn(turn[Harness], "failed")
  /\ Goto(Harness, "recordRecovered")
  /\ UNCHANGED <<kind, serverVars, rowVars, planVars, episode, messageVars, lease,
                 actionVars, taskVars, faults>>

NothingToRecover ==
  /\ At(Harness, "recoverTasks")
  /\ \A t \in Tasks : ~ RecoverableTask(t)
  /\ Goto(Harness, "claim")
  /\ UNCHANGED <<kind, serverVars, rowVars, turnStatus, planVars, episode, messageVars,
                 lease, actionVars, taskVars, faults>>

Claimable(t) == taskStatus[t] = "active" /\ current[t] = 0 /\ t \in due

\* Mutant: the row of a run is left pending.
ClaimedRowPending(i, e) ==
  /\ rowStatus' = [rowStatus EXCEPT ![i] = "pending"]
  /\ rowTurn' = [rowTurn EXCEPT ![i] = e]
  /\ UNCHANGED stale

ClaimedRow(i, e) == SetRow(i, "processing", e)

\* One transaction: the execution, the run's row if the conversation is bound,
\* and the task.
ClaimDueTask(t) ==
  /\ At(Harness, "claim")
  /\ Claimable(t)
  /\ FreshTurns # {}
  /\ LET e == NextTurn
     IN /\ SetTurn(e, "started")
        /\ current' = [current EXCEPT ![t] = e]
        /\ \/ /\ t \in Unbound
              /\ Take(Harness, e, "suppress")
              /\ UNCHANGED <<rowVars, batch>>
           \/ \E i \in Rows :
                /\ kind[i] = "scheduled"
                /\ rowStatus[i] = "absent"
                /\ ClaimedRow(i, e)
                /\ batch' = [batch EXCEPT ![e] = {i}]
                /\ Take(Harness, e, "episode")
  /\ task' = t
  /\ passes' = [passes EXCEPT ![Harness] = 0]
  /\ UNCHANGED <<kind, serverVars, resumed, episode, messageVars, lease, actionVars,
                 serviceVars, taskStatus, due, old, lastTurn, lastOutcome, faults>>

\* No task is due, or the iteration has run as many as it may.
EndClaims ==
  /\ At(Harness, "claim")
  /\ turn' = [turn EXCEPT ![Harness] = 0]
  /\ task' = 0
  /\ pc' = [pc EXCEPT ![Harness] = "supervise"]
  /\ UNCHANGED <<kind, serverVars, rowVars, turnStatus, planVars, episode, messageVars,
                 lease, actionVars, serviceVars, passes, taskVars, faults>>

SuppressRun ==
  /\ At(Harness, "suppress")
  /\ SetTurn(turn[Harness], "completed")
  /\ Goto(Harness, "suppressTask")
  /\ UNCHANGED <<kind, serverVars, rowVars, planVars, episode, messageVars, lease,
                 actionVars, taskVars, faults>>

\* The outcome of a run is recorded by the run that holds the task, and puts off
\* the next; a one-shot task is done.
RecordOutcome(outcome, next) ==
  /\ current[task] = turn[Harness]
  /\ current' = [current EXCEPT ![task] = 0]
  /\ old' = old \ {task}
  /\ due' = due \ {task}
  /\ taskStatus' = IF task \in OneShot THEN [taskStatus EXCEPT ![task] = "disabled"]
                   ELSE taskStatus
  /\ lastTurn' = [lastTurn EXCEPT ![task] = turn[Harness]]
  /\ lastOutcome' = [lastOutcome EXCEPT ![task] = outcome]
  /\ pc' = [pc EXCEPT ![Harness] = next]
  /\ turn' = [turn EXCEPT ![Harness] = 0]
  /\ task' = 0
  /\ UNCHANGED <<kind, serverVars, rowVars, turnStatus, planVars, episode, messageVars,
                 lease, actionVars, serviceVars, passes, faults>>

CompleteTask == At(Harness, "completeTask") /\ RecordOutcome("completed", "claim")
FailTask == At(Harness, "failTask") /\ RecordOutcome("failed", "claim")
SuppressTask == At(Harness, "suppressTask") /\ RecordOutcome("suppressed", "claim")

\* Mutant: recovery takes every run that ended as completed.
RecordRecoveredAsCompleted ==
  At(Harness, "recordRecovered") /\ RecordOutcome("completed", "recoverTasks")

RecordRecovered ==
  /\ At(Harness, "recordRecovered")
  /\ RecordOutcome(IF turnStatus[turn[Harness]] = "completed" THEN "completed"
                   ELSE "failed", "recoverTasks")

-----------------------------------------------------------------------------
(* Errors and crashes. *)

\* Where an error of a statement takes a turn.
ErrorPath ==
  [point \in TurnPoints \cup FailurePoints \cup ResolutionPoints |->
     CASE point \in {"episode", "send"} -> {"failQuietly"}
       [] point = "context" -> {"failQuietly", "fail"}
       [] point \in TurnPoints \ {"episode", "send", "context"} -> {"fail"}
       [] point \in {"fail", "failEpisode"} -> {"sendNoticeOnly"}
       [] point = "notice" -> {"sendNotice"}
       [] point = "sendNotice" -> {"closeFailed"}
       [] point = "closeFailed" -> {"attachNotice"}
       [] point \in ResolutionPoints \ {"openFollowUp", "followUp", "failResolution",
                                        "closeResolution"} -> {"failResolution"}
       [] OTHER -> {}]

\* A message may reach the user though its request returned an error.
StatementFails(p) ==
  /\ pc[p] \in FaultPoints \cap DOMAIN ErrorPath
  /\ faults < MaxFaults
  /\ faults' = faults + 1
  /\ \E next \in ErrorPath[pc[p]] : Goto(p, next)
  /\ \/ UNCHANGED delivered
     \/ /\ At(p, "send")
        /\ delivered' = [delivered EXCEPT ![turn[p]] = @ \cup {"answer"}]
  /\ UNCHANGED <<kind, serverVars, rowVars, turnStatus, planVars, episode, messages,
                 attached, lease, actionVars, taskVars>>

\* A failure that cannot be recorded ends the turn where it is.
FailureFails(p) ==
  /\ pc[p] \in FaultPoints \cap {"failQuietly", "failEpisodeQuietly", "sendNoticeOnly",
                                 "attachNotice"}
  /\ faults < MaxFaults
  /\ faults' = faults + 1
  /\ TurnErrs(p)
  /\ UNCHANGED <<kind, serverVars, rowVars, turnStatus, planVars, episode, messageVars,
                 lease, actionVars, taskVars>>

Crash(p) ==
  /\ pc[p] \in CrashPoints
  /\ faults < MaxFaults
  /\ faults' = faults + 1
  /\ Restart(p)
  /\ UNCHANGED <<kind, serverVars, rowVars, turnStatus, planVars, episode, messageVars,
                 lease, actionVars, taskVars>>

-----------------------------------------------------------------------------
TurnStep(p) ==
  \/ OpenEpisode(p) \/ AssembleContext(p) \/ AcquireLease(p) \/ Work(p)
  \/ CheckLease(p) \/ Act(p) \/ RecordAnswer(p) \/ DeliverAnswer(p) \/ AttachAnswer(p)
  \/ SucceedTurn(p) \/ CompleteEpisode(p) \/ CloseRows(p) \/ FinishTurn(p)
  \/ FailTurn(p) \/ FailEpisode(p) \/ RecordNotice(p) \/ DeliverNotice(p)
  \/ CloseFailedRows(p) \/ AttachNotice(p)

ResolutionStep ==
  \/ ResolveRequest \/ SyncAction \/ ExecuteApproved \/ SendResolution
  \/ OpenFollowUp \/ FollowUp \/ EndResolution \/ CloseResolution

TelegramStep ==
  \/ FetchUpdates \/ SkipUpdate \/ StageMessage \/ StartCallback \/ ScanConversation
  \/ BeginExecution \/ PlanTurn \/ PlanNothing \/ RefuseMalformed \/ RecoverRestart
  \/ BlockRecovery \/ CloseBlockedRows \/ SendBlocked \/ ResolutionStep

HarnessStep ==
  \/ StageWakeSignal \/ FailStrandedRun \/ NothingToRecover \/ EndClaims
  \/ SuppressRun \/ CompleteTask \/ FailTask \/ SuppressTask \/ RecordRecovered
  \/ \E t \in Tasks : RecoverTask(t) \/ ClaimDueTask(t)

ProcessStep(p) ==
  \/ SuperviseLeases(p) \/ TurnStep(p)
  \/ p = Telegram /\ TelegramStep
  \/ p = Harness /\ HarnessStep

TimePasses ==
  \/ \E i \in Rows : Post(i) \/ RowGoesStale(i)
  \/ \E e \in Turns : LeaseFallsDue(e)
  \/ \E t \in Tasks : RunGetsOld(t) \/ TaskFallsDue(t) \/ UpdateTask(t)

Faults == \E p \in Processes : StatementFails(p) \/ FailureFails(p) \/ Crash(p)

Next == (\E p \in Processes : ProcessStep(p)) \/ TimePasses \/ Faults

Spec == Init /\ [][Next]_vars

-----------------------------------------------------------------------------
(* What must never happen. *)

\* An update is forgotten by the Telegram server only when its row is stored: the
\* offset of the next fetch confirms what the last iteration handled, and a
\* restart asks without one.
ConfirmedAreStored ==
  \A i \in Rows :
    /\ kind[i] \in UpdateKinds \ {"ignored"}
    /\ i < confirmed
    => rowStatus[i] # "absent"

\* A row is closed after the execution that closed it has ended, whichever way
\* the turn went.
ClosedMeansEnded ==
  \A i \in Rows :
    rowStatus[i] = "processed" =>
      /\ rowTurn[i] # 0
      /\ turnStatus[rowTurn[i]] \in {"completed", "failed"}

\* An execution is completed only when its answer is in the episode, was sent and
\* carries the id of the message; or it told the user how a request was resolved;
\* or it suppressed a run that had no conversation.
CompletedMeansTold ==
  \A e \in Turns :
    turnStatus[e] = "completed" =>
      \/ "answer" \in messages[e] \cap delivered[e] \cap attached[e]
      \/ "resolution" \in delivered[e]
      \/ batch[e] = {}

\* The two services never work on one row at a time.
OneTurnPerRow ==
  \A i \in Rows : ~ (Handles(Telegram, i) /\ Handles(Harness, i))

\* What a task says of its last run is what became of it: completed only if the
\* user was answered (or there was no conversation to answer in, when a crash hid
\* that the run was suppressed), suppressed only if nothing was sent.
OutcomeMatchesRun ==
  \A t \in Tasks :
    /\ lastOutcome[t] = "completed" =>
         /\ turnStatus[lastTurn[t]] = "completed"
         /\ batch[lastTurn[t]] = {} \/ "answer" \in delivered[lastTurn[t]]
    /\ lastOutcome[t] = "suppressed" =>
         /\ turnStatus[lastTurn[t]] = "completed"
         /\ delivered[lastTurn[t]] = {}

-----------------------------------------------------------------------------
(* The rows implement the abstract inbox. *)

Nobody == "nobody"

HandlerOf(i) ==
  IF rowStatus[i] = "processing" /\ \E p \in Processes : Handles(p, i)
  THEN CHOOSE p \in Processes : Handles(p, i)
  ELSE Nobody

Rows2Inbox(i) ==
  CASE rowStatus[i] = "absent" -> "absent"
    [] rowStatus[i] = "rejected" -> "refused"
    [] rowStatus[i] = "processed" -> "closed"
    [] OTHER -> "open"

Abstract == INSTANCE Inbox WITH
  Handlers <- Processes,
  state <- [i \in Rows |-> Rows2Inbox(i)],
  handler <- [i \in Rows |-> HandlerOf(i)]

\* Crashes, errors and late answers included, a row is stored once, dealt with by
\* one process at a time, closed by that process and never opened again.
ImplementsInbox == Abstract!Spec

-----------------------------------------------------------------------------
(* What must happen.  Both services run for ever and are started again when   *)
(* they exit; time passes; errors and crashes are bounded.  Nothing obliges   *)
(* the user to write or a task to fall due.                                   *)

Fairness ==
  /\ \A p \in Processes : WF_vars(ProcessStep(p))
  /\ \A i \in Rows : WF_vars(RowGoesStale(i))
  /\ \A e \in Turns : WF_vars(LeaseFallsDue(e))
  /\ \A t \in Tasks : WF_vars(RunGetsOld(t))

FairSpec == Spec /\ Fairness

\* Every message the service could store is closed, past the errors and crashes
\* on its way: a row left in processing goes stale and is planned again.
MessagesAreClosed ==
  \A i \in Rows :
    i \in posted /\ kind[i] \in {"text", "callback", "command"}
      ~> rowStatus[i] = "processed"

\* A run a task was claimed for comes to an end and frees the task.
RunsEnd == \A t \in Tasks : current[t] # 0 ~> current[t] = 0

-----------------------------------------------------------------------------
(* What the documents say and the code does not do. *)

\* REQUIREMENTS.md 374: recovery does not replay a turn whose interrupted
\* execution ran actions that must not be repeated.
NoBlindReplay ==
  \A e \in Turns :
    resumed[e] # 0 /\ resumed[e] \in acted => episode[e] = "none"
=============================================================================
