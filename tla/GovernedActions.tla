--------------------------- MODULE GovernedActions ---------------------------
(***************************************************************************)
(* Governed actions: what a model proposes in a foreground turn, the       *)
(* approval it may need, its execution under a worker lease and its        *)
(* recovery.  The tables are governed_action_executions (with the          *)
(* execution record, the script run and the lease of each action) and      *)
(* approval_requests (module Approvals).                                   *)
(*                                                                         *)
(* A turn plans actions, runs those that need nobody's consent and routes  *)
(* the others for approval.  A chat (Telegram) or an admin (the CLI)       *)
(* answers requests and runs what it approves.  A supervisor expires       *)
(* leases and reconciles the actions they covered.  Every statement that   *)
(* commits on its own is an action of its own; a statement may fail, which *)
(* ends what its process is doing as a crash does.                         *)
(***************************************************************************)
EXTENDS Approvals, RecoveryDecision

CONSTANTS
  Actions,             \* bound: rows, numbered in the order of created_at
  KindOf,              \* action kind behind each fingerprint
  NeedsApproval,       \* fingerprints of a risk tier that asks for approval
  Chats, Admins, Supervisors,
  MaxActions,          \* max_actions_per_foreground_turn
  CapBehavior,         \* cap_exceeded_behavior
  ErrorKinds,          \* kinds whose execution may return an error
  LeaseOutlivesWork,   \* no lease expires while a process is at its action
  CrashPoints,         \* statements a process may fail to execute
  MaxCrashes           \* bound: crashes in a behaviour

Resolvers == Chats \cup Admins
Executors == Turns \cup Resolvers
Processes == Executors \cup Supervisors

Kinds == {"run_subprocess", "run_workspace_script", "web_fetch",
          "read_workspace", "write_workspace"}

RoutePoints == {"deny", "escalate", "lookup", "count", "create", "attach", "prompt"}
ResolvePoints == {"find", "sync"}
WorkPoints == {"recheck", "start", "lease", "recordRun", "startRun", "work",
               "finishExecution", "finishRun", "finishAction"}
LeasePoints == {"checkLease", "release", "releaseAfterError", "terminate"}
RecoveryPoints == {"loadContext", "recoverRun", "recoverAction"}
ExecutePoints == WorkPoints \cup LeasePoints \cup RecoveryPoints
TurnPoints == {"propose", "ended"} \cup RoutePoints \cup ExecutePoints
ResolverPoints == {"idle"} \cup ResolvePoints \cup ExecutePoints
SupervisorPoints == {"idle", "expired"} \cup RecoveryPoints
ProgramPoints == TurnPoints \cup ResolverPoints \cup SupervisorPoints

ASSUME GovernedActionsAssumption ==
  /\ Actions \subseteq Nat
  /\ None \notin Actions
  /\ KindOf \in [Fingerprints -> Kinds]
  /\ NeedsApproval \subseteq Fingerprints
  /\ Turns \cap (Resolvers \cup Supervisors) = {}
  /\ Chats \cap (Admins \cup Supervisors) = {}
  /\ Admins \cap Supervisors = {}
  /\ "none" \notin Turns /\ "own" \notin Turns /\ "callback" \notin Turns
  /\ MaxActions \in Nat
  /\ CapBehavior \in {"escalate", "always_approve", "always_deny"}
  /\ ErrorKinds \subseteq Kinds
  /\ LeaseOutlivesWork \in BOOLEAN
  /\ CrashPoints \subseteq ProgramPoints
  /\ MaxCrashes \in Nat

VARIABLES
  actionStatus,
  proposal,        \* fingerprint of each row
  requestOf,       \* approval_request_id
  started, completed,   \* rows whose started_at, completed_at is set
  link,            \* execution_id: its own record, a turn's or a callback's
  execStatus,      \* status of the action's own execution record
  runStatus,       \* its workspace script run
  leaseStatus, overdue,
  effects,         \* bound 2: how often the backend did what the action says
  pc, cur, req,    \* next statement, and the action and request it is about
  seen,            \* the status the process believes in and is about to write
  outcome,         \* what the backend returned, or the run status to recover
  executed,        \* actions a turn has counted against its cap
  todo,            \* leases an expiry returned and recovery has yet to handle
  prompted,        \* requests a chat has the token of
  crashes

rowVars == <<proposal, requestOf, link>>
statusVars == <<actionStatus, started, completed>>
recordVars == <<execStatus, runStatus, effects>>
leaseVars == <<leaseStatus, overdue>>
procVars == <<pc, cur, req, seen, outcome, executed, todo>>
others == <<prompted, crashes>>
vars == <<approvalVars, rowVars, statusVars, recordVars, leaseVars, procVars, others>>

ActionStatuses == {"absent", "proposed", "awaiting_approval", "approved", "rejected",
                   "expired", "invalidated", "blocked", "executed", "failed"}
Outcomes == {"none", "completed", "failed", "timed_out", "blocked"}
ExecStatuses == {"none", "started", "completed", "failed", "blocked"}
ScriptRunStatuses == {"none", "pending", "running", "completed", "failed",
                      "timed_out", "blocked"}
RunEnded == {"completed", "failed", "timed_out", "blocked"}

TablesTypeOK ==
  /\ ApprovalsTypeOK
  /\ actionStatus \in [Actions -> ActionStatuses]
  /\ proposal \in [Actions -> Fingerprints \cup {None}]
  /\ \A a \in Actions : proposal[a] = None <=> actionStatus[a] = "absent"
  /\ requestOf \in [Actions -> Requests \cup {None}]
  /\ started \subseteq Actions
  /\ completed \subseteq started
  /\ link \in [Actions -> {"none", "own", "callback"} \cup Turns]
  /\ execStatus \in [Actions -> ExecStatuses]
  /\ runStatus \in [Actions -> ScriptRunStatuses]
  /\ leaseStatus \in [Actions -> {"none", "active", "released", "expired", "terminated"}]
  /\ overdue \subseteq {a \in Actions : leaseStatus[a] = "active"}
  /\ effects \in [Actions -> 0 .. 2]
  /\ prompted \subseteq {r \in Requests : requestStatus[r] # "none"}
  /\ crashes \in 0 .. MaxCrashes

\* Statements about one action, and statements about one request.
ActionPoints == {"sync"} \cup RoutePoints \cup ExecutePoints
RequestPoints == {"attach", "prompt", "find", "sync"}

ProcessesTypeOK ==
  /\ pc \in [Processes -> ProgramPoints]
  /\ \A p \in Turns : pc[p] \in TurnPoints
  /\ \A p \in Resolvers : pc[p] \in ResolverPoints
  /\ \A p \in Supervisors : pc[p] \in SupervisorPoints
  /\ cur \in [Processes -> Actions \cup {None}]
  /\ req \in [Processes -> Requests \cup {None}]
  /\ \A p \in Processes : /\ pc[p] \in ActionPoints => cur[p] # None
                          /\ pc[p] \in RequestPoints => req[p] # None
  /\ seen \in [Processes -> ActionStatuses]
  /\ outcome \in [Processes -> Outcomes]
  /\ executed \in [Processes -> Nat]
  /\ todo \in [Processes -> SUBSET Actions]

TypeOK == TablesTypeOK /\ ProcessesTypeOK

\* The turn that follows an approved action has one action on its count.
Init ==
  /\ ApprovalsInit
  /\ actionStatus = [a \in Actions |-> "absent"]
  /\ proposal = [a \in Actions |-> None]
  /\ requestOf = [a \in Actions |-> None]
  /\ started = {}
  /\ completed = {}
  /\ link = [a \in Actions |-> "none"]
  /\ execStatus = [a \in Actions |-> "none"]
  /\ runStatus = [a \in Actions |-> "none"]
  /\ leaseStatus = [a \in Actions |-> "none"]
  /\ overdue = {}
  /\ effects = [a \in Actions |-> 0]
  /\ pc = [p \in Processes |-> IF p \in Turns THEN "propose" ELSE "idle"]
  /\ cur = [p \in Processes |-> None]
  /\ req = [p \in Processes |-> None]
  /\ seen = [p \in Processes |-> "absent"]
  /\ outcome = [p \in Processes |-> "none"]
  /\ \E count \in [Turns -> {0, 1}] :
       executed = [p \in Processes |-> IF p \in Turns THEN count[p] ELSE 0]
  /\ todo = [p \in Processes |-> {}]
  /\ prompted = {}
  /\ crashes = 0

-----------------------------------------------------------------------------
(* Steps of a process. *)

At(p, point) == pc[p] = point

Goto(p, point) ==
  /\ pc' = [pc EXCEPT ![p] = point]
  /\ UNCHANGED <<cur, req, seen, outcome, executed, todo>>

\* What a process forgets when it is done with an action or a request.
Forget(p) ==
  /\ cur' = [cur EXCEPT ![p] = None]
  /\ req' = [req EXCEPT ![p] = None]
  /\ seen' = [seen EXCEPT ![p] = "absent"]
  /\ outcome' = [outcome EXCEPT ![p] = "none"]

\* The procedure returns, with an error or without: a turn is over, any other
\* process waits for the next thing to do.
Leave(p) ==
  /\ pc' = [pc EXCEPT ![p] = IF p \in Turns THEN "ended" ELSE "idle"]
  /\ Forget(p)
  /\ todo' = [todo EXCEPT ![p] = {}]
  /\ UNCHANGED executed

\* execute_governed_action returns its result: a turn counts it unless it was
\* blocked and goes on.
AfterExecution(p, status) ==
  IF p \in Turns
  THEN /\ pc' = [pc EXCEPT ![p] = "propose"]
       /\ executed' = [executed EXCEPT ![p] = IF status = "blocked" THEN @ ELSE @ + 1]
       /\ Forget(p)
       /\ UNCHANGED todo
  ELSE Leave(p)

SetAction(p, status) == actionStatus' = [actionStatus EXCEPT ![cur[p]] = status]
SetExecution(p, status) == execStatus' = [execStatus EXCEPT ![cur[p]] = status]
SetRun(p, status) == runStatus' = [runStatus EXCEPT ![cur[p]] = status]

SetLease(p, status) ==
  /\ leaseStatus' = [leaseStatus EXCEPT ![cur[p]] = status]
  /\ overdue' = overdue \ {cur[p]}

Kind(a) == KindOf[proposal[a]]

\* A write of update_governed_action_execution that leaves completed_at empty.
MarkUnfinished(p, status) ==
  /\ SetAction(p, status)
  /\ completed' = completed \ {cur[p]}

-----------------------------------------------------------------------------
(* A turn plans what the model proposes. *)

AtCap(p) == executed[p] >= MaxActions

\* Mutant: the cap is looked at after the action it should have stopped.
AfterPlanningIgnoringCap(p, f) == IF f \in NeedsApproval THEN "lookup" ELSE "recheck"

AfterPlanning(p, f) ==
  IF AtCap(p) /\ CapBehavior = "always_deny" THEN "deny"
  ELSE IF f \in NeedsApproval THEN "lookup"
  ELSE IF AtCap(p) /\ CapBehavior = "escalate" THEN "escalate"
  ELSE "recheck"

InsertAction(a, f, status) ==
  /\ actionStatus[a] = "absent"
  /\ \A b \in Actions : actionStatus[b] = "absent" => a <= b
  /\ actionStatus' = [actionStatus EXCEPT ![a] = status]
  /\ proposal' = [proposal EXCEPT ![a] = f]

\* Policy refuses the action: it is recorded and the turn goes on.
PlanBlocked(p) ==
  /\ At(p, "propose")
  /\ \E a \in Actions, f \in Fingerprints : InsertAction(a, f, "blocked")
  /\ UNCHANGED <<approvalVars, requestOf, link, started, completed, recordVars,
                 leaseVars, procVars, others>>

PlannedStatus(f) == IF f \in NeedsApproval THEN "awaiting_approval" ELSE "proposed"

PlanAction(p) ==
  /\ At(p, "propose")
  /\ \E a \in Actions, f \in Fingerprints :
       /\ InsertAction(a, f, PlannedStatus(f))
       /\ pc' = [pc EXCEPT ![p] = AfterPlanning(p, f)]
       /\ cur' = [cur EXCEPT ![p] = a]
       /\ seen' = [seen EXCEPT ![p] = PlannedStatus(f)]
  /\ UNCHANGED <<approvalVars, requestOf, link, started, completed, recordVars,
                 leaseVars, req, outcome, executed, todo, others>>

\* The model has nothing more to propose, or may not.
FinishTurn(p) ==
  /\ At(p, "propose")
  /\ Leave(p)
  /\ UNCHANGED <<approvalVars, rowVars, statusVars, recordVars, leaseVars, others>>

DenyAtCap(p) ==
  /\ At(p, "deny")
  /\ MarkUnfinished(p, "blocked")
  /\ pc' = [pc EXCEPT ![p] = "propose"]
  /\ Forget(p)
  /\ UNCHANGED <<approvalVars, rowVars, started, recordVars, leaseVars, executed, todo,
                 others>>

EscalateAtCap(p) ==
  /\ At(p, "escalate")
  /\ MarkUnfinished(p, "awaiting_approval")
  /\ Goto(p, "lookup")
  /\ UNCHANGED <<approvalVars, rowVars, started, recordVars, leaseVars, others>>

-----------------------------------------------------------------------------
(* Routing for approval. *)

\* A pending request about the same fingerprint is asked once for both actions.
LookUpRequest(p) ==
  /\ At(p, "lookup")
  /\ LET found == PendingFor(proposal[cur[p]]) IN
       IF found = {} THEN Goto(p, "count")
       ELSE \E r \in found :
              /\ pc' = [pc EXCEPT ![p] = "attach"]
              /\ req' = [req EXCEPT ![p] = r]
              /\ UNCHANGED <<cur, seen, outcome, executed, todo>>
  /\ UNCHANGED <<approvalVars, rowVars, statusVars, recordVars, leaseVars, others>>

\* The count and the insert below are separate: two turns may both pass.
CountPending(p) ==
  /\ At(p, "count")
  /\ IF PendingLimitReached THEN Leave(p) ELSE Goto(p, "create")
  /\ UNCHANGED <<approvalVars, rowVars, statusVars, recordVars, leaseVars, others>>

CreateRequest(p) ==
  /\ At(p, "create")
  /\ \E r \in Requests :
       /\ InsertRequest(r, proposal[cur[p]], p)
       /\ req' = [req EXCEPT ![p] = r]
  /\ pc' = [pc EXCEPT ![p] = "attach"]
  /\ UNCHANGED <<rowVars, statusVars, recordVars, leaseVars, cur, seen, outcome, executed,
                 todo, others>>

\* Another turn asked about the fingerprint first (or the bound is reached).
CreateRefused(p) ==
  /\ At(p, "create")
  /\ \/ PendingFor(proposal[cur[p]]) # {}
     \/ \A r \in Requests : requestStatus[r] # "none"
  /\ Leave(p)
  /\ UNCHANGED <<approvalVars, rowVars, statusVars, recordVars, leaseVars, others>>

\* Mutant: the row is left without its request.
AttachNothing(p) ==
  /\ At(p, "attach")
  /\ Goto(p, "prompt")
  /\ UNCHANGED <<approvalVars, rowVars, statusVars, recordVars, leaseVars, others>>

AttachRequest(p) ==
  /\ At(p, "attach")
  /\ requestOf' = [requestOf EXCEPT ![cur[p]] = req[p]]
  /\ Goto(p, "prompt")
  /\ UNCHANGED <<approvalVars, proposal, link, statusVars, recordVars, leaseVars, others>>

\* The person is asked; a message that is not known to be delivered ends the turn.
PromptForApproval(p) ==
  /\ At(p, "prompt")
  /\ \/ /\ pc' = [pc EXCEPT ![p] = "propose"]
        /\ Forget(p)
        /\ prompted' = prompted \cup {req[p]}
        /\ UNCHANGED <<executed, todo>>
     \/ /\ Leave(p)
        /\ prompted' \in {prompted, prompted \cup {req[p]}}
  /\ UNCHANGED <<approvalVars, rowVars, statusVars, recordVars, leaseVars, crashes>>

-----------------------------------------------------------------------------
(* A person answers. *)

\* A chat answers what it was asked: its callback has the request's token, a time
\* of receipt and maybe a fingerprint.  An operator answers any request there is.
AnswerRequest(p) ==
  /\ p \in Resolvers
  /\ At(p, "idle")
  /\ \E r \in Requests :
       /\ p \in Chats => r \in prompted
       /\ \E answer \in Answers(r, p \in Chats, p \in Chats) :
            /\ ResolveRequest(r, answer)
            /\ req' = [req EXCEPT ![p] = r]
            /\ seen' = [seen EXCEPT ![p] = answer]
  /\ pc' = [pc EXCEPT ![p] = "find"]
  /\ UNCHANGED <<rowVars, statusVars, recordVars, leaseVars, cur, outcome, executed, todo,
                 others>>

AttachedTo(r) == {a \in Actions : requestOf[a] = r}

\* The newest action of the request, and no other.
FindAction(p) ==
  /\ At(p, "find")
  /\ IF AttachedTo(req[p]) = {} THEN Leave(p)
     ELSE \E a \in AttachedTo(req[p]) :
            /\ \A b \in AttachedTo(req[p]) : b <= a
            /\ cur' = [cur EXCEPT ![p] = a]
            /\ pc' = [pc EXCEPT ![p] = "sync"]
            /\ UNCHANGED <<req, seen, outcome, executed, todo>>
  /\ UNCHANGED <<approvalVars, rowVars, statusVars, recordVars, leaseVars, others>>

\* A chat writes the execution of its callback, the CLI that of the turn that
\* asked; execution_id is unique among the rows.
ResolutionLink(p) == IF p \in Chats THEN "callback" ELSE requestTurn[req[p]]

LinkTaken(p) ==
  /\ p \in Admins
  /\ \E b \in Actions \ {cur[p]} : link[b] = ResolutionLink(p)

\* Mutant: whatever the answer, the action runs.
SyncActionThenRun(p) ==
  /\ At(p, "sync")
  /\ ~LinkTaken(p)
  /\ MarkUnfinished(p, seen[p])
  /\ link' = [link EXCEPT ![cur[p]] = ResolutionLink(p)]
  /\ Goto(p, "recheck")
  /\ UNCHANGED <<approvalVars, proposal, requestOf, started, recordVars, leaseVars, others>>

SyncAction(p) ==
  /\ At(p, "sync")
  /\ ~LinkTaken(p)
  /\ MarkUnfinished(p, seen[p])
  /\ link' = [link EXCEPT ![cur[p]] = ResolutionLink(p)]
  /\ IF seen[p] = "approved" THEN Goto(p, "recheck") ELSE Leave(p)
  /\ UNCHANGED <<approvalVars, proposal, requestOf, started, recordVars, leaseVars, others>>

SyncRefused(p) ==
  /\ At(p, "sync")
  /\ LinkTaken(p)
  /\ Leave(p)
  /\ UNCHANGED <<approvalVars, rowVars, statusVars, recordVars, leaseVars, others>>

-----------------------------------------------------------------------------
(* Execution. *)

\* Policy is checked again.  A refusal is recorded at once, then once more by
\* the recovery it is handed to, which abandons it with the same status.
RecheckFails(p) ==
  /\ At(p, "recheck")
  /\ SetAction(p, "blocked")
  /\ started' = started \cup {cur[p]}
  /\ completed' = completed \cup {cur[p]}
  /\ AfterExecution(p, "blocked")
  /\ UNCHANGED <<approvalVars, rowVars, recordVars, leaseVars, others>>

InsertExecution(p) ==
  /\ At(p, "recheck")
  /\ SetExecution(p, "started")
  /\ Goto(p, "start")
  /\ UNCHANGED <<approvalVars, rowVars, statusVars, runStatus, effects, leaseVars, others>>

\* The status written is the one the process read before.
StartAction(p) ==
  /\ At(p, "start")
  /\ MarkUnfinished(p, seen[p])
  /\ started' = started \cup {cur[p]}
  /\ link' = [link EXCEPT ![cur[p]] = "own"]
  /\ Goto(p, "lease")
  /\ UNCHANGED <<approvalVars, proposal, requestOf, recordVars, leaseVars, others>>

AcquireLease(p) ==
  /\ At(p, "lease")
  /\ SetLease(p, "active")
  /\ Goto(p, IF Kind(cur[p]) = "run_workspace_script" THEN "recordRun" ELSE "work")
  /\ UNCHANGED <<approvalVars, rowVars, statusVars, recordVars, others>>

RecordRun(p) ==
  /\ At(p, "recordRun")
  /\ SetRun(p, "pending")
  /\ Goto(p, "startRun")
  /\ UNCHANGED <<approvalVars, rowVars, statusVars, execStatus, effects, leaseVars, others>>

StartRun(p) ==
  /\ At(p, "startRun")
  /\ SetRun(p, "running")
  /\ Goto(p, "work")
  /\ UNCHANGED <<approvalVars, rowVars, statusVars, execStatus, effects, leaseVars, others>>

OutcomesOf(kind) ==
  CASE kind \in {"run_subprocess", "run_workspace_script"} ->
         {"completed", "failed", "timed_out", "blocked"}
    [] kind = "web_fetch" -> {"completed", "failed", "timed_out"}
    [] OTHER -> {"completed"}

\* Bound: effects are counted up to two.
CountEffect(p, happened) ==
  effects' = [effects EXCEPT ![cur[p]] = IF happened /\ @ < 2 THEN @ + 1 ELSE @]

\* The backend refuses the action before it runs, or runs it.
Work(p) ==
  /\ At(p, "work")
  /\ \E o \in OutcomesOf(Kind(cur[p])) :
       /\ outcome' = [outcome EXCEPT ![p] = o]
       /\ CountEffect(p, o # "blocked")
  /\ pc' = [pc EXCEPT ![p] = "finishExecution"]
  /\ UNCHANGED <<approvalVars, rowVars, statusVars, execStatus, runStatus, leaseVars, cur, req,
                 seen, executed, todo, others>>

\* An error that is not an outcome: a missing script or artifact, a conflict, a
\* page that cannot be formatted.  Nothing but the lease is tidied up.
WorkErrors(p) ==
  /\ \/ At(p, "recordRun")
     \/ At(p, "work") /\ Kind(cur[p]) \notin {"run_subprocess", "run_workspace_script"}
  /\ Kind(cur[p]) \in ErrorKinds
  /\ CountEffect(p, Kind(cur[p]) = "web_fetch")
  /\ Goto(p, "releaseAfterError")
  /\ UNCHANGED <<approvalVars, rowVars, statusVars, execStatus, runStatus, leaseVars, others>>

\* Mutant: the row is finished before its execution record.
FinishExecutionLast(p) ==
  /\ At(p, "finishExecution")
  /\ Goto(p, IF Kind(cur[p]) = "run_workspace_script" THEN "finishRun" ELSE "finishAction")
  /\ UNCHANGED <<approvalVars, rowVars, statusVars, recordVars, leaseVars, others>>

FinishExecution(p) ==
  /\ At(p, "finishExecution")
  /\ SetExecution(p, IF outcome[p] = "timed_out" THEN "failed" ELSE outcome[p])
  /\ Goto(p, IF Kind(cur[p]) = "run_workspace_script" THEN "finishRun" ELSE "finishAction")
  /\ UNCHANGED <<approvalVars, rowVars, statusVars, runStatus, effects, leaseVars, others>>

FinishRun(p) ==
  /\ At(p, "finishRun")
  /\ SetRun(p, outcome[p])
  /\ Goto(p, "finishAction")
  /\ UNCHANGED <<approvalVars, rowVars, statusVars, execStatus, effects, leaseVars, others>>

FinalStatus(o) ==
  CASE o = "completed" -> "executed" [] o = "blocked" -> "blocked" [] OTHER -> "failed"

FinishAction(p) ==
  /\ At(p, "finishAction")
  /\ SetAction(p, FinalStatus(outcome[p]))
  /\ completed' = completed \cup {cur[p]}
  /\ Goto(p, IF outcome[p] = "timed_out" THEN "terminate" ELSE "checkLease")
  /\ UNCHANGED <<approvalVars, rowVars, started, recordVars, leaseVars, others>>

-----------------------------------------------------------------------------
(* The end of a lease. *)

ReleaseIfActive(p) ==
  IF leaseStatus[cur[p]] = "active" THEN SetLease(p, "released")
                                    ELSE UNCHANGED leaseVars

CheckLease(p) ==
  /\ At(p, "checkLease")
  /\ leaseStatus[cur[p]] = "active"
  /\ Goto(p, "release")
  /\ UNCHANGED <<approvalVars, rowVars, statusVars, recordVars, leaseVars, others>>

\* The refresh fails; the release that follows finds nothing to release, and a
\* finished action is reported to the turn as an error.
LeaseLost(p) ==
  /\ pc[p] \in {"checkLease", "terminate"}
  /\ leaseStatus[cur[p]] # "active"
  /\ Leave(p)
  /\ UNCHANGED <<approvalVars, rowVars, statusVars, recordVars, leaseVars, others>>

ReleaseLease(p) ==
  /\ At(p, "release")
  /\ ReleaseIfActive(p)
  /\ AfterExecution(p, FinalStatus(outcome[p]))
  /\ UNCHANGED <<approvalVars, rowVars, statusVars, recordVars, others>>

ReleaseAfterError(p) ==
  /\ At(p, "releaseAfterError")
  /\ ReleaseIfActive(p)
  /\ Leave(p)
  /\ UNCHANGED <<approvalVars, rowVars, statusVars, recordVars, others>>

\* The backend timed out: the executor takes its own lease and recovers.
TerminateLease(p) ==
  /\ At(p, "terminate")
  /\ leaseStatus[cur[p]] = "active"
  /\ SetLease(p, "terminated")
  /\ Goto(p, "loadContext")
  /\ UNCHANGED <<approvalVars, rowVars, statusVars, recordVars, others>>

LeaseTimePasses(a) ==
  /\ leaseStatus[a] = "active"
  /\ a \notin overdue
  /\ LeaseOutlivesWork => \A p \in Executors : cur[p] # a
  /\ overdue' = overdue \cup {a}
  /\ UNCHANGED <<approvalVars, rowVars, statusVars, recordVars, leaseStatus, procVars, others>>

\* Mutant: the leases that were expired are not handed on.
ExpireDueLeasesOnly(p) ==
  /\ p \in Supervisors
  /\ At(p, "idle")
  /\ overdue # {}
  /\ leaseStatus' =
       [a \in Actions |-> IF a \in overdue THEN "expired" ELSE leaseStatus[a]]
  /\ overdue' = {}
  /\ UNCHANGED <<approvalVars, rowVars, statusVars, recordVars, procVars, others>>

ExpireDueLeases(p) ==
  /\ p \in Supervisors
  /\ At(p, "idle")
  /\ overdue # {}
  /\ leaseStatus' =
       [a \in Actions |-> IF a \in overdue THEN "expired" ELSE leaseStatus[a]]
  /\ overdue' = {}
  /\ todo' = [todo EXCEPT ![p] = overdue]
  /\ pc' = [pc EXCEPT ![p] = "expired"]
  /\ UNCHANGED <<approvalVars, rowVars, statusVars, recordVars, cur, req, seen, outcome,
                 executed, others>>

TakeExpiredLease(p) ==
  /\ At(p, "expired")
  /\ \E a \in todo[p] :
       /\ cur' = [cur EXCEPT ![p] = a]
       /\ todo' = [todo EXCEPT ![p] = @ \ {a}]
  /\ pc' = [pc EXCEPT ![p] = "loadContext"]
  /\ UNCHANGED <<approvalVars, rowVars, statusVars, recordVars, leaseVars, req, seen, outcome,
                 executed, others>>

FinishSupervision(p) ==
  /\ At(p, "expired")
  /\ todo[p] = {}
  /\ Leave(p)
  /\ UNCHANGED <<approvalVars, rowVars, statusVars, recordVars, leaseVars, others>>

-----------------------------------------------------------------------------
(* Recovery of an action whose lease expired or whose backend timed out. *)

Classification(kind) ==
  IF kind = "read_workspace" THEN "safe_replay" ELSE "ambiguous_or_nonrepeatable"

Subprocesses == {"run_subprocess", "run_workspace_script"}

HasTerminalEvidence(a) ==
  \/ a \in completed
  \/ link[a] = "own" /\ execStatus[a] \in {"completed", "failed", "blocked"}
  \/ runStatus[a] \in RunEnded

\* Mutant: that the action started is asked before whether it ended.
EvidenceOfStartFirst(a) ==
  IF a \notin started THEN "not_started"
  ELSE IF Kind(a) \in Subprocesses THEN "ambiguous"
  ELSE IF HasTerminalEvidence(a) THEN "durable_completed"
  ELSE "durable_incomplete"

Evidence(a) ==
  IF HasTerminalEvidence(a) THEN "durable_completed"
  ELSE IF a \notin started THEN "not_started"
  ELSE IF Kind(a) \in Subprocesses THEN "ambiguous"
  ELSE "durable_incomplete"

\* An approval is for one run: it does not cover a replay of an action that may
\* have done its work.
ApprovalState(a) ==
  IF requestOf[a] = None THEN "not_required"
  ELSE LET status == requestStatus[requestOf[a]] IN
         IF status # "approved" THEN status
         ELSE IF /\ Classification(Kind(a)) = "ambiguous_or_nonrepeatable"
                 /\ Evidence(a) # "durable_completed"
              THEN "missing_required"
              ELSE "approved_fresh"

DecisionAbout(a) ==
  ClassifyRecoveryDecision(
    [kind |-> "governed_action", reason |-> "timeout_or_stall",
     action |-> Classification(Kind(a)), evidence |-> Evidence(a),
     approval |-> ApprovalState(a), policy |-> "valid", budget |-> 1,
     clarification |-> /\ Classification(Kind(a)) = "ambiguous_or_nonrepeatable"
                       /\ ApprovalState(a) = "not_required"])

\* The status a proof of completion stands for: the execution record speaks
\* first, then the script run, then the row.  "absent": none of them tells.
TerminalStatus(a) ==
  IF link[a] = "own" /\ execStatus[a] \in {"completed", "failed", "blocked"}
  THEN FinalStatus(execStatus[a])
  ELSE IF runStatus[a] \in RunEnded THEN FinalStatus(runStatus[a])
  ELSE IF runStatus[a] = "none" /\ a \in completed THEN actionStatus[a]
  ELSE "absent"

Verdict(a) ==
  LET decision == DecisionAbout(a) IN
    CASE decision = "continue" -> TerminalStatus(a)
      [] decision = "reapprove" -> "invalidated"
      [] decision \in {"clarify", "abandon"} -> "failed"
      [] decision = "retry" -> IF requestOf[a] = None THEN "proposed" ELSE "approved"
      [] decision = "defer" -> "awaiting_approval"

\* The status an unfinished script run is given, or "none".
RunVerdict(a) ==
  IF DecisionAbout(a) = "continue" /\ runStatus[a] \in {"pending", "running"}
  THEN CASE TerminalStatus(a) = "executed" -> "completed"
         [] TerminalStatus(a) \in {"blocked", "failed"} -> TerminalStatus(a)
         [] OTHER -> "none"
  ELSE "none"

\* Recovery returns: an executor goes on with its result, a supervisor with the
\* next lease.
AfterRecovery(p) ==
  IF p \in Supervisors
  THEN /\ pc' = [pc EXCEPT ![p] = "expired"]
       /\ Forget(p)
       /\ UNCHANGED <<executed, todo>>
  ELSE AfterExecution(p, "failed")

\* The rows are read, a decision is taken and recorded in a checkpoint.
LoadContext(p) ==
  /\ At(p, "loadContext")
  /\ IF Verdict(cur[p]) = "absent" THEN AfterRecovery(p)
     ELSE /\ seen' = [seen EXCEPT ![p] = Verdict(cur[p])]
          /\ outcome' = [outcome EXCEPT ![p] = RunVerdict(cur[p])]
          /\ pc' = [pc EXCEPT ![p] = IF RunVerdict(cur[p]) = "none" THEN "recoverAction"
                                                                  ELSE "recoverRun"]
          /\ UNCHANGED <<cur, req, executed, todo>>
  /\ UNCHANGED <<approvalVars, rowVars, statusVars, recordVars, leaseVars, others>>

RecoverRun(p) ==
  /\ At(p, "recoverRun")
  /\ SetRun(p, outcome[p])
  /\ Goto(p, "recoverAction")
  /\ UNCHANGED <<approvalVars, rowVars, statusVars, execStatus, effects, leaseVars, others>>

\* The verdict is written over whatever the row says by now.
RecoverAction(p) ==
  /\ At(p, "recoverAction")
  /\ SetAction(p, seen[p])
  /\ completed' = completed \cup {cur[p]}
  /\ AfterRecovery(p)
  /\ UNCHANGED <<approvalVars, rowVars, started, recordVars, leaseVars, others>>

-----------------------------------------------------------------------------
(* Specifications. *)

\* The process dies, or the statement it is about to execute fails.
Crash(p) ==
  /\ pc[p] \in CrashPoints \ {"idle", "propose", "ended"}
  /\ crashes < MaxCrashes
  /\ crashes' = crashes + 1
  /\ Leave(p)
  /\ UNCHANGED <<approvalVars, rowVars, statusVars, recordVars, leaseVars, prompted>>

PlanningStep(p) ==
  \/ PlanBlocked(p) \/ PlanAction(p) \/ FinishTurn(p) \/ DenyAtCap(p) \/ EscalateAtCap(p)

RoutingStep(p) ==
  \/ LookUpRequest(p) \/ CountPending(p) \/ CreateRequest(p) \/ CreateRefused(p)
  \/ AttachRequest(p) \/ PromptForApproval(p)

SyncStep(p) == FindAction(p) \/ SyncAction(p) \/ SyncRefused(p)

ExecutionStep(p) ==
  \/ RecheckFails(p) \/ InsertExecution(p) \/ StartAction(p) \/ AcquireLease(p)
  \/ RecordRun(p) \/ StartRun(p) \/ Work(p) \/ WorkErrors(p)
  \/ FinishExecution(p) \/ FinishRun(p) \/ FinishAction(p)

LeaseStep(p) ==
  \/ CheckLease(p) \/ LeaseLost(p) \/ ReleaseLease(p) \/ ReleaseAfterError(p)
  \/ TerminateLease(p)

RecoveryStep(p) ==
  \/ ExpireDueLeases(p) \/ TakeExpiredLease(p) \/ FinishSupervision(p)
  \/ LoadContext(p) \/ RecoverRun(p) \/ RecoverAction(p)

\* What a process does on its own.
Step(p) ==
  \/ PlanningStep(p) \/ RoutingStep(p) \/ SyncStep(p) \/ ExecutionStep(p)
  \/ LeaseStep(p) \/ RecoveryStep(p)

Next ==
  \/ \E p \in Processes : Step(p) \/ AnswerRequest(p) \/ Crash(p)
  \/ \E a \in Actions : LeaseTimePasses(a)
  \/ \E r \in Requests : RequestTimePasses(r) /\ UNCHANGED
       <<rowVars, statusVars, recordVars, leaseVars, procVars, others>>

Spec == Init /\ [][Next]_vars

\* A task that has begun is scheduled until it ends, supervision runs again and
\* again, and time passes.  Nobody has to answer, and a model may stop proposing.
FairSpec ==
  /\ Spec
  /\ \A p \in Processes : WF_vars(Step(p))
  /\ \A a \in Actions : WF_vars(LeaseTimePasses(a))

-----------------------------------------------------------------------------
(* Properties. *)

Performed == {a \in Actions : effects[a] > 0}

\* A backend does what an action of a risky tier says only under an approved
\* request about that action's fingerprint, and an action that was put to
\* anybody, at the turn's cap too, only under that person's consent.
ApprovedBeforeEffect ==
  \A a \in Performed :
    /\ proposal[a] \in NeedsApproval => requestOf[a] # None
    /\ requestOf[a] # None => /\ requestStatus[requestOf[a]] = "approved"
                             /\ requestFor[requestOf[a]] = proposal[a]

\* An approval is used once: whatever crashes, expires and is recovered, no action
\* is run twice, and no two actions run on the approval of one request.
OneEffectPerApproval ==
  /\ \A a \in Actions : effects[a] <= 1
  /\ \A a, b \in Performed : requestOf[a] = requestOf[b] => a = b \/ requestOf[a] = None

\* A row that says executed is right about its backend, its execution record and
\* its script run, in whatever order they were written or recovered.
ExecutedIsTrue ==
  \A a \in Actions :
    /\ actionStatus[a] = "executed" =>
         /\ a \in Performed
         /\ execStatus[a] = "completed"
         /\ Kind(a) = "run_workspace_script" => runStatus[a] = "completed"
    /\ runStatus[a] = "completed" => execStatus[a] = "completed"

\* Unless the configuration approves everything, the turns together run no more
\* than their caps allow without asking somebody.
UnapprovedEffectsBounded ==
  CapBehavior # "always_approve" =>
    Cardinality({a \in Performed : requestOf[a] = None}) <= Cardinality(Turns) * MaxActions

\* What became of an action is decided once: an executor and the recovery of its
\* lease never contradict each other.
FinishedIsFinal ==
  [][\A a \in completed : actionStatus'[a] = actionStatus[a]]_vars

\* The inductive invariant behind the properties above: what each process knows
\* about its action and its request before the statement it is at.
StartedPoints == (WorkPoints \ {"recheck", "start"}) \cup LeasePoints \cup RecoveryPoints
BeforeEffect == {"recheck", "start", "lease", "recordRun", "startRun", "work"}
BeforeRequest == {"deny", "escalate", "lookup", "count", "create", "attach"}

RowsKnown ==
  /\ \A p \in Processes :
       /\ cur[p] # None => actionStatus[cur[p]] # "absent"
       /\ req[p] # None => requestStatus[req[p]] # "none"
       /\ pc[p] \in ResolvePoints => seen[p] \in Resolutions
       /\ pc[p] \in {"recheck", "start"} => seen[p] \in {"proposed", "approved"}
       /\ pc[p] \in {"recoverRun", "recoverAction"} => seen[p] # "absent"
       /\ pc[p] \in StartedPoints => cur[p] \in started
       /\ todo[p] \subseteq started
  /\ \A a \in Actions :
       /\ leaseStatus[a] # "none" => a \in started
       /\ a \in started => actionStatus[a] # "absent"
       /\ requestOf[a] # None => /\ actionStatus[a] # "absent"
                                /\ requestStatus[requestOf[a]] # "none"

\* Each row belongs to one turn, which runs it only if it needs no consent.
TurnsKnow ==
  /\ \A p, q \in Turns : p # q /\ cur[p] # None => cur[p] # cur[q]
  /\ \A p \in Turns :
       /\ pc[p] \in BeforeRequest => requestOf[cur[p]] = None /\ effects[cur[p]] = 0
       /\ pc[p] = "attach" => requestFor[req[p]] = proposal[cur[p]]
       /\ pc[p] \in ExecutePoints => /\ requestOf[cur[p]] = None
                                     /\ proposal[cur[p]] \notin NeedsApproval

\* Each answer belongs to one resolver, which runs only what it approved.
ResolversKnow ==
  /\ \A p, q \in Resolvers : p # q /\ req[p] # None => req[p] # req[q]
  /\ \A p \in Resolvers :
       /\ req[p] # None => requestStatus[req[p]] # "pending"
       /\ pc[p] \in ResolvePoints => requestStatus[req[p]] = seen[p]
       /\ pc[p] \in {"sync"} \cup ExecutePoints =>
            req[p] # None /\ requestOf[cur[p]] = req[p]
       /\ pc[p] \in ExecutePoints => requestStatus[req[p]] = "approved"

\* Nobody is about to do what has been done.
EffectsAhead ==
  /\ \A p \in Executors : pc[p] \in BeforeEffect => effects[cur[p]] = 0
  /\ \A p \in Resolvers : pc[p] \in ResolvePoints \cup BeforeEffect =>
       \A a \in Performed : requestOf[a] # req[p]
  /\ \A a \in Actions : /\ actionStatus[a] = "absent" => effects[a] = 0
                        /\ requestOf[a] # None => requestFor[requestOf[a]] = proposal[a]

ConsentInvariant ==
  /\ RowsKnown /\ TurnsKnow /\ ResolversKnow /\ EffectsAhead
  /\ ApprovedBeforeEffect /\ OneEffectPerApproval

Busy(a) == \E p \in Processes : cur[p] = a \/ (req[p] # None /\ req[p] = requestOf[a])

Answerable(a) == requestOf[a] # None /\ requestStatus[requestOf[a]] = "pending"

\* An action that waits for approval can be approved, if no other has its
\* fingerprint: once its turn has moved on, a pending request stands for it.
AloneAwaitingCanBeResolved ==
  \A a \in Actions :
    /\ actionStatus[a] = "awaiting_approval"
    /\ ~Busy(a)
    /\ \A b \in Actions : proposal[b] = proposal[a] => b = a
    => Answerable(a)

\* An action whose execution began is finished, by its executor or by recovery.
StartedActionsEnd == \A a \in Actions : a \in started ~> a \in completed

\* How the gate sees a request and what an action did.
GateAnswer(r) ==
  IF requestStatus[r] \in {"none", "pending"} THEN "open"
  ELSE IF requestStatus[r] = "approved" THEN "granted" ELSE "refused"
GateGrant(a) == IF a \in Performed THEN requestOf[a] ELSE None

Gate == INSTANCE ApprovalGate WITH
  about <- requestFor,
  answer <- [r \in Requests |-> GateAnswer(r)],
  done <- effects,
  under <- [a \in Actions |-> GateGrant(a)]

\* Each request is one the abstract gate was asked about, and each effect is one
\* it let through.
ImplementsGate == Gate!Spec
=============================================================================
