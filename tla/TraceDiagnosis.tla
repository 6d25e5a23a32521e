---------------------------- MODULE TraceDiagnosis ----------------------------
(***************************************************************************)
(* What `admin trace explain` tells an operator of a turn: the durable     *)
(* rows of its trace become the nodes of a report, and the report is       *)
(* diagnosed.  The rows are those of GovernedActions, at any moment        *)
(* between two statements, with the turn's own beside them.  Bound: an     *)
(* instance has one turn, so that all of its rows are of one trace, and    *)
(* the tables are read at one moment.                                      *)
(*                                                                         *)
(* Nodes are ordered by time only to break ties between failures of the    *)
(* same weight; here a tie is left open, and a report has every diagnosis  *)
(* that some order of its rows would give it.                              *)
(***************************************************************************)
EXTENDS GovernedActions

ForegroundFailureKinds ==
  {"model_gateway_transport_failure", "provider_rejected", "telegram_delivery_failure",
   "persistence_failure", "context_assembly_failure", "malformed_action_proposal",
   "worker_protocol_failure", "scheduled_foreground_validation_failure",
   "approval_resolution_failure"}

\* What the diagnosis looks at in a node: an event names the kind of a failure.
Node(kind, i, status) == [kind |-> kind, id |-> i, status |-> status, failure |-> "none"]

-----------------------------------------------------------------------------
(* The report: one operator per table that is read. *)

\* What a turn may be recorded as once it is over: answered, cut and never
\* written again, or failed in one of these ways.
Endings(t) ==
  IF At(t, "ended") THEN {"answered", "cut"} \cup ForegroundFailureKinds ELSE {"running"}

ModelFailures ==
  {"model_gateway_transport_failure", "provider_rejected", "malformed_action_proposal",
   "worker_protocol_failure"}

TurnStatus(ending) ==
  CASE ending \in {"running", "cut"} -> "started"
    [] ending = "answered" -> "completed"
    [] OTHER -> "failed"

\* The record of the turn has number 0, that of an action the action's, from 1 on.
ExecutionNodes(ending) ==
  {Node("execution", 0, TurnStatus(ending))}
    \cup {Node("execution", a, execStatus[a]) : a \in {b \in Actions : execStatus[b] # "none"}}

IngressNodes(ending) ==
  {Node("ingress", 0, IF ending \in {"running", "cut"} THEN "processing" ELSE "processed")}

EpisodeNodes(ending) == {Node("episode", 0, TurnStatus(ending))}

\* An assistant's message, where the turn has stored one.
MessageNodes(ending) ==
  {Node("episode_message", i, "none") : i \in IF ending = "answered" THEN {0} ELSE {}}

\* record_foreground_failure names the kind of failure in an event of its own.
AuditNodes(ending) ==
  {[Node("audit_event", 0, "error") EXCEPT !.failure = kind] :
     kind \in ForegroundFailureKinds \cap {ending}}

\* The call that proposed the actions, and the one that came after them.
ModelCallNodes(ending) ==
  {Node("model_call", 1, "succeeded")}
    \cup {Node("model_call", 2, "failed") : kind \in ModelFailures \cap {ending}}

ApprovalNodes ==
  {Node("approval_request", r, requestStatus[r]) : r \in {s \in Requests : requestStatus[s] # "none"}}

GovernedActionNodes ==
  {Node("governed_action", a, actionStatus[a]) :
     a \in {b \in Actions : actionStatus[b] # "absent"}}

TraceReport(ending) ==
  UNION {ExecutionNodes(ending), IngressNodes(ending), EpisodeNodes(ending),
         MessageNodes(ending), AuditNodes(ending), ModelCallNodes(ending),
         ApprovalNodes, GovernedActionNodes}

-----------------------------------------------------------------------------
(* The diagnosis. *)

PendingApprovals(report) ==
  {n \in report : n.kind = "approval_request" /\ n.status = "pending"}

BlockedNodes(report) ==
  {n \in report : \/ n.kind = "governed_action_execution" /\ n.status = "blocked"
                  \/ n.kind = "approval_request" /\ n.status \in {"rejected", "expired"}}

IsFailure(n) ==
  IF n.kind = "audit_event" THEN n.status \in {"error", "critical"}
  ELSE n.status \in {"failed", "blocked", "rejected", "expired", "invalidated"}

FailurePriority(n) ==
  CASE n.kind \in {"model_call", "governed_action_execution", "approval_request"} -> 0
    [] n.kind = "audit_event" -> 1
    [] n.kind \in {"execution", "episode"} -> 2
    [] OTHER -> 3

FirstFailingNodes(report) ==
  {n \in report : /\ IsFailure(n)
                  /\ \A m \in report : IsFailure(m) => FailurePriority(n) <= FailurePriority(m)}

BlockedClass(n) ==
  CASE n.status = "rejected" -> "approval_rejected"
    [] n.status = "expired" -> "approval_expired"
    [] OTHER -> "governed_action_blocked"

\* An event names the failure, or one nobody has a class for.
AuditClass(n) ==
  IF n.failure = "approval_resolution_failure" THEN "unknown_failure" ELSE n.failure

AuditClasses(report) == {AuditClass(m) : m \in {x \in report : x.kind = "audit_event"}}

OrUnknown(classes) == IF classes = {} THEN {"unknown_failure"} ELSE classes

\* The first event after the node that names a failure.  The turn's comes after its
\* own rows; an action's record, which names no execution for the events to be of,
\* may be older or younger than it.
RelatedAuditClasses(report, n) ==
  OrUnknown(AuditClasses(report))
    \cup (IF n.id = 0 THEN {} ELSE {"unknown_failure"})

\* The calls of a trace are its turn's.
ModelCallClasses(report) == OrUnknown(AuditClasses(report))

ClassesOf(report, n) ==
  CASE n.kind = "model_call" -> ModelCallClasses(report)
    [] n.kind = "audit_event" -> {AuditClass(n)}
    [] n.kind \in {"execution", "episode"} -> RelatedAuditClasses(report, n)
    [] n.kind = "governed_action_execution" -> {"governed_action_blocked"}
    [] OTHER -> {"unknown_failure"}

FailureClasses(report) ==
  IF PendingApprovals(report) # {} THEN {"approval_pending"}
  ELSE IF BlockedNodes(report) # {} THEN {BlockedClass(n) : n \in BlockedNodes(report)}
  ELSE IF FirstFailingNodes(report) = {} THEN {"none"}
  ELSE UNION {ClassesOf(report, n) : n \in FirstFailingNodes(report)}

TraceVerdict(report, class) ==
  IF PendingApprovals(report) # {} THEN "awaiting_approval"
  ELSE IF BlockedNodes(report) # {} THEN "blocked"
  ELSE IF class # "none" THEN "failed"
  ELSE IF \E n \in report : \/ n.status \in {"succeeded", "executed", "resolved", "completed"}
                            \/ n.kind = "episode_message" THEN "succeeded"
  ELSE "inconclusive"

ActionsReported(report) == {n \in report : n.kind = "governed_action_execution"}

NotRun == {"proposed", "awaiting_approval", "approved", "blocked", "rejected", "expired",
           "invalidated"}

SideEffectStatus(report) ==
  LET actions == ActionsReported(report) IN
  IF \E n \in actions : n.status = "executed" THEN "executed"
  ELSE IF \E n \in actions : n.status = "failed" \/ n.id \in started THEN "possible"
  ELSE IF \A n \in actions : n.status \in NotRun THEN "none_executed"
  ELSE "unknown"

RetrySafety(report, class) ==
  LET verdict == TraceVerdict(report, class) IN
  IF class \in {"approval_pending", "approval_rejected", "approval_expired"}
  THEN "requires_operator"
  ELSE CASE SideEffectStatus(report) = "none_executed" ->
              IF verdict = "succeeded" THEN "unsafe" ELSE "safe"
         [] SideEffectStatus(report) \in {"executed", "possible"} -> "unsafe"
         [] OTHER -> "unknown"

-----------------------------------------------------------------------------
\* A turn that failed and that the diagnosis calls safe to retry has done nothing
\* yet: none of its actions has reached a backend.
SafeMeansNothingDone ==
  \A t \in Turns : \A ending \in Endings(t) \cap ForegroundFailureKinds :
    LET report == TraceReport(ending) IN
      (\E class \in FailureClasses(report) : RetrySafety(report, class) = "safe")
        => Performed = {}
=============================================================================
