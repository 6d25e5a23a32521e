-------------------------- MODULE RecoveryDecision --------------------------
(***************************************************************************)
(* The pure decision table of recovery.rs: what the harness may do with    *)
(* interrupted work, given what it can prove about it.  BackgroundJobs     *)
(* asks it what becomes of a stranded job; RecoveryEvaluation checks it    *)
(* over every request.                                                     *)
(***************************************************************************)
EXTENDS Integers

CheckpointKinds == {"foreground", "background", "governed_action"}

ReasonCodes == {"crash", "timeout_or_stall", "supervisor_restart",
                "approval_transition", "integrity_or_policy_block"}

ActionClassifications ==
  {"safe_replay", "provably_idempotent_external", "ambiguous_or_nonrepeatable"}

EvidenceStates == {"not_started", "durable_incomplete", "durable_completed",
                   "ambiguous", "corrupted"}

ApprovalStates == {"not_required", "pending", "approved_fresh", "expired",
                   "invalidated", "rejected", "missing_required"}

PolicyStates == {"valid", "requires_recheck", "recheck_failed"}

Decisions == {"continue", "retry", "defer", "reapprove", "clarify", "abandon"}

RequestsWith(Budgets) ==
  [kind : CheckpointKinds, reason : ReasonCodes, action : ActionClassifications,
   evidence : EvidenceStates, approval : ApprovalStates, policy : PolicyStates,
   budget : Budgets, clarification : BOOLEAN]

\* A negative budget is refused before anything is decided.
ValidRequest(q) == q.budget >= 0

\* Nothing the rest of the table says can save the work.
FailsClosed(q) ==
  \/ q.budget = 0
  \/ q.evidence = "corrupted"
  \/ q.policy = "recheck_failed"
  \/ q.reason = "integrity_or_policy_block"
  \/ q.approval = "rejected"

\* How work without proof of completion is replayed, by its classification.
ReplayDecision(q) ==
  IF q.action = "ambiguous_or_nonrepeatable"
  THEN IF q.clarification THEN "clarify" ELSE "abandon"
  ELSE IF q.action = "safe_replay" /\ q.kind = "foreground"
       THEN "continue" ELSE "retry"

\* Mutant: the completion test moved ahead of the approval test.
ClassifyRecoveryDecisionEvidenceFirst(q) ==
  IF FailsClosed(q) THEN "abandon"
  ELSE IF q.evidence = "durable_completed" THEN "continue"
  ELSE IF q.approval = "pending" THEN "defer"
  ELSE IF q.approval \in {"expired", "invalidated", "missing_required"}
       THEN "reapprove"
  ELSE ReplayDecision(q)

ClassifyRecoveryDecision(q) ==
  IF FailsClosed(q) THEN "abandon"
  ELSE IF q.approval = "pending" THEN "defer"
  ELSE IF q.approval \in {"expired", "invalidated", "missing_required"}
       THEN "reapprove"
  ELSE IF q.evidence = "durable_completed" THEN "continue"
  ELSE ReplayDecision(q)

\* Mutant: the decision is stored as the status.
CheckpointStatusIsDecision(decision) == decision

CheckpointStatusFor(decision) ==
  IF decision = "abandon" THEN "abandoned" ELSE "resolved"

\* What the restart scan asks about a run nobody seems to be executing; the
\* scan never lowers the budget it passes.
RestartRequest(runStarted) ==
  [kind |-> "background", reason |-> "supervisor_restart",
   action |-> "safe_replay",
   evidence |-> IF runStarted THEN "durable_incomplete" ELSE "not_started",
   approval |-> "not_required", policy |-> "valid",
   budget |-> 1, clarification |-> FALSE]
=============================================================================
