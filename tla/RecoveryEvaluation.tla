------------------------- MODULE RecoveryEvaluation -------------------------
(***************************************************************************)
(* evaluate_recovery_decision applied to any request: the request is       *)
(* refused, or it gets a decision and the status the checkpoint takes.     *)
(***************************************************************************)
EXTENDS RecoveryDecision

CONSTANT MaxBudget          \* largest recovery budget a request carries

ASSUME MaxBudgetAssumption == MaxBudget \in Nat

VARIABLES request, outcome, checkpoint

evaluationVars == <<request, outcome, checkpoint>>

Requests == RequestsWith(-1 .. MaxBudget)

EvaluationInit ==
  /\ request \in Requests
  /\ outcome = "none"
  /\ checkpoint = "open"

EvaluateRecoveryDecision ==
  /\ outcome = "none"
  /\ ValidRequest(request)
  /\ outcome' = ClassifyRecoveryDecision(request)
  /\ checkpoint' = CheckpointStatusFor(outcome')
  /\ UNCHANGED request

RefuseRequest ==
  /\ outcome = "none"
  /\ ~ValidRequest(request)
  /\ outcome' = "refused"
  /\ UNCHANGED <<request, checkpoint>>

EvaluationNext == EvaluateRecoveryDecision \/ RefuseRequest

EvaluationSpec == EvaluationInit /\ [][EvaluationNext]_evaluationVars

EvaluationTypeOK ==
  /\ request \in Requests
  /\ outcome \in Decisions \cup {"none", "refused"}
  /\ checkpoint \in {"open", "resolved", "abandoned"}

\* Work is carried on without asking anybody only when the documented rules of
\* automatic continuation allow it: budget left, usable evidence, no open or
\* lapsed approval, policy not failed, and, for ambiguous or nonrepeatable
\* work, durable proof that it completed.
AutomaticRecoveryIsProven ==
  outcome \in {"continue", "retry"} =>
    /\ request.budget > 0
    /\ request.evidence # "corrupted"
    /\ request.approval \in {"not_required", "approved_fresh"}
    /\ request.policy # "recheck_failed"
    /\ request.reason # "integrity_or_policy_block"
    /\ request.action = "ambiguous_or_nonrepeatable" =>
         request.evidence = "durable_completed"
=============================================================================
