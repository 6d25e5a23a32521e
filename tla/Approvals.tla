------------------------------ MODULE Approvals ------------------------------
(***************************************************************************)
(* The table approval_requests.  A request asks a person about one         *)
(* fingerprint; governed actions attach themselves to it, and the person's *)
(* answer, given once, is what lets them run.  Each operator of the last   *)
(* section is what one committed statement does to the table;              *)
(* GovernedActions runs them as steps of its processes.                    *)
(*                                                                         *)
(* expire_due_approval_requests is not among them: nothing in the program  *)
(* calls it, so a request whose time has passed stays pending until        *)
(* somebody answers it.                                                    *)
(***************************************************************************)
EXTENDS Integers, FiniteSets

CONSTANTS
  Requests,       \* bound: requests, numbered in the order of insertion
  Fingerprints,   \* what an action would do: two with one fingerprint are alike
  Turns,          \* foreground turns; each has an execution record of its own
  PendingLimit,   \* approvals.max_pending_requests
  None

ASSUME ApprovalsAssumption ==
  /\ Requests \subseteq Nat
  /\ None \notin Requests \cup Fingerprints \cup Turns
  /\ PendingLimit \in Nat

VARIABLES
  requestStatus,
  requestFor,      \* fingerprint a request asks about
  requestTurn,     \* execution_id of a request
  late             \* requests whose expires_at has passed

approvalVars == <<requestStatus, requestFor, requestTurn, late>>

RequestStatuses ==
  {"none", "pending", "approved", "rejected", "expired", "invalidated"}
Resolutions == {"approved", "rejected", "expired", "invalidated"}

ApprovalsTypeOK ==
  /\ requestStatus \in [Requests -> RequestStatuses]
  /\ requestFor \in [Requests -> Fingerprints \cup {None}]
  /\ requestTurn \in [Requests -> Turns \cup {None}]
  /\ late \subseteq Requests
  /\ \A r \in Requests : /\ requestFor[r] = None <=> requestStatus[r] = "none"
                         /\ requestTurn[r] = None <=> requestStatus[r] = "none"

ApprovalsInit ==
  /\ requestStatus = [r \in Requests |-> "none"]
  /\ requestFor = [r \in Requests |-> None]
  /\ requestTurn = [r \in Requests |-> None]
  /\ late = {}

-----------------------------------------------------------------------------
(* Rows as the queries see them. *)

PendingRequests == {r \in Requests : requestStatus[r] = "pending"}

\* The partial unique index leaves at most one.
PendingFor(f) == {r \in PendingRequests : requestFor[r] = f}

\* Mutant: one request too many.
PendingLimitReachedOffByOne == Cardinality(PendingRequests) > PendingLimit

PendingLimitReached == Cardinality(PendingRequests) >= PendingLimit

\* Mutant: a late answer counts.
AnswersIgnoringExpiry(r, receivedEarlier, mayMismatch) ==
  {"approved", "rejected"} \cup (IF mayMismatch THEN {"invalidated"} ELSE {})

\* What becomes of a request somebody answers.  An answer that reached the
\* surface before expires_at is judged by that time; an answer that carries
\* another fingerprint invalidates the request.
Answers(r, receivedEarlier, mayMismatch) ==
  (IF r \in late THEN {"expired"} ELSE {})
    \cup (IF r \notin late \/ receivedEarlier
          THEN {"approved", "rejected"} \cup (IF mayMismatch THEN {"invalidated"} ELSE {})
          ELSE {})

-----------------------------------------------------------------------------
(* Statements. *)

InsertRequest(r, f, t) ==
  /\ requestStatus[r] = "none"
  /\ \A s \in Requests : requestStatus[s] = "none" => r <= s
  /\ PendingFor(f) = {}
  /\ requestStatus' = [requestStatus EXCEPT ![r] = "pending"]
  /\ requestFor' = [requestFor EXCEPT ![r] = f]
  /\ requestTurn' = [requestTurn EXCEPT ![r] = t]
  /\ UNCHANGED late

\* Mutant: an answered request can be answered again.
ResolveRequestAgain(r, resolution) ==
  /\ requestStatus[r] # "none"
  /\ requestStatus' = [requestStatus EXCEPT ![r] = resolution]
  /\ UNCHANGED <<requestFor, requestTurn, late>>

\* One transaction, under a lock of the row: the first answer is the last.
ResolveRequest(r, resolution) ==
  /\ requestStatus[r] = "pending"
  /\ requestStatus' = [requestStatus EXCEPT ![r] = resolution]
  /\ UNCHANGED <<requestFor, requestTurn, late>>

RequestTimePasses(r) ==
  /\ requestStatus[r] = "pending"
  /\ r \notin late
  /\ late' = late \cup {r}
  /\ UNCHANGED <<requestStatus, requestFor, requestTurn>>
=============================================================================
