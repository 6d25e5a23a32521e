----------------------------- MODULE ApprovalGate -----------------------------
(***************************************************************************)
(* What approvals promise.  A request is asked once about one fingerprint  *)
(* and answered at most once.  An action of a fingerprint that needs       *)
(* consent does its work only under a granted request about that very      *)
(* fingerprint, and a grant is used up by it: no action works twice, and   *)
(* no two work under one grant.  GovernedActions implements this module.   *)
(***************************************************************************)
EXTENDS Integers

CONSTANTS Requests, Fingerprints, Actions, NeedsApproval, None

VARIABLES
  about,      \* what each request asks about, None before it is asked
  answer,     \* "open", "granted" or "refused"
  done,       \* how often each action has done its work
  under       \* the grant each action worked under, None for none

gateVars == <<about, answer, done, under>>

Init ==
  /\ about = [r \in Requests |-> None]
  /\ answer = [r \in Requests |-> "open"]
  /\ done = [a \in Actions |-> 0]
  /\ under = [a \in Actions |-> None]

Ask(r, f) ==
  /\ about[r] = None
  /\ \A s \in Requests : about[s] = f => answer[s] # "open"
  /\ about' = [about EXCEPT ![r] = f]
  /\ UNCHANGED <<answer, done, under>>

Answer(r, given) ==
  /\ about[r] # None
  /\ answer[r] = "open"
  /\ answer' = [answer EXCEPT ![r] = given]
  /\ UNCHANGED <<about, done, under>>

\* Work that needs nobody's consent, or that a grant covers.
Perform(a, f, grant) ==
  /\ done[a] = 0
  /\ grant = None => f \notin NeedsApproval
  /\ grant # None =>
       /\ about[grant] = f
       /\ answer[grant] = "granted"
       /\ \A b \in Actions : under[b] # grant
  /\ done' = [done EXCEPT ![a] = 1]
  /\ under' = [under EXCEPT ![a] = grant]
  /\ UNCHANGED <<about, answer>>

Next ==
  \/ \E r \in Requests, f \in Fingerprints : Ask(r, f)
  \/ \E r \in Requests, given \in {"granted", "refused"} : Answer(r, given)
  \/ \E a \in Actions, f \in Fingerprints, grant \in Requests \cup {None} :
       Perform(a, f, grant)

Spec == Init /\ [][Next]_gateVars
=============================================================================
