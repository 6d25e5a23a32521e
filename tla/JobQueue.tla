------------------------------ MODULE JobQueue ------------------------------
(***************************************************************************)
(* What the background job tables promise, without leases, recovery or     *)
(* process steps.  A job is submitted, taken by one run at a time, and     *)
(* either finished or handed back; only the run that holds the job may     *)
(* make its results durable, no run holds a job twice, and a finished job  *)
(* stays finished.  BackgroundJobs implements this for one harness.        *)
(***************************************************************************)
EXTENDS Naturals

CONSTANTS
  Jobs,      \* background jobs
  Runs,      \* attempts to execute a job
  KeyOf,     \* the deduplication key of each job
  None       \* no run holds the job

VARIABLES
  state,     \* absent, pending, taken or done
  holder,    \* the run that holds a taken job
  used,      \* the runs that have held a job
  effects    \* how many result stages each run has made durable

vars == <<state, holder, used, effects>>

Init ==
  /\ state = [j \in Jobs |-> "absent"]
  /\ holder = [j \in Jobs |-> None]
  /\ used = {}
  /\ effects = [r \in Runs |-> 0]

\* A submitted job must not share its key with a job that is not done.
Submit(j) ==
  /\ state[j] = "absent"
  /\ \A k \in Jobs : KeyOf[k] = KeyOf[j] => state[k] \in {"absent", "done"}
  /\ state' = [state EXCEPT ![j] = "pending"]
  /\ UNCHANGED <<holder, used, effects>>

Take(j, r) ==
  /\ state[j] = "pending"
  /\ r \notin used
  /\ state' = [state EXCEPT ![j] = "taken"]
  /\ holder' = [holder EXCEPT ![j] = r]
  /\ used' = used \cup {r}
  /\ UNCHANGED effects

\* Only the holder makes results durable.
Effect(j, r) ==
  /\ holder[j] = r
  /\ effects' = [effects EXCEPT ![r] = @ + 1]
  /\ UNCHANGED <<state, holder, used>>

Yield(j) ==
  /\ holder[j] # None
  /\ holder' = [holder EXCEPT ![j] = None]
  /\ UNCHANGED <<state, used, effects>>

\* A taken job is finished, or handed back, only once nobody holds it.
Finish(j) ==
  /\ state[j] = "taken"
  /\ holder[j] = None
  /\ state' = [state EXCEPT ![j] = "done"]
  /\ UNCHANGED <<holder, used, effects>>

HandBack(j) ==
  /\ state[j] = "taken"
  /\ holder[j] = None
  /\ state' = [state EXCEPT ![j] = "pending"]
  /\ UNCHANGED <<holder, used, effects>>

Next ==
  \E j \in Jobs :
    \/ Submit(j)
    \/ Yield(j)
    \/ Finish(j)
    \/ HandBack(j)
    \/ \E r \in Runs : Take(j, r) \/ Effect(j, r)

Spec == Init /\ [][Next]_vars
=============================================================================
