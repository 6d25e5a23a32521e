------------------------------- MODULE Inbox -------------------------------
(***************************************************************************)
(* What the ingress rows promise, without turns, leases or errors.  A row  *)
(* is stored once; one process at a time deals with it; only the process   *)
(* that deals with a row closes it, and a closed row stays closed.         *)
(* Foreground implements this as long as no live turn goes stale.          *)
(***************************************************************************)
CONSTANTS
  Rows,      \* messages, callbacks, wake signals and scheduled runs
  Handlers,  \* the processes that run turns
  Nobody     \* no process deals with the row

VARIABLES
  state,     \* absent, refused, open or closed
  handler    \* who deals with an open row

vars == <<state, handler>>

Init ==
  /\ state = [i \in Rows |-> "absent"]
  /\ handler = [i \in Rows |-> Nobody]

\* A row is stored for anyone, or by the process that deals with it at once.
Store(i, h) ==
  /\ state[i] = "absent"
  /\ state' = [state EXCEPT ![i] = "open"]
  /\ handler' = [handler EXCEPT ![i] = h]

Refuse(i) ==
  /\ state[i] = "absent"
  /\ state' = [state EXCEPT ![i] = "refused"]
  /\ UNCHANGED handler

\* A process takes open rows nobody deals with.
Take(S, h) ==
  /\ \A i \in S : state[i] = "open" /\ handler[i] = Nobody
  /\ handler' = [i \in Rows |-> IF i \in S THEN h ELSE handler[i]]
  /\ UNCHANGED state

Close(i) ==
  /\ state[i] = "open"
  /\ handler[i] # Nobody
  /\ state' = [state EXCEPT ![i] = "closed"]
  /\ handler' = [handler EXCEPT ![i] = Nobody]

\* A process gives up what it has not closed, or dies; closing its last row may
\* be all it had left to do.
Drop(S) ==
  /\ handler' = [i \in Rows |-> IF i \in S THEN Nobody ELSE handler[i]]
  /\ UNCHANGED state

CloseAndDrop(i, S) ==
  /\ state[i] = "open"
  /\ handler[i] # Nobody
  /\ state' = [state EXCEPT ![i] = "closed"]
  /\ handler' = [j \in Rows |-> IF j \in S \cup {i} THEN Nobody ELSE handler[j]]

Next ==
  \/ \E i \in Rows :
       \/ \E h \in Handlers \cup {Nobody} : Store(i, h)
       \/ Refuse(i)
       \/ Close(i)
       \/ \E S \in SUBSET Rows : CloseAndDrop(i, S)
  \/ \E S \in SUBSET Rows : Drop(S) \/ \E h \in Handlers : Take(S, h)

Spec == Init /\ [][Next]_vars
=============================================================================
