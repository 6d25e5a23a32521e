------------------------------ MODULE Identity ------------------------------
(***************************************************************************)
(* The identity tables and those who write them: a foreground turn forms   *)
(* the first identity with the user (kickstart), a reflection job proposes *)
(* deltas, an operator proposes and resolves edits, and an operator resets *)
(* the identity.  They run in different processes.  A proposal is recorded *)
(* as accepted in one transaction and merged by the statements after it;   *)
(* a transaction reads what has committed when each of its statements runs *)
(* (READ COMMITTED), so what a run checked may have changed when it        *)
(* commits.                                                                *)
(***************************************************************************)
EXTENDS Naturals, Sequences

CONSTANTS
  IdentityRuns,     \* bound: turns, reflections, resolutions and resets
  Interviews,       \* bound: identity_kickstart_interviews
  Edits,            \* bound: edits proposed by operators
  ItemKeys,         \* the items of a complete identity but its description
  StableKeys,       \* those a template and an interview insert as stable
  OtherKeys,        \* bound: keys only reflections and operators add
  CategoryOf,       \* the category of each key
  Proposable,       \* bound: deltas of an item: operation, key and class
  Describing,       \* bound: operations of a delta of the self description
  Named,            \* states of the lifecycle a reflection may name
  InterviewSteps    \* CUSTOM_IDENTITY_STEPS

SelfDescription == "self_description"
Formed == ItemKeys \cup {SelfDescription}
Keys == Formed \cup OtherKeys
Items == IdentityRuns \X Keys
Steps == {InterviewSteps[i] : i \in DOMAIN InterviewSteps}
NoInterview == "no interview"
NoEdit == "no edit"

LifecycleStates == {"bootstrap_seed_only", "identity_kickstart_in_progress",
                    "complete_identity_active", "identity_reset_pending"}
Bootstrap == "bootstrap_seed_only"
InProgress == "identity_kickstart_in_progress"
Complete == "complete_identity_active"

Operations == {"add", "reinforce", "weaken", "revise", "supersede", "expire"}
Actions == {"none", "template", "start", "answer", "cancel", "delta", "describe", "reset"}
IdentityPoints == {"idle", "model", "read", "check", "inspect", "resolve", "commit",
                   "start", "readForm", "advance", "complete", "closeForm", "cancel",
                   "refuse", "settle", "reset", "done"}
Deltas == [op : Operations, key : Keys, protects : BOOLEAN]
Replacing == {"revise", "supersede"}
TakingAway == Replacing \cup {"expire"}

ASSUME IdentityAssumption ==
  /\ StableKeys \subseteq ItemKeys
  /\ Proposable \subseteq Deltas
  /\ Describing \subseteq Operations
  /\ Named \subseteq LifecycleStates
  /\ SelfDescription \notin ItemKeys
  /\ DOMAIN CategoryOf = Keys
  /\ InterviewSteps \in Seq(Steps) /\ InterviewSteps # <<>>
  /\ \A i \in DOMAIN InterviewSteps :
       InterviewSteps[i] \notin {"cancelled", "completed"}
  /\ NoInterview \notin Interviews
  /\ NoEdit \notin Edits

VARIABLES
  lifecycle,    \* the row of identity_lifecycle whose status is current
  interviews,   \* status, current_step and answered_fields of each interview
  items,        \* status of the item each run inserted under each key
  stable,       \* the items whose class is stable or whose policy protects them
  edits,        \* operator proposals: status, and the delta they carry
  decision,     \* merge_decisions: what was decided of a run's proposal
  idRun         \* each run: next statement, proposal, and what it has read

identityVars == <<lifecycle, interviews, items, stable, edits, decision, idRun>>

ItemStatuses == {"absent", "active", "superseded", "expired"}
NoEditYet == [status |-> "absent", op |-> "add", key |-> SelfDescription,
              protects |-> FALSE, named |-> {}]
\* named: the item a delta names, if it names one.  found: what the control check
\* could find, which no statement reads again.  row: what a resolve returned.
IdleRun == [at |-> "idle", by |-> "turn", action |-> "none", op |-> "add",
            key |-> SelfDescription, protects |-> FALSE, named |-> {},
            target |-> Complete, edit |-> NoEdit, seen |-> "none", left |-> {},
            found |-> {}, row |-> {}, form |-> NoInterview, step |-> "none",
            answered |-> {}, locked |-> {}, forms |-> {}]

IdentityTypeOK ==
  /\ lifecycle \in [state : LifecycleStates \cup {"none"},
                    interview : Interviews \cup {NoInterview}]
  /\ interviews \in [Interviews ->
       [status : {"absent", "in_progress", "completed", "cancelled"},
        step : Steps \cup {"none", "cancelled", "completed"},
        answered : SUBSET Steps]]
  /\ items \in [Items -> ItemStatuses]
  /\ stable \subseteq Items
  /\ edits \in [Edits ->
       [status : {"absent", "pending_operator_review", "merged", "rejected"},
        op : Operations, key : Keys, protects : BOOLEAN, named : SUBSET Items]]
  /\ decision \in [IdentityRuns -> {"none", "accepted", "rejected"}]
  /\ idRun \in [IdentityRuns ->
       [at : IdentityPoints, by : {"turn", "reflection", "operator"},
        action : Actions, op : Operations, key : Keys, protects : BOOLEAN,
        named : SUBSET Items, target : LifecycleStates,
        edit : Edits \cup {NoEdit}, seen : LifecycleStates \cup {"none"},
        left : SUBSET Keys, found : SUBSET Items, row : SUBSET Items,
        form : Interviews \cup {NoInterview},
        step : Steps \cup {"none", "cancelled", "completed"},
        answered : SUBSET Steps, locked : SUBSET Items,
        forms : SUBSET Interviews]]

IdentityInit ==
  /\ lifecycle = [state |-> "none", interview |-> NoInterview]
  /\ interviews = [i \in Interviews |->
                     [status |-> "absent", step |-> "none", answered |-> {}]]
  /\ items = [rk \in Items |-> "absent"]
  /\ stable = {}
  /\ edits = [e \in Edits |-> NoEditYet]
  /\ decision = [r \in IdentityRuns |-> "none"]
  /\ idRun = [r \in IdentityRuns |-> IdleRun]

-----------------------------------------------------------------------------
(***************************************************************************)
(* What statements read and write.                                         *)
(***************************************************************************)
At(r, point) == idRun[r].at = point
Goto(r, point) == idRun' = [idRun EXCEPT ![r].at = point]
End(r) == idRun' = [idRun EXCEPT ![r] = [IdleRun EXCEPT !.at = "done"]]
ActiveUnder(k) == {rk \in Items : rk[2] = k /\ items[rk] = "active"}
Active(k) == ActiveUnder(k) # {}

\* record_lifecycle_transition: the current row is superseded, a new one inserted.
Record(state, i) == lifecycle' = [state |-> state, interview |-> i]

\* A row another transaction has updated makes an update wait for its end.
Held(r, rows, i) ==
  \E q \in IdentityRuns \ {r} :
    /\ At(q, "reset")
    /\ rows \cap idRun[q].locked # {} \/ i \in idRun[q].forms

NextMissing(answered) ==
  LET missing == {n \in DOMAIN InterviewSteps : InterviewSteps[n] \notin answered}
  IN  InterviewSteps[CHOOSE n \in missing : \A m \in missing : n <= m]

KickstartAvailable(state) == state \in {"none", Bootstrap, InProgress}

-----------------------------------------------------------------------------
(***************************************************************************)
(* Foreground turns and reflection jobs.                                   *)
(***************************************************************************)
\* assemble_foreground_context reads the lifecycle and the interview's step.
BeginTurn(r) ==
  /\ At(r, "idle")
  /\ KickstartAvailable(lifecycle.state)
  /\ idRun' = [idRun EXCEPT
       ![r].at = "model", ![r].by = "turn", ![r].seen = lifecycle.state,
       ![r].step = IF lifecycle.state = InProgress /\ lifecycle.interview # NoInterview
                   THEN interviews[lifecycle.interview].step ELSE "none"]
  /\ UNCHANGED <<lifecycle, interviews, items, stable, edits, decision>>

\* A proposal recorded as accepted: where its merge starts.
StartOf(action) ==
  CASE action = "start" -> "start"
    [] action \in {"answer", "cancel"} -> "readForm"
    [] OTHER -> "read"

Propose(r, action) ==
  /\ decision' = [decision EXCEPT ![r] = "accepted"]
  /\ idRun' = [idRun EXCEPT ![r].at = StartOf(action), ![r].action = action]

\* The block of the model's answer: the worker asks what the context said, long
\* after it was read, and only of a template and of an answer.
WorkerProposes(r) ==
  /\ At(r, "model")
  /\ \/ idRun[r].seen \in {"none", Bootstrap} /\ Propose(r, "template")
     \/ idRun[r].step \in Steps /\ Propose(r, "answer")
     \/ Propose(r, "start")
     \/ Propose(r, "cancel")
  /\ UNCHANGED <<lifecycle, interviews, items, stable, edits>>

\* Without a block the harness reads the text of the trigger itself.
InferProposal(r) ==
  /\ At(r, "model")
  /\ \/ /\ idRun[r].seen \in {"none", Bootstrap}
        /\ Propose(r, "start") \/ Propose(r, "template")
     \/ /\ idRun[r].seen = InProgress
        /\ Propose(r, "cancel") \/ (idRun[r].step \in Steps /\ Propose(r, "answer"))
  /\ UNCHANGED <<lifecycle, interviews, items, stable, edits>>

\* A delta that adds looks for no target; any other finds it by its key, unless
\* it names it.
Nameable(op) ==
  {{}} \cup {{rk} : rk \in {x \in Items : op # "add" /\ items[x] # "absent"}}

\* A reflection names the operation, the item, its class and the state of the
\* lifecycle.  A stable class is rejected when the model says that the model
\* inferred the item, and accepted when it names another source.
ProposeReflection(r, delta, named, state) ==
  /\ At(r, "idle")
  /\ \/ /\ decision' = [decision EXCEPT ![r] = "accepted"]
        /\ idRun' = [idRun EXCEPT
             ![r].at = "read", ![r].by = "reflection", ![r].action = "delta",
             ![r].op = delta.op, ![r].key = delta.key, ![r].protects = delta.protects,
             ![r].named = named, ![r].target = state]
     \/ /\ delta.protects
        /\ decision' = [decision EXCEPT ![r] = "rejected"]
        /\ End(r)
  /\ UNCHANGED <<lifecycle, interviews, items, stable, edits>>

\* Or it describes itself: a delta with no class, key or target of its own.
ReflectOnSelf(r, op, state) ==
  /\ At(r, "idle")
  /\ decision' = [decision EXCEPT ![r] = "accepted"]
  /\ idRun' = [idRun EXCEPT ![r].at = "read", ![r].by = "reflection",
                  ![r].action = "describe", ![r].op = op, ![r].target = state]
  /\ UNCHANGED <<lifecycle, interviews, items, stable, edits>>

\* The structured output of a reflection has room for an interview action.
ReflectOnInterview(r, action, step) ==
  /\ At(r, "idle")
  /\ decision' = [decision EXCEPT ![r] = "accepted"]
  /\ idRun' = [idRun EXCEPT ![r].at = StartOf(action), ![r].by = "reflection",
                            ![r].action = action, ![r].step = step]
  /\ UNCHANGED <<lifecycle, interviews, items, stable, edits>>

-----------------------------------------------------------------------------
(***************************************************************************)
(* Operators.                                                              *)
(***************************************************************************)
\* Validation rejects an edit that revises or supersedes: its posture asks for
\* an artifact to supersede, and an edit names none.
EditAccepted(op) == op \notin Replacing

ProposeEdit(e, delta, named) ==
  /\ edits[e].status = "absent"
  /\ EditAccepted(delta.op)
  /\ edits' = [edits EXCEPT ![e] =
       [status |-> "pending_operator_review", op |-> delta.op, key |-> delta.key,
        protects |-> delta.protects, named |-> named]]
  /\ UNCHANGED <<lifecycle, interviews, items, stable, decision, idRun>>

\* The status is read before the merge, and written after it.
ApproveEdit(r, e) ==
  /\ At(r, "idle")
  /\ edits[e].status = "pending_operator_review"
  /\ idRun' = [idRun EXCEPT
       ![r].at = "read", ![r].by = "operator", ![r].action = "delta",
       ![r].op = edits[e].op, ![r].key = edits[e].key,
       ![r].protects = edits[e].protects, ![r].named = edits[e].named,
       ![r].target = Complete, ![r].edit = e]
  /\ UNCHANGED <<lifecycle, interviews, items, stable, edits, decision>>

RejectEdit(e) ==
  /\ edits[e].status = "pending_operator_review"
  /\ edits' = [edits EXCEPT ![e].status = "rejected"]
  /\ UNCHANGED <<lifecycle, interviews, items, stable, decision, idRun>>

SettleEdit(r) ==
  /\ At(r, "settle")
  /\ edits' = [edits EXCEPT ![idRun[r].edit].status =
                 IF decision[r] = "rejected" THEN "rejected" ELSE "merged"]
  /\ End(r)
  /\ UNCHANGED <<lifecycle, interviews, items, stable, decision>>

\* reset_to_bootstrap: the rows its updates find are locked until it commits.
BeginReset(r) ==
  /\ At(r, "idle")
  /\ \A q \in IdentityRuns : ~At(q, "reset")
  /\ idRun' = [idRun EXCEPT
       ![r].at = "reset", ![r].by = "operator", ![r].action = "reset",
       ![r].locked = {rk \in Items : items[rk] = "active"},
       ![r].forms = {i \in Interviews : interviews[i].status = "in_progress"}]
  /\ UNCHANGED <<lifecycle, interviews, items, stable, edits, decision>>

CommitReset(r) ==
  /\ At(r, "reset")
  /\ items' = [rk \in Items |->
                 IF rk \in idRun[r].locked THEN "superseded" ELSE items[rk]]
  /\ interviews' = [i \in Interviews |->
       IF i \in idRun[r].forms
       THEN [interviews[i] EXCEPT !.status = "cancelled", !.step = "cancelled"]
       ELSE interviews[i]]
  /\ Record(Bootstrap, NoInterview)
  /\ End(r)
  /\ UNCHANGED <<stable, edits, decision>>

-----------------------------------------------------------------------------
(***************************************************************************)
(* Merging a delta.                                                        *)
(***************************************************************************)
\* The lifecycle is read before the transaction begins.  The control check is of
\* items only: a description is added at once, or resolved.
ReadLifecycle(r) ==
  /\ At(r, "read")
  /\ idRun' = [idRun EXCEPT
       ![r].seen = lifecycle.state,
       ![r].at = IF idRun[r].action # "describe" THEN "check"
                 ELSE IF idRun[r].op = "add" THEN "commit" ELSE "resolve",
       ![r].left = IF idRun[r].action = "template" THEN ItemKeys ELSE {idRun[r].key}]
  /\ UNCHANGED <<lifecycle, interviews, items, stable, edits, decision>>

\* The control check of an item to add: there is none under its key, nor one of
\* its category whose text is nearly the same.
CheckAdd(r) ==
  /\ At(r, "check")
  /\ idRun[r].action = "template" \/ idRun[r].op = "add"
  /\ \E k \in idRun[r].left :
       \/ \E other \in Keys : CategoryOf[other] = CategoryOf[k] /\ Active(other)
          /\ Goto(r, "refuse")
       \/ /\ ~Active(k)
          /\ idRun' = [idRun EXCEPT ![r].left = @ \ {k},
                          ![r].at = IF idRun[r].left = {k} THEN "commit" ELSE @]
  /\ UNCHANGED <<lifecycle, interviews, items, stable, edits, decision>>

\* resolve_identity_delta_target: the item named, if it is active, or one of the
\* key (the last updated, and updates of confidence and weight are left out).
Targets(r) ==
  IF idRun[r].named # {} THEN {rk \in idRun[r].named : items[rk] = "active"}
  ELSE ActiveUnder(idRun[r].key)

\* The control check of a change looks for the target.  When there is none, the
\* change is not refused, and no class is looked at.
CheckTarget(r) ==
  /\ At(r, "check")
  /\ idRun[r].action = "delta" /\ idRun[r].op # "add"
  /\ \/ Targets(r) = {} /\ Goto(r, "resolve")
     \/ \E rk \in Targets(r) :
          idRun' = [idRun EXCEPT ![r].at = "inspect", ![r].row = {rk},
                                 ![r].found = Targets(r)]
  /\ UNCHANGED <<lifecycle, interviews, items, stable, edits, decision>>

\* Mutant: the class of the target is not looked at.
InspectsNoClass(r) ==
  /\ At(r, "inspect")
  /\ Goto(r, "resolve")
  /\ UNCHANGED <<lifecycle, interviews, items, stable, edits, decision>>

\* The target is read by a statement of its own: one that is gone passes too, one
\* that is stable takes reinforcement only, and only with the value it has.
InspectTarget(r) ==
  LET active == {rk \in idRun[r].row : items[rk] = "active"}
      reinforced == idRun[r].op = "reinforce"
  IN  /\ At(r, "inspect")
      /\ \/ active # {} /\ reinforced /\ Goto(r, "refuse")
         \/ active \cap stable # {} /\ ~reinforced /\ Goto(r, "refuse")
         \/ (active \cap stable = {} \/ reinforced) /\ Goto(r, "resolve")
      /\ UNCHANGED <<lifecycle, interviews, items, stable, edits, decision>>

\* The branch of the operation resolves the target again, whatever the check has
\* found, and asks nothing of its class.
ResolveTarget(r) ==
  /\ At(r, "resolve")
  /\ \/ Targets(r) = {} /\ Goto(r, "refuse")
     \/ \E rk \in Targets(r) :
          idRun' = [idRun EXCEPT ![r].at = "commit", ![r].row = {rk}]
  /\ UNCHANGED <<lifecycle, interviews, items, stable, edits, decision>>

\* What a merge inserts, and the class of it.
Inserted(r) ==
  {r} \X (IF idRun[r].action = "template" THEN Formed
          ELSE IF idRun[r].op \in Replacing \cup {"add"} THEN {idRun[r].key}
          ELSE {})
InsertedStable(r) ==
  IF idRun[r].action = "template" THEN {r} \X StableKeys
  ELSE IF idRun[r].protects THEN Inserted(r) ELSE {}

\* The items after it.  The update of a target gone since it was resolved changes
\* no row and is no error.
Merged(r) ==
  LET taken == IF idRun[r].op \in TakingAway THEN idRun[r].row ELSE {}
      gone == IF idRun[r].op = "expire" THEN "expired" ELSE "superseded"
  IN  [rk \in Items |->
         IF rk \in Inserted(r) THEN "active"
         ELSE IF rk \in taken /\ items[rk] = "active" THEN gone
         ELSE items[rk]]

\* The transition is recorded when the lifecycle read first was another.
CommitDelta(r) ==
  /\ At(r, "commit")
  /\ ~Held(r, idRun[r].row, NoInterview)
  /\ items' = Merged(r)
  /\ stable' = stable \cup InsertedStable(r)
  /\ IF idRun[r].seen # idRun[r].target
     THEN Record(idRun[r].target, NoInterview)
     ELSE UNCHANGED lifecycle
  /\ IF idRun[r].edit = NoEdit THEN End(r) ELSE Goto(r, "settle")
  /\ UNCHANGED <<interviews, edits, decision>>

\* The transaction is rolled back; the decision is changed after it.
Refuse(r) ==
  /\ At(r, "refuse")
  /\ decision' = [decision EXCEPT ![r] = "rejected"]
  /\ IF idRun[r].edit = NoEdit THEN End(r) ELSE Goto(r, "settle")
  /\ UNCHANGED <<lifecycle, interviews, items, stable, edits>>

-----------------------------------------------------------------------------
(***************************************************************************)
(* Merging a step of the interview.                                        *)
(***************************************************************************)
StartInterview(r, i) ==
  /\ At(r, "start")
  /\ interviews[i].status = "absent"
  /\ interviews' = [interviews EXCEPT ![i] =
       [status |-> "in_progress", step |-> InterviewSteps[1], answered |-> {}]]
  /\ Record(InProgress, i)
  /\ End(r)
  /\ UNCHANGED <<items, stable, edits, decision>>

\* Answers and cancellations find the interview through the lifecycle.
FindInterview(r) ==
  /\ At(r, "readForm")
  /\ LET i == lifecycle.interview
         found == IF idRun[r].action = "answer" THEN "advance" ELSE "closeForm"
     IN  IF i # NoInterview
         THEN idRun' = [idRun EXCEPT ![r].at = found, ![r].form = i]
         ELSE IF idRun[r].action = "answer" THEN Goto(r, "refuse")
         ELSE IF lifecycle.state = "none" THEN End(r)
         ELSE Goto(r, "cancel")
  /\ UNCHANGED <<lifecycle, interviews, items, stable, edits, decision>>

\* The answer is checked against the interview as read, and what is written is
\* computed from it, whatever the row has become.
ReadInterview(r) ==
  /\ At(r, "advance")
  /\ LET form == interviews[idRun[r].form]
         answered == form.answered \cup {idRun[r].step}
     IN  IF form.status # "in_progress" \/ form.step # idRun[r].step
         THEN Goto(r, "refuse")
         ELSE idRun' = [idRun EXCEPT ![r].at = "complete", ![r].answered = answered]
  /\ UNCHANGED <<lifecycle, interviews, items, stable, edits, decision>>

WriteAnswer(r) ==
  /\ At(r, "complete")
  /\ idRun[r].answered # Steps
  /\ ~Held(r, {}, idRun[r].form)
  /\ interviews' = [interviews EXCEPT ![idRun[r].form] =
       [status |-> "in_progress", step |-> NextMissing(idRun[r].answered),
        answered |-> idRun[r].answered]]
  /\ End(r)
  /\ UNCHANGED <<lifecycle, items, stable, edits, decision>>

\* The last answer: the interview, its items and the lifecycle in one
\* transaction, the items inserted with no check of those there are.
CompleteInterview(r) ==
  /\ At(r, "complete")
  /\ idRun[r].answered = Steps
  /\ ~Held(r, {}, idRun[r].form)
  /\ interviews' = [interviews EXCEPT ![idRun[r].form] =
       [status |-> "completed", step |-> "completed", answered |-> Steps]]
  /\ items' = [rk \in Items |-> IF rk \in {r} \X Formed THEN "active" ELSE items[rk]]
  /\ stable' = stable \cup ({r} \X StableKeys)
  /\ Record(Complete, NoInterview)
  /\ End(r)
  /\ UNCHANGED <<edits, decision>>

\* A cancellation is two statements, and neither asks what the state is.
CancelInterview(r) ==
  /\ At(r, "closeForm")
  /\ ~Held(r, {}, idRun[r].form)
  /\ interviews' = [interviews EXCEPT ![idRun[r].form] =
       [status |-> "cancelled", step |-> "cancelled", answered |-> {}]]
  /\ Goto(r, "cancel")
  /\ UNCHANGED <<lifecycle, items, stable, edits, decision>>

CancelKickstart(r) ==
  /\ At(r, "cancel")
  /\ Record(Bootstrap, NoInterview)
  /\ End(r)
  /\ UNCHANGED <<interviews, items, stable, edits, decision>>

\* A crash, or an error of a statement: nothing goes on with the proposal, and
\* an edit stays pending.
AbandonMerge(r) ==
  /\ ~At(r, "idle") /\ ~At(r, "done")
  /\ End(r)
  /\ UNCHANGED <<lifecycle, interviews, items, stable, edits, decision>>

IdentityNext ==
  \/ \E r \in IdentityRuns :
       \/ BeginTurn(r) \/ WorkerProposes(r) \/ InferProposal(r)
       \/ \E delta \in Proposable, state \in Named :
            \E named \in Nameable(delta.op) : ProposeReflection(r, delta, named, state)
       \/ \E op \in Describing, state \in Named : ReflectOnSelf(r, op, state)
       \/ \E action \in {"start", "cancel"} : ReflectOnInterview(r, action, "none")
       \/ \E step \in Steps : ReflectOnInterview(r, "answer", step)
       \/ \E e \in Edits : ApproveEdit(r, e)
       \/ SettleEdit(r) \/ BeginReset(r) \/ CommitReset(r)
       \/ ReadLifecycle(r) \/ CheckAdd(r) \/ CheckTarget(r)
       \/ InspectTarget(r) \/ ResolveTarget(r) \/ CommitDelta(r) \/ Refuse(r)
       \/ \E i \in Interviews : StartInterview(r, i)
       \/ FindInterview(r) \/ ReadInterview(r) \/ WriteAnswer(r)
       \/ CompleteInterview(r) \/ CancelInterview(r) \/ CancelKickstart(r)
       \/ AbandonMerge(r)
  \/ \E e \in Edits :
       \/ RejectEdit(e)
       \/ \E delta \in Proposable :
            \E named \in Nameable(delta.op) : ProposeEdit(e, delta, named)

IdentitySpec == IdentityInit /\ [][IdentityNext]_identityVars

-----------------------------------------------------------------------------
\* Whatever turns, reflections and operators run side by side, a stable item the
\* control check of a delta has seen is not taken away by that delta.  It stops
\* being active in the transaction of a reset, which leaves the lifecycle at the
\* bootstrap seed; by a delta of the self description, whose branch checks no
\* class; or by a delta that finds its target by the key, when at the check the
\* item was not there yet or another was active under its key.
StableSeenIsKept ==
  [][\A rk \in stable :
       items[rk] = "active" /\ items'[rk] # "active" =>
         \E r \in IdentityRuns :
           /\ idRun'[r].at # idRun[r].at
           /\ \/ /\ At(r, "reset") /\ rk \in idRun[r].locked
                 /\ lifecycle'.state = Bootstrap
              \/ /\ At(r, "commit") /\ rk \in idRun[r].row /\ rk[2] = idRun[r].key
                 /\ \/ idRun[r].action = "describe"
                    \/ idRun[r].named = {} /\ idRun[r].found # {rk}]_identityVars
=============================================================================
