---------------------------- MODULE IdentityProofs ----------------------------
(***************************************************************************)
(* Proofs about the identity: for any number of turns, reflections,        *)
(* operators and resets, any items and any interview, every table and run  *)
(* keeps its type, and a stable item that the control check of a delta has *)
(* seen is not taken away by that delta.                                   *)
(***************************************************************************)
EXTENDS Identity, WellFoundedInduction, TLAPS

-----------------------------------------------------------------------------
(***************************************************************************)
(* The types of the tables.  An answer is added to those of the interview  *)
(* it was read from, which its run has found, and is one of the steps.     *)
(***************************************************************************)
Proposers == {"turn", "reflection", "operator"}
Seen == LifecycleStates \cup {"none"}
StepNames == Steps \cup {"none", "cancelled", "completed"}
SomeSteps == SUBSET Steps
SomeItems == SUBSET Items
SomeKeys == SUBSET Keys
SomeForms == SUBSET Interviews
Forms == Interviews \cup {NoInterview}
MaybeEdit == Edits \cup {NoEdit}

RunRecords ==
  [at : IdentityPoints, by : Proposers, action : Actions, op : Operations, key : Keys,
   protects : BOOLEAN, named : SomeItems, target : LifecycleStates, edit : MaybeEdit,
   seen : Seen, left : SomeKeys, found : SomeItems, row : SomeItems, form : Forms,
   step : StepNames, answered : SomeSteps, locked : SomeItems, forms : SomeForms]

KnowsInterview(run) ==
  /\ run.at \in {"readForm", "advance"} /\ run.action = "answer" => run.step \in Steps
  /\ run.at = "advance" => run.form \in Interviews /\ run.action = "answer"

RunsTyped ==
  /\ idRun \in [IdentityRuns -> RunRecords]
  /\ \A r \in IdentityRuns : KnowsInterview(idRun[r])

InterviewRecords ==
  [status : {"absent", "in_progress", "completed", "cancelled"},
   step : Steps \cup {"none", "cancelled", "completed"}, answered : SUBSET Steps]

EditRecords ==
  [status : {"absent", "pending_operator_review", "merged", "rejected"},
   op : Operations, key : Keys, protects : BOOLEAN, named : SomeItems]

TablesTyped ==
  /\ lifecycle \in [state : LifecycleStates \cup {"none"},
                    interview : Interviews \cup {NoInterview}]
  /\ interviews \in [Interviews -> InterviewRecords]
  /\ items \in [Items -> ItemStatuses]
  /\ stable \in SomeItems
  /\ edits \in [Edits -> EditRecords]
  /\ decision \in [IdentityRuns -> {"none", "accepted", "rejected"}]

\* The two parts are the type invariant.
LEMMA TypeOfParts == TablesTyped /\ RunsTyped => IdentityTypeOK
BY DEF TablesTyped, RunsTyped, RunRecords, InterviewRecords, EditRecords, IdentityTypeOK,
       Proposers, Seen, StepNames, SomeSteps, SomeItems, SomeKeys, SomeForms, Forms, MaybeEdit

\* The first step that has no answer is one of the steps.
LEMMA NextIsStep ==
  ASSUME NEW answered \in SUBSET Steps, answered # Steps
  PROVE  NextMissing(answered) \in Steps
<1> DEFINE missing == {n \in DOMAIN InterviewSteps : InterviewSteps[n] \notin answered}
<1>1. missing # {}
  BY DEF Steps
<1>2. missing \subseteq Nat
  BY IdentityAssumption
<1>3. IsWellFoundedOn({ss \in Nat \X Nat : ss[1] < ss[2]}, Nat)
  BY NatLessThanWellFounded DEF OpToRel
<1> HIDE DEF missing
<1>4. PICK n \in missing : \A m \in missing : ~(<<m, n>> \in {ss \in Nat \X Nat : ss[1] < ss[2]})
  BY <1>1, <1>2, <1>3, WFMin
<1>5. ASSUME NEW m \in missing PROVE n <= m
  <2>1. <<m, n>> \in Nat \X Nat /\ <<m, n>>[1] = m /\ <<m, n>>[2] = n
    BY <1>2
  <2> QED
    BY <1>2, <1>4, <2>1
<1>6. (CHOOSE k \in missing : \A m \in missing : k <= m) \in missing
  BY <1>5
<1> QED
  BY <1>6 DEF NextMissing, missing, Steps

\* A run changes its own record only.
LEMMA RunTyped ==
  ASSUME RunsTyped, NEW r \in IdentityRuns, NEW run \in RunRecords, KnowsInterview(run),
         idRun' = [idRun EXCEPT ![r] = run]
  PROVE  RunsTyped'
<1>1. /\ idRun' \in [IdentityRuns -> RunRecords] /\ idRun'[r] = run
      /\ \A q \in IdentityRuns \ {r} : idRun'[q] = idRun[q]
  BY DEF RunsTyped
<1> QED
  BY <1>1 DEF RunsTyped

\* A run that goes on to a statement that reads no interview, or ends.
LEMMA GotoTyped ==
  ASSUME RunsTyped, NEW r \in IdentityRuns,
         NEW point \in IdentityPoints \ {"readForm", "advance"}, Goto(r, point)
  PROVE  RunsTyped'
<1>1. idRun[r] \in RunRecords
  BY DEF RunsTyped
<1>2. /\ [idRun[r] EXCEPT !.at = point] \in RunRecords
      /\ [idRun[r] EXCEPT !.at = point].at = point
  BY <1>1 DEF RunRecords
<1> QED
  BY <1>2, RunTyped DEF Goto, KnowsInterview

LEMMA IdleTyped ==
  /\ IdleRun \in RunRecords /\ [IdleRun EXCEPT !.at = "done"] \in RunRecords
  /\ KnowsInterview(IdleRun) /\ KnowsInterview([IdleRun EXCEPT !.at = "done"])
BY DEF IdleRun, RunRecords, KnowsInterview, IdentityPoints, Actions, Operations, Keys, Formed,
       LifecycleStates, Complete, Proposers, Seen, StepNames, SomeSteps, SomeItems, SomeKeys,
       SomeForms, Forms, MaybeEdit

LEMMA EndTyped ==
  ASSUME RunsTyped, NEW r \in IdentityRuns, End(r)
  PROVE  RunsTyped'
BY IdleTyped, RunTyped DEF End

\* A delta names one item at most, and one that exists.
LEMMA NameableItems ==
  ASSUME NEW op, NEW named \in Nameable(op)
  PROVE  /\ named \in SomeItems
         /\ \A rk \in named : named = {rk} /\ items[rk] # "absent"
BY DEF Nameable, SomeItems

\* A resolve only returns active items, of the key or the name it looks for.
LEMMA TargetsAreItems ==
  ASSUME RunsTyped, NEW r \in IdentityRuns, NEW rk \in Targets(r)
  PROVE  /\ rk \in Items /\ Targets(r) \in SUBSET Items /\ items[rk] = "active"
         /\ IF idRun[r].named = {} THEN rk[2] = idRun[r].key ELSE rk \in idRun[r].named
<1>1. idRun[r].named \in SUBSET Items
  BY DEF RunsTyped, RunRecords, SomeItems
<1> QED
  BY <1>1 DEF Targets, ActiveUnder

\* Every statement keeps the types of the runs.
LEMMA RunsStep ==
  ASSUME TablesTyped, RunsTyped, [IdentityNext]_identityVars
  PROVE  RunsTyped'
<1>p. /\ {"model", "read", "check", "inspect", "resolve", "commit", "start", "readForm", "advance", "complete",
          "closeForm", "cancel", "refuse", "settle", "reset", "done"} \subseteq IdentityPoints
      /\ {"start", "template", "cancel", "answer", "delta", "describe", "reset"} \subseteq Actions
      /\ Complete \in LifecycleStates /\ Proposers = {"turn", "reflection", "operator"}
      /\ "none" \in StepNames /\ Steps \subseteq StepNames
  BY DEF IdentityPoints, Actions, LifecycleStates, Complete, Proposers, StepNames
<1>0. /\ \A r \in IdentityRuns : idRun[r] \in RunRecords
      /\ lifecycle.state \in Seen /\ lifecycle.interview \in Forms
      /\ lifecycle.interview \in Interviews \cup {NoInterview}
      /\ \A i \in Interviews : interviews[i] \in InterviewRecords
      /\ \A e \in Edits : edits[e] \in EditRecords
      /\ \A e \in Edits : e \in MaybeEdit
  BY DEF TablesTyped, RunsTyped, Seen, Forms, MaybeEdit
<1>1. ASSUME NEW r \in IdentityRuns, BeginTurn(r)
      PROVE  RunsTyped'
  <2> DEFINE step == IF lifecycle.state = InProgress /\ lifecycle.interview # NoInterview
                     THEN interviews[lifecycle.interview].step ELSE "none"
             run == [idRun[r] EXCEPT !.at = "model", !.by = "turn",
                                     !.seen = lifecycle.state, !.step = step]
  <2>1. step \in StepNames
    BY <1>p, <1>0 DEF InterviewRecords, StepNames
  <2>2. idRun' = [idRun EXCEPT ![r] = run]
    BY <1>1 DEF BeginTurn
  <2> HIDE DEF step
  <2>3. run \in RunRecords /\ run.at = "model"
    BY <1>p, <1>0, <2>1, ZenonT(40) DEF RunRecords
  <2> HIDE DEF run
  <2> QED
    BY <2>2, <2>3, RunTyped DEF KnowsInterview
<1>2. ASSUME NEW r \in IdentityRuns, NEW action \in {"start", "template", "cancel", "answer"},
             Propose(r, action), action = "answer" => idRun[r].step \in Steps
      PROVE  RunsTyped'
  <2> DEFINE run == [idRun[r] EXCEPT !.at = StartOf(action), !.action = action]
  <2>1. StartOf(action) \in {"start", "read", "readForm"}
    BY DEF StartOf
  <2>2. /\ run \in RunRecords /\ run.at # "advance" /\ run.action = action
        /\ run.step = idRun[r].step
    BY <1>p, <1>0, <2>1, ZenonT(40) DEF RunRecords
  <2>3. idRun' = [idRun EXCEPT ![r] = run]
    BY <1>2 DEF Propose
  <2> HIDE DEF run
  <2> QED
    BY <1>2, <2>2, <2>3, RunTyped DEF KnowsInterview
<1>3. ASSUME NEW r \in IdentityRuns, WorkerProposes(r) \/ InferProposal(r)
      PROVE  RunsTyped'
  BY <1>2, <1>3 DEF WorkerProposes, InferProposal
<1>4. ASSUME NEW r \in IdentityRuns, NEW delta \in Proposable, NEW state \in Named,
             NEW named \in Nameable(delta.op), ProposeReflection(r, delta, named, state)
      PROVE  RunsTyped'
  <2> DEFINE run == [idRun[r] EXCEPT !.at = "read", !.by = "reflection", !.action = "delta",
                       !.op = delta.op, !.key = delta.key, !.protects = delta.protects,
                       !.named = named, !.target = state]
  <2>1. /\ delta.op \in Operations /\ delta.key \in Keys /\ delta.protects \in BOOLEAN
        /\ named \in SomeItems /\ state \in LifecycleStates
    BY IdentityAssumption, NameableItems DEF Deltas
  <2>2. run \in RunRecords /\ run.at = "read"
    BY <1>p, <1>0, <2>1, ZenonT(40) DEF RunRecords
  <2>3. idRun' = [idRun EXCEPT ![r] = run] \/ End(r)
    BY <1>4 DEF ProposeReflection
  <2> HIDE DEF run
  <2> QED
    BY <2>2, <2>3, RunTyped, EndTyped DEF KnowsInterview
<1>15. ASSUME NEW r \in IdentityRuns, NEW op \in Describing, NEW state \in Named,
              ReflectOnSelf(r, op, state)
       PROVE  RunsTyped'
  <2> DEFINE run == [idRun[r] EXCEPT !.at = "read", !.by = "reflection",
                                     !.action = "describe", !.op = op, !.target = state]
  <2>1. op \in Operations /\ state \in LifecycleStates
    BY IdentityAssumption
  <2>2. run \in RunRecords /\ run.at = "read"
    BY <1>p, <1>0, <2>1, ZenonT(40) DEF RunRecords
  <2>3. idRun' = [idRun EXCEPT ![r] = run]
    BY <1>15 DEF ReflectOnSelf
  <2> HIDE DEF run
  <2> QED
    BY <2>2, <2>3, RunTyped DEF KnowsInterview
<1>5. ASSUME NEW r \in IdentityRuns, NEW action \in {"start", "cancel", "answer"},
             NEW step \in Steps \cup {"none"}, action = "answer" => step \in Steps,
             ReflectOnInterview(r, action, step)
      PROVE  RunsTyped'
  <2> DEFINE run == [idRun[r] EXCEPT !.at = StartOf(action), !.by = "reflection",
                                     !.action = action, !.step = step]
  <2>1. StartOf(action) \in {"start", "readForm"}
    BY DEF StartOf
  <2>2. run \in RunRecords /\ run.at # "advance" /\ run.action = action /\ run.step = step
    BY <1>p, <1>0, <2>1, ZenonT(40) DEF RunRecords
  <2>3. idRun' = [idRun EXCEPT ![r] = run]
    BY <1>5 DEF ReflectOnInterview
  <2> HIDE DEF run
  <2> QED
    BY <1>5, <2>2, <2>3, RunTyped DEF KnowsInterview
<1>6. ASSUME NEW r \in IdentityRuns, NEW e \in Edits, ApproveEdit(r, e)
      PROVE  RunsTyped'
  <2> DEFINE run == [idRun[r] EXCEPT !.at = "read", !.by = "operator", !.action = "delta",
                       !.op = edits[e].op, !.key = edits[e].key,
                       !.protects = edits[e].protects, !.named = edits[e].named,
                       !.target = Complete, !.edit = e]
  <2>0. /\ edits[e].op \in Operations /\ edits[e].key \in Keys
        /\ edits[e].protects \in BOOLEAN /\ edits[e].named \in SomeItems
    BY <1>0 DEF EditRecords
  <2>1. run \in RunRecords /\ run.at = "read"
    BY <1>p, <1>0, <2>0, ZenonT(40) DEF RunRecords
  <2>2. idRun' = [idRun EXCEPT ![r] = run]
    BY <1>6 DEF ApproveEdit
  <2> HIDE DEF run
  <2> QED
    BY <2>1, <2>2, RunTyped DEF KnowsInterview
<1>7. ASSUME NEW r \in IdentityRuns, BeginReset(r)
      PROVE  RunsTyped'
  <2> DEFINE locked == {rk \in Items : items[rk] = "active"}
             forms == {i \in Interviews : interviews[i].status = "in_progress"}
             run == [idRun[r] EXCEPT !.at = "reset", !.by = "operator", !.action = "reset",
                                     !.locked = locked, !.forms = forms]
  <2>1. locked \in SomeItems /\ forms \in SomeForms
    BY DEF SomeItems, SomeForms
  <2>2. idRun' = [idRun EXCEPT ![r] = run]
    BY <1>7 DEF BeginReset
  <2> HIDE DEF locked, forms
  <2>3. run \in RunRecords /\ run.at = "reset"
    BY <1>p, <1>0, <2>1, ZenonT(40) DEF RunRecords
  <2> HIDE DEF run
  <2> QED
    BY <2>2, <2>3, RunTyped DEF KnowsInterview
<1>8. ASSUME NEW r \in IdentityRuns, ReadLifecycle(r)
      PROVE  RunsTyped'
  <2>1. PICK point \in {"check", "commit", "resolve"}, left \in {ItemKeys, {idRun[r].key}} :
          idRun' = [idRun EXCEPT ![r].seen = lifecycle.state, ![r].at = point, ![r].left = left]
    BY <1>8 DEF ReadLifecycle
  <2> DEFINE run == [idRun[r] EXCEPT !.seen = lifecycle.state, !.at = point, !.left = left]
  <2>2. left \in SomeKeys
    BY <1>0, <2>1 DEF SomeKeys, RunRecords, Keys, Formed
  <2>3. run \in RunRecords /\ run.at = point
    BY <1>p, <1>0, <2>2, ZenonT(40) DEF RunRecords
  <2>4. idRun' = [idRun EXCEPT ![r] = run]
    BY <2>1
  <2> HIDE DEF run
  <2> QED
    BY <2>3, <2>4, RunTyped DEF KnowsInterview
<1>16. ASSUME NEW r \in IdentityRuns, CheckAdd(r)
       PROVE  RunsTyped'
  <2>1. CASE Goto(r, "refuse")
    BY <1>p, <2>1, GotoTyped
  <2>2. CASE \E k \in idRun[r].left :
               idRun' = [idRun EXCEPT ![r].left = @ \ {k},
                           ![r].at = IF idRun[r].left = {k} THEN "commit" ELSE @]
    <3>1. PICK k \in idRun[r].left :
            idRun' = [idRun EXCEPT ![r].left = @ \ {k},
                        ![r].at = IF idRun[r].left = {k} THEN "commit" ELSE @]
      BY <2>2
    <3> DEFINE point == IF idRun[r].left = {k} THEN "commit" ELSE idRun[r].at
               rest == idRun[r].left \ {k}
               run == [idRun[r] EXCEPT !.left = rest, !.at = point]
    <3>2. point \in {"commit", "check"} /\ rest \in SomeKeys
      BY <1>0, <1>16 DEF CheckAdd, At, RunRecords, SomeKeys
    <3>3. idRun' = [idRun EXCEPT ![r] = run]
      BY <3>1
    <3> HIDE DEF point, rest
    <3>4. run \in RunRecords /\ run.at = point
      BY <1>p, <1>0, <3>2, ZenonT(40) DEF RunRecords
    <3> QED
      BY <3>2, <3>3, <3>4, RunTyped DEF KnowsInterview
  <2> QED
    BY <1>16, <2>1, <2>2 DEF CheckAdd
<1>17. ASSUME NEW r \in IdentityRuns, CheckTarget(r)
       PROVE  RunsTyped'
  <2>1. CASE Goto(r, "resolve")
    BY <1>p, <2>1, GotoTyped
  <2>2. CASE \E rk \in Targets(r) :
               idRun' = [idRun EXCEPT ![r].at = "inspect", ![r].row = {rk},
                                      ![r].found = Targets(r)]
    <3>1. PICK rk \in Targets(r) :
            idRun' = [idRun EXCEPT ![r].at = "inspect", ![r].row = {rk}, ![r].found = Targets(r)]
      BY <2>2
    <3> DEFINE run == [idRun[r] EXCEPT !.at = "inspect", !.row = {rk}, !.found = Targets(r)]
    <3>2. {rk} \in SomeItems /\ Targets(r) \in SomeItems
      BY TargetsAreItems DEF SomeItems
    <3>3. run \in RunRecords /\ run.at = "inspect"
      BY <1>p, <1>0, <3>2, ZenonT(40) DEF RunRecords
    <3>4. idRun' = [idRun EXCEPT ![r] = run]
      BY <3>1
    <3> QED
      BY <3>3, <3>4, RunTyped DEF KnowsInterview
  <2> QED
    BY <1>17, <2>1, <2>2 DEF CheckTarget
<1>18. ASSUME NEW r \in IdentityRuns, ResolveTarget(r)
       PROVE  RunsTyped'
  <2>1. CASE Goto(r, "refuse")
    BY <1>p, <2>1, GotoTyped
  <2>2. CASE \E rk \in Targets(r) :
               idRun' = [idRun EXCEPT ![r].at = "commit", ![r].row = {rk}]
    <3>1. PICK rk \in Targets(r) : idRun' = [idRun EXCEPT ![r].at = "commit", ![r].row = {rk}]
      BY <2>2
    <3> DEFINE run == [idRun[r] EXCEPT !.at = "commit", !.row = {rk}]
    <3>2. {rk} \in SomeItems
      BY TargetsAreItems DEF SomeItems
    <3>3. run \in RunRecords /\ run.at = "commit"
      BY <1>p, <1>0, <3>2, ZenonT(40) DEF RunRecords
    <3>4. idRun' = [idRun EXCEPT ![r] = run]
      BY <3>1
    <3> QED
      BY <3>3, <3>4, RunTyped DEF KnowsInterview
  <2> QED
    BY <1>18, <2>1, <2>2 DEF ResolveTarget
<1>9. ASSUME NEW r \in IdentityRuns, FindInterview(r)
      PROVE  RunsTyped'
  <2> DEFINE found == IF idRun[r].action = "answer" THEN "advance" ELSE "closeForm"
             run == [idRun[r] EXCEPT !.at = found, !.form = lifecycle.interview]
  <2>1. CASE lifecycle.interview # NoInterview
    <3>1. /\ run \in RunRecords /\ run.at = found /\ run.action = idRun[r].action
          /\ run.form \in Interviews /\ run.step = idRun[r].step
      BY <1>p, <1>0, <2>1, ZenonT(40) DEF RunRecords
    <3>2. idRun' = [idRun EXCEPT ![r] = run]
      BY <1>9, <2>1 DEF FindInterview
    <3>3. idRun[r].action = "answer" => idRun[r].step \in Steps
      BY <1>9 DEF FindInterview, At, RunsTyped, KnowsInterview
    <3>4. KnowsInterview(run)
      BY <3>1, <3>3 DEF KnowsInterview
    <3> HIDE DEF run
    <3> QED
      BY <3>1, <3>2, <3>4, RunTyped
  <2>2. CASE Goto(r, "refuse") \/ Goto(r, "cancel") \/ End(r)
    BY <1>p, <2>2, GotoTyped, EndTyped
  <2> QED
    BY <1>9, <2>1, <2>2 DEF FindInterview
<1>10. ASSUME NEW r \in IdentityRuns, ReadInterview(r)
       PROVE  RunsTyped'
  <2> DEFINE answered == interviews[idRun[r].form].answered \cup {idRun[r].step}
             run == [idRun[r] EXCEPT !.at = "complete", !.answered = answered]
  <2>1. CASE Goto(r, "refuse")
    BY <1>p, <2>1, GotoTyped
  <2>2. CASE idRun' = [idRun EXCEPT ![r] = run]
    <3>1. idRun[r].form \in Interviews /\ idRun[r].step \in Steps
      BY <1>10 DEF ReadInterview, At, RunsTyped, KnowsInterview
    <3>2. answered \in SomeSteps
      BY <1>0, <3>1 DEF InterviewRecords, SomeSteps
    <3> HIDE DEF answered
    <3>3. run \in RunRecords /\ run.at = "complete"
      BY <1>p, <1>0, <3>2, ZenonT(40) DEF RunRecords
    <3> QED
      BY <2>2, <3>3, RunTyped DEF KnowsInterview
  <2> QED
    BY <1>10, <2>1, <2>2 DEF ReadInterview
<1>11. ASSUME NEW r \in IdentityRuns,
              \/ SettleEdit(r) \/ CommitReset(r) \/ InspectTarget(r) \/ CommitDelta(r) \/ Refuse(r)
              \/ \E i \in Interviews : StartInterview(r, i)
              \/ WriteAnswer(r) \/ CompleteInterview(r) \/ CancelInterview(r)
              \/ CancelKickstart(r) \/ AbandonMerge(r)
       PROVE  RunsTyped'
  <2>1. End(r) \/ \E point \in {"refuse", "resolve", "settle", "cancel"} : Goto(r, point)
    BY <1>11 DEF SettleEdit, CommitReset, InspectTarget, CommitDelta, Refuse, StartInterview,
                 WriteAnswer, CompleteInterview, CancelInterview, CancelKickstart, AbandonMerge
  <2> QED
    BY <1>p, <2>1, EndTyped, GotoTyped
<1>12. ASSUME UNCHANGED idRun
       PROVE  RunsTyped'
  BY <1>12 DEF RunsTyped
<1>13. ASSUME NEW e \in Edits,
              \/ RejectEdit(e)
              \/ \E delta \in Proposable : \E named \in Nameable(delta.op) : ProposeEdit(e, delta, named)
       PROVE  RunsTyped'
  BY <1>12, <1>13 DEF RejectEdit, ProposeEdit
<1>14. ASSUME NEW r \in IdentityRuns,
              \/ \E action \in {"start", "cancel"} : ReflectOnInterview(r, action, "none")
              \/ \E step \in Steps : ReflectOnInterview(r, "answer", step)
       PROVE  RunsTyped'
  BY <1>5, <1>14
<1> QED
  BY <1>1, <1>3, <1>4, <1>6, <1>7, <1>8, <1>9, <1>10, <1>11, <1>12, <1>13, <1>14,
     <1>15, <1>16, <1>17, <1>18
     DEF IdentityNext, identityVars

\* A merge inserts items of its own run.
LEMMA InsertedItems ==
  ASSUME RunsTyped, NEW r \in IdentityRuns
  PROVE  Inserted(r) \subseteq Items /\ InsertedStable(r) \subseteq Inserted(r)
<1>1. idRun[r].key \in Keys
  BY DEF RunsTyped, RunRecords
<1>2. Inserted(r) \subseteq Items
  BY <1>1 DEF Inserted, Items, Keys
<1>3. InsertedStable(r) \subseteq Inserted(r)
  BY IdentityAssumption DEF InsertedStable, Inserted, Formed
<1> QED
  BY <1>2, <1>3

\* Every statement keeps the types of the tables.
LEMMA TablesStep ==
  ASSUME TablesTyped, RunsTyped, [IdentityNext]_identityVars
  PROVE  TablesTyped'
<1>0. /\ \A r \in IdentityRuns : idRun[r] \in RunRecords
      /\ lifecycle.state \in LifecycleStates \cup {"none"}
      /\ interviews \in [Interviews -> InterviewRecords]
      /\ items \in [Items -> ItemStatuses] /\ stable \in SomeItems
      /\ edits \in [Edits -> EditRecords]
      /\ decision \in [IdentityRuns -> {"none", "accepted", "rejected"}]
  BY DEF TablesTyped, RunsTyped
<1>1. ASSUME UNCHANGED <<lifecycle, interviews, items, stable, edits>>,
             decision' = decision \/
               \E r \in IdentityRuns, answer \in {"accepted", "rejected"} :
                 decision' = [decision EXCEPT ![r] = answer]
      PROVE  TablesTyped'
  BY <1>1 DEF TablesTyped
<1>2. ASSUME NEW r \in IdentityRuns,
             \/ BeginTurn(r) \/ WorkerProposes(r) \/ InferProposal(r)
             \/ \E delta \in Proposable, state \in Named : \E named \in Nameable(delta.op) :
                  ProposeReflection(r, delta, named, state)
             \/ \E op \in Describing, state \in Named : ReflectOnSelf(r, op, state)
             \/ \E action \in {"start", "cancel"} : ReflectOnInterview(r, action, "none")
             \/ \E step \in Steps : ReflectOnInterview(r, "answer", step)
             \/ \E e \in Edits : ApproveEdit(r, e)
      PROVE  TablesTyped'
  <2>1. /\ UNCHANGED <<lifecycle, interviews, items, stable, edits>>
        /\ \/ UNCHANGED decision
           \/ \E answer \in {"accepted", "rejected"} : decision' = [decision EXCEPT ![r] = answer]
    BY <1>2, ZenonT(40) DEF BeginTurn, WorkerProposes, InferProposal, ProposeReflection, ReflectOnSelf,
                ReflectOnInterview, ApproveEdit, Propose
  <2> QED
    BY <1>1, <2>1
<1>3. ASSUME NEW r \in IdentityRuns,
             \/ BeginReset(r) \/ ReadLifecycle(r) \/ CheckAdd(r) \/ CheckTarget(r)
             \/ InspectTarget(r) \/ ResolveTarget(r) \/ Refuse(r)
             \/ FindInterview(r) \/ ReadInterview(r) \/ AbandonMerge(r)
      PROVE  TablesTyped'
  <2>1. /\ UNCHANGED <<lifecycle, interviews, items, stable, edits>>
        /\ \/ UNCHANGED decision
           \/ \E answer \in {"accepted", "rejected"} : decision' = [decision EXCEPT ![r] = answer]
    BY <1>3 DEF BeginReset, ReadLifecycle, CheckAdd, CheckTarget, InspectTarget, ResolveTarget,
                Refuse, FindInterview, ReadInterview, AbandonMerge
  <2> QED
    BY <1>1, <2>1
<1>4. ASSUME NEW state \in LifecycleStates, NEW i \in Interviews \cup {NoInterview},
             Record(state, i)
      PROVE  lifecycle' \in [state : LifecycleStates \cup {"none"},
                             interview : Interviews \cup {NoInterview}]
  BY <1>4 DEF Record
<1>5. ASSUME NEW i, NEW form \in InterviewRecords, interviews' = [interviews EXCEPT ![i] = form]
      PROVE  interviews' \in [Interviews -> InterviewRecords]
  BY <1>0, <1>5
<1>6. ASSUME NEW r \in IdentityRuns, SettleEdit(r)
      PROVE  TablesTyped'
  <2>1. PICK status \in {"merged", "rejected"} :
          edits' = [edits EXCEPT ![idRun[r].edit].status = status]
    BY <1>6, Zenon DEF SettleEdit
  <2>2. edits' \in [Edits -> EditRecords]
    BY <1>0, <2>1 DEF EditRecords
  <2> QED
    BY <1>6, <2>2 DEF SettleEdit, TablesTyped
<1>7. ASSUME NEW r \in IdentityRuns, CommitReset(r)
      PROVE  TablesTyped'
  <2>1. items' \in [Items -> ItemStatuses]
    BY <1>0, <1>7 DEF CommitReset, ItemStatuses
  <2>2. \A i \in Interviews :
          [interviews[i] EXCEPT !.status = "cancelled", !.step = "cancelled"] \in InterviewRecords
    BY <1>0 DEF InterviewRecords
  <2>3. interviews' \in [Interviews -> InterviewRecords]
    BY <1>0, <1>7, <2>2 DEF CommitReset
  <2>4. Record(Bootstrap, NoInterview) /\ Bootstrap \in LifecycleStates
    BY <1>7 DEF CommitReset, Bootstrap, LifecycleStates
  <2> QED
    BY <1>4, <1>7, <2>1, <2>3, <2>4 DEF CommitReset, TablesTyped
<1>8. ASSUME NEW r \in IdentityRuns, CommitDelta(r)
      PROVE  TablesTyped'
  <2>1. items' \in [Items -> ItemStatuses]
    BY <1>0, <1>8 DEF CommitDelta, Merged, ItemStatuses
  <2>2. stable' \in SomeItems
    BY <1>0, <1>8, InsertedItems DEF CommitDelta, SomeItems
  <2>3. UNCHANGED lifecycle \/ Record(idRun[r].target, NoInterview)
    BY <1>8 DEF CommitDelta
  <2>4. idRun[r].target \in LifecycleStates
    BY <1>0 DEF RunRecords
  <2> QED
    BY <1>4, <1>8, <2>1, <2>2, <2>3, <2>4 DEF CommitDelta, TablesTyped
<1>9. ASSUME NEW r \in IdentityRuns, NEW i \in Interviews, StartInterview(r, i)
      PROVE  TablesTyped'
  <2>1. InterviewSteps[1] \in Steps
    BY IdentityAssumption DEF Steps
  <2>2. [status |-> "in_progress", step |-> InterviewSteps[1], answered |-> {}] \in InterviewRecords
    BY <2>1 DEF InterviewRecords
  <2>3. interviews' \in [Interviews -> InterviewRecords]
    BY <1>5, <1>9, <2>2 DEF StartInterview
  <2>4. Record(InProgress, i) /\ InProgress \in LifecycleStates
    BY <1>9 DEF StartInterview, InProgress, LifecycleStates
  <2> QED
    BY <1>4, <1>9, <2>3, <2>4 DEF StartInterview, TablesTyped
<1>10. ASSUME NEW r \in IdentityRuns, WriteAnswer(r)
       PROVE  TablesTyped'
  <2>1. idRun[r].answered \in SUBSET Steps
    BY <1>0 DEF RunRecords, SomeSteps
  <2>2. NextMissing(idRun[r].answered) \in Steps
    BY <1>10, <2>1, NextIsStep DEF WriteAnswer
  <2>3. [status |-> "in_progress", step |-> NextMissing(idRun[r].answered),
         answered |-> idRun[r].answered] \in InterviewRecords
    BY <2>1, <2>2 DEF InterviewRecords
  <2>4. interviews' \in [Interviews -> InterviewRecords]
    BY <1>5, <1>10, <2>3 DEF WriteAnswer
  <2> QED
    BY <1>10, <2>4 DEF WriteAnswer, TablesTyped
<1>11. ASSUME NEW r \in IdentityRuns, CompleteInterview(r)
       PROVE  TablesTyped'
  <2>1. [status |-> "completed", step |-> "completed", answered |-> Steps] \in InterviewRecords
    BY DEF InterviewRecords
  <2>2. interviews' \in [Interviews -> InterviewRecords]
    BY <1>5, <1>11, <2>1 DEF CompleteInterview
  <2>3. items' \in [Items -> ItemStatuses]
    BY <1>0, <1>11 DEF CompleteInterview, ItemStatuses
  <2>4. Record(Complete, NoInterview) /\ Complete \in LifecycleStates
    BY <1>11 DEF CompleteInterview, Complete, LifecycleStates
  <2>5. stable' \in SomeItems
    BY <1>0, <1>11, IdentityAssumption DEF CompleteInterview, SomeItems, Items, Keys, Formed
  <2> QED
    BY <1>4, <1>11, <2>2, <2>3, <2>4, <2>5 DEF CompleteInterview, TablesTyped
<1>12. ASSUME NEW r \in IdentityRuns, CancelInterview(r)
       PROVE  TablesTyped'
  <2>1. [status |-> "cancelled", step |-> "cancelled", answered |-> {}] \in InterviewRecords
    BY DEF InterviewRecords
  <2>2. interviews' \in [Interviews -> InterviewRecords]
    BY <1>5, <1>12, <2>1 DEF CancelInterview
  <2> QED
    BY <1>12, <2>2 DEF CancelInterview, TablesTyped
<1>13. ASSUME NEW r \in IdentityRuns, CancelKickstart(r)
       PROVE  TablesTyped'
  <2>1. Record(Bootstrap, NoInterview) /\ Bootstrap \in LifecycleStates
    BY <1>13 DEF CancelKickstart, Bootstrap, LifecycleStates
  <2> QED
    BY <1>4, <1>13, <2>1 DEF CancelKickstart, TablesTyped
<1>14. ASSUME NEW e \in Edits, RejectEdit(e)
       PROVE  TablesTyped'
  <2>1. edits' \in [Edits -> EditRecords]
    BY <1>0, <1>14 DEF RejectEdit, EditRecords
  <2> QED
    BY <1>14, <2>1 DEF RejectEdit, TablesTyped
<1>15. ASSUME NEW e \in Edits, NEW delta \in Proposable, NEW named \in Nameable(delta.op),
              ProposeEdit(e, delta, named)
       PROVE  TablesTyped'
  <2> DEFINE edit == [status |-> "pending_operator_review", op |-> delta.op, key |-> delta.key,
                      protects |-> delta.protects, named |-> named]
  <2>1. edit \in EditRecords
    BY IdentityAssumption, NameableItems DEF Deltas, EditRecords
  <2>2. edits' = [edits EXCEPT ![e] = edit]
    BY <1>15 DEF ProposeEdit
  <2>3. edits' \in [Edits -> EditRecords]
    BY <1>0, <2>1, <2>2
  <2> QED
    BY <1>15, <2>3 DEF ProposeEdit, TablesTyped
<1>16. CASE UNCHANGED identityVars
  BY <1>16 DEF identityVars, TablesTyped
<1> QED
  BY <1>2, <1>3, <1>6, <1>7, <1>8, <1>9, <1>10, <1>11, <1>12, <1>13, <1>14, <1>15, <1>16
     DEF IdentityNext

\* The tables start so.
LEMMA InitTyped == IdentityInit => TablesTyped /\ RunsTyped
<1> SUFFICES ASSUME IdentityInit PROVE TablesTyped /\ RunsTyped
  OBVIOUS
<1>1. RunsTyped
  BY IdleTyped DEF IdentityInit, RunsTyped
<1>2. TablesTyped
  BY DEF IdentityInit, TablesTyped, InterviewRecords, EditRecords, NoEditYet, ItemStatuses,
         Operations, Keys, Formed, SomeItems
<1> QED
  BY <1>1, <1>2

\* Any number of turns, reflections, operators and resets: every table and every
\* run keeps its type, the next step of an interview included.
THEOREM IdentityTypeCorrect == IdentitySpec => []IdentityTypeOK
<1>1. IdentityInit => TablesTyped /\ RunsTyped
  BY InitTyped
<1>2. TablesTyped /\ RunsTyped /\ [IdentityNext]_identityVars => TablesTyped' /\ RunsTyped'
  BY TablesStep, RunsStep
<1> QED
  BY <1>1, <1>2, TypeOfParts, PTL DEF IdentitySpec

-----------------------------------------------------------------------------
(***************************************************************************)
(* What a delta has seen.  Its second resolve checks no class, so that it  *)
(* spares a stable item must follow from what the check found: of a stable *)
(* item that was the only one found, or is the one named, the delta either *)
(* was refused, or the item was no longer active.  Neither changes, since  *)
(* an item only becomes active, or stable, when its own run inserts it.    *)
(***************************************************************************)
\* A run's record: what it names, and what each resolve has returned.
RunKnows(run) ==
  /\ run.at = "idle" => run = IdleRun
  /\ run.at \in {"model", "read", "check"} => run.found = {} /\ run.row = {}
  /\ \A rk \in run.named : run.named = {rk}
  /\ run.action = "describe" => run.named = {}
  /\ run.at = "inspect" =>
       /\ run.action = "delta"
       /\ \E rk \in run.found :
            run.row = {rk} /\ (run.named = {} \/ rk \in run.named)
  /\ run.at = "resolve" => run.action \in {"delta", "describe"}
  /\ run.at = "commit" =>
       \A rk \in run.row :
         /\ run.action \in {"delta", "describe"}
         /\ IF run.named = {} THEN rk[2] = run.key ELSE rk \in run.named

\* What a run has read of the items were items.
RowsExist(run) == \A rk \in run.named \cup run.found \cup run.locked : items[rk] # "absent"

\* A delta past its check that takes an item away: no stable item it has seen.
SeenIsSafe(run) ==
  /\ run.at \in {"resolve", "commit"}
  /\ run.action = "delta" /\ run.op \in TakingAway
  => \A rk \in stable : items[rk] = "active" => run.found # {rk} /\ rk \notin run.named

RunSound(run) == RunKnows(run) /\ RowsExist(run) /\ SeenIsSafe(run)

\* A run inserts its items in its last transaction.
Merging(run) == run.at \notin {"settle", "done"}
InsertedOnce ==
  \A rk \in Items : Merging(idRun[rk[1]]) => items[rk] = "absent"

EditsSound ==
  \A e \in Edits : \A rk \in edits[e].named :
    edits[e].named = {rk} /\ items[rk] # "absent"

SeenInvariant ==
  /\ TablesTyped /\ RunsTyped
  /\ \A r \in IdentityRuns : RunSound(idRun[r])
  /\ InsertedOnce
  /\ EditsSound

\* Items that exist stay, become active no more, and keep their class; those of
\* other runs than one that ends are not inserted.
ItemsOnlyAge(r) ==
  /\ \A rk \in Items : items[rk] # "absent" =>
       /\ items'[rk] # "absent"
       /\ items'[rk] = "active" => items[rk] = "active"
       /\ rk \in stable' => rk \in stable
  /\ \A rk \in Items : rk[1] # r /\ items[rk] = "absent" => items'[rk] = "absent"

\* A run that changes its own record, while the items only age.
LEMMA RunStays ==
  ASSUME SeenInvariant, NEW r \in IdentityRuns, ItemsOnlyAge(r), TablesTyped', RunsTyped',
         NEW q \in IdentityRuns, idRun'[q] = idRun[q]
  PROVE  RunSound(idRun[q])'
<1>0. /\ RunKnows(idRun[q]) /\ RowsExist(idRun[q]) /\ SeenIsSafe(idRun[q])
      /\ idRun[q] \in RunRecords /\ stable \subseteq Items
  BY DEF SeenInvariant, RunSound, RunsTyped, TablesTyped, SomeItems
<1>1. RunKnows(idRun[q])'
  BY <1>0 DEF RunKnows
<1>2. \A rk \in idRun[q].named \cup idRun[q].found \cup idRun[q].locked : rk \in Items
  BY <1>0 DEF RunRecords, SomeItems
<1>3. RowsExist(idRun[q])'
  BY <1>0, <1>2 DEF RowsExist, ItemsOnlyAge
<1>4. SeenIsSafe(idRun[q])'
  <2> SUFFICES ASSUME idRun[q].at \in {"resolve", "commit"}, idRun[q].action = "delta",
                      idRun[q].op \in TakingAway, NEW rk \in stable', items'[rk] = "active",
                      idRun[q].found = {rk} \/ rk \in idRun[q].named
               PROVE  FALSE
    BY DEF SeenIsSafe
  <2>1. rk \in Items /\ items[rk] # "absent"
    BY <1>0, <1>2 DEF RowsExist
  <2>2. items[rk] = "active" /\ rk \in stable
    BY <2>1 DEF ItemsOnlyAge
  <2> QED
    BY <1>0, <2>2 DEF SeenIsSafe
<1> QED
  BY <1>1, <1>3, <1>4 DEF RunSound

LEMMA RunChanges ==
  ASSUME SeenInvariant, NEW r \in IdentityRuns, NEW run, RunSound(run)', ItemsOnlyAge(r),
         TablesTyped', RunsTyped', UNCHANGED edits,
         idRun' = [idRun EXCEPT ![r] = run],
         \/ /\ Merging(run) => Merging(idRun[r])
            /\ \A rk \in Items : items[rk] = "absent" => items'[rk] = "absent"
         \/ ~Merging(run)
  PROVE  SeenInvariant'
<1>1. /\ idRun'[r] = run
      /\ \A q \in IdentityRuns \ {r} : idRun'[q] = idRun[q]
  BY DEF SeenInvariant, RunsTyped
<1>2. ASSUME NEW q \in IdentityRuns PROVE RunSound(idRun[q])'
  <2>1. CASE q = r
    BY <1>1, <2>1 DEF RunSound, RunKnows, RowsExist, SeenIsSafe
  <2>2. CASE q # r
    BY <1>1, <2>2, RunStays
  <2> QED
    BY <2>1, <2>2
<1>3. InsertedOnce'
  <2> SUFFICES ASSUME NEW rk \in Items, Merging(idRun'[rk[1]])
               PROVE  items'[rk] = "absent"
    BY DEF InsertedOnce, Merging
  <2>1. rk[1] \in IdentityRuns
    BY DEF Items
  <2>2. CASE rk[1] = r
    BY <1>1, <2>2 DEF SeenInvariant, InsertedOnce
  <2>3. CASE rk[1] # r
    BY <1>1, <2>1, <2>3 DEF SeenInvariant, InsertedOnce, ItemsOnlyAge
  <2> QED
    BY <2>2, <2>3
<1>4. EditsSound'
  <2>1. \A e \in Edits : edits[e].named \subseteq Items
    BY DEF SeenInvariant, TablesTyped, EditRecords, SomeItems
  <2> QED
    BY <2>1 DEF SeenInvariant, EditsSound, ItemsOnlyAge
<1> QED
  BY <1>2, <1>3, <1>4 DEF SeenInvariant

\* A step that leaves the items alone.
LEMMA QuietStep ==
  ASSUME SeenInvariant, NEW r \in IdentityRuns, NEW run, RunSound(run),
         UNCHANGED <<items, stable, edits>>, TablesTyped', RunsTyped',
         idRun' = [idRun EXCEPT ![r] = run], Merging(run) => Merging(idRun[r])
  PROVE  SeenInvariant'
<1>1. ItemsOnlyAge(r)
  BY DEF ItemsOnlyAge
<1>2. RunSound(run)'
  BY DEF RunSound, RunKnows, RowsExist, SeenIsSafe
<1> QED
  BY <1>1, <1>2, RunChanges

\* A run that ends, or goes to a statement that resolves nothing.
LEMMA EndSound == RunSound([IdleRun EXCEPT !.at = "done"]) /\ RunSound(IdleRun)
BY DEF RunSound, RunKnows, RowsExist, SeenIsSafe, IdleRun

LEMMA GotoSound ==
  ASSUME SeenInvariant, NEW r \in IdentityRuns, NEW point \in {"refuse", "settle", "cancel"}
  PROVE  /\ RunSound([idRun[r] EXCEPT !.at = point])
         /\ [idRun[r] EXCEPT !.at = point].at = point
<1>1. RunKnows(idRun[r]) /\ RowsExist(idRun[r]) /\ idRun[r] \in RunRecords
  BY DEF SeenInvariant, RunSound, RunsTyped
<1> DEFINE run == [idRun[r] EXCEPT !.at = point]
<1>2. /\ run.at = point /\ run.named = idRun[r].named /\ run.found = idRun[r].found
      /\ run.locked = idRun[r].locked /\ run.action = idRun[r].action
  BY <1>1 DEF RunRecords
<1> HIDE DEF run
<1>3. RunSound(run)
  BY <1>1, <1>2 DEF RunSound, RunKnows, RowsExist, SeenIsSafe
<1> QED
  BY <1>2, <1>3 DEF run

\* A run ends or goes on, and leaves the items alone.
LEMMA QuietEnd ==
  ASSUME SeenInvariant, NEW r \in IdentityRuns, UNCHANGED <<items, stable, edits>>,
         TablesTyped', RunsTyped',
         \/ End(r)
         \/ /\ Merging(idRun[r])
            /\ \E point \in {"refuse", "settle", "cancel"} : Goto(r, point)
  PROVE  SeenInvariant'
<1>1. CASE End(r)
  <2>1. ~Merging([IdleRun EXCEPT !.at = "done"])
    BY DEF Merging, IdleRun
  <2> QED
    BY <1>1, <2>1, EndSound, QuietStep DEF End
<1>2. CASE Merging(idRun[r]) /\ \E point \in {"refuse", "settle", "cancel"} : Goto(r, point)
  BY <1>2, GotoSound, QuietStep DEF Goto
<1> QED
  BY <1>1, <1>2

\* The three statements that write items.
LEMMA MergesOnlyAge ==
  ASSUME SeenInvariant, NEW r \in IdentityRuns,
         CommitDelta(r) \/ CompleteInterview(r) \/ CommitReset(r)
  PROVE  ItemsOnlyAge(r)
<1>1. ASSUME Merging(idRun[r]), NEW rk \in Items, rk[1] = r
      PROVE  items[rk] = "absent"
  BY <1>1 DEF SeenInvariant, InsertedOnce
<1>2. CASE CommitDelta(r)
  <2>1. Merging(idRun[r])
    BY <1>2 DEF CommitDelta, At, Merging
  <2>2. \A rk \in Inserted(r) : rk \in Items /\ rk[1] = r
    BY InsertedItems DEF SeenInvariant, Inserted
  <2>3. /\ \A rk \in Items : items'[rk] = "active" => rk \in Inserted(r) \/ items[rk] = "active"
        /\ \A rk \in Items : items[rk] # "absent" => items'[rk] # "absent"
        /\ \A rk \in Items : rk \notin Inserted(r) /\ items[rk] = "absent" => items'[rk] = "absent"
    BY <1>2 DEF CommitDelta, Merged
  <2>4. stable' \subseteq stable \cup Inserted(r)
    BY <1>2, InsertedItems DEF CommitDelta, SeenInvariant
  <2> QED
    BY <1>1, <2>1, <2>2, <2>3, <2>4 DEF ItemsOnlyAge
<1>3. CASE CompleteInterview(r)
  <2>1. Merging(idRun[r])
    BY <1>3 DEF CompleteInterview, At, Merging
  <2>2. /\ \A rk \in Items : items'[rk] = items[rk] \/ (rk[1] = r /\ items'[rk] = "active")
        /\ \A rk \in stable' : rk \in stable \/ rk[1] = r
    BY <1>3 DEF CompleteInterview
  <2> QED
    BY <1>1, <2>1, <2>2 DEF ItemsOnlyAge
<1>4. CASE CommitReset(r)
  <2>1. \A rk \in idRun[r].locked : items[rk] # "absent"
    BY DEF SeenInvariant, RunSound, RowsExist
  <2>2. /\ UNCHANGED stable
        /\ \A rk \in Items :
             items'[rk] = IF rk \in idRun[r].locked THEN "superseded" ELSE items[rk]
    BY <1>4 DEF CommitReset
  <2> QED
    BY <2>1, <2>2 DEF ItemsOnlyAge
<1> QED
  BY <1>2, <1>3, <1>4

\* What an idle run knows is nothing; what any run knows, it keeps.
LEMMA SeenStep ==
  ASSUME SeenInvariant, [IdentityNext]_identityVars
  PROVE  SeenInvariant'
<1>t. TablesTyped' /\ RunsTyped'
  BY TablesStep, RunsStep DEF SeenInvariant
<1>0. \A r \in IdentityRuns :
        /\ idRun[r] \in RunRecords /\ RunKnows(idRun[r])
        /\ RowsExist(idRun[r]) /\ SeenIsSafe(idRun[r])
  BY DEF SeenInvariant, RunSound, RunsTyped
<1>i. ASSUME NEW r \in IdentityRuns, At(r, "idle")
      PROVE  idRun[r] = IdleRun
  BY <1>0, <1>i DEF At, RunKnows
<1>1. ASSUME NEW r \in IdentityRuns, BeginTurn(r)
      PROVE  SeenInvariant'
  <2>1. PICK step : idRun' = [idRun EXCEPT ![r].at = "model", ![r].by = "turn",
                                ![r].seen = lifecycle.state, ![r].step = step]
    BY <1>1 DEF BeginTurn
  <2> DEFINE run == [idRun[r] EXCEPT !.at = "model", !.by = "turn",
                                     !.seen = lifecycle.state, !.step = step]
  <2>2. RunSound(run) /\ Merging(idRun[r])
    BY <1>1, <1>i DEF BeginTurn, RunSound, RunKnows, RowsExist, SeenIsSafe, IdleRun, Merging
  <2>3. idRun' = [idRun EXCEPT ![r] = run]
    BY <2>1
  <2> HIDE DEF run
  <2> QED
    BY <1>1, <1>t, <2>2, <2>3, QuietStep DEF BeginTurn
<1>2. ASSUME NEW r \in IdentityRuns, NEW action \in {"start", "template", "cancel", "answer"},
             At(r, "model"), Propose(r, action), UNCHANGED <<items, stable, edits>>
      PROVE  SeenInvariant'
  <2> DEFINE point == StartOf(action)
             run == [idRun[r] EXCEPT !.at = point, !.action = action]
  <2>1. point \in {"start", "read", "readForm"}
    BY DEF StartOf
  <2> HIDE DEF point
  <2>2. /\ run.at = point /\ run.action = action /\ run.named = idRun[r].named
        /\ run.found = idRun[r].found /\ run.row = idRun[r].row /\ run.locked = idRun[r].locked
    BY <1>0 DEF RunRecords
  <2>3. idRun' = [idRun EXCEPT ![r] = run]
    BY <1>2 DEF Propose, point
  <2> HIDE DEF run
  <2>4. RunKnows(idRun[r]) /\ RowsExist(idRun[r]) /\ idRun[r].at = "model"
    BY <1>0, <1>2 DEF At
  <2>5. RunSound(run) /\ Merging(idRun[r])
    BY <2>1, <2>2, <2>4 DEF RunSound, RunKnows, RowsExist, SeenIsSafe, Merging
  <2> QED
    BY <1>2, <1>t, <2>3, <2>5, QuietStep
<1>3. ASSUME NEW r \in IdentityRuns, WorkerProposes(r) \/ InferProposal(r)
      PROVE  SeenInvariant'
  BY <1>2, <1>3 DEF WorkerProposes, InferProposal
<1>4. ASSUME NEW r \in IdentityRuns, NEW delta \in Proposable, NEW state \in Named,
             NEW named \in Nameable(delta.op), ProposeReflection(r, delta, named, state)
      PROVE  SeenInvariant'
  <2> DEFINE run == [idRun[r] EXCEPT !.at = "read", !.by = "reflection", !.action = "delta",
                       !.op = delta.op, !.key = delta.key, !.protects = delta.protects,
                       !.named = named, !.target = state]
  <2>1. /\ idRun[r] = IdleRun /\ UNCHANGED <<items, stable, edits>>
        /\ idRun' = [idRun EXCEPT ![r] = run] \/ End(r)
    BY <1>4, <1>i DEF ProposeReflection
  <2>2. /\ run.at = "read" /\ run.action = "delta" /\ run.named = named
        /\ run.found = {} /\ run.row = {} /\ run.locked = {}
    BY <2>1 DEF IdleRun
  <2> HIDE DEF run
  <2>3. RunSound(run) /\ Merging(idRun[r])
    BY <2>1, <2>2, NameableItems DEF RunSound, RunKnows, RowsExist, SeenIsSafe, Merging, IdleRun
  <2> QED
    BY <1>t, <2>1, <2>3, QuietStep, QuietEnd
<1>5. ASSUME NEW r \in IdentityRuns, NEW op \in Describing, NEW state \in Named,
             ReflectOnSelf(r, op, state)
      PROVE  SeenInvariant'
  <2> DEFINE run == [idRun[r] EXCEPT !.at = "read", !.by = "reflection",
                                     !.action = "describe", !.op = op, !.target = state]
  <2>1. /\ idRun[r] = IdleRun /\ UNCHANGED <<items, stable, edits>>
        /\ idRun' = [idRun EXCEPT ![r] = run]
    BY <1>5, <1>i DEF ReflectOnSelf
  <2>2. /\ run.at = "read" /\ run.named = {}
        /\ run.found = {} /\ run.row = {} /\ run.locked = {}
    BY <2>1 DEF IdleRun
  <2> HIDE DEF run
  <2>3. RunSound(run) /\ Merging(idRun[r])
    BY <2>1, <2>2 DEF RunSound, RunKnows, RowsExist, SeenIsSafe, Merging, IdleRun
  <2> QED
    BY <1>t, <2>1, <2>3, QuietStep
<1>6. ASSUME NEW r \in IdentityRuns, NEW action \in {"start", "cancel", "answer"}, NEW step,
             ReflectOnInterview(r, action, step)
      PROVE  SeenInvariant'
  <2> DEFINE point == StartOf(action)
             run == [idRun[r] EXCEPT !.at = point, !.by = "reflection",
                                     !.action = action, !.step = step]
  <2>1. /\ idRun[r] = IdleRun /\ UNCHANGED <<items, stable, edits>>
        /\ idRun' = [idRun EXCEPT ![r] = run]
    BY <1>6, <1>i DEF ReflectOnInterview
  <2>2. point \in {"start", "readForm"}
    BY DEF StartOf
  <2> HIDE DEF point
  <2>3. /\ run.at = point /\ run.action = action /\ run.named = {}
        /\ run.found = {} /\ run.row = {} /\ run.locked = {}
    BY <2>1 DEF IdleRun
  <2> HIDE DEF run
  <2>4. RunSound(run) /\ Merging(idRun[r])
    BY <2>1, <2>2, <2>3 DEF RunSound, RunKnows, RowsExist, SeenIsSafe, Merging, IdleRun
  <2> QED
    BY <1>t, <2>1, <2>4, QuietStep
<1>7. ASSUME NEW r \in IdentityRuns, NEW e \in Edits, ApproveEdit(r, e)
      PROVE  SeenInvariant'
  <2> DEFINE run == [idRun[r] EXCEPT !.at = "read", !.by = "operator", !.action = "delta",
                       !.op = edits[e].op, !.key = edits[e].key,
                       !.protects = edits[e].protects, !.named = edits[e].named,
                       !.target = Complete, !.edit = e]
  <2>1. /\ idRun[r] = IdleRun /\ UNCHANGED <<items, stable, edits>>
        /\ idRun' = [idRun EXCEPT ![r] = run]
    BY <1>7, <1>i DEF ApproveEdit
  <2>2. /\ run.at = "read" /\ run.action = "delta" /\ run.named = edits[e].named
        /\ run.found = {} /\ run.row = {} /\ run.locked = {}
    BY <2>1 DEF IdleRun
  <2> HIDE DEF run
  <2>3. \A rk \in edits[e].named : edits[e].named = {rk} /\ items[rk] # "absent"
    BY DEF SeenInvariant, EditsSound
  <2>4. RunSound(run) /\ Merging(idRun[r])
    BY <2>1, <2>2, <2>3 DEF RunSound, RunKnows, RowsExist, SeenIsSafe, Merging, IdleRun
  <2> QED
    BY <1>t, <2>1, <2>4, QuietStep
<1>8. ASSUME NEW r \in IdentityRuns, BeginReset(r)
      PROVE  SeenInvariant'
  <2> DEFINE locked == {rk \in Items : items[rk] = "active"}
             run == [idRun[r] EXCEPT !.at = "reset", !.by = "operator", !.action = "reset",
                       !.locked = locked,
                       !.forms = {i \in Interviews : interviews[i].status = "in_progress"}]
  <2>1. /\ idRun[r] = IdleRun /\ UNCHANGED <<items, stable, edits>>
        /\ idRun' = [idRun EXCEPT ![r] = run]
    BY <1>8, <1>i DEF BeginReset
  <2>2. \A rk \in locked : items[rk] # "absent"
    OBVIOUS
  <2> HIDE DEF locked
  <2>3. /\ run.at = "reset" /\ run.action = "reset" /\ run.named = {}
        /\ run.found = {} /\ run.row = {} /\ run.locked = locked
    BY <2>1 DEF IdleRun
  <2> HIDE DEF run
  <2>4. RunSound(run) /\ Merging(idRun[r])
    BY <2>1, <2>2, <2>3 DEF RunSound, RunKnows, RowsExist, SeenIsSafe, Merging, IdleRun
  <2> QED
    BY <1>t, <2>1, <2>4, QuietStep
<1>9. ASSUME NEW r \in IdentityRuns, ReadLifecycle(r)
      PROVE  SeenInvariant'
  <2>1. PICK point \in {"check", "commit", "resolve"}, left \in {ItemKeys, {idRun[r].key}} :
          /\ idRun' = [idRun EXCEPT ![r].seen = lifecycle.state, ![r].at = point, ![r].left = left]
          /\ point # "check" => idRun[r].action = "describe"
    BY <1>9 DEF ReadLifecycle
  <2> DEFINE run == [idRun[r] EXCEPT !.seen = lifecycle.state, !.at = point, !.left = left]
  <2>2. /\ run.at = point /\ run.action = idRun[r].action /\ run.named = idRun[r].named
        /\ run.found = idRun[r].found /\ run.row = idRun[r].row /\ run.locked = idRun[r].locked
    BY <1>0 DEF RunRecords
  <2>3. idRun' = [idRun EXCEPT ![r] = run]
    BY <2>1
  <2> HIDE DEF run
  <2>4. /\ RunKnows(idRun[r]) /\ RowsExist(idRun[r]) /\ idRun[r].at = "read"
        /\ UNCHANGED <<items, stable, edits>>
    BY <1>0, <1>9 DEF ReadLifecycle, At
  <2>5. RunSound(run) /\ Merging(idRun[r])
    BY <2>1, <2>2, <2>4 DEF RunSound, RunKnows, RowsExist, SeenIsSafe, Merging
  <2> QED
    BY <1>t, <2>3, <2>4, <2>5, QuietStep
<1>10. ASSUME NEW r \in IdentityRuns, CheckAdd(r)
       PROVE  SeenInvariant'
  <2>0. /\ RunKnows(idRun[r]) /\ RowsExist(idRun[r]) /\ idRun[r].at = "check"
        /\ idRun[r].action = "template" \/ idRun[r].op = "add"
        /\ UNCHANGED <<items, stable, edits>> /\ Merging(idRun[r])
    BY <1>0, <1>10 DEF CheckAdd, At, Merging
  <2>1. CASE Goto(r, "refuse")
    BY <1>t, <2>0, <2>1, QuietEnd
  <2>2. CASE \E k \in idRun[r].left :
               idRun' = [idRun EXCEPT ![r].left = @ \ {k},
                           ![r].at = IF idRun[r].left = {k} THEN "commit" ELSE @]
    <3>1. PICK k \in idRun[r].left :
            idRun' = [idRun EXCEPT ![r].left = @ \ {k},
                        ![r].at = IF idRun[r].left = {k} THEN "commit" ELSE @]
      BY <2>2
    <3> DEFINE point == IF idRun[r].left = {k} THEN "commit" ELSE idRun[r].at
               run == [idRun[r] EXCEPT !.left = @ \ {k}, !.at = point]
    <3>2. idRun' = [idRun EXCEPT ![r] = run] /\ point \in {"check", "commit"}
      BY <2>0, <3>1
    <3> HIDE DEF point
    <3>3. /\ run.at = point /\ run.action = idRun[r].action /\ run.op = idRun[r].op
          /\ run.named = idRun[r].named /\ run.found = idRun[r].found /\ run.row = idRun[r].row
          /\ run.locked = idRun[r].locked
      BY <1>0 DEF RunRecords
    <3> HIDE DEF run
    <3>4. RunSound(run)
      BY <2>0, <3>2, <3>3
         DEF RunSound, RunKnows, RowsExist, SeenIsSafe, TakingAway, Replacing
    <3> QED
      BY <1>t, <2>0, <3>2, <3>4, QuietStep
  <2> QED
    BY <1>10, <2>1, <2>2 DEF CheckAdd
<1>11. ASSUME NEW r \in IdentityRuns, CheckTarget(r)
       PROVE  SeenInvariant'
  <2>0. /\ RunKnows(idRun[r]) /\ RowsExist(idRun[r]) /\ idRun[r].at = "check"
        /\ idRun[r].action = "delta" /\ idRun[r] \in RunRecords
        /\ UNCHANGED <<items, stable, edits>> /\ Merging(idRun[r])
    BY <1>0, <1>11 DEF CheckTarget, At, Merging
  <2>1. CASE Targets(r) = {} /\ Goto(r, "resolve")
    <3> DEFINE run == [idRun[r] EXCEPT !.at = "resolve"]
    <3>1. /\ run.at = "resolve" /\ run.action = "delta" /\ run.op = idRun[r].op
          /\ run.named = idRun[r].named /\ run.found = {} /\ run.row = {}
          /\ run.locked = idRun[r].locked
      BY <2>0 DEF RunRecords, RunKnows
    <3>2. idRun' = [idRun EXCEPT ![r] = run]
      BY <2>1 DEF Goto
    <3> HIDE DEF run
    <3>3. \A rk \in idRun[r].named : items[rk] # "active"
      BY <2>1 DEF Targets
    <3>4. RunKnows(run) /\ RowsExist(run)
      BY <2>0, <3>1 DEF RunKnows, RowsExist
    <3>5. SeenIsSafe(run)
      BY <3>1, <3>3 DEF SeenIsSafe
    <3> QED
      BY <1>t, <2>0, <3>2, <3>4, <3>5, QuietStep DEF RunSound
  <2>2. CASE \E rk \in Targets(r) :
               idRun' = [idRun EXCEPT ![r].at = "inspect", ![r].row = {rk},
                                      ![r].found = Targets(r)]
    <3>1. PICK rk \in Targets(r) :
            idRun' = [idRun EXCEPT ![r].at = "inspect", ![r].row = {rk}, ![r].found = Targets(r)]
      BY <2>2
    <3> DEFINE run == [idRun[r] EXCEPT !.at = "inspect", !.row = {rk}, !.found = Targets(r)]
    <3>2. /\ run.at = "inspect" /\ run.action = "delta" /\ run.named = idRun[r].named
          /\ run.found = Targets(r) /\ run.row = {rk} /\ run.locked = idRun[r].locked
      BY <2>0 DEF RunRecords
    <3>3. idRun' = [idRun EXCEPT ![r] = run]
      BY <3>1
    <3> HIDE DEF run
    <3>4. /\ \A x \in Targets(r) : items[x] = "active"
          /\ idRun[r].named = {} \/ rk \in idRun[r].named
      BY TargetsAreItems DEF SeenInvariant
    <3>5. RunSound(run)
      BY <2>0, <3>2, <3>4 DEF RunSound, RunKnows, RowsExist, SeenIsSafe
    <3> QED
      BY <1>t, <2>0, <3>3, <3>5, QuietStep
  <2> QED
    BY <1>11, <2>1, <2>2 DEF CheckTarget
<1>12. ASSUME NEW r \in IdentityRuns, InspectTarget(r)
       PROVE  SeenInvariant'
  <2>0. /\ RunKnows(idRun[r]) /\ RowsExist(idRun[r]) /\ idRun[r].at = "inspect"
        /\ idRun[r] \in RunRecords
        /\ UNCHANGED <<items, stable, edits>> /\ Merging(idRun[r])
    BY <1>0, <1>12 DEF InspectTarget, At, Merging
  <2>1. CASE Goto(r, "refuse")
    BY <1>t, <2>0, <2>1, QuietEnd
  <2>2. CASE /\ {rk \in idRun[r].row : items[rk] = "active"} \cap stable = {}
                \/ idRun[r].op = "reinforce"
             /\ Goto(r, "resolve")
    <3>1. PICK seen \in idRun[r].found :
            /\ idRun[r].action = "delta" /\ idRun[r].row = {seen}
            /\ idRun[r].named = {} \/ idRun[r].named = {seen}
      BY <2>0 DEF RunKnows
    <3> DEFINE run == [idRun[r] EXCEPT !.at = "resolve"]
    <3>2. /\ run.at = "resolve" /\ run.action = "delta" /\ run.op = idRun[r].op
          /\ run.named = idRun[r].named /\ run.found = idRun[r].found /\ run.row = idRun[r].row
          /\ run.locked = idRun[r].locked
      BY <2>0, <3>1 DEF RunRecords
    <3>3. idRun' = [idRun EXCEPT ![r] = run]
      BY <2>2 DEF Goto
    <3> HIDE DEF run
    <3>4. RunKnows(run) /\ RowsExist(run)
      BY <2>0, <3>2 DEF RunKnows, RowsExist
    <3>5. SeenIsSafe(run)
      <4>1. run.op \in TakingAway => ~(items[seen] = "active" /\ seen \in stable)
        BY <2>2, <3>1, <3>2 DEF TakingAway, Replacing
      <4>2. \A rk : run.found = {rk} \/ rk \in run.named => rk = seen
        BY <3>1, <3>2
      <4> QED
        BY <4>1, <4>2 DEF SeenIsSafe
    <3> QED
      BY <1>t, <2>0, <3>3, <3>4, <3>5, QuietStep DEF RunSound
  <2> QED
    BY <1>12, <2>1, <2>2 DEF InspectTarget
<1>13. ASSUME NEW r \in IdentityRuns, ResolveTarget(r)
       PROVE  SeenInvariant'
  <2>0. /\ RunKnows(idRun[r]) /\ RowsExist(idRun[r]) /\ SeenIsSafe(idRun[r])
        /\ idRun[r].at = "resolve" /\ idRun[r] \in RunRecords
        /\ UNCHANGED <<items, stable, edits>> /\ Merging(idRun[r])
    BY <1>0, <1>13 DEF ResolveTarget, At, Merging
  <2>1. CASE Goto(r, "refuse")
    BY <1>t, <2>0, <2>1, QuietEnd
  <2>2. CASE \E rk \in Targets(r) : idRun' = [idRun EXCEPT ![r].at = "commit", ![r].row = {rk}]
    <3>1. PICK rk \in Targets(r) : idRun' = [idRun EXCEPT ![r].at = "commit", ![r].row = {rk}]
      BY <2>2
    <3> DEFINE run == [idRun[r] EXCEPT !.at = "commit", !.row = {rk}]
    <3>2. /\ run.at = "commit" /\ run.action = idRun[r].action /\ run.op = idRun[r].op
          /\ run.named = idRun[r].named /\ run.found = idRun[r].found /\ run.row = {rk}
          /\ run.locked = idRun[r].locked /\ run.key = idRun[r].key
      BY <2>0 DEF RunRecords
    <3>3. idRun' = [idRun EXCEPT ![r] = run]
      BY <3>1
    <3> HIDE DEF run
    <3>4. IF idRun[r].named = {} THEN rk[2] = idRun[r].key ELSE rk \in idRun[r].named
      BY TargetsAreItems DEF SeenInvariant
    <3>5. RunKnows(run) /\ RowsExist(run)
      BY <2>0, <3>2, <3>4 DEF RunKnows, RowsExist
    <3>6. SeenIsSafe(run)
      BY <2>0, <3>2 DEF SeenIsSafe
    <3> QED
      BY <1>t, <2>0, <3>3, <3>5, <3>6, QuietStep DEF RunSound
  <2> QED
    BY <1>13, <2>1, <2>2 DEF ResolveTarget
<1>14. ASSUME NEW r \in IdentityRuns, NEW run, UNCHANGED <<items, stable, edits>>,
              run.at \in {"advance", "closeForm", "complete"}, Merging(idRun[r]),
              run.action = idRun[r].action, run.named = idRun[r].named,
              run.found = idRun[r].found, run.locked = idRun[r].locked,
              idRun' = [idRun EXCEPT ![r] = run]
       PROVE  SeenInvariant'
  <2>1. RunKnows(idRun[r]) /\ RowsExist(idRun[r])
    BY <1>0
  <2>2. RunSound(run)
    BY <1>14, <2>1 DEF RunSound, RunKnows, RowsExist, SeenIsSafe
  <2> QED
    BY <1>14, <1>t, <2>2, QuietStep
<1>15. ASSUME NEW r \in IdentityRuns, FindInterview(r)
       PROVE  SeenInvariant'
  <2>0. UNCHANGED <<items, stable, edits>> /\ Merging(idRun[r])
    BY <1>15 DEF FindInterview, At, Merging
  <2>1. CASE End(r) \/ Goto(r, "refuse") \/ Goto(r, "cancel")
    BY <1>t, <2>0, <2>1, QuietEnd
  <2>2. CASE \E point \in {"advance", "closeForm"}, i \in {lifecycle.interview} :
               idRun' = [idRun EXCEPT ![r].at = point, ![r].form = i]
    <3>1. PICK point \in {"advance", "closeForm"}, i \in {lifecycle.interview} :
            idRun' = [idRun EXCEPT ![r].at = point, ![r].form = i]
      BY <2>2
    <3> DEFINE run == [idRun[r] EXCEPT !.at = point, !.form = i]
    <3>2. /\ run.at = point /\ run.action = idRun[r].action /\ run.named = idRun[r].named
          /\ run.found = idRun[r].found /\ run.locked = idRun[r].locked
      BY <1>0 DEF RunRecords
    <3>3. idRun' = [idRun EXCEPT ![r] = run]
      BY <3>1
    <3> HIDE DEF run
    <3> QED
      BY <1>14, <2>0, <3>2, <3>3
  <2> QED
    BY <1>15, <2>1, <2>2 DEF FindInterview
<1>16. ASSUME NEW r \in IdentityRuns, ReadInterview(r)
       PROVE  SeenInvariant'
  <2>0. UNCHANGED <<items, stable, edits>> /\ Merging(idRun[r])
    BY <1>16 DEF ReadInterview, At, Merging
  <2>1. CASE Goto(r, "refuse")
    BY <1>t, <2>0, <2>1, QuietEnd
  <2>2. CASE \E answered : idRun' = [idRun EXCEPT ![r].at = "complete", ![r].answered = answered]
    <3>1. PICK answered :
            idRun' = [idRun EXCEPT ![r].at = "complete", ![r].answered = answered]
      BY <2>2
    <3> DEFINE run == [idRun[r] EXCEPT !.at = "complete", !.answered = answered]
    <3>2. /\ run.at = "complete" /\ run.action = idRun[r].action /\ run.named = idRun[r].named
          /\ run.found = idRun[r].found /\ run.locked = idRun[r].locked
      BY <1>0 DEF RunRecords
    <3>3. idRun' = [idRun EXCEPT ![r] = run]
      BY <3>1
    <3> HIDE DEF run
    <3> QED
      BY <1>14, <2>0, <3>2, <3>3
  <2> QED
    BY <1>16, <2>1, <2>2 DEF ReadInterview
<1>17. ASSUME NEW r \in IdentityRuns, ItemsOnlyAge(r), UNCHANGED edits,
              End(r) \/ Goto(r, "settle")
       PROVE  SeenInvariant'
  <2>1. PICK run : /\ idRun' = [idRun EXCEPT ![r] = run] /\ RunSound(run) /\ ~Merging(run)
                   /\ \A rk \in run.named \cup run.found \cup run.locked : rk \in Items
    <3>1. CASE End(r)
      <4> DEFINE run == [IdleRun EXCEPT !.at = "done"]
      <4>1. /\ ~Merging(run) /\ idRun' = [idRun EXCEPT ![r] = run]
            /\ \A rk \in run.named \cup run.found \cup run.locked : rk \in Items
        BY <3>1 DEF End, Merging, IdleRun
      <4> QED
        BY <4>1, EndSound
    <3>2. CASE Goto(r, "settle")
      <4> DEFINE run == [idRun[r] EXCEPT !.at = "settle"]
      <4>1. /\ ~Merging(run) /\ idRun' = [idRun EXCEPT ![r] = run] /\ RunSound(run)
        BY <3>2, GotoSound DEF Goto, Merging
      <4>2. \A rk \in run.named \cup run.found \cup run.locked : rk \in Items
        BY <1>0 DEF RunRecords, SomeItems
      <4> QED
        BY <4>1, <4>2
    <3> QED
      BY <1>17, <3>1, <3>2
  <2>2. RunKnows(run) /\ RowsExist(run) /\ run.at \in {"settle", "done"}
    BY <2>1 DEF RunSound, Merging
  <2>3. RunSound(run)'
    BY <1>17, <2>1, <2>2 DEF RunSound, RunKnows, RowsExist, SeenIsSafe, ItemsOnlyAge
  <2> QED
    BY <1>17, <1>t, <2>1, <2>3, RunChanges
<1>18. ASSUME NEW r \in IdentityRuns, CommitDelta(r) \/ CompleteInterview(r) \/ CommitReset(r)
       PROVE  ItemsOnlyAge(r)
  BY <1>18, MergesOnlyAge
<1>19. ASSUME NEW r \in IdentityRuns, CommitDelta(r) \/ CompleteInterview(r) \/ CommitReset(r)
       PROVE  SeenInvariant'
  <2>1. UNCHANGED edits /\ (End(r) \/ Goto(r, "settle"))
    BY <1>19 DEF CommitDelta, CompleteInterview, CommitReset
  <2> QED
    BY <1>17, <1>18, <1>19, <2>1
<1>20. ASSUME NEW r \in IdentityRuns,
              \/ Refuse(r) \/ \E i \in Interviews : StartInterview(r, i)
              \/ WriteAnswer(r) \/ CancelInterview(r) \/ CancelKickstart(r) \/ AbandonMerge(r)
       PROVE  SeenInvariant'
  <2>1. /\ UNCHANGED <<items, stable, edits>>
        /\ End(r) \/ (Merging(idRun[r]) /\ (Goto(r, "settle") \/ Goto(r, "cancel")))
    BY <1>20 DEF Refuse, StartInterview, WriteAnswer, CancelInterview, CancelKickstart,
                 AbandonMerge, At, Merging
  <2> QED
    BY <1>t, <2>1, QuietEnd
<1>21. ASSUME UNCHANGED <<items, stable>>, UNCHANGED idRun \/ \E r \in IdentityRuns : End(r),
              \A e \in Edits : \A rk \in edits'[e].named :
                edits'[e].named = {rk} /\ items[rk] # "absent"
       PROVE  SeenInvariant'
  <2>1. EditsSound'
    BY <1>21 DEF EditsSound
  <2>2. ASSUME NEW r \in IdentityRuns
        PROVE  RunSound(idRun[r])' /\ (Merging(idRun'[r]) => Merging(idRun[r]))
    <3>1. CASE idRun'[r] = idRun[r]
      BY <1>0, <1>21, <3>1 DEF RunSound, RunKnows, RowsExist, SeenIsSafe
    <3>2. CASE idRun'[r] = [IdleRun EXCEPT !.at = "done"]
      BY <3>2 DEF RunSound, RunKnows, RowsExist, SeenIsSafe, IdleRun, Merging
    <3> QED
      BY <1>21, <3>1, <3>2 DEF End, SeenInvariant, RunsTyped
  <2>3. InsertedOnce'
    BY <1>21, <2>2 DEF SeenInvariant, InsertedOnce, Items, Merging
  <2> QED
    BY <1>t, <2>1, <2>2, <2>3 DEF SeenInvariant
<1>22. ASSUME NEW r \in IdentityRuns, SettleEdit(r)
       PROVE  SeenInvariant'
  <2>1. \A e \in Edits : edits'[e].named = edits[e].named
    <3>1. PICK status : edits' = [edits EXCEPT ![idRun[r].edit].status = status]
      BY <1>22, Zenon DEF SettleEdit
    <3> QED
      BY <3>1 DEF SeenInvariant, TablesTyped, EditRecords
  <2>2. /\ UNCHANGED <<items, stable>> /\ End(r)
    BY <1>22 DEF SettleEdit
  <2> QED
    BY <1>21, <2>1, <2>2 DEF SeenInvariant, EditsSound
<1>23. ASSUME NEW e \in Edits, RejectEdit(e)
       PROVE  SeenInvariant'
  <2>1. \A f \in Edits : edits'[f].named = edits[f].named
    BY <1>23 DEF RejectEdit, SeenInvariant, TablesTyped, EditRecords
  <2>2. UNCHANGED <<items, stable, idRun>>
    BY <1>23 DEF RejectEdit
  <2> QED
    BY <1>21, <2>1, <2>2 DEF SeenInvariant, EditsSound
<1>24. ASSUME NEW e \in Edits, NEW delta \in Proposable, NEW named \in Nameable(delta.op),
              ProposeEdit(e, delta, named)
       PROVE  SeenInvariant'
  <2>1. \A f \in Edits : edits'[f].named = IF f = e THEN named ELSE edits[f].named
    BY <1>24 DEF ProposeEdit, SeenInvariant, TablesTyped
  <2>2. UNCHANGED <<items, stable, idRun>>
    BY <1>24 DEF ProposeEdit
  <2> QED
    BY <1>21, <2>1, <2>2, NameableItems DEF SeenInvariant, EditsSound
<1>25. CASE UNCHANGED identityVars
  BY <1>21, <1>25 DEF identityVars, SeenInvariant, EditsSound
<1>26. ASSUME NEW r \in IdentityRuns,
              \/ \E action \in {"start", "cancel"} : ReflectOnInterview(r, action, "none")
              \/ \E step \in Steps : ReflectOnInterview(r, "answer", step)
       PROVE  SeenInvariant'
  BY <1>6, <1>26
<1> QED
  BY <1>1, <1>3, <1>4, <1>5, <1>7, <1>8, <1>9, <1>10, <1>11, <1>12, <1>13, <1>15, <1>16, <1>19,
     <1>20, <1>22, <1>23, <1>24, <1>25, <1>26
     DEF IdentityNext

\* One step: a stable item that stops being active does so for one of the reasons.
LEMMA StableTaken ==
  ASSUME SeenInvariant, IdentityNext, NEW rk \in stable,
         items[rk] = "active", items'[rk] # "active"
  PROVE  \E r \in IdentityRuns :
           /\ idRun'[r].at # idRun[r].at
           /\ \/ /\ At(r, "reset") /\ rk \in idRun[r].locked
                 /\ lifecycle'.state = Bootstrap
              \/ /\ At(r, "commit") /\ rk \in idRun[r].row /\ rk[2] = idRun[r].key
                 /\ \/ idRun[r].action = "describe"
                    \/ idRun[r].named = {} /\ idRun[r].found # {rk}
<1>0. /\ rk \in Items /\ idRun \in [IdentityRuns -> RunRecords]
      /\ \A r \in IdentityRuns : RunKnows(idRun[r]) /\ SeenIsSafe(idRun[r])
  BY DEF SeenInvariant, TablesTyped, RunsTyped, SomeItems, RunSound
<1>1. ASSUME NEW r \in IdentityRuns, CommitReset(r)
      PROVE  /\ idRun'[r].at # idRun[r].at
             /\ At(r, "reset") /\ rk \in idRun[r].locked /\ lifecycle'.state = Bootstrap
  BY <1>0, <1>1 DEF CommitReset, Record, End, IdleRun, At
<1>2. ASSUME NEW r \in IdentityRuns, CommitDelta(r)
      PROVE  /\ idRun'[r].at # idRun[r].at
             /\ At(r, "commit") /\ rk \in idRun[r].row /\ rk[2] = idRun[r].key
             /\ \/ idRun[r].action = "describe"
                \/ idRun[r].named = {} /\ idRun[r].found # {rk}
  <2>1. idRun[r].at = "commit" /\ rk \in idRun[r].row /\ idRun[r].op \in TakingAway
    BY <1>0, <1>2 DEF CommitDelta, Merged, At
  <2>2. /\ idRun[r].action \in {"delta", "describe"}
        /\ IF idRun[r].named = {} THEN rk[2] = idRun[r].key ELSE rk \in idRun[r].named
    BY <1>0, <2>1 DEF RunKnows
  <2>3. idRun[r].action = "delta" => idRun[r].found # {rk} /\ rk \notin idRun[r].named
    BY <1>0, <2>1 DEF SeenIsSafe
  <2>4. idRun[r].action = "describe" => idRun[r].named = {}
    BY <1>0 DEF RunKnows
  <2>5. idRun'[r].at # idRun[r].at
    <3>1. CASE End(r)
      BY <1>0, <2>1, <3>1 DEF End, IdleRun
    <3>2. CASE Goto(r, "settle")
      BY <1>0, <2>1, <3>2 DEF Goto, RunRecords
    <3> QED
      BY <1>2, <3>1, <3>2 DEF CommitDelta
  <2> QED
    BY <2>1, <2>2, <2>3, <2>4, <2>5 DEF At
<1>3. ASSUME NEW r \in IdentityRuns, CompleteInterview(r)
      PROVE  FALSE
  BY <1>0, <1>3 DEF CompleteInterview
<1>4. UNCHANGED items \/ \E r \in IdentityRuns : CommitReset(r) \/ CommitDelta(r) \/ CompleteInterview(r)
  <2>1. ASSUME NEW r \in IdentityRuns,
               \/ BeginTurn(r) \/ WorkerProposes(r) \/ InferProposal(r)
               \/ \E delta \in Proposable, state \in Named : \E named \in Nameable(delta.op) :
                    ProposeReflection(r, delta, named, state)
               \/ \E op \in Describing, state \in Named : ReflectOnSelf(r, op, state)
               \/ \E action \in {"start", "cancel"} : ReflectOnInterview(r, action, "none")
               \/ \E step \in Steps : ReflectOnInterview(r, "answer", step)
               \/ \E e \in Edits : ApproveEdit(r, e)
        PROVE  UNCHANGED items
    BY <2>1 DEF BeginTurn, WorkerProposes, InferProposal, ProposeReflection, ReflectOnSelf,
                ReflectOnInterview, ApproveEdit
  <2>2. ASSUME NEW r \in IdentityRuns,
               \/ SettleEdit(r) \/ BeginReset(r) \/ ReadLifecycle(r) \/ CheckAdd(r)
               \/ CheckTarget(r) \/ InspectTarget(r) \/ ResolveTarget(r) \/ Refuse(r)
               \/ \E i \in Interviews : StartInterview(r, i)
               \/ FindInterview(r) \/ ReadInterview(r) \/ WriteAnswer(r)
               \/ CancelInterview(r) \/ CancelKickstart(r) \/ AbandonMerge(r)
        PROVE  UNCHANGED items
    BY <2>2 DEF SettleEdit, BeginReset, ReadLifecycle, CheckAdd, CheckTarget, InspectTarget,
                ResolveTarget, Refuse, StartInterview, FindInterview, ReadInterview, WriteAnswer,
                CancelInterview, CancelKickstart, AbandonMerge
  <2>3. ASSUME NEW e \in Edits,
               \/ RejectEdit(e)
               \/ \E delta \in Proposable : \E named \in Nameable(delta.op) :
                    ProposeEdit(e, delta, named)
        PROVE  UNCHANGED items
    BY <2>3 DEF RejectEdit, ProposeEdit
  <2> QED
    BY <2>1, <2>2, <2>3 DEF IdentityNext
<1> QED
  BY <1>1, <1>2, <1>3, <1>4

\* A stable item that a delta names, or that was the only one under the key when
\* the delta was checked, outlasts it, whoever proposes it and whatever others
\* commit between its check and its commit.
THEOREM StableItemsSeenAreKept == IdentitySpec => StableSeenIsKept
<1>1. IdentityInit => SeenInvariant
  <2> SUFFICES ASSUME IdentityInit PROVE SeenInvariant
    OBVIOUS
  <2>1. TablesTyped /\ RunsTyped
    BY InitTyped
  <2>2. \A r \in IdentityRuns : RunSound(idRun[r])
    BY EndSound DEF IdentityInit
  <2>3. InsertedOnce /\ EditsSound
    BY DEF IdentityInit, InsertedOnce, EditsSound, NoEditYet
  <2> QED
    BY <2>1, <2>2, <2>3 DEF SeenInvariant
<1>2. SeenInvariant /\ [IdentityNext]_identityVars => SeenInvariant'
  BY SeenStep
<1>3. SeenInvariant /\ [IdentityNext]_identityVars =>
        [\A rk \in stable :
           items[rk] = "active" /\ items'[rk] # "active" =>
             \E r \in IdentityRuns :
               /\ idRun'[r].at # idRun[r].at
               /\ \/ /\ At(r, "reset") /\ rk \in idRun[r].locked
                     /\ lifecycle'.state = Bootstrap
                  \/ /\ At(r, "commit") /\ rk \in idRun[r].row /\ rk[2] = idRun[r].key
                     /\ \/ idRun[r].action = "describe"
                        \/ idRun[r].named = {} /\ idRun[r].found # {rk}]_identityVars
  BY StableTaken
<1> QED
  BY <1>1, <1>2, <1>3, PTL DEF IdentitySpec, StableSeenIsKept
=============================================================================
