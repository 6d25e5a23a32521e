------------------------ MODULE GovernedActionsProofs ------------------------
(***************************************************************************)
(* Proofs about GovernedActions, for any number of turns, chats, operators *)
(* and supervisors, any configuration, and a crash of any of them anywhere *)
(* (CrashPoints and MaxCrashes are constants).  The argument: a turn never *)
(* executes an action that needs consent; a resolver executes only the     *)
(* action whose request it approved itself; and neither returns to the     *)
(* statements before the backend runs.                                     *)
(***************************************************************************)
EXTENDS GovernedActions, TLAPS

\* A process is a turn, a resolver or a supervisor, and only one of them.
LEMMA KindsOfProcesses ==
  /\ Processes = Turns \cup Resolvers \cup Supervisors
  /\ Executors = Turns \cup Resolvers
  /\ Turns \cap Resolvers = {} /\ Turns \cap Supervisors = {} /\ Resolvers \cap Supervisors = {}
BY GovernedActionsAssumption DEF Processes, Executors, Resolvers

\* A statement that writes one row's status, and dates it, keeps the tables.
LEMMA StatusWritten ==
  ASSUME TypeOK,
         NEW a \in Actions, actionStatus[a] # "absent",
         NEW status \in ActionStatuses \ {"absent"},
         actionStatus' = [actionStatus EXCEPT ![a] = status],
         completed' \subseteq started', started' \subseteq Actions,
         link' \in [Actions -> {"none", "own", "callback"} \cup Turns],
         UNCHANGED <<approvalVars, proposal, requestOf, recordVars, leaseVars, others>>
  PROVE  TablesTypeOK'
BY DEF TypeOK, TablesTypeOK, ApprovalsTypeOK, ActionStatuses, approvalVars, recordVars,
       leaseVars, others

\* So does one that writes the status of one lease.
LEMMA LeaseWritten ==
  ASSUME TypeOK,
         NEW a \in Actions, NEW status \in {"active", "released", "terminated"},
         leaseStatus' = [leaseStatus EXCEPT ![a] = status],
         overdue' = overdue \ {a},
         UNCHANGED <<approvalVars, rowVars, statusVars, recordVars, others>>
  PROVE  TablesTypeOK'
BY DEF TypeOK, TablesTypeOK, ApprovalsTypeOK, approvalVars, rowVars, statusVars, recordVars,
       others

\* The process is at one of its own row's statements.
LEMMA RowAtHand ==
  ASSUME TypeOK, RowsKnown, NEW p \in Processes, pc[p] \in ActionPoints
  PROVE  /\ cur[p] \in Actions
         /\ actionStatus[cur[p]] # "absent"
         /\ proposal[cur[p]] \in Fingerprints
BY DEF TypeOK, TablesTypeOK, ProcessesTypeOK, RowsKnown


\* The answerer of a request finds the turn that asked.
LEMMA AskedByTurn ==
  ASSUME TypeOK, RowsKnown, NEW p \in Processes, pc[p] = "sync"
  PROVE  ResolutionLink(p) \in {"callback"} \cup Turns
BY DEF TypeOK, TablesTypeOK, ApprovalsTypeOK, ProcessesTypeOK, RowsKnown, ResolutionLink,
       RequestPoints

\* Effects are counted within the bound.
LEMMA EffectCounted ==
  ASSUME TypeOK, NEW p \in Processes, cur[p] \in Actions, NEW happened \in BOOLEAN,
         CountEffect(p, happened)
  PROVE  effects' \in [Actions -> 0 .. 2]
<1>1. effects \in [Actions -> 0 .. 2]
  BY DEF TypeOK, TablesTypeOK
<1>2. (IF happened /\ effects[cur[p]] < 2 THEN effects[cur[p]] + 1 ELSE effects[cur[p]]) \in 0 .. 2
  BY <1>1
<1> QED
  BY <1>1, <1>2 DEF CountEffect

\* Every statement writes a status its table allows.
LEMMA TablesTyped == TypeOK /\ RowsKnown /\ [Next]_vars => TablesTypeOK'
<1> SUFFICES ASSUME TypeOK, RowsKnown, [Next]_vars PROVE TablesTypeOK'
    OBVIOUS
<1> USE GovernedActionsAssumption, ApprovalsAssumption
    DEF TypeOK, TablesTypeOK, ApprovalsTypeOK, ProcessesTypeOK, RowsKnown, ActionPoints,
        RequestPoints,
        ProgramPoints, TurnPoints, ResolverPoints, SupervisorPoints, RoutePoints,
           ResolvePoints, WorkPoints, LeasePoints, RecoveryPoints, ExecutePoints,
        StartedPoints, ActionStatuses, RequestStatuses, Resolutions, ExecStatuses,
        ScriptRunStatuses, RunEnded, Outcomes,
        Processes, Executors, Resolvers, At, approvalVars, rowVars, statusVars,
           recordVars, leaseVars, procVars, others
<1>1. ASSUME NEW p \in Processes, PlanBlocked(p) PROVE TablesTypeOK'
  BY <1>1 DEF PlanBlocked, InsertAction
<1>2. ASSUME NEW p \in Processes, PlanAction(p) PROVE TablesTypeOK'
  BY <1>2 DEF PlanAction, InsertAction, PlannedStatus, AfterPlanning
<1>3. ASSUME NEW p \in Processes, FinishTurn(p) PROVE TablesTypeOK'
  BY <1>3 DEF FinishTurn
<1>4. ASSUME NEW p \in Processes, DenyAtCap(p) PROVE TablesTypeOK'
  <2>1. pc[p] \in ActionPoints
    BY <1>4 DEF DenyAtCap
  <2>2. cur[p] \in Actions /\ actionStatus[cur[p]] # "absent"
    BY <2>1, RowAtHand
  <2>3. "blocked" \in ActionStatuses \ {"absent"}
    BY <1>4 DEF DenyAtCap
  <2>4. /\ completed \subseteq started /\ started \subseteq Actions
        /\ link \in [Actions -> {"none", "own", "callback"} \cup Turns]
        /\ cur[p] \in Actions
    BY <1>4, <2>2 DEF DenyAtCap
  <2> HIDE DEF TypeOK, TablesTypeOK, ProcessesTypeOK, RowsKnown, ProgramPoints, ActionPoints
  <2>5. /\ completed' \subseteq started' /\ started' \subseteq Actions
        /\ link' \in [Actions -> {"none", "own", "callback"} \cup Turns]
    BY <1>4, <2>2, <2>4 DEF DenyAtCap, MarkUnfinished
  <2> QED
    BY <1>4, <2>2, <2>3, <2>5, StatusWritten
       DEF DenyAtCap, SetAction, MarkUnfinished, rowVars
<1>5. ASSUME NEW p \in Processes, EscalateAtCap(p) PROVE TablesTypeOK'
  <2>1. pc[p] \in ActionPoints
    BY <1>5 DEF EscalateAtCap
  <2>2. cur[p] \in Actions /\ actionStatus[cur[p]] # "absent"
    BY <2>1, RowAtHand
  <2>3. "awaiting_approval" \in ActionStatuses \ {"absent"}
    BY <1>5 DEF EscalateAtCap
  <2>4. /\ completed \subseteq started /\ started \subseteq Actions
        /\ link \in [Actions -> {"none", "own", "callback"} \cup Turns]
        /\ cur[p] \in Actions
    BY <1>5, <2>2 DEF EscalateAtCap
  <2> HIDE DEF TypeOK, TablesTypeOK, ProcessesTypeOK, RowsKnown, ProgramPoints, ActionPoints
  <2>5. /\ completed' \subseteq started' /\ started' \subseteq Actions
        /\ link' \in [Actions -> {"none", "own", "callback"} \cup Turns]
    BY <1>5, <2>2, <2>4 DEF EscalateAtCap, MarkUnfinished
  <2> QED
    BY <1>5, <2>2, <2>3, <2>5, StatusWritten
       DEF EscalateAtCap, SetAction, MarkUnfinished, rowVars
<1>6. ASSUME NEW p \in Processes, LookUpRequest(p) PROVE TablesTypeOK'
  BY <1>6 DEF LookUpRequest, PendingFor, PendingRequests
<1>7. ASSUME NEW p \in Processes, CountPending(p) PROVE TablesTypeOK'
  BY <1>7 DEF CountPending
<1>8. ASSUME NEW p \in Processes, CreateRequest(p) PROVE TablesTypeOK'
  <2>1. PICK r \in Requests : InsertRequest(r, proposal[cur[p]], p)
    BY <1>8 DEF CreateRequest
  <2>2. p \in Turns /\ proposal[cur[p]] \in Fingerprints
    <3>1. proposal[cur[p]] \in Fingerprints
      BY <1>8, RowAtHand DEF CreateRequest
    <3>2. p \in Turns
      BY <1>8 DEF CreateRequest
    <3> QED
      BY <3>1, <3>2
  <2>3. ApprovalsTypeOK'
    BY <2>1, <2>2 DEF InsertRequest
  <2> QED
    BY <1>8, <2>1, <2>3 DEF CreateRequest, InsertRequest
<1>9. ASSUME NEW p \in Processes, CreateRefused(p) PROVE TablesTypeOK'
  BY <1>9 DEF CreateRefused
<1>10. ASSUME NEW p \in Processes, AttachRequest(p) PROVE TablesTypeOK'
  BY <1>10 DEF AttachRequest
<1>11. ASSUME NEW p \in Processes, PromptForApproval(p) PROVE TablesTypeOK'
  <2>1. req[p] \in Requests /\ requestStatus[req[p]] # "none"
    BY <1>11 DEF PromptForApproval
  <2>2. prompted' \subseteq prompted \cup {req[p]}
    <3> HIDE DEF TypeOK, TablesTypeOK, ProcessesTypeOK, RowsKnown, ProgramPoints, ActionPoints
    <3> QED
      BY <1>11 DEF PromptForApproval
  <2> QED
    BY <1>11, <2>1, <2>2 DEF PromptForApproval
<1>12. ASSUME NEW p \in Processes, FindAction(p) PROVE TablesTypeOK'
  BY <1>12 DEF FindAction, AttachedTo
<1>13. ASSUME NEW p \in Processes, SyncAction(p) PROVE TablesTypeOK'
  <2>1. pc[p] \in ActionPoints
    BY <1>13 DEF SyncAction
  <2>2. cur[p] \in Actions /\ actionStatus[cur[p]] # "absent"
    BY <2>1, RowAtHand
  <2>3. seen[p] \in ActionStatuses \ {"absent"}
    BY <1>13 DEF SyncAction
  <2>4. /\ completed \subseteq started /\ started \subseteq Actions
        /\ link \in [Actions -> {"none", "own", "callback"} \cup Turns]
        /\ ResolutionLink(p) \in {"callback"} \cup Turns
    BY <1>13, <2>2, AskedByTurn DEF SyncAction
  <2> HIDE DEF TypeOK, TablesTypeOK, ProcessesTypeOK, RowsKnown, ProgramPoints, ActionPoints
  <2>5. /\ completed' \subseteq started' /\ started' \subseteq Actions
        /\ link' \in [Actions -> {"none", "own", "callback"} \cup Turns]
    BY <1>13, <2>2, <2>4 DEF SyncAction, MarkUnfinished
  <2> QED
    BY <1>13, <2>2, <2>3, <2>5, StatusWritten
       DEF SyncAction, SetAction, MarkUnfinished, rowVars
<1>14. ASSUME NEW p \in Processes, SyncRefused(p) PROVE TablesTypeOK'
  BY <1>14 DEF SyncRefused
<1>15. ASSUME NEW p \in Processes, RecheckFails(p) PROVE TablesTypeOK'
  <2>1. pc[p] \in ActionPoints
    BY <1>15 DEF RecheckFails
  <2>2. cur[p] \in Actions /\ actionStatus[cur[p]] # "absent"
    BY <2>1, RowAtHand
  <2>3. "blocked" \in ActionStatuses \ {"absent"}
    BY <1>15 DEF RecheckFails
  <2>4. /\ completed \subseteq started /\ started \subseteq Actions
        /\ link \in [Actions -> {"none", "own", "callback"} \cup Turns]
        /\ cur[p] \in Actions
    BY <1>15, <2>2 DEF RecheckFails
  <2> HIDE DEF TypeOK, TablesTypeOK, ProcessesTypeOK, RowsKnown, ProgramPoints, ActionPoints
  <2>5. /\ completed' \subseteq started' /\ started' \subseteq Actions
        /\ link' \in [Actions -> {"none", "own", "callback"} \cup Turns]
    BY <1>15, <2>2, <2>4 DEF RecheckFails
  <2> QED
    BY <1>15, <2>2, <2>3, <2>5, StatusWritten
       DEF RecheckFails, SetAction, MarkUnfinished, rowVars
<1>16. ASSUME NEW p \in Processes, InsertExecution(p) PROVE TablesTypeOK'
  BY <1>16 DEF InsertExecution, SetExecution
<1>17. ASSUME NEW p \in Processes, StartAction(p) PROVE TablesTypeOK'
  <2>1. pc[p] \in ActionPoints
    BY <1>17 DEF StartAction
  <2>2. cur[p] \in Actions /\ actionStatus[cur[p]] # "absent"
    BY <2>1, RowAtHand
  <2>3. seen[p] \in ActionStatuses \ {"absent"}
    BY <1>17 DEF StartAction
  <2>4. /\ completed \subseteq started /\ started \subseteq Actions
        /\ link \in [Actions -> {"none", "own", "callback"} \cup Turns]
        /\ cur[p] \in Actions
    BY <1>17, <2>2 DEF StartAction
  <2> HIDE DEF TypeOK, TablesTypeOK, ProcessesTypeOK, RowsKnown, ProgramPoints, ActionPoints
  <2>5. /\ completed' \subseteq started' /\ started' \subseteq Actions
        /\ link' \in [Actions -> {"none", "own", "callback"} \cup Turns]
    BY <1>17, <2>2, <2>4 DEF StartAction, MarkUnfinished
  <2> QED
    BY <1>17, <2>2, <2>3, <2>5, StatusWritten
       DEF StartAction, SetAction, MarkUnfinished, rowVars
<1>18. ASSUME NEW p \in Processes, AcquireLease(p) PROVE TablesTypeOK'
  <2>1. cur[p] \in Actions
    BY <1>18 DEF AcquireLease
  <2>2. UNCHANGED <<approvalVars, rowVars, statusVars, recordVars, others>>
    BY <1>18, Zenon DEF AcquireLease
  <2>3. SetLease(p, "active")
    BY <1>18, Zenon DEF AcquireLease
  <2> QED
    BY <2>1, <2>2, <2>3, LeaseWritten DEF SetLease
<1>19. ASSUME NEW p \in Processes, RecordRun(p) PROVE TablesTypeOK'
  BY <1>19 DEF RecordRun, SetRun
<1>20. ASSUME NEW p \in Processes, StartRun(p) PROVE TablesTypeOK'
  BY <1>20 DEF StartRun, SetRun
<1>21. ASSUME NEW p \in Processes, Work(p) PROVE TablesTypeOK'
  BY <1>21 DEF Work, OutcomesOf, CountEffect
<1>22. ASSUME NEW p \in Processes, WorkErrors(p) PROVE TablesTypeOK'
  <2>1. cur[p] \in Actions
    BY <1>22 DEF WorkErrors
  <2>2. effects' \in [Actions -> 0 .. 2]
    BY <1>22, <2>1, EffectCounted DEF WorkErrors
  <2> QED
    BY <1>22, <2>2 DEF WorkErrors
<1>23. ASSUME NEW p \in Processes, FinishExecution(p) PROVE TablesTypeOK'
  BY <1>23 DEF FinishExecution, SetExecution
<1>24. ASSUME NEW p \in Processes, FinishRun(p) PROVE TablesTypeOK'
  BY <1>24 DEF FinishRun, SetRun
<1>25. ASSUME NEW p \in Processes, FinishAction(p) PROVE TablesTypeOK'
  BY <1>25 DEF FinishAction, SetAction, FinalStatus
<1>26. ASSUME NEW p \in Processes, CheckLease(p) PROVE TablesTypeOK'
  BY <1>26 DEF CheckLease
<1>27. ASSUME NEW p \in Processes, LeaseLost(p) PROVE TablesTypeOK'
  BY <1>27 DEF LeaseLost
<1>28. ASSUME NEW p \in Processes, ReleaseLease(p) PROVE TablesTypeOK'
  <2>1. cur[p] \in Actions
    BY <1>28 DEF ReleaseLease
  <2>2. UNCHANGED <<approvalVars, rowVars, statusVars, recordVars, others>>
    BY <1>28, Zenon DEF ReleaseLease
  <2>3. CASE SetLease(p, "released")
    BY <2>1, <2>2, <2>3, LeaseWritten DEF SetLease
  <2>4. CASE UNCHANGED leaseVars
    BY <2>2, <2>4
  <2> QED
    BY <1>28, <2>3, <2>4, Zenon DEF ReleaseLease, ReleaseIfActive
<1>29. ASSUME NEW p \in Processes, ReleaseAfterError(p) PROVE TablesTypeOK'
  <2>1. cur[p] \in Actions
    BY <1>29 DEF ReleaseAfterError
  <2>2. UNCHANGED <<approvalVars, rowVars, statusVars, recordVars, others>>
    BY <1>29, Zenon DEF ReleaseAfterError
  <2>3. CASE SetLease(p, "released")
    BY <2>1, <2>2, <2>3, LeaseWritten DEF SetLease
  <2>4. CASE UNCHANGED leaseVars
    BY <2>2, <2>4
  <2> QED
    BY <1>29, <2>3, <2>4, Zenon DEF ReleaseAfterError, ReleaseIfActive
<1>30. ASSUME NEW p \in Processes, TerminateLease(p) PROVE TablesTypeOK'
  <2>1. cur[p] \in Actions
    BY <1>30 DEF TerminateLease
  <2>2. UNCHANGED <<approvalVars, rowVars, statusVars, recordVars, others>>
    BY <1>30, Zenon DEF TerminateLease
  <2>3. SetLease(p, "terminated")
    BY <1>30, Zenon DEF TerminateLease
  <2> QED
    BY <2>1, <2>2, <2>3, LeaseWritten DEF SetLease
<1>31. ASSUME NEW p \in Processes, ExpireDueLeases(p) PROVE TablesTypeOK'
  BY <1>31 DEF ExpireDueLeases
<1>32. ASSUME NEW p \in Processes, TakeExpiredLease(p) PROVE TablesTypeOK'
  BY <1>32 DEF TakeExpiredLease
<1>33. ASSUME NEW p \in Processes, FinishSupervision(p) PROVE TablesTypeOK'
  BY <1>33 DEF FinishSupervision
<1>34. ASSUME NEW p \in Processes, LoadContext(p) PROVE TablesTypeOK'
  BY <1>34 DEF LoadContext
<1>35. ASSUME NEW p \in Processes, RecoverRun(p) PROVE TablesTypeOK'
  BY <1>35 DEF RecoverRun, SetRun
<1>36. ASSUME NEW p \in Processes, RecoverAction(p) PROVE TablesTypeOK'
  <2>1. pc[p] \in ActionPoints
    BY <1>36 DEF RecoverAction
  <2>2. cur[p] \in Actions /\ actionStatus[cur[p]] # "absent"
    BY <2>1, RowAtHand
  <2>3. seen[p] \in ActionStatuses \ {"absent"}
    BY <1>36 DEF RecoverAction
  <2>4. /\ completed \subseteq started /\ started \subseteq Actions
        /\ link \in [Actions -> {"none", "own", "callback"} \cup Turns]
        /\ cur[p] \in started
    BY <1>36, <2>2 DEF RecoverAction
  <2> HIDE DEF TypeOK, TablesTypeOK, ProcessesTypeOK, RowsKnown, ProgramPoints, ActionPoints
  <2>5. /\ completed' \subseteq started' /\ started' \subseteq Actions
        /\ link' \in [Actions -> {"none", "own", "callback"} \cup Turns]
    BY <1>36, <2>2, <2>4 DEF RecoverAction
  <2> QED
    BY <1>36, <2>2, <2>3, <2>5, StatusWritten
       DEF RecoverAction, SetAction, MarkUnfinished, rowVars
<1>37. ASSUME NEW p \in Processes, AnswerRequest(p) PROVE TablesTypeOK'
  BY <1>37 DEF AnswerRequest, Answers, ResolveRequest
<1>38. ASSUME NEW p \in Processes, Crash(p) PROVE TablesTypeOK'
  BY <1>38 DEF Crash
<1>39. ASSUME NEW a \in Actions, LeaseTimePasses(a) PROVE TablesTypeOK'
  BY <1>39 DEF LeaseTimePasses
<1>40. ASSUME NEW r \in Requests, RequestTimePasses(r),
             UNCHANGED <<rowVars, statusVars, recordVars, leaseVars, procVars, others>>
      PROVE  TablesTypeOK'
  BY <1>40 DEF RequestTimePasses
<1>41. CASE UNCHANGED vars
  BY <1>41 DEF vars
<1>42. ASSUME NEW p \in Processes, PlanningStep(p) PROVE TablesTypeOK'
  BY <1>1, <1>2, <1>3, <1>4, <1>5, <1>42 DEF PlanningStep
<1>43. ASSUME NEW p \in Processes, RoutingStep(p) PROVE TablesTypeOK'
  BY <1>6, <1>7, <1>8, <1>9, <1>10, <1>11, <1>43 DEF RoutingStep
<1>44. ASSUME NEW p \in Processes, SyncStep(p) PROVE TablesTypeOK'
  BY <1>12, <1>13, <1>14, <1>44 DEF SyncStep
<1>45. ASSUME NEW p \in Processes, ExecutionStep(p) PROVE TablesTypeOK'
  BY <1>15, <1>16, <1>17, <1>18, <1>19, <1>20, <1>21, <1>22, <1>23, <1>24, <1>25,
     <1>45 DEF ExecutionStep
<1>46. ASSUME NEW p \in Processes, LeaseStep(p) PROVE TablesTypeOK'
  BY <1>26, <1>27, <1>28, <1>29, <1>30, <1>46 DEF LeaseStep
<1>47. ASSUME NEW p \in Processes, RecoveryStep(p) PROVE TablesTypeOK'
  BY <1>31, <1>32, <1>33, <1>34, <1>35, <1>36, <1>47 DEF RecoveryStep
<1> QED
  BY <1>37, <1>38, <1>39, <1>40, <1>41, <1>42, <1>43, <1>44, <1>45, <1>46, <1>47 DEF Next, Step

\* What recovery may make of an action.
LEMMA DecisionIsOneOf == ASSUME NEW q PROVE ClassifyRecoveryDecision(q) \in Decisions
BY DEF ClassifyRecoveryDecision, ReplayDecision, Decisions

\* An outcome stands for a final status.
LEMMA FinalStatusIsOneOf == ASSUME NEW o PROVE FinalStatus(o) \in {"executed", "blocked", "failed"}
BY Zenon DEF FinalStatus

\* The verdict can be written to the tables.
LEMMA VerdictTyped ==
  ASSUME TypeOK, NEW a \in Actions
  PROVE  Verdict(a) \in ActionStatuses /\ RunVerdict(a) \in Outcomes
<1>1. TerminalStatus(a) \in ActionStatuses
  <2>1. actionStatus[a] \in ActionStatuses
    BY DEF TypeOK, TablesTypeOK
  <2>2. \A o : FinalStatus(o) \in ActionStatuses
    BY FinalStatusIsOneOf DEF ActionStatuses
  <2> HIDE DEF FinalStatus
  <2> QED
    BY <2>1, <2>2 DEF TerminalStatus, ActionStatuses
<1>2. DecisionAbout(a) \in Decisions
  BY DecisionIsOneOf DEF DecisionAbout
<1>3. Verdict(a) \in ActionStatuses
  <2>1. CASE DecisionAbout(a) = "continue"
    BY <1>1, <2>1 DEF Verdict
  <2>2. CASE DecisionAbout(a) = "reapprove"
    BY <2>2 DEF Verdict, ActionStatuses
  <2>3. CASE DecisionAbout(a) \in {"clarify", "abandon"}
    BY <2>3 DEF Verdict, ActionStatuses
  <2>4. CASE DecisionAbout(a) = "retry"
    BY <2>4 DEF Verdict, ActionStatuses
  <2>5. CASE DecisionAbout(a) = "defer"
    BY <2>5 DEF Verdict, ActionStatuses
  <2> QED
    BY <1>2, <2>1, <2>2, <2>3, <2>4, <2>5 DEF Decisions
<1>4. RunVerdict(a) \in Outcomes
  BY <1>1, Zenon DEF RunVerdict, Outcomes
<1> QED
  BY <1>3, <1>4

\* A process that is done is where it may wait, and holds nothing.
LEMMA LeaveTyped ==
  ASSUME TypeOK, NEW p \in Processes, Leave(p)
  PROVE  ProcessesTypeOK'
BY GovernedActionsAssumption
   DEF TypeOK, ProcessesTypeOK, Leave, Forget, ActionPoints, RequestPoints, ProgramPoints,
       TurnPoints, ResolverPoints, SupervisorPoints, RoutePoints, ExecutePoints, WorkPoints,
       LeasePoints, RecoveryPoints, ActionStatuses, Outcomes, Processes, Executors, Resolvers

\* So is one whose execution is over.
LEMMA AfterExecutionTyped ==
  ASSUME TypeOK, NEW p \in Processes, NEW status, AfterExecution(p, status)
  PROVE  ProcessesTypeOK'
<1>1. CASE p \notin Turns
  BY <1>1, LeaveTyped DEF AfterExecution
<1>2. CASE p \in Turns
  <2>1. /\ pc' = [pc EXCEPT ![p] = "propose"]
        /\ executed' = [executed EXCEPT ![p] = IF status = "blocked" THEN executed[p]
                                                                    ELSE executed[p] + 1]
        /\ Forget(p)
        /\ UNCHANGED todo
    BY <1>2, Zenon DEF AfterExecution
  <2>2. executed \in [Processes -> Nat]
    BY DEF TypeOK, ProcessesTypeOK
  <2>3. executed' \in [Processes -> Nat]
    BY <2>1, <2>2
  <2> QED
    BY <1>2, <2>1, <2>3, KindsOfProcesses
       DEF TypeOK, ProcessesTypeOK, Forget, ActionPoints, RequestPoints, ProgramPoints, TurnPoints,
           RoutePoints, ExecutePoints, WorkPoints, LeasePoints, RecoveryPoints, ActionStatuses,
           Outcomes
<1> QED
  BY <1>1, <1>2

\* So is one whose recovery is over.
LEMMA AfterRecoveryTyped ==
  ASSUME TypeOK, NEW p \in Processes, AfterRecovery(p)
  PROVE  ProcessesTypeOK'
<1>1. CASE p \notin Supervisors
  BY <1>1, AfterExecutionTyped DEF AfterRecovery
<1>2. CASE p \in Supervisors
  <2>1. pc' = [pc EXCEPT ![p] = "expired"] /\ Forget(p) /\ UNCHANGED <<executed, todo>>
    BY <1>2 DEF AfterRecovery
  <2> QED
    BY <1>2, <2>1, KindsOfProcesses
       DEF TypeOK, ProcessesTypeOK, Forget, ActionPoints, RequestPoints, ProgramPoints,
           SupervisorPoints, RoutePoints, ExecutePoints, WorkPoints, LeasePoints, RecoveryPoints,
           ActionStatuses, Outcomes
<1> QED
  BY <1>1, <1>2

\* A process that is about to write about a row remembers which.
LEMMA ProcessesTyped == TypeOK /\ RowsKnown /\ [Next]_vars => ProcessesTypeOK'
<1> SUFFICES ASSUME TypeOK, RowsKnown, [Next]_vars PROVE ProcessesTypeOK'
    OBVIOUS
<1> USE GovernedActionsAssumption, ApprovalsAssumption
    DEF TypeOK, ProcessesTypeOK, RowsKnown, ActionPoints,
        RequestPoints,
        ProgramPoints, TurnPoints, ResolverPoints, SupervisorPoints, RoutePoints,
           ResolvePoints, WorkPoints, LeasePoints, RecoveryPoints, ExecutePoints,
        ActionStatuses, Resolutions, Outcomes,
        Processes, Executors, Resolvers, At, Goto, procVars
<1>1. ASSUME NEW p \in Processes, PlanBlocked(p) PROVE ProcessesTypeOK'
  BY <1>1 DEF PlanBlocked, InsertAction
<1>2. ASSUME NEW p \in Processes, PlanAction(p) PROVE ProcessesTypeOK'
  BY <1>2 DEF PlanAction, InsertAction, PlannedStatus, AfterPlanning
<1>3. ASSUME NEW p \in Processes, FinishTurn(p) PROVE ProcessesTypeOK'
  BY <1>3, LeaveTyped
     DEF FinishTurn
<1>4. ASSUME NEW p \in Processes, DenyAtCap(p) PROVE ProcessesTypeOK'
  BY <1>4 DEF DenyAtCap, MarkUnfinished, SetAction, Leave, Forget
<1>5. ASSUME NEW p \in Processes, EscalateAtCap(p) PROVE ProcessesTypeOK'
  BY <1>5 DEF EscalateAtCap, MarkUnfinished, SetAction
<1>6. ASSUME NEW p \in Processes, LookUpRequest(p) PROVE ProcessesTypeOK'
  BY <1>6 DEF LookUpRequest, PendingFor, PendingRequests
<1>7. ASSUME NEW p \in Processes, CountPending(p) PROVE ProcessesTypeOK'
  <2>1. CASE Leave(p)
    BY <2>1, LeaveTyped
  <2>2. CASE Goto(p, "create")
    BY <1>7, <2>2 DEF CountPending
  <2> QED
    BY <1>7, <2>1, <2>2, Zenon DEF CountPending
<1>8. ASSUME NEW p \in Processes, CreateRequest(p) PROVE ProcessesTypeOK'
  BY <1>8 DEF CreateRequest, InsertRequest
<1>9. ASSUME NEW p \in Processes, CreateRefused(p) PROVE ProcessesTypeOK'
  BY <1>9, LeaveTyped
     DEF CreateRefused
<1>10. ASSUME NEW p \in Processes, AttachRequest(p) PROVE ProcessesTypeOK'
  BY <1>10 DEF AttachRequest
<1>11. ASSUME NEW p \in Processes, PromptForApproval(p) PROVE ProcessesTypeOK'
  <2>1. CASE Leave(p)
    BY <2>1, LeaveTyped
  <2>2. CASE /\ pc' = [pc EXCEPT ![p] = "propose"]
             /\ Forget(p)
             /\ UNCHANGED <<executed, todo>>
    BY <1>11, <2>2 DEF PromptForApproval, Forget
  <2> QED
    BY <1>11, <2>1, <2>2, Zenon DEF PromptForApproval
<1>12. ASSUME NEW p \in Processes, FindAction(p) PROVE ProcessesTypeOK'
  <2>1. CASE Leave(p)
    BY <2>1, LeaveTyped
  <2>2. ASSUME NEW a \in Actions,
               cur' = [cur EXCEPT ![p] = a], pc' = [pc EXCEPT ![p] = "sync"],
               UNCHANGED <<req, seen, outcome, executed, todo>>
        PROVE  ProcessesTypeOK'
    BY <1>12, <2>2 DEF FindAction
  <2> QED
    BY <1>12, <2>1, <2>2 DEF FindAction, AttachedTo
<1>13. ASSUME NEW p \in Processes, SyncAction(p) PROVE ProcessesTypeOK'
  <2>1. CASE Leave(p)
    BY <2>1, LeaveTyped
  <2>2. CASE Goto(p, "recheck")
    BY <1>13, <2>2 DEF SyncAction
  <2> QED
    BY <1>13, <2>1, <2>2, Zenon DEF SyncAction
<1>14. ASSUME NEW p \in Processes, SyncRefused(p) PROVE ProcessesTypeOK'
  BY <1>14, LeaveTyped
     DEF SyncRefused
<1>15. ASSUME NEW p \in Processes, RecheckFails(p) PROVE ProcessesTypeOK'
  BY <1>15, AfterExecutionTyped
     DEF RecheckFails
<1>16. ASSUME NEW p \in Processes, InsertExecution(p) PROVE ProcessesTypeOK'
  BY <1>16 DEF InsertExecution, SetExecution
<1>17. ASSUME NEW p \in Processes, StartAction(p) PROVE ProcessesTypeOK'
  BY <1>17 DEF StartAction, MarkUnfinished, SetAction
<1>18. ASSUME NEW p \in Processes, AcquireLease(p) PROVE ProcessesTypeOK'
  BY <1>18 DEF AcquireLease, SetLease
<1>19. ASSUME NEW p \in Processes, RecordRun(p) PROVE ProcessesTypeOK'
  BY <1>19 DEF RecordRun, SetRun
<1>20. ASSUME NEW p \in Processes, StartRun(p) PROVE ProcessesTypeOK'
  BY <1>20 DEF StartRun, SetRun
<1>21. ASSUME NEW p \in Processes, Work(p) PROVE ProcessesTypeOK'
  BY <1>21 DEF Work, OutcomesOf, CountEffect
<1>22. ASSUME NEW p \in Processes, WorkErrors(p) PROVE ProcessesTypeOK'
  BY <1>22 DEF WorkErrors, CountEffect
<1>23. ASSUME NEW p \in Processes, FinishExecution(p) PROVE ProcessesTypeOK'
  BY <1>23 DEF FinishExecution, SetExecution
<1>24. ASSUME NEW p \in Processes, FinishRun(p) PROVE ProcessesTypeOK'
  BY <1>24 DEF FinishRun, SetRun
<1>25. ASSUME NEW p \in Processes, FinishAction(p) PROVE ProcessesTypeOK'
  BY <1>25 DEF FinishAction, SetAction, FinalStatus
<1>26. ASSUME NEW p \in Processes, CheckLease(p) PROVE ProcessesTypeOK'
  BY <1>26 DEF CheckLease
<1>27. ASSUME NEW p \in Processes, LeaseLost(p) PROVE ProcessesTypeOK'
  BY <1>27, LeaveTyped
     DEF LeaseLost
<1>28. ASSUME NEW p \in Processes, ReleaseLease(p) PROVE ProcessesTypeOK'
  BY <1>28, AfterExecutionTyped
     DEF ReleaseLease
<1>29. ASSUME NEW p \in Processes, ReleaseAfterError(p) PROVE ProcessesTypeOK'
  BY <1>29, LeaveTyped
     DEF ReleaseAfterError
<1>30. ASSUME NEW p \in Processes, TerminateLease(p) PROVE ProcessesTypeOK'
  BY <1>30 DEF TerminateLease, SetLease
<1>31. ASSUME NEW p \in Processes, ExpireDueLeases(p) PROVE ProcessesTypeOK'
  <2>1. /\ p \in Supervisors
        /\ pc' = [pc EXCEPT ![p] = "expired"] /\ todo' = [todo EXCEPT ![p] = overdue]
        /\ UNCHANGED <<cur, req, seen, outcome, executed>>
    BY <1>31 DEF ExpireDueLeases
  <2>2. overdue \subseteq Actions
    BY DEF TablesTypeOK
  <2> QED
    BY <2>1, <2>2
<1>32. ASSUME NEW p \in Processes, TakeExpiredLease(p) PROVE ProcessesTypeOK'
  BY <1>32 DEF TakeExpiredLease
<1>33. ASSUME NEW p \in Processes, FinishSupervision(p) PROVE ProcessesTypeOK'
  BY <1>33, LeaveTyped
     DEF FinishSupervision
<1>34. ASSUME NEW p \in Processes, LoadContext(p) PROVE ProcessesTypeOK'
  <2>1. cur[p] \in Actions
    BY <1>34 DEF LoadContext
  <2>2. Verdict(cur[p]) \in ActionStatuses /\ RunVerdict(cur[p]) \in Outcomes
    BY <2>1, VerdictTyped
  <2>3. CASE AfterRecovery(p)
    BY <2>3, AfterRecoveryTyped
  <2>4. CASE /\ seen' = [seen EXCEPT ![p] = Verdict(cur[p])]
             /\ outcome' = [outcome EXCEPT ![p] = RunVerdict(cur[p])]
             /\ pc' = [pc EXCEPT ![p] = IF RunVerdict(cur[p]) = "none" THEN "recoverAction"
                                                                     ELSE "recoverRun"]
             /\ UNCHANGED <<cur, req, executed, todo>>
    BY <1>34, <2>2, <2>4 DEF LoadContext
  <2> QED
    BY <1>34, <2>3, <2>4, Zenon DEF LoadContext
<1>35. ASSUME NEW p \in Processes, RecoverRun(p) PROVE ProcessesTypeOK'
  BY <1>35 DEF RecoverRun, SetRun
<1>36. ASSUME NEW p \in Processes, RecoverAction(p) PROVE ProcessesTypeOK'
  BY <1>36, AfterRecoveryTyped
     DEF RecoverAction
<1>37. ASSUME NEW p \in Processes, AnswerRequest(p) PROVE ProcessesTypeOK'
  BY <1>37 DEF AnswerRequest, Answers, ResolveRequest
<1>38. ASSUME NEW p \in Processes, Crash(p) PROVE ProcessesTypeOK'
  BY <1>38, LeaveTyped
     DEF Crash
<1>39. ASSUME NEW a \in Actions, LeaseTimePasses(a) PROVE ProcessesTypeOK'
  BY <1>39 DEF LeaseTimePasses
<1>40. ASSUME NEW r \in Requests, RequestTimePasses(r),
             UNCHANGED <<rowVars, statusVars, recordVars, leaseVars, procVars, others>>
      PROVE  ProcessesTypeOK'
  BY <1>40 DEF RequestTimePasses
<1>41. CASE UNCHANGED vars
  BY <1>41 DEF vars
<1>42. ASSUME NEW p \in Processes, PlanningStep(p) PROVE ProcessesTypeOK'
  BY <1>1, <1>2, <1>3, <1>4, <1>5, <1>42 DEF PlanningStep
<1>43. ASSUME NEW p \in Processes, RoutingStep(p) PROVE ProcessesTypeOK'
  BY <1>6, <1>7, <1>8, <1>9, <1>10, <1>11, <1>43 DEF RoutingStep
<1>44. ASSUME NEW p \in Processes, SyncStep(p) PROVE ProcessesTypeOK'
  BY <1>12, <1>13, <1>14, <1>44 DEF SyncStep
<1>45. ASSUME NEW p \in Processes, ExecutionStep(p) PROVE ProcessesTypeOK'
  BY <1>15, <1>16, <1>17, <1>18, <1>19, <1>20, <1>21, <1>22, <1>23, <1>24, <1>25,
     <1>45 DEF ExecutionStep
<1>46. ASSUME NEW p \in Processes, LeaseStep(p) PROVE ProcessesTypeOK'
  BY <1>26, <1>27, <1>28, <1>29, <1>30, <1>46 DEF LeaseStep
<1>47. ASSUME NEW p \in Processes, RecoveryStep(p) PROVE ProcessesTypeOK'
  BY <1>31, <1>32, <1>33, <1>34, <1>35, <1>36, <1>47 DEF RecoveryStep
<1> QED
  BY <1>37, <1>38, <1>39, <1>40, <1>41, <1>42, <1>43, <1>44, <1>45, <1>46, <1>47 DEF Next, Step

\* A process that holds nothing.
IsDone(p) ==
  /\ \E point \in {"propose", "ended", "idle", "expired"} : pc' = [pc EXCEPT ![p] = point]
  /\ Forget(p)
  /\ todo' = todo \/ todo' = [todo EXCEPT ![p] = {}]

\* What it knew is forgotten, and the rows are as they were.
LEMMA DoneKeepsRows ==
  ASSUME TypeOK, RowsKnown, NEW p \in Processes, IsDone(p),
         UNCHANGED <<actionStatus, requestStatus, started, requestOf>>,
         \A a \in Actions : leaseStatus'[a] # "none" => leaseStatus[a] # "none"
  PROVE  RowsKnown'
BY DEF TypeOK, ProcessesTypeOK, RowsKnown, IsDone, Forget, ResolvePoints, StartedPoints, WorkPoints,
       LeasePoints, RecoveryPoints

\* A process that goes on with what it started leaves the rows as they were.
LEMMA GoingOnKeepsRows ==
  ASSUME TypeOK, RowsKnown, NEW p \in Processes, pc[p] \in StartedPoints,
         Goto(p, "loadContext"),
         UNCHANGED <<actionStatus, requestStatus, started, requestOf>>,
         \A a \in Actions : leaseStatus'[a] # "none" => leaseStatus[a] # "none"
  PROVE  RowsKnown'
<1>1. pc'[p] = "loadContext" /\ \A q \in Processes : q # p => pc'[q] = pc[q]
  BY DEF TypeOK, ProcessesTypeOK, Goto
<1> QED
  BY <1>1 DEF RowsKnown, Goto, ResolvePoints

\* No row goes away, and a process knows how far its row has come.
LEMMA RowsStay == TypeOK /\ RowsKnown /\ [Next]_vars => RowsKnown'
<1> SUFFICES ASSUME TypeOK, RowsKnown, [Next]_vars PROVE RowsKnown'
    OBVIOUS
<1> USE GovernedActionsAssumption, ApprovalsAssumption
    DEF TypeOK, ProcessesTypeOK, RowsKnown, ActionPoints, RequestPoints,
        ProgramPoints, TurnPoints, ResolverPoints, SupervisorPoints, RoutePoints,
           ResolvePoints, WorkPoints, LeasePoints, RecoveryPoints, ExecutePoints,
        StartedPoints, Resolutions,
        Processes, Executors, Resolvers, At, Goto, approvalVars, rowVars, statusVars,
           recordVars, leaseVars, procVars, others
<1>1. ASSUME NEW p \in Processes, PlanBlocked(p) PROVE RowsKnown'
  BY <1>1 DEF PlanBlocked, InsertAction
<1>2. ASSUME NEW p \in Processes, PlanAction(p) PROVE RowsKnown'
  BY <1>2 DEF PlanAction, InsertAction, PlannedStatus, AfterPlanning, TablesTypeOK
<1>3. ASSUME NEW p \in Processes, FinishTurn(p) PROVE RowsKnown'
  <2>1. IsDone(p)
    BY <1>3 DEF FinishTurn, Leave, IsDone
  <2>2. /\ UNCHANGED <<actionStatus, requestStatus, started, requestOf>>
        /\ \A a \in Actions : leaseStatus'[a] # "none" => leaseStatus[a] # "none"
    BY <1>3 DEF FinishTurn
  <2> QED
    BY <2>1, <2>2, DoneKeepsRows
<1>4. ASSUME NEW p \in Processes, DenyAtCap(p) PROVE RowsKnown'
  BY <1>4 DEF DenyAtCap, MarkUnfinished, SetAction, Leave, Forget
<1>5. ASSUME NEW p \in Processes, EscalateAtCap(p) PROVE RowsKnown'
  BY <1>5 DEF EscalateAtCap, MarkUnfinished, SetAction
<1>6. ASSUME NEW p \in Processes, LookUpRequest(p) PROVE RowsKnown'
  BY <1>6 DEF LookUpRequest, PendingFor, PendingRequests
<1>7. ASSUME NEW p \in Processes, CountPending(p) PROVE RowsKnown'
  <2>1. CASE Leave(p)
    <3>1. IsDone(p)
      BY <2>1 DEF Leave, IsDone
    <3>2. /\ UNCHANGED <<actionStatus, requestStatus, started, requestOf>>
          /\ \A a \in Actions : leaseStatus'[a] # "none" => leaseStatus[a] # "none"
      BY <1>7 DEF CountPending
    <3> QED
      BY <3>1, <3>2, DoneKeepsRows
  <2>2. CASE Goto(p, "create")
    BY <1>7, <2>2 DEF CountPending
  <2> QED
    BY <1>7, <2>1, <2>2, Zenon DEF CountPending
<1>8. ASSUME NEW p \in Processes, CreateRequest(p) PROVE RowsKnown'
  BY <1>8 DEF CreateRequest, InsertRequest, TablesTypeOK, ApprovalsTypeOK
<1>9. ASSUME NEW p \in Processes, CreateRefused(p) PROVE RowsKnown'
  <2>1. IsDone(p)
    BY <1>9 DEF CreateRefused, Leave, IsDone
  <2>2. /\ UNCHANGED <<actionStatus, requestStatus, started, requestOf>>
        /\ \A a \in Actions : leaseStatus'[a] # "none" => leaseStatus[a] # "none"
    BY <1>9 DEF CreateRefused
  <2> QED
    BY <2>1, <2>2, DoneKeepsRows
<1>10. ASSUME NEW p \in Processes, AttachRequest(p) PROVE RowsKnown'
  BY <1>10 DEF AttachRequest
<1>11. ASSUME NEW p \in Processes, PromptForApproval(p) PROVE RowsKnown'
  BY <1>11 DEF PromptForApproval, Leave, Forget
<1>12. ASSUME NEW p \in Processes, FindAction(p) PROVE RowsKnown'
  <2>1. CASE Leave(p)
    BY <1>12, <2>1 DEF FindAction, Leave, Forget
  <2>2. ASSUME NEW a \in Actions, requestOf[a] = req[p],
               cur' = [cur EXCEPT ![p] = a], pc' = [pc EXCEPT ![p] = "sync"],
               UNCHANGED <<req, seen, outcome, executed, todo>>
        PROVE  RowsKnown'
    <3>1. actionStatus[a] # "absent" /\ seen[p] \in Resolutions
      BY <1>12, <2>2 DEF FindAction
    <3> QED
      BY <1>12, <2>2, <3>1 DEF FindAction
  <2> QED
    BY <1>12, <2>1, <2>2 DEF FindAction, AttachedTo
<1>13. ASSUME NEW p \in Processes, SyncAction(p) PROVE RowsKnown'
  BY <1>13 DEF SyncAction, MarkUnfinished, SetAction, ResolutionLink, Leave, Forget
<1>14. ASSUME NEW p \in Processes, SyncRefused(p) PROVE RowsKnown'
  <2>1. IsDone(p)
    BY <1>14 DEF SyncRefused, Leave, IsDone
  <2>2. /\ UNCHANGED <<actionStatus, requestStatus, started, requestOf>>
        /\ \A a \in Actions : leaseStatus'[a] # "none" => leaseStatus[a] # "none"
    BY <1>14 DEF SyncRefused
  <2> QED
    BY <2>1, <2>2, DoneKeepsRows
<1>15. ASSUME NEW p \in Processes, RecheckFails(p) PROVE RowsKnown'
  BY <1>15 DEF RecheckFails, SetAction, Leave, Forget, AfterExecution, TablesTypeOK
<1>16. ASSUME NEW p \in Processes, InsertExecution(p) PROVE RowsKnown'
  BY <1>16 DEF InsertExecution, SetExecution, TablesTypeOK
<1>17. ASSUME NEW p \in Processes, StartAction(p) PROVE RowsKnown'
  BY <1>17 DEF StartAction, MarkUnfinished, SetAction, TablesTypeOK
<1>18. ASSUME NEW p \in Processes, AcquireLease(p) PROVE RowsKnown'
  <2>1. /\ pc[p] = "lease" /\ cur[p] \in started
        /\ \E next \in {"recordRun", "work"} : pc' = [pc EXCEPT ![p] = next]
        /\ leaseStatus' = [leaseStatus EXCEPT ![cur[p]] = "active"]
        /\ UNCHANGED <<cur, req, seen, todo>>
    BY <1>18 DEF AcquireLease, SetLease
  <2>2. UNCHANGED <<actionStatus, requestStatus, started, requestOf>>
    BY <1>18 DEF AcquireLease
  <2> QED
    BY <2>1, <2>2 DEF TablesTypeOK
<1>19. ASSUME NEW p \in Processes, RecordRun(p) PROVE RowsKnown'
  BY <1>19 DEF RecordRun, SetRun
<1>20. ASSUME NEW p \in Processes, StartRun(p) PROVE RowsKnown'
  BY <1>20 DEF StartRun, SetRun
<1>21. ASSUME NEW p \in Processes, Work(p) PROVE RowsKnown'
  BY <1>21 DEF Work, OutcomesOf, CountEffect
<1>22. ASSUME NEW p \in Processes, WorkErrors(p) PROVE RowsKnown'
  <2>1. /\ pc[p] \in {"recordRun", "work"} /\ pc' = [pc EXCEPT ![p] = "releaseAfterError"]
        /\ UNCHANGED <<cur, req, seen, todo>>
        /\ UNCHANGED <<actionStatus, requestStatus, started, requestOf, leaseStatus>>
    BY <1>22 DEF WorkErrors
  <2> QED
    BY <2>1
<1>23. ASSUME NEW p \in Processes, FinishExecution(p) PROVE RowsKnown'
  BY <1>23 DEF FinishExecution, SetExecution
<1>24. ASSUME NEW p \in Processes, FinishRun(p) PROVE RowsKnown'
  BY <1>24 DEF FinishRun, SetRun
<1>25. ASSUME NEW p \in Processes, FinishAction(p) PROVE RowsKnown'
  BY <1>25 DEF FinishAction, SetAction, FinalStatus
<1>26. ASSUME NEW p \in Processes, CheckLease(p) PROVE RowsKnown'
  <2>1. /\ pc[p] = "checkLease" /\ cur[p] \in started /\ pc' = [pc EXCEPT ![p] = "release"]
        /\ UNCHANGED <<cur, req, seen, todo>>
        /\ UNCHANGED <<actionStatus, requestStatus, started, leaseStatus, requestOf>>
    BY <1>26 DEF CheckLease
  <2> QED
    BY <2>1
<1>27. ASSUME NEW p \in Processes, LeaseLost(p) PROVE RowsKnown'
  <2>1. IsDone(p)
    BY <1>27 DEF LeaseLost, Leave, IsDone
  <2>2. /\ UNCHANGED <<actionStatus, requestStatus, started, requestOf>>
        /\ \A a \in Actions : leaseStatus'[a] # "none" => leaseStatus[a] # "none"
    BY <1>27 DEF LeaseLost
  <2> QED
    BY <2>1, <2>2, DoneKeepsRows
<1>28. ASSUME NEW p \in Processes, ReleaseLease(p) PROVE RowsKnown'
  <2>1. IsDone(p)
    BY <1>28 DEF ReleaseLease, AfterExecution, Leave, IsDone
  <2>2. /\ UNCHANGED <<actionStatus, requestStatus, started, requestOf>>
        /\ \A a \in Actions : leaseStatus'[a] # "none" => leaseStatus[a] # "none"
    BY <1>28 DEF ReleaseLease, ReleaseIfActive, SetLease, TablesTypeOK
  <2> QED
    BY <2>1, <2>2, DoneKeepsRows
<1>29. ASSUME NEW p \in Processes, ReleaseAfterError(p) PROVE RowsKnown'
  <2>1. IsDone(p)
    BY <1>29 DEF ReleaseAfterError, Leave, IsDone
  <2>2. /\ UNCHANGED <<actionStatus, requestStatus, started, requestOf>>
        /\ \A a \in Actions : leaseStatus'[a] # "none" => leaseStatus[a] # "none"
    BY <1>29 DEF ReleaseAfterError, ReleaseIfActive, SetLease, TablesTypeOK
  <2> QED
    BY <2>1, <2>2, DoneKeepsRows
<1>30. ASSUME NEW p \in Processes, TerminateLease(p) PROVE RowsKnown'
  <2>1. /\ leaseStatus' = [leaseStatus EXCEPT ![cur[p]] = "terminated"]
        /\ leaseStatus[cur[p]] # "none"
        /\ UNCHANGED <<actionStatus, requestStatus, started, requestOf>>
    BY <1>30 DEF TerminateLease, SetLease
  <2>2. \A a \in Actions : leaseStatus'[a] # "none" => leaseStatus[a] # "none"
    BY <2>1 DEF TablesTypeOK
  <2>3. pc[p] \in StartedPoints /\ Goto(p, "loadContext")
    BY <1>30 DEF TerminateLease
  <2> QED
    BY <2>1, <2>2, <2>3, GoingOnKeepsRows
<1>31. ASSUME NEW p \in Processes, ExpireDueLeases(p) PROVE RowsKnown'
  BY <1>31 DEF ExpireDueLeases, TablesTypeOK
<1>32. ASSUME NEW p \in Processes, TakeExpiredLease(p) PROVE RowsKnown'
  <2>1. PICK a \in todo[p] : /\ cur' = [cur EXCEPT ![p] = a]
                             /\ todo' = [todo EXCEPT ![p] = @ \ {a}]
    BY <1>32 DEF TakeExpiredLease
  <2>2. a \in Actions /\ a \in started /\ actionStatus[a] # "absent"
    BY <2>1
  <2> QED
    BY <1>32, <2>1, <2>2 DEF TakeExpiredLease
<1>33. ASSUME NEW p \in Processes, FinishSupervision(p) PROVE RowsKnown'
  <2>1. IsDone(p)
    BY <1>33 DEF FinishSupervision, Leave, IsDone
  <2>2. /\ UNCHANGED <<actionStatus, requestStatus, started, requestOf>>
        /\ \A a \in Actions : leaseStatus'[a] # "none" => leaseStatus[a] # "none"
    BY <1>33 DEF FinishSupervision
  <2> QED
    BY <2>1, <2>2, DoneKeepsRows
<1>34. ASSUME NEW p \in Processes, LoadContext(p) PROVE RowsKnown'
  <2>1. CASE AfterRecovery(p)
    <3>1. IsDone(p)
      BY <2>1 DEF AfterRecovery, AfterExecution, Leave, IsDone
    <3>2. /\ UNCHANGED <<actionStatus, requestStatus, started, requestOf>>
          /\ \A a \in Actions : leaseStatus'[a] # "none" => leaseStatus[a] # "none"
      BY <1>34 DEF LoadContext
    <3> QED
      BY <3>1, <3>2, DoneKeepsRows
  <2>2. ASSUME NEW status, status # "absent",
               NEW point \in {"recoverRun", "recoverAction"},
               seen' = [seen EXCEPT ![p] = status], pc' = [pc EXCEPT ![p] = point],
               UNCHANGED <<cur, req, executed, todo>>
        PROVE  RowsKnown'
    <3>1. /\ pc[p] = "loadContext" /\ cur[p] \in started
          /\ UNCHANGED <<actionStatus, requestStatus, started, requestOf, leaseStatus>>
      BY <1>34 DEF LoadContext
    <3> QED
      BY <2>2, <3>1
  <2>3. \/ AfterRecovery(p)
        \/ /\ Verdict(cur[p]) # "absent"
           /\ seen' = [seen EXCEPT ![p] = Verdict(cur[p])]
           /\ \E point \in {"recoverRun", "recoverAction"} : pc' = [pc EXCEPT ![p] = point]
           /\ UNCHANGED <<cur, req, executed, todo>>
    BY <1>34, Zenon DEF LoadContext
  <2> QED
    BY <2>1, <2>2, <2>3
<1>35. ASSUME NEW p \in Processes, RecoverRun(p) PROVE RowsKnown'
  BY <1>35 DEF RecoverRun, SetRun
<1>36. ASSUME NEW p \in Processes, RecoverAction(p) PROVE RowsKnown'
  BY <1>36 DEF RecoverAction, SetAction, AfterRecovery, AfterExecution, Leave, Forget
<1>37. ASSUME NEW p \in Processes, AnswerRequest(p) PROVE RowsKnown'
  BY <1>37 DEF AnswerRequest, Answers, ResolveRequest
<1>38. ASSUME NEW p \in Processes, Crash(p) PROVE RowsKnown'
  <2>1. IsDone(p)
    BY <1>38 DEF Crash, Leave, IsDone
  <2>2. /\ UNCHANGED <<actionStatus, requestStatus, started, requestOf>>
        /\ \A a \in Actions : leaseStatus'[a] # "none" => leaseStatus[a] # "none"
    BY <1>38 DEF Crash
  <2> QED
    BY <2>1, <2>2, DoneKeepsRows
<1>39. ASSUME NEW a \in Actions, LeaseTimePasses(a) PROVE RowsKnown'
  BY <1>39 DEF LeaseTimePasses
<1>40. ASSUME NEW r \in Requests, RequestTimePasses(r),
             UNCHANGED <<rowVars, statusVars, recordVars, leaseVars, procVars, others>>
      PROVE  RowsKnown'
  BY <1>40 DEF RequestTimePasses
<1>41. CASE UNCHANGED vars
  BY <1>41 DEF vars
<1>42. ASSUME NEW p \in Processes, PlanningStep(p) PROVE RowsKnown'
  BY <1>1, <1>2, <1>3, <1>4, <1>5, <1>42 DEF PlanningStep
<1>43. ASSUME NEW p \in Processes, RoutingStep(p) PROVE RowsKnown'
  BY <1>6, <1>7, <1>8, <1>9, <1>10, <1>11, <1>43 DEF RoutingStep
<1>44. ASSUME NEW p \in Processes, SyncStep(p) PROVE RowsKnown'
  BY <1>12, <1>13, <1>14, <1>44 DEF SyncStep
<1>45. ASSUME NEW p \in Processes, ExecutionStep(p) PROVE RowsKnown'
  BY <1>15, <1>16, <1>17, <1>18, <1>19, <1>20, <1>21, <1>22, <1>23, <1>24, <1>25,
     <1>45 DEF ExecutionStep
<1>46. ASSUME NEW p \in Processes, LeaseStep(p) PROVE RowsKnown'
  BY <1>26, <1>27, <1>28, <1>29, <1>30, <1>46 DEF LeaseStep
<1>47. ASSUME NEW p \in Processes, RecoveryStep(p) PROVE RowsKnown'
  BY <1>31, <1>32, <1>33, <1>34, <1>35, <1>36, <1>47 DEF RecoveryStep
<1> QED
  BY <1>37, <1>38, <1>39, <1>40, <1>41, <1>42, <1>43, <1>44, <1>45, <1>46, <1>47 DEF Next, Step

\* Type correctness: every statement of a turn, of somebody who answers and of
\* recovery finds the row it is about and writes what its column allows.
THEOREM TypeCorrect == Spec => [](TypeOK /\ RowsKnown)
<1>1. Init => TypeOK /\ RowsKnown
  BY GovernedActionsAssumption, ApprovalsAssumption
     DEF Init, ApprovalsInit, TypeOK, TablesTypeOK, ApprovalsTypeOK, ProcessesTypeOK, RowsKnown,
         ProgramPoints, TurnPoints, ResolverPoints, SupervisorPoints, ActionPoints, RequestPoints,
         RoutePoints, ResolvePoints, ExecutePoints, WorkPoints, LeasePoints, RecoveryPoints,
         StartedPoints, ActionStatuses, RequestStatuses, ExecStatuses, ScriptRunStatuses, Outcomes,
         Processes, Executors, Resolvers
<1>2. TypeOK /\ RowsKnown /\ [Next]_vars => (TypeOK /\ RowsKnown)'
  BY TablesTyped, ProcessesTyped, RowsStay DEF TypeOK
<1> QED
  BY <1>1, <1>2, PTL DEF Spec

-----------------------------------------------------------------------------
(* What a step may do to consent. *)

\* Requests, proposals, attachments and effects stay as they are.
RowsStand ==
  /\ UNCHANGED <<requestStatus, requestFor, proposal, requestOf, effects>>
  /\ \A a \in Actions : actionStatus'[a] = "absent" <=> actionStatus[a] = "absent"

OthersWait(p) ==
  \A q \in Processes \ {p} :
    pc'[q] = pc[q] /\ cur'[q] = cur[q] /\ req'[q] = req[q] /\ seen'[q] = seen[q]

KeepsAction(p) == cur'[p] = cur[p] /\ req'[p] = req[p] /\ seen'[p] = seen[p]

\* It is done with its action.
LetsGo(p) ==
  pc'[p] \in {"propose", "ended", "idle", "expired"} /\ cur'[p] = None /\ req'[p] = None

\* It goes on with an execution or a recovery, never back to what may be done once.
CarriesOn(p) ==
  /\ p \in Executors
  /\ pc[p] \in ExecutePoints /\ pc'[p] \in ExecutePoints
  /\ pc'[p] \in BeforeEffect => pc[p] \in BeforeEffect
  /\ cur'[p] = cur[p] /\ req'[p] = req[p]

Routes(p) ==
  /\ p \in Turns
  /\ pc[p] \in BeforeRequest /\ pc'[p] \in {"lookup", "count", "create"}
  /\ KeepsAction(p)

FindsRequest(p) ==
  /\ p \in Turns
  /\ pc[p] = "lookup" /\ pc'[p] = "attach"
  /\ requestFor[req'[p]] = proposal[cur[p]]
  /\ cur'[p] = cur[p]

FindsAction(p) ==
  /\ p \in Resolvers
  /\ pc[p] = "find" /\ pc'[p] = "sync"
  /\ cur'[p] \in Actions /\ requestOf[cur'[p]] = req[p]
  /\ req'[p] = req[p] /\ seen'[p] = seen[p]

Accepts(p) ==
  /\ p \in Resolvers
  /\ pc[p] = "sync" /\ pc'[p] = "recheck" /\ seen[p] = "approved"
  /\ KeepsAction(p)

Quiet(p) ==
  /\ RowsStand
  /\ OthersWait(p)
  /\ \/ LetsGo(p) \/ CarriesOn(p) \/ p \in Supervisors \/ Routes(p)
     \/ FindsRequest(p) \/ FindsAction(p) \/ Accepts(p)

Still == RowsStand /\ UNCHANGED <<pc, cur, req, seen>>

\* The actions that write what consent is about.
Writes(p) ==
  \/ PlanBlocked(p) \/ PlanAction(p) \/ CreateRequest(p) \/ AttachRequest(p)
  \/ AnswerRequest(p) \/ Work(p) \/ WorkErrors(p)

\* Every other action keeps the rows and moves one process at most.
LEMMA QuietOrWrites ==
  TypeOK /\ RowsKnown /\ [Next]_vars => Still \/ \E p \in Processes : Quiet(p) \/ Writes(p)
<1> SUFFICES ASSUME TypeOK, RowsKnown, [Next]_vars
             PROVE  Still \/ \E p \in Processes : Quiet(p) \/ Writes(p)
    OBVIOUS
<1> USE GovernedActionsAssumption, ApprovalsAssumption
<1> USE DEF TypeOK, ProcessesTypeOK, ActionPoints, RequestPoints, ProgramPoints, TurnPoints,
        ResolverPoints, SupervisorPoints, RoutePoints, ResolvePoints, WorkPoints, LeasePoints,
        RecoveryPoints, ExecutePoints, BeforeEffect, BeforeRequest, Processes, Executors,
        Resolvers, At, Goto, Quiet, RowsStand, OthersWait, KeepsAction, LetsGo, CarriesOn, Routes,
        FindsRequest, FindsAction, Accepts, approvalVars, rowVars, statusVars, recordVars,
        leaseVars, procVars, others
<1>1. ASSUME NEW p \in Processes, FinishTurn(p) PROVE Quiet(p)
  BY <1>1 DEF FinishTurn, Leave, Forget
<1>2. ASSUME NEW p \in Processes, DenyAtCap(p) PROVE Quiet(p)
  <2>1. cur[p] \in Actions /\ actionStatus[cur[p]] # "absent" /\ "blocked" # "absent"
    BY <1>2, RowAtHand DEF DenyAtCap, RowsKnown
  <2>2. actionStatus' = [actionStatus EXCEPT ![cur[p]] = "blocked"]
    BY <1>2 DEF DenyAtCap, MarkUnfinished, SetAction
  <2>3. RowsStand
    BY <1>2, <2>1, <2>2 DEF TablesTypeOK, DenyAtCap
  <2> QED
    BY <1>2, <2>3 DEF DenyAtCap, MarkUnfinished, Leave, Forget
<1>3. ASSUME NEW p \in Processes, EscalateAtCap(p) PROVE Quiet(p)
  <2>1. cur[p] \in Actions /\ actionStatus[cur[p]] # "absent" /\ "awaiting_approval" # "absent"
    BY <1>3, RowAtHand DEF EscalateAtCap, RowsKnown
  <2>2. actionStatus' = [actionStatus EXCEPT ![cur[p]] = "awaiting_approval"]
    BY <1>3 DEF EscalateAtCap, MarkUnfinished, SetAction
  <2>3. RowsStand
    BY <1>3, <2>1, <2>2 DEF TablesTypeOK, EscalateAtCap
  <2> QED
    BY <1>3, <2>3 DEF EscalateAtCap, MarkUnfinished
<1>4. ASSUME NEW p \in Processes, LookUpRequest(p) PROVE Quiet(p)
  BY <1>4 DEF LookUpRequest, PendingFor, PendingRequests
<1>5. ASSUME NEW p \in Processes, CountPending(p) PROVE Quiet(p)
  BY <1>5 DEF CountPending, Leave, Forget
<1>6. ASSUME NEW p \in Processes, CreateRefused(p) PROVE Quiet(p)
  BY <1>6 DEF CreateRefused, Leave, Forget
<1>7. ASSUME NEW p \in Processes, PromptForApproval(p) PROVE Quiet(p)
  BY <1>7 DEF PromptForApproval, Leave, Forget
<1>8. ASSUME NEW p \in Processes, FindAction(p) PROVE Quiet(p)
  BY <1>8 DEF FindAction, AttachedTo, Leave, Forget
<1>9. ASSUME NEW p \in Processes, SyncAction(p) PROVE Quiet(p)
  <2>1. cur[p] \in Actions /\ actionStatus[cur[p]] # "absent" /\ seen[p] # "absent"
    BY <1>9, RowAtHand DEF SyncAction, RowsKnown, Resolutions
  <2>2. actionStatus' = [actionStatus EXCEPT ![cur[p]] = seen[p]]
    BY <1>9 DEF SyncAction, MarkUnfinished, SetAction
  <2>3. RowsStand
    BY <1>9, <2>1, <2>2 DEF TablesTypeOK, SyncAction
  <2> QED
    BY <1>9, <2>3 DEF SyncAction, MarkUnfinished, Leave, Forget
<1>10. ASSUME NEW p \in Processes, SyncRefused(p) PROVE Quiet(p)
  BY <1>10 DEF SyncRefused, Leave, Forget
<1>11. ASSUME NEW p \in Processes, RecheckFails(p) PROVE Quiet(p)
  <2>1. cur[p] \in Actions /\ actionStatus[cur[p]] # "absent" /\ "blocked" # "absent"
    BY <1>11, RowAtHand DEF RecheckFails, RowsKnown
  <2>2. actionStatus' = [actionStatus EXCEPT ![cur[p]] = "blocked"]
    BY <1>11 DEF RecheckFails, MarkUnfinished, SetAction
  <2>3. RowsStand
    BY <1>11, <2>1, <2>2 DEF TablesTypeOK, RecheckFails
  <2> QED
    BY <1>11, <2>3 DEF RecheckFails, Leave, Forget, AfterExecution
<1>12. ASSUME NEW p \in Processes, InsertExecution(p) PROVE Quiet(p)
  BY <1>12 DEF InsertExecution, SetExecution
<1>13. ASSUME NEW p \in Processes, StartAction(p) PROVE Quiet(p)
  <2>1. cur[p] \in Actions /\ actionStatus[cur[p]] # "absent" /\ seen[p] # "absent"
    BY <1>13, RowAtHand DEF StartAction, RowsKnown
  <2>2. actionStatus' = [actionStatus EXCEPT ![cur[p]] = seen[p]]
    BY <1>13 DEF StartAction, MarkUnfinished, SetAction
  <2>3. RowsStand
    BY <1>13, <2>1, <2>2 DEF TablesTypeOK, StartAction
  <2> QED
    BY <1>13, <2>3 DEF StartAction, MarkUnfinished
<1>14. ASSUME NEW p \in Processes, AcquireLease(p) PROVE Quiet(p)
  BY <1>14 DEF AcquireLease
<1>15. ASSUME NEW p \in Processes, RecordRun(p) PROVE Quiet(p)
  BY <1>15 DEF RecordRun, SetRun
<1>16. ASSUME NEW p \in Processes, StartRun(p) PROVE Quiet(p)
  BY <1>16 DEF StartRun, SetRun
<1>17. ASSUME NEW p \in Processes, FinishExecution(p) PROVE Quiet(p)
  BY <1>17 DEF FinishExecution, SetExecution
<1>18. ASSUME NEW p \in Processes, FinishRun(p) PROVE Quiet(p)
  BY <1>18 DEF FinishRun, SetRun
<1>19. ASSUME NEW p \in Processes, FinishAction(p) PROVE Quiet(p)
  <2>1. cur[p] \in Actions /\ actionStatus[cur[p]] # "absent" /\ FinalStatus(outcome[p]) # "absent"
    BY <1>19, RowAtHand, FinalStatusIsOneOf DEF FinishAction, RowsKnown
  <2>2. actionStatus' = [actionStatus EXCEPT ![cur[p]] = FinalStatus(outcome[p])]
    BY <1>19 DEF FinishAction, MarkUnfinished, SetAction
  <2>3. RowsStand
    BY <1>19, <2>1, <2>2 DEF TablesTypeOK, FinishAction
  <2> QED
    BY <1>19, <2>3 DEF FinishAction
<1>20. ASSUME NEW p \in Processes, CheckLease(p) PROVE Quiet(p)
  BY <1>20 DEF CheckLease
<1>21. ASSUME NEW p \in Processes, LeaseLost(p) PROVE Quiet(p)
  BY <1>21 DEF LeaseLost, Leave, Forget
<1>22. ASSUME NEW p \in Processes, ReleaseLease(p) PROVE Quiet(p)
  BY <1>22 DEF ReleaseLease, Leave, Forget, AfterExecution
<1>23. ASSUME NEW p \in Processes, ReleaseAfterError(p) PROVE Quiet(p)
  BY <1>23 DEF ReleaseAfterError, Leave, Forget
<1>24. ASSUME NEW p \in Processes, TerminateLease(p) PROVE Quiet(p)
  BY <1>24 DEF TerminateLease
<1>25. ASSUME NEW p \in Processes, ExpireDueLeases(p) PROVE Quiet(p)
  BY <1>25 DEF ExpireDueLeases
<1>26. ASSUME NEW p \in Processes, TakeExpiredLease(p) PROVE Quiet(p)
  BY <1>26 DEF TakeExpiredLease
<1>27. ASSUME NEW p \in Processes, FinishSupervision(p) PROVE Quiet(p)
  BY <1>27 DEF FinishSupervision, Leave, Forget
<1>28. ASSUME NEW p \in Processes, LoadContext(p) PROVE Quiet(p)
  BY <1>28 DEF LoadContext, Leave, Forget, AfterExecution, AfterRecovery
<1>29. ASSUME NEW p \in Processes, RecoverRun(p) PROVE Quiet(p)
  BY <1>29 DEF RecoverRun, SetRun
<1>30. ASSUME NEW p \in Processes, RecoverAction(p) PROVE Quiet(p)
  <2>1. cur[p] \in Actions /\ actionStatus[cur[p]] # "absent" /\ seen[p] # "absent"
    BY <1>30, RowAtHand DEF RecoverAction, RowsKnown
  <2>2. actionStatus' = [actionStatus EXCEPT ![cur[p]] = seen[p]]
    BY <1>30 DEF RecoverAction, MarkUnfinished, SetAction
  <2>3. RowsStand
    BY <1>30, <2>1, <2>2 DEF TablesTypeOK, RecoverAction
  <2> QED
    BY <1>30, <2>3 DEF RecoverAction, Leave, Forget, AfterExecution, AfterRecovery
<1>31. ASSUME NEW p \in Processes, Crash(p) PROVE Quiet(p)
  BY <1>31 DEF Crash, Leave, Forget
<1>32. ASSUME NEW a \in Actions, LeaseTimePasses(a) PROVE Still
  BY <1>32 DEF LeaseTimePasses, Still
<1>33. ASSUME NEW r \in Requests, RequestTimePasses(r),
             UNCHANGED <<rowVars, statusVars, recordVars, leaseVars, procVars, others>>
      PROVE  Still
  BY <1>33 DEF RequestTimePasses, Still
<1>34. CASE UNCHANGED vars
  BY <1>34 DEF vars, Still
<1> HIDE DEF TypeOK, Processes, Quiet, RowsStand, OthersWait
<1> QED
  BY <1>1, <1>2, <1>3, <1>4, <1>5, <1>6, <1>7, <1>8, <1>9, <1>10, <1>11,
     <1>12, <1>13, <1>14, <1>15, <1>16, <1>17, <1>18, <1>19, <1>20, <1>21, <1>22,
     <1>23, <1>24, <1>25, <1>26, <1>27, <1>28, <1>29, <1>30, <1>31, <1>32, <1>33,
     <1>34
     DEF Next, Step, PlanningStep, RoutingStep, SyncStep,
         ExecutionStep, LeaseStep, RecoveryStep, Writes

-----------------------------------------------------------------------------
(* Consent is kept. *)

Consent ==
  TurnsKnow /\ ResolversKnow /\ EffectsAhead /\ ApprovedBeforeEffect /\ OneEffectPerApproval

\* Nothing that counts for consent happens while the rows stand.
LEMMA RowsStandKeepEffects ==
  ASSUME RowsStand, ApprovedBeforeEffect, OneEffectPerApproval
  PROVE  ApprovedBeforeEffect' /\ OneEffectPerApproval'
BY DEF RowsStand, ApprovedBeforeEffect, OneEffectPerApproval, Performed

\* A step that moves no process keeps consent.
LEMMA StillKeepsConsent ==
  ASSUME Consent, Still
  PROVE  Consent'
<1>1. ApprovedBeforeEffect' /\ OneEffectPerApproval'
  BY RowsStandKeepEffects DEF Consent, Still
<1>2. TurnsKnow'
  BY DEF Consent, Still, RowsStand, TurnsKnow
<1>3. ResolversKnow'
  BY DEF Consent, Still, RowsStand, ResolversKnow
<1>4. EffectsAhead'
  BY DEF Consent, Still, RowsStand, EffectsAhead, Performed
<1> QED
  BY <1>1, <1>2, <1>3, <1>4 DEF Consent

\* A process that moves on while the rows stand keeps consent.
LEMMA QuietKeepsConsent ==
  ASSUME TypeOK, RowsKnown, Consent, NEW p \in Processes, Quiet(p)
  PROVE  Consent'
<1> USE KindsOfProcesses
<1>1. RowsStand /\ OthersWait(p)
  BY DEF Quiet
<1>2. ApprovedBeforeEffect' /\ OneEffectPerApproval'
  BY <1>1, RowsStandKeepEffects DEF Consent
<1> USE DEF ProcessesTypeOK, TypeOK, ActionPoints, RequestPoints, RoutePoints, ResolvePoints,
        WorkPoints, LeasePoints, RecoveryPoints, ExecutePoints, BeforeEffect, BeforeRequest, Consent,
        RowsStand, OthersWait, KeepsAction
<1>3. CASE LetsGo(p) \/ CarriesOn(p) \/ p \in Supervisors
  <2>1. TurnsKnow'
    BY <1>1, <1>3 DEF TurnsKnow, LetsGo, CarriesOn
  <2>2. ResolversKnow'
    BY <1>1, <1>3 DEF ResolversKnow, LetsGo, CarriesOn
  <2>3. EffectsAhead'
    BY <1>1, <1>3 DEF EffectsAhead, Performed, LetsGo, CarriesOn
  <2> QED
    BY <1>2, <2>1, <2>2, <2>3
<1>4. CASE Routes(p) \/ FindsRequest(p)
  <2>1. TurnsKnow'
    BY <1>1, <1>4 DEF TurnsKnow, Routes, FindsRequest
  <2>2. ResolversKnow'
    BY <1>1, <1>4 DEF ResolversKnow, Routes, FindsRequest
  <2>3. EffectsAhead'
    BY <1>1, <1>4 DEF EffectsAhead, Performed, Routes, FindsRequest
  <2> QED
    BY <1>2, <2>1, <2>2, <2>3
<1>5. CASE FindsAction(p)
  <2>1. TurnsKnow'
    BY <1>1, <1>5 DEF TurnsKnow, FindsAction
  <2>2. ResolversKnow'
    BY <1>1, <1>5 DEF ResolversKnow, FindsAction
  <2>3. EffectsAhead'
    BY <1>1, <1>5 DEF EffectsAhead, Performed, FindsAction
  <2> QED
    BY <1>2, <2>1, <2>2, <2>3
<1>6. CASE Accepts(p)
  <2>1. TurnsKnow'
    BY <1>1, <1>6 DEF TurnsKnow, Accepts
  <2>2. ResolversKnow'
    BY <1>1, <1>6 DEF ResolversKnow, Accepts
  <2>3. effects[cur[p]] = 0
    <3>1. /\ cur[p] \in Actions /\ requestOf[cur[p]] = req[p]
          /\ \A a \in Performed : requestOf[a] # req[p]
      BY <1>6 DEF EffectsAhead, Accepts, ResolversKnow
    <3>2. effects[cur[p]] \in 0 .. 2
      BY <3>1 DEF TablesTypeOK
    <3> QED
      BY <3>1, <3>2 DEF Performed
  <2>4. EffectsAhead'
    BY <1>1, <1>6, <2>3 DEF EffectsAhead, Performed, Accepts, ResolversKnow
  <2> QED
    BY <1>2, <2>1, <2>2, <2>4
<1> QED
  BY <1>3, <1>4, <1>5, <1>6 DEF Quiet

\* The backend is asked, by a process that is at its action.
Performs(p) ==
  /\ p \in Executors
  /\ pc[p] \in BeforeEffect /\ pc'[p] \in ExecutePoints \ BeforeEffect
  /\ pc' = [pc EXCEPT ![p] = pc'[p]]
  /\ effects' \in {effects, [effects EXCEPT ![cur[p]] = 1]}
  /\ UNCHANGED <<cur, req, seen, actionStatus, requestStatus, requestFor, proposal, requestOf>>

\* A turn that plans, routes or executes has an action, at attach a request too.
LEMMA CursTyped ==
  ASSUME TypeOK, NEW q \in Turns
  PROVE  /\ pc[q] \in BeforeRequest \cup ExecutePoints => cur[q] \in Actions /\ cur[q] # None
         /\ pc[q] = "attach" => req[q] # None
BY KindsOfProcesses
   DEF TypeOK, ProcessesTypeOK, ActionPoints, RequestPoints, RoutePoints, BeforeRequest

\* A row nobody has planned yet is nobody's.
LEMMA FreshRow ==
  ASSUME RowsKnown, EffectsAhead, NEW a \in Actions, actionStatus[a] = "absent"
  PROVE  requestOf[a] = None /\ effects[a] = 0 /\ \A q \in Processes : cur[q] # a
BY GovernedActionsAssumption DEF RowsKnown, EffectsAhead

\* A row that is refused is nobody's.
LEMMA RefusalKeepsConsent ==
  ASSUME TypeOK, RowsKnown, Consent, NEW p \in Processes, PlanBlocked(p)
  PROVE  Consent'
<1> USE KindsOfProcesses
<1> USE DEF ProcessesTypeOK, TypeOK, ActionPoints, RequestPoints, RoutePoints, ResolvePoints,
        WorkPoints, LeasePoints, RecoveryPoints, ExecutePoints, BeforeEffect, BeforeRequest,
        TurnPoints, ResolverPoints, SupervisorPoints, Consent, OthersWait
<1>1. PICK a \in Actions, f \in Fingerprints : InsertAction(a, f, "blocked")
  BY DEF PlanBlocked
<1>2. /\ requestOf[a] = None /\ effects[a] = 0
      /\ \A q \in Processes : cur[q] # a
      /\ proposal' = [proposal EXCEPT ![a] = f]
      /\ actionStatus' = [actionStatus EXCEPT ![a] = "blocked"]
      /\ UNCHANGED <<pc, cur, req, seen, requestStatus, requestFor, requestOf, effects>>
  BY <1>1, FreshRow DEF PlanBlocked, InsertAction, approvalVars, procVars, recordVars
<1>10. TurnsKnow'
  BY <1>1, <1>2 DEF TurnsKnow
<1>11. ResolversKnow'
  BY <1>1, <1>2 DEF ResolversKnow
<1>12. EffectsAhead'
  BY <1>1, <1>2 DEF EffectsAhead, Performed
<1>13. ApprovedBeforeEffect'
  BY <1>1, <1>2 DEF ApprovedBeforeEffect, Performed
<1>14. OneEffectPerApproval'
  BY <1>1, <1>2 DEF OneEffectPerApproval, Performed
<1> QED
  BY <1>10, <1>11, <1>12, <1>13, <1>14 DEF Consent

\* A row that is planned is its turn's alone, and nothing was done for it.
LEMMA PlanKeepsConsent ==
  ASSUME TypeOK, RowsKnown, Consent, NEW p \in Processes, PlanAction(p)
  PROVE  Consent'
<1> USE KindsOfProcesses
<1> USE DEF ProcessesTypeOK, TypeOK, ActionPoints, RequestPoints, RoutePoints, ResolvePoints,
        WorkPoints, LeasePoints, RecoveryPoints, ExecutePoints, BeforeEffect, BeforeRequest,
        TurnPoints, ResolverPoints, SupervisorPoints, Consent, OthersWait
<1>1. p \in Turns
  BY DEF PlanAction, At
<1>2. PICK a \in Actions, f \in Fingerprints :
        /\ InsertAction(a, f, PlannedStatus(f))
        /\ pc' = [pc EXCEPT ![p] = AfterPlanning(p, f)]
        /\ cur' = [cur EXCEPT ![p] = a]
        /\ seen' = [seen EXCEPT ![p] = PlannedStatus(f)]
  BY DEF PlanAction
<1>3. /\ requestOf[a] = None /\ effects[a] = 0
      /\ \A q \in Processes : cur[q] # a
      /\ proposal' = [proposal EXCEPT ![a] = f]
      /\ actionStatus' = [actionStatus EXCEPT ![a] = PlannedStatus(f)]
      /\ UNCHANGED <<req, requestStatus, requestFor, requestOf, effects>>
  BY <1>2, FreshRow DEF PlanAction, InsertAction, approvalVars, recordVars
<1>4. /\ AfterPlanning(p, f) \in {"deny", "escalate", "lookup", "recheck"}
      /\ AfterPlanning(p, f) = "recheck" => f \notin NeedsApproval
      /\ PlannedStatus(f) # "absent"
  BY DEF AfterPlanning, PlannedStatus
<1>10. TurnsKnow'
  <2>1. \A q \in Turns \ {p} : pc'[q] = pc[q] /\ cur'[q] = cur[q] /\ req'[q] = req[q]
    BY <1>2, <1>3
  <2>2. \A q \in Turns \ {p} : cur[q] # None => proposal'[cur[q]] = proposal[cur[q]]
    BY <1>3 DEF TablesTypeOK
  <2>3. pc'[p] = AfterPlanning(p, f) /\ cur'[p] = a /\ proposal'[a] = f
    BY <1>1, <1>2, <1>3 DEF TablesTypeOK
  <2> HIDE DEF ProcessesTypeOK
  <2> QED
    BY <1>1, <1>3, <1>4, <2>1, <2>2, <2>3, CursTyped DEF TurnsKnow
<1>11. ResolversKnow'
  BY <1>1, <1>2, <1>3, <1>4 DEF ResolversKnow
<1>12. EffectsAhead'
  BY <1>1, <1>2, <1>3, <1>4 DEF EffectsAhead, Performed
<1>13. ApprovedBeforeEffect'
  BY <1>1, <1>2, <1>3, <1>4 DEF ApprovedBeforeEffect, Performed
<1>14. OneEffectPerApproval'
  BY <1>1, <1>2, <1>3, <1>4 DEF OneEffectPerApproval, Performed
<1> QED
  BY <1>10, <1>11, <1>12, <1>13, <1>14 DEF Consent

\* A request that is new is nobody's answer.
LEMMA AskingKeepsConsent ==
  ASSUME TypeOK, RowsKnown, Consent, NEW p \in Processes, CreateRequest(p)
  PROVE  Consent'
<1> USE KindsOfProcesses
<1> USE DEF ProcessesTypeOK, TypeOK, ActionPoints, RequestPoints, RoutePoints, ResolvePoints,
        WorkPoints, LeasePoints, RecoveryPoints, ExecutePoints, BeforeEffect, BeforeRequest,
        TurnPoints, ResolverPoints, SupervisorPoints, Consent, OthersWait
<1>1. p \in Turns
  BY DEF CreateRequest, At
<1>2. PICK r \in Requests :
        /\ InsertRequest(r, proposal[cur[p]], p)
        /\ req' = [req EXCEPT ![p] = r]
  BY DEF CreateRequest
<1>3. /\ pc[p] = "create" /\ pc' = [pc EXCEPT ![p] = "attach"]
      /\ requestStatus[r] = "none"
      /\ requestStatus' = [requestStatus EXCEPT ![r] = "pending"]
      /\ requestFor' = [requestFor EXCEPT ![r] = proposal[cur[p]]]
      /\ UNCHANGED <<cur, seen, actionStatus, proposal, requestOf, effects>>
  BY <1>2 DEF CreateRequest, InsertRequest, At, rowVars, statusVars, recordVars
<1>4. /\ \A q \in Processes : req[q] # r
      /\ \A a \in Actions : requestOf[a] # r
  BY <1>3, ApprovalsAssumption DEF RowsKnown
<1>10. TurnsKnow'
  <2>1. \A q \in Turns \ {p} : pc'[q] = pc[q] /\ cur'[q] = cur[q] /\ req'[q] = req[q]
    BY <1>2, <1>3
  <2>2. \A q \in Turns \ {p} : req[q] # None => requestFor'[req[q]] = requestFor[req[q]]
    BY <1>3, <1>4 DEF TablesTypeOK, ApprovalsTypeOK
  <2>3. pc'[p] = "attach" /\ cur'[p] = cur[p] /\ requestFor'[req'[p]] = proposal'[cur'[p]]
    BY <1>1, <1>2, <1>3 DEF TablesTypeOK, ApprovalsTypeOK
  <2>4. requestOf'[cur'[p]] = None /\ effects'[cur'[p]] = 0
    BY <1>1, <1>3 DEF TurnsKnow
  <2> HIDE DEF ProcessesTypeOK
  <2> QED
    BY <1>1, <1>3, <2>1, <2>2, <2>3, <2>4, CursTyped DEF TurnsKnow
<1>11. ResolversKnow'
  BY <1>1, <1>2, <1>3, <1>4 DEF ResolversKnow
<1>12. EffectsAhead'
  BY <1>1, <1>2, <1>3, <1>4 DEF EffectsAhead, Performed
<1>13. ApprovedBeforeEffect'
  BY <1>1, <1>2, <1>3, <1>4 DEF ApprovedBeforeEffect, Performed
<1>14. OneEffectPerApproval'
  BY <1>1, <1>2, <1>3, <1>4 DEF OneEffectPerApproval, Performed
<1> QED
  BY <1>10, <1>11, <1>12, <1>13, <1>14 DEF Consent

\* The request a turn attaches is about its row, for which nothing was done.
LEMMA AttachingKeepsConsent ==
  ASSUME TypeOK, RowsKnown, Consent, NEW p \in Processes, AttachRequest(p)
  PROVE  Consent'
<1> USE KindsOfProcesses
<1> USE DEF ProcessesTypeOK, TypeOK, ActionPoints, RequestPoints, RoutePoints, ResolvePoints,
        WorkPoints, LeasePoints, RecoveryPoints, ExecutePoints, BeforeEffect, BeforeRequest,
        TurnPoints, ResolverPoints, SupervisorPoints, Consent, OthersWait
<1>1. p \in Turns /\ cur[p] \in Actions /\ req[p] \in Requests
  BY DEF AttachRequest, At
<1>2. /\ pc[p] = "attach" /\ pc' = [pc EXCEPT ![p] = "prompt"]
      /\ requestOf' = [requestOf EXCEPT ![cur[p]] = req[p]]
      /\ UNCHANGED <<cur, req, seen, actionStatus, requestStatus, requestFor, proposal, effects>>
  BY DEF AttachRequest, At, Goto, approvalVars, statusVars, recordVars
<1>3. /\ requestOf[cur[p]] = None /\ effects[cur[p]] = 0
      /\ requestFor[req[p]] = proposal[cur[p]]
  BY <1>1, <1>2 DEF TurnsKnow
<1>10. TurnsKnow'
  BY <1>1, <1>2, <1>3 DEF TurnsKnow
<1>11. ResolversKnow'
  BY <1>1, <1>2, <1>3 DEF ResolversKnow
<1>12. EffectsAhead'
  BY <1>1, <1>2, <1>3 DEF EffectsAhead, Performed
<1>13. ApprovedBeforeEffect'
  BY <1>1, <1>2, <1>3 DEF ApprovedBeforeEffect, Performed
<1>14. OneEffectPerApproval'
  BY <1>1, <1>2, <1>3 DEF OneEffectPerApproval, Performed
<1> QED
  BY <1>10, <1>11, <1>12, <1>13, <1>14 DEF Consent

\* The answer is one process's, and nothing was done under its request.
LEMMA AnsweringKeepsConsent ==
  ASSUME TypeOK, RowsKnown, Consent, NEW p \in Processes, AnswerRequest(p)
  PROVE  Consent'
<1> USE KindsOfProcesses
<1> USE DEF ProcessesTypeOK, TypeOK, ActionPoints, RequestPoints, RoutePoints, ResolvePoints,
        WorkPoints, LeasePoints, RecoveryPoints, ExecutePoints, BeforeEffect, BeforeRequest,
        TurnPoints, ResolverPoints, SupervisorPoints, Consent, OthersWait
<1>1. p \in Resolvers /\ pc[p] = "idle"
  BY DEF AnswerRequest, At
<1>0. PICK r \in Requests :
        \E answer \in Answers(r, p \in Chats, p \in Chats) :
          /\ ResolveRequest(r, answer)
          /\ req' = [req EXCEPT ![p] = r]
          /\ seen' = [seen EXCEPT ![p] = answer]
  BY DEF AnswerRequest
<1>2. PICK answer \in Answers(r, p \in Chats, p \in Chats) :
        /\ ResolveRequest(r, answer)
        /\ req' = [req EXCEPT ![p] = r]
        /\ seen' = [seen EXCEPT ![p] = answer]
  BY <1>0
<1>3. /\ requestStatus[r] = "pending"
      /\ requestStatus' = [requestStatus EXCEPT ![r] = answer]
      /\ pc' = [pc EXCEPT ![p] = "find"]
      /\ UNCHANGED <<cur, actionStatus, requestFor, proposal, requestOf, effects>>
  BY <1>2 DEF AnswerRequest, ResolveRequest, rowVars, statusVars, recordVars
<1>4. /\ answer # "pending" /\ r # None
      /\ \A q \in Resolvers : req[q] # r
      /\ \A a \in Performed : requestOf[a] # r
  BY <1>3, ApprovalsAssumption DEF ApprovedBeforeEffect, ResolversKnow, Answers
<1>10. TurnsKnow'
  BY <1>1, <1>2, <1>3, <1>4 DEF TurnsKnow
<1>11. ResolversKnow'
  <2>1. \A q \in Resolvers \ {p} : /\ pc'[q] = pc[q] /\ cur'[q] = cur[q] /\ req'[q] = req[q]
                                   /\ seen'[q] = seen[q]
    BY <1>2, <1>3
  <2>2. \A q \in Resolvers : req[q] # None => requestStatus'[req[q]] = requestStatus[req[q]]
    BY <1>3, <1>4 DEF TablesTypeOK, ApprovalsTypeOK
  <2>3. pc'[p] = "find" /\ req'[p] = r /\ seen'[p] = answer /\ requestStatus'[r] = answer
    BY <1>1, <1>2, <1>3 DEF TablesTypeOK, ApprovalsTypeOK
  <2>4. \A q \in Resolvers : pc[q] \in {"find", "sync"} \cup ExecutePoints => req[q] # None
    BY DEF ResolversKnow
  <2> HIDE DEF ProcessesTypeOK
  <2> QED
    BY <1>1, <1>3, <1>4, <2>1, <2>2, <2>3, <2>4 DEF ResolversKnow
<1>12. EffectsAhead'
  BY <1>1, <1>2, <1>3, <1>4 DEF EffectsAhead, Performed
<1>13. ApprovedBeforeEffect'
  BY <1>1, <1>2, <1>3, <1>4 DEF ApprovedBeforeEffect, Performed
<1>14. OneEffectPerApproval'
  BY <1>1, <1>2, <1>3, <1>4 DEF OneEffectPerApproval, Performed
<1> QED
  BY <1>10, <1>11, <1>12, <1>13, <1>14 DEF Consent

\* Work is done once, on the approval that the process holds.
LEMMA EffectKeepsConsent ==
  ASSUME TypeOK, RowsKnown, Consent, NEW p \in Processes, Performs(p)
  PROVE  Consent'
<1> USE KindsOfProcesses
<1> USE DEF ProcessesTypeOK, TypeOK, ActionPoints, RequestPoints, RoutePoints, ResolvePoints,
        WorkPoints, LeasePoints, RecoveryPoints, ExecutePoints, BeforeEffect, BeforeRequest,
        TurnPoints, ResolverPoints, SupervisorPoints, Consent, OthersWait
<1>1. /\ p \in Turns \/ p \in Resolvers
      /\ cur[p] \in Actions
      /\ effects[cur[p]] = 0
  BY DEF Performs, EffectsAhead
<1>2. /\ pc[p] \in BeforeEffect /\ pc' = [pc EXCEPT ![p] = pc'[p]]
      /\ pc'[p] \in ExecutePoints \ BeforeEffect
      /\ effects' \in {effects, [effects EXCEPT ![cur[p]] = 1]}
      /\ UNCHANGED <<cur, req, seen, actionStatus, requestStatus, requestFor, proposal, requestOf>>
  BY DEF Performs
<1>3. /\ effects' \in [Actions -> 0 .. 2]
      /\ \A a \in Actions : a # cur[p] => effects'[a] = effects[a]
      /\ effects'[cur[p]] \in {0, 1}
      /\ \A q \in Processes : q # p => pc'[q] = pc[q]
      /\ Performed' \subseteq Performed \cup {cur[p]}
  BY <1>1, <1>2 DEF TablesTypeOK, Performed
<1>4. p \in Turns => requestOf[cur[p]] = None /\ proposal[cur[p]] \notin NeedsApproval
  BY <1>2 DEF TurnsKnow
<1>5. p \in Resolvers =>
        /\ req[p] # None /\ requestOf[cur[p]] = req[p]
        /\ requestStatus[req[p]] = "approved"
        /\ requestFor[req[p]] = proposal[cur[p]]
        /\ \A a \in Performed : requestOf[a] # req[p]
  BY <1>1, <1>2 DEF ResolversKnow, EffectsAhead
<1> HIDE DEF Performed
<1>10. TurnsKnow'
  <2>1. ASSUME NEW q \in Turns, q # p, pc[q] \in BeforeRequest
        PROVE  effects'[cur[q]] = 0
    <3>1. cur[q] \in Actions /\ cur[q] # None /\ requestOf[cur[q]] = None /\ effects[cur[q]] = 0
      BY <2>1, CursTyped DEF TurnsKnow
    <3>2. CASE p \in Turns
      BY <1>3, <2>1, <3>1, <3>2 DEF TurnsKnow
    <3>3. CASE p \in Resolvers
      BY <1>3, <1>5, <3>1, <3>3
    <3> QED
      BY <1>1, <3>2, <3>3
  <2>2. pc'[p] \in ExecutePoints /\ pc'[p] \notin BeforeRequest
    BY <1>2
  <2> HIDE DEF ProcessesTypeOK
  <2> QED
    BY <1>2, <1>3, <1>4, <2>1, <2>2 DEF TurnsKnow
<1>11. ResolversKnow'
  BY <1>1, <1>2, <1>3, <1>4, <1>5 DEF ResolversKnow
<1>12. EffectsAhead'
  <2>1. ASSUME NEW q \in Executors, pc'[q] \in BeforeEffect
        PROVE  effects'[cur'[q]] = 0
    <3>1. q # p /\ pc[q] \in BeforeEffect
      BY <1>2, <1>3, <2>1
    <3>2. cur[q] \in Actions /\ effects[cur[q]] = 0
      BY <3>1 DEF EffectsAhead
    <3>3. cur[q] # cur[p]
      <4>1. CASE q \in Turns /\ p \in Turns
        BY <3>1, <3>2, <4>1, GovernedActionsAssumption DEF TurnsKnow
      <4>2. CASE q \in Turns /\ p \in Resolvers
        BY <1>5, <3>1, <4>2 DEF TurnsKnow
      <4>3. CASE q \in Resolvers /\ p \in Turns
        BY <1>4, <3>1, <4>3 DEF ResolversKnow
      <4>4. CASE q \in Resolvers /\ p \in Resolvers
        BY <1>5, <3>1, <4>4 DEF ResolversKnow
      <4> QED
        BY <1>1, <2>1, <4>1, <4>2, <4>3, <4>4
    <3> QED
      BY <1>2, <1>3, <3>2, <3>3
  <2>2. ASSUME NEW q \in Resolvers, pc'[q] \in ResolvePoints \cup BeforeEffect,
               NEW a \in Performed'
        PROVE  requestOf'[a] # req'[q]
    <3>1. q # p /\ pc[q] \in ResolvePoints \cup BeforeEffect
      BY <1>2, <1>3, <2>2
    <3>2. CASE a \in Performed
      BY <1>2, <3>1, <3>2 DEF EffectsAhead
    <3>3. CASE a = cur[p] /\ p \in Turns
      BY <1>2, <1>4, <3>1, <3>3 DEF ResolversKnow
    <3>4. CASE a = cur[p] /\ p \in Resolvers
      BY <1>2, <1>5, <3>1, <3>4 DEF ResolversKnow
    <3> QED
      BY <1>1, <1>3, <2>2, <3>2, <3>3, <3>4
  <2>3. \A a \in Actions : actionStatus'[a] = "absent" => effects'[a] = 0
    <3>1. actionStatus[cur[p]] # "absent"
      BY <1>1, GovernedActionsAssumption DEF RowsKnown
    <3> QED
      BY <1>2, <1>3, <3>1 DEF EffectsAhead
  <2>4. \A a \in Actions : requestOf'[a] # None => requestFor'[requestOf'[a]] = proposal'[a]
    BY <1>2 DEF EffectsAhead
  <2> QED
    BY <2>1, <2>2, <2>3, <2>4 DEF EffectsAhead
<1>13. ApprovedBeforeEffect'
  BY <1>1, <1>2, <1>3, <1>4, <1>5 DEF ApprovedBeforeEffect, Performed
<1>14. OneEffectPerApproval'
  BY <1>1, <1>2, <1>3, <1>4, <1>5 DEF OneEffectPerApproval, Performed
<1> QED
  BY <1>10, <1>11, <1>12, <1>13, <1>14 DEF Consent

\* The backend is what Work and an error after the fact have in common.
LEMMA WorkPerforms ==
  ASSUME TypeOK, EffectsAhead, NEW p \in Processes, Work(p) \/ WorkErrors(p)
  PROVE  Performs(p)
<1>1. /\ pc[p] \in {"recordRun", "work"}
      /\ pc' \in {[pc EXCEPT ![p] = "finishExecution"], [pc EXCEPT ![p] = "releaseAfterError"]}
      /\ UNCHANGED <<cur, req, seen, actionStatus, requestStatus, requestFor, proposal, requestOf>>
  BY DEF Work, WorkErrors, At, Goto, approvalVars, rowVars, statusVars
<1>2. p \in Executors /\ cur[p] \in Actions
  BY <1>1 DEF TypeOK, ProcessesTypeOK, ActionPoints, ExecutePoints, WorkPoints, SupervisorPoints,
              RecoveryPoints, Processes
<1>3. effects[cur[p]] = 0
  BY <1>1, <1>2 DEF EffectsAhead, BeforeEffect
<1>4. PICK happened \in BOOLEAN : CountEffect(p, happened)
  <2>1. CASE Work(p)
    BY <2>1, Zenon DEF Work
  <2>2. CASE WorkErrors(p)
    BY <2>2, Zenon DEF WorkErrors
  <2> QED
    BY <2>1, <2>2
<1>5. effects \in [Actions -> 0 .. 2]
  BY DEF TypeOK, TablesTypeOK
<1>6. effects' \in {effects, [effects EXCEPT ![cur[p]] = 1]}
  <2>1. CASE happened
    BY <1>2, <1>3, <1>4, <1>5, <2>1 DEF CountEffect
  <2>2. CASE ~happened
    BY <1>2, <1>4, <1>5, <2>2 DEF CountEffect
  <2> QED
    BY <1>4, <2>1, <2>2
<1>7. pc'[p] \in {"finishExecution", "releaseAfterError"} /\ pc' = [pc EXCEPT ![p] = pc'[p]]
  BY <1>1 DEF TypeOK, ProcessesTypeOK
<1> QED
  BY <1>1, <1>2, <1>6, <1>7
     DEF Performs, BeforeEffect, ExecutePoints, WorkPoints, LeasePoints

\* Every step keeps what each process knows about consent.
LEMMA ConsentStep == TypeOK /\ RowsKnown /\ Consent /\ [Next]_vars => Consent'
<1> SUFFICES ASSUME TypeOK, RowsKnown, Consent, [Next]_vars PROVE Consent'
    OBVIOUS
<1>1. CASE Still
  BY <1>1, StillKeepsConsent
<1>2. ASSUME NEW p \in Processes, Quiet(p) PROVE Consent'
  BY <1>2, QuietKeepsConsent
<1>3. ASSUME NEW p \in Processes, Writes(p) PROVE Consent'
  <2>1. CASE PlanBlocked(p)
    BY <2>1, RefusalKeepsConsent
  <2>2. CASE PlanAction(p)
    BY <2>2, PlanKeepsConsent
  <2>3. CASE CreateRequest(p)
    BY <2>3, AskingKeepsConsent
  <2>4. CASE AttachRequest(p)
    BY <2>4, AttachingKeepsConsent
  <2>5. CASE AnswerRequest(p)
    BY <2>5, AnsweringKeepsConsent
  <2>6. CASE Work(p) \/ WorkErrors(p)
    BY <2>6, WorkPerforms, EffectKeepsConsent DEF Consent
  <2> QED
    BY <1>3, <2>1, <2>2, <2>3, <2>4, <2>5, <2>6 DEF Writes
<1> QED
  BY <1>1, <1>2, <1>3, QuietOrWrites

\* The inductive invariant: what each process knows about its action and its
\* request holds whatever the others do, wherever they crash.
THEOREM ConsentIsKept == Spec => []ConsentInvariant
<1>1. Init => Consent
  BY GovernedActionsAssumption
     DEF Init, ApprovalsInit, Consent, TurnsKnow, ResolversKnow, EffectsAhead, ApprovedBeforeEffect,
         OneEffectPerApproval, Performed, BeforeRequest, BeforeEffect, ResolvePoints, ExecutePoints,
         WorkPoints, LeasePoints, RecoveryPoints, Processes, Executors, Resolvers
<1>2. TypeOK /\ RowsKnown /\ Consent /\ [Next]_vars => Consent'
  BY ConsentStep
<1>3. Spec => [](RowsKnown /\ Consent)
  BY <1>1, <1>2, TypeCorrect, PTL DEF Spec
<1>4. RowsKnown /\ Consent => ConsentInvariant
  BY DEF Consent, ConsentInvariant
<1> QED
  BY <1>3, <1>4, PTL

\* No backend is asked to do what nobody consented to.
THEOREM EffectsAreApproved == Spec => []ApprovedBeforeEffect
<1>1. ConsentInvariant => ApprovedBeforeEffect
  BY DEF ConsentInvariant
<1> QED
  BY <1>1, ConsentIsKept, PTL

\* No approval, and no action, is used twice.
THEOREM ApprovalsAreUsedOnce == Spec => []OneEffectPerApproval
<1>1. ConsentInvariant => OneEffectPerApproval
  BY DEF ConsentInvariant
<1> QED
  BY <1>1, ConsentIsKept, PTL

-----------------------------------------------------------------------------
(* GovernedActions implements ApprovalGate. *)

\* What the gate sees of requests depends on their rows alone, what it sees of
\* actions on what was done and under which request.
LEMMA RowsStandForGate ==
  ASSUME UNCHANGED <<requestStatus, requestFor, requestOf, effects>>
  PROVE  UNCHANGED Gate!gateVars
BY DEF Gate!gateVars, GateAnswer, GateGrant, Performed

\* A new request is asked about a fingerprint that nobody is being asked about.
LEMMA CreationAsks ==
  ASSUME TypeOK, RowsKnown, NEW p \in Processes, CreateRequest(p)
  PROVE  Gate!Next
<1>1. PICK r \in Requests : InsertRequest(r, proposal[cur[p]], p)
  BY DEF CreateRequest
<1> DEFINE f == proposal[cur[p]]
<1>2. f \in Fingerprints /\ f # None
  BY RowAtHand, ApprovalsAssumption DEF CreateRequest, At, ActionPoints, RoutePoints
<1>3. /\ requestStatus[r] = "none" /\ PendingFor(f) = {}
      /\ requestStatus' = [requestStatus EXCEPT ![r] = "pending"]
      /\ requestFor' = [requestFor EXCEPT ![r] = f]
      /\ UNCHANGED <<requestOf, effects>>
  BY <1>1 DEF CreateRequest, InsertRequest, rowVars, recordVars
<1>4. ApprovalsTypeOK
  BY DEF TypeOK, TablesTypeOK
<1>5. requestFor[r] = None
  BY <1>3, <1>4 DEF ApprovalsTypeOK
<1>6. ASSUME NEW s \in Requests, requestFor[s] = f
      PROVE  [x \in Requests |-> GateAnswer(x)][s] # "open"
  <2>1. requestStatus[s] \notin {"none", "pending"}
    BY <1>2, <1>3, <1>4, <1>6 DEF ApprovalsTypeOK, PendingFor, PendingRequests
  <2> QED
    BY <2>1 DEF GateAnswer
<1>7. \A s \in Requests : GateAnswer(s)' = GateAnswer(s)
  BY <1>3, <1>4 DEF GateAnswer, ApprovalsTypeOK
<1>8. \A a \in Actions : GateGrant(a)' = GateGrant(a)
  BY <1>3 DEF GateGrant, Performed
<1>9. Gate!Ask(r, f)
  BY <1>3, <1>5, <1>6, <1>7, <1>8 DEF Gate!Ask
<1> QED
  BY <1>2, <1>9 DEF Gate!Next

\* An attachment is of a row that has done nothing.
LEMMA AttachmentIsSilent ==
  ASSUME TypeOK, TurnsKnow, NEW p \in Processes, AttachRequest(p)
  PROVE  UNCHANGED Gate!gateVars
<1>1. p \in Turns /\ cur[p] \in Actions /\ pc[p] = "attach"
  BY KindsOfProcesses
     DEF AttachRequest, At, TypeOK, ProcessesTypeOK, ActionPoints, RequestPoints, RoutePoints,
         ResolverPoints, SupervisorPoints, ResolvePoints, ExecutePoints, WorkPoints, LeasePoints,
         RecoveryPoints
<1>2. effects[cur[p]] = 0
  BY <1>1 DEF TurnsKnow, BeforeRequest
<1>3. /\ requestOf' = [requestOf EXCEPT ![cur[p]] = req[p]]
      /\ UNCHANGED <<requestStatus, requestFor, effects>>
  BY DEF AttachRequest, approvalVars, recordVars
<1>4. \A a \in Actions : GateGrant(a)' = GateGrant(a)
  <2>1. requestOf \in [Actions -> Requests \cup {None}]
    BY DEF TypeOK, TablesTypeOK
  <2>2. \A a \in Performed : a # cur[p]
    BY <1>2 DEF Performed
  <2> QED
    BY <1>1, <1>3, <2>1, <2>2 DEF GateGrant, Performed
<1>5. \A r \in Requests : GateAnswer(r)' = GateAnswer(r)
  BY <1>3 DEF GateAnswer
<1> QED
  BY <1>3, <1>4, <1>5 DEF Gate!gateVars

\* A person's answer is the gate's.
LEMMA ResolutionAnswers ==
  ASSUME TypeOK, NEW p \in Processes, AnswerRequest(p)
  PROVE  Gate!Next
<1>1. PICK r \in Requests :
        \E answer \in Answers(r, p \in Chats, p \in Chats) : ResolveRequest(r, answer)
  BY DEF AnswerRequest
<1>2. PICK answer \in Answers(r, p \in Chats, p \in Chats) : ResolveRequest(r, answer)
  BY <1>1
<1>3. answer \in {"approved", "rejected", "expired", "invalidated"}
  BY DEF Answers
<1>4. ApprovalsTypeOK
  BY DEF TypeOK, TablesTypeOK
<1>5. /\ requestStatus[r] = "pending"
      /\ requestStatus' = [requestStatus EXCEPT ![r] = answer]
      /\ UNCHANGED <<requestFor, requestOf, effects>>
  BY <1>2 DEF AnswerRequest, ResolveRequest, rowVars, recordVars
<1> DEFINE given == IF answer = "approved" THEN "granted" ELSE "refused"
<1>6. requestFor[r] # None /\ GateAnswer(r) = "open" /\ GateAnswer(r)' = given
  BY <1>3, <1>4, <1>5 DEF ApprovalsTypeOK, GateAnswer
<1>7. \A s \in Requests : s # r => GateAnswer(s)' = GateAnswer(s)
  BY <1>4, <1>5 DEF ApprovalsTypeOK, GateAnswer
<1>8. [s \in Requests |-> GateAnswer(s)]' = [[s \in Requests |-> GateAnswer(s)] EXCEPT ![r] = given]
  BY <1>6, <1>7
<1>9. \A a \in Actions : GateGrant(a)' = GateGrant(a)
  BY <1>5 DEF GateGrant, Performed
<1>10. Gate!Answer(r, given)
  BY <1>5, <1>6, <1>8, <1>9 DEF Gate!Answer
<1>11. given \in {"granted", "refused"}
  OBVIOUS
<1> QED
  BY <1>10, <1>11 DEF Gate!Next

\* The work of a turn needs no consent, that of a resolver has it.
LEMMA WorkIsLetThrough ==
  ASSUME TypeOK, RowsKnown, Consent, NEW p \in Processes, Performs(p)
  PROVE  Gate!Next \/ UNCHANGED Gate!gateVars
<1> DEFINE a == cur[p]
<1>1. a \in Actions /\ proposal[a] \in Fingerprints
  BY RowAtHand DEF Performs, BeforeEffect, ActionPoints, ExecutePoints, WorkPoints
<1>2. requestOf[a] \in Requests \cup {None} /\ effects \in [Actions -> 0 .. 2]
  BY <1>1 DEF TypeOK, TablesTypeOK
<1>3. effects[a] = 0
  BY DEF Performs, Consent, EffectsAhead
<1>4. pc[p] \in BeforeEffect /\ pc[p] \in ExecutePoints
  BY DEF Performs, BeforeEffect, ExecutePoints, WorkPoints
<1>5. /\ requestOf[a] = None => proposal[a] \notin NeedsApproval
      /\ requestOf[a] # None => /\ requestStatus[requestOf[a]] = "approved"
                                /\ requestFor[requestOf[a]] = proposal[a]
                                /\ \A b \in Performed : requestOf[b] # requestOf[a]
  <2>1. CASE p \in Turns
    BY <1>4, <2>1 DEF Consent, TurnsKnow
  <2>2. CASE p \in Resolvers
    BY <1>1, <1>4, <2>2 DEF Consent, ResolversKnow, EffectsAhead
  <2> QED
    BY <2>1, <2>2, KindsOfProcesses DEF Performs
<1>6. UNCHANGED <<cur, requestStatus, requestFor, requestOf>>
  BY DEF Performs
<1>7. CASE effects' = effects
  BY <1>6, <1>7, RowsStandForGate
<1>8. CASE effects' = [effects EXCEPT ![a] = 1]
  <2>1. GateGrant(a) = None /\ GateGrant(a)' = requestOf[a]
    BY <1>1, <1>2, <1>3, <1>6, <1>8 DEF GateGrant, Performed
  <2>2. \A b \in Actions : b # a => GateGrant(b)' = GateGrant(b)
    BY <1>2, <1>6, <1>8 DEF GateGrant, Performed
  <2>3. [b \in Actions |-> GateGrant(b)]'
          = [[b \in Actions |-> GateGrant(b)] EXCEPT ![a] = requestOf[a]]
    BY <1>1, <1>6, <2>1, <2>2
  <2>4. requestOf[a] # None => /\ GateAnswer(requestOf[a]) = "granted"
                               /\ \A b \in Actions : GateGrant(b) # requestOf[a]
    BY <1>5 DEF GateAnswer, GateGrant
  <2>5. \A r \in Requests : GateAnswer(r)' = GateAnswer(r)
    BY <1>6 DEF GateAnswer
  <2>6. Gate!Perform(a, proposal[a], requestOf[a])
    BY <1>1, <1>2, <1>3, <1>5, <1>6, <1>8, <2>3, <2>4, <2>5 DEF Gate!Perform
  <2> QED
    BY <1>1, <1>2, <2>6 DEF Gate!Next
<1> QED
  BY <1>7, <1>8 DEF Performs

\* Requests, answers and effects of the program are those of the gate.
THEOREM ImplementsApprovalGate == Spec => ImplementsGate
<1>1. Init => Gate!Init
  BY DEF Init, ApprovalsInit, Gate!Init, GateAnswer, GateGrant, Performed
<1>2. TypeOK /\ RowsKnown /\ Consent /\ [Next]_vars => [Gate!Next]_(Gate!gateVars)
  <2> SUFFICES ASSUME TypeOK, RowsKnown, Consent, [Next]_vars
               PROVE  Gate!Next \/ UNCHANGED Gate!gateVars
    OBVIOUS
  <2>1. CASE Still
    BY <2>1, RowsStandForGate DEF Still, RowsStand
  <2>2. ASSUME NEW p \in Processes, Quiet(p) PROVE UNCHANGED Gate!gateVars
    BY <2>2, RowsStandForGate DEF Quiet, RowsStand
  <2>3. ASSUME NEW p \in Processes, PlanBlocked(p) \/ PlanAction(p)
        PROVE  UNCHANGED Gate!gateVars
    <3>1. UNCHANGED <<requestStatus, requestFor, requestOf, effects>>
      BY <2>3 DEF PlanBlocked, PlanAction, approvalVars, recordVars
    <3> QED
      BY <3>1, RowsStandForGate
  <2>4. ASSUME NEW p \in Processes, CreateRequest(p) PROVE Gate!Next
    BY <2>4, CreationAsks
  <2>5. ASSUME NEW p \in Processes, AttachRequest(p) PROVE UNCHANGED Gate!gateVars
    BY <2>5, AttachmentIsSilent DEF Consent
  <2>6. ASSUME NEW p \in Processes, AnswerRequest(p) PROVE Gate!Next
    BY <2>6, ResolutionAnswers
  <2>7. ASSUME NEW p \in Processes, Work(p) \/ WorkErrors(p)
        PROVE  Gate!Next \/ UNCHANGED Gate!gateVars
    BY <2>7, WorkPerforms, WorkIsLetThrough DEF Consent
  <2> QED
    BY QuietOrWrites, <2>1, <2>2, <2>3, <2>4, <2>5, <2>6, <2>7 DEF Writes
<1>3. Init => Consent
  BY GovernedActionsAssumption
     DEF Init, ApprovalsInit, Consent, TurnsKnow, ResolversKnow, EffectsAhead, ApprovedBeforeEffect,
         OneEffectPerApproval, Performed, BeforeRequest, BeforeEffect, ResolvePoints, ExecutePoints,
         WorkPoints, LeasePoints, RecoveryPoints, Processes, Executors, Resolvers
<1>4. TypeOK /\ RowsKnown /\ Consent /\ [Next]_vars => Consent'
  BY ConsentStep
<1> QED
  BY <1>1, <1>2, <1>3, <1>4, TypeCorrect, PTL DEF Spec, ImplementsGate, Gate!Spec

-----------------------------------------------------------------------------
(* What the records say of an action. *)

Script(a) == Kind(a) = "run_workspace_script"

\* What is put to a person, or about to be executed, has not been started.
NotStarted ==
  /\ \A p \in Turns : pc[p] \in BeforeRequest \cup {"recheck", "start"} => cur[p] \notin started
  /\ \A a \in Actions :
       requestOf[a] # None /\ requestStatus[requestOf[a]] = "pending" => a \notin started
  /\ \A p \in Resolvers : pc[p] \in ResolvePoints \cup {"recheck", "start"} =>
       \A a \in Actions : requestOf[a] = req[p] => a \notin started

\* The row, the execution record and the script run agree, in the order in
\* which they are written.
RowAgrees(a) ==
  /\ execStatus[a] \notin {"none", "started"} => a \in started
  /\ execStatus[a] = "completed" =>
       a \in Performed /\ (Script(a) => runStatus[a] \in {"pending", "running", "completed"})
  /\ runStatus[a] = "completed" => execStatus[a] = "completed"
  /\ actionStatus[a] = "executed" =>
       execStatus[a] = "completed" /\ (Script(a) => runStatus[a] = "completed")

RecordOf(o) == IF o = "timed_out" THEN "failed" ELSE o

\* What a process knows of the records before the statement it is at.
ExecutorRecords(p) ==
  LET a == cur[p] IN
  /\ pc[p] \in {"start", "lease", "recordRun", "startRun", "work", "finishExecution"} =>
       execStatus[a] = "started"
  /\ pc[p] \in {"startRun", "work", "finishExecution"} =>
       (Script(a) => runStatus[a] \in {"pending", "running"})
  /\ pc[p] = "finishExecution" => (outcome[p] = "completed" => a \in Performed)
  /\ pc[p] = "finishRun" => execStatus[a] = RecordOf(outcome[p])
  /\ pc[p] = "finishAction" => (outcome[p] = "completed" =>
       execStatus[a] = "completed" /\ (Script(a) => runStatus[a] = "completed"))

RecoveryRecords(p) ==
  LET a == cur[p] IN
  /\ pc[p] = "recoverRun" => /\ outcome[p] \in {"completed", "failed", "blocked"}
                             /\ execStatus[a] = outcome[p]
                             /\ seen[p] = "executed" => outcome[p] = "completed"
  /\ pc[p] = "recoverAction" => (seen[p] = "executed" =>
       execStatus[a] = "completed" /\ (Script(a) => runStatus[a] = "completed"))

RecordsAgree ==
  /\ \A a \in Actions : RowAgrees(a)
  /\ \A p \in Processes : ExecutorRecords(p) /\ RecoveryRecords(p)

\* An answer goes to one request, which was pending.
LEMMA AnswersOnePending ==
  ASSUME NEW p \in Processes, AnswerRequest(p)
  PROVE  \E r \in Requests, answer \in Resolutions :
           /\ requestStatus[r] = "pending"
           /\ requestStatus' = [requestStatus EXCEPT ![r] = answer]
           /\ req' = [req EXCEPT ![p] = r]
<1>1. PICK r \in Requests :
        \E answer \in Answers(r, p \in Chats, p \in Chats) :
          ResolveRequest(r, answer) /\ req' = [req EXCEPT ![p] = r]
  BY Zenon DEF AnswerRequest
<1>2. Answers(r, p \in Chats, p \in Chats) \subseteq Resolutions
  BY DEF Answers, Resolutions
<1> QED
  BY <1>1, <1>2, Zenon DEF ResolveRequest

\* A process that is done is before the start of nothing.
LEMMA DoneKeepsNotStarted ==
  ASSUME TypeOK, NotStarted, NEW p \in Processes, IsDone(p),
         UNCHANGED <<requestStatus, started, requestOf>>
  PROVE  NotStarted'
<1> USE KindsOfProcesses
<1>1. \A q \in Processes : q # p => pc'[q] = pc[q] /\ cur'[q] = cur[q] /\ req'[q] = req[q]
  BY DEF TypeOK, ProcessesTypeOK, IsDone, Forget
<1>2. pc'[p] \in {"propose", "ended", "idle", "expired"}
  BY DEF TypeOK, ProcessesTypeOK, IsDone
<1> QED
  BY <1>1, <1>2 DEF NotStarted, BeforeRequest, ResolvePoints

\* Only its own process starts an action, before anybody else may have.
LEMMA NotStartedStep ==
  ASSUME TypeOK, RowsKnown, Consent, NotStarted, [Next]_vars
  PROVE  NotStarted'
<1> USE KindsOfProcesses
<1> USE DEF TypeOK, TablesTypeOK, ProcessesTypeOK, Consent, TurnsKnow, ResolversKnow, RowsKnown,
        NotStarted, ActionPoints, RequestPoints, TurnPoints, ResolverPoints, SupervisorPoints,
        RoutePoints, ResolvePoints, WorkPoints, LeasePoints, RecoveryPoints, ExecutePoints,
        BeforeRequest, At, Goto, approvalVars, rowVars, statusVars, procVars
<1>1. ASSUME NEW p \in Processes, PlanBlocked(p) PROVE NotStarted'
  BY <1>1 DEF PlanBlocked, InsertAction
<1>2. ASSUME NEW p \in Processes, PlanAction(p) PROVE NotStarted'
  BY <1>2 DEF PlanAction, InsertAction, AfterPlanning
<1>3. ASSUME NEW p \in Processes, FinishTurn(p) PROVE NotStarted'
  BY <1>3 DEF FinishTurn, Leave, Forget
<1>4. ASSUME NEW p \in Processes, DenyAtCap(p) PROVE NotStarted'
  BY <1>4 DEF DenyAtCap, Leave, Forget, MarkUnfinished
<1>5. ASSUME NEW p \in Processes, EscalateAtCap(p) PROVE NotStarted'
  BY <1>5 DEF EscalateAtCap, MarkUnfinished
<1>6. ASSUME NEW p \in Processes, LookUpRequest(p) PROVE NotStarted'
  BY <1>6 DEF LookUpRequest, PendingFor, PendingRequests
<1>7. ASSUME NEW p \in Processes, CountPending(p) PROVE NotStarted'
  <2>1. CASE Leave(p)
    <3>1. IsDone(p) /\ UNCHANGED <<requestStatus, started, requestOf>>
      BY <1>7, <2>1 DEF CountPending, Leave, IsDone
    <3> QED
      BY <3>1, DoneKeepsNotStarted
  <2>2. CASE Goto(p, "create")
    BY <1>7, <2>2 DEF CountPending
  <2> QED
    BY <1>7, <2>1, <2>2 DEF CountPending
<1>8. ASSUME NEW p \in Processes, CreateRequest(p) PROVE NotStarted'
  BY <1>8 DEF CreateRequest, InsertRequest
<1>9. ASSUME NEW p \in Processes, CreateRefused(p) PROVE NotStarted'
  BY <1>9 DEF CreateRefused, Leave, Forget
<1>10. ASSUME NEW p \in Processes, AttachRequest(p) PROVE NotStarted'
  BY <1>10 DEF AttachRequest
<1>11. ASSUME NEW p \in Processes, PromptForApproval(p) PROVE NotStarted'
  BY <1>11 DEF PromptForApproval, Leave, Forget
<1>12. ASSUME NEW p \in Processes, FindAction(p) PROVE NotStarted'
  BY <1>12 DEF FindAction, Leave, Forget, AttachedTo
<1>13. ASSUME NEW p \in Processes, SyncAction(p) PROVE NotStarted'
  BY <1>13 DEF SyncAction, Leave, Forget, MarkUnfinished
<1>14. ASSUME NEW p \in Processes, SyncRefused(p) PROVE NotStarted'
  BY <1>14 DEF SyncRefused, Leave, Forget
<1>15. ASSUME NEW p \in Processes, RecheckFails(p) PROVE NotStarted'
  BY <1>15 DEF RecheckFails, Leave, Forget, AfterExecution
<1>16. ASSUME NEW p \in Processes, CheckLease(p) PROVE NotStarted'
  BY <1>16 DEF CheckLease
<1>17. ASSUME NEW p \in Processes, LeaseLost(p) PROVE NotStarted'
  BY <1>17 DEF LeaseLost, Leave, Forget
<1>18. ASSUME NEW p \in Processes, ReleaseLease(p) PROVE NotStarted'
  <2>1. IsDone(p) /\ UNCHANGED <<requestStatus, started, requestOf>>
    BY <1>18 DEF ReleaseLease, Leave, AfterExecution, IsDone
  <2> QED
    BY <2>1, DoneKeepsNotStarted
<1>19. ASSUME NEW p \in Processes, ReleaseAfterError(p) PROVE NotStarted'
  <2>1. IsDone(p) /\ UNCHANGED <<requestStatus, started, requestOf>>
    BY <1>19 DEF ReleaseAfterError, Leave, IsDone
  <2> QED
    BY <2>1, DoneKeepsNotStarted
<1>20. ASSUME NEW p \in Processes, TerminateLease(p) PROVE NotStarted'
  BY <1>20 DEF TerminateLease
<1>21. ASSUME NEW p \in Processes, ExpireDueLeases(p) PROVE NotStarted'
  BY <1>21 DEF ExpireDueLeases
<1>22. ASSUME NEW p \in Processes, TakeExpiredLease(p) PROVE NotStarted'
  BY <1>22 DEF TakeExpiredLease
<1>23. ASSUME NEW p \in Processes, FinishSupervision(p) PROVE NotStarted'
  BY <1>23 DEF FinishSupervision, Leave, Forget
<1>24. ASSUME NEW p \in Processes, AnswerRequest(p) PROVE NotStarted'
  <2>1. PICK r \in Requests, answer \in Resolutions :
          /\ requestStatus[r] = "pending"
          /\ requestStatus' = [requestStatus EXCEPT ![r] = answer]
          /\ req' = [req EXCEPT ![p] = r]
    BY <1>24, AnswersOnePending, Zenon
  <2>2. /\ p \in Resolvers /\ pc' = [pc EXCEPT ![p] = "find"]
        /\ UNCHANGED <<cur, requestOf, started>>
    BY <1>24 DEF AnswerRequest
  <2>3. \A a \in Actions : requestOf[a] = r => a \notin started
    BY <2>1, GovernedActionsAssumption, ApprovalsAssumption
  <2>4. \A a \in Actions : requestOf[a] # None /\ requestStatus'[requestOf[a]] = "pending"
          => requestStatus[requestOf[a]] = "pending"
    BY <2>1 DEF ApprovalsTypeOK, Resolutions
  <2>5. ASSUME NEW q \in Resolvers, pc'[q] \in ResolvePoints \cup {"recheck", "start"},
               NEW a \in Actions, requestOf[a] = req'[q]
        PROVE  a \notin started
    <3>1. CASE q = p
      BY <2>1, <2>2, <2>3, <2>5, <3>1
    <3>2. CASE q # p
      BY <2>1, <2>2, <2>5, <3>2
    <3> QED
      BY <3>1, <3>2
  <2> QED
    BY <2>2, <2>4, <2>5
<1>25. ASSUME NEW p \in Processes, InsertExecution(p) PROVE NotStarted'
  BY <1>25 DEF InsertExecution
<1>26. ASSUME NEW p \in Processes, StartAction(p) PROVE NotStarted'
  BY <1>26 DEF StartAction, MarkUnfinished
<1>27. ASSUME NEW p \in Processes, AcquireLease(p) PROVE NotStarted'
  BY <1>27 DEF AcquireLease
<1>28. ASSUME NEW p \in Processes, RecordRun(p) PROVE NotStarted'
  BY <1>28 DEF RecordRun
<1>29. ASSUME NEW p \in Processes, StartRun(p) PROVE NotStarted'
  BY <1>29 DEF StartRun
<1>30. ASSUME NEW p \in Processes, Work(p) PROVE NotStarted'
  BY <1>30 DEF Work
<1>31. ASSUME NEW p \in Processes, WorkErrors(p) PROVE NotStarted'
  BY <1>31 DEF WorkErrors
<1>32. ASSUME NEW p \in Processes, FinishExecution(p) PROVE NotStarted'
  BY <1>32 DEF FinishExecution
<1>33. ASSUME NEW p \in Processes, FinishRun(p) PROVE NotStarted'
  BY <1>33 DEF FinishRun
<1>34. ASSUME NEW p \in Processes, FinishAction(p) PROVE NotStarted'
  BY <1>34 DEF FinishAction
<1>35. ASSUME NEW p \in Processes, LoadContext(p) PROVE NotStarted'
  BY <1>35 DEF LoadContext, Leave, Forget, AfterExecution, AfterRecovery
<1>36. ASSUME NEW p \in Processes, RecoverRun(p) PROVE NotStarted'
  BY <1>36 DEF RecoverRun
<1>37. ASSUME NEW p \in Processes, RecoverAction(p) PROVE NotStarted'
  BY <1>37 DEF RecoverAction, Leave, Forget, AfterExecution, AfterRecovery
<1>38. ASSUME NEW p \in Processes, Crash(p) PROVE NotStarted'
  BY <1>38 DEF Crash, Leave, Forget
<1>39. ASSUME NEW a \in Actions, LeaseTimePasses(a) PROVE NotStarted'
  BY <1>39 DEF LeaseTimePasses
<1>40. ASSUME NEW r \in Requests, RequestTimePasses(r),
             UNCHANGED <<rowVars, statusVars, recordVars, leaseVars, procVars, others>>
      PROVE  NotStarted'
  BY <1>40 DEF RequestTimePasses
<1>41. CASE UNCHANGED vars
  BY <1>41 DEF vars
<1> HIDE DEF TypeOK, NotStarted, Processes
<1> QED
  BY <1>1, <1>2, <1>3, <1>4, <1>5, <1>6, <1>7, <1>8, <1>9, <1>10, <1>11, <1>12, <1>13, <1>14,
     <1>15, <1>16, <1>17, <1>18, <1>19, <1>20, <1>21, <1>22, <1>23, <1>24, <1>25, <1>26, <1>27,
     <1>28, <1>29, <1>30, <1>31, <1>32, <1>33, <1>34, <1>35, <1>36, <1>37, <1>38, <1>39, <1>40,
     <1>41
     DEF Next, Step, PlanningStep, RoutingStep, SyncStep, ExecutionStep, LeaseStep, RecoveryStep

\* Only one executor is at the execution of an action.
LEMMA OneExecutor ==
  ASSUME TypeOK, Consent, NEW p \in Executors, NEW q \in Executors, p # q,
         pc[p] \in ExecutePoints, pc[q] \in ExecutePoints
  PROVE  cur[p] # cur[q]
<1> USE KindsOfProcesses
<1>1. /\ p \in Turns => cur[p] # None /\ requestOf[cur[p]] = None
      /\ p \in Resolvers => req[p] # None /\ requestOf[cur[p]] = req[p]
  BY CursTyped DEF Consent, TurnsKnow, ResolversKnow
<1>2. /\ q \in Turns => cur[q] # None /\ requestOf[cur[q]] = None
      /\ q \in Resolvers => req[q] # None /\ requestOf[cur[q]] = req[q]
  BY CursTyped DEF Consent, TurnsKnow, ResolversKnow
<1> QED
  BY <1>1, <1>2 DEF Consent, TurnsKnow, ResolversKnow

RecordPoints == {"start", "lease", "recordRun", "startRun", "work", "finishExecution",
                 "finishRun", "finishAction", "recoverRun", "recoverAction"}

\* No record changes, and no row becomes executed.
RecordsStand ==
  /\ UNCHANGED <<execStatus, runStatus, effects>>
  /\ started \subseteq started'
  /\ \A a \in Actions :
       /\ actionStatus'[a] = "executed" => actionStatus[a] = "executed"
       /\ actionStatus[a] # "absent" => proposal'[a] = proposal[a]

OthersRemember(p) ==
  \A q \in Processes \ {p} :
    pc'[q] = pc[q] /\ cur'[q] = cur[q] /\ seen'[q] = seen[q] /\ outcome'[q] = outcome[q]

\* A process that moves away from the records leaves them in agreement.
LEMMA RestKeepsRecords ==
  ASSUME TypeOK, RowsKnown, RecordsAgree, NEW p \in Processes,
         RecordsStand, OthersRemember(p), pc'[p] \notin RecordPoints
  PROVE  RecordsAgree'
<1>1. ASSUME NEW a \in Actions PROVE RowAgrees(a)'
  BY DEF RecordsAgree, RowAgrees, RecordsStand, RowsKnown, Performed, Script, Kind
<1>2. ASSUME NEW q \in Processes, q # p PROVE ExecutorRecords(q)' /\ RecoveryRecords(q)'
  <2>1. pc[q] \in RecordPoints => cur[q] \in Actions /\ proposal'[cur[q]] = proposal[cur[q]]
    BY RowAtHand
       DEF RecordsStand, RecordPoints, ActionPoints, ExecutePoints, WorkPoints, RecoveryPoints
  <2> QED
    BY <1>2, <2>1
       DEF RecordsAgree, ExecutorRecords, RecoveryRecords, RecordsStand, OthersRemember,
           RecordPoints, Performed, Script, Kind, TypeOK, ProcessesTypeOK
<1>3. ExecutorRecords(p)' /\ RecoveryRecords(p)'
  BY DEF ExecutorRecords, RecoveryRecords, RecordPoints
<1> QED
  BY <1>1, <1>2, <1>3 DEF RecordsAgree

\* So does a step that moves no process.
LEMMA StandingRecordsAgree ==
  ASSUME RecordsAgree,
         UNCHANGED <<pc, cur, seen, outcome, started, actionStatus, proposal, recordVars>>
  PROVE  RecordsAgree'
BY DEF RecordsAgree, RowAgrees, ExecutorRecords, RecoveryRecords, Performed, Script, Kind,
       recordVars

\* The process moves away from the records.
Rests(p) == RecordsStand /\ OthersRemember(p) /\ pc'[p] \notin RecordPoints

Resting(p) ==
  \/ PlanBlocked(p) \/ PlanAction(p) \/ FinishTurn(p) \/ DenyAtCap(p)
  \/ EscalateAtCap(p) \/ LookUpRequest(p) \/ CountPending(p) \/ CreateRequest(p)
  \/ CreateRefused(p) \/ AttachRequest(p) \/ PromptForApproval(p) \/ FindAction(p)
  \/ SyncAction(p) \/ SyncRefused(p) \/ RecheckFails(p) \/ CheckLease(p)
  \/ LeaseLost(p) \/ ReleaseLease(p) \/ ReleaseAfterError(p) \/ TerminateLease(p)
  \/ ExpireDueLeases(p) \/ TakeExpiredLease(p) \/ FinishSupervision(p) \/ AnswerRequest(p)
  \/ Crash(p)

\* What these actions have in common.
LEMMA RestingRests ==
  ASSUME TypeOK, RowsKnown, NEW p \in Processes, Resting(p)
  PROVE  Rests(p)
<1> USE DEF TypeOK, TablesTypeOK, ProcessesTypeOK, RowsKnown, Rests, RecordsStand, OthersRemember,
        RecordPoints, ResolvePoints, Resolutions, At, Goto, ActionPoints, RequestPoints,
        RoutePoints, ExecutePoints, WorkPoints, approvalVars, rowVars, statusVars, recordVars,
        leaseVars, procVars, others
<1>1. CASE PlanBlocked(p)
  BY <1>1 DEF PlanBlocked, InsertAction
<1>2. CASE PlanAction(p)
  BY <1>2 DEF PlanAction, InsertAction, AfterPlanning, PlannedStatus
<1>3. CASE FinishTurn(p)
  BY <1>3 DEF FinishTurn, Leave, Forget
<1>4. CASE DenyAtCap(p)
  BY <1>4 DEF DenyAtCap, Leave, Forget, MarkUnfinished, SetAction
<1>5. CASE EscalateAtCap(p)
  BY <1>5 DEF EscalateAtCap, MarkUnfinished, SetAction
<1>6. CASE LookUpRequest(p)
  BY <1>6 DEF LookUpRequest
<1>7. CASE CountPending(p)
  BY <1>7 DEF CountPending, Leave, Forget
<1>8. CASE CreateRequest(p)
  BY <1>8 DEF CreateRequest
<1>9. CASE CreateRefused(p)
  BY <1>9 DEF CreateRefused, Leave, Forget
<1>10. CASE AttachRequest(p)
  BY <1>10 DEF AttachRequest
<1>11. CASE PromptForApproval(p)
  BY <1>11 DEF PromptForApproval, Leave, Forget
<1>12. CASE FindAction(p)
  BY <1>12 DEF FindAction, Leave, Forget
<1>13. CASE SyncAction(p)
  BY <1>13 DEF SyncAction, Leave, Forget, MarkUnfinished, SetAction
<1>14. CASE SyncRefused(p)
  BY <1>14 DEF SyncRefused, Leave, Forget
<1>15. CASE RecheckFails(p)
  BY <1>15 DEF RecheckFails, Leave, Forget, AfterExecution, SetAction
<1>16. CASE CheckLease(p)
  BY <1>16 DEF CheckLease
<1>17. CASE LeaseLost(p)
  BY <1>17 DEF LeaseLost, Leave, Forget
<1>18. CASE ReleaseLease(p)
  BY <1>18 DEF ReleaseLease, Leave, Forget, AfterExecution
<1>19. CASE ReleaseAfterError(p)
  BY <1>19 DEF ReleaseAfterError, Leave, Forget
<1>20. CASE TerminateLease(p)
  BY <1>20 DEF TerminateLease
<1>21. CASE ExpireDueLeases(p)
  BY <1>21 DEF ExpireDueLeases
<1>22. CASE TakeExpiredLease(p)
  BY <1>22 DEF TakeExpiredLease
<1>23. CASE FinishSupervision(p)
  BY <1>23 DEF FinishSupervision, Leave, Forget
<1>24. CASE AnswerRequest(p)
  BY <1>24 DEF AnswerRequest, ResolveRequest
<1>25. CASE Crash(p)
  BY <1>25 DEF Crash, Leave, Forget
<1> HIDE DEF TypeOK, Rests
<1> QED
  BY <1>1, <1>2, <1>3, <1>4, <1>5, <1>6, <1>7, <1>8, <1>9, <1>10, <1>11, <1>12, <1>13, <1>14,
     <1>15, <1>16, <1>17, <1>18, <1>19, <1>20, <1>21, <1>22, <1>23, <1>24, <1>25
     DEF Resting

\* An executor writes records of its own action only.
WritesOwn(p) ==
  /\ p \in Executors /\ pc[p] \in ExecutePoints
  /\ OthersRemember(p)
  /\ proposal' = proposal
  /\ \A a \in Actions \ {cur[p]} :
       execStatus'[a] = execStatus[a] /\ runStatus'[a] = runStatus[a] /\ effects'[a] = effects[a]
  /\ \A a \in Actions : effects[a] > 0 => effects'[a] > 0

\* Those who execute other actions know no less then, nor does a recovery of the
\* action that found the record as the write leaves it.
LEMMA OthersKeepRecords ==
  ASSUME TypeOK, RowsKnown, Consent, RecordsAgree, NEW p \in Processes, WritesOwn(p),
         NEW q \in Processes, q # p, cur[q] = cur[p] => RecoveryRecords(q)'
  PROVE  ExecutorRecords(q)' /\ RecoveryRecords(q)'
<1>1. pc'[q] = pc[q] /\ cur'[q] = cur[q] /\ seen'[q] = seen[q] /\ outcome'[q] = outcome[q]
  BY DEF WritesOwn, OthersRemember
<1>2. ExecutorRecords(q) /\ RecoveryRecords(q)
  BY DEF RecordsAgree
<1>3. pc[q] \in RecordPoints => cur[q] \in Actions
  BY RowAtHand
     DEF RecordPoints, ActionPoints, ExecutePoints, WorkPoints, RecoveryPoints
<1>4. CASE cur[q] # cur[p]
  BY <1>1, <1>2, <1>3, <1>4
     DEF WritesOwn, ExecutorRecords, RecoveryRecords, RecordPoints, Script, Kind, Performed
<1>5. CASE cur[q] = cur[p]
  <2>1. pc[q] \notin WorkPoints
    <3>1. pc[q] \in WorkPoints => q \in Executors /\ pc[q] \in ExecutePoints
      BY KindsOfProcesses
         DEF TypeOK, ProcessesTypeOK, SupervisorPoints, WorkPoints, ExecutePoints, RecoveryPoints
    <3> QED
      BY <3>1, <1>5, OneExecutor DEF WritesOwn
  <2>2. ExecutorRecords(q)'
    BY <1>1, <2>1 DEF ExecutorRecords, WorkPoints
  <2> QED
    BY <1>5, <2>2
<1> QED
  BY <1>4, <1>5

\* What recovery concludes from records that agree is true of them.
LEMMA VerdictIsTrue ==
  ASSUME TypeOK, NEW a \in Actions, RowAgrees(a)
  PROVE  /\ RunVerdict(a) # "none" =>
              /\ RunVerdict(a) \in {"completed", "failed", "blocked"}
              /\ execStatus[a] = RunVerdict(a)
              /\ Verdict(a) = "executed" => RunVerdict(a) = "completed"
         /\ RunVerdict(a) = "none" /\ Verdict(a) = "executed" =>
              execStatus[a] = "completed" /\ (Script(a) => runStatus[a] = "completed")
<1>1. /\ FinalStatus("completed") = "executed" /\ FinalStatus("failed") = "failed"
      /\ FinalStatus("blocked") = "blocked"
      /\ \A o : FinalStatus(o) = "executed" => o = "completed"
  BY Zenon DEF FinalStatus
<1>2. Verdict(a) = "executed" => DecisionAbout(a) = "continue"
  <2>1. DecisionAbout(a) \in Decisions
    BY DecisionIsOneOf DEF DecisionAbout
  <2> QED
    BY <2>1 DEF Verdict, Decisions
<1>3. DecisionAbout(a) = "continue" => Verdict(a) = TerminalStatus(a)
  BY DEF Verdict
<1>4. runStatus[a] \in ScriptRunStatuses
  BY DEF TypeOK, TablesTypeOK
<1>5. CASE RunVerdict(a) # "none"
  <2>1. /\ DecisionAbout(a) = "continue" /\ runStatus[a] \in {"pending", "running"}
        /\ TerminalStatus(a) \in {"executed", "blocked", "failed"}
        /\ RunVerdict(a) = IF TerminalStatus(a) = "executed" THEN "completed"
                                                            ELSE TerminalStatus(a)
    BY <1>5 DEF RunVerdict
  <2>2. /\ execStatus[a] \in {"completed", "failed", "blocked"}
        /\ TerminalStatus(a) = FinalStatus(execStatus[a])
    BY <2>1 DEF TerminalStatus, RunEnded
  <2> HIDE DEF FinalStatus
  <2> QED
    BY <1>1, <1>3, <1>5, <2>1, <2>2
<1>6. CASE RunVerdict(a) = "none" /\ Verdict(a) = "executed"
  <2>1. DecisionAbout(a) = "continue" /\ TerminalStatus(a) = "executed"
    BY <1>2, <1>3, <1>6
  <2>2. runStatus[a] \notin {"pending", "running"}
    BY <1>6, <2>1 DEF RunVerdict
  <2>3. \/ execStatus[a] = "completed"
        \/ runStatus[a] = "completed"
        \/ actionStatus[a] = "executed"
    BY <1>1, <2>1 DEF TerminalStatus
  <2> QED
    BY <1>6, <2>2, <2>3 DEF RowAgrees
<1> QED
  BY <1>5, <1>6

\* Every statement of an execution and of a recovery keeps them.
LEMMA RecordsStep ==
  ASSUME TypeOK, RowsKnown, Consent, NotStarted, RecordsAgree, [Next]_vars
  PROVE  RecordsAgree'
<1> USE DEF At, Goto, OthersRemember
<1>1. ASSUME NEW p \in Processes, Resting(p) PROVE RecordsAgree'
  BY <1>1, RestingRests, RestKeepsRecords DEF Rests
<1>2. ASSUME NEW p \in Processes, InsertExecution(p) PROVE RecordsAgree'
  <2> DEFINE own == cur[p]
  <2>0. own \in Actions /\ p \in Executors /\ pc[p] \in ExecutePoints /\ own # None
    BY <1>2, RowAtHand, KindsOfProcesses, GovernedActionsAssumption
       DEF InsertExecution, TypeOK, ProcessesTypeOK, ActionPoints, SupervisorPoints,
           ExecutePoints, WorkPoints, RecoveryPoints
  <2>a. own \notin started /\ execStatus[own] \in {"none", "started"}
    BY <1>2, <2>0, KindsOfProcesses
       DEF InsertExecution, NotStarted, RecordsAgree, RowAgrees, Consent, ResolversKnow
  <2>1. WritesOwn(p)
    BY <1>2, <2>0
       DEF InsertExecution, SetExecution, WritesOwn, TypeOK, TablesTypeOK, ProcessesTypeOK,
           rowVars
  <2>2. ASSUME NEW a \in Actions PROVE RowAgrees(a)'
    BY <1>2, <2>0, <2>a
       DEF InsertExecution, SetExecution, RecordsAgree, RowAgrees, Performed, Script, Kind,
           TypeOK, TablesTypeOK, rowVars, statusVars
  <2>3. ExecutorRecords(p)' /\ RecoveryRecords(p)'
    BY <1>2, <2>0, <2>a
       DEF InsertExecution, SetExecution, RecordsAgree, ExecutorRecords, RecoveryRecords, Script,
           Kind, TypeOK, TablesTypeOK, ProcessesTypeOK, rowVars, procVars
  <2>4. ASSUME NEW q \in Processes, q # p, cur[q] = own PROVE RecoveryRecords(q)'
    BY <1>2, <2>0, <2>1, <2>4, <2>a
       DEF InsertExecution, SetExecution, RecordsAgree, ExecutorRecords, RecoveryRecords,
           RowsKnown, StartedPoints, RecoveryPoints, WritesOwn, Script, Kind, TypeOK,
           TablesTypeOK, rowVars
  <2> QED
    BY <2>1, <2>2, <2>3, <2>4, OthersKeepRecords DEF RecordsAgree
<1>3. ASSUME NEW p \in Processes, StartAction(p) PROVE RecordsAgree'
  <2> DEFINE own == cur[p]
  <2>0. own \in Actions /\ p \in Executors /\ pc[p] \in ExecutePoints /\ own # None
    BY <1>3, RowAtHand, KindsOfProcesses, GovernedActionsAssumption
       DEF StartAction, recordVars, TypeOK, ProcessesTypeOK, ActionPoints, SupervisorPoints,
           ExecutePoints, WorkPoints, RecoveryPoints
  <2>1. WritesOwn(p)
    BY <1>3, <2>0
       DEF StartAction, recordVars, MarkUnfinished, SetAction, WritesOwn, TypeOK, TablesTypeOK,
           ProcessesTypeOK, rowVars
  <2>2. ASSUME NEW a \in Actions PROVE RowAgrees(a)'
    BY <1>3, <2>0
       DEF StartAction, recordVars, MarkUnfinished, SetAction, RecordsAgree, RowAgrees, RowsKnown,
           Performed, Script, Kind, TypeOK, TablesTypeOK, rowVars, statusVars
  <2>3. ExecutorRecords(p)' /\ RecoveryRecords(p)'
    BY <1>3, <2>0
       DEF StartAction, recordVars, MarkUnfinished, SetAction, RecordsAgree, ExecutorRecords,
           RecoveryRecords, Script, Kind, TypeOK, TablesTypeOK, ProcessesTypeOK, rowVars, procVars
  <2>4. ASSUME NEW q \in Processes, q # p, cur[q] = own PROVE RecoveryRecords(q)'
    BY <1>3, <2>0, <2>1, <2>4
       DEF StartAction, recordVars, MarkUnfinished, SetAction, RecordsAgree, ExecutorRecords,
           RecoveryRecords, WritesOwn, Script, Kind, TypeOK, TablesTypeOK, rowVars
  <2> QED
    BY <2>1, <2>2, <2>3, <2>4, OthersKeepRecords DEF RecordsAgree
<1>4. ASSUME NEW p \in Processes, AcquireLease(p) PROVE RecordsAgree'
  <2> DEFINE own == cur[p]
  <2>0. own \in Actions /\ p \in Executors /\ pc[p] \in ExecutePoints /\ own # None
    BY <1>4, RowAtHand, KindsOfProcesses, GovernedActionsAssumption
       DEF AcquireLease, recordVars, TypeOK, ProcessesTypeOK, ActionPoints, SupervisorPoints,
           ExecutePoints, WorkPoints, RecoveryPoints
  <2>1. WritesOwn(p)
    BY <1>4, <2>0
       DEF AcquireLease, recordVars, WritesOwn, TypeOK, TablesTypeOK, ProcessesTypeOK, rowVars
  <2>2. ASSUME NEW a \in Actions PROVE RowAgrees(a)'
    BY <1>4, <2>0
       DEF AcquireLease, recordVars, RecordsAgree, RowAgrees, ExecutorRecords, RowsKnown,
           StartedPoints, WorkPoints, Performed, Script, Kind, TypeOK, TablesTypeOK, rowVars,
           statusVars
  <2>3. ExecutorRecords(p)' /\ RecoveryRecords(p)'
    BY <1>4, <2>0
       DEF AcquireLease, recordVars, RecordsAgree, ExecutorRecords, RecoveryRecords, Script, Kind,
           TypeOK, TablesTypeOK, ProcessesTypeOK, rowVars, procVars
  <2>4. ASSUME NEW q \in Processes, q # p, cur[q] = own PROVE RecoveryRecords(q)'
    BY <1>4, <2>0, <2>1, <2>4
       DEF AcquireLease, recordVars, RecordsAgree, ExecutorRecords, RecoveryRecords, WritesOwn,
           Script, Kind, TypeOK, TablesTypeOK, rowVars
  <2> QED
    BY <2>1, <2>2, <2>3, <2>4, OthersKeepRecords DEF RecordsAgree
<1>5. ASSUME NEW p \in Processes, RecordRun(p) PROVE RecordsAgree'
  <2> DEFINE own == cur[p]
  <2>0. own \in Actions /\ p \in Executors /\ pc[p] \in ExecutePoints /\ own # None
    BY <1>5, RowAtHand, KindsOfProcesses, GovernedActionsAssumption
       DEF RecordRun, TypeOK, ProcessesTypeOK, ActionPoints, SupervisorPoints, ExecutePoints,
           WorkPoints, RecoveryPoints
  <2>1. WritesOwn(p)
    BY <1>5, <2>0 DEF RecordRun, SetRun, WritesOwn, TypeOK, TablesTypeOK, ProcessesTypeOK, rowVars
  <2>2. ASSUME NEW a \in Actions PROVE RowAgrees(a)'
    BY <1>5, <2>0
       DEF RecordRun, SetRun, RecordsAgree, RowAgrees, ExecutorRecords, RowsKnown, StartedPoints,
           WorkPoints, Performed, Script, Kind, TypeOK, TablesTypeOK, rowVars, statusVars
  <2>3. ExecutorRecords(p)' /\ RecoveryRecords(p)'
    BY <1>5, <2>0
       DEF RecordRun, SetRun, RecordsAgree, ExecutorRecords, RecoveryRecords, Script, Kind,
           TypeOK, TablesTypeOK, ProcessesTypeOK, rowVars, procVars
  <2>4. ASSUME NEW q \in Processes, q # p, cur[q] = own PROVE RecoveryRecords(q)'
    BY <1>5, <2>0, <2>1, <2>4
       DEF RecordRun, SetRun, RecordsAgree, ExecutorRecords, RecoveryRecords, WritesOwn, Script,
           Kind, TypeOK, TablesTypeOK, rowVars
  <2> QED
    BY <2>1, <2>2, <2>3, <2>4, OthersKeepRecords DEF RecordsAgree
<1>6. ASSUME NEW p \in Processes, StartRun(p) PROVE RecordsAgree'
  <2> DEFINE own == cur[p]
  <2>0. own \in Actions /\ p \in Executors /\ pc[p] \in ExecutePoints /\ own # None
    BY <1>6, RowAtHand, KindsOfProcesses, GovernedActionsAssumption
       DEF StartRun, TypeOK, ProcessesTypeOK, ActionPoints, SupervisorPoints, ExecutePoints,
           WorkPoints, RecoveryPoints
  <2>1. WritesOwn(p)
    BY <1>6, <2>0 DEF StartRun, SetRun, WritesOwn, TypeOK, TablesTypeOK, ProcessesTypeOK, rowVars
  <2>2. ASSUME NEW a \in Actions PROVE RowAgrees(a)'
    BY <1>6, <2>0
       DEF StartRun, SetRun, RecordsAgree, RowAgrees, ExecutorRecords, RowsKnown, StartedPoints,
           WorkPoints, Performed, Script, Kind, TypeOK, TablesTypeOK, rowVars, statusVars
  <2>3. ExecutorRecords(p)' /\ RecoveryRecords(p)'
    BY <1>6, <2>0
       DEF StartRun, SetRun, RecordsAgree, ExecutorRecords, RecoveryRecords, Script, Kind, TypeOK,
           TablesTypeOK, ProcessesTypeOK, rowVars, procVars
  <2>4. ASSUME NEW q \in Processes, q # p, cur[q] = own PROVE RecoveryRecords(q)'
    BY <1>6, <2>0, <2>1, <2>4
       DEF StartRun, SetRun, RecordsAgree, ExecutorRecords, RecoveryRecords, WritesOwn, Script,
           Kind, TypeOK, TablesTypeOK, rowVars
  <2> QED
    BY <2>1, <2>2, <2>3, <2>4, OthersKeepRecords DEF RecordsAgree
<1>7. ASSUME NEW p \in Processes, Work(p) PROVE RecordsAgree'
  <2> DEFINE own == cur[p]
  <2>0. own \in Actions /\ p \in Executors /\ pc[p] \in ExecutePoints /\ own # None
    BY <1>7, RowAtHand, KindsOfProcesses, GovernedActionsAssumption
       DEF Work, TypeOK, ProcessesTypeOK, ActionPoints, SupervisorPoints, ExecutePoints,
           WorkPoints, RecoveryPoints
  <2>a. effects \in [Actions -> 0 .. 2]
    BY DEF TypeOK, TablesTypeOK
  <2>b. PICK o \in OutcomesOf(Kind(own)) :
          outcome' = [outcome EXCEPT ![p] = o] /\ CountEffect(p, o # "blocked")
    BY <1>7 DEF Work
  <2>c. o = "completed" => effects'[own] > 0
    BY <2>0, <2>a, <2>b DEF CountEffect
  <2>1. WritesOwn(p)
    BY <1>7, <2>0 DEF Work, CountEffect, WritesOwn, TypeOK, TablesTypeOK, ProcessesTypeOK, rowVars
  <2>2. ASSUME NEW a \in Actions PROVE RowAgrees(a)'
    BY <1>7, <2>0
       DEF Work, CountEffect, RecordsAgree, RowAgrees, ExecutorRecords, RowsKnown, StartedPoints,
           WorkPoints, Performed, Script, Kind, TypeOK, TablesTypeOK, rowVars, statusVars
  <2>3. ExecutorRecords(p)' /\ RecoveryRecords(p)'
    BY <1>7, <2>0, <2>b, <2>c
       DEF Work, Performed, RecordsAgree, ExecutorRecords, RecoveryRecords, Script, Kind, TypeOK,
           TablesTypeOK, ProcessesTypeOK, rowVars, procVars
  <2>4. ASSUME NEW q \in Processes, q # p, cur[q] = own PROVE RecoveryRecords(q)'
    BY <1>7, <2>0, <2>1, <2>4
       DEF Work, CountEffect, RecordsAgree, ExecutorRecords, RecoveryRecords, WritesOwn, Script,
           Kind, TypeOK, TablesTypeOK, rowVars
  <2> QED
    BY <2>1, <2>2, <2>3, <2>4, OthersKeepRecords DEF RecordsAgree
<1>8. ASSUME NEW p \in Processes, WorkErrors(p) PROVE RecordsAgree'
  <2> DEFINE own == cur[p]
  <2>0. own \in Actions /\ p \in Executors /\ pc[p] \in ExecutePoints /\ own # None
    BY <1>8, RowAtHand, KindsOfProcesses, GovernedActionsAssumption
       DEF WorkErrors, TypeOK, ProcessesTypeOK, ActionPoints, SupervisorPoints, ExecutePoints,
           WorkPoints, RecoveryPoints
  <2>1. WritesOwn(p)
    BY <1>8, <2>0
       DEF WorkErrors, CountEffect, WritesOwn, TypeOK, TablesTypeOK, ProcessesTypeOK, rowVars
  <2>2. ASSUME NEW a \in Actions PROVE RowAgrees(a)'
    BY <1>8, <2>0
       DEF WorkErrors, CountEffect, RecordsAgree, RowAgrees, ExecutorRecords, RowsKnown,
           StartedPoints, WorkPoints, Performed, Script, Kind, TypeOK, TablesTypeOK, rowVars,
           statusVars
  <2>3. ExecutorRecords(p)' /\ RecoveryRecords(p)'
    BY <1>8, <2>0
       DEF WorkErrors, CountEffect, RecordsAgree, ExecutorRecords, RecoveryRecords, Script, Kind,
           TypeOK, TablesTypeOK, ProcessesTypeOK, rowVars, procVars
  <2>4. ASSUME NEW q \in Processes, q # p, cur[q] = own PROVE RecoveryRecords(q)'
    BY <1>8, <2>0, <2>1, <2>4
       DEF WorkErrors, CountEffect, RecordsAgree, ExecutorRecords, RecoveryRecords, WritesOwn,
           Script, Kind, TypeOK, TablesTypeOK, rowVars
  <2> QED
    BY <2>1, <2>2, <2>3, <2>4, OthersKeepRecords DEF RecordsAgree
<1>9. ASSUME NEW p \in Processes, FinishExecution(p) PROVE RecordsAgree'
  <2> DEFINE own == cur[p]
  <2>0. own \in Actions /\ p \in Executors /\ pc[p] \in ExecutePoints /\ own # None
    BY <1>9, RowAtHand, KindsOfProcesses, GovernedActionsAssumption
       DEF FinishExecution, TypeOK, ProcessesTypeOK, ActionPoints, SupervisorPoints,
           ExecutePoints, WorkPoints, RecoveryPoints
  <2>1. WritesOwn(p)
    BY <1>9, <2>0
       DEF FinishExecution, SetExecution, RecordOf, WritesOwn, TypeOK, TablesTypeOK,
           ProcessesTypeOK, rowVars
  <2>2. ASSUME NEW a \in Actions PROVE RowAgrees(a)'
    BY <1>9, <2>0
       DEF FinishExecution, SetExecution, RecordOf, RecordsAgree, RowAgrees, ExecutorRecords,
           RowsKnown, StartedPoints, WorkPoints, Performed, Script, Kind, TypeOK, TablesTypeOK,
           rowVars, statusVars
  <2>3. ExecutorRecords(p)' /\ RecoveryRecords(p)'
    BY <1>9, <2>0
       DEF FinishExecution, SetExecution, RecordOf, RecordsAgree, ExecutorRecords,
           RecoveryRecords, Script, Kind, TypeOK, TablesTypeOK, ProcessesTypeOK, rowVars, procVars
  <2>4. ASSUME NEW q \in Processes, q # p, cur[q] = own PROVE RecoveryRecords(q)'
    BY <1>9, <2>0, <2>1, <2>4
       DEF FinishExecution, SetExecution, RecordOf, RecordsAgree, ExecutorRecords,
           RecoveryRecords, WritesOwn, Script, Kind, TypeOK, TablesTypeOK, rowVars
  <2> QED
    BY <2>1, <2>2, <2>3, <2>4, OthersKeepRecords DEF RecordsAgree
<1>10. ASSUME NEW p \in Processes, FinishRun(p) PROVE RecordsAgree'
  <2> DEFINE own == cur[p]
  <2>0. own \in Actions /\ p \in Executors /\ pc[p] \in ExecutePoints /\ own # None
    BY <1>10, RowAtHand, KindsOfProcesses, GovernedActionsAssumption
       DEF FinishRun, TypeOK, ProcessesTypeOK, ActionPoints, SupervisorPoints, ExecutePoints,
           WorkPoints, RecoveryPoints
  <2>1. WritesOwn(p)
    BY <1>10, <2>0
       DEF FinishRun, SetRun, RecordOf, WritesOwn, TypeOK, TablesTypeOK, ProcessesTypeOK, rowVars
  <2>2. ASSUME NEW a \in Actions PROVE RowAgrees(a)'
    BY <1>10, <2>0
       DEF FinishRun, SetRun, RecordOf, RecordsAgree, RowAgrees, ExecutorRecords, RowsKnown,
           StartedPoints, WorkPoints, Performed, Script, Kind, TypeOK, TablesTypeOK, rowVars,
           statusVars
  <2>3. ExecutorRecords(p)' /\ RecoveryRecords(p)'
    BY <1>10, <2>0
       DEF FinishRun, SetRun, RecordOf, RecordsAgree, ExecutorRecords, RecoveryRecords, Script,
           Kind, TypeOK, TablesTypeOK, ProcessesTypeOK, rowVars, procVars
  <2>4. ASSUME NEW q \in Processes, q # p, cur[q] = own PROVE RecoveryRecords(q)'
    BY <1>10, <2>0, <2>1, <2>4
       DEF FinishRun, SetRun, RecordOf, RecordsAgree, ExecutorRecords, RecoveryRecords, WritesOwn,
           Script, Kind, TypeOK, TablesTypeOK, rowVars
  <2> QED
    BY <2>1, <2>2, <2>3, <2>4, OthersKeepRecords DEF RecordsAgree
<1>11. ASSUME NEW p \in Processes, FinishAction(p) PROVE RecordsAgree'
  <2> DEFINE own == cur[p]
  <2>0. own \in Actions /\ p \in Executors /\ pc[p] \in ExecutePoints /\ own # None
    BY <1>11, RowAtHand, KindsOfProcesses, GovernedActionsAssumption
       DEF FinishAction, recordVars, TypeOK, ProcessesTypeOK, ActionPoints, SupervisorPoints,
           ExecutePoints, WorkPoints, RecoveryPoints
  <2>a. FinalStatus(outcome[p]) = "executed" => outcome[p] = "completed"
    BY Zenon DEF FinalStatus
  <2>1. WritesOwn(p)
    BY <1>11, <2>0
       DEF FinishAction, recordVars, SetAction, WritesOwn, TypeOK, TablesTypeOK, ProcessesTypeOK,
           rowVars
  <2>2. ASSUME NEW a \in Actions PROVE RowAgrees(a)'
    BY <1>11, <2>0, <2>a
       DEF FinishAction, recordVars, SetAction, RecordsAgree, RowAgrees, ExecutorRecords,
           RowsKnown, StartedPoints, WorkPoints, Performed, Script, Kind, TypeOK, TablesTypeOK,
           rowVars, statusVars
  <2>3. ExecutorRecords(p)' /\ RecoveryRecords(p)'
    BY <1>11, <2>0
       DEF FinishAction, recordVars, SetAction, RecordsAgree, ExecutorRecords, RecoveryRecords,
           Script, Kind, TypeOK, TablesTypeOK, ProcessesTypeOK, rowVars, procVars
  <2>4. ASSUME NEW q \in Processes, q # p, cur[q] = own PROVE RecoveryRecords(q)'
    BY <1>11, <2>0, <2>1, <2>4
       DEF FinishAction, recordVars, SetAction, RecordsAgree, ExecutorRecords, RecoveryRecords,
           WritesOwn, Script, Kind, TypeOK, TablesTypeOK, rowVars
  <2> QED
    BY <2>1, <2>2, <2>3, <2>4, OthersKeepRecords DEF RecordsAgree
<1>12. ASSUME NEW p \in Processes, LoadContext(p) PROVE RecordsAgree'
  <2> DEFINE own == cur[p]
  <2>0. own \in Actions
    BY <1>12, RowAtHand DEF LoadContext, ActionPoints, ExecutePoints, RecoveryPoints
  <2>1. UNCHANGED <<actionStatus, started, proposal, recordVars>>
    BY <1>12 DEF LoadContext, rowVars, statusVars
  <2>2. CASE Verdict(own) = "absent"
    <3>1. AfterRecovery(p)
      BY <1>12, <2>2 DEF LoadContext
    <3>2. OthersRemember(p) /\ pc'[p] \notin RecordPoints
      BY <3>1
         DEF AfterRecovery, AfterExecution, Leave, Forget, RecordPoints, TypeOK, ProcessesTypeOK
    <3> QED
      BY <2>1, <3>2, RestKeepsRecords DEF RecordsStand, recordVars
  <2>3. CASE Verdict(own) # "absent"
    <3>1. /\ seen' = [seen EXCEPT ![p] = Verdict(own)]
          /\ outcome' = [outcome EXCEPT ![p] = RunVerdict(own)]
          /\ pc' = [pc EXCEPT ![p] = IF RunVerdict(own) = "none" THEN "recoverAction"
                                                               ELSE "recoverRun"]
          /\ cur' = cur
      BY <1>12, <2>3, Zenon DEF LoadContext
    <3>2. ASSUME NEW a \in Actions PROVE RowAgrees(a)'
      BY <2>1 DEF RecordsAgree, RowAgrees, Performed, Script, Kind, recordVars
    <3>3. ASSUME NEW q \in Processes, q # p PROVE ExecutorRecords(q)' /\ RecoveryRecords(q)'
      BY <2>1, <3>1, <3>3
         DEF RecordsAgree, ExecutorRecords, RecoveryRecords, Performed, Script, Kind, recordVars,
             TypeOK, ProcessesTypeOK
    <3>4. /\ pc'[p] = IF RunVerdict(own) = "none" THEN "recoverAction" ELSE "recoverRun"
          /\ cur'[p] = own /\ seen'[p] = Verdict(own) /\ outcome'[p] = RunVerdict(own)
      BY <3>1 DEF TypeOK, ProcessesTypeOK
    <3>5. /\ RunVerdict(own) # "none" =>
               /\ RunVerdict(own) \in {"completed", "failed", "blocked"}
               /\ execStatus[own] = RunVerdict(own)
               /\ Verdict(own) = "executed" => RunVerdict(own) = "completed"
          /\ RunVerdict(own) = "none" /\ Verdict(own) = "executed" =>
               execStatus[own] = "completed" /\ (Script(own) => runStatus[own] = "completed")
      BY <2>0, VerdictIsTrue DEF RecordsAgree
    <3>6. ExecutorRecords(p)' /\ RecoveryRecords(p)'
      <4> HIDE DEF own
      <4>1. UNCHANGED <<execStatus, runStatus, proposal>>
        BY <2>1 DEF recordVars
      <4> QED
        BY <3>4, <3>5, <4>1 DEF ExecutorRecords, RecoveryRecords, Script, Kind
    <3> QED
      BY <3>2, <3>3, <3>6 DEF RecordsAgree
  <2> QED
    BY <2>2, <2>3
<1>13. ASSUME NEW p \in Processes, RecoverRun(p) PROVE RecordsAgree'
  <2> DEFINE own == cur[p]
  <2>0. own \in Actions
    BY <1>13, RowAtHand DEF RecoverRun, ActionPoints, ExecutePoints, RecoveryPoints
  <2>1. /\ runStatus' = [runStatus EXCEPT ![own] = outcome[p]]
        /\ pc' = [pc EXCEPT ![p] = "recoverAction"]
        /\ UNCHANGED <<cur, seen, outcome, execStatus, effects, actionStatus, started, proposal>>
    BY <1>13 DEF RecoverRun, SetRun, rowVars, statusVars
  <2>2. /\ outcome[p] \in {"completed", "failed", "blocked"} /\ execStatus[own] = outcome[p]
        /\ seen[p] = "executed" => outcome[p] = "completed"
    BY <1>13 DEF RecoverRun, RecordsAgree, RecoveryRecords
  <2>3. runStatus'[own] = execStatus[own] /\ \A a \in Actions \ {own} : runStatus'[a] = runStatus[a]
    BY <2>0, <2>1, <2>2 DEF TypeOK, TablesTypeOK
  <2> HIDE DEF own
  <2>4. ASSUME NEW a \in Actions PROVE RowAgrees(a)'
    BY <2>1, <2>2, <2>3 DEF RecordsAgree, RowAgrees, Performed, Script, Kind
  <2>5. ASSUME NEW q \in Processes PROVE ExecutorRecords(q)' /\ RecoveryRecords(q)'
    <3>1. pc[q] \in RecordPoints => cur[q] \in Actions
      BY RowAtHand DEF RecordPoints, ActionPoints, ExecutePoints, WorkPoints, RecoveryPoints
    <3>2. CASE q = p
      BY <2>1, <2>2, <2>3, <3>2
         DEF ExecutorRecords, RecoveryRecords, Script, Kind, TypeOK, ProcessesTypeOK, own
    <3>3. CASE q # p
      BY <2>1, <2>2, <2>3, <3>1, <3>3
         DEF RecordsAgree, ExecutorRecords, RecoveryRecords, RecordPoints, Performed, Script,
             Kind, TypeOK, ProcessesTypeOK
    <3> QED
      BY <3>2, <3>3
  <2> QED
    BY <2>4, <2>5 DEF RecordsAgree
<1>14. ASSUME NEW p \in Processes, RecoverAction(p) PROVE RecordsAgree'
  <2> DEFINE own == cur[p]
  <2>0. own \in Actions
    BY <1>14, RowAtHand DEF RecoverAction, ActionPoints, ExecutePoints, RecoveryPoints
  <2>1. /\ actionStatus' = [actionStatus EXCEPT ![own] = seen[p]]
        /\ AfterRecovery(p)
        /\ UNCHANGED <<execStatus, runStatus, effects, started, proposal>>
    BY <1>14 DEF RecoverAction, SetAction, rowVars, recordVars
  <2>2. seen[p] = "executed" =>
          execStatus[own] = "completed" /\ (Script(own) => runStatus[own] = "completed")
    BY <1>14 DEF RecoverAction, RecordsAgree, RecoveryRecords
  <2>3. OthersRemember(p) /\ pc'[p] \notin RecordPoints
    BY <2>1
       DEF AfterRecovery, AfterExecution, Leave, Forget, RecordPoints, TypeOK, ProcessesTypeOK
  <2> HIDE DEF own
  <2>4. ASSUME NEW a \in Actions PROVE RowAgrees(a)'
    BY <2>0, <2>1, <2>2
       DEF RecordsAgree, RowAgrees, Performed, Script, Kind, TypeOK, TablesTypeOK
  <2>5. ASSUME NEW q \in Processes PROVE ExecutorRecords(q)' /\ RecoveryRecords(q)'
    <3>1. CASE q = p
      BY <2>3, <3>1 DEF ExecutorRecords, RecoveryRecords, RecordPoints
    <3>2. CASE q # p
      BY <2>1, <2>3, <3>2
         DEF RecordsAgree, ExecutorRecords, RecoveryRecords, Performed, Script, Kind
    <3> QED
      BY <3>1, <3>2
  <2> QED
    BY <2>4, <2>5 DEF RecordsAgree
<1>15. ASSUME NEW a \in Actions, LeaseTimePasses(a) PROVE RecordsAgree'
  BY <1>15, StandingRecordsAgree DEF LeaseTimePasses, rowVars, statusVars, procVars
<1>16. ASSUME NEW r \in Requests, RequestTimePasses(r),
             UNCHANGED <<rowVars, statusVars, recordVars, leaseVars, procVars, others>>
      PROVE  RecordsAgree'
  BY <1>16, StandingRecordsAgree DEF rowVars, statusVars, procVars
<1>17. CASE UNCHANGED vars
  BY <1>17, StandingRecordsAgree DEF vars, rowVars, statusVars, procVars
<1> QED
  BY <1>1, <1>2, <1>3, <1>4, <1>5, <1>6, <1>7, <1>8, <1>9, <1>10, <1>11, <1>12, <1>13,
     <1>14, <1>15, <1>16, <1>17
     DEF Resting, Next, Step, PlanningStep, RoutingStep, SyncStep, ExecutionStep, LeaseStep,
         RecoveryStep

\* For any number of turns, resolvers and supervisors, any crashes, and leases that
\* expire under live executors: a row that says executed is right about its
\* backend, its execution record and its script run.
THEOREM ExecutedRowsAreTrue == Spec => []ExecutedIsTrue
<1>1. Init => NotStarted /\ RecordsAgree
  BY KindsOfProcesses, GovernedActionsAssumption
     DEF Init, NotStarted, RecordsAgree, RowAgrees, ExecutorRecords, RecoveryRecords,
         ResolvePoints, BeforeRequest
<1>2. Spec => []Consent
  <2>1. ConsentInvariant => Consent
    BY DEF ConsentInvariant, Consent
  <2> QED
    BY <2>1, ConsentIsKept, PTL
<1>3. TypeOK /\ RowsKnown /\ Consent /\ NotStarted /\ RecordsAgree /\ [Next]_vars
        => (NotStarted /\ RecordsAgree)'
  BY NotStartedStep, RecordsStep
<1>4. RecordsAgree => ExecutedIsTrue
  BY DEF RecordsAgree, RowAgrees, ExecutedIsTrue, Script
<1> QED
  BY <1>1, <1>2, <1>3, <1>4, TypeCorrect, PTL DEF Spec
==============================================================================
