----------------------- MODULE GovernedOutcomesProofs -----------------------
(***************************************************************************)
(* More proofs about GovernedActions: what becomes of an action once it    *)
(* has started, how much the turns do without asking anybody, and what an  *)
(* action that waits for approval waits for.  The first holds where leases *)
(* outlive the work they cover, the second for finitely many turns, the    *)
(* third where answers reach their rows and there is room for requests.    *)
(***************************************************************************)
EXTENDS GovernedActionsProofs, FiniteSetTheorems

-----------------------------------------------------------------------------
(* What became of an action is decided once. *)

\* The proof of a completed action's outcome is in its execution record, and
\* the row says the same.
Settled(a) ==
  a \in completed => /\ execStatus[a] \in {"completed", "failed", "blocked"}
                     /\ actionStatus[a] = FinalStatus(execStatus[a])

\* What a recovery asks of a row besides: that it links its own execution
\* record and that nothing withdrew its approval.
Covered(a) ==
  /\ link[a] = "own"
  /\ requestOf[a] # None => requestStatus[requestOf[a]] = "approved"

LeasedPoints == {"recordRun", "startRun", "work", "finishExecution", "finishRun",
                 "finishAction", "releaseAfterError"}
FinishPoints == {"finishExecution", "finishRun", "finishAction"}

ExecutorFinishes(p) ==
  LET a == cur[p] IN
  /\ pc[p] \in StartedPoints => Covered(a) /\ a \notin overdue /\ leaseStatus[a] # "expired"
  /\ pc[p] = "lease" => leaseStatus[a] = "none" /\ a \notin completed
  /\ pc[p] \in LeasedPoints => leaseStatus[a] = "active" /\ a \notin completed
  /\ pc[p] \in FinishPoints => outcome[p] \in RunEnded
  /\ pc[p] \in {"finishRun", "finishAction"} => execStatus[a] = RecordOf(outcome[p])
  /\ pc[p] \in RecoveryPoints => leaseStatus[a] = "terminated" /\ Settled(a)

SupervisorFinishes(p) ==
  /\ pc[p] \in RecoveryPoints => leaseStatus[cur[p]] = "expired" /\ Settled(cur[p])
  /\ \A a \in todo[p] : leaseStatus[a] = "expired" /\ Settled(a)

\* What a process knows of the row before the statement it is at.  A verdict
\* about a row that is completed is what the row says.
Finishes(p) ==
  /\ p \in Executors => ExecutorFinishes(p)
  /\ p \in Supervisors => SupervisorFinishes(p)
  /\ pc[p] \in {"recoverRun", "recoverAction"} /\ cur[p] \in completed =>
       seen[p] = actionStatus[cur[p]]

LeaseFinds(a) ==
  /\ leaseStatus[a] # "none" => Covered(a)
  /\ leaseStatus[a] = "active" => Settled(a)

\* An action that has started is in one process's hands at most.
InOneHand ==
  /\ \A s, t \in Supervisors : s # t => todo[s] \cap todo[t] = {}
  /\ \A s \in Supervisors, p \in Processes : pc[p] \in StartedPoints => cur[p] \notin todo[s]
  /\ \A p, q \in Processes :
       p # q /\ pc[p] \in StartedPoints /\ pc[q] \in StartedPoints => cur[p] # cur[q]

OutcomeKnown ==
  /\ \A a \in Actions : LeaseFinds(a)
  /\ \A p \in Processes : Finishes(p)
  /\ InOneHand

\* The verdict about a completed row that is covered is what the row says.
LEMMA VerdictRepeats ==
  ASSUME NEW a \in Actions, a \in completed, Settled(a), Covered(a)
  PROVE  Verdict(a) = actionStatus[a]
<1>1. /\ link[a] = "own" /\ execStatus[a] \in {"completed", "failed", "blocked"}
      /\ actionStatus[a] = FinalStatus(execStatus[a])
  BY DEF Settled, Covered
<1>2. Evidence(a) = "durable_completed"
  BY DEF Evidence, HasTerminalEvidence
<1>3. ApprovalState(a) \in {"not_required", "approved_fresh"}
  BY <1>2 DEF ApprovalState, Covered
<1>4. DecisionAbout(a) = "continue"
  BY <1>2, <1>3 DEF DecisionAbout, ClassifyRecoveryDecision, FailsClosed
<1>5. TerminalStatus(a) = FinalStatus(execStatus[a])
  BY <1>1 DEF TerminalStatus
<1> QED
  BY <1>1, <1>4, <1>5 DEF Verdict

\* A record of a timeout stands for the same status as the timeout.
LEMMA RecordSaysFinal ==
  ASSUME NEW o \in RunEnded
  PROVE  /\ RecordOf(o) \in {"completed", "failed", "blocked"}
         /\ FinalStatus(RecordOf(o)) = FinalStatus(o)
BY DEF RecordOf, FinalStatus, RunEnded

RowStands(a) ==
  /\ link'[a] = link[a] /\ requestOf'[a] = requestOf[a]
  /\ execStatus'[a] = execStatus[a] /\ actionStatus'[a] = actionStatus[a]
  /\ a \in completed' <=> a \in completed

LeaseStands(a) ==
  leaseStatus'[a] = leaseStatus[a] /\ (a \in overdue' <=> a \in overdue)

OthersStand(p) ==
  \A q \in Processes \ {p} :
    /\ pc'[q] = pc[q] /\ cur'[q] = cur[q] /\ seen'[q] = seen[q] /\ outcome'[q] = outcome[q]
    /\ todo'[q] = todo[q]

ApprovalsStand ==
  \A r \in Requests : requestStatus[r] = "approved" => requestStatus'[r] = "approved"

\* Nothing that has started is touched, and the process comes to no statement
\* of an execution.
Aside(p) ==
  /\ leaseStatus' = leaseStatus /\ overdue' = overdue
  /\ ApprovalsStand
  /\ \A a \in started : RowStands(a)
  /\ OthersStand(p)
  /\ todo'[p] \subseteq todo[p]
  /\ pc'[p] \notin StartedPoints

LEMMA StandingSettled ==
  ASSUME NEW a \in Actions, RowStands(a)
  PROVE  Settled(a)' <=> Settled(a)
BY DEF RowStands, Settled

LEMMA StandingCovered ==
  ASSUME TypeOK, NEW a \in Actions, RowStands(a), ApprovalsStand, Covered(a)
  PROVE  Covered(a)'
BY DEF RowStands, Covered, ApprovalsStand, TypeOK, TablesTypeOK

\* Rows and leases that stand tell a process that stays what they told it.
LEMMA StayingFinishes ==
  ASSUME TypeOK, RowsKnown, ApprovalsStand, NEW q \in Processes, Finishes(q),
         pc'[q] = pc[q], cur'[q] = cur[q], seen'[q] = seen[q], outcome'[q] = outcome[q],
         todo'[q] = todo[q],
         pc[q] \in StartedPoints => RowStands(cur[q]) /\ LeaseStands(cur[q]),
         q \in Supervisors => \A a \in todo[q] : RowStands(a) /\ LeaseStands(a)
  PROVE  Finishes(q)'
<1> USE DEF StartedPoints, WorkPoints, LeasePoints, RecoveryPoints, LeasedPoints, FinishPoints
<1>1. pc[q] \in StartedPoints => cur[q] \in Actions
  BY RowAtHand DEF ActionPoints, ExecutePoints
<1>2. pc[q] \in StartedPoints => (Settled(cur[q])' <=> Settled(cur[q]))
  BY <1>1, StandingSettled DEF Settled
<1>3. pc[q] \in StartedPoints /\ Covered(cur[q]) => Covered(cur[q])'
  BY <1>1, StandingCovered DEF Covered
<1>4. q \in Supervisors => \A a \in todo[q] : a \in Actions /\ (Settled(a)' <=> Settled(a))
  BY StandingSettled DEF TypeOK, ProcessesTypeOK
<1>5. ExecutorFinishes(q) => ExecutorFinishes(q)'
  BY <1>2, <1>3 DEF ExecutorFinishes, RowStands, LeaseStands
<1>6. q \in Supervisors /\ SupervisorFinishes(q) => SupervisorFinishes(q)'
  BY <1>2, <1>4 DEF SupervisorFinishes, RowStands, LeaseStands
<1> QED
  BY <1>5, <1>6 DEF Finishes, RowStands

\* A process that stands aside leaves what the others know.
LEMMA AsideKeepsOutcomes ==
  ASSUME TypeOK, RowsKnown, OutcomeKnown, NEW p \in Processes, Aside(p)
  PROVE  OutcomeKnown'
<1>1. ASSUME NEW a \in Actions PROVE LeaseFinds(a)'
  <2>1. leaseStatus[a] # "none" => RowStands(a)
    BY DEF RowsKnown, Aside
  <2> QED
    BY <2>1, StandingSettled, StandingCovered DEF OutcomeKnown, LeaseFinds, Aside
<1>2. ASSUME NEW q \in Processes, q # p PROVE Finishes(q)'
  <2>1. pc[q] \in StartedPoints => RowStands(cur[q]) /\ LeaseStands(cur[q])
    BY DEF RowsKnown, Aside, LeaseStands
  <2>2. \A a \in todo[q] : RowStands(a) /\ LeaseStands(a)
    BY DEF RowsKnown, Aside, LeaseStands
  <2> QED
    BY <1>2, <2>1, <2>2, StayingFinishes DEF OutcomeKnown, Aside, OthersStand
<1>3. Finishes(p)'
  <2>1. ExecutorFinishes(p)'
    BY DEF ExecutorFinishes, Aside, StartedPoints, WorkPoints, LeasePoints, RecoveryPoints,
           LeasedPoints, FinishPoints
  <2>2. p \in Supervisors => SupervisorFinishes(p)'
    <3> SUFFICES ASSUME p \in Supervisors PROVE SupervisorFinishes(p)'
      OBVIOUS
    <3>1. pc'[p] \notin RecoveryPoints
      BY DEF Aside, StartedPoints
    <3>2. ASSUME NEW a \in todo'[p] PROVE leaseStatus'[a] = "expired" /\ Settled(a)'
      <4>1. a \in todo[p] /\ a \in Actions /\ a \in started
        BY DEF Aside, TypeOK, ProcessesTypeOK, RowsKnown
      <4>2. RowStands(a)
        BY <4>1 DEF Aside
      <4> QED
        BY <4>1, <4>2, StandingSettled DEF OutcomeKnown, Finishes, SupervisorFinishes, Aside
    <3> QED
      BY <3>1, <3>2 DEF SupervisorFinishes
  <2>3. pc'[p] \notin {"recoverRun", "recoverAction"}
    BY DEF Aside, StartedPoints, RecoveryPoints
  <2> QED
    BY <2>1, <2>2, <2>3 DEF Finishes
<1>4. InOneHand'
  BY DEF InOneHand, OutcomeKnown, Aside, OthersStand, Processes
<1> QED
  BY <1>1, <1>2, <1>3, <1>4 DEF OutcomeKnown

\* The process writes no row and no lease but its own.
HandlesOwn(p) ==
  /\ \A a \in Actions \ {cur[p]} : RowStands(a) /\ LeaseStands(a)
  /\ ApprovalsStand
  /\ OthersStand(p)
  /\ todo'[p] \subseteq todo[p]
  /\ pc'[p] \in StartedPoints => cur'[p] = cur[p]

\* No other process is at its action.
HasInHand(p) ==
  /\ \A s \in Supervisors : cur[p] \notin todo[s]
  /\ \A q \in Processes \ {p} : pc[q] \in StartedPoints => cur[q] # cur[p]

\* Then it is enough that it leaves its own row right.
LEMMA HandlingKeepsOutcomes ==
  ASSUME TypeOK, RowsKnown, OutcomeKnown, NEW p \in Processes, HandlesOwn(p), HasInHand(p),
         NEW own \in Actions, own = cur[p], LeaseFinds(own)', Finishes(p)'
  PROVE  OutcomeKnown'
<1>1. ASSUME NEW a \in Actions PROVE LeaseFinds(a)'
  <2>1. CASE a = own
    BY <2>1
  <2>2. CASE a # own
    BY <2>2, StandingSettled, StandingCovered DEF OutcomeKnown, LeaseFinds, HandlesOwn, LeaseStands
  <2> QED
    BY <2>1, <2>2
<1>2. ASSUME NEW q \in Processes, q # p PROVE Finishes(q)'
  <2>1. pc[q] \in StartedPoints => RowStands(cur[q]) /\ LeaseStands(cur[q])
    BY <1>2, RowAtHand
       DEF HandlesOwn, HasInHand, StartedPoints, ActionPoints, ExecutePoints
  <2>2. q \in Supervisors => \A a \in todo[q] : RowStands(a) /\ LeaseStands(a)
    BY <1>2 DEF HandlesOwn, HasInHand, TypeOK, ProcessesTypeOK
  <2> QED
    BY <1>2, <2>1, <2>2, StayingFinishes DEF OutcomeKnown, HandlesOwn, OthersStand
<1>3. InOneHand'
  BY DEF InOneHand, OutcomeKnown, HandlesOwn, HasInHand, OthersStand, Processes
<1> QED
  BY <1>1, <1>2, <1>3 DEF OutcomeKnown

StandingAside(p) ==
  \/ PlanBlocked(p) \/ PlanAction(p) \/ FinishTurn(p) \/ DenyAtCap(p)
  \/ EscalateAtCap(p) \/ LookUpRequest(p) \/ CountPending(p) \/ CreateRequest(p)
  \/ CreateRefused(p) \/ AttachRequest(p) \/ PromptForApproval(p) \/ FindAction(p)
  \/ SyncAction(p) \/ SyncRefused(p) \/ RecheckFails(p) \/ InsertExecution(p)
  \/ LeaseLost(p) \/ FinishSupervision(p) \/ AnswerRequest(p) \/ Crash(p)

\* Until it starts an action, a process keeps to rows that have not started.
LEMMA AsideSteps ==
  ASSUME TypeOK, RowsKnown, Consent, NotStarted, NEW p \in Processes, StandingAside(p)
  PROVE  Aside(p)
<1> USE KindsOfProcesses
    DEF TypeOK, TablesTypeOK, ProcessesTypeOK, RowsKnown, Consent, TurnsKnow, ResolversKnow,
        NotStarted, Aside, RowStands, OthersStand, ApprovalsStand, StartedPoints, BeforeRequest,
        ActionPoints, RequestPoints, TurnPoints, ResolverPoints, SupervisorPoints, RoutePoints,
        ResolvePoints, WorkPoints, LeasePoints, RecoveryPoints, ExecutePoints, At, Goto,
        approvalVars, rowVars, statusVars, recordVars, leaseVars, procVars
<1>1. CASE PlanBlocked(p)
  BY <1>1 DEF PlanBlocked, InsertAction
<1>2. CASE PlanAction(p)
  BY <1>2 DEF PlanAction, InsertAction, AfterPlanning
<1>3. CASE FinishTurn(p)
  BY <1>3 DEF FinishTurn, Leave, Forget
<1>4. CASE DenyAtCap(p)
  BY <1>4 DEF DenyAtCap, Forget, MarkUnfinished, SetAction
<1>5. CASE EscalateAtCap(p)
  BY <1>5 DEF EscalateAtCap, MarkUnfinished, SetAction
<1>6. CASE LookUpRequest(p)
  BY <1>6 DEF LookUpRequest
<1>7. CASE CountPending(p)
  BY <1>7 DEF CountPending, Leave, Forget
<1>8. CASE CreateRequest(p)
  BY <1>8 DEF CreateRequest, InsertRequest
<1>9. CASE CreateRefused(p)
  BY <1>9 DEF CreateRefused, Leave, Forget
<1>10. CASE AttachRequest(p)
  BY <1>10 DEF AttachRequest
<1>11. CASE PromptForApproval(p)
  BY <1>11 DEF PromptForApproval, Leave, Forget
<1>12. CASE FindAction(p)
  BY <1>12 DEF FindAction, Leave, Forget
<1>13. CASE SyncAction(p)
  BY <1>13 DEF SyncAction, Leave, Forget, MarkUnfinished, SetAction
<1>14. CASE SyncRefused(p)
  BY <1>14 DEF SyncRefused, Leave, Forget
<1>15. CASE RecheckFails(p)
  BY <1>15 DEF RecheckFails, Leave, Forget, AfterExecution, SetAction
<1>16. CASE InsertExecution(p)
  BY <1>16 DEF InsertExecution, SetExecution
<1>17. CASE LeaseLost(p)
  BY <1>17 DEF LeaseLost, Leave, Forget
<1>18. CASE FinishSupervision(p)
  BY <1>18 DEF FinishSupervision, Leave, Forget
<1>19. CASE AnswerRequest(p)
  BY <1>19 DEF AnswerRequest, ResolveRequest
<1>20. CASE Crash(p)
  BY <1>20 DEF Crash, Leave, Forget
<1> HIDE DEF TypeOK, Aside
<1> QED
  BY <1>1, <1>2, <1>3, <1>4, <1>5, <1>6, <1>7, <1>8, <1>9, <1>10, <1>11, <1>12, <1>13, <1>14,
     <1>15, <1>16, <1>17, <1>18, <1>19, <1>20
     DEF StandingAside

\* What a process that handles a row writes is right about that row.
LEMMA StandingHand ==
  ASSUME OutcomeKnown, NEW p \in Processes, pc[p] \in StartedPoints
  PROVE  HasInHand(p)
BY DEF OutcomeKnown, InOneHand, HasInHand

Handling(p) ==
  \/ AcquireLease(p) \/ RecordRun(p) \/ StartRun(p) \/ Work(p)
  \/ WorkErrors(p) \/ FinishExecution(p) \/ FinishRun(p) \/ FinishAction(p)
  \/ CheckLease(p) \/ ReleaseLease(p) \/ ReleaseAfterError(p) \/ TerminateLease(p)
  \/ LoadContext(p) \/ RecoverRun(p) \/ RecoverAction(p)

LEMMA HandlingSteps ==
  ASSUME TypeOK, RowsKnown, OutcomeKnown, NEW p \in Processes, Handling(p),
         NEW own \in Actions, own = cur[p]
  PROVE  /\ pc[p] \in StartedPoints
         /\ HandlesOwn(p) /\ LeaseFinds(own)' /\ Finishes(p)'
<1>0. LeaseFinds(own) /\ Finishes(p)
  BY DEF OutcomeKnown
<1> USE <1>0, KindsOfProcesses
    DEF TypeOK, TablesTypeOK, ProcessesTypeOK, LeaseFinds, Finishes, ExecutorFinishes,
        SupervisorFinishes, Covered, Settled, HandlesOwn, RowStands, LeaseStands, OthersStand,
        ApprovalsStand, StartedPoints, LeasedPoints, FinishPoints, WorkPoints, LeasePoints,
        RecoveryPoints, ExecutePoints, ActionPoints, TurnPoints, ResolverPoints,
        SupervisorPoints, RoutePoints, ResolvePoints, At, Goto, approvalVars, rowVars,
        statusVars, recordVars, leaseVars, procVars
<1>1. CASE AcquireLease(p)
  BY <1>1 DEF AcquireLease, SetLease
<1>2. CASE RecordRun(p)
  BY <1>2 DEF RecordRun, SetRun
<1>3. CASE StartRun(p)
  BY <1>3 DEF StartRun, SetRun
<1>4. CASE Work(p)
  <2>1. PICK o \in OutcomesOf(Kind(own)) : outcome' = [outcome EXCEPT ![p] = o]
    BY <1>4 DEF Work
  <2>2. o \in RunEnded
    BY Zenon DEF OutcomesOf, RunEnded
  <2> QED
    BY <1>4, <2>1, <2>2 DEF Work
<1>5. CASE WorkErrors(p)
  BY <1>5 DEF WorkErrors
<1>6. CASE FinishExecution(p)
  BY <1>6 DEF FinishExecution, SetExecution, RecordOf
<1>7. CASE FinishRun(p)
  BY <1>7 DEF FinishRun, SetRun
<1>8. CASE FinishAction(p)
  <2>1. /\ execStatus[own] = RecordOf(outcome[p])
        /\ execStatus[own] \in {"completed", "failed", "blocked"}
        /\ FinalStatus(execStatus[own]) = FinalStatus(outcome[p])
    BY <1>8, RecordSaysFinal DEF FinishAction
  <2> QED
    BY <1>8, <2>1 DEF FinishAction, SetAction
<1>9. CASE CheckLease(p)
  BY <1>9 DEF CheckLease
<1>10. CASE ReleaseLease(p)
  BY <1>10 DEF ReleaseLease, ReleaseIfActive, SetLease, AfterExecution, Leave, Forget
<1>11. CASE ReleaseAfterError(p)
  BY <1>11 DEF ReleaseAfterError, ReleaseIfActive, SetLease, Leave, Forget
<1>12. CASE TerminateLease(p)
  BY <1>12 DEF TerminateLease, SetLease
<1>13. CASE LoadContext(p)
  <2>1. own \in completed => Verdict(own) = actionStatus[own]
    BY <1>13, VerdictRepeats DEF LoadContext
  <2>2. CASE Verdict(own) = "absent"
    BY <1>13, <2>2 DEF LoadContext, AfterRecovery, AfterExecution, Leave, Forget
  <2>3. CASE Verdict(own) # "absent"
    BY <1>13, <2>1, <2>3 DEF LoadContext
  <2> QED
    BY <2>2, <2>3
<1>14. CASE RecoverRun(p)
  BY <1>14 DEF RecoverRun, SetRun
<1>15. CASE RecoverAction(p)
  <2>1. p \in Supervisors => own \notin todo[p]
    BY <1>15, StandingHand DEF RecoverAction, HasInHand
  <2> QED
    BY <1>15, <2>1 DEF RecoverAction, SetAction, AfterRecovery, AfterExecution, Leave, Forget
<1> HIDE DEF TypeOK, HandlesOwn, LeaseFinds, Finishes
<1> QED
  BY <1>1, <1>2, <1>3, <1>4, <1>5, <1>6, <1>7, <1>8, <1>9, <1>10, <1>11, <1>12, <1>13, <1>14, <1>15
     DEF Handling

\* A start is of a row nobody else is at: it has not been started.
LEMMA StartKeepsOutcomes ==
  ASSUME TypeOK, RowsKnown, Consent, NotStarted, OutcomeKnown, NEW p \in Processes, StartAction(p)
  PROVE  OutcomeKnown'
<1> USE KindsOfProcesses
<1>0. PICK own \in Actions : own = cur[p]
  BY RowAtHand DEF StartAction, At, ActionPoints, ExecutePoints, WorkPoints
<1>1. p \in Executors /\ p \notin Supervisors
  BY DEF StartAction, At, TypeOK, ProcessesTypeOK, ActionPoints, SupervisorPoints, ExecutePoints,
         WorkPoints, RecoveryPoints
<1>2. own \notin started
  <2>1. CASE p \in Turns
    BY <1>0, <2>1 DEF StartAction, At, NotStarted
  <2>2. CASE p \in Resolvers
    BY <1>0, <1>1, <2>2
       DEF StartAction, At, NotStarted, Consent, ResolversKnow, ExecutePoints, WorkPoints
  <2> QED
    BY <1>0, <1>1, <2>1, <2>2
<1>3. requestOf[own] # None => requestStatus[requestOf[own]] = "approved"
  <2>1. CASE p \in Turns
    BY <1>0, <2>1 DEF StartAction, At, Consent, TurnsKnow, ExecutePoints, WorkPoints
  <2>2. CASE p \in Resolvers
    BY <1>0, <1>1, <2>2 DEF StartAction, At, Consent, ResolversKnow, ExecutePoints, WorkPoints
  <2> QED
    BY <1>0, <1>1, <2>1, <2>2
<1>4. HasInHand(p)
  BY <1>0, <1>2 DEF HasInHand, RowsKnown, Processes
<1>5. leaseStatus[own] = "none" /\ own \notin completed /\ own \notin overdue
  BY <1>0, <1>1, <1>2 DEF RowsKnown, TypeOK, TablesTypeOK
<1>6. HandlesOwn(p) /\ LeaseFinds(own)' /\ Finishes(p)'
  BY <1>0, <1>1, <1>3, <1>5
     DEF StartAction, MarkUnfinished, SetAction, Goto, HandlesOwn, LeaseFinds, Finishes,
         ExecutorFinishes, Covered, RowStands, LeaseStands, OthersStand, ApprovalsStand,
         StartedPoints, LeasedPoints, FinishPoints, WorkPoints, LeasePoints, RecoveryPoints,
         TypeOK, TablesTypeOK, ProcessesTypeOK, approvalVars, recordVars, leaseVars
<1> QED
  BY <1>0, <1>1, <1>4, <1>6, HandlingKeepsOutcomes

\* A lease that falls due is of an action no executor is at.
LEMMA DueKeepsOutcomes ==
  ASSUME LeaseOutlivesWork, TypeOK, OutcomeKnown, NEW a \in Actions, LeaseTimePasses(a)
  PROVE  OutcomeKnown'
<1> USE DEF LeaseTimePasses, approvalVars, rowVars, statusVars, recordVars, procVars
<1>1. ASSUME NEW b \in Actions PROVE LeaseFinds(b)'
  BY DEF OutcomeKnown, LeaseFinds, Covered, Settled
<1>2. ASSUME NEW p \in Processes PROVE Finishes(p)'
  BY DEF OutcomeKnown, Finishes, ExecutorFinishes, SupervisorFinishes, Covered, Settled
<1>3. InOneHand'
  BY DEF OutcomeKnown, InOneHand
<1> QED
  BY <1>1, <1>2, <1>3 DEF OutcomeKnown

\* So a supervisor expires no lease of an action somebody has in hand.
LEMMA ExpiryKeepsOutcomes ==
  ASSUME TypeOK, OutcomeKnown, NEW p \in Processes, ExpireDueLeases(p)
  PROVE  OutcomeKnown'
<1> USE KindsOfProcesses DEF ExpireDueLeases, At, approvalVars, rowVars, statusVars, recordVars
<1>0. /\ pc \in [Processes -> ProgramPoints] /\ todo \in [Processes -> SUBSET Actions]
      /\ leaseStatus \in [Actions -> {"none", "active", "released", "expired", "terminated"}]
      /\ overdue \subseteq {a \in Actions : leaseStatus[a] = "active"}
  BY DEF TypeOK, TablesTypeOK, ProcessesTypeOK
<1>1. ASSUME NEW a \in Actions PROVE LeaseFinds(a)'
  BY <1>0 DEF OutcomeKnown, LeaseFinds, Covered, Settled
<1>2. ASSUME NEW q \in Processes PROVE Finishes(q)'
  <2>1. pc[q] \in StartedPoints => cur[q] \in Actions
    BY RowAtHand DEF TypeOK, ProcessesTypeOK, StartedPoints, WorkPoints, ActionPoints, ExecutePoints
  <2>2. pc'[q] \in StartedPoints => pc'[q] = pc[q] /\ q # p
    BY <1>0 DEF StartedPoints, WorkPoints, LeasePoints, RecoveryPoints
  <2>3. q \in Executors => ExecutorFinishes(q)'
    BY <1>0, <2>1, <2>2
       DEF OutcomeKnown, Finishes, ExecutorFinishes, StartedPoints, WorkPoints, LeasePoints,
           RecoveryPoints, LeasedPoints, FinishPoints, Covered, Settled
  <2>4. q \in Supervisors => SupervisorFinishes(q)'
    <3>1. CASE q = p
      BY <1>0, <3>1 DEF OutcomeKnown, LeaseFinds, SupervisorFinishes, Settled, RecoveryPoints
    <3>2. CASE q # p
      BY <1>0, <2>1, <3>2
         DEF OutcomeKnown, Finishes, SupervisorFinishes, Settled, StartedPoints
    <3> QED
      BY <3>1, <3>2
  <2>5. pc'[q] \in {"recoverRun", "recoverAction"} /\ cur'[q] \in completed' =>
          seen'[q] = actionStatus'[cur'[q]]
    BY <2>2 DEF OutcomeKnown, Finishes, StartedPoints, RecoveryPoints
  <2> QED
    BY <2>3, <2>4, <2>5 DEF Finishes
<1>3. InOneHand'
  <2>1. ASSUME NEW q \in Processes, pc[q] \in StartedPoints PROVE cur[q] \notin overdue
    BY <1>0, <2>1
       DEF OutcomeKnown, Finishes, ExecutorFinishes, SupervisorFinishes, TypeOK, ProcessesTypeOK,
           StartedPoints, SupervisorPoints, WorkPoints, LeasePoints, RecoveryPoints
  <2>2. \A q \in Processes : pc'[q] \in StartedPoints => pc[q] \in StartedPoints
    BY <1>0 DEF StartedPoints, WorkPoints, LeasePoints, RecoveryPoints
  <2>3. \A s \in Supervisors : \A a \in todo[s] : a \notin overdue
    BY <1>0 DEF OutcomeKnown, Finishes, SupervisorFinishes
  <2>4. todo' = [todo EXCEPT ![p] = overdue] /\ cur' = cur
    OBVIOUS
  <2>5. \A s \in Processes : s # p => todo'[s] = todo[s]
    BY <1>0
  <2>6. todo'[p] = overdue /\ cur' = cur
    BY <1>0
  <2> HIDE DEF ExpireDueLeases
  <2>7. \A s, t \in Supervisors : s # t => todo'[s] \cap todo'[t] = {}
    BY <2>3, <2>5, <2>6 DEF OutcomeKnown, InOneHand
  <2>8. \A s \in Supervisors, q \in Processes : pc'[q] \in StartedPoints => cur'[q] \notin todo'[s]
    BY <2>1, <2>2, <2>5, <2>6 DEF OutcomeKnown, InOneHand
  <2>9. \A q, r \in Processes :
          q # r /\ pc'[q] \in StartedPoints /\ pc'[r] \in StartedPoints => cur'[q] # cur'[r]
    BY <2>2, <2>6 DEF OutcomeKnown, InOneHand
  <2> QED
    BY <2>7, <2>8, <2>9 DEF InOneHand
<1> QED
  BY <1>1, <1>2, <1>3 DEF OutcomeKnown

\* A supervisor takes up one of the actions it keeps for recovery.
LEMMA TakingKeepsOutcomes ==
  ASSUME TypeOK, RowsKnown, OutcomeKnown, NEW p \in Processes, TakeExpiredLease(p)
  PROVE  OutcomeKnown'
<1> USE KindsOfProcesses
<1>1. PICK a \in todo[p] : /\ cur' = [cur EXCEPT ![p] = a]
                           /\ todo' = [todo EXCEPT ![p] = @ \ {a}]
  BY DEF TakeExpiredLease
<1>2. /\ pc[p] = "expired" /\ pc' = [pc EXCEPT ![p] = "loadContext"]
      /\ UNCHANGED <<seen, outcome, requestStatus, rowVars, statusVars, recordVars, leaseVars>>
  BY DEF TakeExpiredLease, At, approvalVars
<1>3. /\ p \in Supervisors /\ p \notin Executors /\ a \in Actions
      /\ pc \in [Processes -> ProgramPoints] /\ cur \in [Processes -> Actions \cup {None}]
      /\ todo \in [Processes -> SUBSET Actions]
  BY <1>1, <1>2
     DEF TypeOK, ProcessesTypeOK, TurnPoints, ResolverPoints, RoutePoints, ResolvePoints,
         ExecutePoints, WorkPoints, LeasePoints, RecoveryPoints
<1>4. /\ pc'[p] = "loadContext" /\ cur'[p] = a /\ todo'[p] = todo[p] \ {a}
      /\ OthersStand(p)
      /\ UNCHANGED <<execStatus, actionStatus, completed, leaseStatus, overdue, link, requestOf>>
  BY <1>1, <1>2, <1>3 DEF OthersStand, rowVars, statusVars, recordVars, leaseVars
<1>5. ASSUME NEW b \in Actions PROVE LeaseFinds(b)'
  BY <1>2, <1>4 DEF OutcomeKnown, LeaseFinds, Covered, Settled
<1>6. ASSUME NEW q \in Processes, q # p PROVE Finishes(q)'
  BY <1>2, <1>4, <1>6, StayingFinishes
     DEF OutcomeKnown, OthersStand, ApprovalsStand, RowStands, LeaseStands
<1>7. Finishes(p)'
  <2>1. \A b \in todo[p] : leaseStatus[b] = "expired" /\ Settled(b)
    BY <1>3 DEF OutcomeKnown, Finishes, SupervisorFinishes
  <2>2. \A b \in todo[p] : leaseStatus'[b] = "expired" /\ Settled(b)'
    BY <1>4, <2>1 DEF Settled
  <2>3. Settled(cur[p])' /\ leaseStatus'[cur'[p]] = "expired"
    BY <1>1, <1>4, <2>1 DEF Settled
  <2> QED
    BY <1>3, <1>4, <2>2, <2>3 DEF Finishes, SupervisorFinishes
<1>8. InOneHand'
  <2>1. \A s \in Supervisors : todo'[s] \subseteq todo[s] /\ a \notin todo'[s]
    BY <1>1, <1>3, <1>4 DEF OthersStand, OutcomeKnown, InOneHand, Processes
  <2>2. \A q \in Processes \ {p} :
          pc'[q] \in StartedPoints => pc[q] \in StartedPoints /\ cur'[q] = cur[q] /\ cur[q] # a
    BY <1>1, <1>3, <1>4 DEF OthersStand, OutcomeKnown, InOneHand
  <2>3. \A s, t \in Supervisors : s # t => todo'[s] \cap todo'[t] = {}
    BY <2>1 DEF OutcomeKnown, InOneHand
  <2>4. \A s \in Supervisors, q \in Processes : pc'[q] \in StartedPoints => cur'[q] \notin todo'[s]
    BY <1>4, <2>1, <2>2 DEF OutcomeKnown, InOneHand
  <2>5. \A q, r \in Processes :
          q # r /\ pc'[q] \in StartedPoints /\ pc'[r] \in StartedPoints => cur'[q] # cur'[r]
    BY <1>4, <2>2 DEF OutcomeKnown, InOneHand
  <2> QED
    BY <2>3, <2>4, <2>5 DEF InOneHand
<1> QED
  BY <1>5, <1>6, <1>7, <1>8 DEF OutcomeKnown

\* Every step is one of these.
LEMMA StepsOfOutcomes ==
  ASSUME [Next]_vars
  PROVE  \/ \E p \in Processes :
              \/ StandingAside(p) \/ StartAction(p) \/ Handling(p)
              \/ ExpireDueLeases(p) \/ TakeExpiredLease(p)
         \/ \E a \in Actions : LeaseTimePasses(a)
         \/ /\ UNCHANGED <<rowVars, statusVars, recordVars, leaseVars, procVars>>
            /\ ApprovalsStand
<1>1. CASE UNCHANGED vars
  BY <1>1 DEF vars, approvalVars, ApprovalsStand
<1>2. ASSUME NEW r \in Requests, RequestTimePasses(r),
             UNCHANGED <<rowVars, statusVars, recordVars, leaseVars, procVars, others>>
      PROVE  /\ UNCHANGED <<rowVars, statusVars, recordVars, leaseVars, procVars>>
             /\ ApprovalsStand
  BY <1>2 DEF RequestTimePasses, ApprovalsStand
<1>3. ASSUME NEW p \in Processes, Step(p) \/ AnswerRequest(p) \/ Crash(p)
      PROVE  \/ StandingAside(p) \/ StartAction(p) \/ Handling(p)
             \/ ExpireDueLeases(p) \/ TakeExpiredLease(p)
  BY <1>3, Zenon
     DEF Step, PlanningStep, RoutingStep, SyncStep, ExecutionStep, LeaseStep, RecoveryStep,
         StandingAside, Handling
<1> QED
  BY <1>1, <1>2, <1>3 DEF Next

LEMMA OutcomesStep ==
  ASSUME LeaseOutlivesWork, TypeOK, RowsKnown, Consent, NotStarted, OutcomeKnown, [Next]_vars
  PROVE  OutcomeKnown'
<1>1. ASSUME NEW p \in Processes, StandingAside(p) PROVE OutcomeKnown'
  BY <1>1, AsideSteps, AsideKeepsOutcomes
<1>2. ASSUME NEW p \in Processes, Handling(p) PROVE OutcomeKnown'
  <2>1. PICK own \in Actions : own = cur[p]
    BY <1>2, RowAtHand
       DEF Handling, AcquireLease, RecordRun, StartRun, Work, WorkErrors, FinishExecution,
           FinishRun,
           FinishAction, CheckLease, ReleaseLease, ReleaseAfterError, TerminateLease, LoadContext,
           RecoverRun, RecoverAction, At, ActionPoints, ExecutePoints, WorkPoints, LeasePoints,
           RecoveryPoints
  <2>2. pc[p] \in StartedPoints /\ HandlesOwn(p) /\ LeaseFinds(own)' /\ Finishes(p)'
    BY <1>2, <2>1, HandlingSteps
  <2> QED
    BY <2>1, <2>2, StandingHand, HandlingKeepsOutcomes
<1>3. CASE /\ UNCHANGED <<rowVars, statusVars, recordVars, leaseVars, procVars>>
           /\ ApprovalsStand
  <2>1. /\ \A a \in Actions : RowStands(a) /\ LeaseStands(a)
        /\ UNCHANGED <<pc, cur, seen, outcome, todo>>
    BY <1>3 DEF RowStands, LeaseStands, rowVars, statusVars, recordVars, leaseVars, procVars
  <2>2. ASSUME NEW a \in Actions PROVE LeaseFinds(a)'
    BY <1>3, <2>1, StandingSettled, StandingCovered DEF OutcomeKnown, LeaseFinds, LeaseStands
  <2>3. ASSUME NEW p \in Processes PROVE Finishes(p)'
    <3>1. pc[p] \in StartedPoints => cur[p] \in Actions
      BY RowAtHand DEF StartedPoints, ActionPoints, ExecutePoints
    <3>2. todo[p] \subseteq Actions
      BY DEF TypeOK, ProcessesTypeOK
    <3> QED
      BY <1>3, <2>1, <3>1, <3>2, StayingFinishes DEF OutcomeKnown
  <2>4. InOneHand'
    BY <2>1 DEF OutcomeKnown, InOneHand
  <2> QED
    BY <2>2, <2>3, <2>4 DEF OutcomeKnown
<1> QED
  BY <1>1, <1>2, <1>3, StartKeepsOutcomes, DueKeepsOutcomes, ExpiryKeepsOutcomes,
     TakingKeepsOutcomes, StepsOfOutcomes

\* The row of a completed action is written by its recovery alone, which says
\* what the row says.
LEMMA CompletedRowsStand ==
  ASSUME TypeOK, RowsKnown, Consent, NotStarted, OutcomeKnown, [Next]_vars,
         NEW a \in completed
  PROVE  actionStatus'[a] = actionStatus[a]
<1>0. a \in started /\ a \in Actions
  BY DEF TypeOK, TablesTypeOK
<1>1. ASSUME NEW p \in Processes, StandingAside(p) PROVE actionStatus'[a] = actionStatus[a]
  BY <1>0, <1>1, AsideSteps DEF Aside, RowStands
<1>2. ASSUME NEW p \in Processes, StartAction(p) PROVE actionStatus'[a] = actionStatus[a]
  <2>1. cur[p] \notin started
    BY <1>2, KindsOfProcesses
       DEF StartAction, At, NotStarted, Consent, ResolversKnow, TypeOK, ProcessesTypeOK,
           SupervisorPoints, ActionPoints, ExecutePoints, WorkPoints, RecoveryPoints
  <2> QED
    BY <1>0, <1>2, <2>1 DEF StartAction, MarkUnfinished, SetAction, TypeOK, TablesTypeOK
<1>3. ASSUME NEW p \in Processes, Handling(p) PROVE actionStatus'[a] = actionStatus[a]
  <2>1. CASE FinishAction(p)
    <3>1. cur[p] \notin completed
      BY <2>1, KindsOfProcesses
         DEF FinishAction, At, OutcomeKnown, Finishes, ExecutorFinishes, LeasedPoints, TypeOK,
             ProcessesTypeOK, SupervisorPoints, RecoveryPoints
    <3> QED
      BY <1>0, <2>1, <3>1 DEF FinishAction, SetAction, TypeOK, TablesTypeOK
  <2>2. CASE RecoverAction(p)
    <3>1. cur[p] = a => seen[p] = actionStatus[a]
      BY <2>2 DEF RecoverAction, At, OutcomeKnown, Finishes
    <3> QED
      BY <1>0, <2>2, <3>1 DEF RecoverAction, SetAction, TypeOK, TablesTypeOK
  <2>3. CASE ~FinishAction(p) /\ ~RecoverAction(p)
    BY <1>3, <2>3
       DEF Handling, AcquireLease, RecordRun, StartRun, Work, WorkErrors, FinishExecution,
           FinishRun,
           CheckLease, ReleaseLease, ReleaseAfterError, TerminateLease, LoadContext, RecoverRun,
           statusVars
  <2> QED
    BY <2>1, <2>2, <2>3
<1>4. ASSUME NEW p \in Processes, ExpireDueLeases(p) \/ TakeExpiredLease(p)
      PROVE  actionStatus'[a] = actionStatus[a]
  BY <1>4 DEF ExpireDueLeases, TakeExpiredLease, statusVars
<1>5. ASSUME NEW b \in Actions, LeaseTimePasses(b) PROVE actionStatus'[a] = actionStatus[a]
  BY <1>5 DEF LeaseTimePasses, statusVars
<1> QED
  BY <1>1, <1>2, <1>3, <1>4, <1>5, StepsOfOutcomes DEF statusVars

\* Where no lease expires under a live executor, what became of an action is
\* decided once: whatever fails, and however many supervisors and operators there
\* are, a recovery repeats what the executor wrote, and no executor writes after a
\* recovery.
THEOREM OutcomesAreFinal ==
  ASSUME LeaseOutlivesWork
  PROVE  Spec => FinishedIsFinal
<1>1. Init => NotStarted /\ OutcomeKnown
  BY KindsOfProcesses, GovernedActionsAssumption
     DEF Init, NotStarted, OutcomeKnown, LeaseFinds, Finishes, ExecutorFinishes,
         SupervisorFinishes, InOneHand, ResolvePoints, BeforeRequest, StartedPoints, WorkPoints,
         LeasePoints, RecoveryPoints, LeasedPoints, FinishPoints
<1>2. Spec => []Consent
  <2>1. ConsentInvariant => Consent
    BY DEF ConsentInvariant, Consent
  <2> QED
    BY <2>1, ConsentIsKept, PTL
<1>3. TypeOK /\ RowsKnown /\ Consent /\ NotStarted /\ OutcomeKnown /\ [Next]_vars
        => (NotStarted /\ OutcomeKnown)'
  BY NotStartedStep, OutcomesStep
<1>4. TypeOK /\ RowsKnown /\ Consent /\ NotStarted /\ OutcomeKnown /\ [Next]_vars
        => [\A a \in completed : actionStatus'[a] = actionStatus[a]]_vars
  BY CompletedRowsStand
<1> QED
  BY <1>1, <1>2, <1>3, <1>4, TypeCorrect, PTL DEF Spec, FinishedIsFinal

-----------------------------------------------------------------------------
(* What the turns do without asking anybody is within their caps. *)

Unasked == {a \in Performed : requestOf[a] = None}

\* A turn that executes is below its cap, and what was blocked was not done.
CapKept(p) ==
  /\ pc[p] \in ExecutePoints => executed[p] < MaxActions
  /\ /\ pc[p] \in {"finishExecution", "finishRun", "finishAction", "checkLease", "release"}
     /\ outcome[p] = "blocked"
     => cur[p] \notin Performed

\* What a turn has used of its cap: an action counts once it is done, though the
\* turn counts it at the end of its execution.  A turn that is over uses no more.
Used(p) ==
  IF pc[p] = "ended" THEN MaxActions
  ELSE IF pc[p] \in ExecutePoints /\ cur[p] \in Performed THEN executed[p] + 1
  ELSE executed[p]

\* Each effect nobody was asked about has a place of its own under a turn's cap.
Places == Turns \X (1 .. MaxActions)
HavePlaces ==
  \E place \in [Unasked -> Places] :
    /\ \A a, b \in Unasked : place[a] = place[b] => a = b
    /\ \A a \in Unasked : place[a][2] <= Used(place[a][1])

CapsKept == (\A p \in Turns : CapKept(p)) /\ HavePlaces

\* A turn gives no place back.
Uses(p) ==
  /\ CapKept(p)'
  /\ Used(p) <= Used(p)' \/ MaxActions <= Used(p)'

TurnTyped ==
  /\ MaxActions \in Nat
  /\ executed \in [Processes -> Nat]
  /\ \A p \in Turns : Used(p) \in Nat

LEMMA UsedTyped == ASSUME TypeOK PROVE TurnTyped
BY GovernedActionsAssumption DEF TypeOK, ProcessesTypeOK, Used, TurnTyped, Processes, Executors

\* What others do is not a turn's own action.
LEMMA OthersUse ==
  ASSUME TypeOK, NEW p \in Turns, CapKept(p),
         pc'[p] = pc[p], cur'[p] = cur[p], outcome'[p] = outcome[p], executed'[p] = executed[p],
         Performed \subseteq Performed',
         pc[p] \in ExecutePoints /\ cur[p] \in Performed' => cur[p] \in Performed
  PROVE  Uses(p)
<1>1. Used(p) \in Nat /\ Used(p)' = Used(p)
  BY UsedTyped DEF TurnTyped, Used
<1>2. CapKept(p)'
  BY DEF CapKept, ExecutePoints, WorkPoints, LeasePoints
<1> QED
  BY <1>1, <1>2 DEF Uses

\* A turn's step keeps its cap and gives back nothing it used.
LEMMA TurnUses ==
  ASSUME TypeOK, Consent, CapBehavior # "always_approve", NEW p \in Turns, CapKept(p),
         Step(p) \/ Crash(p)
  PROVE  Uses(p)
<1>0. p \in Processes /\ p \notin Resolvers /\ p \notin Supervisors /\ TurnTyped
  BY KindsOfProcesses, UsedTyped
<1>a. pc[p] \in BeforeEffect => cur[p] \notin Performed
  BY <1>0, KindsOfProcesses DEF Consent, EffectsAhead, Performed
<1>b. /\ pc \in [Processes -> ProgramPoints] /\ cur \in [Processes -> Actions \cup {None}]
      /\ outcome \in [Processes -> Outcomes] /\ effects \in [Actions -> 0 .. 2]
      /\ pc[p] \in TurnPoints /\ (pc[p] \in ExecutePoints => cur[p] \in Actions)
  BY <1>0, CursTyped DEF TypeOK, TablesTypeOK, ProcessesTypeOK
<1> USE <1>0, <1>a, <1>b, GovernedActionsAssumption
    DEF TurnTyped, Uses, Used, CapKept, Performed, BeforeEffect, ExecutePoints, WorkPoints,
        LeasePoints, RecoveryPoints, TurnPoints, RoutePoints, At, Goto, procVars, recordVars
<1>1. CASE PlanBlocked(p)
  BY <1>1 DEF PlanBlocked
<1>2. CASE PlanAction(p)
  BY <1>2 DEF PlanAction, AfterPlanning, AtCap
<1>3. CASE FinishTurn(p)
  BY <1>3 DEF FinishTurn, Leave, Forget
<1>4. CASE DenyAtCap(p)
  BY <1>4 DEF DenyAtCap, Forget
<1>5. CASE EscalateAtCap(p)
  BY <1>5 DEF EscalateAtCap
<1>6. CASE LookUpRequest(p)
  BY <1>6 DEF LookUpRequest
<1>7. CASE CountPending(p)
  BY <1>7 DEF CountPending, Leave, Forget
<1>8. CASE CreateRequest(p)
  BY <1>8 DEF CreateRequest
<1>9. CASE CreateRefused(p)
  BY <1>9 DEF CreateRefused, Leave, Forget
<1>10. CASE AttachRequest(p)
  BY <1>10 DEF AttachRequest
<1>11. CASE PromptForApproval(p)
  BY <1>11 DEF PromptForApproval, Leave, Forget
<1>12. CASE RecheckFails(p)
  BY <1>12 DEF RecheckFails, Forget, AfterExecution
<1>13. CASE InsertExecution(p)
  BY <1>13 DEF InsertExecution
<1>14. CASE StartAction(p)
  BY <1>14 DEF StartAction
<1>15. CASE AcquireLease(p)
  BY <1>15 DEF AcquireLease
<1>16. CASE RecordRun(p)
  BY <1>16 DEF RecordRun
<1>17. CASE StartRun(p)
  BY <1>17 DEF StartRun
<1>18. CASE Work(p)
  BY <1>18 DEF Work, CountEffect
<1>19. CASE WorkErrors(p)
  BY <1>19 DEF WorkErrors, CountEffect
<1>20. CASE FinishExecution(p)
  BY <1>20 DEF FinishExecution
<1>21. CASE FinishRun(p)
  BY <1>21 DEF FinishRun
<1>22. CASE FinishAction(p)
  BY <1>22 DEF FinishAction
<1>23. CASE CheckLease(p)
  BY <1>23 DEF CheckLease
<1>24. CASE LeaseLost(p)
  BY <1>24 DEF LeaseLost, Leave, Forget
<1>25. CASE ReleaseLease(p)
  BY <1>25 DEF ReleaseLease, Forget, AfterExecution, FinalStatus
<1>26. CASE ReleaseAfterError(p)
  BY <1>26 DEF ReleaseAfterError, Leave, Forget
<1>27. CASE TerminateLease(p)
  BY <1>27 DEF TerminateLease
<1>28. CASE LoadContext(p)
  BY <1>28 DEF LoadContext, Forget, AfterExecution, AfterRecovery
<1>29. CASE RecoverRun(p)
  BY <1>29 DEF RecoverRun
<1>30. CASE RecoverAction(p)
  BY <1>30 DEF RecoverAction, Forget, AfterExecution, AfterRecovery
<1>31. CASE Crash(p)
  BY <1>31 DEF Crash, Leave, Forget
<1>q. pc[p] \notin ResolvePoints \cup {"idle", "expired"}
  BY DEF ResolvePoints
<1> HIDE DEF Uses, CapKept
<1> QED
  BY <1>q, <1>1, <1>2, <1>3, <1>4, <1>5, <1>6, <1>7, <1>8, <1>9, <1>10, <1>11, <1>12, <1>13,
     <1>14, <1>15, <1>16, <1>17, <1>18, <1>19, <1>20, <1>21, <1>22, <1>23, <1>24, <1>25, <1>26,
     <1>27, <1>28, <1>29, <1>30, <1>31
     DEF Step, PlanningStep, RoutingStep, SyncStep, ExecutionStep, LeaseStep, RecoveryStep,
         FindAction, SyncAction, SyncRefused, ExpireDueLeases, TakeExpiredLease,
         FinishSupervision, ResolvePoints

\* Where a process is with its action, and what a turn has counted.
StaysAt(q) ==
  pc'[q] = pc[q] /\ cur'[q] = cur[q] /\ outcome'[q] = outcome[q] /\ executed'[q] = executed[q]

LEMMA OneProcessMoves ==
  ASSUME TypeOK, [Next]_vars
  PROVE  \/ \E p \in Processes : /\ Step(p) \/ AnswerRequest(p) \/ Crash(p)
                                 /\ \A q \in Processes \ {p} : StaysAt(q)
         \/ \A q \in Processes : StaysAt(q)
<1>0. /\ pc \in [Processes -> ProgramPoints] /\ cur \in [Processes -> Actions \cup {None}]
      /\ outcome \in [Processes -> Outcomes] /\ executed \in [Processes -> Nat]
  BY DEF TypeOK, ProcessesTypeOK
<1> USE <1>0 DEF StaysAt, Goto, Leave, Forget, AfterExecution, AfterRecovery, procVars
<1>1. ASSUME NEW p \in Processes, PlanningStep(p) PROVE \A q \in Processes \ {p} : StaysAt(q)
  BY <1>1 DEF PlanningStep, PlanBlocked, PlanAction, FinishTurn, DenyAtCap, EscalateAtCap
<1>2. ASSUME NEW p \in Processes, RoutingStep(p) PROVE \A q \in Processes \ {p} : StaysAt(q)
  BY <1>2
     DEF RoutingStep, LookUpRequest, CountPending, CreateRequest, CreateRefused, AttachRequest,
         PromptForApproval
<1>3. ASSUME NEW p \in Processes, SyncStep(p) PROVE \A q \in Processes \ {p} : StaysAt(q)
  BY <1>3 DEF SyncStep, FindAction, SyncAction, SyncRefused
<1>4. ASSUME NEW p \in Processes, ExecutionStep(p) PROVE \A q \in Processes \ {p} : StaysAt(q)
  BY <1>4
     DEF ExecutionStep, RecheckFails, InsertExecution, StartAction, AcquireLease, RecordRun,
         StartRun, Work, WorkErrors, FinishExecution, FinishRun, FinishAction
<1>5. ASSUME NEW p \in Processes, LeaseStep(p) PROVE \A q \in Processes \ {p} : StaysAt(q)
  BY <1>5
     DEF LeaseStep, CheckLease, LeaseLost, ReleaseLease, ReleaseAfterError, TerminateLease
<1>6. ASSUME NEW p \in Processes, RecoveryStep(p) PROVE \A q \in Processes \ {p} : StaysAt(q)
  BY <1>6
     DEF RecoveryStep, ExpireDueLeases, TakeExpiredLease, FinishSupervision, LoadContext,
         RecoverRun, RecoverAction
<1>7. ASSUME NEW p \in Processes, AnswerRequest(p) \/ Crash(p)
      PROVE  \A q \in Processes \ {p} : StaysAt(q)
  BY <1>7 DEF AnswerRequest, Crash
<1>8. ASSUME NEW a \in Actions, LeaseTimePasses(a) PROVE \A q \in Processes : StaysAt(q)
  BY <1>8 DEF LeaseTimePasses
<1>9. CASE UNCHANGED procVars
  BY <1>9
<1> HIDE DEF StaysAt, procVars
<1> QED
  BY <1>1, <1>2, <1>3, <1>4, <1>5, <1>6, <1>7, <1>8, <1>9 DEF Next, Step, vars

\* An executor adds its action to what has been done; nothing else does.
LEMMA EffectsGrow ==
  ASSUME TypeOK, RowsKnown, Consent, [Next]_vars
  PROVE  \/ Performed' = Performed /\ Unasked' = Unasked
         \/ \E p \in Executors :
              /\ Performs(p) /\ executed' = executed /\ cur[p] \in Actions \ Performed
              /\ Performed' = Performed \cup {cur[p]}
              /\ Unasked' = Unasked \cup {a \in {cur[p]} : requestOf[a] = None}
<1>1. ASSUME UNCHANGED <<effects, requestOf>> PROVE Performed' = Performed /\ Unasked' = Unasked
  BY <1>1 DEF Performed, Unasked
<1>2. CASE Still \/ \E p \in Processes : Quiet(p)
  BY <1>1, <1>2 DEF Still, Quiet, RowsStand
<1>3. ASSUME NEW p \in Processes,
             PlanBlocked(p) \/ PlanAction(p) \/ CreateRequest(p) \/ AnswerRequest(p)
      PROVE  UNCHANGED <<effects, requestOf>>
  BY <1>3 DEF PlanBlocked, PlanAction, CreateRequest, AnswerRequest, rowVars, recordVars
<1>4. ASSUME NEW p \in Processes, AttachRequest(p)
      PROVE  Performed' = Performed /\ Unasked' = Unasked
  <2>1. p \in Turns /\ effects[cur[p]] = 0
    BY <1>4, KindsOfProcesses
       DEF AttachRequest, At, Consent, TurnsKnow, BeforeRequest, TypeOK, ProcessesTypeOK,
           ResolverPoints, SupervisorPoints, ResolvePoints, ExecutePoints, WorkPoints, LeasePoints,
           RecoveryPoints
  <2>2. effects' = effects /\ requestOf' = [requestOf EXCEPT ![cur[p]] = req[p]]
    BY <1>4 DEF AttachRequest, recordVars
  <2>3. Performed' = Performed /\ \A a \in Performed : requestOf'[a] = requestOf[a]
    BY <2>1, <2>2 DEF Performed, TypeOK, TablesTypeOK
  <2> QED
    BY <2>3 DEF Unasked
<1>5. ASSUME NEW p \in Processes, Work(p) \/ WorkErrors(p)
      PROVE  \/ Performed' = Performed /\ Unasked' = Unasked
             \/ /\ p \in Executors /\ Performs(p) /\ executed' = executed
                /\ cur[p] \in Actions \ Performed
                /\ Performed' = Performed \cup {cur[p]}
                /\ Unasked' = Unasked \cup {a \in {cur[p]} : requestOf[a] = None}
  <2>1. Performs(p) /\ executed' = executed
    BY <1>5, WorkPerforms DEF Consent, Work, WorkErrors, Goto
  <2>2. p \in Executors /\ cur[p] \in Actions /\ effects[cur[p]] = 0
    BY <2>1, RowAtHand
       DEF Performs, Consent, EffectsAhead, BeforeEffect, ActionPoints, ExecutePoints, WorkPoints
  <2>3. effects \in [Actions -> 0 .. 2] /\ requestOf' = requestOf
    BY <2>1 DEF TypeOK, TablesTypeOK, Performs
  <2>4. CASE effects' = effects
    BY <1>1, <2>3, <2>4
  <2>5. CASE effects' = [effects EXCEPT ![cur[p]] = 1]
    <3>1. cur[p] \notin Performed /\ Performed' = Performed \cup {cur[p]}
      BY <2>2, <2>3, <2>5 DEF Performed
    <3> QED
      BY <2>1, <2>2, <2>3, <3>1 DEF Unasked
  <2> QED
    BY <2>1, <2>4, <2>5 DEF Performs
<1> QED
  BY <1>1, <1>2, <1>3, <1>4, <1>5, QuietOrWrites DEF Writes

\* Whoever moves, every turn keeps its cap and what it used.
LEMMA AllTurnsUse ==
  ASSUME TypeOK, RowsKnown, Consent, CapBehavior # "always_approve", \A p \in Turns : CapKept(p),
         [Next]_vars, NEW p \in Turns
  PROVE  Uses(p)
<1>1. CASE Step(p) \/ AnswerRequest(p) \/ Crash(p)
  BY <1>1, TurnUses, KindsOfProcesses DEF AnswerRequest
<1>2. CASE StaysAt(p)
  <2>1. p \in Executors /\ p \in Processes
    BY KindsOfProcesses
  <2>2. CASE Performed' = Performed
    BY <1>2, <2>2, OthersUse DEF StaysAt
  <2>3. ASSUME NEW r \in Executors, Performs(r), Performed' = Performed \cup {cur[r]}
        PROVE  Uses(p)
    <3>1. r # p
      BY <1>2, <2>3 DEF StaysAt, Performs
    <3>2. pc[p] \in ExecutePoints => cur[p] # cur[r]
      BY <2>1, <2>3, <3>1, OneExecutor DEF Performs, BeforeEffect, ExecutePoints, WorkPoints
    <3> QED
      BY <1>2, <2>3, <3>2, OthersUse DEF StaysAt
  <2> QED
    BY <2>2, <2>3, EffectsGrow
<1> QED
  BY <1>1, <1>2, OneProcessMoves, KindsOfProcesses

\* Each effect keeps its place, and a new one takes the next of its turn.
LEMMA PlacesStep ==
  ASSUME TypeOK, RowsKnown, Consent, CapBehavior # "always_approve", CapsKept, [Next]_vars
  PROVE  CapsKept'
<1>0. MaxActions \in Nat /\ TurnTyped
  BY GovernedActionsAssumption, UsedTyped
<1>1. \A p \in Turns : Uses(p)
  BY AllTurnsUse DEF CapsKept
<1>2. \A p \in Turns : CapKept(p)'
  BY <1>1 DEF Uses
<1>3. PICK place \in [Unasked -> Places] :
        /\ \A a, b \in Unasked : place[a] = place[b] => a = b
        /\ \A a \in Unasked : place[a][2] <= Used(place[a][1])
  BY DEF CapsKept, HavePlaces
<1>4. \A a \in Unasked : /\ place[a] \in Places
                         /\ place[a][1] \in Turns /\ place[a][2] \in 1 .. MaxActions
  BY <1>3 DEF Places
<1>5. TypeOK'
  BY TablesTyped, ProcessesTyped DEF TypeOK
<1>6. \A p \in Turns : Used(p) \in Nat /\ Used(p)' \in Nat
  <2>1. \A p \in Turns : Used(p)' \in Nat
    BY <1>0, <1>5 DEF TypeOK, ProcessesTypeOK, Used, Processes, Executors
  <2> QED
    BY <1>0, <2>1 DEF TurnTyped
<1>7. \A p \in Turns, n \in 1 .. MaxActions : n <= Used(p) => n <= Used(p)'
  BY <1>0, <1>1, <1>6 DEF Uses
<1>8. \A a \in Unasked : place[a][2] <= Used(place[a][1])'
  BY <1>3, <1>4, <1>7
<1>9. CASE Unasked' = Unasked
  BY <1>2, <1>3, <1>8, <1>9 DEF HavePlaces, CapsKept
<1>10. ASSUME NEW p \in Turns, Performs(p), executed' = executed, NEW own \in Actions \ Performed,
              own = cur[p], Performed' = Performed \cup {own}, Unasked' = Unasked \cup {own}
       PROVE  CapsKept'
  <2> DEFINE n == executed[p] + 1
  <2>1. own \notin Unasked
    BY <1>10 DEF Unasked
  <2>2. pc[p] \in ExecutePoints /\ pc'[p] \in ExecutePoints /\ cur'[p] = own
    BY <1>10 DEF Performs, BeforeEffect, ExecutePoints, WorkPoints
  <2>3. pc[p] # "ended" /\ pc'[p] # "ended"
    BY <2>2 DEF ExecutePoints, WorkPoints, LeasePoints, RecoveryPoints
  <2>4. executed[p] \in Nat /\ executed[p] < MaxActions
    BY <1>0, <2>2, KindsOfProcesses DEF CapsKept, CapKept, TurnTyped
  <2>5. n \in 1 .. MaxActions
    BY <1>0, <2>4
  <2>6. Used(p) = executed[p] /\ Used(p)' = n
    BY <1>10, <2>2, <2>3 DEF Used
  <2> HIDE DEF n
  <2>p. PICK next : next = [a \in Unasked \cup {own} |-> IF a = own THEN <<p, n>> ELSE place[a]]
    OBVIOUS
  <2>7. /\ next[own] = <<p, n>>
        /\ \A a \in Unasked : next[a] = place[a]
        /\ DOMAIN next = Unasked \cup {own}
    BY <2>p, <2>1
  <2>8. next \in [Unasked \cup {own} -> Places]
    BY <1>4, <2>p, <2>5 DEF Places
  <2>9. \A a \in Unasked : next[a] # next[own]
    <3>1. ASSUME NEW a \in Unasked, place[a] = <<p, n>> PROVE FALSE
      <4>1. n <= executed[p]
        BY <1>3, <2>6, <3>1
      <4> QED
        BY <2>4, <4>1 DEF n
    <3> QED
      BY <2>7, <3>1
  <2>10. \A a, b \in Unasked \cup {own} : next[a] = next[b] => a = b
    BY <1>3, <2>7, <2>9
  <2>11. \A a \in Unasked \cup {own} : next[a][2] <= Used(next[a][1])'
    <3>1. n <= Used(p)'
      BY <2>5, <2>6
    <3>2. ASSUME NEW a \in Unasked \cup {own} PROVE next[a][2] <= Used(next[a][1])'
      <4>1. CASE a = own
        BY <2>7, <3>1, <4>1
      <4>2. CASE a \in Unasked
        BY <1>8, <2>7, <4>2
      <4> QED
        BY <4>1, <4>2
    <3> QED
      BY <3>2
  <2>12. HavePlaces'
    BY <1>10, <2>8, <2>10, <2>11 DEF HavePlaces
  <2> QED
    BY <1>2, <2>12 DEF CapsKept
<1>11. ASSUME NEW p \in Executors, Performs(p), requestOf[cur[p]] = None PROVE p \in Turns
  <2>1. pc[p] \in ExecutePoints
    BY <1>11 DEF Performs, BeforeEffect, ExecutePoints, WorkPoints
  <2> QED
    BY <1>11, <2>1, KindsOfProcesses DEF Consent, ResolversKnow
<1>12. ASSUME NEW p \in Executors, Performs(p), executed' = executed,
              cur[p] \in Actions \ Performed,
              Performed' = Performed \cup {cur[p]},
              Unasked' = Unasked \cup {a \in {cur[p]} : requestOf[a] = None}
       PROVE  CapsKept'
  <2>1. CASE requestOf[cur[p]] = None
    <3>1. Unasked' = Unasked \cup {cur[p]}
      BY <1>12, <2>1
    <3> QED
      BY <1>10, <1>11, <1>12, <2>1, <3>1
  <2>2. CASE requestOf[cur[p]] # None
    BY <1>9, <1>12, <2>2
  <2> QED
    BY <2>1, <2>2
<1> QED
  BY <1>9, <1>12, EffectsGrow

\* Unless the configuration approves everything: for any number of turns, whatever
\* fails and whoever recovers, the turns together run no more than their caps allow
\* without asking somebody.
THEOREM UnapprovedEffectsAreBounded ==
  ASSUME IsFiniteSet(Turns)
  PROVE  Spec => []UnapprovedEffectsBounded
<1>1. CASE CapBehavior # "always_approve"
  <2>1. Init => CapsKept
    <3> SUFFICES ASSUME Init PROVE CapsKept
      OBVIOUS
    <3>1. Unasked = {}
      BY DEF Init, Unasked, Performed
    <3>2. [a \in {} |-> a] \in [{} -> Places]
      OBVIOUS
    <3>3. HavePlaces
      BY <3>1, <3>2 DEF HavePlaces
    <3>4. \A p \in Turns : CapKept(p)
      BY KindsOfProcesses
         DEF Init, CapKept, ExecutePoints, WorkPoints, LeasePoints, RecoveryPoints
    <3> QED
      BY <3>3, <3>4 DEF CapsKept
  <2>2. Spec => []Consent
    <3>1. ConsentInvariant => Consent
      BY DEF ConsentInvariant, Consent
    <3> QED
      BY <3>1, ConsentIsKept, PTL
  <2>3. TypeOK /\ RowsKnown /\ Consent /\ CapsKept /\ [Next]_vars => CapsKept'
    BY <1>1, PlacesStep
  <2>4. CapsKept => UnapprovedEffectsBounded
    <3> SUFFICES ASSUME CapsKept PROVE Cardinality(Unasked) <= Cardinality(Turns) * MaxActions
      BY DEF Unasked, UnapprovedEffectsBounded
    <3>1. PICK place \in [Unasked -> Places] : \A a, b \in Unasked : place[a] = place[b] => a = b
      BY DEF CapsKept, HavePlaces
    <3>2. place \in Injection(Unasked, Places)
      BY <3>1 DEF Injection, IsInjective
    <3>3. IsFiniteSet(1 .. MaxActions) /\ Cardinality(1 .. MaxActions) = MaxActions
      BY FS_Interval, GovernedActionsAssumption
    <3>4. IsFiniteSet(Places) /\ Cardinality(Places) = Cardinality(Turns) * MaxActions
      BY <3>3, FS_Product DEF Places
    <3> QED
      BY <3>2, <3>4, FS_Injection
  <2> QED
    BY <2>1, <2>2, <2>3, <2>4, TypeCorrect, PTL DEF Spec
<1>2. CASE CapBehavior = "always_approve"
  <2>1. UnapprovedEffectsBounded
    BY <1>2 DEF UnapprovedEffectsBounded
  <2> QED
    BY <2>1, PTL
<1> QED
  BY <1>1, <1>2

-----------------------------------------------------------------------------
(* An action that waits for approval can be approved. *)

Alone(a) == \A b \in Actions : proposal[b] = proposal[a] => b = a

\* A request there is was asked for by an action.
RequestsHaveAskers ==
  \A r \in Requests : requestStatus[r] # "none" =>
    \/ \E b \in Actions : requestOf[b] = r
    \/ \E q \in Turns : pc[q] = "attach" /\ req[q] = r

\* The request of an action that is alone is answered by nobody before its
\* turn has told a chat about it.
TurnAsks(p) ==
  /\ pc[p] = "prompt" => requestOf[cur[p]] = req[p]
  /\ pc[p] \in {"attach", "prompt"} /\ Alone(cur[p]) =>
       req[p] \notin prompted /\ requestStatus[req[p]] = "pending"

Awaited(a) ==
  \/ \E p \in Turns : cur[p] = a /\ pc[p] \in RoutePoints
  \/ /\ requestOf[a] # None
     /\ \/ requestStatus[requestOf[a]] = "pending"
        \/ \E p \in Resolvers : pc[p] \in ResolvePoints /\ req[p] = requestOf[a]

RowAwaits(a) ==
  actionStatus[a] = "awaiting_approval" => a \notin started /\ (Alone(a) => Awaited(a))

DefersNothing(p) ==
  pc[p] \in {"recoverRun", "recoverAction"} => seen[p] # "awaiting_approval"

AwaitingKnown ==
  /\ RequestsHaveAskers
  /\ \A p \in Turns : TurnAsks(p)
  /\ \A a \in Actions : RowAwaits(a)
  /\ \A p \in Processes : DefersNothing(p)

\* Nobody but a chat answers, and nothing fails between a plan and its request or
\* between an answer and its row: an operator's answer may be refused on the row,
\* and such a failure may leave a row behind.
AnswersReachRows ==
  /\ Admins = {}
  /\ CrashPoints \cap (RoutePoints \cup ResolvePoints) = {}

\* No turn is refused a request for want of room: the pending limit is not reached
\* (nor the model's bound on requests).
RoomForRequests ==
  \A p \in Turns :
    /\ pc[p] = "count" => ~PendingLimitReached
    /\ pc[p] = "create" => \E r \in Requests : requestStatus[r] = "none"

\* A recovery defers to a pending request; an action that has started has none.
LEMMA StartedIsNotDeferred ==
  ASSUME NEW a \in Actions, actionStatus[a] # "awaiting_approval",
         requestOf[a] # None => requestStatus[requestOf[a]] # "pending"
  PROVE  Verdict(a) # "awaiting_approval"
<1>1. \A o : FinalStatus(o) # "awaiting_approval"
  BY FinalStatusIsOneOf
<1>2. TerminalStatus(a) # "awaiting_approval"
  BY <1>1 DEF TerminalStatus
<1>3. ApprovalState(a) # "pending"
  BY DEF ApprovalState
<1>4. DecisionAbout(a) # "defer"
  BY <1>3 DEF DecisionAbout, ClassifyRecoveryDecision, ReplayDecision
<1>5. DecisionAbout(a) \in Decisions
  BY DecisionIsOneOf DEF DecisionAbout
<1> QED
  BY <1>2, <1>4, <1>5 DEF Verdict, Decisions

\* The step is about neither requests nor actions that wait.
Elsewhere(p) ==
  /\ UNCHANGED <<requestStatus, proposal, requestOf, prompted>>
  /\ OthersWait(p)
  /\ pc[p] \notin RoutePoints \cup ResolvePoints
  /\ pc'[p] \notin RoutePoints \cup ResolvePoints
  /\ \A a \in Actions : actionStatus'[a] = "awaiting_approval" =>
       actionStatus[a] = "awaiting_approval" /\ (a \in started' => a \in started)
  /\ DefersNothing(p)'

LEMMA ElsewhereKeepsAwaiting ==
  ASSUME AwaitingKnown, NEW p \in Processes, Elsewhere(p)
  PROVE  AwaitingKnown'
<1> USE KindsOfProcesses DEF Elsewhere, OthersWait, RoutePoints
<1>1. RequestsHaveAskers'
  BY DEF AwaitingKnown, RequestsHaveAskers
<1>2. ASSUME NEW q \in Turns PROVE TurnAsks(q)'
  BY DEF AwaitingKnown, TurnAsks, Alone
<1>3. ASSUME NEW a \in Actions PROVE RowAwaits(a)'
  BY DEF AwaitingKnown, RowAwaits, Awaited, Alone
<1>4. ASSUME NEW q \in Processes PROVE DefersNothing(q)'
  BY DEF AwaitingKnown, DefersNothing
<1> QED
  BY <1>1, <1>2, <1>3, <1>4 DEF AwaitingKnown

StepsElsewhere(p) ==
  \/ FinishTurn(p) \/ RecheckFails(p) \/ InsertExecution(p) \/ StartAction(p)
  \/ AcquireLease(p) \/ RecordRun(p) \/ StartRun(p) \/ Work(p)
  \/ WorkErrors(p) \/ FinishExecution(p) \/ FinishRun(p) \/ FinishAction(p)
  \/ CheckLease(p) \/ LeaseLost(p) \/ ReleaseLease(p) \/ ReleaseAfterError(p)
  \/ TerminateLease(p) \/ ExpireDueLeases(p) \/ TakeExpiredLease(p) \/ FinishSupervision(p)
  \/ LoadContext(p) \/ RecoverRun(p) \/ RecoverAction(p) \/ Crash(p)

LEMMA ElsewhereSteps ==
  ASSUME AnswersReachRows, TypeOK, RowsKnown, NotStarted, AwaitingKnown, NEW p \in Processes,
         StepsElsewhere(p)
  PROVE  Elsewhere(p)
<1>0. /\ actionStatus \in [Actions -> ActionStatuses] /\ pc \in [Processes -> ProgramPoints]
      /\ cur \in [Processes -> Actions \cup {None}] /\ req \in [Processes -> Requests \cup {None}]
      /\ seen \in [Processes -> ActionStatuses] /\ started \subseteq Actions
      /\ pc[p] \in ActionPoints => cur[p] \in Actions
      /\ pc[p] \in {"recheck", "start"} => seen[p] \in {"proposed", "approved"}
      /\ DefersNothing(p)
  BY RowAtHand DEF TypeOK, TablesTypeOK, ProcessesTypeOK, RowsKnown, AwaitingKnown
<1> USE <1>0
    DEF Elsewhere, OthersWait, DefersNothing, RoutePoints, ResolvePoints, ActionPoints,
        ExecutePoints, WorkPoints, LeasePoints, RecoveryPoints, At, Goto, approvalVars, rowVars,
        statusVars, procVars, others
<1>1. CASE FinishTurn(p)
  BY <1>1 DEF FinishTurn, Leave, Forget
<1>2. CASE RecheckFails(p)
  BY <1>2 DEF RecheckFails, Leave, Forget, AfterExecution, SetAction
<1>3. CASE InsertExecution(p)
  BY <1>3 DEF InsertExecution
<1>4. CASE StartAction(p)
  BY <1>4 DEF StartAction, MarkUnfinished, SetAction
<1>5. CASE AcquireLease(p)
  BY <1>5 DEF AcquireLease
<1>6. CASE RecordRun(p)
  BY <1>6 DEF RecordRun
<1>7. CASE StartRun(p)
  BY <1>7 DEF StartRun
<1>8. CASE Work(p)
  BY <1>8 DEF Work
<1>9. CASE WorkErrors(p)
  BY <1>9 DEF WorkErrors
<1>10. CASE FinishExecution(p)
  BY <1>10 DEF FinishExecution
<1>11. CASE FinishRun(p)
  BY <1>11 DEF FinishRun
<1>12. CASE FinishAction(p)
  BY <1>12, FinalStatusIsOneOf DEF FinishAction, SetAction
<1>13. CASE CheckLease(p)
  BY <1>13 DEF CheckLease
<1>14. CASE LeaseLost(p)
  BY <1>14 DEF LeaseLost, Leave, Forget
<1>15. CASE ReleaseLease(p)
  BY <1>15 DEF ReleaseLease, Leave, Forget, AfterExecution
<1>16. CASE ReleaseAfterError(p)
  BY <1>16 DEF ReleaseAfterError, Leave, Forget
<1>17. CASE TerminateLease(p)
  BY <1>17 DEF TerminateLease
<1>18. CASE ExpireDueLeases(p)
  BY <1>18 DEF ExpireDueLeases
<1>19. CASE TakeExpiredLease(p)
  BY <1>19 DEF TakeExpiredLease
<1>20. CASE FinishSupervision(p)
  BY <1>20 DEF FinishSupervision, Leave, Forget
<1>21. CASE LoadContext(p)
  <2>1. cur[p] \in Actions /\ cur[p] \in started
    BY <1>21 DEF LoadContext, RowsKnown, StartedPoints
  <2>2. Verdict(cur[p]) # "awaiting_approval"
    BY <2>1, StartedIsNotDeferred DEF AwaitingKnown, RowAwaits, NotStarted
  <2>3. CASE Verdict(cur[p]) = "absent"
    BY <1>21, <2>3 DEF LoadContext, AfterRecovery, AfterExecution, Leave, Forget
  <2>4. CASE Verdict(cur[p]) # "absent"
    BY <1>21, <2>2, <2>4 DEF LoadContext
  <2> QED
    BY <2>3, <2>4
<1>22. CASE RecoverRun(p)
  BY <1>22 DEF RecoverRun
<1>23. CASE RecoverAction(p)
  BY <1>23 DEF RecoverAction, SetAction, Leave, Forget, AfterExecution, AfterRecovery
<1>24. CASE Crash(p)
  BY <1>24 DEF Crash, AnswersReachRows, Leave, Forget
<1> HIDE DEF Elsewhere
<1> QED
  BY <1>1, <1>2, <1>3, <1>4, <1>5, <1>6, <1>7, <1>8, <1>9, <1>10, <1>11, <1>12, <1>13, <1>14,
     <1>15, <1>16, <1>17, <1>18, <1>19, <1>20, <1>21, <1>22, <1>23, <1>24
     DEF StepsElsewhere

\* A new row makes no other row alone.
LEMMA PlanKeepsAlone ==
  ASSUME TypeOK, NEW own \in Actions, NEW f \in Fingerprints, NEW status,
         InsertAction(own, f, status),
         NEW a \in Actions \ {own}, actionStatus[a] # "absent", Alone(a)'
  PROVE  Alone(a)
<1>1. proposal' = [proposal EXCEPT ![own] = f] /\ proposal[own] = None /\ proposal[a] # None
  BY DEF InsertAction, TypeOK, TablesTypeOK
<1>2. \A b \in Actions : b # own => proposal'[b] = proposal[b]
  BY <1>1 DEF TypeOK, TablesTypeOK
<1> QED
  BY <1>1, <1>2 DEF Alone

\* A plan puts its row in its turn's hands, or refuses it.
LEMMA PlanKeepsAwaiting ==
  ASSUME TypeOK, RowsKnown, Consent, AwaitingKnown, NEW p \in Processes,
         PlanBlocked(p) \/ PlanAction(p)
  PROVE  AwaitingKnown'
<1>1. PICK own \in Actions, f \in Fingerprints,
           status \in {"blocked", "proposed", "awaiting_approval"} :
        /\ InsertAction(own, f, status)
        /\ status = "awaiting_approval" =>
             /\ p \in Turns /\ cur'[p] = own /\ pc'[p] \in RoutePoints
  <2>1. p \in Turns
    BY KindsOfProcesses
       DEF PlanBlocked, PlanAction, At, TypeOK, ProcessesTypeOK, ResolverPoints, SupervisorPoints,
           ResolvePoints, ExecutePoints, WorkPoints, LeasePoints, RecoveryPoints
  <2>2. CASE PlanBlocked(p)
    BY <2>2 DEF PlanBlocked
  <2>3. CASE PlanAction(p)
    <3>1. PICK a \in Actions, f \in Fingerprints :
            /\ InsertAction(a, f, PlannedStatus(f))
            /\ pc' = [pc EXCEPT ![p] = AfterPlanning(p, f)]
            /\ cur' = [cur EXCEPT ![p] = a]
      BY <2>3 DEF PlanAction
    <3>2. PlannedStatus(f) = "awaiting_approval" => AfterPlanning(p, f) \in RoutePoints
      BY DEF PlannedStatus, AfterPlanning, RoutePoints
    <3>3. PlannedStatus(f) \in {"proposed", "awaiting_approval"}
      BY DEF PlannedStatus
    <3> QED
      BY <2>1, <3>1, <3>2, <3>3 DEF TypeOK, ProcessesTypeOK
  <2> QED
    BY <2>2, <2>3
<1>2. /\ UNCHANGED <<requestStatus, requestOf, started, prompted, req>>
      /\ OthersWait(p)
      /\ pc[p] = "propose" /\ pc'[p] \in {"propose", "deny", "lookup", "escalate", "recheck"}
  BY DEF PlanBlocked, PlanAction, AfterPlanning, At, rowVars, others, procVars, approvalVars,
         OthersWait, TypeOK, ProcessesTypeOK
<1>3. /\ actionStatus[own] = "absent" /\ actionStatus'[own] = status
      /\ \A a \in Actions : a # own => actionStatus'[a] = actionStatus[a]
  BY <1>1 DEF InsertAction, TypeOK, TablesTypeOK
<1>4. own \notin started /\ \A q \in Processes : cur[q] # own
  BY <1>3, FreshRow DEF Consent, RowsKnown
<1>5. RequestsHaveAskers'
  BY <1>2, KindsOfProcesses DEF AwaitingKnown, RequestsHaveAskers, OthersWait
<1>6. ASSUME NEW q \in Turns PROVE TurnAsks(q)'
  <2>1. CASE q = p
    BY <1>2, <2>1 DEF TurnAsks
  <2>2. CASE q # p
    <3>1. pc'[q] = pc[q] /\ cur'[q] = cur[q] /\ req'[q] = req[q] /\ q \in Processes
      BY <1>2, <2>2, KindsOfProcesses DEF OthersWait
    <3>2. ASSUME pc[q] \in {"attach", "prompt"} PROVE Alone(cur[q])' => Alone(cur[q])
      <4>1. PICK c \in Actions \ {own} : c = cur[q] /\ actionStatus[c] # "absent"
        BY <1>4, <3>1, <3>2, RowAtHand DEF ActionPoints, RoutePoints
      <4>2. Alone(c)' => Alone(c)
        BY <1>1, <4>1, PlanKeepsAlone
      <4> QED
        BY <3>1, <4>1, <4>2 DEF Alone
    <3> QED
      BY <1>2, <3>1, <3>2 DEF AwaitingKnown, TurnAsks
  <2> QED
    BY <2>1, <2>2
<1>7. ASSUME NEW a \in Actions PROVE RowAwaits(a)'
  <2>1. CASE a = own
    BY <1>1, <1>2, <1>3, <1>4, <2>1 DEF RowAwaits, Awaited
  <2>2. CASE a # own
    <3>1. actionStatus[a] # "absent" /\ Alone(a)' => Alone(a)
      BY <1>1, <2>2, PlanKeepsAlone
    <3>2. Awaited(a) => Awaited(a)'
      BY <1>2, KindsOfProcesses DEF Awaited, OthersWait, RoutePoints, ResolvePoints
    <3> QED
      BY <1>2, <1>3, <2>2, <3>1, <3>2 DEF AwaitingKnown, RowAwaits
  <2> QED
    BY <2>1, <2>2
<1>8. ASSUME NEW q \in Processes PROVE DefersNothing(q)'
  BY <1>2 DEF AwaitingKnown, DefersNothing, OthersWait
<1> QED
  BY <1>5, <1>6, <1>7, <1>8 DEF AwaitingKnown

\* A turn that routes its own action leaves the others' requests alone.
RoutesOwn(p, own) ==
  /\ proposal' = proposal /\ started' = started
  /\ OthersWait(p)
  /\ pc'[p] \notin {"recoverRun", "recoverAction"}
  /\ \A a \in Actions \ {own} : actionStatus'[a] = actionStatus[a] /\ requestOf'[a] = requestOf[a]
  /\ \A r \in Requests : requestStatus[r] = "pending" => requestStatus'[r] = "pending"
  /\ \A q \in Turns \ {p} : pc[q] \in {"attach", "prompt"} /\ Alone(cur[q]) => req[q] \notin prompted'

LEMMA RoutingKeepsAwaiting ==
  ASSUME TypeOK, Consent, AwaitingKnown, NEW p \in Turns, NEW own \in Actions, own = cur[p],
         pc[p] \in RoutePoints, RoutesOwn(p, own),
         RequestsHaveAskers', TurnAsks(p)', RowAwaits(own)'
  PROVE  AwaitingKnown'
<1> USE KindsOfProcesses
<1>1. ASSUME NEW q \in Turns, q # p PROVE TurnAsks(q)'
  <2>1. pc'[q] = pc[q] /\ cur'[q] = cur[q] /\ req'[q] = req[q]
    BY <1>1 DEF RoutesOwn, OthersWait
  <2>2. ASSUME pc[q] \in {"attach", "prompt"}
        PROVE  /\ cur[q] \in Actions \ {own} /\ req[q] \in Requests
               /\ requestOf'[cur[q]] = requestOf[cur[q]]
    <3>1. cur[q] \in Actions /\ cur[q] # None /\ req[q] \in Requests
      BY <2>2, GovernedActionsAssumption
         DEF TypeOK, ProcessesTypeOK, ActionPoints, RequestPoints, RoutePoints
    <3>2. cur[q] # own
      BY <1>1, <3>1 DEF Consent, TurnsKnow
    <3> QED
      BY <3>1, <3>2 DEF RoutesOwn
  <2>3. Alone(cur[q])' => Alone(cur[q])
    BY <2>1 DEF Alone, RoutesOwn
  <2>4. TurnAsks(q)
    BY DEF AwaitingKnown
  <2>5. pc[q] \in {"attach", "prompt"} /\ Alone(cur[q]) =>
          req[q] \notin prompted' /\ requestStatus'[req[q]] = "pending"
    BY <1>1, <2>2, <2>4 DEF TurnAsks, RoutesOwn
  <2> QED
    BY <2>1, <2>2, <2>3, <2>4, <2>5 DEF TurnAsks
<1>2. ASSUME NEW a \in Actions, a # own PROVE RowAwaits(a)'
  <2>1. Alone(a)' => Alone(a)
    BY DEF Alone, RoutesOwn
  <2>2. requestOf'[a] = requestOf[a] /\ requestOf[a] \in Requests \cup {None}
    BY <1>2 DEF RoutesOwn, TypeOK, TablesTypeOK
  <2>3. Awaited(a) => Awaited(a)'
    <3>1. ASSUME NEW q \in Turns, cur[q] = a, pc[q] \in RoutePoints PROVE Awaited(a)'
      BY <1>2, <3>1 DEF Awaited, RoutesOwn, OthersWait
    <3>2. ASSUME requestOf[a] # None, requestStatus[requestOf[a]] = "pending" PROVE Awaited(a)'
      BY <2>2, <3>2 DEF Awaited, RoutesOwn
    <3>3. ASSUME NEW q \in Resolvers, requestOf[a] # None, pc[q] \in ResolvePoints,
                 req[q] = requestOf[a]
          PROVE  Awaited(a)'
      BY <2>2, <3>3 DEF Awaited, RoutesOwn, OthersWait
    <3> QED
      BY <3>1, <3>2, <3>3 DEF Awaited
  <2> QED
    BY <1>2, <2>1, <2>3 DEF AwaitingKnown, RowAwaits, RoutesOwn
<1>3. ASSUME NEW q \in Processes PROVE DefersNothing(q)'
  BY DEF AwaitingKnown, DefersNothing, RoutesOwn, OthersWait
<1> QED
  BY <1>1, <1>2, <1>3 DEF AwaitingKnown

\* An action at a turn's routing statements is awaited by that turn.
LEMMA RoutedIsAwaited ==
  ASSUME NEW p \in Turns, NEW own \in Actions, cur'[p] = own, pc'[p] \in RoutePoints,
         own \notin started'
  PROVE  RowAwaits(own)'
BY DEF RowAwaits, Awaited

\* The turn's own action at its routing statements.
LEMMA RoutingTurn ==
  ASSUME TypeOK, NotStarted, AwaitingKnown, NEW p \in Processes, pc[p] \in RoutePoints
  PROVE  /\ p \in Turns /\ cur[p] \in Actions
         /\ pc[p] \in {"attach", "prompt"} => req[p] \in Requests
         /\ pc[p] \in BeforeRequest => cur[p] \notin started
BY KindsOfProcesses, GovernedActionsAssumption, ApprovalsAssumption
   DEF TypeOK, ProcessesTypeOK, ActionPoints, RequestPoints, RoutePoints, ResolverPoints,
       SupervisorPoints, ResolvePoints, ExecutePoints, WorkPoints, LeasePoints, RecoveryPoints,
       NotStarted

\* What a turn is at attach or prompt about is asked about that turn's action.
LEMMA AskedAbout ==
  ASSUME TypeOK, Consent, AwaitingKnown, NEW p \in Turns, pc[p] \in {"attach", "prompt"}
  PROVE  requestFor[req[p]] = proposal[cur[p]]
<1>1. CASE pc[p] = "attach"
  BY <1>1 DEF Consent, TurnsKnow
<1>2. CASE pc[p] = "prompt"
  <2>1. cur[p] \in Actions /\ req[p] \in Requests /\ requestOf[cur[p]] = req[p] /\ req[p] # None
    BY <1>2, KindsOfProcesses, GovernedActionsAssumption
       DEF AwaitingKnown, TurnAsks, TypeOK, ProcessesTypeOK, ActionPoints, RequestPoints,
           RoutePoints
  <2> QED
    BY <2>1 DEF Consent, EffectsAhead
<1> QED
  BY <1>1, <1>2

\* The request a turn found or made was asked for by an action about the same thing.
LEMMA AskerOf ==
  ASSUME TypeOK, Consent, AwaitingKnown, NEW r \in Requests, requestStatus[r] # "none"
  PROVE  \E b \in Actions :
           /\ proposal[b] = requestFor[r]
           /\ \/ requestOf[b] = r
              \/ \E q \in Turns : pc[q] = "attach" /\ req[q] = r /\ cur[q] = b
<1>1. CASE \E b \in Actions : requestOf[b] = r
  BY <1>1, ApprovalsAssumption DEF Consent, EffectsAhead
<1>2. ASSUME NEW q \in Turns, pc[q] = "attach", req[q] = r
      PROVE  cur[q] \in Actions /\ proposal[cur[q]] = requestFor[r]
  BY <1>2, AskedAbout, KindsOfProcesses, GovernedActionsAssumption
     DEF TypeOK, ProcessesTypeOK, ActionPoints, RoutePoints
<1> QED
  BY <1>1, <1>2 DEF AwaitingKnown, RequestsHaveAskers

\* A request about an action's fingerprint, asked before it, is another action's.
LEMMA FoundIsAnothers ==
  ASSUME TypeOK, Consent, AwaitingKnown, NEW p \in Turns, NEW own \in Actions, own = cur[p],
         pc[p] \in BeforeRequest, pc[p] # "attach", NEW r \in Requests, requestStatus[r] = "pending",
         requestFor[r] = proposal[own]
  PROVE  ~Alone(own)
<1>1. requestOf[own] = None /\ r # None /\ own # None
  BY ApprovalsAssumption, GovernedActionsAssumption DEF Consent, TurnsKnow
<1>2. PICK b \in Actions :
        /\ proposal[b] = requestFor[r]
        /\ \/ requestOf[b] = r
           \/ \E q \in Turns : pc[q] = "attach" /\ req[q] = r /\ cur[q] = b
  BY AskerOf
<1>3. b # own
  BY <1>1, <1>2 DEF Consent, TurnsKnow
<1> QED
  BY <1>2, <1>3 DEF Alone

\* Each routing statement leaves the turn with its action, or the action with its
\* request.
LEMMA RoutingSteps ==
  ASSUME AnswersReachRows, RoomForRequests, TypeOK, RowsKnown, Consent, NotStarted, AwaitingKnown,
         NEW p \in Processes, RoutingStep(p) \/ DenyAtCap(p) \/ EscalateAtCap(p)
  PROVE  AwaitingKnown'
<1>0. pc[p] \in RoutePoints
  BY DEF RoutingStep, DenyAtCap, EscalateAtCap, LookUpRequest, CountPending, CreateRequest,
         CreateRefused, AttachRequest, PromptForApproval, At, RoutePoints
<1>1. PICK own \in Actions : own = cur[p]
  BY <1>0, RoutingTurn
<1>2. /\ p \in Turns /\ TurnAsks(p) /\ RowAwaits(own) /\ RequestsHaveAskers
      /\ pc[p] \in {"attach", "prompt"} => req[p] \in Requests
      /\ pc[p] \in BeforeRequest => own \notin started /\ requestOf[own] = None
  BY <1>0, <1>1, RoutingTurn DEF AwaitingKnown, Consent, TurnsKnow
<1>3. /\ actionStatus \in [Actions -> ActionStatuses] /\ pc \in [Processes -> ProgramPoints]
      /\ cur \in [Processes -> Actions \cup {None}] /\ req \in [Processes -> Requests \cup {None}]
      /\ seen \in [Processes -> ActionStatuses] /\ requestOf \in [Actions -> Requests \cup {None}]
      /\ requestStatus \in [Requests -> RequestStatuses]
      /\ prompted \subseteq {r \in Requests : requestStatus[r] # "none"}
      /\ \A q \in Turns : q \in Processes
  BY KindsOfProcesses DEF TypeOK, TablesTypeOK, ApprovalsTypeOK, ProcessesTypeOK
<1>4. \A q \in Turns \ {p} : pc[q] \in {"attach", "prompt"} /\ Alone(cur[q]) => req[q] \notin prompted
  BY DEF AwaitingKnown, TurnAsks
<1> USE <1>1, <1>2, <1>3
    DEF At, Goto, Forget, Leave, MarkUnfinished, SetAction, OthersWait, approvalVars, rowVars,
        statusVars, procVars, others
<1>5. CASE DenyAtCap(p)
  <2>1. RoutesOwn(p, own)
    BY <1>4, <1>5 DEF DenyAtCap, RoutesOwn
  <2>2. RequestsHaveAskers' /\ TurnAsks(p)' /\ RowAwaits(own)'
    BY <1>5 DEF DenyAtCap, RequestsHaveAskers, TurnAsks, RowAwaits
  <2> QED
    BY <1>0, <2>1, <2>2, RoutingKeepsAwaiting
<1>6. CASE EscalateAtCap(p)
  <2>1. RoutesOwn(p, own)
    BY <1>4, <1>6 DEF EscalateAtCap, RoutesOwn
  <2>2. RequestsHaveAskers' /\ TurnAsks(p)'
    BY <1>6 DEF EscalateAtCap, RequestsHaveAskers, TurnAsks
  <2>3. RowAwaits(own)'
    BY <1>6, RoutedIsAwaited DEF EscalateAtCap, BeforeRequest, RoutePoints
  <2> QED
    BY <1>0, <2>1, <2>2, <2>3, RoutingKeepsAwaiting
<1>7. CASE LookUpRequest(p)
  <2>1. RoutesOwn(p, own)
    BY <1>4, <1>7 DEF LookUpRequest, RoutesOwn
  <2>2. RequestsHaveAskers'
    BY <1>7 DEF LookUpRequest, RequestsHaveAskers
  <2>3. TurnAsks(p)'
    <3>1. CASE PendingFor(proposal[own]) = {}
      BY <1>7, <3>1 DEF LookUpRequest, TurnAsks
    <3>2. CASE PendingFor(proposal[own]) # {}
      <4>1. PICK r \in PendingFor(proposal[own]) : pc' = [pc EXCEPT ![p] = "attach"] /\ cur' = cur
        BY <1>7, <3>2 DEF LookUpRequest
      <4>2. ~Alone(own)
        BY <1>7, <3>2, FoundIsAnothers DEF LookUpRequest, PendingFor, PendingRequests, BeforeRequest
      <4>3. ~Alone(own)'
        BY <1>7, <4>2 DEF LookUpRequest, Alone
      <4>4. pc'[p] = "attach" /\ cur'[p] = own
        BY <4>1
      <4> QED
        BY <4>3, <4>4 DEF TurnAsks, Alone
    <3> QED
      BY <3>1, <3>2
  <2>4. RowAwaits(own)'
    <3>1. cur'[p] = own /\ pc'[p] \in {"count", "attach"} /\ started' = started
      BY <1>7 DEF LookUpRequest
    <3> QED
      BY <1>7, <3>1, RoutedIsAwaited DEF LookUpRequest, BeforeRequest, RoutePoints
  <2> QED
    BY <1>0, <2>1, <2>2, <2>3, <2>4, RoutingKeepsAwaiting
<1>8. CASE CountPending(p)
  <2>0. Goto(p, "create")
    BY <1>8 DEF CountPending, RoomForRequests
  <2>1. RoutesOwn(p, own)
    BY <1>4, <1>8, <2>0 DEF CountPending, RoutesOwn
  <2>2. RequestsHaveAskers' /\ TurnAsks(p)'
    BY <1>8, <2>0 DEF CountPending, RequestsHaveAskers, TurnAsks
  <2>3. RowAwaits(own)'
    BY <1>8, <2>0, RoutedIsAwaited DEF CountPending, BeforeRequest, RoutePoints
  <2> QED
    BY <1>0, <2>1, <2>2, <2>3, RoutingKeepsAwaiting
<1>9. CASE CreateRequest(p)
  <2>0. PICK r \in Requests :
          /\ requestStatus[r] = "none" /\ requestStatus' = [requestStatus EXCEPT ![r] = "pending"]
          /\ req' = [req EXCEPT ![p] = r]
    BY <1>9 DEF CreateRequest, InsertRequest
  <2>1. RoutesOwn(p, own)
    BY <1>4, <1>9, <2>0 DEF CreateRequest, RoutesOwn
  <2>2. TurnAsks(p)'
    BY <1>9, <2>0 DEF CreateRequest, TurnAsks
  <2>3. RequestsHaveAskers'
    BY <1>9, <2>0 DEF CreateRequest, RequestsHaveAskers
  <2>4. RowAwaits(own)'
    BY <1>9, RoutedIsAwaited DEF CreateRequest, BeforeRequest, RoutePoints
  <2> QED
    BY <1>0, <2>1, <2>2, <2>3, <2>4, RoutingKeepsAwaiting
<1>10. CASE CreateRefused(p)
  <2>0. PICK r \in Requests : requestStatus[r] = "pending" /\ requestFor[r] = proposal[own]
    BY <1>10 DEF CreateRefused, RoomForRequests, PendingFor, PendingRequests
  <2>1. RoutesOwn(p, own)
    BY <1>4, <1>10 DEF CreateRefused, RoutesOwn
  <2>2. RequestsHaveAskers' /\ TurnAsks(p)'
    BY <1>10 DEF CreateRefused, RequestsHaveAskers, TurnAsks
  <2>3. ~Alone(own)
    BY <1>10, <2>0, FoundIsAnothers DEF CreateRefused, BeforeRequest
  <2>4. RowAwaits(own)'
    BY <1>10, <2>3 DEF CreateRefused, RowAwaits, Alone
  <2> QED
    BY <1>0, <2>1, <2>2, <2>4, RoutingKeepsAwaiting
<1>11. CASE AttachRequest(p)
  <2>0. requestOf'[own] = req[p] /\ \A a \in Actions \ {own} : requestOf'[a] = requestOf[a]
    BY <1>11 DEF AttachRequest
  <2>1. RoutesOwn(p, own)
    BY <1>4, <1>11 DEF AttachRequest, RoutesOwn
  <2>2. RequestsHaveAskers'
    <3>1. requestOf[own] = None
      BY <1>11 DEF AttachRequest, BeforeRequest
    <3>2. \A r \in Requests, b \in Actions : requestOf[b] = r => requestOf'[b] = r
      BY <2>0, <3>1, ApprovalsAssumption
    <3> QED
      BY <1>11, <2>0, <3>2 DEF AttachRequest, RequestsHaveAskers
  <2>3. TurnAsks(p)'
    BY <1>11, <2>0 DEF AttachRequest, TurnAsks, Alone
  <2>4. RowAwaits(own)'
    BY <1>11, RoutedIsAwaited DEF AttachRequest, BeforeRequest, RoutePoints
  <2> QED
    BY <1>0, <2>1, <2>2, <2>3, <2>4, RoutingKeepsAwaiting
<1>12. CASE PromptForApproval(p)
  <2>0. /\ prompted' \subseteq prompted \cup {req[p]}
        /\ pc'[p] \in {"propose", "ended"} /\ pc[p] = "prompt"
        /\ UNCHANGED <<requestStatus, requestOf, proposal, actionStatus, started>>
        /\ OthersWait(p)
    BY <1>12 DEF PromptForApproval
  <2>1. \A q \in Turns \ {p} :
          pc[q] \in {"attach", "prompt"} /\ Alone(cur[q]) => req[q] # req[p]
    <3> SUFFICES ASSUME NEW q \in Turns \ {p}, pc[q] \in {"attach", "prompt"}, Alone(cur[q]),
                        req[q] = req[p]
                 PROVE  FALSE
      OBVIOUS
    <3>1. proposal[cur[q]] = proposal[cur[p]]
      BY <2>0, AskedAbout
    <3>2. cur[q] # cur[p]
      BY GovernedActionsAssumption DEF Consent, TurnsKnow
    <3> QED
      BY <3>1, <3>2 DEF Alone
  <2>2. RoutesOwn(p, own)
    BY <1>4, <2>0, <2>1 DEF RoutesOwn
  <2>3. RequestsHaveAskers' /\ TurnAsks(p)'
    BY <2>0 DEF RequestsHaveAskers, TurnAsks
  <2>4. RowAwaits(own)'
    BY <2>0, ApprovalsAssumption DEF RowAwaits, Alone, Awaited, TurnAsks
  <2> QED
    BY <1>0, <2>2, <2>3, <2>4, RoutingKeepsAwaiting
<1> QED
  BY <1>5, <1>6, <1>7, <1>8, <1>9, <1>10, <1>11, <1>12 DEF RoutingStep

\* An answer and what it leads to on the row move neither turns nor their requests.
Resolves(p) ==
  /\ UNCHANGED <<proposal, requestOf, started, prompted>>
  /\ OthersWait(p)
  /\ pc'[p] \notin {"recoverRun", "recoverAction"}
  /\ \A r \in Requests : requestStatus'[r] # requestStatus[r] =>
       r \in prompted /\ requestStatus[r] # "none"

LEMMA ResolvingKeepsAwaiting ==
  ASSUME TypeOK, AwaitingKnown, NEW p \in Resolvers, Resolves(p),
         \A a \in Actions : RowAwaits(a)'
  PROVE  AwaitingKnown'
<1> USE KindsOfProcesses DEF Resolves, OthersWait
<1>1. RequestsHaveAskers'
  BY DEF AwaitingKnown, RequestsHaveAskers
<1>2. ASSUME NEW q \in Turns PROVE TurnAsks(q)'
  <2>1. pc'[q] = pc[q] /\ cur'[q] = cur[q] /\ req'[q] = req[q]
    OBVIOUS
  <2>2. Alone(cur[q])' <=> Alone(cur[q])
    BY <2>1 DEF Alone
  <2>3. pc[q] \in {"attach", "prompt"} => req[q] \in Requests
    BY DEF TypeOK, ProcessesTypeOK, RequestPoints
  <2> QED
    BY <2>1, <2>2, <2>3 DEF AwaitingKnown, TurnAsks
<1>3. ASSUME NEW q \in Processes PROVE DefersNothing(q)'
  BY DEF AwaitingKnown, DefersNothing
<1> QED
  BY <1>1, <1>2, <1>3 DEF AwaitingKnown

\* The row of an answered request waits for the resolver that has the answer.
LEMMA AnsweringKeepsAwaiting ==
  ASSUME AnswersReachRows, TypeOK, AwaitingKnown, NEW p \in Processes, AnswerRequest(p)
  PROVE  AwaitingKnown'
<1>1. PICK r \in Requests, answer \in Resolutions :
        /\ r \in prompted /\ requestStatus[r] = "pending"
        /\ requestStatus' = [requestStatus EXCEPT ![r] = answer]
        /\ req' = [req EXCEPT ![p] = r]
  BY DEF AnswerRequest, ResolveRequest, Resolvers, AnswersReachRows, Answers, Resolutions
<1>2. /\ p \in Resolvers /\ pc[p] = "idle" /\ pc'[p] = "find" /\ req'[p] = r
      /\ requestStatus \in [Requests -> RequestStatuses]
      /\ requestOf \in [Actions -> Requests \cup {None}]
      /\ UNCHANGED <<proposal, requestOf, started, prompted, actionStatus, cur>>
      /\ OthersWait(p)
  BY <1>1 DEF AnswerRequest, At, TypeOK, TablesTypeOK, ApprovalsTypeOK, ProcessesTypeOK, OthersWait,
              rowVars, statusVars, others
<1>3. Resolves(p)
  BY <1>1, <1>2 DEF Resolves
<1>4. ASSUME NEW a \in Actions PROVE RowAwaits(a)'
  <2>1. Alone(a)' <=> Alone(a)
    BY <1>2 DEF Alone
  <2>2. ASSUME NEW q \in Turns, cur[q] = a, pc[q] \in RoutePoints PROVE Awaited(a)'
    BY <1>2, <2>2, KindsOfProcesses DEF Awaited, OthersWait
  <2>3. ASSUME requestOf[a] # None, requestStatus[requestOf[a]] = "pending" PROVE Awaited(a)'
    <3>1. CASE requestOf[a] = r
      BY <1>2, <2>3, <3>1 DEF Awaited, ResolvePoints
    <3>2. CASE requestOf[a] # r
      BY <1>1, <1>2, <2>3, <3>2 DEF Awaited
    <3> QED
      BY <3>1, <3>2
  <2>4. ASSUME requestOf[a] # None, NEW q \in Resolvers, pc[q] \in ResolvePoints,
               req[q] = requestOf[a]
        PROVE  Awaited(a)'
    BY <1>2, <2>4, KindsOfProcesses DEF Awaited, OthersWait, ResolvePoints
  <2>5. Awaited(a) => Awaited(a)'
    BY <2>2, <2>3, <2>4 DEF Awaited
  <2> QED
    BY <1>2, <2>1, <2>5 DEF AwaitingKnown, RowAwaits
<1> QED
  BY <1>2, <1>3, <1>4, ResolvingKeepsAwaiting

\* The answer is brought to the row that waits for it: the newest of the request,
\* and the only one if the row is alone.
LEMMA SyncingKeepsAwaiting ==
  ASSUME AnswersReachRows, TypeOK, Consent, RowsKnown, AwaitingKnown, NEW p \in Processes,
         SyncStep(p)
  PROVE  AwaitingKnown'
<1> USE KindsOfProcesses
<1>0. pc[p] \in ResolvePoints /\ p \in Resolvers /\ req[p] \in Requests /\ req[p] # None
  BY ApprovalsAssumption
     DEF SyncStep, FindAction, SyncAction, SyncRefused, At, TypeOK, ProcessesTypeOK, TurnPoints,
         SupervisorPoints, RequestPoints, RoutePoints, ResolvePoints, ExecutePoints, WorkPoints,
         LeasePoints, RecoveryPoints
<1>1. /\ actionStatus \in [Actions -> ActionStatuses] /\ pc \in [Processes -> ProgramPoints]
      /\ cur \in [Processes -> Actions \cup {None}] /\ req \in [Processes -> Requests \cup {None}]
      /\ seen \in [Processes -> ActionStatuses]
      /\ \A q \in Resolvers : q \in Processes
  BY DEF TypeOK, TablesTypeOK, ProcessesTypeOK
<1>2. /\ UNCHANGED <<requestStatus, proposal, requestOf, started, prompted>>
      /\ OthersWait(p)
      /\ pc'[p] \in {"idle", "sync", "recheck"}
  BY <1>0, <1>1
     DEF SyncStep, FindAction, SyncAction, SyncRefused, Goto, Leave, Forget, OthersWait,
         approvalVars, rowVars, statusVars, others
<1>3. Resolves(p)
  BY <1>2 DEF Resolves
<1>4. ASSUME NEW a \in Actions, actionStatus'[a] = actionStatus[a],
             Alone(a) /\ actionStatus[a] = "awaiting_approval" /\ requestOf[a] = req[p] =>
               pc'[p] = "sync" /\ req'[p] = req[p]
      PROVE  RowAwaits(a)'
  <2>1. Alone(a)' <=> Alone(a)
    BY <1>2 DEF Alone
  <2>2. ASSUME NEW q \in Turns, cur[q] = a, pc[q] \in RoutePoints PROVE Awaited(a)'
    BY <1>0, <1>2, <2>2 DEF Awaited, OthersWait
  <2>3. ASSUME requestOf[a] # None, requestStatus[requestOf[a]] = "pending" PROVE Awaited(a)'
    BY <1>2, <2>3 DEF Awaited
  <2>4. ASSUME requestOf[a] # None, NEW q \in Resolvers, pc[q] \in ResolvePoints,
               req[q] = requestOf[a], Alone(a), actionStatus[a] = "awaiting_approval"
        PROVE  Awaited(a)'
    <3>1. pc'[q] \in ResolvePoints /\ req'[q] = requestOf'[a]
      BY <1>2, <1>4, <2>4 DEF OthersWait, ResolvePoints
    <3> QED
      BY <1>2, <2>4, <3>1 DEF Awaited
  <2>5. actionStatus[a] = "awaiting_approval" /\ Alone(a) /\ Awaited(a) => Awaited(a)'
    BY <2>2, <2>3, <2>4 DEF Awaited
  <2> QED
    BY <1>2, <1>4, <2>1, <2>5 DEF AwaitingKnown, RowAwaits
<1>5. CASE FindAction(p)
  <2>1. ASSUME NEW a \in Actions, requestOf[a] = req[p] PROVE pc'[p] = "sync" /\ req'[p] = req[p]
    <3>1. AttachedTo(req[p]) # {}
      BY <2>1 DEF AttachedTo
    <3> QED
      BY <1>1, <1>5, <3>1 DEF FindAction
  <2>2. actionStatus' = actionStatus
    BY <1>5 DEF FindAction, statusVars
  <2> QED
    BY <1>0, <1>3, <1>4, <2>1, <2>2, ResolvingKeepsAwaiting
<1>6. CASE SyncAction(p)
  <2>0. PICK own \in Actions : own = cur[p]
    BY <1>0, RowAtHand, <1>6 DEF SyncAction, At, ActionPoints
  <2>1. /\ requestOf[own] = req[p] /\ seen[p] \in Resolutions
        /\ actionStatus' = [actionStatus EXCEPT ![own] = seen[p]]
    BY <1>0, <1>6, <2>0
       DEF SyncAction, At, MarkUnfinished, SetAction, Consent, ResolversKnow, RowsKnown,
           ResolvePoints
  <2>2. actionStatus'[own] # "awaiting_approval"
    BY <1>1, <2>1 DEF Resolutions
  <2>3. ASSUME NEW a \in Actions, a # own PROVE RowAwaits(a)'
    <3>1. actionStatus'[a] = actionStatus[a]
      BY <1>1, <2>1, <2>3
    <3>2. ~(Alone(a) /\ requestOf[a] = req[p])
      <4>1. requestOf[a] = req[p] => proposal[a] = proposal[own]
        BY <1>0, <2>1 DEF Consent, EffectsAhead
      <4> QED
        BY <2>3, <4>1 DEF Alone
    <3> QED
      BY <1>4, <3>1, <3>2
  <2>4. RowAwaits(own)'
    BY <2>2 DEF RowAwaits
  <2> QED
    BY <1>0, <1>3, <2>3, <2>4, ResolvingKeepsAwaiting
<1>7. ~SyncRefused(p)
  BY DEF SyncRefused, LinkTaken, AnswersReachRows
<1> QED
  BY <1>5, <1>6, <1>7 DEF SyncStep

\* Time, and what changes nothing.
LEMMA StillKeepsAwaiting ==
  ASSUME AwaitingKnown,
         UNCHANGED <<requestStatus, rowVars, statusVars, procVars, prompted>>
  PROVE  AwaitingKnown'
BY DEF AwaitingKnown, RequestsHaveAskers, TurnAsks, RowAwaits, Awaited, Alone, DefersNothing,
   rowVars,
       statusVars, procVars

LEMMA AwaitingStep ==
  ASSUME AnswersReachRows, RoomForRequests, TypeOK, RowsKnown, Consent, NotStarted, AwaitingKnown,
         [Next]_vars
  PROVE  AwaitingKnown'
<1>1. CASE UNCHANGED vars
  BY <1>1, StillKeepsAwaiting DEF vars, approvalVars, others
<1>2. ASSUME NEW r \in Requests, RequestTimePasses(r),
             UNCHANGED <<rowVars, statusVars, recordVars, leaseVars, procVars, others>>
      PROVE  AwaitingKnown'
  BY <1>2, StillKeepsAwaiting DEF RequestTimePasses, others
<1>3. ASSUME NEW a \in Actions, LeaseTimePasses(a) PROVE AwaitingKnown'
  BY <1>3, StillKeepsAwaiting DEF LeaseTimePasses, approvalVars, others
<1>4. ASSUME NEW p \in Processes, Step(p) \/ AnswerRequest(p) \/ Crash(p) PROVE AwaitingKnown'
  <2>1. \/ StepsElsewhere(p) \/ PlanBlocked(p) \/ PlanAction(p)
        \/ RoutingStep(p) \/ DenyAtCap(p) \/ EscalateAtCap(p)
        \/ SyncStep(p) \/ AnswerRequest(p)
    BY <1>4, Zenon DEF Step, PlanningStep, ExecutionStep, LeaseStep, RecoveryStep, StepsElsewhere
  <2>2. StepsElsewhere(p) => AwaitingKnown'
    BY ElsewhereSteps, ElsewhereKeepsAwaiting
  <2> QED
    BY <2>1, <2>2, PlanKeepsAwaiting, RoutingSteps, SyncingKeepsAwaiting, AnsweringKeepsAwaiting
<1> QED
  BY <1>1, <1>2, <1>3, <1>4 DEF Next

\* An action that waits for approval can be approved, if no other has its
\* fingerprint: where every answer reaches its row and every turn finds room for
\* its request, no step of any process, and no failure of an execution or of a
\* recovery, leaves a row waiting for a request that nobody can answer any more.
THEOREM AwaitingIsAnswerable ==
  ASSUME AnswersReachRows
  PROVE  Spec /\ []RoomForRequests => []AloneAwaitingCanBeResolved
<1>1. Init => NotStarted /\ AwaitingKnown
  BY KindsOfProcesses, GovernedActionsAssumption
     DEF Init, ApprovalsInit, NotStarted, AwaitingKnown, RequestsHaveAskers, TurnAsks, RowAwaits,
         DefersNothing, ResolvePoints, BeforeRequest
<1>2. Spec => []Consent
  <2>1. ConsentInvariant => Consent
    BY DEF ConsentInvariant, Consent
  <2> QED
    BY <2>1, ConsentIsKept, PTL
<1>3. /\ RoomForRequests /\ TypeOK /\ RowsKnown /\ Consent /\ NotStarted /\ AwaitingKnown
      /\ [Next]_vars
      => (NotStarted /\ AwaitingKnown)'
  BY NotStartedStep, AwaitingStep
<1>4. TypeOK /\ AwaitingKnown => AloneAwaitingCanBeResolved
  BY KindsOfProcesses
     DEF AwaitingKnown, RowAwaits, Alone, Awaited, AloneAwaitingCanBeResolved, Busy, Answerable
<1> QED
  BY <1>1, <1>2, <1>3, <1>4, TypeCorrect, PTL DEF Spec

=============================================================================
