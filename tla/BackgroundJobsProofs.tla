------------------------ MODULE BackgroundJobsProofs ------------------------
(***************************************************************************)
(* Proofs about BackgroundJobs.  Type correctness holds for any processes; *)
(* the invariants that recovery rests on hold when one process executes    *)
(* background jobs, which is how the program is deployed.                  *)
(***************************************************************************)
EXTENDS BackgroundJobs, TLAPS

\* A lease that is written is that of a row, and is not overdue.
LEMMA LeaseWriteTyped ==
  ASSUME TablesTypeOK, NEW r \in Runs, runStatus[r] # "none",
         NEW status \in LeaseStatuses,
         leaseStatus' = [leaseStatus EXCEPT ![r] = status],
         overdue' = overdue \ {r},
         UNCHANGED <<jobVars, runVars, checkpoints, crashes>>
  PROVE  TablesTypeOK'
<1>1. leaseStatus' \in [Runs -> LeaseStatuses]
  BY DEF TablesTypeOK
<1>2. overdue' \subseteq {s \in Runs : leaseStatus'[s] = "active"}
  BY DEF TablesTypeOK
<1>3. \A s \in Runs : runStatus[s] = "none" => leaseStatus'[s] = "none"
  BY DEF TablesTypeOK
<1> QED
  BY <1>1, <1>2, <1>3 DEF TablesTypeOK, jobVars, runVars

\* Every statement writes a status its table allows.
LEMMA TablesTyped == TypeOK /\ [Next]_vars => TablesTypeOK'
<1> SUFFICES ASSUME TypeOK, [Next]_vars PROVE TablesTypeOK'
    OBVIOUS
<1> USE BackgroundJobsAssumption DEF TypeOK, TablesTypeOK, ProcessesTypeOK, RememberedRunsExist,
                                     HoldingPoints, RunPoints, JobStatuses, RunStatuses,
                                     LeaseStatuses, CheckpointReasons, jobVars, runVars,
                                     leaseVars, procVars, At
<1>1. ASSUME NEW j \in Jobs, PlanJob(j) PROVE TablesTypeOK'
  BY <1>1 DEF PlanJob
<1>2. ASSUME NEW r \in Runs, LeaseTimePasses(r) PROVE TablesTypeOK'
  BY <1>2 DEF LeaseTimePasses
<1>3. ASSUME NEW p \in Processes, ExpireDueLeases(p) PROVE TablesTypeOK'
  BY <1>3 DEF ExpireDueLeases
<1>4. ASSUME NEW p \in Processes, CheckpointExpiredLease(p) PROVE TablesTypeOK'
  BY <1>4 DEF CheckpointExpiredLease
<1>5. ASSUME NEW p \in Processes, FinishWatch(p) PROVE TablesTypeOK'
  BY <1>5 DEF FinishWatch
<1>6. ASSUME NEW p \in Processes, ListStrandedRuns(p) PROVE TablesTypeOK'
  BY <1>6 DEF ListStrandedRuns, StrandedRuns
<1>7. ASSUME NEW p \in Processes, IssueRestartTrigger(p) PROVE TablesTypeOK'
  BY <1>7 DEF IssueRestartTrigger
<1>8. ASSUME NEW p \in Processes, RejectUnstartedRun(p) PROVE TablesTypeOK'
  BY <1>8 DEF RejectUnstartedRun
<1>9. ASSUME NEW p \in Processes, FailStrandedRun(p) PROVE TablesTypeOK'
  BY <1>9 DEF FailStrandedRun, SetRun
<1>10. ASSUME NEW p \in Processes, ReplanJob(p) PROVE TablesTypeOK'
  BY <1>10 DEF ReplanJob, SetJob, Job
<1>11. ASSUME NEW p \in Processes, FailStrandedExecution(p) PROVE TablesTypeOK'
  BY <1>11 DEF FailStrandedExecution, SetExecution
<1>12. ASSUME NEW p \in Processes, FinishRecovery(p) PROVE TablesTypeOK'
  BY <1>12 DEF FinishRecovery
<1>13. ASSUME NEW p \in Processes, LeaseDueJob(p) PROVE TablesTypeOK'
  BY <1>13 DEF LeaseDueJob, DueJobs, FreshRuns
<1>14. ASSUME NEW p \in Processes, NoDueJob(p) PROVE TablesTypeOK'
  BY <1>14 DEF NoDueJob
<1>15. ASSUME NEW p \in Processes, StartJob(p) PROVE TablesTypeOK'
  BY <1>15 DEF StartJob, SetJob, Job
<1>16. ASSUME NEW p \in Processes, StartRun(p) PROVE TablesTypeOK'
  BY <1>16 DEF StartRun, SetRun
<1>17. ASSUME NEW p \in Processes, AcquireLease(p) PROVE TablesTypeOK'
  <2>1. cur[p] \in Runs /\ runStatus[cur[p]] # "none"
    BY <1>17 DEF AcquireLease
  <2>2. /\ leaseStatus' = [leaseStatus EXCEPT ![cur[p]] = "active"]
        /\ overdue' = overdue \ {cur[p]}
        /\ UNCHANGED <<jobVars, runVars, checkpoints, crashes>>
    BY <1>17, Zenon DEF AcquireLease, SetLease
  <2> QED
    BY <2>1, <2>2, LeaseWriteTyped
<1>18. ASSUME NEW p \in Processes, WorkerAnswers(p) PROVE TablesTypeOK'
  BY <1>18 DEF WorkerAnswers
<1>19. ASSUME NEW p \in Processes, WorkerFails(p) PROVE TablesTypeOK'
  BY <1>19 DEF WorkerFails
<1>20. ASSUME NEW p \in Processes, CheckLease(p) PROVE TablesTypeOK'
  BY <1>20 DEF CheckLease
<1>21. ASSUME NEW p \in Processes, LeaseLost(p) PROVE TablesTypeOK'
  BY <1>21 DEF LeaseLost
<1>22. ASSUME NEW p \in Processes, ReleaseLease(p) PROVE TablesTypeOK'
  <2>1. cur[p] \in Runs /\ runStatus[cur[p]] # "none"
    BY <1>22 DEF ReleaseLease
  <2>2. /\ \/ /\ leaseStatus' = [leaseStatus EXCEPT ![cur[p]] = "released"]
              /\ overdue' = overdue \ {cur[p]}
           \/ UNCHANGED leaseVars
        /\ UNCHANGED <<jobVars, runVars, checkpoints, crashes>>
    BY <1>22, Zenon DEF ReleaseLease, ReleaseIfActive, SetLease
  <2>3. CASE leaseStatus' = [leaseStatus EXCEPT ![cur[p]] = "released"]
             /\ overdue' = overdue \ {cur[p]}
    BY <2>1, <2>2, <2>3, LeaseWriteTyped
  <2>4. CASE UNCHANGED leaseVars
    BY <2>2, <2>4
  <2> QED
    BY <2>2, <2>3, <2>4
<1>23. ASSUME NEW p \in Processes, ApplyStage(p) PROVE TablesTypeOK'
  <2>1. cur[p] \in Runs
    BY <1>23 DEF ApplyStage
  <2>2. applied[cur[p]] \in 0 .. ApplyStages /\ applied[cur[p]] < ApplyStages
    BY <1>23, <2>1 DEF ApplyStage
  <2>3. applied[cur[p]] + 1 \in 0 .. ApplyStages
    BY <2>2
  <2>4. applied' \in [Runs -> 0 .. ApplyStages]
    BY <1>23, <2>1, <2>3 DEF ApplyStage
  <2> QED
    BY <1>23, <2>4 DEF ApplyStage
<1>24. ASSUME NEW p \in Processes, ApplyFails(p) PROVE TablesTypeOK'
  BY <1>24 DEF ApplyFails
<1>25. ASSUME NEW p \in Processes, CompleteRun(p) PROVE TablesTypeOK'
  BY <1>25 DEF CompleteRun, SetRun
<1>26. ASSUME NEW p \in Processes, CompleteJob(p) PROVE TablesTypeOK'
  BY <1>26 DEF CompleteJob, SetJob, Job
<1>27. ASSUME NEW p \in Processes, CompleteExecution(p) PROVE TablesTypeOK'
  BY <1>27 DEF CompleteExecution, SetExecution
<1>28. ASSUME NEW p \in Processes, FailRun(p) PROVE TablesTypeOK'
  BY <1>28 DEF FailRun, SetRun
<1>29. ASSUME NEW p \in Processes, FailJob(p) PROVE TablesTypeOK'
  BY <1>29 DEF FailJob, SetJob, Job
<1>30. ASSUME NEW p \in Processes, FailExecution(p) PROVE TablesTypeOK'
  BY <1>30 DEF FailExecution, SetExecution
<1>31. ASSUME NEW p \in Processes, ReleaseAfterFailure(p) PROVE TablesTypeOK'
  <2>1. cur[p] \in Runs /\ runStatus[cur[p]] # "none"
    BY <1>31 DEF ReleaseAfterFailure
  <2>2. /\ \/ /\ leaseStatus' = [leaseStatus EXCEPT ![cur[p]] = "released"]
              /\ overdue' = overdue \ {cur[p]}
           \/ UNCHANGED leaseVars
        /\ UNCHANGED <<jobVars, runVars, checkpoints, crashes>>
    BY <1>31, Zenon DEF ReleaseAfterFailure, ReleaseIfActive, SetLease
  <2>3. CASE leaseStatus' = [leaseStatus EXCEPT ![cur[p]] = "released"]
             /\ overdue' = overdue \ {cur[p]}
    BY <2>1, <2>2, <2>3, LeaseWriteTyped
  <2>4. CASE UNCHANGED leaseVars
    BY <2>2, <2>4
  <2> QED
    BY <2>2, <2>3, <2>4
<1>32. ASSUME NEW p \in Processes, TerminateLease(p) PROVE TablesTypeOK'
  <2>1. cur[p] \in Runs /\ runStatus[cur[p]] # "none"
    BY <1>32 DEF TerminateLease
  <2>2. /\ leaseStatus' = [leaseStatus EXCEPT ![cur[p]] = "terminated"]
        /\ overdue' = overdue \ {cur[p]}
        /\ UNCHANGED <<jobVars, runVars, checkpoints, crashes>>
    BY <1>32, Zenon DEF TerminateLease, SetLease
  <2> QED
    BY <2>1, <2>2, LeaseWriteTyped
<1>33. ASSUME NEW p \in Processes, TerminateRefused(p) PROVE TablesTypeOK'
  BY <1>33 DEF TerminateRefused
<1>34. ASSUME NEW p \in Processes, CheckpointTimeout(p) PROVE TablesTypeOK'
  BY <1>34 DEF CheckpointTimeout
<1>35. ASSUME NEW p \in Processes, DedupIndexRejects(p) PROVE TablesTypeOK'
  BY <1>35 DEF DedupIndexRejects
<1>36. ASSUME NEW p \in Processes, Crash(p) PROVE TablesTypeOK'
  BY <1>36 DEF Crash
<1>37. CASE UNCHANGED vars
  BY <1>37 DEF vars
<1> QED
  BY <1>1, <1>2, <1>3, <1>4, <1>5, <1>6, <1>7, <1>8, <1>9, <1>10, <1>11, <1>12, <1>13, <1>14,
     <1>15, <1>16, <1>17, <1>18, <1>19, <1>20, <1>21, <1>22, <1>23, <1>24, <1>25, <1>26, <1>27,
     <1>28, <1>29, <1>30, <1>31, <1>32, <1>33, <1>34, <1>35, <1>36, <1>37
     DEF Next, Step, Supervise, Execute, Fail

\* A process that is about to write about a run remembers which.
LEMMA ProcessesTyped == TypeOK /\ [Next]_vars => ProcessesTypeOK'
<1> SUFFICES ASSUME TypeOK, [Next]_vars PROVE ProcessesTypeOK'
    OBVIOUS
<1> USE BackgroundJobsAssumption DEF TypeOK, TablesTypeOK, ProcessesTypeOK, HoldingPoints,
                                     ProgramPoints, LoopPoints, RunPoints, Causes, procVars, At,
                                     Goto, Exit
<1>1. ASSUME NEW j \in Jobs, PlanJob(j) PROVE ProcessesTypeOK'
  BY <1>1 DEF PlanJob
<1>2. ASSUME NEW r \in Runs, LeaseTimePasses(r) PROVE ProcessesTypeOK'
  BY <1>2 DEF LeaseTimePasses
<1>3. ASSUME NEW p \in Processes, ExpireDueLeases(p) PROVE ProcessesTypeOK'
  BY <1>3 DEF ExpireDueLeases
<1>4. ASSUME NEW p \in Processes, CheckpointExpiredLease(p) PROVE ProcessesTypeOK'
  BY <1>4 DEF CheckpointExpiredLease
<1>5. ASSUME NEW p \in Processes, FinishWatch(p) PROVE ProcessesTypeOK'
  BY <1>5 DEF FinishWatch
<1>6. ASSUME NEW p \in Processes, ListStrandedRuns(p) PROVE ProcessesTypeOK'
  BY <1>6 DEF ListStrandedRuns, StrandedRuns
<1>7. ASSUME NEW p \in Processes, IssueRestartTrigger(p) PROVE ProcessesTypeOK'
  BY <1>7 DEF IssueRestartTrigger
<1>8. ASSUME NEW p \in Processes, RejectUnstartedRun(p) PROVE ProcessesTypeOK'
  BY <1>8 DEF RejectUnstartedRun
<1>9. ASSUME NEW p \in Processes, FailStrandedRun(p) PROVE ProcessesTypeOK'
  BY <1>9 DEF FailStrandedRun, SetRun
<1>10. ASSUME NEW p \in Processes, ReplanJob(p) PROVE ProcessesTypeOK'
  BY <1>10 DEF ReplanJob, SetJob, Job
<1>11. ASSUME NEW p \in Processes, FailStrandedExecution(p) PROVE ProcessesTypeOK'
  BY <1>11 DEF FailStrandedExecution, SetExecution
<1>12. ASSUME NEW p \in Processes, FinishRecovery(p) PROVE ProcessesTypeOK'
  BY <1>12 DEF FinishRecovery
<1>13. ASSUME NEW p \in Processes, LeaseDueJob(p) PROVE ProcessesTypeOK'
  BY <1>13 DEF LeaseDueJob, DueJobs, FreshRuns
<1>14. ASSUME NEW p \in Processes, NoDueJob(p) PROVE ProcessesTypeOK'
  BY <1>14 DEF NoDueJob
<1>15. ASSUME NEW p \in Processes, StartJob(p) PROVE ProcessesTypeOK'
  BY <1>15 DEF StartJob, SetJob, Job
<1>16. ASSUME NEW p \in Processes, StartRun(p) PROVE ProcessesTypeOK'
  BY <1>16 DEF StartRun, SetRun
<1>17. ASSUME NEW p \in Processes, AcquireLease(p) PROVE ProcessesTypeOK'
  BY <1>17 DEF AcquireLease, SetLease
<1>18. ASSUME NEW p \in Processes, WorkerAnswers(p) PROVE ProcessesTypeOK'
  BY <1>18 DEF WorkerAnswers
<1>19. ASSUME NEW p \in Processes, WorkerFails(p) PROVE ProcessesTypeOK'
  BY <1>19 DEF WorkerFails
<1>20. ASSUME NEW p \in Processes, CheckLease(p) PROVE ProcessesTypeOK'
  BY <1>20 DEF CheckLease
<1>21. ASSUME NEW p \in Processes, LeaseLost(p) PROVE ProcessesTypeOK'
  BY <1>21 DEF LeaseLost
<1>22. ASSUME NEW p \in Processes, ReleaseLease(p) PROVE ProcessesTypeOK'
  BY <1>22 DEF ReleaseLease, ReleaseIfActive, SetLease
<1>23. ASSUME NEW p \in Processes, ApplyStage(p) PROVE ProcessesTypeOK'
  BY <1>23 DEF ApplyStage
<1>24. ASSUME NEW p \in Processes, ApplyFails(p) PROVE ProcessesTypeOK'
  BY <1>24 DEF ApplyFails
<1>25. ASSUME NEW p \in Processes, CompleteRun(p) PROVE ProcessesTypeOK'
  BY <1>25 DEF CompleteRun, SetRun
<1>26. ASSUME NEW p \in Processes, CompleteJob(p) PROVE ProcessesTypeOK'
  BY <1>26 DEF CompleteJob, SetJob, Job
<1>27. ASSUME NEW p \in Processes, CompleteExecution(p) PROVE ProcessesTypeOK'
  BY <1>27 DEF CompleteExecution, SetExecution
<1>28. ASSUME NEW p \in Processes, FailRun(p) PROVE ProcessesTypeOK'
  BY <1>28 DEF FailRun, SetRun
<1>29. ASSUME NEW p \in Processes, FailJob(p) PROVE ProcessesTypeOK'
  BY <1>29 DEF FailJob, SetJob, Job
<1>30. ASSUME NEW p \in Processes, FailExecution(p) PROVE ProcessesTypeOK'
  BY <1>30 DEF FailExecution, SetExecution
<1>31. ASSUME NEW p \in Processes, ReleaseAfterFailure(p) PROVE ProcessesTypeOK'
  BY <1>31 DEF ReleaseAfterFailure, ReleaseIfActive, SetLease
<1>32. ASSUME NEW p \in Processes, TerminateLease(p) PROVE ProcessesTypeOK'
  BY <1>32 DEF TerminateLease, SetLease
<1>33. ASSUME NEW p \in Processes, TerminateRefused(p) PROVE ProcessesTypeOK'
  BY <1>33 DEF TerminateRefused
<1>34. ASSUME NEW p \in Processes, CheckpointTimeout(p) PROVE ProcessesTypeOK'
  BY <1>34 DEF CheckpointTimeout
<1>35. ASSUME NEW p \in Processes, DedupIndexRejects(p) PROVE ProcessesTypeOK'
  BY <1>35 DEF DedupIndexRejects
<1>36. ASSUME NEW p \in Processes, Crash(p) PROVE ProcessesTypeOK'
  BY <1>36 DEF Crash
<1>37. CASE UNCHANGED vars
  BY <1>37 DEF vars
<1> QED
  BY <1>1, <1>2, <1>3, <1>4, <1>5, <1>6, <1>7, <1>8, <1>9, <1>10, <1>11, <1>12, <1>13, <1>14,
     <1>15, <1>16, <1>17, <1>18, <1>19, <1>20, <1>21, <1>22, <1>23, <1>24, <1>25, <1>26, <1>27,
     <1>28, <1>29, <1>30, <1>31, <1>32, <1>33, <1>34, <1>35, <1>36, <1>37
     DEF Next, Step, Supervise, Execute, Fail

\* No statement removes a run.
LEMMA RunsStay == TypeOK /\ [Next]_vars => RememberedRunsExist'
<1> SUFFICES ASSUME TypeOK, [Next]_vars PROVE RememberedRunsExist'
    OBVIOUS
<1> USE BackgroundJobsAssumption DEF TypeOK, TablesTypeOK, ProcessesTypeOK, RememberedRunsExist,
                                     HoldingPoints, RunPoints, InFlight, runVars, procVars, At,
                                     Goto, Exit
<1>1. ASSUME NEW j \in Jobs, PlanJob(j) PROVE RememberedRunsExist'
  BY <1>1 DEF PlanJob
<1>2. ASSUME NEW r \in Runs, LeaseTimePasses(r) PROVE RememberedRunsExist'
  BY <1>2 DEF LeaseTimePasses
<1>3. ASSUME NEW p \in Processes, ExpireDueLeases(p) PROVE RememberedRunsExist'
  BY <1>3 DEF ExpireDueLeases
<1>4. ASSUME NEW p \in Processes, CheckpointExpiredLease(p) PROVE RememberedRunsExist'
  BY <1>4 DEF CheckpointExpiredLease
<1>5. ASSUME NEW p \in Processes, FinishWatch(p) PROVE RememberedRunsExist'
  BY <1>5 DEF FinishWatch
<1>6. ASSUME NEW p \in Processes, ListStrandedRuns(p) PROVE RememberedRunsExist'
  BY <1>6 DEF ListStrandedRuns, StrandedRuns
<1>7. ASSUME NEW p \in Processes, IssueRestartTrigger(p) PROVE RememberedRunsExist'
  BY <1>7 DEF IssueRestartTrigger
<1>8. ASSUME NEW p \in Processes, RejectUnstartedRun(p) PROVE RememberedRunsExist'
  BY <1>8 DEF RejectUnstartedRun
<1>9. ASSUME NEW p \in Processes, FailStrandedRun(p) PROVE RememberedRunsExist'
  BY <1>9 DEF FailStrandedRun, SetRun
<1>10. ASSUME NEW p \in Processes, ReplanJob(p) PROVE RememberedRunsExist'
  BY <1>10 DEF ReplanJob, SetJob, Job
<1>11. ASSUME NEW p \in Processes, FailStrandedExecution(p) PROVE RememberedRunsExist'
  BY <1>11 DEF FailStrandedExecution, SetExecution
<1>12. ASSUME NEW p \in Processes, FinishRecovery(p) PROVE RememberedRunsExist'
  BY <1>12 DEF FinishRecovery
<1>13. ASSUME NEW p \in Processes, LeaseDueJob(p) PROVE RememberedRunsExist'
  BY <1>13 DEF LeaseDueJob, DueJobs, FreshRuns
<1>14. ASSUME NEW p \in Processes, NoDueJob(p) PROVE RememberedRunsExist'
  BY <1>14 DEF NoDueJob
<1>15. ASSUME NEW p \in Processes, StartJob(p) PROVE RememberedRunsExist'
  BY <1>15 DEF StartJob, SetJob, Job
<1>16. ASSUME NEW p \in Processes, StartRun(p) PROVE RememberedRunsExist'
  BY <1>16 DEF StartRun, SetRun
<1>17. ASSUME NEW p \in Processes, AcquireLease(p) PROVE RememberedRunsExist'
  BY <1>17 DEF AcquireLease, SetLease
<1>18. ASSUME NEW p \in Processes, WorkerAnswers(p) PROVE RememberedRunsExist'
  BY <1>18 DEF WorkerAnswers
<1>19. ASSUME NEW p \in Processes, WorkerFails(p) PROVE RememberedRunsExist'
  BY <1>19 DEF WorkerFails
<1>20. ASSUME NEW p \in Processes, CheckLease(p) PROVE RememberedRunsExist'
  BY <1>20 DEF CheckLease
<1>21. ASSUME NEW p \in Processes, LeaseLost(p) PROVE RememberedRunsExist'
  BY <1>21 DEF LeaseLost
<1>22. ASSUME NEW p \in Processes, ReleaseLease(p) PROVE RememberedRunsExist'
  BY <1>22 DEF ReleaseLease, ReleaseIfActive, SetLease
<1>23. ASSUME NEW p \in Processes, ApplyStage(p) PROVE RememberedRunsExist'
  BY <1>23 DEF ApplyStage
<1>24. ASSUME NEW p \in Processes, ApplyFails(p) PROVE RememberedRunsExist'
  BY <1>24 DEF ApplyFails
<1>25. ASSUME NEW p \in Processes, CompleteRun(p) PROVE RememberedRunsExist'
  BY <1>25 DEF CompleteRun, SetRun
<1>26. ASSUME NEW p \in Processes, CompleteJob(p) PROVE RememberedRunsExist'
  BY <1>26 DEF CompleteJob, SetJob, Job
<1>27. ASSUME NEW p \in Processes, CompleteExecution(p) PROVE RememberedRunsExist'
  <2>1. CASE Exit(p)
    BY <1>27, <2>1 DEF CompleteExecution
  <2>2. CASE cur' = [cur EXCEPT ![p] = None] /\ UNCHANGED todo
    BY <1>27, <2>2 DEF CompleteExecution
  <2> QED
    BY <1>27, <2>1, <2>2 DEF CompleteExecution
<1>28. ASSUME NEW p \in Processes, FailRun(p) PROVE RememberedRunsExist'
  BY <1>28 DEF FailRun, SetRun
<1>29. ASSUME NEW p \in Processes, FailJob(p) PROVE RememberedRunsExist'
  BY <1>29 DEF FailJob, SetJob, Job
<1>30. ASSUME NEW p \in Processes, FailExecution(p) PROVE RememberedRunsExist'
  <2>1. CASE Exit(p)
    BY <1>30, <2>1 DEF FailExecution
  <2>2. CASE Goto(p, "endLease")
    BY <1>30, <2>2 DEF FailExecution
  <2> QED
    BY <1>30, <2>1, <2>2 DEF FailExecution
<1>31. ASSUME NEW p \in Processes, ReleaseAfterFailure(p) PROVE RememberedRunsExist'
  BY <1>31 DEF ReleaseAfterFailure, ReleaseIfActive, SetLease
<1>32. ASSUME NEW p \in Processes, TerminateLease(p) PROVE RememberedRunsExist'
  BY <1>32 DEF TerminateLease, SetLease
<1>33. ASSUME NEW p \in Processes, TerminateRefused(p) PROVE RememberedRunsExist'
  BY <1>33 DEF TerminateRefused
<1>34. ASSUME NEW p \in Processes, CheckpointTimeout(p) PROVE RememberedRunsExist'
  BY <1>34 DEF CheckpointTimeout
<1>35. ASSUME NEW p \in Processes, DedupIndexRejects(p) PROVE RememberedRunsExist'
  BY <1>35 DEF DedupIndexRejects
<1>36. ASSUME NEW p \in Processes, Crash(p) PROVE RememberedRunsExist'
  BY <1>36 DEF Crash
<1>37. CASE UNCHANGED vars
  BY <1>37 DEF vars
<1> QED
  BY <1>1, <1>2, <1>3, <1>4, <1>5, <1>6, <1>7, <1>8, <1>9, <1>10, <1>11, <1>12, <1>13, <1>14,
     <1>15, <1>16, <1>17, <1>18, <1>19, <1>20, <1>21, <1>22, <1>23, <1>24, <1>25, <1>26, <1>27,
     <1>28, <1>29, <1>30, <1>31, <1>32, <1>33, <1>34, <1>35, <1>36, <1>37
     DEF Next, Step, Supervise, Execute, Fail

\* Type correctness of the tables and of what each process remembers, for any
\* set of services, operators and watchers: past a lease or a listing, a
\* process holds a run that exists, so no update of the code misses its row.
THEOREM TypeCorrect == Spec => []TypeOK
<1>1. Init => TypeOK
  BY BackgroundJobsAssumption
     DEF Init, TypeOK, TablesTypeOK, ProcessesTypeOK, RememberedRunsExist,
         HoldingPoints, ProgramPoints, LoopPoints, RunPoints, JobStatuses,
         RunStatuses, LeaseStatuses, Causes
<1>2. TypeOK /\ [Next]_vars => TypeOK'
  BY TablesTyped, ProcessesTyped, RunsStay DEF TypeOK
<1> QED
  BY <1>1, <1>2, PTL DEF Spec

-----------------------------------------------------------------------------
(* One executor. *)

\* One harness loop, or one operator, executes jobs; watchers are as many as
\* there are.
SingleExecutor == \A p, q \in Executors : p = q

\* A statement that leaves all that the invariant says of the tables.
TablesSame == UNCHANGED <<jobStatus, runStatus, runJob, execStatus, applied>>

\* The actions that write to a job, a run or an execution record.
Writes(p) ==
  \/ FailStrandedRun(p)
  \/ ReplanJob(p)
  \/ FailStrandedExecution(p)
  \/ LeaseDueJob(p)
  \/ StartJob(p)
  \/ StartRun(p)
  \/ ApplyStage(p)
  \/ CompleteRun(p)
  \/ CompleteJob(p)
  \/ CompleteExecution(p)
  \/ FailRun(p)
  \/ FailJob(p)
  \/ FailExecution(p)

\* Every other action leaves those tables alone.
LEMMA TableWriters ==
  [Next]_vars => TablesSame \/ (\E j \in Jobs : PlanJob(j))
                            \/ (\E p \in Processes : Writes(p))
<1> USE DEF TablesSame, jobVars, runVars
<1>1. ASSUME NEW r \in Runs, LeaseTimePasses(r) PROVE TablesSame
  BY <1>1 DEF LeaseTimePasses
<1>2. ASSUME NEW p \in Processes, Step(p), ~Writes(p) PROVE TablesSame
  <2>1. CASE ExpireDueLeases(p)
    BY <2>1 DEF ExpireDueLeases
  <2>2. CASE CheckpointExpiredLease(p)
    BY <2>2 DEF CheckpointExpiredLease
  <2>3. CASE FinishWatch(p)
    BY <2>3 DEF FinishWatch
  <2>4. CASE ListStrandedRuns(p)
    BY <2>4 DEF ListStrandedRuns
  <2>5. CASE IssueRestartTrigger(p)
    BY <2>5 DEF IssueRestartTrigger
  <2>6. CASE RejectUnstartedRun(p)
    BY <2>6 DEF RejectUnstartedRun
  <2>7. CASE FinishRecovery(p)
    BY <2>7 DEF FinishRecovery
  <2>8. CASE NoDueJob(p)
    BY <2>8 DEF NoDueJob
  <2>9. CASE AcquireLease(p)
    BY <2>9 DEF AcquireLease
  <2>10. CASE WorkerAnswers(p)
    BY <2>10 DEF WorkerAnswers
  <2>11. CASE WorkerFails(p)
    BY <2>11 DEF WorkerFails
  <2>12. CASE CheckLease(p)
    BY <2>12 DEF CheckLease
  <2>13. CASE LeaseLost(p)
    BY <2>13 DEF LeaseLost
  <2>14. CASE ReleaseLease(p)
    BY <2>14 DEF ReleaseLease
  <2>15. CASE ApplyFails(p)
    BY <2>15 DEF ApplyFails
  <2>16. CASE ReleaseAfterFailure(p)
    BY <2>16 DEF ReleaseAfterFailure
  <2>17. CASE TerminateLease(p)
    BY <2>17 DEF TerminateLease
  <2>18. CASE TerminateRefused(p)
    BY <2>18 DEF TerminateRefused
  <2>19. CASE CheckpointTimeout(p)
    BY <2>19 DEF CheckpointTimeout
  <2>20. CASE DedupIndexRejects(p)
    BY <2>20 DEF DedupIndexRejects
  <2> QED
    BY <1>2, <2>1, <2>2, <2>3, <2>4, <2>5, <2>6, <2>7, <2>8, <2>9, <2>10, <2>11, <2>12, <2>13,
       <2>14, <2>15, <2>16, <2>17, <2>18, <2>19, <2>20
       DEF Step, Supervise, Execute, Fail, Writes
<1>3. ASSUME NEW p \in Processes, Crash(p) PROVE TablesSame
  BY <1>3 DEF Crash
<1>4. CASE UNCHANGED vars
  BY <1>4 DEF vars
<1> QED
  BY <1>1, <1>2, <1>3, <1>4 DEF Next

\* A lease transaction takes a planned job and adds a run.
LEMMA LeasedPair ==
  ASSUME NEW p \in Processes, LeaseDueJob(p)
  PROVE  \E j \in Jobs, r \in Runs :
           /\ jobStatus[j] = "planned"
           /\ runStatus[r] = "none"
           /\ jobStatus' = [jobStatus EXCEPT ![j] = "leased"]
           /\ runStatus' = [runStatus EXCEPT ![r] = "leased"]
           /\ runJob' = [runJob EXCEPT ![r] = j]
           /\ execStatus' = [execStatus EXCEPT ![r] = "started"]
           /\ applied' = applied
           /\ cur' = [cur EXCEPT ![p] = r]
           /\ pc' = [pc EXCEPT ![p] = "startJob"]
           /\ todo' = todo
BY Zenon DEF LeaseDueJob, DueJobs, FreshRuns

\* A process at a statement about a run is the executor, and knows the rows.
LEMMA HeldRun ==
  ASSUME TypeOK, RecoveryInvariant, NEW p \in Processes, pc[p] \in HoldingPoints
  PROVE  /\ p \in Executors
         /\ cur[p] \in Runs
         /\ Job(p) \in Jobs
         /\ ExecutorKnows(p)
<1>1. p \in Executors
  BY DEF RecoveryInvariant, Processes, HoldingPoints, RunPoints
<1>2. cur[p] \in Runs
  BY DEF TypeOK, ProcessesTypeOK
<1>3. Job(p) \in Jobs
  BY <1>2 DEF TypeOK, TablesTypeOK, ProcessesTypeOK, RememberedRunsExist, Job
<1> QED
  BY <1>1, <1>2, <1>3 DEF RecoveryInvariant

\* Starting and replanning write to a job in flight.
LEMMA HeldJobInFlight ==
  ASSUME TypeOK, RecoveryInvariant, NEW p \in Processes,
         pc[p] \in {"startJob", "replanJob"}
  PROVE  /\ cur[p] \in Runs
         /\ Job(p) \in Jobs
         /\ jobStatus[Job(p)] \in InFlight
<1>1. pc[p] \in HoldingPoints
  BY DEF HoldingPoints, RunPoints
<1>2. cur[p] \in Runs /\ Job(p) \in Jobs /\ ExecutorKnows(p)
  BY <1>1, HeldRun
<1>3. CASE pc[p] = "startJob"
  <2>1. runStatus[cur[p]] \in InFlight
    BY <1>2, <1>3 DEF ExecutorKnows, InFlight
  <2> QED
    BY <1>2, <2>1 DEF RecoveryInvariant, JobsCoverRuns, Job
<1>4. CASE pc[p] = "replanJob"
  BY <1>2, <1>4 DEF ExecutorKnows
<1> QED
  BY <1>2, <1>3, <1>4

\* A run ends before its job does.
LEMMA CoverStep ==
  ASSUME SingleExecutor, TypeOK, RecoveryInvariant, [Next]_vars
  PROVE  JobsCoverRuns'
<1> USE BackgroundJobsAssumption DEF TypeOK, TablesTypeOK, ProcessesTypeOK, HoldingPoints,
                                     RunPoints, RecoveryInvariant, ExecutorKnows, Job, At,
                                     InFlight, runVars, jobVars, Processes, JobsCoverRuns,
                                     ActiveRunsOf
<1>1. CASE TablesSame
  BY <1>1 DEF TablesSame
<1>2. ASSUME NEW j \in Jobs, PlanJob(j) PROVE JobsCoverRuns'
  BY <1>2 DEF PlanJob, KeyFree
<1>3. ASSUME NEW p \in Processes, FailStrandedRun(p) PROVE JobsCoverRuns'
  BY <1>3 DEF FailStrandedRun, SetRun
<1>4. ASSUME NEW p \in Processes, ReplanJob(p) PROVE JobsCoverRuns'
  BY <1>4 DEF ReplanJob, SetJob, Job
<1>5. ASSUME NEW p \in Processes, FailStrandedExecution(p) PROVE JobsCoverRuns'
  BY <1>5 DEF FailStrandedExecution, SetExecution
<1>6. ASSUME NEW p \in Processes, LeaseDueJob(p) PROVE JobsCoverRuns'
  <2>1. PICK j \in Jobs, r \in Runs :
          /\ jobStatus[j] = "planned"
          /\ runStatus[r] = "none"
          /\ jobStatus' = [jobStatus EXCEPT ![j] = "leased"]
          /\ runStatus' = [runStatus EXCEPT ![r] = "leased"]
          /\ runJob' = [runJob EXCEPT ![r] = j]
          /\ execStatus' = [execStatus EXCEPT ![r] = "started"]
    BY <1>6, LeasedPair
  <2> QED
    BY <2>1
<1>7. ASSUME NEW p \in Processes, StartJob(p) PROVE JobsCoverRuns'
  BY <1>7 DEF StartJob, SetJob, Job
<1>8. ASSUME NEW p \in Processes, StartRun(p) PROVE JobsCoverRuns'
  BY <1>8 DEF StartRun, SetRun
<1>9. ASSUME NEW p \in Processes, ApplyStage(p) PROVE JobsCoverRuns'
  BY <1>9 DEF ApplyStage
<1>10. ASSUME NEW p \in Processes, CompleteRun(p) PROVE JobsCoverRuns'
  BY <1>10 DEF CompleteRun, SetRun
<1>11. ASSUME NEW p \in Processes, CompleteJob(p) PROVE JobsCoverRuns'
  BY <1>11 DEF CompleteJob, SetJob, Job
<1>12. ASSUME NEW p \in Processes, CompleteExecution(p) PROVE JobsCoverRuns'
  BY <1>12 DEF CompleteExecution, SetExecution
<1>13. ASSUME NEW p \in Processes, FailRun(p) PROVE JobsCoverRuns'
  BY <1>13 DEF FailRun, SetRun
<1>14. ASSUME NEW p \in Processes, FailJob(p) PROVE JobsCoverRuns'
  BY <1>14 DEF FailJob, SetJob, Job
<1>15. ASSUME NEW p \in Processes, FailExecution(p) PROVE JobsCoverRuns'
  BY <1>15 DEF FailExecution, SetExecution
<1> QED
  BY TableWriters, <1>1, <1>2, <1>3, <1>4, <1>5, <1>6, <1>7, <1>8, <1>9, <1>10, <1>11, <1>12,
     <1>13, <1>14, <1>15
     DEF Writes

\* A job is leased only when no run of it is in flight.
LEMMA OneActiveStep ==
  ASSUME SingleExecutor, TypeOK, RecoveryInvariant, [Next]_vars
  PROVE  OneActiveRunPerJob'
<1> USE BackgroundJobsAssumption DEF TypeOK, TablesTypeOK, ProcessesTypeOK, HoldingPoints,
                                     RunPoints, RecoveryInvariant, ExecutorKnows, Job, At,
                                     InFlight, runVars, jobVars, Processes, JobsCoverRuns,
                                     OneActiveRunPerJob
<1>1. CASE TablesSame
  BY <1>1 DEF TablesSame
<1>2. ASSUME NEW j \in Jobs, PlanJob(j) PROVE OneActiveRunPerJob'
  BY <1>2 DEF PlanJob, KeyFree
<1>3. ASSUME NEW p \in Processes, FailStrandedRun(p) PROVE OneActiveRunPerJob'
  BY <1>3 DEF FailStrandedRun, SetRun
<1>4. ASSUME NEW p \in Processes, ReplanJob(p) PROVE OneActiveRunPerJob'
  BY <1>4 DEF ReplanJob, SetJob, Job
<1>5. ASSUME NEW p \in Processes, FailStrandedExecution(p) PROVE OneActiveRunPerJob'
  BY <1>5 DEF FailStrandedExecution, SetExecution
<1>6. ASSUME NEW p \in Processes, LeaseDueJob(p) PROVE OneActiveRunPerJob'
  <2>1. PICK j \in Jobs, r \in Runs :
          /\ jobStatus[j] = "planned"
          /\ runStatus[r] = "none"
          /\ jobStatus' = [jobStatus EXCEPT ![j] = "leased"]
          /\ runStatus' = [runStatus EXCEPT ![r] = "leased"]
          /\ runJob' = [runJob EXCEPT ![r] = j]
          /\ execStatus' = [execStatus EXCEPT ![r] = "started"]
    BY <1>6, LeasedPair
  <2> QED
    BY <2>1
<1>7. ASSUME NEW p \in Processes, StartJob(p) PROVE OneActiveRunPerJob'
  BY <1>7 DEF StartJob, SetJob, Job
<1>8. ASSUME NEW p \in Processes, StartRun(p) PROVE OneActiveRunPerJob'
  BY <1>8 DEF StartRun, SetRun
<1>9. ASSUME NEW p \in Processes, ApplyStage(p) PROVE OneActiveRunPerJob'
  BY <1>9 DEF ApplyStage
<1>10. ASSUME NEW p \in Processes, CompleteRun(p) PROVE OneActiveRunPerJob'
  BY <1>10 DEF CompleteRun, SetRun
<1>11. ASSUME NEW p \in Processes, CompleteJob(p) PROVE OneActiveRunPerJob'
  BY <1>11 DEF CompleteJob, SetJob, Job
<1>12. ASSUME NEW p \in Processes, CompleteExecution(p) PROVE OneActiveRunPerJob'
  BY <1>12 DEF CompleteExecution, SetExecution
<1>13. ASSUME NEW p \in Processes, FailRun(p) PROVE OneActiveRunPerJob'
  BY <1>13 DEF FailRun, SetRun
<1>14. ASSUME NEW p \in Processes, FailJob(p) PROVE OneActiveRunPerJob'
  BY <1>14 DEF FailJob, SetJob, Job
<1>15. ASSUME NEW p \in Processes, FailExecution(p) PROVE OneActiveRunPerJob'
  BY <1>15 DEF FailExecution, SetExecution
<1> QED
  BY TableWriters, <1>1, <1>2, <1>3, <1>4, <1>5, <1>6, <1>7, <1>8, <1>9, <1>10, <1>11, <1>12,
     <1>13, <1>14, <1>15
     DEF Writes

\* Only planning makes a job active, and it looks at the key first.
LEMMA KeysStep ==
  ASSUME SingleExecutor, TypeOK, RecoveryInvariant, [Next]_vars
  PROVE  KeysUnique'
<1> USE BackgroundJobsAssumption DEF TypeOK, TablesTypeOK, ProcessesTypeOK, HoldingPoints,
                                     RunPoints, RecoveryInvariant, ExecutorKnows, Job, At,
                                     InFlight, runVars, jobVars, Processes, JobsCoverRuns,
                                     KeysUnique
<1>1. CASE TablesSame
  BY <1>1 DEF TablesSame
<1>2. ASSUME NEW j \in Jobs, PlanJob(j) PROVE KeysUnique'
  BY <1>2 DEF PlanJob, KeyFree
<1>3. ASSUME NEW p \in Processes, FailStrandedRun(p) PROVE KeysUnique'
  BY <1>3 DEF FailStrandedRun, SetRun
<1>4. ASSUME NEW p \in Processes, ReplanJob(p) PROVE KeysUnique'
  <2>1. cur[p] \in Runs /\ Job(p) \in Jobs /\ jobStatus[Job(p)] \in InFlight
    BY <1>4, HeldJobInFlight DEF ReplanJob
  <2>2. \A k \in Jobs : jobStatus'[k] \in {"planned"} \cup InFlight =>
                         jobStatus[k] \in {"planned"} \cup InFlight
    BY <1>4, <2>1 DEF ReplanJob, SetJob
  <2> QED
    BY <2>2
<1>5. ASSUME NEW p \in Processes, FailStrandedExecution(p) PROVE KeysUnique'
  BY <1>5 DEF FailStrandedExecution, SetExecution
<1>6. ASSUME NEW p \in Processes, LeaseDueJob(p) PROVE KeysUnique'
  <2>1. PICK j \in Jobs, r \in Runs :
          /\ jobStatus[j] = "planned"
          /\ runStatus[r] = "none"
          /\ jobStatus' = [jobStatus EXCEPT ![j] = "leased"]
          /\ runStatus' = [runStatus EXCEPT ![r] = "leased"]
          /\ runJob' = [runJob EXCEPT ![r] = j]
          /\ execStatus' = [execStatus EXCEPT ![r] = "started"]
    BY <1>6, LeasedPair
  <2> QED
    BY <2>1
<1>7. ASSUME NEW p \in Processes, StartJob(p) PROVE KeysUnique'
  <2>1. cur[p] \in Runs /\ Job(p) \in Jobs /\ jobStatus[Job(p)] \in InFlight
    BY <1>7, HeldJobInFlight DEF StartJob
  <2>2. \A k \in Jobs : jobStatus'[k] \in {"planned"} \cup InFlight =>
                         jobStatus[k] \in {"planned"} \cup InFlight
    BY <1>7, <2>1 DEF StartJob, SetJob
  <2> QED
    BY <2>2
<1>8. ASSUME NEW p \in Processes, StartRun(p) PROVE KeysUnique'
  BY <1>8 DEF StartRun, SetRun
<1>9. ASSUME NEW p \in Processes, ApplyStage(p) PROVE KeysUnique'
  BY <1>9 DEF ApplyStage
<1>10. ASSUME NEW p \in Processes, CompleteRun(p) PROVE KeysUnique'
  BY <1>10 DEF CompleteRun, SetRun
<1>11. ASSUME NEW p \in Processes, CompleteJob(p) PROVE KeysUnique'
  BY <1>11 DEF CompleteJob, SetJob, Job
<1>12. ASSUME NEW p \in Processes, CompleteExecution(p) PROVE KeysUnique'
  BY <1>12 DEF CompleteExecution, SetExecution
<1>13. ASSUME NEW p \in Processes, FailRun(p) PROVE KeysUnique'
  BY <1>13 DEF FailRun, SetRun
<1>14. ASSUME NEW p \in Processes, FailJob(p) PROVE KeysUnique'
  BY <1>14 DEF FailJob, SetJob, Job
<1>15. ASSUME NEW p \in Processes, FailExecution(p) PROVE KeysUnique'
  BY <1>15 DEF FailExecution, SetExecution
<1> QED
  BY TableWriters, <1>1, <1>2, <1>3, <1>4, <1>5, <1>6, <1>7, <1>8, <1>9, <1>10, <1>11, <1>12,
     <1>13, <1>14, <1>15
     DEF Writes

\* Completion is written after the results, run before job.
LEMMA CompletedStep ==
  ASSUME SingleExecutor, TypeOK, RecoveryInvariant, [Next]_vars
  PROVE  CompletedMeansApplied'
<1> USE BackgroundJobsAssumption DEF TypeOK, TablesTypeOK, ProcessesTypeOK, HoldingPoints,
                                     RunPoints, RecoveryInvariant, ExecutorKnows, Job, At,
                                     InFlight, runVars, jobVars, Processes, CompletedMeansApplied
<1>1. CASE TablesSame
  BY <1>1 DEF TablesSame
<1>2. ASSUME NEW j \in Jobs, PlanJob(j) PROVE CompletedMeansApplied'
  BY <1>2 DEF PlanJob, KeyFree
<1>3. ASSUME NEW p \in Processes, FailStrandedRun(p) PROVE CompletedMeansApplied'
  BY <1>3 DEF FailStrandedRun, SetRun
<1>4. ASSUME NEW p \in Processes, ReplanJob(p) PROVE CompletedMeansApplied'
  BY <1>4 DEF ReplanJob, SetJob, Job
<1>5. ASSUME NEW p \in Processes, FailStrandedExecution(p) PROVE CompletedMeansApplied'
  BY <1>5 DEF FailStrandedExecution, SetExecution
<1>6. ASSUME NEW p \in Processes, LeaseDueJob(p) PROVE CompletedMeansApplied'
  BY <1>6 DEF LeaseDueJob, DueJobs, FreshRuns
<1>7. ASSUME NEW p \in Processes, StartJob(p) PROVE CompletedMeansApplied'
  BY <1>7 DEF StartJob, SetJob, Job
<1>8. ASSUME NEW p \in Processes, StartRun(p) PROVE CompletedMeansApplied'
  BY <1>8 DEF StartRun, SetRun
<1>9. ASSUME NEW p \in Processes, ApplyStage(p) PROVE CompletedMeansApplied'
  BY <1>9 DEF ApplyStage
<1>10. ASSUME NEW p \in Processes, CompleteRun(p) PROVE CompletedMeansApplied'
  BY <1>10 DEF CompleteRun, SetRun
<1>11. ASSUME NEW p \in Processes, CompleteJob(p) PROVE CompletedMeansApplied'
  <2>1. cur[p] \in Runs /\ Job(p) \in Jobs /\ runStatus[cur[p]] = "completed"
    BY <1>11, HeldRun DEF CompleteJob
  <2>2. \A j \in Jobs : jobStatus'[j] = "completed" => j = Job(p) \/ jobStatus[j] = "completed"
    BY <1>11, <2>1 DEF CompleteJob, SetJob
  <2>3. UNCHANGED <<runStatus, runJob, applied>>
    BY <1>11 DEF CompleteJob
  <2>4. ASSUME NEW j \in Jobs, jobStatus'[j] = "completed"
        PROVE  \E r \in Runs : runJob'[r] = j /\ runStatus'[r] = "completed"
    <3>1. CASE j = Job(p)
      BY <2>1, <2>3, <3>1
    <3>2. CASE jobStatus[j] = "completed"
      BY <2>3, <3>2
    <3> QED
      BY <2>2, <2>4, <3>1, <3>2
  <2> QED
    BY <2>3, <2>4
<1>12. ASSUME NEW p \in Processes, CompleteExecution(p) PROVE CompletedMeansApplied'
  BY <1>12 DEF CompleteExecution, SetExecution
<1>13. ASSUME NEW p \in Processes, FailRun(p) PROVE CompletedMeansApplied'
  BY <1>13 DEF FailRun, SetRun
<1>14. ASSUME NEW p \in Processes, FailJob(p) PROVE CompletedMeansApplied'
  BY <1>14 DEF FailJob, SetJob, Job
<1>15. ASSUME NEW p \in Processes, FailExecution(p) PROVE CompletedMeansApplied'
  BY <1>15 DEF FailExecution, SetExecution
<1> QED
  BY TableWriters, <1>1, <1>2, <1>3, <1>4, <1>5, <1>6, <1>7, <1>8, <1>9, <1>10, <1>11, <1>12,
     <1>13, <1>14, <1>15
     DEF Writes

\* An execution record is written after its run and its job.
LEMMA ExecutionStep ==
  ASSUME SingleExecutor, TypeOK, RecoveryInvariant, [Next]_vars
  PROVE  ExecutionReportsTruth'
<1> USE BackgroundJobsAssumption DEF TypeOK, TablesTypeOK, ProcessesTypeOK, HoldingPoints,
                                     RunPoints, RecoveryInvariant, ExecutorKnows, Job, At,
                                     InFlight, runVars, jobVars, Processes,
                                     ExecutionReportsTruth, JobsCoverRuns
<1>1. CASE TablesSame
  BY <1>1 DEF TablesSame
<1>2. ASSUME NEW j \in Jobs, PlanJob(j) PROVE ExecutionReportsTruth'
  BY <1>2 DEF PlanJob, KeyFree
<1>3. ASSUME NEW p \in Processes, FailStrandedRun(p) PROVE ExecutionReportsTruth'
  BY <1>3 DEF FailStrandedRun, SetRun
<1>4. ASSUME NEW p \in Processes, ReplanJob(p) PROVE ExecutionReportsTruth'
  BY <1>4 DEF ReplanJob, SetJob, Job
<1>5. ASSUME NEW p \in Processes, FailStrandedExecution(p) PROVE ExecutionReportsTruth'
  BY <1>5 DEF FailStrandedExecution, SetExecution
<1>6. ASSUME NEW p \in Processes, LeaseDueJob(p) PROVE ExecutionReportsTruth'
  <2>1. PICK j \in Jobs, r \in Runs :
          /\ jobStatus[j] = "planned"
          /\ runStatus[r] = "none"
          /\ jobStatus' = [jobStatus EXCEPT ![j] = "leased"]
          /\ runStatus' = [runStatus EXCEPT ![r] = "leased"]
          /\ runJob' = [runJob EXCEPT ![r] = j]
          /\ execStatus' = [execStatus EXCEPT ![r] = "started"]
    BY <1>6, LeasedPair
  <2> QED
    BY <2>1
<1>7. ASSUME NEW p \in Processes, StartJob(p) PROVE ExecutionReportsTruth'
  <2>1. cur[p] \in Runs /\ Job(p) \in Jobs /\ jobStatus[Job(p)] \in InFlight
    BY <1>7, HeldJobInFlight DEF StartJob
  <2>2. \A j \in Jobs : jobStatus[j] = "completed" => jobStatus'[j] = "completed"
    BY <1>7, <2>1 DEF StartJob, SetJob
  <2>3. UNCHANGED <<runStatus, runJob, execStatus>>
    BY <1>7 DEF StartJob
  <2>4. \A r \in Runs : runStatus[r] = "completed" => runJob[r] \in Jobs
    OBVIOUS
  <2> QED
    BY <2>2, <2>3, <2>4
<1>8. ASSUME NEW p \in Processes, StartRun(p) PROVE ExecutionReportsTruth'
  BY <1>8 DEF StartRun, SetRun
<1>9. ASSUME NEW p \in Processes, ApplyStage(p) PROVE ExecutionReportsTruth'
  BY <1>9 DEF ApplyStage
<1>10. ASSUME NEW p \in Processes, CompleteRun(p) PROVE ExecutionReportsTruth'
  BY <1>10 DEF CompleteRun, SetRun
<1>11. ASSUME NEW p \in Processes, CompleteJob(p) PROVE ExecutionReportsTruth'
  BY <1>11 DEF CompleteJob, SetJob, Job
<1>12. ASSUME NEW p \in Processes, CompleteExecution(p) PROVE ExecutionReportsTruth'
  BY <1>12 DEF CompleteExecution, SetExecution
<1>13. ASSUME NEW p \in Processes, FailRun(p) PROVE ExecutionReportsTruth'
  BY <1>13 DEF FailRun, SetRun
<1>14. ASSUME NEW p \in Processes, FailJob(p) PROVE ExecutionReportsTruth'
  BY <1>14 DEF FailJob, SetJob, Job
<1>15. ASSUME NEW p \in Processes, FailExecution(p) PROVE ExecutionReportsTruth'
  BY <1>15 DEF FailExecution, SetExecution
<1> QED
  BY TableWriters, <1>1, <1>2, <1>3, <1>4, <1>5, <1>6, <1>7, <1>8, <1>9, <1>10, <1>11, <1>12,
     <1>13, <1>14, <1>15
     DEF Writes

\* Ending the only run in flight of a job leaves it none.
LEMMA RunEndFreesJob ==
  ASSUME TypeOK, RecoveryInvariant, NEW p \in Processes, pc[p] \in HoldingPoints,
         runStatus[cur[p]] \in InFlight, NEW ending \in RunEnded, SetRun(p, ending),
         UNCHANGED <<jobStatus, runJob>>, UNCHANGED cur
  PROVE  /\ runStatus'[cur[p]] = ending
         /\ jobStatus'[Job(p)'] \in InFlight
         /\ ActiveRunsOf(Job(p))' = {}
         /\ \A r \in Runs : r # cur[p] => runStatus'[r] = runStatus[r]
<1>1. cur[p] \in Runs /\ Job(p) \in Jobs
  BY HeldRun
<1>2. runStatus' = [runStatus EXCEPT ![cur[p]] = ending] /\ Job(p)' = Job(p)
  BY DEF SetRun, Job
<1>3. runStatus \in [Runs -> RunStatuses]
  BY DEF TypeOK, TablesTypeOK
<1>4. jobStatus'[Job(p)] \in InFlight
  BY <1>1 DEF RecoveryInvariant, JobsCoverRuns, Job
<1>5. \A r \in Runs : runStatus[r] \in InFlight /\ runJob[r] = Job(p) => r = cur[p]
  BY <1>1 DEF RecoveryInvariant, OneActiveRunPerJob, Job
<1>6. ending \notin InFlight
  BY DEF InFlight, RunEnded
<1>7. ActiveRunsOf(Job(p))' = {}
  BY <1>1, <1>2, <1>3, <1>5, <1>6 DEF ActiveRunsOf
<1> QED
  BY <1>1, <1>2, <1>3, <1>4, <1>7

\* What the executor knows holds before each of its statements.
LEMMA KnowsStep ==
  ASSUME SingleExecutor, TypeOK, RecoveryInvariant, [Next]_vars, NEW q \in Executors
  PROVE  ExecutorKnows(q)'
<1> USE BackgroundJobsAssumption DEF SingleExecutor, TypeOK, TablesTypeOK, ProcessesTypeOK,
                                     HoldingPoints, RunPoints, RecoveryInvariant, ExecutorKnows,
                                     RecoveryPoints, ActiveRunsOf, Job, At, Goto, Exit,
                                     InFlight, runVars, jobVars, procVars, Processes
<1>1. ASSUME NEW j \in Jobs, PlanJob(j) PROVE ExecutorKnows(q)'
  BY <1>1 DEF PlanJob
<1>2. ASSUME NEW r \in Runs, LeaseTimePasses(r) PROVE ExecutorKnows(q)'
  BY <1>2 DEF LeaseTimePasses
<1>3. ASSUME NEW p \in Processes, ExpireDueLeases(p) PROVE ExecutorKnows(q)'
  BY <1>3 DEF ExpireDueLeases
<1>4. ASSUME NEW p \in Processes, CheckpointExpiredLease(p) PROVE ExecutorKnows(q)'
  BY <1>4 DEF CheckpointExpiredLease
<1>5. ASSUME NEW p \in Processes, FinishWatch(p) PROVE ExecutorKnows(q)'
  BY <1>5 DEF FinishWatch
<1>6. ASSUME NEW p \in Processes, ListStrandedRuns(p) PROVE ExecutorKnows(q)'
  BY <1>6 DEF ListStrandedRuns, StrandedRuns
<1>7. ASSUME NEW p \in Processes, IssueRestartTrigger(p) PROVE ExecutorKnows(q)'
  BY <1>7 DEF IssueRestartTrigger
<1>8. ASSUME NEW p \in Processes, RejectUnstartedRun(p) PROVE ExecutorKnows(q)'
  BY <1>8 DEF RejectUnstartedRun
<1>9. ASSUME NEW p \in Processes, FailStrandedRun(p) PROVE ExecutorKnows(q)'
  <2>1. /\ runStatus'[cur[p]] = "failed"
        /\ jobStatus'[Job(p)'] \in InFlight
        /\ ActiveRunsOf(Job(p))' = {}
        /\ \A r \in Runs : r # cur[p] => runStatus'[r] = runStatus[r]
    BY <1>9, HeldRun, RunEndFreesJob DEF FailStrandedRun, RunEnded
  <2> QED
    BY <1>9, <2>1 DEF FailStrandedRun
<1>10. ASSUME NEW p \in Processes, ReplanJob(p) PROVE ExecutorKnows(q)'
  BY <1>10 DEF ReplanJob, SetJob, Job
<1>11. ASSUME NEW p \in Processes, FailStrandedExecution(p) PROVE ExecutorKnows(q)'
  BY <1>11 DEF FailStrandedExecution, SetExecution
<1>12. ASSUME NEW p \in Processes, FinishRecovery(p) PROVE ExecutorKnows(q)'
  BY <1>12 DEF FinishRecovery
<1>13. ASSUME NEW p \in Processes, LeaseDueJob(p) PROVE ExecutorKnows(q)'
  BY <1>13 DEF LeaseDueJob, DueJobs, FreshRuns
<1>14. ASSUME NEW p \in Processes, NoDueJob(p) PROVE ExecutorKnows(q)'
  BY <1>14 DEF NoDueJob
<1>15. ASSUME NEW p \in Processes, StartJob(p) PROVE ExecutorKnows(q)'
  BY <1>15 DEF StartJob, SetJob, Job
<1>16. ASSUME NEW p \in Processes, StartRun(p) PROVE ExecutorKnows(q)'
  BY <1>16 DEF StartRun, SetRun
<1>17. ASSUME NEW p \in Processes, AcquireLease(p) PROVE ExecutorKnows(q)'
  BY <1>17 DEF AcquireLease, SetLease
<1>18. ASSUME NEW p \in Processes, WorkerAnswers(p) PROVE ExecutorKnows(q)'
  BY <1>18 DEF WorkerAnswers
<1>19. ASSUME NEW p \in Processes, WorkerFails(p) PROVE ExecutorKnows(q)'
  BY <1>19 DEF WorkerFails
<1>20. ASSUME NEW p \in Processes, CheckLease(p) PROVE ExecutorKnows(q)'
  BY <1>20 DEF CheckLease
<1>21. ASSUME NEW p \in Processes, LeaseLost(p) PROVE ExecutorKnows(q)'
  BY <1>21 DEF LeaseLost
<1>22. ASSUME NEW p \in Processes, ReleaseLease(p) PROVE ExecutorKnows(q)'
  BY <1>22 DEF ReleaseLease, ReleaseIfActive, SetLease
<1>23. ASSUME NEW p \in Processes, ApplyStage(p) PROVE ExecutorKnows(q)'
  BY <1>23 DEF ApplyStage
<1>24. ASSUME NEW p \in Processes, ApplyFails(p) PROVE ExecutorKnows(q)'
  BY <1>24 DEF ApplyFails
<1>25. ASSUME NEW p \in Processes, CompleteRun(p) PROVE ExecutorKnows(q)'
  <2>1. /\ runStatus'[cur[p]] = "completed"
        /\ jobStatus'[Job(p)'] \in InFlight
        /\ ActiveRunsOf(Job(p))' = {}
        /\ \A r \in Runs : r # cur[p] => runStatus'[r] = runStatus[r]
    BY <1>25, HeldRun, RunEndFreesJob DEF CompleteRun, RunEnded
  <2> QED
    BY <1>25, <2>1 DEF CompleteRun
<1>26. ASSUME NEW p \in Processes, CompleteJob(p) PROVE ExecutorKnows(q)'
  <2>1. /\ p = q
        /\ jobStatus'[Job(p)'] = "completed"
        /\ runStatus' = runStatus
        /\ runStatus[cur[p]] = "completed"
        /\ pc'[q] = "completeExecution"
        /\ cur' = cur
    BY <1>26, HeldRun DEF CompleteJob, SetJob
  <2> QED
    BY <2>1
<1>27. ASSUME NEW p \in Processes, CompleteExecution(p) PROVE ExecutorKnows(q)'
  BY <1>27 DEF CompleteExecution, SetExecution
<1>28. ASSUME NEW p \in Processes, FailRun(p) PROVE ExecutorKnows(q)'
  <2> DEFINE ending == IF cause[p] = "timed_out" THEN "timed_out" ELSE "failed"
  <2>1. SetRun(p, ending) /\ ending \in {"failed", "timed_out"}
    BY <1>28 DEF FailRun
  <2> HIDE DEF ending
  <2>2. /\ runStatus'[cur[p]] = ending
        /\ jobStatus'[Job(p)'] \in InFlight
        /\ ActiveRunsOf(Job(p))' = {}
        /\ \A r \in Runs : r # cur[p] => runStatus'[r] = runStatus[r]
    BY <1>28, <2>1, HeldRun, RunEndFreesJob DEF FailRun, RunEnded
  <2> QED
    BY <1>28, <2>1, <2>2 DEF FailRun
<1>29. ASSUME NEW p \in Processes, FailJob(p) PROVE ExecutorKnows(q)'
  BY <1>29 DEF FailJob, SetJob, Job
<1>30. ASSUME NEW p \in Processes, FailExecution(p) PROVE ExecutorKnows(q)'
  BY <1>30 DEF FailExecution, SetExecution
<1>31. ASSUME NEW p \in Processes, ReleaseAfterFailure(p) PROVE ExecutorKnows(q)'
  BY <1>31 DEF ReleaseAfterFailure, ReleaseIfActive, SetLease
<1>32. ASSUME NEW p \in Processes, TerminateLease(p) PROVE ExecutorKnows(q)'
  BY <1>32 DEF TerminateLease, SetLease
<1>33. ASSUME NEW p \in Processes, TerminateRefused(p) PROVE ExecutorKnows(q)'
  BY <1>33 DEF TerminateRefused
<1>34. ASSUME NEW p \in Processes, CheckpointTimeout(p) PROVE ExecutorKnows(q)'
  BY <1>34 DEF CheckpointTimeout
<1>35. ASSUME NEW p \in Processes, DedupIndexRejects(p) PROVE ExecutorKnows(q)'
  BY <1>35 DEF DedupIndexRejects
<1>36. ASSUME NEW p \in Processes, Crash(p) PROVE ExecutorKnows(q)'
  BY <1>36 DEF Crash
<1>37. CASE UNCHANGED vars
  BY <1>37 DEF vars
<1> QED
  BY <1>1, <1>2, <1>3, <1>4, <1>5, <1>6, <1>7, <1>8, <1>9, <1>10, <1>11, <1>12, <1>13, <1>14,
     <1>15, <1>16, <1>17, <1>18, <1>19, <1>20, <1>21, <1>22, <1>23, <1>24, <1>25, <1>26, <1>27,
     <1>28, <1>29, <1>30, <1>31, <1>32, <1>33, <1>34, <1>35, <1>36, <1>37
     DEF Next, Step, Supervise, Execute, Fail

\* A watcher never leaves the supervision of leases.
LEMMA WatchersStep ==
  ASSUME TypeOK, RecoveryInvariant, [Next]_vars, NEW w \in Watchers
  PROVE  pc'[w] \in {"idle", "checkpointLeases"}
<1> USE BackgroundJobsAssumption DEF TypeOK, ProcessesTypeOK, RecoveryInvariant, At, Goto, Exit,
                                     procVars, Processes
<1>1. ASSUME NEW j \in Jobs, PlanJob(j) PROVE pc'[w] \in {"idle", "checkpointLeases"}
  BY <1>1 DEF PlanJob
<1>2. ASSUME NEW r \in Runs, LeaseTimePasses(r) PROVE pc'[w] \in {"idle", "checkpointLeases"}
  BY <1>2 DEF LeaseTimePasses
<1>3. ASSUME NEW p \in Processes, ExpireDueLeases(p) PROVE pc'[w] \in {"idle", "checkpointLeases"}
  BY <1>3 DEF ExpireDueLeases
<1>4. ASSUME NEW p \in Processes, CheckpointExpiredLease(p) PROVE pc'[w] \in {"idle", "checkpointLeases"}
  BY <1>4 DEF CheckpointExpiredLease
<1>5. ASSUME NEW p \in Processes, FinishWatch(p) PROVE pc'[w] \in {"idle", "checkpointLeases"}
  BY <1>5 DEF FinishWatch
<1>6. ASSUME NEW p \in Processes, ListStrandedRuns(p) PROVE pc'[w] \in {"idle", "checkpointLeases"}
  BY <1>6 DEF ListStrandedRuns, Executors
<1>7. ASSUME NEW p \in Processes, IssueRestartTrigger(p) PROVE pc'[w] \in {"idle", "checkpointLeases"}
  BY <1>7 DEF IssueRestartTrigger
<1>8. ASSUME NEW p \in Processes, RejectUnstartedRun(p) PROVE pc'[w] \in {"idle", "checkpointLeases"}
  BY <1>8 DEF RejectUnstartedRun
<1>9. ASSUME NEW p \in Processes, FailStrandedRun(p) PROVE pc'[w] \in {"idle", "checkpointLeases"}
  BY <1>9 DEF FailStrandedRun
<1>10. ASSUME NEW p \in Processes, ReplanJob(p) PROVE pc'[w] \in {"idle", "checkpointLeases"}
  BY <1>10 DEF ReplanJob
<1>11. ASSUME NEW p \in Processes, FailStrandedExecution(p) PROVE pc'[w] \in {"idle", "checkpointLeases"}
  BY <1>11 DEF FailStrandedExecution
<1>12. ASSUME NEW p \in Processes, FinishRecovery(p) PROVE pc'[w] \in {"idle", "checkpointLeases"}
  BY <1>12 DEF FinishRecovery
<1>13. ASSUME NEW p \in Processes, LeaseDueJob(p) PROVE pc'[w] \in {"idle", "checkpointLeases"}
  BY <1>13 DEF LeaseDueJob
<1>14. ASSUME NEW p \in Processes, NoDueJob(p) PROVE pc'[w] \in {"idle", "checkpointLeases"}
  BY <1>14 DEF NoDueJob
<1>15. ASSUME NEW p \in Processes, StartJob(p) PROVE pc'[w] \in {"idle", "checkpointLeases"}
  BY <1>15 DEF StartJob
<1>16. ASSUME NEW p \in Processes, StartRun(p) PROVE pc'[w] \in {"idle", "checkpointLeases"}
  BY <1>16 DEF StartRun
<1>17. ASSUME NEW p \in Processes, AcquireLease(p) PROVE pc'[w] \in {"idle", "checkpointLeases"}
  BY <1>17 DEF AcquireLease
<1>18. ASSUME NEW p \in Processes, WorkerAnswers(p) PROVE pc'[w] \in {"idle", "checkpointLeases"}
  BY <1>18 DEF WorkerAnswers
<1>19. ASSUME NEW p \in Processes, WorkerFails(p) PROVE pc'[w] \in {"idle", "checkpointLeases"}
  BY <1>19 DEF WorkerFails
<1>20. ASSUME NEW p \in Processes, CheckLease(p) PROVE pc'[w] \in {"idle", "checkpointLeases"}
  BY <1>20 DEF CheckLease
<1>21. ASSUME NEW p \in Processes, LeaseLost(p) PROVE pc'[w] \in {"idle", "checkpointLeases"}
  BY <1>21 DEF LeaseLost
<1>22. ASSUME NEW p \in Processes, ReleaseLease(p) PROVE pc'[w] \in {"idle", "checkpointLeases"}
  BY <1>22 DEF ReleaseLease
<1>23. ASSUME NEW p \in Processes, ApplyStage(p) PROVE pc'[w] \in {"idle", "checkpointLeases"}
  BY <1>23 DEF ApplyStage
<1>24. ASSUME NEW p \in Processes, ApplyFails(p) PROVE pc'[w] \in {"idle", "checkpointLeases"}
  BY <1>24 DEF ApplyFails
<1>25. ASSUME NEW p \in Processes, CompleteRun(p) PROVE pc'[w] \in {"idle", "checkpointLeases"}
  BY <1>25 DEF CompleteRun
<1>26. ASSUME NEW p \in Processes, CompleteJob(p) PROVE pc'[w] \in {"idle", "checkpointLeases"}
  BY <1>26 DEF CompleteJob
<1>27. ASSUME NEW p \in Processes, CompleteExecution(p) PROVE pc'[w] \in {"idle", "checkpointLeases"}
  BY <1>27 DEF CompleteExecution
<1>28. ASSUME NEW p \in Processes, FailRun(p) PROVE pc'[w] \in {"idle", "checkpointLeases"}
  BY <1>28 DEF FailRun
<1>29. ASSUME NEW p \in Processes, FailJob(p) PROVE pc'[w] \in {"idle", "checkpointLeases"}
  BY <1>29 DEF FailJob
<1>30. ASSUME NEW p \in Processes, FailExecution(p) PROVE pc'[w] \in {"idle", "checkpointLeases"}
  BY <1>30 DEF FailExecution
<1>31. ASSUME NEW p \in Processes, ReleaseAfterFailure(p) PROVE pc'[w] \in {"idle", "checkpointLeases"}
  BY <1>31 DEF ReleaseAfterFailure
<1>32. ASSUME NEW p \in Processes, TerminateLease(p) PROVE pc'[w] \in {"idle", "checkpointLeases"}
  BY <1>32 DEF TerminateLease
<1>33. ASSUME NEW p \in Processes, TerminateRefused(p) PROVE pc'[w] \in {"idle", "checkpointLeases"}
  BY <1>33 DEF TerminateRefused
<1>34. ASSUME NEW p \in Processes, CheckpointTimeout(p) PROVE pc'[w] \in {"idle", "checkpointLeases"}
  BY <1>34 DEF CheckpointTimeout
<1>35. ASSUME NEW p \in Processes, DedupIndexRejects(p) PROVE pc'[w] \in {"idle", "checkpointLeases"}
  BY <1>35 DEF DedupIndexRejects
<1>36. ASSUME NEW p \in Processes, Crash(p) PROVE pc'[w] \in {"idle", "checkpointLeases"}
  BY <1>36 DEF Crash
<1>37. CASE UNCHANGED vars
  BY <1>37 DEF vars
<1> QED
  BY <1>1, <1>2, <1>3, <1>4, <1>5, <1>6, <1>7, <1>8, <1>9, <1>10, <1>11, <1>12, <1>13, <1>14,
     <1>15, <1>16, <1>17, <1>18, <1>19, <1>20, <1>21, <1>22, <1>23, <1>24, <1>25, <1>26, <1>27,
     <1>28, <1>29, <1>30, <1>31, <1>32, <1>33, <1>34, <1>35, <1>36, <1>37
     DEF Next, Step, Supervise, Execute, Fail

\* The rows a single executor is about to write are as it left or found them.
THEOREM RecoveryIsSafe ==
  ASSUME SingleExecutor
  PROVE  Spec => []RecoveryInvariant
<1>1. Init => RecoveryInvariant
  BY BackgroundJobsAssumption
     DEF Init, RecoveryInvariant, JobsCoverRuns, OneActiveRunPerJob, KeysUnique,
         CompletedMeansApplied, ExecutionReportsTruth, ExecutorKnows, RecoveryPoints,
         InFlight, Processes
<1>2. TypeOK /\ RecoveryInvariant /\ [Next]_vars => RecoveryInvariant'
  <2> SUFFICES ASSUME TypeOK, RecoveryInvariant, [Next]_vars PROVE RecoveryInvariant'
    OBVIOUS
  <2>1. JobsCoverRuns' /\ OneActiveRunPerJob' /\ KeysUnique'
    BY SingleExecutor, CoverStep, OneActiveStep, KeysStep
  <2>2. CompletedMeansApplied' /\ ExecutionReportsTruth'
    BY SingleExecutor, CompletedStep, ExecutionStep
  <2>3. \A p \in Executors : ExecutorKnows(p)'
    BY SingleExecutor, KnowsStep
  <2>4. \A p \in Watchers : pc'[p] \in {"idle", "checkpointLeases"}
    BY WatchersStep
  <2> QED
    BY <2>1, <2>2, <2>3, <2>4 DEF RecoveryInvariant
<1> QED
  BY <1>1, <1>2, TypeCorrect, PTL DEF Spec

\* One harness, however often it crashes and whoever expires its leases, never
\* has two runs of a job in flight.
THEOREM NeverTwoRuns ==
  ASSUME SingleExecutor
  PROVE  Spec => []OneActiveRunPerJob
<1>1. RecoveryInvariant => OneActiveRunPerJob
  BY DEF RecoveryInvariant
<1> QED
  BY <1>1, RecoveryIsSafe, SingleExecutor, PTL

\* A job it reports as completed has all the results of one run in the tables.
THEOREM CompletionIsReal ==
  ASSUME SingleExecutor
  PROVE  Spec => []CompletedMeansApplied
<1>1. RecoveryInvariant => CompletedMeansApplied
  BY DEF RecoveryInvariant
<1> QED
  BY <1>1, RecoveryIsSafe, SingleExecutor, PTL

\* An execution record tells what became of its run.
THEOREM ExecutionIsTrue ==
  ASSUME SingleExecutor
  PROVE  Spec => []ExecutionReportsTruth
<1>1. RecoveryInvariant => ExecutionReportsTruth
  BY DEF RecoveryInvariant
<1> QED
  BY <1>1, RecoveryIsSafe, SingleExecutor, PTL

\* Its writes of status never meet the unique index of active keys.
THEOREM IndexNeverRejects ==
  ASSUME SingleExecutor
  PROVE  Spec => []DedupIndexNeverRejects
<1>1. TypeOK /\ RecoveryInvariant => DedupIndexNeverRejects
  <2> SUFFICES ASSUME TypeOK, RecoveryInvariant,
                      NEW p \in Processes, NEW k \in Jobs,
                      pc[p] \in {"startJob", "replanJob"},
                      k # Job(p), KeyOf[k] = KeyOf[Job(p)]
               PROVE  jobStatus[k] \in {"absent", "completed", "failed"}
    BY DEF DedupIndexNeverRejects
  <2>1. Job(p) \in Jobs /\ jobStatus[Job(p)] \in InFlight
    BY HeldJobInFlight
  <2>2. jobStatus[k] \notin {"planned"} \cup InFlight
    BY <2>1 DEF RecoveryInvariant, KeysUnique
  <2>3. jobStatus[k] \in JobStatuses
    BY DEF TypeOK, TablesTypeOK
  <2> QED
    BY <2>2, <2>3 DEF JobStatuses, InFlight
<1> QED
  BY <1>1, TypeCorrect, RecoveryIsSafe, SingleExecutor, PTL

\* Recovery and execution write only to jobs and runs that have not ended.
OutcomesKept ==
  /\ \A j \in Jobs : jobStatus[j] \in JobEnded => jobStatus'[j] = jobStatus[j]
  /\ \A r \in Runs : runStatus[r] \in RunEnded => runStatus'[r] = runStatus[r]

\* Under the recovery invariant no statement rewrites the outcome of a job or run.
LEMMA OutcomeStep ==
  ASSUME TypeOK, RecoveryInvariant, [Next]_vars
  PROVE  OutcomesKept
<1> USE DEF TypeOK, TablesTypeOK, ProcessesTypeOK, HoldingPoints, RunPoints, ExecutorKnows,
            InFlight, JobEnded, RunEnded, At, OutcomesKept, jobVars, runVars
<1>1. CASE TablesSame
  BY <1>1 DEF TablesSame
<1>2. ASSUME NEW j \in Jobs, PlanJob(j) PROVE OutcomesKept
  BY <1>2 DEF PlanJob
<1>3. ASSUME NEW p \in Processes, FailStrandedRun(p) PROVE OutcomesKept
  BY <1>3, HeldRun DEF FailStrandedRun, SetRun
<1>4. ASSUME NEW p \in Processes, ReplanJob(p) PROVE OutcomesKept
  BY <1>4, HeldJobInFlight DEF ReplanJob, SetJob
<1>5. ASSUME NEW p \in Processes, FailStrandedExecution(p) PROVE OutcomesKept
  BY <1>5, HeldRun DEF FailStrandedExecution, SetExecution
<1>6. ASSUME NEW p \in Processes, LeaseDueJob(p) PROVE OutcomesKept
  BY <1>6, LeasedPair
<1>7. ASSUME NEW p \in Processes, StartJob(p) PROVE OutcomesKept
  BY <1>7, HeldJobInFlight DEF StartJob, SetJob
<1>8. ASSUME NEW p \in Processes, StartRun(p) PROVE OutcomesKept
  BY <1>8, HeldRun DEF StartRun, SetRun
<1>9. ASSUME NEW p \in Processes, ApplyStage(p) PROVE OutcomesKept
  BY <1>9, HeldRun DEF ApplyStage
<1>10. ASSUME NEW p \in Processes, CompleteRun(p) PROVE OutcomesKept
  BY <1>10, HeldRun DEF CompleteRun, SetRun
<1>11. ASSUME NEW p \in Processes, CompleteJob(p) PROVE OutcomesKept
  BY <1>11, HeldRun DEF CompleteJob, SetJob
<1>12. ASSUME NEW p \in Processes, CompleteExecution(p) PROVE OutcomesKept
  BY <1>12, HeldRun DEF CompleteExecution, SetExecution
<1>13. ASSUME NEW p \in Processes, FailRun(p) PROVE OutcomesKept
  BY <1>13, HeldRun DEF FailRun, SetRun
<1>14. ASSUME NEW p \in Processes, FailJob(p) PROVE OutcomesKept
  BY <1>14, HeldRun DEF FailJob, SetJob
<1>15. ASSUME NEW p \in Processes, FailExecution(p) PROVE OutcomesKept
  BY <1>15, HeldRun DEF FailExecution, SetExecution
<1> QED
  BY TableWriters, <1>1, <1>2, <1>3, <1>4, <1>5, <1>6, <1>7, <1>8, <1>9, <1>10, <1>11, <1>12,
     <1>13, <1>14, <1>15
     DEF Writes

\* No outcome is ever undone by the recovery of a single harness.
THEOREM OutcomesAreFinal ==
  ASSUME SingleExecutor
  PROVE  Spec => OutcomeIsFinal
<1>1. TypeOK /\ RecoveryInvariant /\ [Next]_vars => [OutcomesKept]_vars
  BY OutcomeStep
<1>2. Spec => [][OutcomesKept]_vars
  BY <1>1, TypeCorrect, RecoveryIsSafe, SingleExecutor, PTL DEF Spec
<1> QED
  BY <1>2 DEF OutcomeIsFinal, OutcomesKept

-----------------------------------------------------------------------------
(* Refinement of the abstract queue. *)

\* A job without a run in flight has no holder ...
LEMMA OnlyOfNone == OnlyOf({}) = None
BY DEF OnlyOf

\* ... and a job with one run in flight is held by it.
LEMMA OnlyOfOne == ASSUME NEW r PROVE OnlyOf({r}) = r
BY DEF OnlyOf

\* A run in flight is the holder of its job.
LEMMA HolderIsActiveRun ==
  ASSUME TypeOK, RecoveryInvariant, NEW r \in Runs, runStatus[r] \in InFlight
  PROVE  /\ runJob[r] \in Jobs
         /\ ActiveRunsOf(runJob[r]) = {r}
         /\ HolderOf(runJob[r]) = r
<1>1. runJob[r] \in Jobs
  BY DEF TypeOK, TablesTypeOK, InFlight
<1>2. ActiveRunsOf(runJob[r]) = {r}
  BY DEF ActiveRunsOf, RecoveryInvariant, OneActiveRunPerJob
<1> QED
  BY <1>1, <1>2, OnlyOfOne DEF HolderOf

\* The abstract state is a function of the tables.
LEMMA SameTablesSameQueue ==
  ASSUME UNCHANGED <<jobStatus, runStatus, runJob, applied>>
  PROVE  UNCHANGED Queue!vars
<1>1. \A j \in Jobs : QueueState(j)' = QueueState(j) /\ HolderOf(j)' = HolderOf(j)
  BY DEF QueueState, HolderOf, ActiveRunsOf, OnlyOf
<1> QED
  BY <1>1 DEF Queue!vars

\* Ending the run in flight gives the job up.
LEMMA RunEndYields ==
  ASSUME TypeOK, RecoveryInvariant, NEW p \in Processes, pc[p] \in HoldingPoints,
         runStatus[cur[p]] \in InFlight, NEW ending \in RunEnded, SetRun(p, ending),
         UNCHANGED <<jobStatus, runJob, applied>>
  PROVE  Queue!Yield(Job(p))
<1>1. cur[p] \in Runs /\ Job(p) \in Jobs /\ HolderOf(Job(p)) = cur[p]
      /\ ActiveRunsOf(Job(p)) = {cur[p]}
  BY HeldRun, HolderIsActiveRun DEF Job
<1>2. runStatus' = [runStatus EXCEPT ![cur[p]] = ending]
  BY DEF SetRun
<1>3. runStatus \in [Runs -> RunStatuses]
  BY DEF TypeOK, TablesTypeOK
<1>4. ending \notin InFlight /\ ending # "none"
  BY DEF InFlight, RunEnded
<1>5. \A j \in Jobs : ActiveRunsOf(j)' = ActiveRunsOf(j) \ {cur[p]}
  BY <1>1, <1>2, <1>3, <1>4 DEF ActiveRunsOf
<1>6. \A j \in Jobs : j # Job(p) => cur[p] \notin ActiveRunsOf(j)
  BY DEF ActiveRunsOf, Job
<1>7. \A j \in Jobs : HolderOf(j)' = IF j = Job(p) THEN None ELSE HolderOf(j)
  <2>1. OnlyOf(ActiveRunsOf(Job(p)) \ {cur[p]}) = None
    BY <1>1, OnlyOfNone
  <2>2. ASSUME NEW j \in Jobs PROVE HolderOf(j)' = OnlyOf(ActiveRunsOf(j) \ {cur[p]})
    <3>1. HolderOf(j)' = OnlyOf(ActiveRunsOf(j)')
      BY DEF HolderOf, OnlyOf
    <3> QED
      BY <3>1, <1>5
  <2>3. ASSUME NEW j \in Jobs, j # Job(p) PROVE ActiveRunsOf(j) \ {cur[p]} = ActiveRunsOf(j)
    BY <1>6, <2>3
  <2> QED
    BY <2>1, <2>2, <2>3 DEF HolderOf
<1>8. \A j \in Jobs : QueueState(j)' = QueueState(j)
  BY DEF QueueState
<1>9. {r \in Runs : runStatus[r] # "none"}' = {r \in Runs : runStatus[r] # "none"}
  <2>1. runStatus[cur[p]] # "none"
    BY DEF InFlight
  <2> QED
    BY <1>1, <1>2, <1>3, <1>4, <2>1
<1>10. None \notin Runs
  BY BackgroundJobsAssumption
<1>11. [j \in Jobs |-> HolderOf(j)]' = [[j \in Jobs |-> HolderOf(j)] EXCEPT ![Job(p)] = None]
  BY <1>7
<1>12. [j \in Jobs |-> QueueState(j)]' = [j \in Jobs |-> QueueState(j)]
  BY <1>8
<1> QED
  BY <1>1, <1>9, <1>10, <1>11, <1>12 DEF Queue!Yield

\* With no run in flight, the job is finished or handed back.
LEMMA JobEndFinishes ==
  ASSUME TypeOK, NEW j \in Jobs, jobStatus[j] \in InFlight, ActiveRunsOf(j) = {},
         NEW status \in JobEnded \cup {"planned"},
         jobStatus' = [jobStatus EXCEPT ![j] = status],
         UNCHANGED <<runStatus, runJob, applied>>
  PROVE  Queue!Finish(j) \/ Queue!HandBack(j)
<1>1. \A k \in Jobs : HolderOf(k)' = HolderOf(k)
  BY DEF HolderOf, ActiveRunsOf, OnlyOf
<1>2. HolderOf(j) = None
  BY OnlyOfNone DEF HolderOf
<1>3. jobStatus \in [Jobs -> JobStatuses]
  BY DEF TypeOK, TablesTypeOK
<1>4. QueueState(j) = "taken"
  BY DEF QueueState, InFlight
<1>5. \A k \in Jobs : k # j => QueueState(k)' = QueueState(k)
  BY <1>3 DEF QueueState
<1>6. QueueState(j)' = IF status = "planned" THEN "pending" ELSE "done"
  BY <1>3 DEF QueueState, InFlight, JobEnded
<1>7. [k \in Jobs |-> QueueState(k)]'
        = [[k \in Jobs |-> QueueState(k)] EXCEPT
             ![j] = IF status = "planned" THEN "pending" ELSE "done"]
  BY <1>5, <1>6
<1>8. [k \in Jobs |-> HolderOf(k)]' = [k \in Jobs |-> HolderOf(k)]
  BY <1>1
<1>9. CASE status = "planned"
  BY <1>2, <1>4, <1>7, <1>8, <1>9 DEF Queue!HandBack
<1>10. CASE status # "planned"
  BY <1>2, <1>4, <1>7, <1>8, <1>10 DEF Queue!Finish
<1> QED
  BY <1>9, <1>10

\* Planning a job submits it: the key it looked up is free in the queue as well.
LEMMA PlanSubmits ==
  ASSUME TypeOK, NEW j \in Jobs, PlanJob(j)
  PROVE  Queue!Submit(j)
<1>1. jobStatus \in [Jobs -> JobStatuses]
  BY DEF TypeOK, TablesTypeOK
<1>2. jobStatus' = [jobStatus EXCEPT ![j] = "planned"] /\ jobStatus[j] = "absent"
      /\ UNCHANGED <<runStatus, runJob, applied>>
  BY DEF PlanJob, runVars
<1>3. \A k \in Jobs : KeyOf[k] = KeyOf[j] => QueueState(k) \in {"absent", "done"}
  BY <1>1 DEF PlanJob, KeyFree, QueueState, JobStatuses, InFlight
<1>4. QueueState(j) = "absent" /\ QueueState(j)' = "pending"
  <2>1. QueueState(j) = "absent"
    BY <1>2 DEF QueueState, InFlight
  <2>2. jobStatus'[j] = "planned"
    BY <1>1, <1>2
  <2>3. QueueState(j)' = "pending"
    BY <2>2 DEF QueueState, InFlight
  <2> QED
    BY <2>1, <2>3
<1>5. \A k \in Jobs : k # j => QueueState(k)' = QueueState(k)
  BY <1>1, <1>2 DEF QueueState
<1>6. \A k \in Jobs : HolderOf(k)' = HolderOf(k)
  BY <1>2 DEF HolderOf, ActiveRunsOf, OnlyOf
<1>7. [k \in Jobs |-> QueueState(k)]'
        = [[k \in Jobs |-> QueueState(k)] EXCEPT ![j] = "pending"]
  BY <1>4, <1>5
<1>8. [k \in Jobs |-> HolderOf(k)]' = [k \in Jobs |-> HolderOf(k)]
  BY <1>6
<1> QED
  BY <1>2, <1>3, <1>4, <1>7, <1>8 DEF Queue!Submit

\* The lease transaction takes a pending job for a run that has held none.
LEMMA LeaseTakes ==
  ASSUME TypeOK, RecoveryInvariant, NEW p \in Processes, LeaseDueJob(p)
  PROVE  \E j \in Jobs, r \in Runs : Queue!Take(j, r)
<1>1. PICK j \in Jobs, r \in Runs :
        /\ jobStatus[j] = "planned"
        /\ runStatus[r] = "none"
        /\ jobStatus' = [jobStatus EXCEPT ![j] = "leased"]
        /\ runStatus' = [runStatus EXCEPT ![r] = "leased"]
        /\ runJob' = [runJob EXCEPT ![r] = j]
        /\ applied' = applied
  BY LeasedPair
<1>2. /\ jobStatus \in [Jobs -> JobStatuses]
      /\ runStatus \in [Runs -> RunStatuses]
      /\ runJob \in [Runs -> Jobs \cup {None}]
      /\ runJob[r] = None
  BY <1>1 DEF TypeOK, TablesTypeOK
<1>3. QueueState(j) = "pending" /\ QueueState(j)' = "taken"
  BY <1>1, <1>2 DEF QueueState, InFlight
<1>4. \A k \in Jobs : k # j => QueueState(k)' = QueueState(k)
  BY <1>1, <1>2 DEF QueueState
<1>5. ActiveRunsOf(j) = {}
  BY <1>1 DEF ActiveRunsOf, RecoveryInvariant, JobsCoverRuns, InFlight
<1>6. ActiveRunsOf(j)' = {r}
  BY <1>1, <1>2, <1>5 DEF ActiveRunsOf, InFlight
<1>7. \A k \in Jobs : k # j => ActiveRunsOf(k)' = ActiveRunsOf(k)
  BY <1>1, <1>2 DEF ActiveRunsOf, InFlight
<1>8. HolderOf(j)' = r
  <2>1. HolderOf(j)' = OnlyOf(ActiveRunsOf(j)')
    BY DEF HolderOf, OnlyOf
  <2> QED
    BY <2>1, <1>6, OnlyOfOne
<1>9. ASSUME NEW k \in Jobs, k # j PROVE HolderOf(k)' = HolderOf(k)
  <2>1. HolderOf(k)' = OnlyOf(ActiveRunsOf(k)')
    BY DEF HolderOf, OnlyOf
  <2> QED
    BY <2>1, <1>7, <1>9 DEF HolderOf
<1>10. [k \in Jobs |-> QueueState(k)]'
         = [[k \in Jobs |-> QueueState(k)] EXCEPT ![j] = "taken"]
  BY <1>3, <1>4
<1>11. [k \in Jobs |-> HolderOf(k)]' = [[k \in Jobs |-> HolderOf(k)] EXCEPT ![j] = r]
  BY <1>8, <1>9
<1>12. {s \in Runs : runStatus[s] # "none"}'
         = {s \in Runs : runStatus[s] # "none"} \cup {r}
  BY <1>1, <1>2
<1>13. r \notin {s \in Runs : runStatus[s] # "none"}
  BY <1>1
<1>14. Queue!Take(j, r)
  BY <1>1, <1>3, <1>10, <1>11, <1>12, <1>13 DEF Queue!Take
<1> QED
  BY <1>14

\* A stage of results is committed by the run that holds the job.
LEMMA StageIsEffect ==
  ASSUME TypeOK, RecoveryInvariant, NEW p \in Processes, ApplyStage(p)
  PROVE  \E j \in Jobs, r \in Runs : Queue!Effect(j, r)
<1>1. cur[p] \in Runs /\ Job(p) \in Jobs /\ runStatus[cur[p]] \in InFlight
  BY HeldRun DEF ApplyStage, At, HoldingPoints, RunPoints, ExecutorKnows, InFlight
<1>2. HolderOf(Job(p)) = cur[p]
  BY <1>1, HolderIsActiveRun DEF Job
<1>3. /\ applied' = [applied EXCEPT ![cur[p]] = @ + 1]
      /\ UNCHANGED <<jobStatus, runStatus, runJob>>
  BY DEF ApplyStage, jobVars
<1>4. \A k \in Jobs : QueueState(k)' = QueueState(k) /\ HolderOf(k)' = HolderOf(k)
  BY <1>3 DEF QueueState, HolderOf, ActiveRunsOf, OnlyOf
<1>5. Queue!Effect(Job(p), cur[p])
  BY <1>1, <1>2, <1>3, <1>4 DEF Queue!Effect
<1> QED
  BY <1>1, <1>5

\* One harness implements the abstract queue: every statement that commits is an
\* abstract step or none, wherever crashes and expiries fall.
THEOREM ImplementsAbstractQueue ==
  ASSUME SingleExecutor
  PROVE  Spec => ImplementsJobQueue
<1>1. Init => Queue!Init
  BY OnlyOfNone DEF Init, Queue!Init, QueueState, HolderOf, ActiveRunsOf, InFlight
<1>2. TypeOK /\ RecoveryInvariant /\ [Next]_vars => [Queue!Next]_(Queue!vars)
  <2> SUFFICES ASSUME TypeOK, RecoveryInvariant, [Next]_vars
               PROVE  Queue!Next \/ UNCHANGED Queue!vars
    OBVIOUS
  <2> USE DEF At, HoldingPoints, RunPoints, jobVars, runVars
  <2>1. CASE TablesSame
    BY <2>1, SameTablesSameQueue DEF TablesSame
  <2>2. ASSUME NEW j \in Jobs, PlanJob(j) PROVE Queue!Next
    BY <2>2, PlanSubmits DEF Queue!Next
  <2>3. ASSUME NEW p \in Processes, FailStrandedRun(p) PROVE Queue!Next
    <3>1. Job(p) \in Jobs /\ runStatus[cur[p]] \in InFlight
      BY <2>3, HeldRun DEF FailStrandedRun, ExecutorKnows, InFlight
    <3> QED
      BY <2>3, <3>1, RunEndYields DEF FailStrandedRun, RunEnded, Queue!Next
  <2>4. ASSUME NEW p \in Processes, ReplanJob(p) PROVE Queue!Next
    <3>1. Job(p) \in Jobs /\ jobStatus[Job(p)] \in InFlight /\ ActiveRunsOf(Job(p)) = {}
      BY <2>4, HeldRun DEF ReplanJob, ExecutorKnows
    <3>2. PICK status \in JobEnded \cup {"planned"} :
            jobStatus' = [jobStatus EXCEPT ![Job(p)] = status]
      BY <2>4 DEF ReplanJob, SetJob, JobEnded
    <3>3. UNCHANGED <<runStatus, runJob, applied>>
      BY <2>4 DEF ReplanJob
    <3> QED
      BY <3>1, <3>2, <3>3, JobEndFinishes DEF Queue!Next
  <2>5. ASSUME NEW p \in Processes, FailStrandedExecution(p) PROVE UNCHANGED Queue!vars
    BY <2>5, SameTablesSameQueue DEF FailStrandedExecution
  <2>6. ASSUME NEW p \in Processes, LeaseDueJob(p) PROVE Queue!Next
    BY <2>6, LeaseTakes DEF Queue!Next
  <2>7. ASSUME NEW p \in Processes, StartJob(p) PROVE UNCHANGED Queue!vars
    <3>1. Job(p) \in Jobs /\ jobStatus[Job(p)] \in InFlight
      BY <2>7, HeldJobInFlight DEF StartJob
    <3>2. jobStatus' = [jobStatus EXCEPT ![Job(p)] = "running"]
          /\ UNCHANGED <<runStatus, runJob, applied>>
      BY <2>7 DEF StartJob, SetJob
    <3>3. jobStatus \in [Jobs -> JobStatuses]
      BY DEF TypeOK, TablesTypeOK
    <3>4. \A j \in Jobs : QueueState(j)' = QueueState(j)
      BY <3>1, <3>2, <3>3 DEF QueueState, InFlight
    <3>5. \A j \in Jobs : HolderOf(j)' = HolderOf(j)
      BY <3>2 DEF HolderOf, ActiveRunsOf, OnlyOf
    <3> QED
      BY <3>2, <3>4, <3>5 DEF Queue!vars
  <2>8. ASSUME NEW p \in Processes, StartRun(p) PROVE UNCHANGED Queue!vars
    <3>1. cur[p] \in Runs /\ runStatus[cur[p]] = "leased"
      BY <2>8, HeldRun DEF StartRun, ExecutorKnows
    <3>2. runStatus' = [runStatus EXCEPT ![cur[p]] = "running"]
          /\ UNCHANGED <<jobStatus, runJob, applied>>
      BY <2>8 DEF StartRun, SetRun
    <3>3. runStatus \in [Runs -> RunStatuses]
      BY DEF TypeOK, TablesTypeOK
    <3>4. \A r \in Runs : /\ runStatus'[r] \in InFlight <=> runStatus[r] \in InFlight
                          /\ runStatus'[r] = "none" <=> runStatus[r] = "none"
      BY <3>1, <3>2, <3>3 DEF InFlight
    <3>5. ASSUME NEW j \in Jobs PROVE QueueState(j)' = QueueState(j) /\ HolderOf(j)' = HolderOf(j)
      <4>1. ActiveRunsOf(j)' = ActiveRunsOf(j)
        BY <3>2, <3>4 DEF ActiveRunsOf
      <4>2. HolderOf(j)' = OnlyOf(ActiveRunsOf(j)')
        BY DEF HolderOf, OnlyOf
      <4> QED
        BY <3>2, <4>1, <4>2 DEF HolderOf, QueueState
    <3> QED
      BY <3>2, <3>4, <3>5 DEF Queue!vars
  <2>9. ASSUME NEW p \in Processes, ApplyStage(p) PROVE Queue!Next
    BY <2>9, StageIsEffect DEF Queue!Next
  <2>10. ASSUME NEW p \in Processes, CompleteRun(p) PROVE Queue!Next
    <3>1. Job(p) \in Jobs /\ runStatus[cur[p]] \in InFlight
      BY <2>10, HeldRun DEF CompleteRun, ExecutorKnows, InFlight
    <3> QED
      BY <2>10, <3>1, RunEndYields DEF CompleteRun, RunEnded, Queue!Next
  <2>11. ASSUME NEW p \in Processes, CompleteJob(p) PROVE Queue!Next
    <3>1. Job(p) \in Jobs /\ jobStatus[Job(p)] \in InFlight /\ ActiveRunsOf(Job(p)) = {}
      BY <2>11, HeldRun DEF CompleteJob, ExecutorKnows
    <3>2. jobStatus' = [jobStatus EXCEPT ![Job(p)] = "completed"]
          /\ UNCHANGED <<runStatus, runJob, applied>>
      BY <2>11 DEF CompleteJob, SetJob
    <3> QED
      BY <3>1, <3>2, JobEndFinishes DEF JobEnded, Queue!Next
  <2>12. ASSUME NEW p \in Processes, CompleteExecution(p) PROVE UNCHANGED Queue!vars
    BY <2>12, SameTablesSameQueue DEF CompleteExecution
  <2>13. ASSUME NEW p \in Processes, FailRun(p) PROVE Queue!Next
    <3>1. Job(p) \in Jobs /\ runStatus[cur[p]] \in InFlight
      BY <2>13, HeldRun DEF FailRun, ExecutorKnows, InFlight
    <3>2. \E ending \in RunEnded : SetRun(p, ending)
      BY <2>13 DEF FailRun, RunEnded
    <3>3. pc[p] \in HoldingPoints /\ UNCHANGED <<jobStatus, runJob, applied>>
      BY <2>13 DEF FailRun
    <3> QED
      BY <3>1, <3>2, <3>3, RunEndYields DEF Queue!Next
  <2>14. ASSUME NEW p \in Processes, FailJob(p) PROVE Queue!Next
    <3>1. Job(p) \in Jobs /\ jobStatus[Job(p)] \in InFlight /\ ActiveRunsOf(Job(p)) = {}
      BY <2>14, HeldRun DEF FailJob, ExecutorKnows
    <3>2. jobStatus' = [jobStatus EXCEPT ![Job(p)] = "failed"]
          /\ UNCHANGED <<runStatus, runJob, applied>>
      BY <2>14 DEF FailJob, SetJob
    <3> QED
      BY <3>1, <3>2, JobEndFinishes DEF JobEnded, Queue!Next
  <2>15. ASSUME NEW p \in Processes, FailExecution(p) PROVE UNCHANGED Queue!vars
    BY <2>15, SameTablesSameQueue DEF FailExecution
  <2> QED
    BY TableWriters, <2>1, <2>2, <2>3, <2>4, <2>5, <2>6, <2>7, <2>8, <2>9, <2>10,
       <2>11, <2>12, <2>13, <2>14, <2>15 DEF Writes
<1> QED
  BY <1>1, <1>2, TypeCorrect, RecoveryIsSafe, SingleExecutor, PTL
     DEF Spec, ImplementsJobQueue, Queue!Spec

-----------------------------------------------------------------------------
(* Any number of processes. *)

\* Two processes never execute one run, and a run that has not started is known
\* as such by its owner and left alone by the restart scan.
OwnedRuns ==
  /\ \A p, q \in Processes :
       p # q /\ pc[p] \in RunPoints /\ pc[q] \in RunPoints => cur[p] # cur[q]
  /\ \A p \in Processes :
       pc[p] \in {"startJob", "startRun"} => runStatus[cur[p]] = "leased"
  /\ \A p \in Processes :
       pc[p] \in HoldingPoints \ {"startJob", "startRun", "failUnstartedRun"} =>
         runStatus[cur[p]] # "leased"

\* Every statement keeps runs owned: the process that leased a run executes it,
\* and alone starts it.
LEMMA OwnedStep ==
  ASSUME TypeOK, OwnedRuns, [Next]_vars
  PROVE  OwnedRuns'
<1> USE BackgroundJobsAssumption
    DEF TypeOK, TablesTypeOK, ProcessesTypeOK, RememberedRunsExist, OwnedRuns,
        HoldingPoints, RunPoints, At, Goto, Exit, runVars, procVars
<1>1. ASSUME NEW j \in Jobs, PlanJob(j) PROVE OwnedRuns'
  BY <1>1 DEF PlanJob
<1>2. ASSUME NEW r \in Runs, LeaseTimePasses(r) PROVE OwnedRuns'
  BY <1>2 DEF LeaseTimePasses
<1>3. ASSUME NEW p \in Processes, ExpireDueLeases(p) PROVE OwnedRuns'
  BY <1>3 DEF ExpireDueLeases
<1>4. ASSUME NEW p \in Processes, CheckpointExpiredLease(p) PROVE OwnedRuns'
  BY <1>4 DEF CheckpointExpiredLease
<1>5. ASSUME NEW p \in Processes, FinishWatch(p) PROVE OwnedRuns'
  BY <1>5 DEF FinishWatch
<1>6. ASSUME NEW p \in Processes, ListStrandedRuns(p) PROVE OwnedRuns'
  BY <1>6 DEF ListStrandedRuns
<1>7. ASSUME NEW p \in Processes, IssueRestartTrigger(p) PROVE OwnedRuns'
  BY <1>7 DEF IssueRestartTrigger
<1>8. ASSUME NEW p \in Processes, RejectUnstartedRun(p) PROVE OwnedRuns'
  BY <1>8 DEF RejectUnstartedRun
<1>9. ASSUME NEW p \in Processes, FailStrandedRun(p) PROVE OwnedRuns'
  BY <1>9 DEF FailStrandedRun, SetRun
<1>10. ASSUME NEW p \in Processes, ReplanJob(p) PROVE OwnedRuns'
  BY <1>10 DEF ReplanJob
<1>11. ASSUME NEW p \in Processes, FailStrandedExecution(p) PROVE OwnedRuns'
  BY <1>11 DEF FailStrandedExecution
<1>12. ASSUME NEW p \in Processes, FinishRecovery(p) PROVE OwnedRuns'
  BY <1>12 DEF FinishRecovery
<1>13. ASSUME NEW p \in Processes, LeaseDueJob(p) PROVE OwnedRuns'
  <2>1. PICK r \in Runs :
          /\ runStatus[r] = "none"
          /\ runStatus' = [runStatus EXCEPT ![r] = "leased"]
          /\ cur' = [cur EXCEPT ![p] = r]
          /\ pc' = [pc EXCEPT ![p] = "startJob"]
    BY <1>13, LeasedPair
  <2>2. \A q \in Processes : pc[q] \in HoldingPoints => cur[q] \in Runs /\ cur[q] # r
    BY <2>1
  <2>3. \A q \in Processes : q # p => pc'[q] = pc[q] /\ cur'[q] = cur[q]
    BY <2>1
  <2>4. pc'[p] = "startJob" /\ cur'[p] = r /\ runStatus'[r] = "leased"
    BY <2>1
  <2>5. \A s \in Runs : s # r => runStatus'[s] = runStatus[s]
    BY <2>1
  <2>6. ASSUME NEW a \in Processes, NEW b \in Processes, a # b,
               pc'[a] \in RunPoints, pc'[b] \in RunPoints
        PROVE  cur'[a] # cur'[b]
    BY <2>2, <2>3, <2>4, <2>6
  <2>7. ASSUME NEW a \in Processes, pc'[a] \in {"startJob", "startRun"}
        PROVE  runStatus'[cur'[a]] = "leased"
    <3>1. CASE a = p
      BY <2>4, <3>1
    <3>2. CASE a # p
      <4>1. pc[a] \in {"startJob", "startRun"} /\ cur'[a] = cur[a]
        BY <2>3, <2>7, <3>2
      <4>2. cur[a] \in Runs /\ cur[a] # r /\ runStatus[cur[a]] = "leased"
        BY <2>2, <4>1
      <4> QED
        BY <2>5, <4>1, <4>2
    <3> QED
      BY <3>1, <3>2
  <2>8. ASSUME NEW a \in Processes,
               pc'[a] \in HoldingPoints \ {"startJob", "startRun", "failUnstartedRun"}
        PROVE  runStatus'[cur'[a]] # "leased"
    <3>1. a # p
      BY <2>4, <2>8
    <3>2. pc[a] \in HoldingPoints \ {"startJob", "startRun", "failUnstartedRun"} /\ cur'[a] = cur[a]
      BY <3>1, <2>3, <2>8
    <3>3. cur[a] \in Runs /\ cur[a] # r
      BY <3>2, <2>2
    <3>4. runStatus[cur[a]] # "leased"
      BY <3>2
    <3> QED
      BY <3>2, <3>3, <3>4, <2>5
  <2> HIDE DEF RunPoints, HoldingPoints
  <2> QED
    BY <2>6, <2>7, <2>8
<1>14. ASSUME NEW p \in Processes, NoDueJob(p) PROVE OwnedRuns'
  BY <1>14 DEF NoDueJob
<1>15. ASSUME NEW p \in Processes, StartJob(p) PROVE OwnedRuns'
  BY <1>15 DEF StartJob
<1>16. ASSUME NEW p \in Processes, StartRun(p) PROVE OwnedRuns'
  BY <1>16 DEF StartRun, SetRun
<1>17. ASSUME NEW p \in Processes, AcquireLease(p) PROVE OwnedRuns'
  BY <1>17 DEF AcquireLease
<1>18. ASSUME NEW p \in Processes, WorkerAnswers(p) PROVE OwnedRuns'
  BY <1>18 DEF WorkerAnswers
<1>19. ASSUME NEW p \in Processes, WorkerFails(p) PROVE OwnedRuns'
  BY <1>19 DEF WorkerFails
<1>20. ASSUME NEW p \in Processes, CheckLease(p) PROVE OwnedRuns'
  BY <1>20 DEF CheckLease
<1>21. ASSUME NEW p \in Processes, LeaseLost(p) PROVE OwnedRuns'
  BY <1>21 DEF LeaseLost
<1>22. ASSUME NEW p \in Processes, ReleaseLease(p) PROVE OwnedRuns'
  BY <1>22 DEF ReleaseLease
<1>23. ASSUME NEW p \in Processes, ApplyStage(p) PROVE OwnedRuns'
  BY <1>23 DEF ApplyStage
<1>24. ASSUME NEW p \in Processes, ApplyFails(p) PROVE OwnedRuns'
  BY <1>24 DEF ApplyFails
<1>25. ASSUME NEW p \in Processes, CompleteRun(p) PROVE OwnedRuns'
  BY <1>25 DEF CompleteRun, SetRun
<1>26. ASSUME NEW p \in Processes, CompleteJob(p) PROVE OwnedRuns'
  BY <1>26 DEF CompleteJob
<1>27. ASSUME NEW p \in Processes, CompleteExecution(p) PROVE OwnedRuns'
  BY <1>27 DEF CompleteExecution
<1>28. ASSUME NEW p \in Processes, FailRun(p) PROVE OwnedRuns'
  BY <1>28 DEF FailRun, SetRun
<1>29. ASSUME NEW p \in Processes, FailJob(p) PROVE OwnedRuns'
  BY <1>29 DEF FailJob
<1>30. ASSUME NEW p \in Processes, FailExecution(p) PROVE OwnedRuns'
  BY <1>30 DEF FailExecution
<1>31. ASSUME NEW p \in Processes, ReleaseAfterFailure(p) PROVE OwnedRuns'
  BY <1>31 DEF ReleaseAfterFailure
<1>32. ASSUME NEW p \in Processes, TerminateLease(p) PROVE OwnedRuns'
  BY <1>32 DEF TerminateLease
<1>33. ASSUME NEW p \in Processes, TerminateRefused(p) PROVE OwnedRuns'
  BY <1>33 DEF TerminateRefused
<1>34. ASSUME NEW p \in Processes, CheckpointTimeout(p) PROVE OwnedRuns'
  BY <1>34 DEF CheckpointTimeout
<1>35. ASSUME NEW p \in Processes, DedupIndexRejects(p) PROVE OwnedRuns'
  BY <1>35 DEF DedupIndexRejects
<1>36. ASSUME NEW p \in Processes, Crash(p) PROVE OwnedRuns'
  BY <1>36 DEF Crash
<1>37. CASE UNCHANGED vars
  BY <1>37 DEF vars
<1> QED
  BY <1>1, <1>2, <1>3, <1>4, <1>5, <1>6, <1>7, <1>8, <1>9, <1>10, <1>11, <1>12, <1>13, <1>14,
     <1>15, <1>16, <1>17, <1>18, <1>19, <1>20, <1>21, <1>22, <1>23, <1>24, <1>25, <1>26, <1>27,
     <1>28, <1>29, <1>30, <1>31, <1>32, <1>33, <1>34, <1>35, <1>36, <1>37
     DEF Next, Step, Supervise, Execute, Fail

EndedRunsStayEnded ==
  \A r \in Runs : runStatus[r] \in RunEnded => runStatus'[r] \in RunEnded

\* However many harnesses and operators share the tables, and even where the
\* restart scan fails a run that is being executed, no ended run comes back.
THEOREM RunsNeverRevive == Spec => RunNeverRevives
<1>1. Init => OwnedRuns
  BY DEF Init, OwnedRuns, RunPoints, HoldingPoints
<1>2. TypeOK /\ OwnedRuns /\ [Next]_vars => OwnedRuns'
  BY OwnedStep
<1>3. TypeOK /\ OwnedRuns /\ [Next]_vars => [EndedRunsStayEnded]_vars
  <2> SUFFICES ASSUME TypeOK, OwnedRuns, [Next]_vars PROVE EndedRunsStayEnded
    OBVIOUS
  <2> USE DEF TypeOK, TablesTypeOK, EndedRunsStayEnded, RunEnded, runVars
  <2>1. CASE TablesSame
    BY <2>1 DEF TablesSame
  <2>2. ASSUME NEW j \in Jobs, PlanJob(j) PROVE EndedRunsStayEnded
    BY <2>2 DEF PlanJob
  <2>3. ASSUME NEW p \in Processes, StartRun(p) PROVE EndedRunsStayEnded
    <3>1. runStatus[cur[p]] = "leased" /\ runStatus' = [runStatus EXCEPT ![cur[p]] = "running"]
      BY <2>3 DEF StartRun, SetRun, At, OwnedRuns
    <3> QED
      BY <3>1
  <2>4. ASSUME NEW p \in Processes, LeaseDueJob(p) PROVE EndedRunsStayEnded
    BY <2>4, LeasedPair
  <2>5. ASSUME NEW p \in Processes, FailStrandedRun(p) \/ CompleteRun(p) \/ FailRun(p)
        PROVE  EndedRunsStayEnded
    BY <2>5 DEF FailStrandedRun, CompleteRun, FailRun, SetRun
  <2>6. ASSUME NEW p \in Processes, Writes(p), ~StartRun(p), ~LeaseDueJob(p),
               ~(FailStrandedRun(p) \/ CompleteRun(p) \/ FailRun(p))
        PROVE  EndedRunsStayEnded
    <3>1. runStatus' = runStatus
      BY <2>6 DEF Writes, ReplanJob, FailStrandedExecution, StartJob, ApplyStage,
                  CompleteJob, CompleteExecution, FailJob, FailExecution
    <3> QED
      BY <3>1
  <2> QED
    BY TableWriters, <2>1, <2>2, <2>3, <2>4, <2>5, <2>6
<1>4. Spec => [][EndedRunsStayEnded]_vars
  BY <1>1, <1>2, <1>3, TypeCorrect, PTL DEF Spec
<1> QED
  BY <1>4 DEF RunNeverRevives, EndedRunsStayEnded

-----------------------------------------------------------------------------
(* Worker leases, with any number of processes. *)

LeaseEnded == {"released", "expired", "terminated"}

\* A run has no lease before its owner acquires one.
LeaseAwaited ==
  \A p \in Processes :
    pc[p] \in {"startJob", "startRun", "acquireLease"} => leaseStatus[cur[p]] = "none"

LeaseWrites(p) ==
  \/ ExpireDueLeases(p)
  \/ AcquireLease(p)
  \/ ReleaseLease(p)
  \/ ReleaseAfterFailure(p)
  \/ TerminateLease(p)

\* Every other action leaves the statuses of leases alone.
LEMMA LeaseWriters ==
  [Next]_vars => (leaseStatus' = leaseStatus) \/ (\E p \in Processes : LeaseWrites(p))
<1> USE DEF leaseVars
<1>1. ASSUME NEW j \in Jobs, PlanJob(j) PROVE leaseStatus' = leaseStatus
  BY <1>1 DEF PlanJob
<1>2. ASSUME NEW r \in Runs, LeaseTimePasses(r) PROVE leaseStatus' = leaseStatus
  BY <1>2 DEF LeaseTimePasses
<1>3. ASSUME NEW p \in Processes, Step(p), ~LeaseWrites(p) PROVE leaseStatus' = leaseStatus
  <2>1. CASE Supervise(p)
    BY <1>3, <2>1
       DEF Supervise, LeaseWrites, CheckpointExpiredLease, FinishWatch, ListStrandedRuns,
           IssueRestartTrigger, RejectUnstartedRun, FailStrandedRun, ReplanJob,
           FailStrandedExecution, FinishRecovery
  <2>2. CASE Execute(p)
    BY <1>3, <2>2
       DEF Execute, LeaseWrites, LeaseDueJob, NoDueJob, StartJob, StartRun, WorkerAnswers,
           WorkerFails, CheckLease, LeaseLost, ApplyStage, CompleteRun, CompleteJob,
           CompleteExecution
  <2>3. CASE Fail(p)
    BY <1>3, <2>3
       DEF Fail, LeaseWrites, ApplyFails, FailRun, FailJob, FailExecution, TerminateRefused,
           CheckpointTimeout, DedupIndexRejects
  <2> QED
    BY <1>3, <2>1, <2>2, <2>3 DEF Step
<1>4. ASSUME NEW p \in Processes, Crash(p) PROVE leaseStatus' = leaseStatus
  BY <1>4 DEF Crash
<1>5. CASE UNCHANGED vars
  BY <1>5 DEF vars
<1> QED
  BY <1>1, <1>2, <1>3, <1>4, <1>5 DEF Next

\* What the writers do: a lease that is not active is only written by the one
\* process that acquires it.
LEMMA LeaseOfRun ==
  ASSUME TypeOK, NEW p \in Processes, LeaseWrites(p), NEW r \in Runs,
         leaseStatus[r] # "active"
  PROVE  leaseStatus'[r] = leaseStatus[r] \/ (pc[p] = "acquireLease" /\ cur[p] = r)
<1> USE DEF TypeOK, TablesTypeOK, At, leaseVars
<1>1. CASE ExpireDueLeases(p)
  BY <1>1 DEF ExpireDueLeases
<1>2. CASE AcquireLease(p)
  BY <1>2 DEF AcquireLease, SetLease
<1>3. CASE ReleaseLease(p)
  BY <1>3 DEF ReleaseLease, ReleaseIfActive, SetLease
<1>4. CASE ReleaseAfterFailure(p)
  BY <1>4 DEF ReleaseAfterFailure, ReleaseIfActive, SetLease
<1>5. CASE TerminateLease(p)
  BY <1>5 DEF TerminateLease, SetLease
<1> QED
  BY <1>1, <1>2, <1>3, <1>4, <1>5 DEF LeaseWrites

\* A process about to acquire a lease came there with the run it still holds.
LEMMA AwaitsSameRun ==
  ASSUME TypeOK, [Next]_vars, NEW q \in Processes,
         pc'[q] \in {"startJob", "startRun", "acquireLease"}
  PROVE  \/ pc[q] \in {"startJob", "startRun", "acquireLease"} /\ cur'[q] = cur[q]
                                                              /\ ~AcquireLease(q)
         \/ LeaseDueJob(q)
<1> USE DEF TypeOK, ProcessesTypeOK, Goto, Exit, At, procVars
<1> DEFINE Kept == pc'[q] = pc[q] /\ cur'[q] = cur[q]
           Came == pc[q] \in {"startJob", "startRun", "acquireLease"} /\ cur'[q] = cur[q]
<1>1. ASSUME NEW j \in Jobs, PlanJob(j) PROVE Kept
  BY <1>1 DEF PlanJob
<1>2. ASSUME NEW r \in Runs, LeaseTimePasses(r) PROVE Kept
  BY <1>2 DEF LeaseTimePasses
<1>3. ASSUME NEW p \in Processes, Supervise(p) PROVE Came
  BY <1>3
     DEF Supervise, ExpireDueLeases, CheckpointExpiredLease, FinishWatch, ListStrandedRuns,
         IssueRestartTrigger, RejectUnstartedRun, FailStrandedRun, ReplanJob,
         FailStrandedExecution, FinishRecovery
<1>4. ASSUME NEW p \in Processes, Execute(p) PROVE Came \/ LeaseDueJob(q)
  <2>1. CASE LeaseDueJob(p)
    BY <2>1, LeasedPair
  <2>2. CASE ~LeaseDueJob(p)
    BY <1>4, <2>2
       DEF Execute, NoDueJob, StartJob, StartRun, AcquireLease, WorkerAnswers,
           WorkerFails, CheckLease, LeaseLost, ReleaseLease, ApplyStage, CompleteRun,
           CompleteJob, CompleteExecution
  <2> QED
    BY <2>1, <2>2
<1>5. ASSUME NEW p \in Processes, Fail(p) PROVE Came
  BY <1>5
     DEF Fail, ApplyFails, FailRun, FailJob, FailExecution, ReleaseAfterFailure,
         TerminateLease, TerminateRefused, CheckpointTimeout, DedupIndexRejects
<1>6. ASSUME NEW p \in Processes, Crash(p) PROVE Came
  BY <1>6 DEF Crash
<1>7. ASSUME UNCHANGED vars PROVE Kept
  BY <1>7 DEF vars
<1>8. AcquireLease(q) => pc'[q] = "work"
  BY DEF AcquireLease
<1> QED
  BY <1>1, <1>2, <1>3, <1>4, <1>5, <1>6, <1>7, <1>8 DEF Next, Step

\* Until its owner acquires one, a run has no lease.
LEMMA LeaseAwaitedStep ==
  ASSUME TypeOK, OwnedRuns, LeaseAwaited, [Next]_vars
  PROVE  LeaseAwaited'
<1> SUFFICES ASSUME NEW q \in Processes, pc'[q] \in {"startJob", "startRun", "acquireLease"}
             PROVE  leaseStatus'[cur'[q]] = "none"
  BY DEF LeaseAwaited
<1>1. CASE LeaseDueJob(q)
  <2>1. PICK r \in Runs : runStatus[r] = "none" /\ cur' = [cur EXCEPT ![q] = r]
    BY <1>1, LeasedPair
  <2>2. leaseStatus' = leaseStatus
    BY <1>1 DEF LeaseDueJob, leaseVars
  <2>3. leaseStatus[r] = "none" /\ cur'[q] = r
    BY <2>1 DEF TypeOK, TablesTypeOK, ProcessesTypeOK
  <2> QED
    BY <2>2, <2>3
<1>2. CASE pc[q] \in {"startJob", "startRun", "acquireLease"} /\ cur'[q] = cur[q]
           /\ ~AcquireLease(q)
  <2>1. cur[q] \in Runs /\ leaseStatus[cur[q]] = "none"
    BY <1>2 DEF LeaseAwaited, TypeOK, ProcessesTypeOK, HoldingPoints, RunPoints
  <2>2. CASE leaseStatus' = leaseStatus
    BY <2>1, <2>2, <1>2
  <2>3. ASSUME NEW p \in Processes, LeaseWrites(p) PROVE leaseStatus'[cur[q]] = "none"
    <3>1. CASE p = q
      <4>1. pc[q] = "acquireLease" => AcquireLease(q)
        BY <2>3, <3>1
           DEF LeaseWrites, ExpireDueLeases, ReleaseLease, ReleaseAfterFailure,
               TerminateLease, At
      <4> QED
        BY <4>1, <1>2, <2>1, <2>3, <3>1, LeaseOfRun
    <3>2. CASE p # q
      <4>1. pc[p] = "acquireLease" => cur[p] # cur[q]
        BY <1>2, <3>2 DEF OwnedRuns, RunPoints
      <4> QED
        BY <4>1, <2>1, <2>3, LeaseOfRun
    <3> QED
      BY <3>1, <3>2
  <2> QED
    BY <2>2, <2>3, <1>2, LeaseWriters
<1> QED
  BY <1>1, <1>2, AwaitsSameRun

EndedLeasesStay ==
  \A r \in Runs : leaseStatus[r] \in LeaseEnded => leaseStatus'[r] = leaseStatus[r]

\* However many processes race for the end of a lease, and whichever of them
\* crash, the status it first ended with is the one it keeps.
THEOREM LeasesEndOnce == Spec => LeaseEndsOnce
<1>1. Init => OwnedRuns /\ LeaseAwaited
  BY DEF Init, OwnedRuns, LeaseAwaited, RunPoints, HoldingPoints
<1>2. TypeOK /\ OwnedRuns /\ LeaseAwaited /\ [Next]_vars => (OwnedRuns /\ LeaseAwaited)'
  BY OwnedStep, LeaseAwaitedStep
<1>3. TypeOK /\ LeaseAwaited /\ [Next]_vars => [EndedLeasesStay]_vars
  <2> SUFFICES ASSUME TypeOK, LeaseAwaited, [Next]_vars,
                      NEW r \in Runs, leaseStatus[r] \in LeaseEnded
               PROVE  leaseStatus'[r] = leaseStatus[r]
    BY DEF EndedLeasesStay
  <2>1. ASSUME NEW p \in Processes, LeaseWrites(p) PROVE leaseStatus'[r] = leaseStatus[r]
    <3>1. ~(pc[p] = "acquireLease" /\ cur[p] = r)
      BY DEF LeaseAwaited, LeaseEnded
    <3> QED
      BY <2>1, <3>1, LeaseOfRun DEF LeaseEnded
  <2> QED
    BY <2>1, LeaseWriters
<1>4. Spec => [][EndedLeasesStay]_vars
  BY <1>1, <1>2, <1>3, TypeCorrect, PTL DEF Spec
<1> QED
  BY <1>4 DEF LeaseEndsOnce, EndedLeasesStay, LeaseEnded

\* The statement that follows the end of a lease is executed.
CheckpointsAreWritten == CrashPoints \cap {"checkpointLeases", "checkpointTimeout"} = {}

\* Every statement keeps the expired leases accounted for: only the writing of
\* its checkpoint takes one off a process's hands.
LEMMA EndedLeaseStep ==
  ASSUME CheckpointsAreWritten, TypeOK, EndedLeaseReachesRecovery, [Next]_vars
  PROVE  EndedLeaseReachesRecovery'
<1> USE DEF TypeOK, TablesTypeOK, ProcessesTypeOK, At, Goto, Exit, leaseVars, procVars
<1> DEFINE Handled(r) ==
             \/ <<r, "timeout_or_stall">> \in checkpoints
             \/ \E p \in Processes :
                  \/ pc[p] = "checkpointLeases" /\ r \in todo[p]
                  \/ pc[p] = "checkpointTimeout" /\ cur[p] = r
           Lost == {"expired", "terminated"}
<1> SUFFICES ASSUME NEW r \in Runs, leaseStatus'[r] \in Lost
             PROVE  Handled(r)'
  BY DEF EndedLeaseReachesRecovery
<1>1. leaseStatus[r] \in Lost => Handled(r)
  BY DEF EndedLeaseReachesRecovery
<1> HIDE DEF Lost
<1>2. ASSUME NEW j \in Jobs, PlanJob(j) PROVE Handled(r)'
  BY <1>1, <1>2 DEF PlanJob
<1>3. ASSUME NEW s \in Runs, LeaseTimePasses(s) PROVE Handled(r)'
  BY <1>1, <1>3 DEF LeaseTimePasses
<1>4. ASSUME NEW p \in Processes, ExpireDueLeases(p) PROVE Handled(r)'
  BY <1>1, <1>4 DEF ExpireDueLeases, Lost
<1>5. ASSUME NEW p \in Processes, CheckpointExpiredLease(p) PROVE Handled(r)'
  BY <1>1, <1>5 DEF CheckpointExpiredLease
<1>6. ASSUME NEW p \in Processes, FinishWatch(p) PROVE Handled(r)'
  BY <1>1, <1>6 DEF FinishWatch
<1>7. ASSUME NEW p \in Processes, ListStrandedRuns(p) PROVE Handled(r)'
  BY <1>1, <1>7 DEF ListStrandedRuns
<1>8. ASSUME NEW p \in Processes, IssueRestartTrigger(p) PROVE Handled(r)'
  BY <1>1, <1>8 DEF IssueRestartTrigger
<1>9. ASSUME NEW p \in Processes, RejectUnstartedRun(p) PROVE Handled(r)'
  BY <1>1, <1>9 DEF RejectUnstartedRun
<1>10. ASSUME NEW p \in Processes, FailStrandedRun(p) PROVE Handled(r)'
  BY <1>1, <1>10 DEF FailStrandedRun
<1>11. ASSUME NEW p \in Processes, ReplanJob(p) PROVE Handled(r)'
  BY <1>1, <1>11 DEF ReplanJob
<1>12. ASSUME NEW p \in Processes, FailStrandedExecution(p) PROVE Handled(r)'
  BY <1>1, <1>12 DEF FailStrandedExecution
<1>13. ASSUME NEW p \in Processes, FinishRecovery(p) PROVE Handled(r)'
  BY <1>1, <1>13 DEF FinishRecovery
<1>14. ASSUME NEW p \in Processes, LeaseDueJob(p) PROVE Handled(r)'
  BY <1>1, <1>14 DEF LeaseDueJob
<1>15. ASSUME NEW p \in Processes, NoDueJob(p) PROVE Handled(r)'
  BY <1>1, <1>15 DEF NoDueJob
<1>16. ASSUME NEW p \in Processes, StartJob(p) PROVE Handled(r)'
  BY <1>1, <1>16 DEF StartJob
<1>17. ASSUME NEW p \in Processes, StartRun(p) PROVE Handled(r)'
  BY <1>1, <1>17 DEF StartRun
<1>18. ASSUME NEW p \in Processes, AcquireLease(p) PROVE Handled(r)'
  BY <1>1, <1>18 DEF AcquireLease, SetLease, Lost
<1>19. ASSUME NEW p \in Processes, WorkerAnswers(p) PROVE Handled(r)'
  BY <1>1, <1>19 DEF WorkerAnswers
<1>20. ASSUME NEW p \in Processes, WorkerFails(p) PROVE Handled(r)'
  BY <1>1, <1>20 DEF WorkerFails
<1>21. ASSUME NEW p \in Processes, CheckLease(p) PROVE Handled(r)'
  BY <1>1, <1>21 DEF CheckLease
<1>22. ASSUME NEW p \in Processes, LeaseLost(p) PROVE Handled(r)'
  BY <1>1, <1>22 DEF LeaseLost
<1>23. ASSUME NEW p \in Processes, ReleaseLease(p) PROVE Handled(r)'
  BY <1>1, <1>23 DEF ReleaseLease, ReleaseIfActive, SetLease, Lost
<1>24. ASSUME NEW p \in Processes, ApplyStage(p) PROVE Handled(r)'
  BY <1>1, <1>24 DEF ApplyStage
<1>25. ASSUME NEW p \in Processes, CompleteRun(p) PROVE Handled(r)'
  BY <1>1, <1>25 DEF CompleteRun
<1>26. ASSUME NEW p \in Processes, CompleteJob(p) PROVE Handled(r)'
  BY <1>1, <1>26 DEF CompleteJob
<1>27. ASSUME NEW p \in Processes, CompleteExecution(p) PROVE Handled(r)'
  BY <1>1, <1>27 DEF CompleteExecution
<1>28. ASSUME NEW p \in Processes, ApplyFails(p) PROVE Handled(r)'
  BY <1>1, <1>28 DEF ApplyFails
<1>29. ASSUME NEW p \in Processes, FailRun(p) PROVE Handled(r)'
  BY <1>1, <1>29 DEF FailRun
<1>30. ASSUME NEW p \in Processes, FailJob(p) PROVE Handled(r)'
  BY <1>1, <1>30 DEF FailJob
<1>31. ASSUME NEW p \in Processes, FailExecution(p) PROVE Handled(r)'
  BY <1>1, <1>31 DEF FailExecution
<1>32. ASSUME NEW p \in Processes, ReleaseAfterFailure(p) PROVE Handled(r)'
  BY <1>1, <1>32 DEF ReleaseAfterFailure, ReleaseIfActive, SetLease, Lost
<1>33. ASSUME NEW p \in Processes, TerminateLease(p) PROVE Handled(r)'
  BY <1>1, <1>33 DEF TerminateLease, SetLease, Lost
<1>34. ASSUME NEW p \in Processes, TerminateRefused(p) PROVE Handled(r)'
  BY <1>1, <1>34 DEF TerminateRefused
<1>35. ASSUME NEW p \in Processes, CheckpointTimeout(p) PROVE Handled(r)'
  BY <1>1, <1>35 DEF CheckpointTimeout
<1>36. ASSUME NEW p \in Processes, DedupIndexRejects(p) PROVE Handled(r)'
  BY <1>1, <1>36 DEF DedupIndexRejects
<1>37. ASSUME NEW p \in Processes, Crash(p) PROVE Handled(r)'
  BY <1>1, <1>37 DEF Crash, CheckpointsAreWritten
<1>38. CASE UNCHANGED vars
  BY <1>1, <1>38 DEF vars
<1> QED
  BY <1>2, <1>3, <1>4, <1>5, <1>6, <1>7, <1>8, <1>9, <1>10, <1>11, <1>12, <1>13, <1>14, <1>15,
     <1>16, <1>17, <1>18, <1>19, <1>20, <1>21, <1>22, <1>23, <1>24, <1>25, <1>26, <1>27, <1>28,
     <1>29, <1>30, <1>31, <1>32, <1>33, <1>34, <1>35, <1>36, <1>37, <1>38
     DEF Next, Step, Supervise, Execute, Fail

\* Where no process fails between the end of a lease and its checkpoint, no lease
\* taken away for lack of time is forgotten, however many processes expire them.
THEOREM EndedLeasesReachRecovery ==
  ASSUME CheckpointsAreWritten
  PROVE  Spec => []EndedLeaseReachesRecovery
<1>1. Init => EndedLeaseReachesRecovery
  BY DEF Init, EndedLeaseReachesRecovery
<1>2. TypeOK /\ EndedLeaseReachesRecovery /\ [Next]_vars => EndedLeaseReachesRecovery'
  BY EndedLeaseStep
<1> QED
  BY <1>1, <1>2, TypeCorrect, PTL DEF Spec

-----------------------------------------------------------------------------
(* What a restart takes for stranded. *)

\* A process that scans holds no run, and only one that may execute recovers.
ScansHoldNothing ==
  \A p \in Processes :
    /\ pc[p] \in {"idle", "checkpointLeases", "recover", "schedule"} => cur[p] = None
    /\ pc[p] \in RecoveryPoints => p \in Executors

LEMMA ScanStep ==
  ASSUME TypeOK, ScansHoldNothing, [Next]_vars
  PROVE  ScansHoldNothing'
<1> USE BackgroundJobsAssumption
    DEF TypeOK, ProcessesTypeOK, ScansHoldNothing, RecoveryPoints, At, Goto, Exit, procVars
<1>1. ASSUME NEW p \in Processes, Supervise(p) PROVE ScansHoldNothing'
  <2>1. CASE ExpireDueLeases(p) \/ CheckpointExpiredLease(p) \/ ListStrandedRuns(p)
             \/ IssueRestartTrigger(p) \/ FinishRecovery(p)
    BY <2>1
       DEF ExpireDueLeases, CheckpointExpiredLease, ListStrandedRuns, IssueRestartTrigger,
           FinishRecovery, Executors
  <2>2. CASE FailStrandedRun(p) \/ ReplanJob(p)
    BY <2>2 DEF FailStrandedRun, ReplanJob
  <2>3. CASE FailStrandedExecution(p)
    BY <2>3 DEF FailStrandedExecution
  <2>4. CASE FinishWatch(p) \/ RejectUnstartedRun(p)
    BY <2>4 DEF FinishWatch, RejectUnstartedRun
  <2> QED
    BY <1>1, <2>1, <2>2, <2>3, <2>4 DEF Supervise
<1>2. ASSUME NEW p \in Processes, Execute(p) PROVE ScansHoldNothing'
  <2>1. CASE LeaseDueJob(p)
    BY <2>1 DEF LeaseDueJob
  <2>2. CASE StartJob(p) \/ StartRun(p) \/ AcquireLease(p) \/ WorkerAnswers(p) \/ WorkerFails(p)
             \/ CheckLease(p) \/ ReleaseLease(p) \/ CompleteRun(p) \/ CompleteJob(p)
    BY <2>2
       DEF StartJob, StartRun, AcquireLease, WorkerAnswers, WorkerFails, CheckLease, ReleaseLease,
           CompleteRun, CompleteJob
  <2>3. CASE ApplyStage(p)
    BY <2>3 DEF ApplyStage
  <2>4. CASE NoDueJob(p) \/ LeaseLost(p) \/ CompleteExecution(p)
    BY <2>4 DEF NoDueJob, LeaseLost, CompleteExecution
  <2> QED
    BY <1>2, <2>1, <2>2, <2>3, <2>4 DEF Execute
<1>3. ASSUME NEW p \in Processes, Fail(p) \/ Crash(p) PROVE ScansHoldNothing'
  <2>1. CASE ApplyFails(p) \/ FailRun(p) \/ FailJob(p) \/ FailExecution(p) \/ TerminateLease(p)
    BY <2>1 DEF ApplyFails, FailRun, FailJob, FailExecution, TerminateLease
  <2>2. CASE ReleaseAfterFailure(p) \/ TerminateRefused(p) \/ CheckpointTimeout(p)
             \/ DedupIndexRejects(p) \/ Crash(p)
    BY <2>2
       DEF ReleaseAfterFailure, TerminateRefused, CheckpointTimeout, DedupIndexRejects, Crash
  <2> QED
    BY <1>3, <2>1, <2>2 DEF Fail
<1>4. CASE UNCHANGED vars \/ (\E j \in Jobs : PlanJob(j)) \/ \E r \in Runs : LeaseTimePasses(r)
  BY <1>4 DEF vars, PlanJob, LeaseTimePasses
<1> QED
  BY <1>1, <1>2, <1>3, <1>4 DEF Next, Step

\* A checkpoint of a restart is written by the scan alone.
LEMMA RestartIsWritten ==
  ASSUME [Next]_vars, NEW r \in Runs,
         <<r, "supervisor_restart">> \in checkpoints' \ checkpoints
  PROVE  \E p \in Processes : IssueRestartTrigger(p)
<1>1. ASSUME NEW p \in Processes, Supervise(p), ~IssueRestartTrigger(p)
      PROVE  <<r, "supervisor_restart">> \notin checkpoints' \ checkpoints
  <2>1. CASE CheckpointExpiredLease(p)
    BY <2>1 DEF CheckpointExpiredLease
  <2>2. CASE ~CheckpointExpiredLease(p)
    <3>1. checkpoints' = checkpoints
      BY <1>1, <2>2
         DEF Supervise, ExpireDueLeases, FinishWatch, ListStrandedRuns, RejectUnstartedRun,
             FailStrandedRun, ReplanJob, FailStrandedExecution, FinishRecovery
    <3> QED
      BY <3>1
  <2> QED
    BY <2>1, <2>2
<1>2. ASSUME NEW p \in Processes, Execute(p) PROVE checkpoints' = checkpoints
  BY <1>2
     DEF Execute, LeaseDueJob, NoDueJob, StartJob, StartRun, AcquireLease, WorkerAnswers,
         WorkerFails,
         CheckLease, LeaseLost, ReleaseLease, ApplyStage, CompleteRun, CompleteJob, CompleteExecution
<1>3. ASSUME NEW p \in Processes, Fail(p) \/ Crash(p)
      PROVE  <<r, "supervisor_restart">> \notin checkpoints' \ checkpoints
  BY <1>3
     DEF Fail, ApplyFails, FailRun, FailJob, FailExecution, ReleaseAfterFailure, TerminateLease,
         TerminateRefused, CheckpointTimeout, DedupIndexRejects, Crash
<1>4. CASE UNCHANGED vars \/ (\E j \in Jobs : PlanJob(j)) \/ \E s \in Runs : LeaseTimePasses(s)
  BY <1>4 DEF vars, PlanJob, LeaseTimePasses
<1> QED
  BY <1>1, <1>2, <1>3, <1>4 DEF Next, Step

\* With one executor, what the scan of a restart takes for stranded is stranded:
\* the second executor is all that the run live_run_recovered needs.
THEOREM OneExecutorRecoversStranded ==
  ASSUME SingleExecutor
  PROVE  Spec => RecoveredRunsWereStranded
<1> DEFINE Stranded == \A r \in Runs :
             /\ <<r, "supervisor_restart">> \in checkpoints'
             /\ <<r, "supervisor_restart">> \notin checkpoints
             => \A p \in Executors : cur[p] # r
<1>1. Init => ScansHoldNothing
  BY DEF Init, ScansHoldNothing, RecoveryPoints
<1>2. TypeOK /\ ScansHoldNothing /\ [Next]_vars => ScansHoldNothing'
  BY ScanStep
<1>3. TypeOK /\ ScansHoldNothing /\ [Next]_vars => [Stranded]_vars
  <2> SUFFICES ASSUME ScansHoldNothing, [Next]_vars, NEW r \in Runs,
                      <<r, "supervisor_restart">> \in checkpoints' \ checkpoints,
                      NEW q \in Executors
               PROVE  cur[q] # r
    OBVIOUS
  <2>1. PICK p \in Processes : IssueRestartTrigger(p)
    BY RestartIsWritten
  <2>2. p \in Executors /\ cur[p] = None
    BY <2>1 DEF IssueRestartTrigger, At, ScansHoldNothing, RecoveryPoints
  <2> QED
    BY <2>2, SingleExecutor, BackgroundJobsAssumption DEF SingleExecutor
<1>4. Spec => [][Stranded]_vars
  BY <1>1, <1>2, <1>3, TypeCorrect, PTL DEF Spec
<1> QED
  BY <1>4 DEF RecoveredRunsWereStranded
=============================================================================
