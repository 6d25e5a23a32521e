--------------------------- MODULE ComponentProofs ---------------------------
(***************************************************************************)
(* Proofs about the workspace, the migrations, the wake signals and the    *)
(* retrieval artifacts: for any number of governed actions, of processes   *)
(* of any checkouts, of background jobs with any limit and of turns, and   *)
(* an abandonment of any of them between two statements; about the         *)
(* decision table; and about the components side by side.                  *)
(***************************************************************************)
EXTENDS MCComponents, IdentityProofs, ContinuityProofs, WorkerProtocolProofs,
        FiniteSetTheorems

-----------------------------------------------------------------------------
(***************************************************************************)
(* The workspace.                                                          *)
(***************************************************************************)
OperationRecords ==
  [at : {"idle", "read", "write", "lock", "insert", "done", "failed"},
   kind : {"create", "edit", "append", "run"}, named : Nat, number : Nat]

\* The append that holds the script's row has its next number; a script has
\* one creation, before which nobody appends; a version that is named exists.
AppendsInOrder ==
  \A o \in WorkspaceActions :
    /\ Operates(o, "insert") => scriptLock = o /\ operation[o].number = Len(versions) + 1
    /\ operation[o].at \in {"lock", "insert"} => operation[o].kind = "append"
    /\ operation[o].kind = "append" => versions # <<>> /\ operation[o].named <= Len(versions)
    /\ operation[o].kind = "create" /\ Operates(o, "read") => versions = <<>>
    /\ \A p \in WorkspaceActions :
         operation[o].kind = "create" /\ operation[p].kind = "create" => o = p

\* An action that moves on changes its own record only.
LEMMA StepTyped ==
  ASSUME operation \in [WorkspaceActions -> OperationRecords], NEW o \in WorkspaceActions,
         NEW point \in {"idle", "read", "write", "lock", "insert", "done", "failed"},
         Step(o, point)
  PROVE  /\ operation' \in [WorkspaceActions -> OperationRecords]
         /\ operation'[o].at = point /\ operation'[o].kind = operation[o].kind
         /\ operation'[o].named = operation[o].named /\ operation'[o].number = operation[o].number
         /\ \A p \in WorkspaceActions \ {o} : operation'[p] = operation[p]
<1>1. [operation[o] EXCEPT !.at = point] \in OperationRecords
  BY DEF OperationRecords
<1> QED
  BY <1>1 DEF Step, OperationRecords

\* Every statement keeps the types and the order of the appends.
LEMMA WorkspaceStep ==
  WorkspaceTypeOK /\ AppendsInOrder /\ [WorkspaceNext]_workspaceVars
    => (WorkspaceTypeOK /\ AppendsInOrder)'
<1> SUFFICES ASSUME WorkspaceTypeOK, AppendsInOrder, [WorkspaceNext]_workspaceVars
             PROVE  (WorkspaceTypeOK /\ AppendsInOrder)'
  OBVIOUS
<1>0. /\ operation \in [WorkspaceActions -> OperationRecords] /\ versions \in Seq(WorkspaceActions)
      /\ Len(versions) \in Nat /\ (versions = <<>> <=> Len(versions) = 0)
      /\ note.revision \in Nat /\ scriptRuns \in [WorkspaceActions -> Nat]
      /\ scriptLock \in WorkspaceActions \cup {NoOperation}
  BY DEF WorkspaceTypeOK, OperationRecords
<1>a. ASSUME operation' \in [WorkspaceActions -> OperationRecords],
             UNCHANGED <<note, versions, scriptLock, scriptRuns>>
      PROVE  WorkspaceTypeOK'
  BY <1>a DEF WorkspaceTypeOK, OperationRecords
<1>1. ASSUME NEW o \in WorkspaceActions, NEW kind \in {"create", "edit", "append", "run"},
             NEW named \in {Unnamed, note.revision} \cup DOMAIN versions,
             ProposeOperation(o, kind, named)
      PROVE  (WorkspaceTypeOK /\ AppendsInOrder)'
  <2>1. named \in Nat /\ (kind = "append" => named <= Len(versions))
    BY <1>0, <1>1 DEF ProposeOperation, Unnamed
  <2>2. [at |-> "read", kind |-> kind, named |-> named, number |-> 0] \in OperationRecords
    BY <2>1 DEF OperationRecords
  <2>3. /\ operation' \in [WorkspaceActions -> OperationRecords]
        /\ operation'[o].at = "read" /\ operation'[o].kind = kind /\ operation'[o].named = named
        /\ \A p \in WorkspaceActions \ {o} : operation'[p] = operation[p]
        /\ UNCHANGED <<note, versions, scriptLock, scriptRuns>>
    BY <1>0, <1>1, <2>2 DEF ProposeOperation
  <2>4. /\ kind = "append" => versions # <<>>
        /\ kind = "create" => versions = <<>> /\ \A p \in WorkspaceActions : operation[p].kind # "create"
    BY <1>1 DEF ProposeOperation
  <2> QED
    BY <1>a, <2>1, <2>3, <2>4 DEF AppendsInOrder, Operates
<1>2. ASSUME NEW o \in WorkspaceActions,
             NEW point \in {"write", "lock", "done", "failed"}, Step(o, point),
             point = "lock" => operation[o].kind = "append",
             UNCHANGED versions, scriptLock' \in {scriptLock, NoOperation},
             scriptLock' # scriptLock => scriptLock = o
      PROVE  AppendsInOrder'
  <2>1. /\ operation'[o].at = point /\ operation'[o].kind = operation[o].kind
        /\ operation'[o].named = operation[o].named
        /\ \A p \in WorkspaceActions \ {o} : operation'[p] = operation[p]
    BY <1>0, <1>2, StepTyped
  <2> QED
    BY <1>2, <2>1 DEF AppendsInOrder, Operates
<1>3. ASSUME NEW o \in WorkspaceActions, ReadNote(o) \/ ReadScript(o)
      PROVE  (WorkspaceTypeOK /\ AppendsInOrder)'
  <2>1. PICK point \in {"write", "lock", "failed"} :
          Step(o, point) /\ (point = "lock" => operation[o].kind = "append")
    BY <1>3 DEF ReadNote, ReadScript
  <2>2. operation' \in [WorkspaceActions -> OperationRecords]
    BY <1>0, <2>1, StepTyped
  <2> QED
    BY <1>3, <1>a, <1>2, <2>1, <2>2 DEF ReadNote, ReadScript
<1>4. ASSUME NEW o \in WorkspaceActions, WriteNote(o)
      PROVE  (WorkspaceTypeOK /\ AppendsInOrder)'
  <2>1. operation' \in [WorkspaceActions -> OperationRecords]
    BY <1>0, <1>4, StepTyped DEF WriteNote
  <2>2. note' \in [revision : Nat, by : WorkspaceActions \cup {NoOperation}]
    <3>1. note' = [revision |-> note.revision + 1, by |-> o]
      BY <1>4 DEF WriteNote
    <3>2. note.revision + 1 \in Nat
      BY <1>0
    <3> QED
      BY <3>1, <3>2 DEF WorkspaceTypeOK
  <2>3. UNCHANGED <<versions, scriptLock, scriptRuns>>
    BY <1>4 DEF WriteNote
  <2>4. WorkspaceTypeOK'
    BY <2>1, <2>2, <2>3 DEF WorkspaceTypeOK, OperationRecords
  <2> QED
    BY <1>2, <1>4, <2>4 DEF WriteNote
<1>5. ASSUME NEW o \in WorkspaceActions, CreateScript(o)
      PROVE  (WorkspaceTypeOK /\ AppendsInOrder)'
  <2>1. /\ operation' \in [WorkspaceActions -> OperationRecords]
        /\ operation'[o].at = "done" /\ operation'[o].kind = "create" /\ operation[o].kind = "create"
        /\ \A p \in WorkspaceActions \ {o} : operation'[p] = operation[p]
    BY <1>0, <1>5, StepTyped DEF CreateScript
  <2>2. versions' = <<o>> /\ versions = <<>>
    BY <1>5 DEF CreateScript, AppendsInOrder
  <2>3. WorkspaceTypeOK'
    BY <1>5, <2>1, <2>2 DEF CreateScript, WorkspaceTypeOK, OperationRecords
  <2>4. \A p \in WorkspaceActions : operation[p].kind # "append" /\ operation[p].at \notin {"lock", "insert"}
    BY <2>2 DEF AppendsInOrder
  <2>5. \A p \in WorkspaceActions \ {o} : operation[p].kind # "create"
    BY <2>1 DEF AppendsInOrder
  <2>6. ASSUME NEW p \in WorkspaceActions
        PROVE  /\ operation'[p].at \notin {"lock", "insert"}
               /\ operation'[p].kind # "append"
               /\ operation'[p].kind = "create" => p = o
    <3>1. CASE p = o
      BY <3>1, <2>1
    <3>2. CASE p # o
      BY <3>2, <2>1, <2>4, <2>5
    <3> QED
      BY <3>1, <3>2
  <2> QED
    BY <2>1, <2>3, <2>6 DEF AppendsInOrder, Operates
<1>6. ASSUME NEW o \in WorkspaceActions, LockScript(o)
      PROVE  (WorkspaceTypeOK /\ AppendsInOrder)'
  <2>1. [operation[o] EXCEPT !.at = "insert", !.number = Len(versions) + 1] \in OperationRecords
    <3>1. operation[o] \in OperationRecords /\ Len(versions) + 1 \in Nat
      BY <1>0, <1>6
    <3> QED
      BY <3>1 DEF OperationRecords
  <2>2. /\ operation' \in [WorkspaceActions -> OperationRecords]
        /\ operation'[o].at = "insert" /\ operation'[o].kind = operation[o].kind
        /\ operation'[o].named = operation[o].named /\ operation'[o].number = Len(versions) + 1
        /\ \A p \in WorkspaceActions \ {o} : operation'[p] = operation[p]
    BY <1>0, <1>6, <2>1 DEF LockScript, OperationRecords
  <2>3. WorkspaceTypeOK'
    BY <1>6, <2>2 DEF LockScript, WorkspaceTypeOK, OperationRecords
  <2>4. /\ scriptLock' = o /\ scriptLock = NoOperation /\ versions' = versions
        /\ operation[o].kind = "append"
    BY <1>6 DEF LockScript, AppendsInOrder, Operates
  <2>5. \A p \in WorkspaceActions : operation[p].at # "insert"
    BY <2>4, WorkspaceAssumption DEF AppendsInOrder, Operates
  <2> QED
    BY <2>2, <2>3, <2>4, <2>5 DEF AppendsInOrder, Operates
<1>7. ASSUME NEW o \in WorkspaceActions, InsertVersion(o)
      PROVE  (WorkspaceTypeOK /\ AppendsInOrder)'
  <2>1. /\ operation' \in [WorkspaceActions -> OperationRecords]
        /\ operation'[o].at = "done" /\ operation'[o].kind = operation[o].kind
        /\ operation'[o].named = operation[o].named
        /\ \A p \in WorkspaceActions \ {o} : operation'[p] = operation[p]
    BY <1>0, <1>7, StepTyped DEF InsertVersion
  <2>2. versions' \in Seq(WorkspaceActions) /\ Len(versions') = Len(versions) + 1 /\ versions' # <<>>
    BY <1>0, <1>7 DEF InsertVersion
  <2>3. WorkspaceTypeOK'
    BY <1>7, <2>1, <2>2 DEF InsertVersion, WorkspaceTypeOK, OperationRecords
  <2>4. /\ \A p \in WorkspaceActions \ {o} : operation[p].at # "insert"
        /\ operation[o].kind = "append" /\ versions # <<>>
    BY <1>7 DEF InsertVersion, AppendsInOrder, Operates
  <2>5. \A p \in WorkspaceActions : operation[p].named \in Nat
    BY <1>0 DEF OperationRecords
  <2>6. ASSUME NEW p \in WorkspaceActions
        PROVE  /\ operation'[p].at # "insert"
               /\ operation'[p].at = "lock" => operation'[p].kind = "append"
               /\ operation'[p].kind = "append" => operation'[p].named <= Len(versions')
               /\ ~(operation'[p].kind = "create" /\ operation'[p].at = "read")
               /\ operation'[p].kind = operation[p].kind
    <3>1. CASE p = o
      BY <3>1, <1>0, <2>1, <2>2, <2>4, <2>5 DEF AppendsInOrder
    <3>2. CASE p # o
      BY <3>2, <1>0, <2>1, <2>2, <2>4, <2>5 DEF AppendsInOrder, Operates
    <3> QED
      BY <3>1, <3>2
  <2> QED
    BY <2>2, <2>3, <2>6 DEF AppendsInOrder, Operates
<1>8. ASSUME NEW o \in WorkspaceActions, RecordScriptRun(o)
      PROVE  (WorkspaceTypeOK /\ AppendsInOrder)'
  <2>1. operation' \in [WorkspaceActions -> OperationRecords] /\ operation[o].named \in Nat
    BY <1>0, <1>8, StepTyped DEF RecordScriptRun, OperationRecords
  <2>2. WorkspaceTypeOK'
    BY <1>0, <1>8, <2>1 DEF RecordScriptRun, WorkspaceTypeOK, OperationRecords
  <2> QED
    BY <1>2, <1>8, <2>2 DEF RecordScriptRun
<1>9. ASSUME NEW o \in WorkspaceActions, AbandonOperation(o)
      PROVE  (WorkspaceTypeOK /\ AppendsInOrder)'
  <2>1. operation' \in [WorkspaceActions -> OperationRecords]
    BY <1>0, <1>9, StepTyped DEF AbandonOperation
  <2>2. WorkspaceTypeOK'
    BY <1>0, <1>9, <2>1 DEF AbandonOperation, WorkspaceTypeOK, OperationRecords
  <2> QED
    BY <1>2, <1>9, <2>2 DEF AbandonOperation
<1>10. CASE UNCHANGED workspaceVars
  BY <1>10 DEF workspaceVars, WorkspaceTypeOK, AppendsInOrder, Operates
<1> QED
  BY <1>1, <1>3, <1>4, <1>5, <1>6, <1>7, <1>8, <1>9, <1>10 DEF WorkspaceNext

\* An append keeps the number it took, whatever other appends check, wait for
\* and fail at meanwhile.
THEOREM AppendsAreNumbered == WorkspaceSpec => []AppendsKeepTheirNumber
<1>1. WorkspaceInit => WorkspaceTypeOK /\ AppendsInOrder
  BY DEF WorkspaceInit, WorkspaceTypeOK, AppendsInOrder, Operates, Unnamed
<1>2. WorkspaceTypeOK /\ AppendsInOrder => AppendsKeepTheirNumber
  BY DEF WorkspaceTypeOK, AppendsInOrder, AppendsKeepTheirNumber, Operates
<1> QED
  BY <1>1, <1>2, WorkspaceStep, PTL DEF WorkspaceSpec

\* Any number of actions: the note, the script and every action keep their types.
THEOREM WorkspaceTypeCorrect == WorkspaceSpec => []WorkspaceTypeOK
<1>1. WorkspaceInit => WorkspaceTypeOK /\ AppendsInOrder
  BY DEF WorkspaceInit, WorkspaceTypeOK, AppendsInOrder, Operates, Unnamed
<1> QED
  BY <1>1, WorkspaceStep, PTL DEF WorkspaceSpec

-----------------------------------------------------------------------------
(***************************************************************************)
(* The migrations.  The history only grows, and by the next file of a      *)
(* command that has found all of it among its own files.                   *)
(***************************************************************************)
ProcessRecords ==
  [at : ProcessPoints, serves : BOOLEAN, files : Checkouts, listed : Nat]

\* What the process has listed of the history are the first of its files.
HasListed(p) ==
  /\ process[p].listed <= Len(history) /\ process[p].listed <= Len(process[p].files)
  /\ \A i \in 1..process[p].listed : history[i].text = process[p].files[i]

ProcessesAgree ==
  \A p \in Processes :
    /\ process[p].at = "validate" => process[p].listed <= Len(history)
    /\ process[p].at = "apply" => HasListed(p)

MigrationsInvariant == MigrationsTypeOK /\ SchemaIsReviewed /\ ProcessesAgree

\* Every row of one history is in the other, with the text it had.
Continues(later, earlier) ==
  /\ later \in Seq(Checksums) /\ Len(earlier) <= Len(later)
  /\ \A i \in 1..Len(earlier) : later[i].text = earlier[i].text

\* A checkout is a sequence of texts.
LEMMA FilesTyped == \A c \in Checkouts : c \in Seq(Texts) /\ Len(c) \in Nat /\ DOMAIN c = 1..Len(c)
BY MigrationsAssumption

\* A process that moves on changes its own record only.
LEMMA ReachesTyped ==
  ASSUME process \in [Processes -> ProcessRecords], NEW p \in Processes,
         NEW point \in ProcessPoints, Reaches(p, point)
  PROVE  /\ process' \in [Processes -> ProcessRecords]
         /\ process'[p].at = point /\ process'[p].files = process[p].files
         /\ process'[p].listed = process[p].listed
         /\ \A q \in Processes \ {p} : process'[q] = process[q]
<1>1. [process[p] EXCEPT !.at = point] \in ProcessRecords
  BY DEF ProcessRecords
<1> QED
  BY <1>1 DEF Reaches, ProcessRecords

\* What a process knows of the history stays so when the history continues.
LEMMA StillAgrees ==
  ASSUME MigrationsInvariant, Continues(history', history),
         NEW q \in Processes, process'[q] = process[q]
  PROVE  /\ process'[q].at = "validate" => process'[q].listed <= Len(history')
         /\ process'[q].at = "apply" => HasListed(q)'
         /\ process'[q].at = "running" =>
              /\ Len(process'[q].files) <= Len(history')
              /\ \A i \in DOMAIN process'[q].files : history'[i].text = process'[q].files[i]
<1>1. /\ process[q].files \in Checkouts /\ process[q].listed \in Nat
      /\ Len(history) \in Nat /\ Len(history') \in Nat
  BY DEF MigrationsInvariant, MigrationsTypeOK, Continues
<1>2. Len(process[q].files) \in Nat /\ DOMAIN process[q].files = 1..Len(process[q].files)
  BY <1>1, FilesTyped
<1> QED
  BY <1>1, <1>2 DEF MigrationsInvariant, ProcessesAgree, SchemaIsReviewed, HasListed, Continues

\* A process that moves on without a change of the history.
LEMMA ReachesAgrees ==
  ASSUME MigrationsInvariant, NEW p \in Processes, NEW point \in ProcessPoints,
         Reaches(p, point), UNCHANGED history,
         point # "validate", point = "apply" => HasListed(p),
         point = "running" => Matches(history, process[p].files)
                              /\ Len(history) = Len(process[p].files)
  PROVE  MigrationsInvariant'
<1>1. process \in [Processes -> ProcessRecords] /\ history \in Seq(Checksums)
  BY DEF MigrationsInvariant, MigrationsTypeOK, ProcessRecords
<1>2. /\ process' \in [Processes -> ProcessRecords]
      /\ process'[p].at = point /\ process'[p].files = process[p].files
      /\ process'[p].listed = process[p].listed
      /\ \A q \in Processes \ {p} : process'[q] = process[q]
  BY <1>1, ReachesTyped
<1>3. MigrationsTypeOK'
  BY <1>1, <1>2 DEF MigrationsTypeOK, ProcessRecords
<1>4. Continues(history', history)
  BY <1>1 DEF Continues
<1>5. HasListed(p)' <=> HasListed(p)
  BY <1>2 DEF HasListed
<1>6. Len(process[p].files) \in Nat /\ DOMAIN process[p].files = 1..Len(process[p].files)
      /\ Len(history) \in Nat /\ DOMAIN history = 1..Len(history)
  BY <1>1, FilesTyped DEF ProcessRecords
<1>7. ASSUME point = "running"
      PROVE  /\ Len(process'[p].files) <= Len(history')
             /\ \A i \in DOMAIN process'[p].files : history'[i].text = process'[p].files[i]
  BY <1>2, <1>6, <1>7 DEF Matches
<1>8. SchemaIsReviewed'
  <2>1. \E c \in Checkouts : Matches(history', c)
    BY DEF MigrationsInvariant, SchemaIsReviewed
  <2>2. \A q \in Processes : process'[q].at = "running" =>
          /\ Len(process'[q].files) <= Len(history')
          /\ \A i \in DOMAIN process'[q].files : history'[i].text = process'[q].files[i]
    <3>1. ASSUME NEW q \in Processes \ {p}
          PROVE  process'[q].at = "running" =>
                   /\ Len(process'[q].files) <= Len(history')
                   /\ \A i \in DOMAIN process'[q].files : history'[i].text = process'[q].files[i]
      BY <1>2, <1>4, <3>1, StillAgrees
    <3> QED
      BY <1>2, <1>7, <3>1
  <2> QED
    BY <2>1, <2>2 DEF SchemaIsReviewed
<1>9. ProcessesAgree'
  BY <1>2, <1>4, <1>5, StillAgrees DEF ProcessesAgree
<1> QED
  BY <1>3, <1>8, <1>9 DEF MigrationsInvariant

\* Every statement of a process keeps the invariant of the migrations.
LEMMA MigrationsStep == MigrationsInvariant /\ [MigrationsNext]_migrationVars => MigrationsInvariant'
<1> SUFFICES ASSUME MigrationsInvariant, [MigrationsNext]_migrationVars
             PROVE  MigrationsInvariant'
  OBVIOUS
<1>0. /\ process \in [Processes -> ProcessRecords] /\ history \in Seq(Checksums)
      /\ Len(history) \in Nat /\ DOMAIN history = 1..Len(history)
  BY DEF MigrationsInvariant, MigrationsTypeOK, ProcessRecords
<1>f. ASSUME NEW p \in Processes
      PROVE  /\ process[p].files \in Checkouts /\ process[p].listed \in Nat
             /\ Len(process[p].files) \in Nat /\ process[p].files \in Seq(Texts)
             /\ DOMAIN process[p].files = 1..Len(process[p].files)
  BY <1>0, <1>f, FilesTyped DEF ProcessRecords
<1>1. ASSUME NEW p \in Processes,
             BeginProcess(p) \/ FinishMigration(p) \/ CutProcess(p)
      PROVE  MigrationsInvariant'
  <2>1. PICK point \in {"normalize", "done", "failed"} : Reaches(p, point) /\ UNCHANGED history
    BY <1>1 DEF BeginProcess, FinishMigration, CutProcess
  <2>2. point \in ProcessPoints
    BY DEF ProcessPoints
  <2> QED
    BY <2>1, <2>2, ReachesAgrees
<1>2. ASSUME NEW p \in Processes, VerifySchema(p)
      PROVE  MigrationsInvariant'
  <2>1. CASE Supported(history, process[p].files)
    BY <1>2, <2>1, ReachesAgrees DEF VerifySchema, Supported, ProcessPoints
  <2>2. CASE ~Supported(history, process[p].files)
    BY <1>2, <2>2, ReachesAgrees DEF VerifySchema, ProcessPoints
  <2> QED
    BY <2>1, <2>2
<1>3. ASSUME NEW p \in Processes, ValidateHistory(p)
      PROVE  MigrationsInvariant'
  <2>1. CASE Matches(history, process[p].files)
    <3>1. process[p].listed <= Len(history)
      BY <1>3 DEF ValidateHistory, MigrationsInvariant, ProcessesAgree
    <3>2. HasListed(p)
      BY <1>0, <1>f, <2>1, <3>1 DEF HasListed, Matches
    <3> QED
      BY <1>3, <2>1, <3>2, ReachesAgrees DEF ValidateHistory, ProcessPoints
  <2>2. CASE ~Matches(history, process[p].files)
    BY <1>3, <2>2, ReachesAgrees DEF ValidateHistory, ProcessPoints
  <2> QED
    BY <2>1, <2>2
<1>4. ASSUME NEW p \in Processes, ListApplied(p)
      PROVE  MigrationsInvariant'
  <2>1. [process[p] EXCEPT !.at = "validate", !.listed = Len(history)] \in ProcessRecords
    <3>1. process[p] \in ProcessRecords
      BY <1>0
    <3> QED
      BY <1>0, <3>1 DEF ProcessRecords, ProcessPoints
  <2>2. /\ process' \in [Processes -> ProcessRecords] /\ history' = history
        /\ process'[p].at = "validate" /\ process'[p].listed = Len(history)
        /\ \A q \in Processes \ {p} : process'[q] = process[q]
    BY <1>0, <1>4, <2>1 DEF ListApplied, ProcessRecords
  <2>3. MigrationsTypeOK'
    BY <1>0, <2>2 DEF MigrationsTypeOK, ProcessRecords
  <2>4. Continues(history', history)
    BY <1>0, <2>2 DEF Continues
  <2>5. ProcessesAgree'
    BY <1>0, <2>2, <2>4, StillAgrees DEF ProcessesAgree
  <2>6. SchemaIsReviewed'
    BY <2>2, <2>4, StillAgrees DEF MigrationsInvariant, SchemaIsReviewed
  <2> QED
    BY <2>3, <2>5, <2>6 DEF MigrationsInvariant
<1>5. ASSUME NEW p \in Processes, NormalizeMetadata(p)
      PROVE  MigrationsInvariant'
  <2>1. PICK point \in {"verify", "list"} : Reaches(p, point)
    BY <1>5 DEF NormalizeMetadata
  <2>2. /\ process' \in [Processes -> ProcessRecords]
        /\ process'[p].at = point
        /\ \A q \in Processes \ {p} : process'[q] = process[q]
    BY <1>0, <2>1, ReachesTyped DEF ProcessPoints
  <2>3. \A i \in DOMAIN history : history[i] \in Checksums
    BY <1>0
  <2>4. /\ history' = [i \in 1..Len(history) |->
             IF i <= Len(process[p].files) /\ history[i].text = process[p].files[i]
             THEN [history[i] EXCEPT !.lineEnds = "normalized"] ELSE history[i]]
    BY <1>0, <1>5 DEF NormalizeMetadata
  <2>5. \A i \in 1..Len(history) : history'[i] \in Checksums /\ history'[i].text = history[i].text
    BY <1>0, <2>3, <2>4 DEF Checksums
  <2>6. /\ history' \in Seq(Checksums) /\ Len(history') = Len(history)
        /\ DOMAIN history' = DOMAIN history
    <3>1. history' \in [1..Len(history) -> Checksums]
      BY <2>4, <2>5
    <3> QED
      BY <1>0, <3>1
  <2>7. Continues(history', history)
    BY <1>0, <2>5, <2>6 DEF Continues
  <2>8. MigrationsTypeOK'
    BY <2>2, <2>6 DEF MigrationsTypeOK, ProcessRecords
  <2>9. ProcessesAgree'
    BY <2>2, <2>7, StillAgrees DEF ProcessesAgree
  <2>10. SchemaIsReviewed'
    <3>1. \A c \in Checkouts : Matches(history, c) => Matches(history', c)
      BY <1>0, <2>5, <2>6 DEF Matches
    <3> QED
      BY <2>2, <2>7, <3>1, StillAgrees DEF MigrationsInvariant, SchemaIsReviewed
  <2> QED
    BY <2>8, <2>9, <2>10 DEF MigrationsInvariant
<1>6. ASSUME NEW p \in Processes, ApplyMigration(p)
      PROVE  MigrationsInvariant'
  <2>1. CASE Len(history) >= NextVersion(p)
    BY <1>6, <2>1, ReachesAgrees DEF ApplyMigration, ProcessPoints
  <2>2. CASE ~(Len(history) >= NextVersion(p))
    <3>1. /\ process[p].at = "apply" /\ process[p].listed = Len(history)
          /\ Len(history) + 1 <= Len(process[p].files)
          /\ \A i \in 1..Len(history) : history[i].text = process[p].files[i]
      BY <1>0, <1>6, <1>f, <2>2
         DEF ApplyMigration, NextVersion, MigrationsInvariant, ProcessesAgree, HasListed
    <3>2. /\ history' = Append(history, [text |-> process[p].files[Len(history) + 1],
                                         lineEnds |-> "normalized"])
          /\ process' = [process EXCEPT ![p].listed = Len(history) + 1]
      BY <1>6, <2>2, <3>1 DEF ApplyMigration, NextVersion
    <3>3. [text |-> process[p].files[Len(history) + 1], lineEnds |-> "normalized"] \in Checksums
      <4>1. process[p].files[Len(history) + 1] \in Texts
        BY <1>0, <1>f, <3>1
      <4> QED
        BY <4>1 DEF Checksums
    <3>4. /\ history' \in Seq(Checksums) /\ Len(history') = Len(history) + 1
          /\ DOMAIN history' = 1..(Len(history) + 1)
          /\ history'[Len(history) + 1].text = process[p].files[Len(history) + 1]
          /\ \A i \in 1..Len(history) : history'[i] = history[i]
      BY <1>0, <3>2, <3>3
    <3>5. [process[p] EXCEPT !.listed = Len(history) + 1] \in ProcessRecords
      <4>1. process[p] \in ProcessRecords
        BY <1>0
      <4> QED
        BY <1>0, <4>1 DEF ProcessRecords
    <3>6. /\ process' \in [Processes -> ProcessRecords]
          /\ process'[p].at = "apply" /\ process'[p].files = process[p].files
          /\ process'[p].listed = Len(history) + 1
          /\ \A q \in Processes \ {p} : process'[q] = process[q]
      BY <1>0, <3>1, <3>2, <3>5 DEF ProcessRecords
    <3>7. Continues(history', history)
      BY <1>0, <3>4 DEF Continues
    <3>8. \A i \in 1..(Len(history) + 1) : history'[i].text = process[p].files[i]
      <4>1. ASSUME NEW i \in 1..(Len(history) + 1)
            PROVE  history'[i].text = process[p].files[i]
        <5>1. CASE i = Len(history) + 1
          BY <5>1, <3>4
        <5>2. CASE i # Len(history) + 1
          <6>1. i \in 1..Len(history)
            BY <1>0, <4>1, <5>2
          <6> QED
            BY <6>1, <3>1, <3>4
        <5> QED
          BY <5>1, <5>2
      <4> QED
        BY <4>1
    <3>9. MigrationsTypeOK'
      BY <3>4, <3>6 DEF MigrationsTypeOK, ProcessRecords
    <3>10. ProcessesAgree'
      BY <1>0, <3>1, <3>4, <3>6, <3>7, <3>8, StillAgrees DEF ProcessesAgree, HasListed
    <3>11. Matches(history', process[p].files)
      BY <3>1, <3>4, <3>8 DEF Matches
    <3>12. SchemaIsReviewed'
      BY <1>f, <3>6, <3>7, <3>11, StillAgrees DEF SchemaIsReviewed
    <3> QED
      BY <3>9, <3>10, <3>12 DEF MigrationsInvariant
  <2> QED
    BY <2>1, <2>2
<1>7. CASE UNCHANGED migrationVars
  BY <1>7 DEF migrationVars, MigrationsInvariant, MigrationsTypeOK, SchemaIsReviewed,
              Matches, ProcessesAgree, HasListed
<1> QED
  BY <1>1, <1>2, <1>3, <1>4, <1>5, <1>6, <1>7 DEF MigrationsNext

\* An earlier release has left the history of a checkout.
LEMMA MigrationsStart == MigrationsInit => MigrationsInvariant
<1> SUFFICES ASSUME MigrationsInit PROVE MigrationsInvariant
  OBVIOUS
<1>1. PICK c \in Checkouts :
        \E n \in 0..Len(c) : history \in {rows \in [1..n -> Checksums] : Matches(rows, c)}
  BY DEF MigrationsInit
<1>2. PICK n \in 0..Len(c) : history \in {rows \in [1..n -> Checksums] : Matches(rows, c)}
  BY <1>1
<1>3. history \in Seq(Checksums) /\ Matches(history, c)
  BY <1>2, FilesTyped
<1>4. process \in [Processes -> ProcessRecords] /\ \A p \in Processes : process[p].at = "idle"
  BY DEF MigrationsInit, ProcessRecords, ProcessPoints
<1> QED
  BY <1>3, <1>4 DEF MigrationsInvariant, MigrationsTypeOK, SchemaIsReviewed,
                    ProcessesAgree, ProcessRecords

\* Commands of any checkouts leave the history of one of them, and a service
\* runs on the migrations of its own files.
THEOREM HistoryIsReviewed == MigrationsSpec => []SchemaIsReviewed
<1>1. MigrationsInvariant => SchemaIsReviewed
  BY DEF MigrationsInvariant
<1> QED
  BY <1>1, MigrationsStart, MigrationsStep, PTL DEF MigrationsSpec

\* Any number of commands and services: the history and every process keep their types.
THEOREM MigrationsTypeCorrect == MigrationsSpec => []MigrationsTypeOK
<1>1. MigrationsInvariant => MigrationsTypeOK
  BY DEF MigrationsInvariant
<1> QED
  BY <1>1, MigrationsStart, MigrationsStep, PTL DEF MigrationsSpec

-----------------------------------------------------------------------------
(***************************************************************************)
(* The wake signals.  A signal may become one of the approved from when    *)
(* its job has counted fewer than the limit until its decision is on       *)
(* record; those and the approved ones that have not cooled down are       *)
(* together fewer than the limit, because each is open for a job that      *)
(* counts after it.                                                        *)
(***************************************************************************)
SignalRecords ==
  [status : WakeDecisions \cup {"absent", "pending_review"}, code : SignalCodes,
   priority : Priorities, cooldown : {"none", "running", "over"}]
ReviewRecords ==
  [at : {"next", "count", "cooldown", "evaluate", "stage", "record", "done"},
   signal : Signals \cup {NoSignal}, over : SUBSET Signals,
   count : Nat, cooling : BOOLEAN, decision : WakeDecisions \cup {"none"}]

Reviewing(j) == review[j].at \in {"count", "cooldown", "evaluate", "stage", "record"}

\* The job has found a place below the limit, or has approved its signal.
HasPlace(j) ==
  \/ review[j].at \in {"cooldown", "evaluate"} /\ review[j].count < MaxPending
  \/ review[j].at \in {"stage", "record"} /\ review[j].decision = "accepted"

Settled(s) == signals[s].status = "accepted" /\ signals[s].cooldown = "running"
Awaiting(s) == \E j \in Reviewers : review[j].signal = s /\ HasPlace(j)
Places == {s \in Signals : signals[s].priority # "high" /\ (Settled(s) \/ Awaiting(s))}

\* A signal under review is one job's, and pending; what a job found over is.
ReviewsApart ==
  /\ \A j \in Reviewers :
       /\ Reviewing(j) => /\ review[j].signal \in Signals
                          /\ signals[review[j].signal].status = "pending_review"
                          /\ signals[review[j].signal].cooldown = "none"
       /\ review[j].over \subseteq Over
       /\ review[j].at \in {"stage", "record"} => review[j].decision \in WakeDecisions
       /\ \A k \in Reviewers :
            Reviewing(j) /\ Reviewing(k) /\ review[j].signal = review[k].signal => j = k
  /\ \A s \in Signals : signals[s].status = "absent" => signals[s].cooldown = "none"

WakeRecords == signals \in [Signals -> SignalRecords] /\ review \in [Reviewers -> ReviewRecords]
WakeInvariant == WakeRecords /\ ReviewsApart /\ Cardinality(Places) < MaxPending

\* No step that adds no candidate reaches the limit.
LEMMA FewerCandidates ==
  ASSUME Cardinality(Places) < MaxPending, Places' \subseteq Places
  PROVE  Cardinality(Places') < MaxPending
<1>1. IsFiniteSet(Places)
  BY WakeAssumption, FS_Subset DEF Places
<1>2. /\ Cardinality(Places') <= Cardinality(Places)
      /\ Cardinality(Places') \in Nat /\ Cardinality(Places) \in Nat
  BY <1>1, FS_Subset, FS_CardinalityType
<1> QED
  BY <1>2, WakeAssumption

\* A job changes its own record only.
LEMMA ReviewMoves ==
  ASSUME WakeInvariant, NEW j \in Reviewers, NEW r \in ReviewRecords,
         review' = [review EXCEPT ![j] = r], UNCHANGED signals,
         r.at \in {"cooldown", "evaluate", "stage", "record"} =>
           Reviewing(j) /\ r.signal = review[j].signal,
         r.at # "count", r.over \subseteq review[j].over,
         r.at \in {"stage", "record"} => r.decision \in WakeDecisions
  PROVE  /\ WakeRecords' /\ ReviewsApart'
         /\ (HasPlace(j)' /\ signals[r.signal].priority # "high" => HasPlace(j))
              => WakeInvariant'
<1>1. /\ review' \in [Reviewers -> ReviewRecords] /\ review'[j] = r
      /\ \A k \in Reviewers \ {j} : review'[k] = review[k]
  BY DEF WakeInvariant, WakeRecords
<1>2. WakeRecords'
  BY <1>1 DEF WakeInvariant, WakeRecords
<1>3. \A k \in Reviewers : Reviewing(k)' => Reviewing(k) /\ review'[k].signal = review[k].signal
  BY <1>1 DEF Reviewing, ReviewRecords
<1>4. \A k \in Reviewers : review'[k].over \subseteq review[k].over
  BY <1>1
<1>5. ReviewsApart'
  BY <1>1, <1>3, <1>4 DEF WakeInvariant, ReviewsApart, Over
<1>6. ASSUME HasPlace(j)' /\ signals[r.signal].priority # "high" => HasPlace(j)
      PROVE  WakeInvariant'
  <2>1. ASSUME NEW s \in Signals, s \in Places', ~Settled(s)
        PROVE  s \in Places
    <3>1. signals[s].priority # "high" /\ Awaiting(s)'
      BY <2>1 DEF Places, Settled
    <3>2. PICK k \in Reviewers : review'[k].signal = s /\ HasPlace(k)'
      BY <3>1 DEF Awaiting
    <3>3. review[k].signal = s
      BY <1>3, <3>2 DEF HasPlace, Reviewing
    <3>4. HasPlace(k)
      <4>1. CASE k = j
        BY <4>1, <1>1, <1>6, <3>1, <3>2
      <4>2. CASE k # j
        BY <4>2, <1>1, <3>2 DEF HasPlace
      <4> QED
        BY <4>1, <4>2
    <3> QED
      BY <3>1, <3>3, <3>4 DEF Places, Awaiting
  <2>2. Places' \subseteq Places
    BY <2>1 DEF Places, Settled
  <2> QED
    BY <1>2, <1>5, <2>2, FewerCandidates DEF WakeInvariant
<1> QED
  BY <1>2, <1>5, <1>6

\* The records of a job and of its signal.
LEMMA ReviewTyped ==
  ASSUME WakeInvariant, NEW j \in Reviewers
  PROVE  /\ review[j] \in ReviewRecords
         /\ Reviewing(j) => review[j].signal \in Signals /\ signals[review[j].signal] \in SignalRecords
BY DEF WakeInvariant, WakeRecords, ReviewsApart

\* A signal that is put on record is no candidate until its job has counted.
LEMMA RecordKeeps ==
  ASSUME WakeInvariant, NEW j \in Reviewers, NEW s \in Signals, NEW code \in SignalCodes,
         NEW priority \in Priorities, RecordSignal(j, s, code, priority)
  PROVE  WakeInvariant'
<1> DEFINE signal == [status |-> "pending_review", code |-> code, priority |-> priority,
                      cooldown |-> "none"]
           fresh == ReviewAt("count", s, Over)
<1>1. signal \in SignalRecords
  BY DEF SignalRecords, WakeDecisions
<1>2. fresh \in ReviewRecords
  BY DEF ReviewRecords, ReviewAt, Over
<1>4. /\ signals' = [signals EXCEPT ![s] = signal] /\ review' = [review EXCEPT ![j] = fresh]
      /\ signals[s].status = "absent" /\ review[j].at = "next"
  BY DEF RecordSignal, Recorded, Reviews
<1> HIDE DEF signal, fresh
<1>5. /\ signals' \in [Signals -> SignalRecords] /\ signals'[s] = signal
      /\ \A t \in Signals \ {s} : signals'[t] = signals[t]
      /\ review' \in [Reviewers -> ReviewRecords] /\ review'[j] = fresh
      /\ \A k \in Reviewers \ {j} : review'[k] = review[k]
  BY <1>1, <1>2, <1>4 DEF WakeInvariant, WakeRecords
<1>6. /\ signal.status = "pending_review" /\ signal.cooldown = "none"
      /\ fresh.at = "count" /\ fresh.signal = s /\ fresh.over = Over
  BY DEF signal, fresh, ReviewAt
<1>7. /\ \A k \in Reviewers : Reviewing(k) => review[k].signal # s
      /\ signals[s].cooldown = "none"
  BY <1>4 DEF WakeInvariant, ReviewsApart
<1>8. Over \subseteq Over'
  BY <1>5, <1>7 DEF Over
<1>9. ReviewsApart'
  <2>1. \A k \in Reviewers \ {j} : Reviewing(k)' <=> Reviewing(k)
    BY <1>5 DEF Reviewing
  <2>2. ASSUME NEW k \in Reviewers
        PROVE  /\ Reviewing(k)' => /\ review'[k].signal \in Signals
                                   /\ signals'[review'[k].signal].status = "pending_review"
                                   /\ signals'[review'[k].signal].cooldown = "none"
               /\ review'[k].over \subseteq Over'
               /\ review'[k].at \in {"stage", "record"} => review'[k].decision \in WakeDecisions
               /\ k # j /\ Reviewing(k)' => review'[k].signal # s
    <3>1. CASE k = j
      BY <3>1, <1>5, <1>6, <1>8
    <3>2. CASE k # j
      BY <3>2, <2>1, <1>5, <1>7, <1>8 DEF WakeInvariant, ReviewsApart
    <3> QED
      BY <3>1, <3>2
  <2>3. \A k, l \in Reviewers :
          Reviewing(k)' /\ Reviewing(l)' /\ review'[k].signal = review'[l].signal => k = l
    <3> SUFFICES ASSUME NEW k \in Reviewers, NEW l \in Reviewers, Reviewing(k)', Reviewing(l)',
                        review'[k].signal = review'[l].signal, k # l
                 PROVE  FALSE
      OBVIOUS
    <3>1. k # j /\ l # j
      BY <2>2, <1>5, <1>6
    <3> QED
      BY <3>1, <2>1, <1>5 DEF WakeInvariant, ReviewsApart
  <2>4. \A t \in Signals : signals'[t].status = "absent" => signals'[t].cooldown = "none"
    BY <1>5, <1>6 DEF WakeInvariant, ReviewsApart
  <2> QED
    BY <2>2, <2>3, <2>4 DEF ReviewsApart
<1>10. Places' \subseteq Places
  <2> SUFFICES ASSUME NEW t \in Signals, t \in Places'
               PROVE  t \in Places
    BY DEF Places
  <2>1. ASSUME Awaiting(t)'
        PROVE  t # s /\ Awaiting(t)
    <3>1. PICK k \in Reviewers : review'[k].signal = t /\ HasPlace(k)'
      BY <2>1 DEF Awaiting
    <3>2. k # j
      BY <3>1, <1>5, <1>6 DEF HasPlace
    <3>3. review[k].signal = t /\ HasPlace(k) /\ Reviewing(k)
      BY <3>1, <3>2, <1>5 DEF HasPlace, Reviewing
    <3> QED
      BY <3>3, <1>7 DEF Awaiting
  <2>2. ASSUME Settled(t)'
        PROVE  t # s /\ Settled(t)
    BY <2>2, <1>5, <1>6 DEF Settled
  <2> QED
    BY <2>1, <2>2, <1>5 DEF Places
<1> QED
  BY <1>5, <1>9, <1>10, FewerCandidates DEF WakeInvariant, WakeRecords

\* Every candidate is open for a job that counts.
LEMMA CandidatesAreOpen ==
  ASSUME WakeInvariant, NEW j \in Reviewers
  PROVE  /\ Places \subseteq OpenFor(j)
         /\ Cardinality(Places) <= Cardinality(OpenFor(j))
         /\ Cardinality(OpenFor(j)) \in Nat
<1>1. ASSUME NEW s \in Places
      PROVE  s \in OpenFor(j)
  <2>1. CASE Settled(s)
    BY <2>1 DEF WakeInvariant, ReviewsApart, Places, Settled, OpenFor, CoolingFor, Over
  <2>2. CASE Awaiting(s)
    BY <2>2 DEF WakeInvariant, ReviewsApart, Places, Awaiting, HasPlace, Reviewing, OpenFor
  <2> QED
    BY <2>1, <2>2 DEF Places
<1>2. IsFiniteSet(OpenFor(j))
  BY WakeAssumption, FS_Subset DEF OpenFor
<1> QED
  BY <1>1, <1>2, FS_Subset, FS_CardinalityType

\* A job that counts fewer than the limit counts every candidate and its own signal.
LEMMA CountKeeps ==
  ASSUME WakeInvariant, NEW j \in Reviewers, CountOpen(j)
  PROVE  WakeInvariant'
<1>1. review[j] \in ReviewRecords /\ review[j].at = "count"
  BY ReviewTyped DEF CountOpen, Reviews
<1>2. Cardinality(OpenFor(j)) \in Nat /\ Cardinality(Places) <= Cardinality(OpenFor(j))
      /\ Places \subseteq OpenFor(j) /\ IsFiniteSet(OpenFor(j))
  BY CandidatesAreOpen, WakeAssumption, FS_Subset DEF OpenFor
<1> DEFINE r == [review[j] EXCEPT !.at = "cooldown", !.count = Cardinality(OpenFor(j))]
<1>3. /\ r \in ReviewRecords /\ r.at = "cooldown" /\ r.signal = review[j].signal
      /\ r.over = review[j].over /\ r.count = Cardinality(OpenFor(j))
  BY <1>1, <1>2 DEF ReviewRecords
<1>4. review' = [review EXCEPT ![j] = r] /\ UNCHANGED signals
  BY DEF CountOpen
<1> HIDE DEF r
<1>5. Reviewing(j)
  BY <1>1 DEF Reviewing
<1>6. /\ WakeRecords' /\ ReviewsApart'
      /\ (HasPlace(j)' /\ signals[r.signal].priority # "high" => HasPlace(j)) => WakeInvariant'
  BY <1>3, <1>4, <1>5, ReviewMoves
<1>7. review'[j] = r /\ \A k \in Reviewers \ {j} : review'[k] = review[k]
  BY <1>4 DEF WakeInvariant, WakeRecords
<1>8. CASE Cardinality(OpenFor(j)) < MaxPending
  <2>1. Places' \subseteq OpenFor(j)
    <3> SUFFICES ASSUME NEW s \in Signals, s \in Places'
                 PROVE  s \in OpenFor(j)
      BY DEF Places
    <3>1. CASE Settled(s)
      BY <1>2, <1>4, <3>1 DEF Places
    <3>2. CASE ~Settled(s)
      <4>1. PICK k \in Reviewers : review'[k].signal = s /\ HasPlace(k)' /\ signals[s].priority # "high"
        BY <1>4, <3>2 DEF Places, Settled, Awaiting
      <4>2. CASE k = j
        BY <4>1, <4>2, <1>3, <1>5, <1>7 DEF WakeInvariant, ReviewsApart, OpenFor
      <4>3. CASE k # j
        <5>1. review[k].signal = s /\ HasPlace(k)
          BY <1>7, <4>1, <4>3 DEF HasPlace
        <5> QED
          BY <1>2, <4>1, <5>1 DEF Places, Awaiting
      <4> QED
        BY <4>2, <4>3
    <3> QED
      BY <3>1, <3>2
  <2>2. Cardinality(Places') <= Cardinality(OpenFor(j)) /\ Cardinality(Places') \in Nat
    BY <1>2, <2>1, FS_Subset, FS_CardinalityType
  <2> QED
    BY <1>2, <1>6, <1>8, <2>2, WakeAssumption DEF WakeInvariant
<1>9. CASE ~(Cardinality(OpenFor(j)) < MaxPending)
  <2>1. ~HasPlace(j)'
    BY <1>3, <1>7, <1>9 DEF HasPlace
  <2> QED
    BY <1>6, <2>1
<1> QED
  BY <1>8, <1>9

\* A signal that has cooled down is no candidate any more.
LEMMA CooldownKeeps ==
  ASSUME WakeInvariant, NEW s \in Signals, CooldownEnds(s)
  PROVE  WakeInvariant'
<1>1. signals[s] \in SignalRecords
  BY DEF WakeInvariant, WakeRecords
<1> DEFINE signal == [signals[s] EXCEPT !.cooldown = "over"]
<1>2. /\ signal \in SignalRecords /\ signal.cooldown = "over"
      /\ signal.status = signals[s].status /\ signal.priority = signals[s].priority
  BY <1>1 DEF SignalRecords
<1>3. signals' = [signals EXCEPT ![s] = signal] /\ review' = review
      /\ signals[s].cooldown = "running"
  BY DEF CooldownEnds
<1> HIDE DEF signal
<1>4. /\ signals' \in [Signals -> SignalRecords] /\ signals'[s] = signal
      /\ \A t \in Signals \ {s} : signals'[t] = signals[t]
  BY <1>2, <1>3 DEF WakeInvariant, WakeRecords
<1>5. signals[s].status # "absent" /\ \A j \in Reviewers : Reviewing(j) => review[j].signal # s
  BY <1>3 DEF WakeInvariant, ReviewsApart
<1>6. Over \subseteq Over'
  BY <1>2, <1>4 DEF Over
<1>7. ReviewsApart'
  BY <1>2, <1>3, <1>4, <1>5, <1>6 DEF WakeInvariant, ReviewsApart, Reviewing
<1>8. Places' \subseteq Places
  BY <1>2, <1>3, <1>4 DEF Places, Settled, Awaiting, HasPlace
<1> QED
  BY <1>3, <1>4, <1>7, <1>8, FewerCandidates DEF WakeInvariant, WakeRecords

\* A signal that is approved was a candidate already.
LEMMA DecisionKeeps ==
  ASSUME WakeInvariant, NEW j \in Reviewers, RecordDecision(j)
  PROVE  WakeInvariant'
<1> DEFINE s == review[j].signal
           signal == [signals[s] EXCEPT !.status = review[j].decision,
                                        !.cooldown = CooldownAfter(review[j].decision)]
<1>1. /\ review[j] \in ReviewRecords /\ review[j].at = "record" /\ Reviewing(j) /\ s \in Signals
      /\ signals[s] \in SignalRecords /\ signals[s].status = "pending_review"
      /\ review[j].decision \in WakeDecisions
  BY ReviewTyped DEF RecordDecision, Reviews, Reviewing, WakeInvariant, ReviewsApart
<1>2. /\ signals' = [signals EXCEPT ![s] = signal]
      /\ review' = [review EXCEPT ![j] = FreshReview]
  BY DEF RecordDecision
<1>3. /\ signal.status = review[j].decision /\ signal.priority = signals[s].priority
      /\ signal.cooldown = CooldownAfter(review[j].decision)
      /\ signal \in SignalRecords
  BY <1>1 DEF SignalRecords, CooldownAfter
<1>4. FreshReview \in ReviewRecords /\ FreshReview.at = "next" /\ FreshReview.over = {}
  BY DEF ReviewRecords, FreshReview, ReviewAt
<1> HIDE DEF s, signal
<1>5. /\ signals' \in [Signals -> SignalRecords]
      /\ signals'[s] = signal /\ \A t \in Signals \ {s} : signals'[t] = signals[t]
      /\ review' \in [Reviewers -> ReviewRecords] /\ review'[j] = FreshReview
      /\ \A k \in Reviewers \ {j} : review'[k] = review[k]
  BY <1>1, <1>2, <1>3, <1>4 DEF WakeInvariant, WakeRecords
<1>6. /\ \A k \in Reviewers : Reviewing(k)' => Reviewing(k) /\ k # j
      /\ \A k \in Reviewers : Reviewing(k) /\ k # j => review[k].signal # s
  BY <1>1, <1>4, <1>5 DEF WakeInvariant, ReviewsApart, Reviewing, s
<1>7. Over \subseteq Over'
  BY <1>1, <1>5 DEF Over, WakeInvariant, ReviewsApart, s
<1>8. ReviewsApart'
  <2>1. ASSUME NEW k \in Reviewers
        PROVE  /\ Reviewing(k)' => /\ review'[k].signal \in Signals
                                   /\ signals'[review'[k].signal].status = "pending_review"
                                   /\ signals'[review'[k].signal].cooldown = "none"
               /\ review'[k].over \subseteq Over'
               /\ review'[k].at \in {"stage", "record"} => review'[k].decision \in WakeDecisions
    <3>1. CASE k = j
      BY <3>1, <1>4, <1>5 DEF Reviewing
    <3>2. CASE k # j
      BY <3>2, <1>5, <1>6, <1>7 DEF WakeInvariant, ReviewsApart
    <3> QED
      BY <3>1, <3>2
  <2>2. \A k, l \in Reviewers :
          Reviewing(k)' /\ Reviewing(l)' /\ review'[k].signal = review'[l].signal => k = l
    BY <1>5, <1>6 DEF WakeInvariant, ReviewsApart
  <2>3. \A t \in Signals : signals'[t].status = "absent" => signals'[t].cooldown = "none"
    <3>1. signals'[s].status # "absent"
      BY <1>1, <1>3, <1>5 DEF WakeDecisions
    <3> QED
      BY <3>1, <1>5 DEF WakeInvariant, ReviewsApart
  <2> QED
    BY <2>1, <2>2, <2>3 DEF ReviewsApart
<1>9. Places' \subseteq Places
  <2> SUFFICES ASSUME NEW t \in Signals, t \in Places'
               PROVE  t \in Places
    BY DEF Places
  <2>1. ASSUME Awaiting(t)'
        PROVE  t # s /\ Awaiting(t)
    <3>1. PICK k \in Reviewers : review'[k].signal = t /\ HasPlace(k)'
      BY <2>1 DEF Awaiting
    <3>2. k # j
      BY <3>1, <1>4, <1>5 DEF HasPlace
    <3>3. review[k].signal = t /\ HasPlace(k) /\ Reviewing(k)
      BY <3>1, <3>2, <1>5 DEF HasPlace, Reviewing
    <3> QED
      BY <3>2, <3>3, <1>6 DEF Awaiting
  <2>2. ASSUME Settled(t)', t # s
        PROVE  Settled(t)
    BY <2>2, <1>5 DEF Settled
  <2>3. ASSUME Settled(t)', t = s
        PROVE  Awaiting(t)
    <3>1. review[j].decision = "accepted"
      BY <2>3, <1>3, <1>5 DEF Settled
    <3> QED
      BY <2>3, <3>1, <1>1 DEF Awaiting, HasPlace, s
  <2>4. signals'[t].priority = signals[t].priority
    BY <1>3, <1>5
  <2> QED
    BY <2>1, <2>2, <2>3, <2>4 DEF Places
<1> QED
  BY <1>5, <1>8, <1>9, FewerCandidates DEF WakeInvariant, WakeRecords

\* Every statement of a job keeps the invariant of the signals.
LEMMA WakeStep == WakeInvariant /\ [WakeNext]_wakeVars => WakeInvariant'
<1> SUFFICES ASSUME WakeInvariant, [WakeNext]_wakeVars
             PROVE  WakeInvariant'
  OBVIOUS
<1>1. ASSUME NEW j \in Reviewers, CheckCooldown(j)
      PROVE  WakeInvariant'
  <2>1. review[j] \in ReviewRecords /\ review[j].at = "cooldown"
    BY <1>1, ReviewTyped DEF CheckCooldown, Reviews
  <2> DEFINE cooling == \E t \in CoolingFor(j) \ {review[j].signal} :
                          signals[t].code = signals[review[j].signal].code
             r == [review[j] EXCEPT !.at = "evaluate", !.cooling = cooling]
  <2>2. /\ r \in ReviewRecords /\ r.at = "evaluate" /\ r.signal = review[j].signal
        /\ r.over = review[j].over /\ r.count = review[j].count
    BY <2>1 DEF ReviewRecords
  <2>3. review' = [review EXCEPT ![j] = r] /\ UNCHANGED signals
    BY <1>1 DEF CheckCooldown
  <2> HIDE DEF r
  <2>4. HasPlace(j)' => HasPlace(j)
    BY <2>1, <2>2, <2>3 DEF HasPlace, WakeInvariant, WakeRecords
  <2> QED
    BY <2>1, <2>2, <2>3, <2>4, ReviewMoves DEF Reviewing
<1>2. ASSUME NEW j \in Reviewers, EvaluateSignal(j)
      PROVE  WakeInvariant'
  <2>1. review[j] \in ReviewRecords /\ review[j].at = "evaluate"
    BY <1>2, ReviewTyped DEF EvaluateSignal, Reviews
  <2>2. PICK verdict \in Verdicts(j) :
          review' = [review EXCEPT ![j].decision = verdict,
                                   ![j].at = IF verdict = "accepted" THEN "stage" ELSE "record"]
    BY <1>2 DEF EvaluateSignal
  <2>3. verdict \in WakeDecisions
    BY <2>2 DEF Verdicts, WakeDecisions
  <2> DEFINE r == [review[j] EXCEPT !.decision = verdict,
                                    !.at = IF verdict = "accepted" THEN "stage" ELSE "record"]
  <2>4. /\ r \in ReviewRecords /\ r.at \in {"stage", "record"} /\ r.signal = review[j].signal
        /\ r.over = review[j].over /\ r.decision = verdict
    BY <2>1, <2>3 DEF ReviewRecords
  <2>5. review' = [review EXCEPT ![j] = r] /\ UNCHANGED signals
    BY <1>2, <2>2 DEF EvaluateSignal
  <2> HIDE DEF r
  <2>6. HasPlace(j)' /\ signals[r.signal].priority # "high" => HasPlace(j)
    <3> SUFFICES ASSUME HasPlace(j)', signals[r.signal].priority # "high"
                 PROVE  HasPlace(j)
      OBVIOUS
    <3>1. verdict = "accepted"
      BY <2>4, <2>5 DEF HasPlace, WakeInvariant, WakeRecords
    <3>2. ~(review[j].count >= MaxPending)
      BY <2>2, <2>4, <3>1 DEF Verdicts
    <3> QED
      BY <2>1, <3>2, WakeAssumption DEF HasPlace, ReviewRecords
  <2> QED
    BY <2>1, <2>3, <2>4, <2>5, <2>6, ReviewMoves DEF Reviewing
<1>3. ASSUME NEW j \in Reviewers, StageSignal(j)
      PROVE  WakeInvariant'
  <2>1. review[j] \in ReviewRecords /\ review[j].at = "stage"
    BY <1>3, ReviewTyped DEF StageSignal, Reviews
  <2> DEFINE r == [review[j] EXCEPT !.at = "record"]
  <2>2. /\ r \in ReviewRecords /\ r.at = "record" /\ r.signal = review[j].signal
        /\ r.over = review[j].over /\ r.decision = review[j].decision
    BY <2>1 DEF ReviewRecords
  <2>3. review' = [review EXCEPT ![j] = r] /\ UNCHANGED signals
    BY <1>3 DEF StageSignal
  <2> HIDE DEF r
  <2>4. HasPlace(j)' => HasPlace(j)
    BY <2>1, <2>2, <2>3 DEF HasPlace, WakeInvariant, WakeRecords
  <2>5. r.decision \in WakeDecisions
    BY <2>1, <2>2 DEF WakeInvariant, ReviewsApart
  <2> QED
    BY <2>1, <2>2, <2>3, <2>4, <2>5, ReviewMoves DEF Reviewing
<1>4. ASSUME NEW j \in Reviewers, AbandonReview(j)
      PROVE  WakeInvariant'
  <2> DEFINE r == ReviewAt("done", NoSignal, {})
  <2>1. r \in ReviewRecords /\ r.at = "done" /\ r.over = {}
    BY DEF ReviewRecords, ReviewAt
  <2>2. review' = [review EXCEPT ![j] = r] /\ UNCHANGED signals
    BY <1>4 DEF AbandonReview
  <2> HIDE DEF r
  <2>3. ~HasPlace(j)'
    BY <2>1, <2>2 DEF HasPlace, WakeInvariant, WakeRecords
  <2> QED
    BY <2>1, <2>2, <2>3, ReviewMoves
<1>5. CASE UNCHANGED wakeVars
  BY <1>5 DEF wakeVars, WakeInvariant, WakeRecords, ReviewsApart, Reviewing, Over,
              Places, Settled, Awaiting, HasPlace
<1> QED
  BY <1>1, <1>2, <1>3, <1>4, <1>5, RecordKeeps, CountKeeps, DecisionKeeps, CooldownKeeps
     DEF WakeNext

\* No signal is recorded, and every job is about to record its first.
LEMMA WakeStart == WakeInit => WakeInvariant
<1> SUFFICES ASSUME WakeInit PROVE WakeInvariant
  OBVIOUS
<1>1. (CHOOSE c \in SignalCodes : TRUE) \in SignalCodes
  BY WakeAssumption
<1>2. FreshReview \in ReviewRecords /\ FreshReview.at = "next" /\ FreshReview.over = {}
  BY DEF ReviewRecords, FreshReview, ReviewAt
<1>3. /\ WakeRecords
      /\ \A s \in Signals : signals[s].status = "absent" /\ signals[s].cooldown = "none"
      /\ \A j \in Reviewers : review[j].at = "next" /\ review[j].over = {}
  BY <1>1, <1>2 DEF WakeInit, WakeRecords, SignalRecords, Priorities
<1>4. Places = {}
  BY <1>3 DEF Places, Settled, Awaiting, HasPlace
<1> QED
  BY <1>3, <1>4, WakeAssumption, FS_EmptySet DEF WakeInvariant, ReviewsApart, Reviewing

\* Any number of jobs approve fewer signals than the limit.
THEOREM ApprovalsAreLimited == WakeSpec => []ApprovedStayBelowLimit
<1>1. WakeInvariant => ApprovedStayBelowLimit
  <2> SUFFICES ASSUME WakeInvariant PROVE ApprovedStayBelowLimit
    OBVIOUS
  <2> DEFINE approved == {s \in Signals : /\ signals[s].priority # "high"
                                         /\ signals[s].status = "accepted"
                                         /\ signals[s].cooldown = "running"}
  <2>1. approved \subseteq Places /\ IsFiniteSet(Places)
    BY WakeAssumption, FS_Subset DEF Places, Settled
  <2>2. /\ Cardinality(approved) <= Cardinality(Places)
        /\ Cardinality(approved) \in Nat /\ Cardinality(Places) \in Nat
    BY <2>1, FS_Subset, FS_CardinalityType
  <2> QED
    BY <2>2, WakeAssumption DEF WakeInvariant, ApprovedStayBelowLimit
<1> QED
  BY <1>1, WakeStart, WakeStep, PTL DEF WakeSpec

\* Any number of jobs: the tables of the signals keep their types, and a row of the
\* inbox stands for a signal.
THEOREM WakeTypeCorrect == WakeSpec => []WakeTypeOK
<1> DEFINE Rest == settings \in [bound : BOOLEAN, allowed : BOOLEAN] /\ stagedFor \subseteq Signals
<1>1. WakeInit => Rest
  BY DEF WakeInit
<1>2. WakeInvariant /\ Rest /\ [WakeNext]_wakeVars => Rest'
  <2> SUFFICES ASSUME WakeInvariant, Rest, [WakeNext]_wakeVars PROVE Rest'
    OBVIOUS
  <2>1. ASSUME NEW j \in Reviewers, StageSignal(j) PROVE Rest'
    <3>1. review[j].signal \in Signals
      BY <2>1 DEF StageSignal, Reviews, Reviewing, WakeInvariant, ReviewsApart
    <3> QED
      BY <2>1, <3>1 DEF StageSignal
  <2>2. ASSUME NEW j \in Reviewers,
               \/ \E s \in Signals, code \in SignalCodes, priority \in Priorities :
                    RecordSignal(j, s, code, priority)
               \/ CountOpen(j) \/ CheckCooldown(j) \/ EvaluateSignal(j)
               \/ RecordDecision(j) \/ AbandonReview(j)
        PROVE  UNCHANGED <<settings, stagedFor>>
    BY <2>2 DEF RecordSignal, CountOpen, CheckCooldown, EvaluateSignal, RecordDecision,
                AbandonReview
  <2>3. ASSUME NEW s \in Signals, CooldownEnds(s) PROVE UNCHANGED <<settings, stagedFor>>
    BY <2>3 DEF CooldownEnds
  <2>4. CASE UNCHANGED wakeVars
    BY <2>4 DEF wakeVars
  <2> QED
    BY <2>1, <2>2, <2>3, <2>4 DEF WakeNext
<1>3. WakeInvariant /\ Rest => WakeTypeOK
  BY DEF WakeInvariant, WakeRecords, SignalRecords, ReviewRecords, WakeTypeOK
<1> QED
  BY <1>1, <1>2, <1>3, WakeStart, WakeStep, PTL DEF WakeSpec

-----------------------------------------------------------------------------
(***************************************************************************)
(* The retrieval artifacts.                                                *)
(***************************************************************************)
UpkeepRecords == [at : {"idle", "archive", "insert", "done"}, attempt : 0..MaxAttempts]

UpkeepTypeOK ==
  /\ upserts \in [Maintainers \X Attempts -> {"absent", "active", "archived"}]
  /\ upkeep \in [Maintainers -> UpkeepRecords]

\* A run inserts at most once, after it has archived what earlier runs inserted:
\* only those are archived, and none of them is newer than the run.
RunsInOrder ==
  \A j \in Maintainers :
    /\ \A n \in Attempts :
         /\ upserts[<<j, n>>] # "absent" => n <= upkeep[j].attempt
         /\ upserts[<<j, n>>] = "archived" => n < upkeep[j].attempt
    /\ upkeep[j].at \in {"archive", "insert"} =>
         /\ upkeep[j].attempt \in Attempts
         /\ upserts[<<j, upkeep[j].attempt>>] = "absent"

UpkeepInvariant == UpkeepTypeOK /\ RunsInOrder

\* A job that goes to its next statement stays in its run.
LEMMA UpkeepMoves ==
  ASSUME UpkeepTypeOK, NEW j \in Maintainers, NEW point \in {"idle", "archive", "insert", "done"},
         upkeep' = [upkeep EXCEPT ![j].at = point]
  PROVE  /\ upkeep' \in [Maintainers -> UpkeepRecords]
         /\ upkeep'[j].at = point /\ upkeep'[j].attempt = upkeep[j].attempt
         /\ \A k \in Maintainers \ {j} : upkeep'[k] = upkeep[k]
<1>1. [upkeep[j] EXCEPT !.at = point] \in UpkeepRecords
  BY DEF UpkeepTypeOK, UpkeepRecords
<1> QED
  BY <1>1 DEF UpkeepTypeOK, UpkeepRecords

\* Every statement of a turn or a job keeps the runs of each job in order.
LEMMA UpkeepStep == UpkeepInvariant /\ [RetrievalNext]_retrievalVars => UpkeepInvariant'
<1> SUFFICES ASSUME UpkeepInvariant, [RetrievalNext]_retrievalVars
             PROVE  UpkeepInvariant'
  OBVIOUS
<1> USE DEF UpkeepInvariant, UpkeepRecords, Attempts
<1>0. MaxAttempts \in Nat
  BY RetrievalAssumption
<1>1. CASE UNCHANGED <<upserts, upkeep>>
  BY <1>1 DEF UpkeepTypeOK, RunsInOrder
<1>2. ASSUME NEW j \in Maintainers, BeginUpdate(j) PROVE UpkeepInvariant'
  <2>1. /\ upkeep[j] \in UpkeepRecords /\ upkeep[j].attempt < MaxAttempts
        /\ upkeep' = [upkeep EXCEPT ![j].at = "archive", ![j].attempt = @ + 1]
        /\ upserts' = upserts
    BY <1>2 DEF BeginUpdate, UpkeepTypeOK
  <2>2. [upkeep[j] EXCEPT !.at = "archive", !.attempt = @ + 1] \in UpkeepRecords
    <3>1. upkeep[j].attempt \in 0..MaxAttempts
      BY <2>1
    <3>2. upkeep[j].attempt + 1 \in 0..MaxAttempts
      BY <1>0, <2>1, <3>1
    <3> QED
      BY <2>1, <3>2
  <2>3. /\ upkeep' \in [Maintainers -> UpkeepRecords]
        /\ upkeep'[j].at = "archive" /\ upkeep'[j].attempt = upkeep[j].attempt + 1
        /\ \A k \in Maintainers \ {j} : upkeep'[k] = upkeep[k]
    BY <2>1, <2>2 DEF UpkeepTypeOK
  <2>4. /\ upkeep[j].attempt \in 0..MaxAttempts /\ upkeep[j].attempt + 1 \in Attempts
        /\ upserts[<<j, upkeep[j].attempt + 1>>] = "absent"
    <3>1. upkeep[j].attempt \in 0..MaxAttempts
      BY <2>1
    <3>2. upkeep[j].attempt + 1 \in Attempts /\ ~(upkeep[j].attempt + 1 <= upkeep[j].attempt)
      BY <1>0, <2>1, <3>1
    <3> QED
      BY <3>1, <3>2 DEF RunsInOrder
  <2> QED
    BY <1>0, <2>1, <2>3, <2>4 DEF UpkeepTypeOK, RunsInOrder
<1>3. ASSUME NEW j \in Maintainers, ArchivePrior(j) PROVE UpkeepInvariant'
  <2>1. upkeep' = [upkeep EXCEPT ![j].at = "insert"]
    BY <1>3 DEF ArchivePrior
  <2>2. /\ upkeep' \in [Maintainers -> UpkeepRecords]
        /\ upkeep'[j].at = "insert" /\ upkeep'[j].attempt = upkeep[j].attempt
        /\ \A k \in Maintainers \ {j} : upkeep'[k] = upkeep[k]
    BY <2>1, UpkeepMoves
  <2>3. /\ upserts' \in [Maintainers \X Attempts -> {"absent", "active", "archived"}]
        /\ \A k \in Maintainers, n \in Attempts :
             upserts'[<<k, n>>] = IF k = j /\ upserts[<<k, n>>] = "active" THEN "archived"
                                  ELSE upserts[<<k, n>>]
    BY <1>3 DEF ArchivePrior, UpkeepTypeOK
  <2>4. /\ upkeep[j].attempt \in Attempts /\ upserts[<<j, upkeep[j].attempt>>] = "absent"
        /\ upkeep[j].at = "archive"
    BY <1>3 DEF ArchivePrior, RunsInOrder
  <2>5. ASSUME NEW n \in Attempts, upserts[<<j, n>>] # "absent"
        PROVE  n < upkeep[j].attempt
    BY <1>0, <2>4, <2>5 DEF RunsInOrder
  <2> QED
    BY <2>2, <2>3, <2>4, <2>5 DEF UpkeepTypeOK, RunsInOrder
<1>4. ASSUME NEW j \in Maintainers, InsertUpsert(j) PROVE UpkeepInvariant'
  <2>1. upkeep' = [upkeep EXCEPT ![j].at = "done"]
    BY <1>4 DEF InsertUpsert
  <2>2. /\ upkeep' \in [Maintainers -> UpkeepRecords]
        /\ upkeep'[j].at = "done" /\ upkeep'[j].attempt = upkeep[j].attempt
        /\ \A k \in Maintainers \ {j} : upkeep'[k] = upkeep[k]
    BY <2>1, UpkeepMoves
  <2>3. upkeep[j].attempt \in Attempts
    BY <1>4 DEF InsertUpsert, RunsInOrder
  <2>4. /\ upserts' \in [Maintainers \X Attempts -> {"absent", "active", "archived"}]
        /\ upserts'[<<j, upkeep[j].attempt>>] = "active"
        /\ \A k \in Maintainers, n \in Attempts :
             k # j \/ n # upkeep[j].attempt => upserts'[<<k, n>>] = upserts[<<k, n>>]
    BY <1>4, <2>3 DEF InsertUpsert, UpkeepTypeOK
  <2>5. UpkeepTypeOK'
    BY <2>2, <2>4 DEF UpkeepTypeOK
  <2>6. \A k \in Maintainers \ {j} :
          upkeep'[k] = upkeep[k] /\ \A n \in Attempts : upserts'[<<k, n>>] = upserts[<<k, n>>]
    BY <2>2, <2>4
  <2>7. /\ upkeep'[j].at = "done" /\ upkeep'[j].attempt = upkeep[j].attempt
        /\ \A n \in Attempts : n # upkeep[j].attempt => upserts'[<<j, n>>] = upserts[<<j, n>>]
    BY <2>2, <2>4
  <2>8. /\ \A n \in Attempts : upserts'[<<j, n>>] # "absent" => n <= upkeep'[j].attempt
        /\ \A n \in Attempts : upserts'[<<j, n>>] = "archived" => n < upkeep'[j].attempt
    BY <1>0, <2>3, <2>4, <2>7 DEF RunsInOrder
  <2> QED
    BY <2>5, <2>6, <2>7, <2>8 DEF RunsInOrder
<1>5. ASSUME NEW j \in Maintainers, CutUpdate(j) PROVE UpkeepInvariant'
  <2>1. upkeep' = [upkeep EXCEPT ![j].at = "idle"] /\ upserts' = upserts
    BY <1>5 DEF CutUpdate
  <2>2. /\ upkeep' \in [Maintainers -> UpkeepRecords]
        /\ upkeep'[j].at = "idle" /\ upkeep'[j].attempt = upkeep[j].attempt
        /\ \A k \in Maintainers \ {j} : upkeep'[k] = upkeep[k]
    BY <2>1, UpkeepMoves
  <2> QED
    BY <2>1, <2>2 DEF UpkeepTypeOK, RunsInOrder
<1>6. ASSUME NEW a \in Assemblies,
             \/ BeginAssembly(a) \/ InsertProjection(a) \/ SelectCandidates(a)
             \/ AbandonAssembly(a) \/ (\E s \in Sources : EnsureArtifact(a, s))
      PROVE  UNCHANGED <<upserts, upkeep>>
  BY <1>6, Zenon
     DEF BeginAssembly, EnsureArtifact, InsertProjection, SelectCandidates, AbandonAssembly
<1>7. ASSUME NEW s \in Sources, LearnSource(s) PROVE UNCHANGED <<upserts, upkeep>>
  BY <1>7 DEF LearnSource
<1>8. CASE UNCHANGED retrievalVars
  BY <1>1, <1>8 DEF retrievalVars
<1> QED
  BY <1>1, <1>2, <1>3, <1>4, <1>5, <1>6, <1>7, <1>8 DEF RetrievalNext

\* No job has begun its first run.
LEMMA UpkeepStart == RetrievalInit => UpkeepInvariant
<1> SUFFICES ASSUME RetrievalInit PROVE UpkeepInvariant
  OBVIOUS
<1>1. /\ \A j \in Maintainers : upkeep[j].at = "idle"
      /\ \A j \in Maintainers, n \in Attempts : upserts[<<j, n>>] = "absent"
  BY DEF RetrievalInit
<1>2. UpkeepTypeOK
  BY RetrievalAssumption DEF RetrievalInit, UpkeepTypeOK, UpkeepRecords
<1> QED
  BY <1>1, <1>2 DEF UpkeepInvariant, RunsInOrder

\* For any number of turns and jobs, cut anywhere: what has once been projected is
\* only lost to the turns while a job that replaced its own projection before is
\* between its two statements, or was cut there.
THEOREM ProjectionsAreFound == RetrievalSpec => []UnfindableOnlyWhenCut
<1>1. UpkeepInvariant => UnfindableOnlyWhenCut
  <2> SUFFICES ASSUME UpkeepInvariant, NEW s \in Sources, ArtifactExists(s), ~Findable(s)
               PROVE  \E j \in Maintainers : /\ anchors[j] = s
                                             /\ upkeep[j].attempt > 1
                                             /\ upserts[<<j, upkeep[j].attempt>>] = "absent"
    BY DEF UnfindableOnlyWhenCut
  <2>1. PICK ja \in Maintainers \X Attempts : anchors[ja[1]] = s /\ upserts[ja] # "absent"
    BY DEF ArtifactExists, Findable, UpsertsOf
  <2> DEFINE j == ja[1]
             n == ja[2]
             newest == upkeep[j].attempt
  <2>2. j \in Maintainers /\ n \in Attempts /\ ja = <<j, n>>
    OBVIOUS
  <2>3. \A m \in Attempts : upserts[<<j, m>>] # "active"
    BY <2>1 DEF Findable, UpsertsOf, LiveUpserts
  <2>4. upserts[<<j, n>>] = "archived"
    BY <2>1, <2>2, <2>3 DEF UpkeepInvariant, UpkeepTypeOK
  <2>5. n < newest /\ newest \in 0..MaxAttempts
    BY <2>2, <2>4 DEF UpkeepInvariant, RunsInOrder, UpkeepTypeOK, UpkeepRecords
  <2>6. newest \in Attempts /\ newest > 1
    BY <2>2, <2>5, RetrievalAssumption DEF Attempts
  <2>7. upserts[<<j, newest>>] # "archived"
    <3>1. upserts[<<j, newest>>] = "archived" => newest < newest
      BY <2>2, <2>6 DEF UpkeepInvariant, RunsInOrder
    <3> QED
      BY <2>5, <3>1
  <2>8. upserts[<<j, newest>>] = "absent"
    BY <2>2, <2>3, <2>6, <2>7 DEF UpkeepInvariant, UpkeepTypeOK
  <2> QED
    BY <2>1, <2>2, <2>6, <2>8 DEF j, newest
<1> QED
  BY <1>1, UpkeepStart, UpkeepStep, PTL DEF RetrievalSpec

AssemblyRecords ==
  [at : {"idle", "ensure", "insert", "select", "done"},
   left : SUBSET Sources, source : Sources \cup {NoSource}, context : SUBSET Artifacts]

\* A turn that is about to insert a projection has the source it found without one.
AssembliesTyped ==
  /\ assembly \in [Assemblies -> AssemblyRecords]
  /\ \A a \in Assemblies : assembly[a].at = "insert" => assembly[a].source \in Sources

SourcesTyped ==
  /\ known \subseteq Sources /\ projections \subseteq Assemblies \X Sources
  /\ anchors \in [Maintainers -> Episodes \cup {NoAnchor}]

\* A turn changes its own record only.
LEMMA AssemblyTyped ==
  ASSUME AssembliesTyped, NEW a \in Assemblies, NEW r \in AssemblyRecords,
         r.at = "insert" => r.source \in Sources, assembly' = [assembly EXCEPT ![a] = r]
  PROVE  AssembliesTyped'
<1>1. /\ assembly' \in [Assemblies -> AssemblyRecords] /\ assembly'[a] = r
      /\ \A b \in Assemblies \ {a} : assembly'[b] = assembly[b]
  BY DEF AssembliesTyped
<1> QED
  BY <1>1 DEF AssembliesTyped

\* Every statement of a turn or a job keeps the types of the turns and of what
\* they have projected.
LEMMA RetrievalTyped ==
  ASSUME AssembliesTyped, SourcesTyped, UpkeepInvariant, [RetrievalNext]_retrievalVars
  PROVE  AssembliesTyped' /\ SourcesTyped'
<1>0. \A a \in Assemblies : assembly[a] \in AssemblyRecords
  BY DEF AssembliesTyped
<1>1. ASSUME NEW s \in Sources, LearnSource(s) PROVE AssembliesTyped' /\ SourcesTyped'
  BY <1>1 DEF LearnSource, AssembliesTyped, SourcesTyped
<1>2. ASSUME NEW a \in Assemblies, BeginAssembly(a) PROVE AssembliesTyped' /\ SourcesTyped'
  <2> DEFINE r == [assembly[a] EXCEPT !.at = "ensure", !.left = known]
  <2>1. r \in AssemblyRecords /\ r.at = "ensure"
    BY <1>0 DEF AssemblyRecords, SourcesTyped
  <2>2. assembly' = [assembly EXCEPT ![a] = r]
    BY <1>2 DEF BeginAssembly
  <2>3. AssembliesTyped'
    BY <2>1, <2>2, AssemblyTyped
  <2> QED
    BY <1>2, <2>3 DEF BeginAssembly, SourcesTyped
<1>3. ASSUME NEW a \in Assemblies, NEW s \in Sources, EnsureArtifact(a, s)
      PROVE  AssembliesTyped' /\ SourcesTyped'
  <2> DEFINE r == [assembly[a] EXCEPT
                     !.left = @ \ {s}, !.at = IF ArtifactExists(s) THEN "ensure" ELSE "insert",
                     !.source = IF ArtifactExists(s) THEN NoSource ELSE s]
  <2>1. r \in AssemblyRecords /\ (r.at = "insert" => r.source \in Sources)
    BY <1>0 DEF AssemblyRecords
  <2>2. assembly' = [assembly EXCEPT ![a] = r]
    BY <1>3 DEF EnsureArtifact
  <2> HIDE DEF r
  <2>3. AssembliesTyped'
    BY <2>1, <2>2, AssemblyTyped
  <2> QED
    BY <1>3, <2>3 DEF EnsureArtifact, SourcesTyped
<1>4. ASSUME NEW a \in Assemblies, InsertProjection(a) PROVE AssembliesTyped' /\ SourcesTyped'
  <2> DEFINE r == [assembly[a] EXCEPT !.at = "ensure", !.source = NoSource]
  <2>1. r \in AssemblyRecords /\ r.at = "ensure"
    BY <1>0 DEF AssemblyRecords
  <2>2. assembly' = [assembly EXCEPT ![a] = r]
    BY <1>4 DEF InsertProjection
  <2>3. AssembliesTyped'
    BY <2>1, <2>2, AssemblyTyped
  <2>4. assembly[a].source \in Sources
    BY <1>4 DEF InsertProjection, AssembliesTyped
  <2> QED
    BY <1>4, <2>3, <2>4 DEF InsertProjection, SourcesTyped
<1>5. ASSUME NEW a \in Assemblies, SelectCandidates(a) PROVE AssembliesTyped' /\ SourcesTyped'
  <2>1. PICK chosen \in Selections :
          assembly' = [assembly EXCEPT ![a].at = "done", ![a].context = chosen]
    BY <1>5 DEF SelectCandidates
  <2>2. chosen \subseteq Artifacts
    BY <2>1 DEF Selections, Candidates, LiveUpserts, Artifacts, SourcesTyped
  <2> DEFINE r == [assembly[a] EXCEPT !.at = "done", !.context = chosen]
  <2>3. r \in AssemblyRecords /\ r.at = "done"
    BY <1>0, <2>2 DEF AssemblyRecords
  <2>4. assembly' = [assembly EXCEPT ![a] = r]
    BY <2>1
  <2>5. AssembliesTyped'
    BY <2>3, <2>4, AssemblyTyped
  <2> QED
    BY <1>5, <2>5 DEF SelectCandidates, SourcesTyped
<1>6. ASSUME NEW a \in Assemblies, AbandonAssembly(a) PROVE AssembliesTyped' /\ SourcesTyped'
  <2> DEFINE r == [assembly[a] EXCEPT !.at = "done", !.left = {}, !.source = NoSource]
  <2>1. r \in AssemblyRecords /\ r.at = "done"
    BY <1>0 DEF AssemblyRecords
  <2>2. assembly' = [assembly EXCEPT ![a] = r]
    BY <1>6 DEF AbandonAssembly
  <2>3. AssembliesTyped'
    BY <2>1, <2>2, AssemblyTyped
  <2> QED
    BY <1>6, <2>3 DEF AbandonAssembly, SourcesTyped
<1>7. ASSUME NEW j \in Maintainers, BeginUpdate(j) PROVE AssembliesTyped' /\ SourcesTyped'
  BY <1>7 DEF BeginUpdate, AssembliesTyped, SourcesTyped
<1>8. ASSUME NEW j \in Maintainers, ArchivePrior(j) \/ InsertUpsert(j) \/ CutUpdate(j)
      PROVE  AssembliesTyped' /\ SourcesTyped'
  BY <1>8 DEF ArchivePrior, InsertUpsert, CutUpdate, AssembliesTyped, SourcesTyped
<1>9. CASE UNCHANGED retrievalVars
  BY <1>9 DEF retrievalVars, AssembliesTyped, SourcesTyped
<1> QED
  BY <1>1, <1>2, <1>3, <1>4, <1>5, <1>6, <1>7, <1>8, <1>9 DEF RetrievalNext

\* Any number of turns and jobs and any limits: the sources, the artifacts and every
\* turn keep their types, and a turn that inserts has a source to project.
THEOREM RetrievalTypeCorrect == RetrievalSpec => []RetrievalTypeOK
<1>1. RetrievalInit => AssembliesTyped /\ SourcesTyped
  BY DEF RetrievalInit, AssembliesTyped, SourcesTyped, AssemblyRecords
<1>2. AssembliesTyped /\ SourcesTyped /\ UpkeepInvariant /\ [RetrievalNext]_retrievalVars
        => (AssembliesTyped /\ SourcesTyped)'
  BY RetrievalTyped
<1>3. AssembliesTyped /\ SourcesTyped /\ UpkeepInvariant => RetrievalTypeOK
  BY DEF AssembliesTyped, SourcesTyped, UpkeepInvariant, UpkeepTypeOK, UpkeepRecords,
         AssemblyRecords, RetrievalTypeOK
<1> QED
  BY <1>1, <1>2, <1>3, UpkeepStart, UpkeepStep, PTL DEF RetrievalSpec

-----------------------------------------------------------------------------
(***************************************************************************)
(* The decision table, for every request and every recovery budget.        *)
(***************************************************************************)

\* Whatever has been decided is what the table says of this request.
DecidedByTable ==
  /\ outcome = "none" => checkpoint = "open"
  /\ outcome = "refused" => checkpoint = "open" /\ ~ValidRequest(request)
  /\ outcome \notin {"none", "refused"} =>
       /\ ValidRequest(request)
       /\ outcome = ClassifyRecoveryDecision(request)
       /\ checkpoint = CheckpointStatusFor(outcome)

\* Every branch of the table ends in a decision of the enumeration.
LEMMA DecisionIsKnown ==
  ASSUME NEW q \in Requests
  PROVE  ClassifyRecoveryDecision(q) \in Decisions
BY DEF ClassifyRecoveryDecision, ReplayDecision, Decisions

\* Every request gets a decision of the enumeration, and its checkpoint a status.
THEOREM EvaluationTypeCorrect == EvaluationSpec => [](EvaluationTypeOK /\ DecidedByTable)
<1>1. EvaluationInit => EvaluationTypeOK /\ DecidedByTable
  BY DEF EvaluationInit, EvaluationTypeOK, DecidedByTable
<1>2. EvaluationTypeOK /\ DecidedByTable /\ [EvaluationNext]_evaluationVars
        => (EvaluationTypeOK /\ DecidedByTable)'
  <2> SUFFICES ASSUME EvaluationTypeOK, DecidedByTable, [EvaluationNext]_evaluationVars
               PROVE  (EvaluationTypeOK /\ DecidedByTable)'
    OBVIOUS
  <2>1. CASE EvaluateRecoveryDecision
    <3>1. outcome' \in Decisions /\ outcome' = ClassifyRecoveryDecision(request)
          /\ request' = request /\ checkpoint' = CheckpointStatusFor(outcome')
      BY <2>1, DecisionIsKnown DEF EvaluateRecoveryDecision, EvaluationTypeOK
    <3>2. outcome' \notin {"none", "refused"}
      BY <3>1 DEF Decisions
    <3>3. checkpoint' \in {"open", "resolved", "abandoned"}
      BY <3>1 DEF CheckpointStatusFor
    <3>4. ValidRequest(request)'
      BY <2>1 DEF EvaluateRecoveryDecision, ValidRequest
    <3>5. outcome' = ClassifyRecoveryDecision(request')
      BY <3>1
    <3> QED
      BY <3>1, <3>2, <3>3, <3>4, <3>5 DEF EvaluationTypeOK, DecidedByTable
  <2>2. CASE RefuseRequest
    BY <2>2 DEF RefuseRequest, EvaluationTypeOK, DecidedByTable, ValidRequest
  <2>3. CASE UNCHANGED evaluationVars
    BY <2>3
       DEF evaluationVars, EvaluationTypeOK, DecidedByTable, ValidRequest,
           ClassifyRecoveryDecision, FailsClosed, ReplayDecision, CheckpointStatusFor
  <2> QED
    BY <2>1, <2>2, <2>3 DEF EvaluationNext
<1> QED
  BY <1>1, <1>2, PTL DEF EvaluationSpec

\* No request, whatever its budget, is continued or retried without the proof
\* the continuation rules ask for.
THEOREM AutomaticRecoverySafe == EvaluationSpec => []AutomaticRecoveryIsProven
<1>1. EvaluationTypeOK /\ DecidedByTable => AutomaticRecoveryIsProven
  <2> SUFFICES ASSUME EvaluationTypeOK, DecidedByTable, outcome \in {"continue", "retry"}
               PROVE  /\ request.budget > 0
                      /\ request.evidence # "corrupted"
                      /\ request.approval \in {"not_required", "approved_fresh"}
                      /\ request.policy # "recheck_failed"
                      /\ request.reason # "integrity_or_policy_block"
                      /\ request.action = "ambiguous_or_nonrepeatable" =>
                           request.evidence = "durable_completed"
    BY DEF AutomaticRecoveryIsProven
  <2>1. outcome = ClassifyRecoveryDecision(request) /\ request.budget >= 0
    BY DEF DecidedByTable, ValidRequest
  <2>2. request.budget \in Int /\ request.approval \in ApprovalStates
    BY DEF EvaluationTypeOK, Requests, RequestsWith
  <2> QED
    BY <2>1, <2>2 DEF ClassifyRecoveryDecision, FailsClosed, ReplayDecision, ApprovalStates
<1> QED
  BY <1>1, EvaluationTypeCorrect, PTL

-----------------------------------------------------------------------------
(***************************************************************************)
(* The components side by side.  Each behaviour of the composition is one  *)
(* of every component, so what is proved of each holds in it.              *)
(***************************************************************************)
\* A program has the files of its checkout, and a restart passes a budget of one.
ProgramIsThere == Checkouts # {} /\ MaxBudget >= 1

\* What a component that does not move starts from is a state it may start from.
LEMMA RestingStart ==
  ASSUME ProgramIsThere, ComponentsInit
  PROVE  MigrationsInit /\ EvaluationInit
<1>1. (CHOOSE c \in Checkouts : TRUE) \in Checkouts
  BY DEF ProgramIsThere
<1>2. ASSUME moving # "migrations" PROVE MigrationsInit
  <2> DEFINE files == CHOOSE c \in Checkouts : TRUE
  <2>1. /\ history = <<>>
        /\ process = [p \in Processes |->
             [at |-> "idle", serves |-> FALSE, files |-> files, listed |-> 0]]
    BY <1>2 DEF ComponentsInit
  <2> HIDE DEF files
  <2>2. process \in [Processes -> [at : {"idle"}, serves : BOOLEAN, files : Checkouts, listed : {0}]]
    BY <1>1, <2>1 DEF files
  <2>3. history \in [1..0 -> Checksums] /\ Len(history) = 0 /\ DOMAIN history = {}
    BY <2>1
  <2>4. Len(files) \in Nat
    BY <1>1, FilesTyped DEF files
  <2>5. Matches(history, files) /\ 0 \in 0..Len(files) /\ files \in Checkouts
    BY <1>1, <2>3, <2>4 DEF Matches, files
  <2> QED
    BY <2>2, <2>3, <2>5 DEF MigrationsInit
<1>3. ASSUME moving # "recovery" PROVE EvaluationInit
  <2>1. RestartRequest(TRUE) \in Requests
    BY MaxBudgetAssumption
       DEF ProgramIsThere, RestartRequest, Requests, RequestsWith, CheckpointKinds, ReasonCodes,
           ActionClassifications, EvidenceStates, ApprovalStates, PolicyStates
  <2> QED
    BY <1>3, <2>1 DEF ComponentsInit, EvaluationInit
<1>4. /\ moving = "migrations" => MigrationsInit
      /\ moving = "recovery" => EvaluationInit
  BY DEF ComponentsInit
<1> QED
  BY <1>2, <1>3, <1>4

\* Every behaviour of the composition is one of each of its components.
THEOREM ComponentsKeepApart ==
  ASSUME ProgramIsThere
  PROVE  ComponentsSpec => /\ IdentitySpec /\ ContinuitySpec /\ RetrievalSpec /\ WakeSpec
                           /\ WorkspaceSpec /\ ProtocolSpec /\ MigrationsSpec /\ EvaluationSpec
<1>1. ComponentsInit => /\ IdentityInit /\ ContinuityInit /\ RetrievalInit /\ WakeInit
                        /\ WorkspaceInit /\ ProtocolInit /\ MigrationsInit /\ EvaluationInit
  BY RestingStart DEF ComponentsInit
<1>2. [ComponentsNext]_componentsVars =>
        /\ [IdentityNext]_identityVars /\ [ContinuityNext]_continuityVars
        /\ [RetrievalNext]_retrievalVars /\ [WakeNext]_wakeVars
        /\ [WorkspaceNext]_workspaceVars /\ [ProtocolNext]_protocolVars
        /\ [MigrationsNext]_migrationVars /\ [EvaluationNext]_evaluationVars
  BY DEF ComponentsNext, componentsVars
<1> QED
  BY <1>1, <1>2, PTL
     DEF ComponentsSpec, IdentitySpec, ContinuitySpec, RetrievalSpec, WakeSpec, WorkspaceSpec,
         ProtocolSpec, MigrationsSpec, EvaluationSpec

\* Every variable of every component keeps its type.
THEOREM ComponentsTypeCorrect ==
  ASSUME ProgramIsThere
  PROVE  ComponentsSpec => []ComponentsTypeOK
<1>1. ComponentsInit => moving \in Components
  BY DEF ComponentsInit
<1>2. moving \in Components /\ [ComponentsNext]_componentsVars => (moving \in Components)'
  BY DEF ComponentsNext, componentsVars
<1>3. moving \in Components /\ IdentityTypeOK /\ ContinuityTypeOK /\ RetrievalTypeOK /\ WakeTypeOK
        /\ WorkspaceTypeOK /\ ProtocolTypeOK /\ MigrationsTypeOK /\ EvaluationTypeOK
        => ComponentsTypeOK
  BY DEF ComponentsTypeOK
<1> QED
  BY <1>1, <1>2, <1>3, ComponentsKeepApart, IdentityTypeCorrect, ContinuityTypeCorrect,
     RetrievalTypeCorrect, WakeTypeCorrect, WorkspaceTypeCorrect, ProtocolTypeCorrect,
     MigrationsTypeCorrect, EvaluationTypeCorrect, PTL
     DEF ComponentsSpec
=============================================================================
