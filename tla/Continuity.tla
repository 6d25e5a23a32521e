----------------------------- MODULE Continuity -----------------------------
(***************************************************************************)
(* Canonical memory and self model.  A turn loads the self model, which    *)
(* the first turn copies from the seed; what it was told it proposes as a  *)
(* memory and as an observation of the self, and each proposal is recorded *)
(* with its decision and then merged.  A background job merges a summary   *)
(* the same way.  The rows a merge is planned from are read before the     *)
(* transaction that writes, and turns and jobs run in several processes.   *)
(* No worker proposes to revise or supersede a memory, so none is.         *)
(***************************************************************************)
EXTENDS Naturals, Sequences

CONSTANTS
  Writers,      \* bound: turns and background jobs
  Contents,     \* what they are told
  ScanLimit     \* ACTIVE_MEMORY_SCAN_LIMIT

ASSUME ContinuityAssumption == ScanLimit \in Nat \ {0} /\ Contents # {}

Origins == {"seed", "merge"}
Kinds == {"memory", "self"}

\* A turn stores under "principal:" and the name of its user, a job under the
\* name or the conversation: they never scan the rows of each other.
Subjects == {"preference", "background_summary"}
Rows == Writers \X Origins
ContinuityPoints ==
  {"idle", "load", "seed", "propose", "listMemory", "insertMemory", "rejectMemory",
   "observe", "current", "plan", "mergeSelf", "rejectSelf", "done"}
NoRow == <<>>

VARIABLES
  memories,     \* memory_artifacts of each subject in the order of insertion
  selfRows,     \* self_model_artifacts: status and preferences
  decisions,    \* merge_decisions of each writer's two proposals
  writer        \* each writer: next statement, and what it has read

continuityVars == <<memories, selfRows, decisions, writer>>

ContinuityTypeOK ==
  /\ memories \in [Subjects -> Seq([by : Writers, content : Contents, listed : Nat])]
  /\ selfRows \in [Rows -> [status : {"absent", "active", "superseded"},
                            preferences : SUBSET Contents]]
  /\ decisions \in [Writers \X Kinds -> {"none", "accepted", "rejected"}]
  /\ writer \in [Writers ->
       [at : ContinuityPoints, job : BOOLEAN, told : Contents,
        listed : Nat, row : Rows \cup {NoRow}]]

Untold == CHOOSE c \in Contents : TRUE
IdleWriter == [at |-> "idle", job |-> FALSE, told |-> Untold, listed |-> 0, row |-> NoRow]

ContinuityInit ==
  /\ memories = [subject \in Subjects |-> <<>>]
  /\ selfRows = [row \in Rows |-> [status |-> "absent", preferences |-> {}]]
  /\ decisions = [wk \in Writers \X Kinds |-> "none"]
  /\ writer = [w \in Writers |-> IdleWriter]

-----------------------------------------------------------------------------
Does(w, point) == writer[w].at = point
Moves(w, point) == writer' = [writer EXCEPT ![w].at = point]
Ends(w) == writer' = [writer EXCEPT ![w] = [IdleWriter EXCEPT !.at = "done"]]

\* list_active_self_model_artifacts: two rows are enough to refuse them.
ActiveRows == {row \in Rows : selfRows[row].status = "active"}

SubjectOf(w) == IF writer[w].job THEN "background_summary" ELSE "preference"
Stored(w) == memories[SubjectOf(w)]

\* Mutant: the scan stops one row early.
ScannedShort(w) ==
  {Stored(w)[i] : i \in {j \in DOMAIN Stored(w) : j + ScanLimit > Len(Stored(w)) + 1}}

\* The newest memories of the subject, as many as a merge scans.
Scanned(w) == {Stored(w)[i] : i \in {j \in DOMAIN Stored(w) : j + ScanLimit > Len(Stored(w))}}

NewMemory(w) == [by |-> w, content |-> writer[w].told, listed |-> writer[w].listed]

NewSelfRow(preferences) == [status |-> "active", preferences |-> preferences]
Superseded(row) == [selfRows[row] EXCEPT !.status = "superseded"]

\* merge_self_model_observation adds what was observed to the preferences.
Observed(row, c) == selfRows[row].preferences \cup {c}

Decide(w, kind, outcome) == decisions' = [decisions EXCEPT ![<<w, kind>>] = outcome]

-----------------------------------------------------------------------------
(***************************************************************************)
(* A turn assembles its context; a background job comes with its proposal. *)
(***************************************************************************)
BeginTurnWith(w, c) ==
  /\ Does(w, "idle")
  /\ writer' = [writer EXCEPT ![w].at = "load", ![w].told = c]
  /\ UNCHANGED <<memories, selfRows, decisions>>

ConsolidateMemory(w, c) ==
  /\ Does(w, "idle")
  /\ writer' = [writer EXCEPT ![w].at = "propose", ![w].told = c, ![w].job = TRUE]
  /\ UNCHANGED <<memories, selfRows, decisions>>

\* select_single_active_artifact: two active rows are an error.
Several == \E one, other \in ActiveRows : one # other

\* With no row the turn goes on to insert one.
LoadSelfModel(w) ==
  /\ Does(w, "load")
  /\ \/ Several /\ Ends(w)
     \/ ~Several /\ Moves(w, IF ActiveRows = {} THEN "seed" ELSE "propose")
  /\ UNCHANGED <<memories, selfRows, decisions>>

\* The row of the seed is inserted with no check of those inserted since.
InsertSeed(w) ==
  /\ Does(w, "seed")
  /\ selfRows' = [selfRows EXCEPT ![<<w, "seed">>] = NewSelfRow({})]
  /\ Moves(w, "propose")
  /\ UNCHANGED <<memories, decisions>>

-----------------------------------------------------------------------------
(***************************************************************************)
(* The memory proposal, for what the writer was told.                      *)
(***************************************************************************)
RecordMemory(w) ==
  /\ Does(w, "propose")
  /\ \/ Decide(w, "memory", "accepted") /\ Moves(w, "listMemory")
     \/ ~writer[w].job /\ Moves(w, "observe") /\ UNCHANGED decisions
  /\ UNCHANGED <<memories, selfRows>>

\* The active memories are listed, and a duplicate of one of them is refused.
PlanMemory(w) ==
  /\ Does(w, "listMemory")
  /\ LET duplicate == \E m \in Scanned(w) : m.content = writer[w].told
     IN  writer' = [writer EXCEPT
           ![w].at = IF duplicate THEN "rejectMemory" ELSE "insertMemory",
           ![w].listed = Len(Stored(w))]
  /\ UNCHANGED <<memories, selfRows, decisions>>

AfterMemory(w) == IF writer[w].job THEN Ends(w) ELSE Moves(w, "observe")

InsertMemory(w) ==
  /\ Does(w, "insertMemory")
  /\ memories' = [memories EXCEPT ![SubjectOf(w)] =
       Append(@, NewMemory(w))]
  /\ AfterMemory(w)
  /\ UNCHANGED <<selfRows, decisions>>

RejectMemory(w) ==
  /\ Does(w, "rejectMemory")
  /\ Decide(w, "memory", "rejected")
  /\ AfterMemory(w)
  /\ UNCHANGED <<memories, selfRows>>

-----------------------------------------------------------------------------
(***************************************************************************)
(* The observation of the self, which replaces the row of the self model.  *)
(***************************************************************************)
ObserveSelf(w) ==
  /\ Does(w, "observe")
  /\ \/ Decide(w, "self", "accepted") /\ Moves(w, "current")
     \/ Ends(w) /\ UNCHANGED decisions
  /\ UNCHANGED <<memories, selfRows>>

\* The row to replace is read again for the merge; there is one, because the
\* turn has loaded the self model (SelfModelIsKept).
ReadCurrent(w) ==
  /\ Does(w, "current")
  /\ \/ Several /\ Ends(w)
     \/ \E row \in ActiveRows :
          ~Several /\ writer' = [writer EXCEPT ![w].at = "plan", ![w].row = row]
  /\ UNCHANGED <<memories, selfRows, decisions>>

PlanSelf(w) ==
  /\ Does(w, "plan")
  /\ Moves(w, IF writer[w].told \in selfRows[writer[w].row].preferences
              THEN "rejectSelf" ELSE "mergeSelf")
  /\ UNCHANGED <<memories, selfRows, decisions>>

\* Mutant: the row before is superseded in a statement before the insert.
MergeSelfUnlessGone(w) ==
  /\ Does(w, "mergeSelf")
  /\ selfRows' = [selfRows EXCEPT ![writer[w].row] = Superseded(writer[w].row)]
  /\ Ends(w)
  /\ UNCHANGED <<memories, decisions>>

\* The new row and the end of the row read before, in one transaction; the
\* update does not ask whether that row is still active.
MergeSelf(w) ==
  /\ Does(w, "mergeSelf")
  /\ selfRows' = [selfRows EXCEPT
       ![writer[w].row] = Superseded(writer[w].row),
       ![<<w, "merge">>] = NewSelfRow(Observed(writer[w].row, writer[w].told))]
  /\ Ends(w)
  /\ UNCHANGED <<memories, decisions>>

RejectSelf(w) ==
  /\ Does(w, "rejectSelf")
  /\ Decide(w, "self", "rejected")
  /\ Ends(w)
  /\ UNCHANGED <<memories, selfRows>>

\* A crash, or an error of a statement.
AbandonProposals(w) ==
  /\ ~Does(w, "idle") /\ ~Does(w, "done")
  /\ Ends(w)
  /\ UNCHANGED <<memories, selfRows, decisions>>

ContinuityNext ==
  \E w \in Writers :
    \/ \E c \in Contents : BeginTurnWith(w, c) \/ ConsolidateMemory(w, c)
    \/ LoadSelfModel(w) \/ InsertSeed(w)
    \/ RecordMemory(w) \/ PlanMemory(w) \/ InsertMemory(w) \/ RejectMemory(w)
    \/ ObserveSelf(w) \/ ReadCurrent(w) \/ PlanSelf(w) \/ MergeSelf(w) \/ RejectSelf(w)
    \/ AbandonProposals(w)

ContinuitySpec == ContinuityInit /\ [][ContinuityNext]_continuityVars

-----------------------------------------------------------------------------
\* Once a turn has stored a self model there is always an active one, whatever
\* merges and first loads run side by side and wherever one of them is cut.
SelfModelIsKept ==
  (\E row \in Rows : selfRows[row].status # "absent") => ActiveRows # {}

\* A memory is stored a second time only when the first one was too far back
\* for the scan, or was committed after the scan of the second.
RepeatsAreOldOrRaced ==
  \A subject \in Subjects :
    \A i, j \in DOMAIN memories[subject] :
      i < j /\ memories[subject][i].content = memories[subject][j].content =>
        \/ i > memories[subject][j].listed
        \/ i + ScanLimit <= memories[subject][j].listed
=============================================================================
