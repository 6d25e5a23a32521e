------------------------------ MODULE Workspace ------------------------------
(***************************************************************************)
(* A note and a script of the workspace, and the governed actions that     *)
(* change and run them.  An action may name the revision it expects to     *)
(* replace; it is compared by statements before those that write, and      *)
(* actions run in the processes of several turns.  A script that is run    *)
(* without a version is run in the newest there is by then.                *)
(***************************************************************************)
EXTENDS Naturals, Sequences

CONSTANT WorkspaceActions       \* bound: governed actions on the workspace

NoOperation == "no operation"
ASSUME WorkspaceAssumption == NoOperation \notin WorkspaceActions

Unnamed == 0              \* no version, and no revision, is named

VARIABLES
  note,          \* the note's row: its revision and who wrote it
  versions,      \* workspace_script_versions of the script: who appended each
  scriptLock,    \* the append whose transaction holds the script's row
  scriptRuns,    \* the version each run of the script executes
  operation      \* each action: next statement, what it names, the number it took

workspaceVars == <<note, versions, scriptLock, scriptRuns, operation>>

WorkspaceTypeOK ==
  /\ note \in [revision : Nat, by : WorkspaceActions \cup {NoOperation}]
  /\ versions \in Seq(WorkspaceActions)
  /\ scriptLock \in WorkspaceActions \cup {NoOperation}
  /\ scriptRuns \in [WorkspaceActions -> Nat]
  /\ operation \in [WorkspaceActions ->
       [at : {"idle", "read", "write", "lock", "insert", "done", "failed"},
        kind : {"create", "edit", "append", "run"}, named : Nat, number : Nat]]

WorkspaceInit ==
  /\ note = [revision |-> 1, by |-> NoOperation]
  /\ versions = <<>>
  /\ scriptLock = NoOperation
  /\ scriptRuns = [o \in WorkspaceActions |-> Unnamed]
  /\ operation = [o \in WorkspaceActions |->
       [at |-> "idle", kind |-> "edit", named |-> Unnamed, number |-> 0]]

-----------------------------------------------------------------------------
Operates(o, point) == operation[o].at = point
Step(o, point) == operation' = [operation EXCEPT ![o].at = point]

\* A turn proposes an action with the revision or the version it has seen; its
\* execution may be an approval later.
ProposeOperation(o, kind, named) ==
  /\ Operates(o, "idle")
  /\ named \in CASE kind = "create" -> {Unnamed}
                 [] kind = "edit" -> {Unnamed, note.revision}
                 [] OTHER -> {Unnamed} \cup DOMAIN versions
  /\ kind \in {"append", "run"} => versions # <<>>
  /\ kind = "create" => versions = <<>> /\ \A p \in WorkspaceActions : operation[p].kind # "create"
  /\ operation' = [operation EXCEPT
       ![o] = [at |-> "read", kind |-> kind, named |-> named, number |-> 0]]
  /\ UNCHANGED <<note, versions, scriptLock, scriptRuns>>

-----------------------------------------------------------------------------
(***************************************************************************)
(* The note: get_workspace_artifact, the comparison, the update.           *)
(***************************************************************************)
ReadNote(o) ==
  /\ Operates(o, "read") /\ operation[o].kind = "edit"
  /\ Step(o, IF operation[o].named \in {Unnamed, note.revision} THEN "write" ELSE "failed")
  /\ UNCHANGED <<note, versions, scriptLock, scriptRuns>>

\* The update does not ask which revision it replaces.
WriteNote(o) ==
  /\ Operates(o, "write")
  /\ note' = [revision |-> note.revision + 1, by |-> o]
  /\ Step(o, "done")
  /\ UNCHANGED <<versions, scriptLock, scriptRuns>>

-----------------------------------------------------------------------------
(***************************************************************************)
(* The script.                                                             *)
(***************************************************************************)
\* The artifact, the script and its first version in one transaction.
CreateScript(o) ==
  /\ Operates(o, "read") /\ operation[o].kind = "create"
  /\ versions' = <<o>>
  /\ Step(o, "done")
  /\ UNCHANGED <<note, scriptLock, scriptRuns>>

ReadScript(o) ==
  /\ Operates(o, "read") /\ operation[o].kind = "append"
  /\ Step(o, IF operation[o].named \in {Unnamed, Len(versions)} THEN "lock" ELSE "failed")
  /\ UNCHANGED <<note, versions, scriptLock, scriptRuns>>

\* Mutant: the row is read without FOR UPDATE.
ReadScriptUnlocked(o) ==
  /\ Operates(o, "lock")
  /\ scriptLock' = o
  /\ operation' = [operation EXCEPT ![o].at = "insert", ![o].number = Len(versions) + 1]
  /\ UNCHANGED <<note, versions, scriptRuns>>

\* SELECT latest_version ... FOR UPDATE.
LockScript(o) ==
  /\ Operates(o, "lock")
  /\ scriptLock = NoOperation
  /\ scriptLock' = o
  /\ operation' = [operation EXCEPT ![o].at = "insert", ![o].number = Len(versions) + 1]
  /\ UNCHANGED <<note, versions, scriptRuns>>

\* The version and the row's latest_version; where the number is taken, the
\* unique index ends the transaction instead (AbandonOperation).
InsertVersion(o) ==
  /\ Operates(o, "insert")
  /\ operation[o].number \notin DOMAIN versions
  /\ scriptLock' = NoOperation
  /\ Step(o, "done")
  /\ versions' = Append(versions, o)
  /\ UNCHANGED <<note, scriptRuns>>

\* The version to run is read when the action is executed.
RecordScriptRun(o) ==
  /\ Operates(o, "read") /\ operation[o].kind = "run"
  /\ scriptRuns' = [scriptRuns EXCEPT ![o] =
       IF operation[o].named = Unnamed THEN Len(versions) ELSE operation[o].named]
  /\ Step(o, "done")
  /\ UNCHANGED <<note, versions, scriptLock>>

\* A crash, or an error of a statement, which rolls its transaction back.
AbandonOperation(o) ==
  /\ operation[o].at \in {"read", "write", "lock", "insert"}
  /\ scriptLock' = IF scriptLock = o THEN NoOperation ELSE scriptLock
  /\ Step(o, "failed")
  /\ UNCHANGED <<note, versions, scriptRuns>>

WorkspaceNext ==
  \E o \in WorkspaceActions :
    \/ \E kind \in {"create", "edit", "append", "run"},
          named \in {Unnamed, note.revision} \cup DOMAIN versions :
         ProposeOperation(o, kind, named)
    \/ ReadNote(o) \/ WriteNote(o)
    \/ CreateScript(o) \/ ReadScript(o) \/ LockScript(o) \/ InsertVersion(o)
    \/ RecordScriptRun(o) \/ AbandonOperation(o)

WorkspaceSpec == WorkspaceInit /\ [][WorkspaceNext]_workspaceVars

-----------------------------------------------------------------------------
\* An append that holds the script's row keeps the number it took, which is
\* above the version it names, whatever other appends check, wait and fail
\* meanwhile: the unique index never rejects a version.
AppendsKeepTheirNumber ==
  \A o \in WorkspaceActions :
    Operates(o, "insert") =>
      /\ operation[o].number = Len(versions) + 1
      /\ operation[o].named < operation[o].number
=============================================================================
