--------------------------- MODULE MCGovernedActions ---------------------------
(* Small instances of GovernedActions for TLC. *)
EXTENDS GovernedActions

CONSTANTS t1, t2, chat1, admin1, super1, ask, free

ScriptAndRead ==
  [f \in Fingerprints |-> IF f = ask THEN "run_workspace_script" ELSE "read_workspace"]
FetchAndScript ==
  [f \in Fingerprints |-> IF f = ask THEN "web_fetch" ELSE "run_workspace_script"]

\* Statements of an executor whose action has a lease.
UnderLease == {"recordRun", "startRun", "work", "finishExecution", "finishRun",
               "finishAction", "checkLease", "release"}
Anywhere == ProgramPoints
=============================================================================
