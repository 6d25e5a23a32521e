--------------------------- MODULE MCTraceDiagnosis ---------------------------
(* A small instance of TraceDiagnosis for TLC. *)
EXTENDS TraceDiagnosis

CONSTANTS t1, admin1, ask, free

CommandAndNote ==
  [f \in Fingerprints |-> IF f = ask THEN "run_subprocess" ELSE "write_workspace"]
=============================================================================
