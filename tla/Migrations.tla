----------------------------- MODULE Migrations -----------------------------
(***************************************************************************)
(* schema_migrations and the processes that read and extend it: `migrate`  *)
(* commands, and services that verify the schema before they accept work.  *)
(* Each process has the migration files of its own checkout, which may be  *)
(* an older release, a newer one, or one whose files were edited; several  *)
(* of them work on one database, and any may be cut between statements.    *)
(***************************************************************************)
EXTENDS Naturals, Sequences

CONSTANTS
  Processes,           \* bound: migrate commands and services
  Checkouts,           \* the texts of the numbered files, one sequence a checkout
  MinimumSupported     \* database.minimum_supported_schema_version

Texts == UNION {{c[i] : i \in DOMAIN c} : c \in Checkouts}

ASSUME MigrationsAssumption == MinimumSupported \in Nat /\ Checkouts \subseteq Seq(Texts)

\* A checksum is taken of the text with its line ends normalized; earlier
\* programs took it of the file as it was.
Checksums == [text : Texts, lineEnds : {"normalized", "crlf"}]

VARIABLES
  history,     \* schema_migrations in the order of their versions
  process      \* each process: next step, its files, and the versions it has listed

migrationVars == <<history, process>>

ProcessPoints == {"idle", "normalize", "list", "validate", "apply", "verify",
                  "running", "done", "failed"}

MigrationsTypeOK ==
  /\ history \in Seq(Checksums)
  /\ process \in [Processes -> [at : ProcessPoints, serves : BOOLEAN,
                                files : Checkouts, listed : Nat]]

\* validate_applied_history: the rows are the first of the files, whatever
\* their line ends were when they were recorded.
Matches(rows, files) ==
  /\ Len(rows) <= Len(files)
  /\ \A i \in DOMAIN rows : rows[i].text = files[i]

\* The history an earlier release has left.
MigrationsInit ==
  /\ \E c \in Checkouts : \E n \in 0..Len(c) :
       history \in {rows \in [1..n -> Checksums] : Matches(rows, c)}
  /\ process \in [Processes -> [at : {"idle"}, serves : BOOLEAN, files : Checkouts,
                                listed : {0}]]

-----------------------------------------------------------------------------
Reaches(p, point) == process' = [process EXCEPT ![p].at = point]

BeginProcess(p) ==
  /\ process[p].at = "idle"
  /\ Reaches(p, "normalize")
  /\ UNCHANGED history

\* Rows with a compatible checksum take the one of today, in one transaction.
NormalizeMetadata(p) ==
  /\ process[p].at = "normalize"
  /\ history' = [i \in DOMAIN history |->
       IF i <= Len(process[p].files) /\ history[i].text = process[p].files[i]
       THEN [history[i] EXCEPT !.lineEnds = "normalized"] ELSE history[i]]
  /\ Reaches(p, IF process[p].serves THEN "verify" ELSE "list")

\* apply_pending_migrations lists the versions, and reads the rows again to
\* validate them.
ListApplied(p) ==
  /\ process[p].at = "list"
  /\ process' = [process EXCEPT ![p].at = "validate", ![p].listed = Len(history)]
  /\ UNCHANGED history

ValidateHistory(p) ==
  /\ process[p].at = "validate"
  /\ Reaches(p, IF Matches(history, process[p].files) THEN "apply" ELSE "failed")
  /\ UNCHANGED history

NextVersion(p) == process[p].listed + 1

\* Mutant: a version that is recorded already is passed over.
ApplyOrSkip(p) ==
  /\ process[p].at = "apply"
  /\ NextVersion(p) <= Len(process[p].files)
  /\ history' = IF Len(history) >= NextVersion(p) THEN history
                ELSE Append(history, [text |-> process[p].files[NextVersion(p)],
                                      lineEnds |-> "normalized"])
  /\ process' = [process EXCEPT ![p].listed = @ + 1]

\* One transaction a file: its statements and its row.  The primary key ends a
\* command that another one has overtaken.
ApplyMigration(p) ==
  /\ process[p].at = "apply"
  /\ NextVersion(p) <= Len(process[p].files)
  /\ IF Len(history) >= NextVersion(p)
     THEN Reaches(p, "failed") /\ UNCHANGED history
     ELSE /\ history' = Append(history, [text |-> process[p].files[NextVersion(p)],
                                         lineEnds |-> "normalized"])
          /\ process' = [process EXCEPT ![p].listed = @ + 1]

FinishMigration(p) ==
  /\ process[p].at = "apply"
  /\ NextVersion(p) > Len(process[p].files)
  /\ Reaches(p, "done")
  /\ UNCHANGED history

\* evaluate: the newest version must be the one the files end with, and not
\* below the supported minimum.
Supported(rows, files) ==
  /\ Matches(rows, files)
  /\ rows # <<>>
  /\ Len(rows) >= MinimumSupported
  /\ Len(rows) = Len(files)

VerifySchema(p) ==
  /\ process[p].at = "verify"
  /\ Reaches(p, IF Supported(history, process[p].files) THEN "running" ELSE "failed")
  /\ UNCHANGED history

\* A statement fails, or the process ends; what it committed stays.
CutProcess(p) ==
  /\ process[p].at \notin {"idle", "done", "failed"}
  /\ Reaches(p, "failed")
  /\ UNCHANGED history

MigrationsNext ==
  \E p \in Processes :
    \/ BeginProcess(p) \/ NormalizeMetadata(p) \/ ListApplied(p) \/ ValidateHistory(p)
    \/ ApplyMigration(p) \/ FinishMigration(p) \/ VerifySchema(p) \/ CutProcess(p)

MigrationsSpec == MigrationsInit /\ [][MigrationsNext]_migrationVars

-----------------------------------------------------------------------------
\* Whatever commands of whatever checkouts run side by side, the history is
\* that of one of them and never a mixture, and a service that runs has the
\* migrations of its own files in its database.
SchemaIsReviewed ==
  /\ \E c \in Checkouts : Matches(history, c)
  /\ \A p \in Processes :
       process[p].at = "running" =>
         /\ Len(process[p].files) <= Len(history)
         /\ \A i \in DOMAIN process[p].files : history[i].text = process[p].files[i]
=============================================================================
