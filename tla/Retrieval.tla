----------------------------- MODULE Retrieval ------------------------------
(***************************************************************************)
(* The retrieval artifacts of a conversation.  A turn that assembles its   *)
(* context first projects the episodes and memories that have no artifact, *)
(* then selects among the active ones; a background job replaces its own   *)
(* projection by archiving it and inserting another, in two statements,    *)
(* and a job that is cut runs again.  Turns and jobs share the table.      *)
(***************************************************************************)
EXTENDS Naturals, FiniteSets

CONSTANTS
  Episodes, Facts,        \* bound: episodes and active memories of the conversation
  Assemblies,             \* bound: turns that assemble their context
  Maintainers,            \* bound: background jobs with a retrieval update
  MaxAttempts,            \* bound: runs of a job
  EpisodeLimit, FactLimit, ItemLimit   \* continuity.retrieval of the configuration

Sources == Episodes \cup Facts
Attempts == 1..MaxAttempts
NoSource == "no source"
NoAnchor == "no anchor"

ASSUME RetrievalAssumption ==
  /\ MaxAttempts \in Nat
  /\ Episodes \cap Facts = {}
  /\ NoSource \notin Sources
  /\ NoAnchor \notin Episodes

VARIABLES
  known,         \* the episodes and memories that exist
  projections,   \* baseline artifacts: the sources each assembly projected
  upserts,       \* status of the artifact each run of a job inserted
  anchors,       \* the episode a job's artifacts are anchored to
  assembly,      \* each assembly: next statement, sources to look at, its context
  upkeep         \* each job: next statement and its run

retrievalVars == <<known, projections, upserts, anchors, assembly, upkeep>>

Artifacts == (Assemblies \X Sources) \cup (Maintainers \X Attempts)

RetrievalTypeOK ==
  /\ known \subseteq Sources
  /\ projections \subseteq Assemblies \X Sources
  /\ upserts \in [Maintainers \X Attempts -> {"absent", "active", "archived"}]
  /\ anchors \in [Maintainers -> Episodes \cup {NoAnchor}]
  /\ assembly \in [Assemblies ->
       [at : {"idle", "ensure", "insert", "select", "done"},
        left : SUBSET Sources, source : Sources \cup {NoSource},
        context : SUBSET Artifacts]]
  /\ upkeep \in [Maintainers -> [at : {"idle", "archive", "insert", "done"},
                                 attempt : 0..MaxAttempts]]

RetrievalInit ==
  /\ known = {}
  /\ projections = {}
  /\ upserts = [ja \in Maintainers \X Attempts |-> "absent"]
  /\ anchors = [j \in Maintainers |-> NoAnchor]
  /\ assembly = [a \in Assemblies |->
                   [at |-> "idle", left |-> {}, source |-> NoSource, context |-> {}]]
  /\ upkeep = [j \in Maintainers |-> [at |-> "idle", attempt |-> 0]]

-----------------------------------------------------------------------------
\* Artifacts of a source, and those of them that are active.
UpsertsOf(s) == {ja \in Maintainers \X Attempts : anchors[ja[1]] = s /\ upserts[ja] # "absent"}
ProjectionsOf(s) == {as \in projections : as[2] = s}
ArtifactExists(s) == ProjectionsOf(s) # {} \/ UpsertsOf(s) # {}
LiveUpserts == {ja \in Maintainers \X Attempts : upserts[ja] = "active"}
Candidates == projections \cup LiveUpserts
Findable(s) == ProjectionsOf(s) # {} \/ UpsertsOf(s) \cap LiveUpserts # {}

\* An episode ends, or a memory is stored.
LearnSource(s) ==
  /\ s \notin known
  /\ known' = known \cup {s}
  /\ UNCHANGED <<projections, upserts, anchors, assembly, upkeep>>

-----------------------------------------------------------------------------
(***************************************************************************)
(* assemble_retrieved_context.                                             *)
(***************************************************************************)
BeginAssembly(a) ==
  /\ assembly[a].at = "idle"
  /\ assembly' = [assembly EXCEPT ![a].at = "ensure", ![a].left = known]
  /\ UNCHANGED <<known, projections, upserts, anchors, upkeep>>

\* A source that has an artifact of any status is passed over.
EnsureArtifact(a, s) ==
  /\ assembly[a].at = "ensure"
  /\ s \in assembly[a].left
  /\ assembly' = [assembly EXCEPT
       ![a].left = @ \ {s},
       ![a].at = IF ArtifactExists(s) THEN "ensure" ELSE "insert",
       ![a].source = IF ArtifactExists(s) THEN NoSource ELSE s]
  /\ UNCHANGED <<known, projections, upserts, anchors, upkeep>>

\* The insert does not ask again: another process may have projected the source.
InsertProjection(a) ==
  /\ assembly[a].at = "insert"
  /\ projections' = projections \cup {<<a, assembly[a].source>>}
  /\ assembly' = [assembly EXCEPT ![a].at = "ensure", ![a].source = NoSource]
  /\ UNCHANGED <<known, upserts, anchors, upkeep>>

OfFacts(artifacts) == {x \in artifacts : x \in projections /\ x[2] \in Facts}

\* select_candidates walks the candidates by score, which is not modelled, and
\* stops only at a limit: no more could be added of either kind.
Selections ==
  {chosen \in SUBSET Candidates :
     LET facts == Cardinality(OfFacts(chosen))
         episodes == Cardinality(chosen) - facts
     IN  /\ facts <= FactLimit
         /\ episodes <= EpisodeLimit
         /\ Cardinality(chosen) <= ItemLimit
         /\ \/ Cardinality(chosen) = ItemLimit
            \/ \A x \in Candidates \ chosen :
                 IF x \in OfFacts(Candidates) THEN facts = FactLimit
                                              ELSE episodes = EpisodeLimit}

SelectCandidates(a) ==
  /\ assembly[a].at = "ensure"
  /\ assembly[a].left = {}
  /\ \E chosen \in Selections :
       assembly' = [assembly EXCEPT ![a].at = "done", ![a].context = chosen]
  /\ UNCHANGED <<known, projections, upserts, anchors, upkeep>>

AbandonAssembly(a) ==
  /\ assembly[a].at \in {"ensure", "insert"}
  /\ assembly' = [assembly EXCEPT ![a].at = "done", ![a].left = {}, ![a].source = NoSource]
  /\ UNCHANGED <<known, projections, upserts, anchors, upkeep>>

-----------------------------------------------------------------------------
(***************************************************************************)
(* apply_retrieval_updates, for the upsert of a background job.            *)
(***************************************************************************)
\* The first run of a job, or its next one after a run that was cut.
BeginUpdate(j) ==
  /\ upkeep[j].at = "idle"
  /\ upkeep[j].attempt < MaxAttempts
  /\ upkeep' = [upkeep EXCEPT ![j].at = "archive", ![j].attempt = @ + 1]
  /\ \E e \in Episodes \cap known :
       /\ anchors[j] \in {NoAnchor, e}
       /\ anchors' = [anchors EXCEPT ![j] = e]
  /\ UNCHANGED <<known, projections, upserts, assembly>>

\* Mutant: every artifact of the episode is archived with the job's own.
ArchiveAnchor(j) ==
  /\ upkeep[j].at = "archive"
  /\ upserts' = [ja \in Maintainers \X Attempts |->
       IF anchors[ja[1]] = anchors[j] /\ upserts[ja] = "active" THEN "archived"
       ELSE upserts[ja]]
  /\ upkeep' = [upkeep EXCEPT ![j].at = "insert"]
  /\ UNCHANGED <<known, projections, anchors, assembly>>

\* What earlier runs of the job inserted is found by its source_ref.
ArchivePrior(j) ==
  /\ upkeep[j].at = "archive"
  /\ upserts' = [ja \in Maintainers \X Attempts |->
       IF ja[1] = j /\ upserts[ja] = "active" THEN "archived" ELSE upserts[ja]]
  /\ upkeep' = [upkeep EXCEPT ![j].at = "insert"]
  /\ UNCHANGED <<known, projections, anchors, assembly>>

InsertUpsert(j) ==
  /\ upkeep[j].at = "insert"
  /\ upserts' = [upserts EXCEPT ![<<j, upkeep[j].attempt>>] = "active"]
  /\ upkeep' = [upkeep EXCEPT ![j].at = "done"]
  /\ UNCHANGED <<known, projections, anchors, assembly>>

\* The run is cut before, between or after its statements, and recovery plans
\* the job again.
CutUpdate(j) ==
  /\ upkeep[j].at # "idle"
  /\ upkeep' = [upkeep EXCEPT ![j].at = "idle"]
  /\ UNCHANGED <<known, projections, upserts, anchors, assembly>>

RetrievalNext ==
  \/ \E s \in Sources : LearnSource(s)
  \/ \E a \in Assemblies :
       \/ BeginAssembly(a)
       \/ \E s \in Sources : EnsureArtifact(a, s)
       \/ InsertProjection(a) \/ SelectCandidates(a) \/ AbandonAssembly(a)
  \/ \E j \in Maintainers :
       BeginUpdate(j) \/ ArchivePrior(j) \/ InsertUpsert(j) \/ CutUpdate(j)

RetrievalSpec == RetrievalInit /\ [][RetrievalNext]_retrievalVars

-----------------------------------------------------------------------------
\* An episode or a memory that has had an artifact has an active one, unless
\* the job that is anchored to it, or its last run, is between its two
\* statements: no turn would project it again.
UnfindableOnlyWhenCut ==
  \A s \in Sources :
    ArtifactExists(s) /\ ~Findable(s) =>
      \E j \in Maintainers :
        /\ anchors[j] = s
        /\ upkeep[j].attempt > 1
        /\ upserts[<<j, upkeep[j].attempt>>] = "absent"
=============================================================================
