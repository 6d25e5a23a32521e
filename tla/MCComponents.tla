---------------------------- MODULE MCComponents ----------------------------
(***************************************************************************)
(* Small instances of the components that have tables of their own.  They  *)
(* share no state, so each behaviour is one of a single component, and the *)
(* others stay in a state they start from.                                 *)
(***************************************************************************)
EXTENDS Identity, Continuity, Retrieval, WakeSignals, Workspace,
        WorkerProtocol, Migrations, RecoveryEvaluation, TLC

Components == {"identity", "continuity", "retrieval", "wake", "workspace",
               "protocol", "migrations", "recovery"}

VARIABLE moving       \* the component a behaviour is of

TwoSteps == <<"name", "goals">>
Categories == ("name" :> "name") @@ ("alias" :> "name")
              @@ (SelfDescription :> "recurring_self_description")
ItemDelta(op, k, protects) == [op |-> op, key |-> k, protects |-> protects]
SomeDeltas == {ItemDelta("add", "alias", FALSE), ItemDelta("add", SelfDescription, TRUE),
               ItemDelta("reinforce", SelfDescription, FALSE),
               ItemDelta("revise", "name", TRUE), ItemDelta("expire", "name", FALSE)}
Releases == {<<"a", "b">>, <<"a", "b", "c">>, <<"a", "x", "y">>}

\* Runs, writers, actions, reviewers and processes share their values.
Symmetry == Permutations(IdentityRuns)

ComponentsInit ==
  /\ moving \in Components
  /\ IdentityInit /\ ContinuityInit /\ RetrievalInit /\ WorkspaceInit /\ ProtocolInit
  /\ WakeInit
  /\ moving = "wake" \/ (settings.bound /\ settings.allowed)
  /\ IF moving = "migrations" THEN MigrationsInit
     ELSE /\ history = <<>>
          /\ process = [p \in Processes |->
               [at |-> "idle", serves |-> FALSE, files |-> CHOOSE c \in Checkouts : TRUE,
                listed |-> 0]]
  /\ IF moving = "recovery" THEN EvaluationInit
     ELSE /\ request = RestartRequest(TRUE)
          /\ outcome = "none"
          /\ checkpoint = "open"

componentsVars == <<moving, identityVars, continuityVars, retrievalVars, wakeVars,
                    workspaceVars, protocolVars, migrationVars, evaluationVars>>

ComponentsNext ==
  \/ /\ moving = "identity" /\ IdentityNext
     /\ UNCHANGED <<moving, continuityVars, retrievalVars, wakeVars, workspaceVars,
                    protocolVars, migrationVars, evaluationVars>>
  \/ /\ moving = "continuity" /\ ContinuityNext
     /\ UNCHANGED <<moving, identityVars, retrievalVars, wakeVars, workspaceVars,
                    protocolVars, migrationVars, evaluationVars>>
  \/ /\ moving = "retrieval" /\ RetrievalNext
     /\ UNCHANGED <<moving, identityVars, continuityVars, wakeVars, workspaceVars,
                    protocolVars, migrationVars, evaluationVars>>
  \/ /\ moving = "wake" /\ WakeNext
     /\ UNCHANGED <<moving, identityVars, continuityVars, retrievalVars, workspaceVars,
                    protocolVars, migrationVars, evaluationVars>>
  \/ /\ moving = "workspace" /\ WorkspaceNext
     /\ UNCHANGED <<moving, identityVars, continuityVars, retrievalVars, wakeVars,
                    protocolVars, migrationVars, evaluationVars>>
  \/ /\ moving = "protocol" /\ ProtocolNext
     /\ UNCHANGED <<moving, identityVars, continuityVars, retrievalVars, wakeVars,
                    workspaceVars, migrationVars, evaluationVars>>
  \/ /\ moving = "migrations" /\ MigrationsNext
     /\ UNCHANGED <<moving, identityVars, continuityVars, retrievalVars, wakeVars,
                    workspaceVars, protocolVars, evaluationVars>>
  \/ /\ moving = "recovery" /\ EvaluationNext
     /\ UNCHANGED <<moving, identityVars, continuityVars, retrievalVars, wakeVars,
                    workspaceVars, protocolVars, migrationVars>>

ComponentsSpec == ComponentsInit /\ [][ComponentsNext]_componentsVars

\* Every component's variables keep their types.
ComponentsTypeOK ==
  /\ moving \in Components
  /\ IdentityTypeOK /\ ContinuityTypeOK /\ RetrievalTypeOK /\ WakeTypeOK
  /\ WorkspaceTypeOK /\ ProtocolTypeOK /\ MigrationsTypeOK /\ EvaluationTypeOK
=============================================================================
