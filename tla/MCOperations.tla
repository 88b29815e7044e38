---------------------------- MODULE MCOperations ----------------------------
(* What happens to one host under an update, for TLC: executions of the      *)
(* lifecycle that overlap, one collection of its health, the evidence of its *)
(* catalog; and three services beside: the migration of a database, signing  *)
(* in by way of the proxy, and the digest of releases.  The six share no     *)
(* state: a behaviour is one of them, chosen at the start, while the others  *)
(* rest.                                                                     *)
EXTENDS HostLifecycle, HealthObservation, CatalogEvidence, EmbeddingMigration,
        SignIn, ReleaseDigest, TLC

CONSTANTS canary1, run1, run2

VARIABLE part

OneWave == canary1 :> 1
NoConflicts == {}
RunSymmetry == Permutations(Runs)

SomeUsers == <<"joy", "star">>
SomeDocuments == <<"document1", "document2">>
SomeMessages == <<"message1", "message2">>

OverlapInit ==
  /\ Init
  /\ part # "overlap" => native = [h \in Hosts |-> "stopped"]

ObservationInit ==
  /\ HealthInit
  /\ part # "health" =>
       onBoot = 0 /\ ~ endpoints /\ manager = [u \in Users |-> 0]

DatabaseInit ==
  /\ MigrationInit
  /\ part # "migration" =>
       /\ content = [x \in Documented \cup Said |-> "text"]
       /\ vectored = {} /\ rows = [m \in Said |-> 0]

SuiteInit ==
  /\ part \in {"overlap", "health", "catalog", "migration", "signin", "digest"}
  /\ SignInInit /\ DigestInit
  /\ OverlapInit /\ ObservationInit /\ CatalogInit /\ DatabaseInit

SuiteNext ==
  \/ /\ part = "overlap" /\ Next
     /\ UNCHANGED <<part, healthVars, catalogVars, migrationVars, signInVars, digestVars>>
  \/ /\ part = "health" /\ HealthNext
     /\ UNCHANGED <<part, vars, catalogVars, migrationVars, signInVars, digestVars>>
  \/ /\ part = "catalog" /\ CatalogNext
     /\ UNCHANGED <<part, vars, healthVars, migrationVars, signInVars, digestVars>>
  \/ /\ part = "migration" /\ MigrationNext
     /\ UNCHANGED <<part, vars, healthVars, catalogVars, signInVars, digestVars>>
  \/ /\ part = "signin" /\ SignInNext
     /\ UNCHANGED <<part, vars, healthVars, catalogVars, migrationVars, digestVars>>
  \/ /\ part = "digest" /\ DigestNext
     /\ UNCHANGED <<part, vars, healthVars, catalogVars, migrationVars, signInVars>>

SuiteSpec ==
  SuiteInit /\ [][SuiteNext]_<<part, vars, healthVars, catalogVars, migrationVars,
                             signInVars, digestVars>>
-------------------------------------------------------------------------------
(* Every part keeps its types; those that rest never change.                 *)
TypesOK ==
  /\ part = "overlap" => TypeOK
  /\ part = "health" => HealthTypeOK
  /\ part = "catalog" => CatalogTypeOK
  /\ part = "migration" => MigrationTypeOK
  /\ part = "signin" => SignInTypeOK
  /\ part = "digest" => DigestTypeOK

(* What is recorded was so: a host retained as healthy was so at one instant *)
(* of one boot (update_health.pp:40-62), one retained as converged was in    *)
(* the version of the release when its repeated run ended                    *)
(* (update_catalog_apply.rb:24-95), and a digest recorded as reported was    *)
(* told (release_digest.py:565-590).                                         *)
RecordedWasTrue == PassWasHealthyAtOnce /\ PassWasConverged /\ SilenceWasTold
==============================================================================
