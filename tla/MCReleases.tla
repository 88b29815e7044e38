------------------------------ MODULE MCReleases ------------------------------
(* What happens to a release, for TLC: how its members are built and         *)
(* accepted as one graph, how a build becomes its sealed root, its promotion *)
(* in the registry, the transfer of a root generation to a host, and the     *)
(* preparation of the hosts in waves; also the identities that roots get and *)
(* the manifest of the release.  The seven share no state: a behaviour is    *)
(* one of them, chosen at the start, while the others rest.                  *)
EXTENDS ReleasePromotion, ReleaseGraph, StageThreeRoot, StageThreeIdentity,
        ReleaseManifest, TLC

CONSTANTS june, july, august, zen, haswell, oldZen, newZen, oldHaswell, newHaswell,
          operator1, operator2,
          Hosts, Domains, Controllers, MaxSpoiled, canary, host1, host2,
          Transfers, MaxWrites, Nobody, transfer1, transfer2

\* Transfers are finitely many and Nobody is none; there are jobs, and datasets to
\* complete; a policy lists its hosts.
ASSUME SuiteAssumption ==
  /\ IsFiniteSet(Hosts) /\ MaxSpoiled \in Nat
  /\ IsFiniteSet(Transfers) /\ Nobody \notin Transfers /\ MaxWrites \in Nat
  /\ Jobs # {} /\ Stagings # {} /\ MaxJobs \in Nat

VARIABLES
  part,
  mode, policy, targets, waves, stage, current, thread, receipts, broken,
  window, reset, changes,
  movePc, source, dataset, content, properties, started, completed, moveLock,
  copies, verified, writes

preparing == <<mode, policy, targets, waves, stage, current, thread, receipts,
               broken, window, reset, changes>>
moving == <<movePc, source, dataset, content, properties, started, completed,
            moveLock, copies, verified, writes>>

Preparation == INSTANCE UpdatePreparation WITH MaxChanges <- MaxSpoiled
Transfer == INSTANCE GenerationTransfer
              WITH pc <- movePc, lock <- moveLock, changes <- writes,
                   MaxChanges <- MaxWrites

\* Two members in a row or in a circle, of an architecture each, and three of which
\* two are merged, where one architecture has the first and the third.
SomeRequests == {<<{}, {1}>>, <<{2}, {1}>>, <<{}, {}, {1, 2}>>}
SomeArchitectures == <<<<<<1>>>>, <<<<1>>, <<2>>>>, <<<<1, 3>>, <<2>>>>>>
SomeRetries == <<0, 2, 1>>

\* Three releases: the last two share the image of one alias.
ThreeReleases ==
  (june :> ((zen :> oldZen) @@ (haswell :> oldHaswell)))
    @@ (july :> ((zen :> newZen) @@ (haswell :> oldHaswell)))
    @@ (august :> ((zen :> newZen) @@ (haswell :> newHaswell)))

\* One order of the hosts, all their domains, no to two hosts in a wave.
SomePolicies ==
  [order : {<<canary, host1, host2>>}, canaries : {1},
   member : [Hosts -> (SUBSET Domains) \ {{}}], limit : {0, 2},
   guarded : {{host1}}]

Resting ==
  [order |-> <<canary, host1, host2>>, canaries |-> 1,
   member |-> [h \in Hosts |-> Domains], limit |-> 0, guarded |-> {}]

\* The first release is current; the promotions lead to the others.
PromotionInit == Init /\ pointer = june

PreparationInit ==
  /\ policy \in IF part = "preparation" THEN SomePolicies ELSE {Resting}
  /\ targets \in {Hosts, {host1}}
  /\ Preparation!PrepInit
  /\ part # "preparation" =>
       mode = "observe" /\ targets = Hosts /\ window = "early"

TransferInit ==
  /\ Transfer!MoveInit
  /\ part # "transfer" => source = "right"

RootsInit ==
  /\ RootInit
  /\ part # "roots" => ancestors = 0

BuildsInit ==
  /\ GraphInit
  /\ part # "builds" => parents = <<{}, {1}>>

SuiteInit ==
  /\ part \in {"builds", "roots", "promotion", "preparation", "transfer", "identities",
              "manifest"}
  /\ IdentityInit /\ ManifestInit
  /\ PromotionInit /\ PreparationInit /\ TransferInit /\ RootsInit /\ BuildsInit

SuiteNext ==
  \/ /\ part = "promotion" /\ Next
     /\ UNCHANGED <<part, preparing, moving, rootVars, graphVars, identityVars, manifestVars>>
  \/ /\ part = "preparation" /\ Preparation!PrepNext
     /\ UNCHANGED <<part, vars, moving, rootVars, graphVars, identityVars, manifestVars>>
  \/ /\ part = "transfer" /\ Transfer!MoveNext
     /\ UNCHANGED <<part, vars, preparing, rootVars, graphVars, identityVars, manifestVars>>
  \/ /\ part = "roots" /\ RootNext
     /\ UNCHANGED <<part, vars, preparing, moving, graphVars, identityVars, manifestVars>>
  \/ /\ part = "builds" /\ GraphNext
     /\ UNCHANGED <<part, vars, preparing, moving, rootVars, identityVars, manifestVars>>
  \/ /\ part = "identities" /\ IdentityNext
     /\ UNCHANGED <<part, vars, preparing, moving, rootVars, graphVars, manifestVars>>
  \/ /\ part = "manifest" /\ ManifestNext
     /\ UNCHANGED <<part, vars, preparing, moving, rootVars, graphVars, identityVars>>

SuiteSpec ==
  SuiteInit /\ [][SuiteNext]_<<part, vars, preparing, moving, rootVars, graphVars,
                             identityVars, manifestVars>>

-------------------------------------------------------------------------------
(* Every part keeps its types; those that rest never change.                 *)
TypesOK ==
  /\ part = "promotion" => TypeOK
  /\ part = "preparation" => Preparation!PrepTypeOK
  /\ part = "transfer" => Transfer!MoveTypeOK
  /\ part = "roots" => RootTypeOK
  /\ part = "builds" => GraphTypeOK
  /\ part = "identities" => IdentityTypeOK
  /\ part = "manifest" => ManifestTypeOK

(* Every host passes every gate before the first is reset, and its own again *)
(* after the earlier waves; the hosts reset and not known prepared fit into  *)
(* one wave of the policy (update_wave_plan.py:146-158, update.pp:127-283).  *)
ResetsAreGated ==
  part = "preparation" => Preparation!GatesPrecedeResets /\ Preparation!DamageIsContained

(* A completed generation is sealed and holds its content, and so is a       *)
(* completed root (transfer-generation.py:253-281,                           *)
(* finish-stage3-root.py:69-99).                                             *)
CompleteIsWhole ==
  /\ part = "transfer" => Transfer!CompleteIsWhole
  /\ part = "roots" => CompletedIsWhole

(* At most one copy is ever begun into a destination or a staging dataset    *)
(* (transfer-generation.py:250-256, finish-stage3-root.py:72).               *)
CopiedOnce ==
  /\ part = "transfer" => Transfer!CopiedOnce
  /\ part = "roots" => FilledOnce
==============================================================================
