------------------------------ MODULE MCServices ------------------------------
(* Programs that serve calls and retain files, for TLC: the dispatch of a    *)
(* lifecycle and the delivery of its reports, downloads of photos, the       *)
(* backup of the media applications, and the bootstrap of an executor.  They *)
(* share no state: a behaviour is one of them, chosen at the start, while    *)
(* the others rest.                                                          *)
EXTENDS UpdateDispatch, GooglePhotos, MediaBackup, ExecutorBootstrap, TLC

CONSTANTS call1, call2, call3, result, acceptance, health

VARIABLE part

\* The result cites the acceptance, which cites the health of a host.
SomeCites ==
  result :> {acceptance} @@ acceptance :> {health} @@ health :> {}

\* Two photos of one name.
SomeItems == <<"photo1", "photo2">>
SomeNames == <<<<"a", "a-2">>, <<"a", "a-2">>>>

\* The same two call the dispatch and download.
CallSymmetry == Permutations({call1, call2})

\* Two downloads at once.
Bounded == Cardinality(Running) <= 2

SuiteInit ==
  /\ part \in {"dispatch", "photos", "media", "bootstrap"}
  /\ DispatchInit /\ PhotosInit /\ MediaInit /\ BootstrapInit
  /\ part # "bootstrap" => way = "direct"

SuiteNext ==
  \/ /\ part = "dispatch" /\ DispatchNext
     /\ UNCHANGED <<part, photoVars, mediaVars, bootstrapVars>>
  \/ /\ part = "photos" /\ PhotosNext
     /\ UNCHANGED <<part, dispatchVars, mediaVars, bootstrapVars>>
  \/ /\ part = "media" /\ MediaNext
     /\ UNCHANGED <<part, dispatchVars, photoVars, bootstrapVars>>
  \/ /\ part = "bootstrap" /\ BootstrapNext
     /\ UNCHANGED <<part, dispatchVars, photoVars, mediaVars>>

everything == <<part, dispatchVars, photoVars, mediaVars, bootstrapVars>>

SuiteSpec == SuiteInit /\ [][SuiteNext]_everything
===============================================================================
