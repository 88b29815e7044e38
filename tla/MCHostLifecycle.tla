--------------------------- MODULE MCHostLifecycle ---------------------------
(* HostLifecycle for TLC: the waves and conflicts its configurations use, and *)
(* two kinds of update: any, and the healthy ones, which have to end.         *)
EXTENDS HostLifecycle, TLC

CONSTANTS canary1, nest1, nest2, run1, run2

VARIABLE kind

\* A canary host and nothing else.
OneWave == canary1 :> 1
NoConflicts == {}

\* A canary host, then two independent hosts in one wave.
ParallelWaves == (canary1 :> 1) @@ (nest1 :> 2) @@ (nest2 :> 2)
ParallelConflicts ==
  {<<canary1, nest1>>, <<nest1, canary1>>, <<canary1, nest2>>, <<nest2, canary1>>}

Healthy(A) == kind = "healthy" /\ A /\ UNCHANGED kind

EitherInit == (kind = "any" /\ Init) \/ (kind = "healthy" /\ HealthyInit)

EitherNext == (kind = "any" /\ Next /\ UNCHANGED kind) \/ Healthy(HealthyNext)

\* The fairness of HealthySpec, for the healthy ones.
EitherSpec ==
  /\ EitherInit /\ [][EitherNext]_<<kind, vars>>
  /\ WF_<<kind, vars>>(Healthy(HealthyWorld))
  /\ \A r \in Runs : WF_<<kind, vars>>(Healthy(HealthyDrive(r)))
-------------------------------------------------------------------------------
\* A healthy update finishes once its controller no longer dies, wherever it died
\* before (update_lifecycle.pp, "resume observation only").
HealthyUpdatesFinish == kind = "healthy" => ResumedUpdateFinishes
==============================================================================
