----------------------------- MODULE TestDelivery -----------------------------
(***************************************************************************)
(* The TEST delivery adapter src/files/app/joyride/test_delivery_controller *)
(* .py: a CronJob that takes one operation at a time from the backend's    *)
(* queue, journals it in a ConfigMap, claims it, patches the one Deployment *)
(* and reports the outcome.  Runs never overlap (concurrencyPolicy Forbid), *)
(* but a run may be killed anywhere, and a write whose sender gave up or   *)
(* died may still arrive later.                                            *)
(*                                                                         *)
(* Kubernetes serves the journal and the Deployment with resourceVersions; *)
(* the platform's own rollouts write the same Deployment.  A Deployment's  *)
(* content is its image, its delivery annotation and the footprint, which  *)
(* here stands for everything else, its uid included.                      *)
(***************************************************************************)
EXTENDS Integers, FiniteSets

CONSTANTS
  Operations,   \* delivery ids
  Images,       \* image digests
  Image,        \* Image[o], the image operation o delivers
  Footprints,   \* what a Deployment may be besides image and annotation
  None,         \* no operation, no annotation
  MaxForeign,   \* bound on the platform's own rollouts
  MaxLate       \* bound on writes that outlive their sender at once

ASSUME DeliveryAssumption ==
  /\ Image \in [Operations -> Images]
  /\ None \notin Operations
  /\ MaxForeign \in Nat /\ MaxLate \in Nat

Records  == [id : Operations, original : Images, footprint : Footprints,
             prior : Operations \cup {None}]
NoRecord == [id |-> None]
Contents == [image : Images, annotation : Operations \cup {None}, footprint : Footprints]

Put(rv, r)     == [kind |-> "put", rv |-> rv, record |-> r]
Patch(rv, r)   == [kind |-> "patch", rv |-> rv, record |-> r]
Callback(o, s) == [kind |-> "callback", id |-> o, state |-> s]

Terminal == {"succeeded", "failed"}

VARIABLES
  pc,          \* where the run is; the names of Calls are writes outstanding
  operation,   \* the record in hand
  row,         \* the journal's resourceVersion in hand
  seen,        \* the Deployment's resourceVersion in hand
  journal,     \* the ConfigMap: rv and the active record
  backend,     \* backend[o]: the state of o in the delivery queue
  live,        \* the Deployment: rv, content, and its status
  late,        \* writes whose sender is gone
  due,         \* the active record's deadline has passed
  foreign,     \* the platform's rollouts so far
  journaled,   \* records that were ever in the journal (history)
  delivered,   \* operations whose rollout was complete at some time (history)
  patches      \* patches[o] since the last foreign rollout (history)

run     == <<pc, operation, row, seen>>
history == <<journaled, delivered, patches>>
servers == <<journal, backend, live>>
vars    == <<run, servers, late, due, foreign, history>>

Calls == {"save", "claim", "patch", "fail", "succeed", "clear"}

Messages ==
  [kind : {"put"}, rv : Nat, record : Records \cup {NoRecord}]
    \cup [kind : {"patch"}, rv : Nat, record : Records]
    \cup [kind : {"callback"}, id : Operations, state : Terminal \cup {"running"}]

TypeOK ==
  /\ pc \in Calls \cup {"idle", "killed", "queue", "inspect", "watch", "probe", "recheck"}
  /\ operation \in IF pc \in {"idle", "killed", "queue"} THEN {NoRecord} ELSE Records
  /\ row \in Nat /\ seen \in Nat
  /\ journal \in [rv : Nat, record : Records \cup {NoRecord}]
  /\ backend \in [Operations -> Terminal \cup {"queued", "running"}]
  /\ live \in [rv : Nat, content : Contents, observed : BOOLEAN, healthy : BOOLEAN]
  /\ late \subseteq Messages
  /\ due \in BOOLEAN
  /\ foreign \in 0 .. MaxForeign
  /\ journaled \subseteq Records
  /\ delivered \subseteq Operations
  /\ patches \in [Operations -> Nat]

Init ==
  /\ pc = "idle"
  /\ operation = NoRecord
  /\ row = 0 /\ seen = 0
  /\ journal = [rv |-> 0, record |-> NoRecord]
  /\ backend = [o \in Operations |-> "queued"]
  /\ live \in [rv : {0},
               content : [image : Images, annotation : {None}, footprint : Footprints],
               observed : {TRUE}, healthy : {TRUE}]
  /\ late = {}
  /\ due = FALSE
  /\ foreign = 0
  /\ journaled = {}
  /\ delivered = {}
  /\ patches = [o \in Operations |-> 0]
------------------------------------------------------------------------------
(* What the servers do with a write.                                       *)

\* PUT with a resourceVersion is a compare-and-swap.
ApplyPut(m) ==
  /\ IF m.rv = journal.rv
       THEN /\ journal' = [rv |-> m.rv + 1, record |-> m.record]
            /\ journaled' = journaled \cup ({m.record} \ {NoRecord})
       ELSE UNCHANGED <<journal, journaled>>
  /\ UNCHANGED <<backend, live, delivered, patches>>

\* Repeated callbacks are safe; a terminal state stays, and answers 409.
ApplyCallback(m) ==
  /\ backend' = IF backend[m.id] \in Terminal THEN backend
                ELSE [backend EXCEPT ![m.id] = m.state]
  /\ UNCHANGED <<journal, live, history>>

Patched(content, r) ==
  [content EXCEPT !.image = Image[r.id], !.annotation = r.id]

\* Mutant: the resourceVersion is not tested.
ApplyPatchUntested(m) ==
  /\ live' = [rv |-> live.rv + 1, content |-> Patched(live.content, m.record),
              observed |-> FALSE, healthy |-> live.healthy]
  /\ patches' = [patches EXCEPT ![m.record.id] = @ + 1]
  /\ UNCHANGED <<journal, backend, journaled, delivered>>

\* The status is still the old rollout's until the new generation is observed.
ApplyPatch(m) ==
  /\ IF m.rv = live.rv
       THEN /\ live' = [rv |-> live.rv + 1, content |-> Patched(live.content, m.record),
                        observed |-> FALSE, healthy |-> live.healthy]
            /\ patches' = [patches EXCEPT ![m.record.id] = @ + 1]
       ELSE UNCHANGED <<live, patches>>
  /\ UNCHANGED <<journal, backend, journaled, delivered>>

Apply(m) ==
  \/ m.kind = "put" /\ ApplyPut(m)
  \/ m.kind = "callback" /\ ApplyCallback(m)
  \/ m.kind = "patch" /\ ApplyPatch(m)

\* The write the run has outstanding.
Request ==
  CASE pc = "save"    -> Put(row, operation)
    [] pc = "clear"   -> Put(row, NoRecord)
    [] pc = "patch"   -> Patch(seen, operation)
    [] pc = "claim"   -> Callback(operation.id, "running")
    [] pc = "fail"    -> Callback(operation.id, "failed")
    [] pc = "succeed" -> Callback(operation.id, "succeeded")

EndRun(l) ==
  /\ pc' = l /\ operation' = NoRecord /\ row' = 0 /\ seen' = 0

End == EndRun("idle")

\* The run is killed, or a request of it fails: the write, if one is
\* outstanding, never arrives, has arrived, or arrives later.
Stop ==
  /\ pc \notin {"idle", "killed"}
  /\ EndRun("killed")
  /\ \/ UNCHANGED <<servers, history, late>>
     \/ pc \in Calls /\ Apply(Request) /\ UNCHANGED late
     \/ /\ pc \in Calls
        /\ Cardinality(late) < MaxLate
        /\ late' = late \cup {Request}
        /\ UNCHANGED <<servers, history>>
  /\ UNCHANGED <<due, foreign>>

Arrive(m) ==
  /\ m \in late
  /\ late' = late \ {m}
  /\ Apply(m)
  /\ UNCHANGED <<run, due, foreign>>
------------------------------------------------------------------------------
(* One run.                                                                *)

Go(l) == pc' = l /\ UNCHANGED <<operation, row, seen>>

Start ==
  /\ pc \in {"idle", "killed"}
  /\ row' = journal.rv
  /\ operation' = journal.record
  /\ pc' = IF journal.record = NoRecord THEN "queue" ELSE "claim"
  /\ UNCHANGED <<seen, servers, late, due, foreign, history>>

\* A queued TEST item, and the Deployment as it is now.
Pick(o) ==
  /\ pc = "queue"
  /\ backend[o] \notin Terminal
  /\ operation' = [id |-> o, original |-> live.content.image,
                   footprint |-> live.content.footprint, prior |-> live.content.annotation]
  /\ due' = FALSE
  /\ pc' = "save"
  /\ UNCHANGED <<row, seen, servers, late, foreign, history>>

Idle ==
  /\ pc = "queue"
  /\ \A o \in Operations : backend[o] \in Terminal
  /\ End
  /\ UNCHANGED <<servers, late, due, foreign, history>>

Save ==
  /\ pc = "save"
  /\ Apply(Request)
  /\ IF row = journal.rv
       THEN pc' = "claim" /\ row' = row + 1 /\ UNCHANGED <<operation, seen>>
       ELSE End
  /\ UNCHANGED <<late, due, foreign>>

\* Mutant: a terminal answer to the claim is an unconfirmed claim.
ClaimOnlyRunning ==
  /\ pc = "claim"
  /\ Apply(Request)
  /\ IF backend'[operation.id] = "running" THEN Go("inspect") ELSE End
  /\ UNCHANGED <<late, due, foreign>>

\* A claim that finds the operation terminal recovers a lost outcome.
Claim ==
  /\ pc = "claim"
  /\ Apply(Request)
  /\ Go(IF backend'[operation.id] \in Terminal THEN "clear" ELSE "inspect")
  /\ UNCHANGED <<late, due, foreign>>

\* assert_unchanged: the Deployment is the record's, before or after its patch.
Applied(r) ==
  live.content = [image |-> Image[r.id], annotation |-> r.id, footprint |-> r.footprint]

Untouched(r) ==
  live.content = [image |-> r.original, annotation |-> r.prior, footprint |-> r.footprint]

Inspect ==
  /\ pc = "inspect"
  /\ seen' = live.rv
  /\ pc' = IF due \/ ~ (Applied(operation) \/ Untouched(operation)) THEN "fail"
           ELSE IF Applied(operation) THEN "watch" ELSE "patch"
  /\ UNCHANGED <<operation, row, servers, late, due, foreign, history>>

\* A refused patch ends the run; a later one resumes.
PatchDeployment ==
  /\ pc = "patch"
  /\ Apply(Request)
  /\ IF seen = live.rv THEN Go("watch") ELSE End
  /\ UNCHANGED <<late, due, foreign>>

\* Mutant: a status of an older generation counts.
CompleteStale(r) == Applied(r) /\ live.healthy

Complete(r) == Applied(r) /\ live.observed /\ live.healthy

\* One turn of the loop: the first reading of the Deployment.
Watch ==
  /\ pc = "watch"
  /\ Go(IF due \/ ~ (Applied(operation) \/ Untouched(operation)) THEN "fail"
        ELSE IF Complete(operation) THEN "probe" ELSE "watch")
  /\ UNCHANGED <<servers, late, due, foreign, history>>

\* The application answers ready, not ready, or something it never should.
Probe ==
  /\ pc = "probe"
  /\ \E l \in {"recheck", "watch", "fail"} : Go(l)
  /\ UNCHANGED <<servers, late, due, foreign, history>>

\* The exact workload again, after the probe.
Recheck ==
  /\ pc = "recheck"
  /\ Go(IF ~ (Applied(operation) \/ Untouched(operation)) THEN "fail"
        ELSE IF Complete(operation) THEN "succeed" ELSE "watch")
  /\ UNCHANGED <<servers, late, due, foreign, history>>

Fail ==
  /\ pc = "fail"
  /\ Apply(Request)
  /\ IF backend'[operation.id] = "failed" THEN Go("clear") ELSE End
  /\ UNCHANGED <<late, due, foreign>>

Succeed ==
  /\ pc = "succeed"
  /\ Apply(Request)
  /\ IF backend'[operation.id] = "succeeded" THEN Go("clear") ELSE End
  /\ UNCHANGED <<late, due, foreign>>

Clear ==
  /\ pc = "clear"
  /\ Apply(Request)
  /\ End
  /\ UNCHANGED <<late, due, foreign>>

Run ==
  \/ Start \/ Idle \/ Save \/ Claim \/ Inspect \/ PatchDeployment \/ Watch
  \/ Probe \/ Recheck \/ Fail \/ Succeed \/ Clear
  \/ \E o \in Operations : Pick(o)
------------------------------------------------------------------------------
(* External: the Deployment controller, the platform's rollouts, the clock. *)

\* The new generation is observed with its pods not ready yet.
ObserveGeneration ==
  /\ ~ live.observed
  /\ live' = [live EXCEPT !.rv = @ + 1, !.observed = TRUE, !.healthy = FALSE]
  /\ UNCHANGED <<run, journal, backend, late, due, foreign, history>>

\* The rollout of the observed generation completes.
RollOut ==
  /\ live.observed /\ ~ live.healthy
  /\ live' = [live EXCEPT !.rv = @ + 1, !.healthy = TRUE]
  /\ delivered' = IF live.content.annotation = None THEN delivered
                  ELSE IF live.content.image = Image[live.content.annotation]
                    THEN delivered \cup {live.content.annotation} ELSE delivered
  /\ UNCHANGED <<run, journal, backend, late, due, foreign, journaled, patches>>

\* The platform applies its own Deployment, perhaps the very one that was
\* there before the delivery.
ForeignRollout ==
  /\ foreign < MaxForeign
  /\ foreign' = foreign + 1
  /\ \E c \in Contents :
       /\ c # live.content
       /\ c.annotation \in {None, live.content.annotation}
       /\ live' = [rv |-> live.rv + 1, content |-> c, observed |-> FALSE,
                   healthy |-> live.healthy]
  /\ patches' = [o \in Operations |-> 0]
  /\ UNCHANGED <<run, journal, backend, late, due, journaled, delivered>>

Clock ==
  /\ ~ due /\ journal.record # NoRecord
  /\ due' = TRUE
  /\ UNCHANGED <<run, servers, late, foreign, history>>

Deploy == ObserveGeneration \/ RollOut

Next ==
  \/ Run \/ Deploy \/ Clock \/ Stop \/ ForeignRollout
  \/ \E m \in late : Arrive(m)

Spec == Init /\ [][Next]_vars

\* The CronJob starts a run every two minutes, every request has a timeout and
\* the clock goes on.  Nothing is assumed of the rollout.
FairSpec == Spec /\ WF_vars(Run) /\ WF_vars(Clock)
------------------------------------------------------------------------------
(* Properties.                                                             *)

\* A delivery is reported succeeded only if its rollout was complete: not on a
\* status of the previous generation, another operation's rollout or the
\* platform's, and not by a late callback.
SucceededMeansDelivered ==
  \A o \in Operations : backend[o] = "succeeded" => o \in delivered

\* "JSON Patch tests prevent clobbering another platform rollout": a patch,
\* however late, lands on the Deployment its operation was journaled for, and
\* resuming never rolls an operation out again, unless the platform rolled out
\* something else in between (test_delivery_controller.py:249-303).
PatchesOnceWhatWasJournaled ==
  [][\A o \in Operations : patches'[o] > patches[o] =>
       patches[o] = 0 /\ \E r \in journaled : r.id = o /\ Untouched(r)]_vars

\* Once no run is killed and no request fails, every operation is closed and
\* the journal is free: no crash between claim, patch, callback and clear
\* leaves an operation that every later run gives up on.
EveryDeliveryCloses ==
  <>[][~ Stop]_vars =>
    <>[](\A o \in Operations : backend[o] \in Terminal /\ journal.record = NoRecord)
==============================================================================
