---------------------------- MODULE HostLifecycle ----------------------------
(***************************************************************************)
(* The host update lifecycle: src/plans/host/update_lifecycle.pp with the  *)
(* plans it calls (check_update_reboot, observe_update_reboot,             *)
(* update_acceptance, update_finalize) and the supervisor journal of       *)
(* src/tasks/update_lifecycle.py.                                          *)
(*                                                                         *)
(* A run is one execution of the plan on the external controller.  Runs    *)
(* overlap (an operator may start the plan beside a dispatched one), fail  *)
(* and crash at any point, and share only the journal directory and the    *)
(* hosts.  Inside a run, parallelize() gives every host of the current     *)
(* wave a thread of its own.                                               *)
(*                                                                         *)
(* A journaled step is a number: Submit, Catalog, Health, then the         *)
(* canaries in policy order.  Every step but Health is a mutation and      *)
(* needs an intent file, created O_EXCL, before its effect.                *)
(*                                                                         *)
(* External: the native `nest reset` command on the host, the host's boots *)
(* and what Puppet and the canaries answer.                                *)
(***************************************************************************)
EXTENDS Integers, FiniteSets

CONSTANTS
  Hosts, Waves, Wave, Conflicts,   \* as in RollingUpdate
  Runs,                            \* executions that may overlap
  CanaryCount,                     \* canaries per host, policy order
  MaxBoots                         \* bound on the boots of one host

ASSUME LifecycleAssumption ==
  /\ Waves \in Nat \ {0}
  /\ Wave \in [Hosts -> 1 .. Waves]
  /\ Conflicts \subseteq Hosts \X Hosts
  /\ \A g, h \in Hosts : g # h /\ <<g, h>> \in Conflicts => Wave[g] # Wave[h]
  /\ CanaryCount \in Nat \ {0}
  /\ MaxBoots \in Nat

Submit   == 0
Catalog  == 1
Health   == 2
LastStep == Health + CanaryCount
Steps     == Submit .. LastStep
Recorded  == Catalog .. LastStep     \* the steps that keep a result file
Mutations == Steps \ {Health}        \* the steps that need a prior intent
Boots     == 0 .. MaxBoots           \* 0: the boot the host was prepared on

Receipts == [file : {"absent", "torn", "whole"}, boot : Boots, ok : BOOLEAN]
Absent   == [file |-> "absent", boot |-> 0, ok |-> FALSE]
Torn     == [file |-> "torn", boot |-> 0, ok |-> FALSE]

VARIABLES
  \* the controller
  phase,      \* phase[r]: "idle", "admit", "waves", "down"
  wave,       \* wave[r]: the wave run r is in
  pc,         \* pc[r][h]: where run r's thread for host h is
  step,       \* step[r][h]: the journaled step that thread is at
  seen,       \* seen[r][h]: the boot the thread expects its evidence from
  got,        \* got[r][h]: the result in hand, not yet retained
  \* the journal directory
  admission,  \* admission[h]: the retained result of step "reboot"
  intent,     \* intent[h]: the steps with an intent file
  done,       \* done[h][s]: the result file of step s
  reported,   \* the lifecycle result has been retained
  \* the hosts (external)
  native,     \* native[h]: state of the reset transaction
  requested,  \* hosts whose transaction holds a native reboot receipt
  accepted,   \* accepted[h]: the boot the native acceptance names
  boot,       \* boot[h]: boots since preparation
  target,     \* hosts now booted into the target environment
  inflight,   \* hosts with a reboot command sent and not yet handled
  \* the world
  window,     \* the disruption window: "early", "open", "closed"
  effects     \* effects[h][s]: how often mutation s was issued (history)

control == <<phase, wave, pc, step, seen, got>>
journal == <<admission, intent, done, reported>>
machine == <<native, requested, accepted, boot, target, inflight>>
vars    == <<control, journal, machine, window, effects>>

Locations == {"wait", "observe", "read", "begin", "act", "save", "poll",
              "accepting", "evidence", "attest", "admitFinal", "finalize",
              "ok", "err"}

Reasons == {"eligible", "already_requested", "already_booted"}

TypeOK ==
  /\ phase \in [Runs -> {"idle", "admit", "waves", "down"}]
  /\ wave \in [Runs -> 1 .. Waves]
  /\ pc \in [Runs -> [Hosts -> Locations]]
  /\ step \in [Runs -> [Hosts -> Steps]]
  /\ seen \in [Runs -> [Hosts -> Boots]]
  /\ got \in [Runs -> [Hosts -> Receipts]]
  /\ admission \in [Hosts -> Reasons \cup {"none", "torn"}]
  /\ intent \in [Hosts -> SUBSET Steps]
  /\ done \in [Hosts -> [Recorded -> Receipts]]
  /\ reported \in BOOLEAN
  /\ native \in [Hosts -> {"stopped", "prepared", "accepted", "finalized"}]
  /\ requested \subseteq Hosts
  /\ accepted \in [Hosts -> Boots]
  /\ boot \in [Hosts -> Boots]
  /\ target \subseteq Hosts
  /\ inflight \subseteq Hosts
  /\ window \in {"early", "open", "closed"}
  /\ effects \in [Hosts -> [Mutations -> Nat]]

(***************************************************************************)
(* A preparation may have stopped on any host: the lifecycle has to find   *)
(* that out itself.                                                        *)
(***************************************************************************)
Init ==
  /\ phase = [r \in Runs |-> "idle"]
  /\ wave = [r \in Runs |-> 1]
  /\ pc = [r \in Runs |-> [h \in Hosts |-> "wait"]]
  /\ step = [r \in Runs |-> [h \in Hosts |-> Submit]]
  /\ seen = [r \in Runs |-> [h \in Hosts |-> 0]]
  /\ got = [r \in Runs |-> [h \in Hosts |-> Absent]]
  /\ admission = [h \in Hosts |-> "none"]
  /\ intent = [h \in Hosts |-> {}]
  /\ done = [h \in Hosts |-> [s \in Recorded |-> Absent]]
  /\ reported = FALSE
  /\ native \in [Hosts -> {"stopped", "prepared"}]
  /\ requested = {}
  /\ accepted = [h \in Hosts |-> 0]
  /\ boot = [h \in Hosts |-> 0]
  /\ target = {}
  /\ inflight = {}
  /\ window = "early"
  /\ effects = [h \in Hosts |-> [m \in Mutations |-> 0]]
------------------------------------------------------------------------------
(* Starting, failing and crashing runs.                                    *)

\* The threads of a run that begins wave w.
Threads(w) == [h \in Hosts |-> IF Wave[h] = w THEN "observe" ELSE "wait"]

Forget(r) ==
  /\ pc' = [pc EXCEPT ![r] = [h \in Hosts |-> "wait"]]
  /\ step' = [step EXCEPT ![r] = [h \in Hosts |-> Submit]]
  /\ seen' = [seen EXCEPT ![r] = [h \in Hosts |-> 0]]
  /\ got' = [got EXCEPT ![r] = [h \in Hosts |-> Absent]]

StartRun(r) ==
  /\ phase[r] \in {"idle", "down"}
  /\ phase' = [phase EXCEPT ![r] = "admit"]
  /\ wave' = [wave EXCEPT ![r] = 1]
  /\ UNCHANGED <<pc, step, seen, got, journal, machine, window, effects>>

\* The run ends, and all its threads and what they held in memory with it.
EndRun(r, how) ==
  /\ phase[r] \in {"admit", "waves"}
  /\ phase' = [phase EXCEPT ![r] = how]
  /\ Forget(r)
  /\ UNCHANGED wave

\* The controller dies, or the plan fails while it admits hosts.
Crash(r) == EndRun(r, "down") /\ UNCHANGED <<journal, machine, window, effects>>

(***************************************************************************)
(* Admission of all hosts, before the first reboot.                        *)
(***************************************************************************)
Reason(h) ==
  IF boot[h] > 0 THEN "already_booted"
  ELSE IF h \in requested THEN "already_requested" ELSE "eligible"

\* retain_update_reboot.py accepts a prepared original boot, or a changed
\* boot of the target.
Plannable(h) ==
  \/ native[h] = "prepared" /\ boot[h] = 0 /\ h \notin target
  \/ native[h] # "stopped" /\ boot[h] > 0 /\ h \in target

AdmitHost(r, h) ==
  /\ phase[r] = "admit"
  /\ admission[h] = "none"
  /\ Plannable(h)
  /\ admission' = [admission EXCEPT ![h] = Reason(h)]
  /\ UNCHANGED <<control, intent, done, reported, machine, window, effects>>

\* save_exclusive created the result file and did not get to write it.
TornAdmission(r, h) ==
  /\ phase[r] = "admit"
  /\ admission[h] = "none"
  /\ Plannable(h)
  /\ admission' = [admission EXCEPT ![h] = "torn"]
  /\ EndRun(r, "idle")
  /\ UNCHANGED <<intent, done, reported, machine, window, effects>>

\* Mutant: one admitted host is enough.
BeginWavesTooEarly(r) ==
  /\ phase[r] = "admit"
  /\ \E h \in Hosts : admission[h] \in Reasons
  /\ phase' = [phase EXCEPT ![r] = "waves"]
  /\ pc' = [pc EXCEPT ![r] = Threads(1)]
  /\ UNCHANGED <<wave, step, seen, got, journal, machine, window, effects>>

BeginWaves(r) ==
  /\ phase[r] = "admit"
  /\ \A h \in Hosts : admission[h] \in Reasons
  /\ phase' = [phase EXCEPT ![r] = "waves"]
  /\ pc' = [pc EXCEPT ![r] = Threads(1)]
  /\ UNCHANGED <<wave, step, seen, got, journal, machine, window, effects>>
------------------------------------------------------------------------------
(* One thread: run r drives host h.                                        *)

At(r, h, l) == phase[r] = "waves" /\ pc[r][h] = l
Go(r, h, l) == pc' = [pc EXCEPT ![r][h] = l]
GoTo(r, h, l, s) == Go(r, h, l) /\ step' = [step EXCEPT ![r][h] = s]

\* A thread fails: a refused check, a backup or maintenance gate, a lost
\* transport, an exhausted poll budget.  The rest of the wave goes on.
Fail(r, h) ==
  /\ phase[r] = "waves"
  /\ pc[r][h] \notin {"wait", "ok", "err"}
  /\ Go(r, h, "err")
  /\ UNCHANGED <<phase, wave, step, seen, got, journal, machine, window, effects>>

\* retain_update_reboot_observation.py: either still the prepared original
\* boot, or a changed boot of the target that a native request explains.
Continuity(h) ==
  \/ native[h] = "prepared" /\ boot[h] = 0 /\ h \notin target
  \/ native[h] # "stopped" /\ boot[h] > 0 /\ h \in target /\ h \in requested

Observable(h) ==
  /\ admission[h] \in {"eligible", "already_requested"}
  /\ Continuity(h)

Observe(r, h) ==
  /\ At(r, h, "observe")
  /\ Observable(h)
  /\ GoTo(r, h, IF h \in requested THEN "poll" ELSE "read", Submit)
  /\ UNCHANGED <<phase, wave, seen, got, journal, machine, window, effects>>

\* `admit`, around the backup and maintenance gates of the submission branch.
Admissible(s) == s = Submit => window = "open"

NextLocation(s) == IF s = LastStep THEN "evidence" ELSE "read"
NextStep(s) == IF s = LastStep THEN s ELSE s + 1

\* Mutant: a read-only step leaves an intent behind as well.
ReadPendingWithIntent(r, h) ==
  LET s == step[r][h] IN
  /\ At(r, h, "read")
  /\ s \notin intent[h]
  /\ s \in Recorded => done[h][s].file = "absent"
  /\ Admissible(s)
  /\ Go(r, h, IF s \in Mutations THEN "begin" ELSE "act")
  /\ intent' = IF s \in Mutations THEN intent ELSE [intent EXCEPT ![h] = @ \cup {s}]
  /\ UNCHANGED <<phase, wave, step, seen, got, admission, done, reported,
                 machine, window, effects>>

\* The step has neither result nor intent: go on to its intent, or straight to
\* its effect when it is read-only.
ReadPending(r, h) ==
  LET s == step[r][h] IN
  /\ At(r, h, "read")
  /\ s \notin intent[h]
  /\ s \in Recorded => done[h][s].file = "absent"
  /\ Admissible(s)
  /\ Go(r, h, IF s \in Mutations THEN "begin" ELSE "act")
  /\ UNCHANGED <<phase, wave, step, seen, got, journal, machine, window, effects>>

\* An intent without a result: what happened is ambiguous, and never replayed.
ReadAmbiguous(r, h) ==
  LET s == step[r][h] IN
  /\ At(r, h, "read")
  /\ s \in intent[h]
  /\ s \in Recorded => done[h][s].file # "whole"
  /\ Go(r, h, "err")
  /\ UNCHANGED <<phase, wave, step, seen, got, journal, machine, window, effects>>

\* The step has a whole result: reuse it.
ReadComplete(r, h) ==
  LET s == step[r][h] IN
  /\ At(r, h, "read")
  /\ s \in Recorded
  /\ done[h][s].file = "whole"
  /\ GoTo(r, h, NextLocation(s), NextStep(s))
  /\ UNCHANGED <<phase, wave, seen, got, journal, machine, window, effects>>

\* Mutant: the intent file is opened without O_EXCL.
BeginNotExclusive(r, h) ==
  /\ At(r, h, "begin")
  /\ window = "open"
  /\ intent' = [intent EXCEPT ![h] = @ \cup {step[r][h]}]
  /\ Go(r, h, "act")
  /\ UNCHANGED <<phase, wave, step, seen, got, admission, done, reported,
                 machine, window, effects>>

\* The durable intent: created O_EXCL inside the window, before the effect.
Begin(r, h) ==
  LET s == step[r][h] IN
  /\ At(r, h, "begin")
  /\ window = "open"
  /\ s \notin intent[h]
  /\ intent' = [intent EXCEPT ![h] = @ \cup {s}]
  /\ Go(r, h, "act")
  /\ UNCHANGED <<phase, wave, step, seen, got, admission, done, reported,
                 machine, window, effects>>

Issue(h, s) == effects' = [effects EXCEPT ![h][s] = @ + 1]

\* `nest reset reboot --execute`, its reply ignored.
SubmitReboot(r, h) ==
  /\ At(r, h, "act")
  /\ step[r][h] = Submit
  /\ Issue(h, Submit)
  /\ inflight' = inflight \cup {h}
  /\ Go(r, h, "poll")
  /\ UNCHANGED <<phase, wave, step, seen, got, journal, native, requested,
                 accepted, boot, target, window>>

\* One of the bounded observations sees the changed target boot.
Poll(r, h) ==
  /\ At(r, h, "poll")
  /\ Observable(h)
  /\ boot[h] > 0
  /\ Go(r, h, "accepting")
  /\ UNCHANGED <<phase, wave, step, seen, got, journal, machine, window, effects>>

\* boot_expectations(): the status read that acceptance is bound to.
TargetBooted(h) ==
  native[h] # "stopped" /\ boot[h] > 0 /\ h \in target /\ h \in requested

StartAcceptance(r, h) ==
  /\ At(r, h, "accepting")
  /\ TargetBooted(h)
  /\ seen' = [seen EXCEPT ![r][h] = boot[h]]
  /\ GoTo(r, h, "read", Catalog)
  /\ UNCHANGED <<phase, wave, got, journal, machine, window, effects>>

Result(h, good) == [file |-> "whole", boot |-> boot[h], ok |-> good]

\* Main apply and converged repeat, refused on any other boot than `seen`.
ApplyCatalog(r, h) ==
  /\ At(r, h, "act")
  /\ step[r][h] = Catalog
  /\ boot[h] = seen[r][h]
  /\ Issue(h, Catalog)
  /\ \E good \in BOOLEAN : got' = [got EXCEPT ![r][h] = Result(h, good)]
  /\ Go(r, h, "save")
  /\ UNCHANGED <<phase, wave, step, seen, journal, machine, window>>

\* Health is read-only; only a boot of the target can be healthy.
CollectHealth(r, h) ==
  /\ At(r, h, "act")
  /\ step[r][h] = Health
  /\ \E good \in BOOLEAN :
       /\ good => h \in target
       /\ got' = [got EXCEPT ![r][h] = Result(h, good)]
  /\ Go(r, h, "save")
  /\ UNCHANGED <<phase, wave, step, seen, journal, machine, window, effects>>

\* The canary command.  The status read after it binds its exit to the boot;
\* off the target boot the command has run and its receipt is refused.
RunCanary(r, h) ==
  LET s == step[r][h] IN
  /\ At(r, h, "act")
  /\ s > Health
  /\ Issue(h, s)
  /\ \/ /\ TargetBooted(h)
        /\ \E good \in BOOLEAN : got' = [got EXCEPT ![r][h] = Result(h, good)]
        /\ Go(r, h, "save")
     \/ ~ TargetBooted(h) /\ Go(r, h, "err") /\ UNCHANGED got
  /\ UNCHANGED <<phase, wave, step, seen, journal, machine, window>>

\* `complete`: the result file is created O_EXCL, and a catalog that failed
\* stops the thread only after its failure is retained.
Save(r, h) ==
  LET s == step[r][h] IN
  /\ At(r, h, "save")
  /\ done[h][s].file = "absent"
  /\ done' = [done EXCEPT ![h][s] = got[r][h]]
  /\ IF s = Catalog /\ ~ got[r][h].ok
       THEN Go(r, h, "err") /\ UNCHANGED step
       ELSE GoTo(r, h, NextLocation(s), NextStep(s))
  /\ got' = [got EXCEPT ![r][h] = Absent]
  /\ UNCHANGED <<phase, wave, seen, admission, intent, reported, machine, window, effects>>

\* `complete` dies between creating the result file and writing it.
TornSave(r, h) ==
  LET s == step[r][h] IN
  /\ At(r, h, "save")
  /\ done[h][s].file = "absent"
  /\ done' = [done EXCEPT ![h][s] = Torn]
  /\ Go(r, h, "err")
  /\ UNCHANGED <<phase, wave, step, seen, got, admission, intent, reported,
                 machine, window, effects>>

\* Mutant: results of different boots are gathered together.
GatheredAnyBoot(h) ==
  \A s \in Recorded : done[h][s].file = "whole" /\ done[h][s].ok

\* evidence(): every retained result is whole, passed, and of the live boot.
Gathered(h) ==
  \A s \in Recorded : done[h][s] = [file |-> "whole", boot |-> boot[h], ok |-> TRUE]

Evidence(r, h) ==
  /\ At(r, h, "evidence")
  /\ TargetBooted(h)
  /\ Gathered(h)
  /\ seen' = [seen EXCEPT ![r][h] = boot[h]]
  /\ Go(r, h, "attest")
  /\ UNCHANGED <<phase, wave, step, got, journal, machine, window, effects>>

\* Native acceptance under the host's own lock: the evidence must name the
\* live boot; the same evidence again is idempotent.
Attest(r, h) ==
  /\ At(r, h, "attest")
  /\ boot[h] = seen[r][h] /\ h \in target
  /\ \/ /\ native[h] = "prepared"
        /\ native' = [native EXCEPT ![h] = "accepted"]
        /\ accepted' = [accepted EXCEPT ![h] = boot[h]]
     \/ /\ native[h] \in {"accepted", "finalized"}
        /\ accepted[h] = seen[r][h]
        /\ UNCHANGED <<native, accepted>>
  /\ Go(r, h, "admitFinal")
  /\ UNCHANGED <<phase, wave, step, seen, got, journal, requested, boot,
                 target, inflight, window, effects>>

\* Finalization starts from a live status: the accepted boot is the one up.
AdmitFinalization(r, h) ==
  /\ At(r, h, "admitFinal")
  /\ native[h] \in {"accepted", "finalized"}
  /\ boot[h] = accepted[h] /\ h \in target
  /\ Go(r, h, "finalize")
  /\ UNCHANGED <<phase, wave, step, seen, got, journal, machine, window, effects>>

Finalize(r, h) ==
  /\ At(r, h, "finalize")
  /\ native[h] \in {"accepted", "finalized"}
  /\ native' = [native EXCEPT ![h] = "finalized"]
  /\ Go(r, h, "ok")
  /\ UNCHANGED <<phase, wave, step, seen, got, journal, requested, accepted,
                 boot, target, inflight, window, effects>>

Thread(r, h) ==
  \/ Observe(r, h) \/ ReadPending(r, h) \/ ReadAmbiguous(r, h)
  \/ ReadComplete(r, h) \/ Begin(r, h)
  \/ SubmitReboot(r, h) \/ Poll(r, h) \/ StartAcceptance(r, h)
  \/ ApplyCatalog(r, h) \/ CollectHealth(r, h) \/ RunCanary(r, h)
  \/ Save(r, h) \/ Evidence(r, h) \/ Attest(r, h)
  \/ AdmitFinalization(r, h) \/ Finalize(r, h)
------------------------------------------------------------------------------
(* The barrier between waves.                                              *)

InWave(r) == {h \in Hosts : Wave[h] = wave[r]}

Advance(r) ==
  /\ wave' = [wave EXCEPT ![r] = @ + 1]
  /\ pc' = [pc EXCEPT ![r] = Threads(wave[r] + 1)]
  /\ step' = [step EXCEPT ![r] = [h \in Hosts |-> Submit]]
  /\ seen' = [seen EXCEPT ![r] = [h \in Hosts |-> 0]]
  /\ got' = [got EXCEPT ![r] = [h \in Hosts |-> Absent]]
  /\ UNCHANGED <<phase, journal, machine, window, effects>>

\* Mutant: a wave with failures is no barrier.
NextWaveDespiteErrors(r) ==
  /\ phase[r] = "waves"
  /\ \A h \in InWave(r) : pc[r][h] \in {"ok", "err"}
  /\ wave[r] < Waves
  /\ Advance(r)

\* Mutant: there is always a next wave.
NextWavePastLast(r) ==
  /\ phase[r] = "waves"
  /\ \A h \in InWave(r) : pc[r][h] = "ok"
  /\ Advance(r)

NextWave(r) ==
  /\ phase[r] = "waves"
  /\ \A h \in InWave(r) : pc[r][h] = "ok"
  /\ wave[r] < Waves
  /\ Advance(r)

\* Mutant: the result is retained whatever became of the last wave.
ReportDespiteErrors(r) ==
  /\ phase[r] = "waves"
  /\ \A h \in InWave(r) : pc[r][h] \in {"ok", "err"}
  /\ wave[r] = Waves
  /\ reported' = TRUE
  /\ EndRun(r, "idle")
  /\ UNCHANGED <<admission, intent, done, machine, window, effects>>

\* Every wave is through: the lifecycle result is retained.
Report(r) ==
  /\ phase[r] = "waves"
  /\ \A h \in InWave(r) : pc[r][h] = "ok"
  /\ wave[r] = Waves
  /\ reported' = TRUE
  /\ EndRun(r, "idle")
  /\ UNCHANGED <<admission, intent, done, machine, window, effects>>

\* parallelize() has every outcome and one of them is an Error.
StopWave(r) ==
  /\ phase[r] = "waves"
  /\ \A h \in InWave(r) : pc[r][h] \in {"ok", "err"}
  /\ \E h \in InWave(r) : pc[r][h] = "err"
  /\ EndRun(r, "idle")
  /\ UNCHANGED <<journal, machine, window, effects>>
------------------------------------------------------------------------------
(* External: the native command, the hosts and the clock.                  *)

\* The reboot command arrives, perhaps long after its sender gave up or died.
\* Under its own lock it records the request once and refuses any other case.
HandleReboot(h) ==
  /\ h \in inflight
  /\ inflight' = inflight \ {h}
  /\ requested' = IF native[h] = "prepared" /\ boot[h] = 0
                    THEN requested \cup {h} ELSE requested
  /\ UNCHANGED <<control, journal, native, accepted, boot, target, window, effects>>

\* The host boots its next_boot, the target: because it was asked to, or by
\* itself (a power cut, a panic).
Reboot(h) ==
  /\ boot[h] < MaxBoots
  /\ native[h] # "stopped"
  /\ boot' = [boot EXCEPT ![h] = @ + 1]
  /\ target' = target \cup {h}
  /\ UNCHANGED <<control, journal, native, requested, accepted, inflight, window, effects>>

\* Manual recovery: an operator boots the previous environment.
Rollback(h) ==
  /\ boot[h] < MaxBoots
  /\ boot' = [boot EXCEPT ![h] = @ + 1]
  /\ target' = target \ {h}
  /\ UNCHANGED <<control, journal, native, requested, accepted, inflight, window, effects>>

Clock ==
  /\ \/ window = "early" /\ window' = "open"
     \/ window = "open" /\ window' = "closed"
  /\ UNCHANGED <<control, journal, machine, effects>>

World == Clock \/ \E h \in Hosts : HandleReboot(h) \/ Reboot(h) \/ Rollback(h)

Drive(r) ==
  \/ StartRun(r) \/ Crash(r) \/ BeginWaves(r) \/ NextWave(r)
  \/ Report(r) \/ StopWave(r)
  \/ \E h \in Hosts : AdmitHost(r, h) \/ TornAdmission(r, h)
                        \/ Thread(r, h) \/ TornSave(r, h) \/ Fail(r, h)

Next == World \/ \E r \in Runs : Drive(r)

Spec == Init /\ [][Next]_vars
------------------------------------------------------------------------------
(***************************************************************************)
(* A healthy update: preparation succeeded everywhere, the window opens    *)
(* and stays open, checks pass and hosts reboot when asked.  The only      *)
(* fault left is the controller dying outside an open mutation, as often   *)
(* as it likes; an operator starts the plan again.  Every call of the plan *)
(* has a finite timeout, so a step that can be taken is taken.             *)
(***************************************************************************)
MutationOpen(r, h) ==
  phase[r] = "waves" /\ pc[r][h] \in {"act", "save"} /\ step[r][h] \in Mutations

HealthyThread(r, h) ==
  /\ Thread(r, h)
  /\ At(r, h, "act") /\ step[r][h] # Submit => got'[r][h].ok

HealthyDrive(r) ==
  \/ StartRun(r) \/ BeginWaves(r) \/ NextWave(r)
  \/ Report(r) \/ StopWave(r)
  \/ \E h \in Hosts : AdmitHost(r, h) \/ HealthyThread(r, h)

HealthyCrash(r) == Crash(r) /\ \A h \in Hosts : ~ MutationOpen(r, h)

HealthyWorld ==
  \/ window = "early" /\ Clock
  \/ \E h \in Hosts :
       HandleReboot(h) \/ (h \in requested /\ boot[h] = 0 /\ Reboot(h))

HealthyInit == Init /\ native = [h \in Hosts |-> "prepared"]

HealthyNext == HealthyWorld \/ \E r \in Runs : HealthyDrive(r) \/ HealthyCrash(r)

HealthySpec ==
  /\ HealthyInit
  /\ [][HealthyNext]_vars
  /\ WF_vars(HealthyWorld)
  /\ \A r \in Runs : WF_vars(HealthyDrive(r))
------------------------------------------------------------------------------
(* Properties.                                                             *)

\* A host as RollingUpdate sees it.
Life(h) ==
  CASE native[h] = "finalized" -> "finalized"
    [] native[h] = "accepted" -> "accepted"
    [] native[h] \in {"stopped", "prepared"} ->
         IF effects[h][Submit] > 0 THEN "disrupted" ELSE "pending"

Promise == INSTANCE RollingUpdate WITH life <- [h \in Hosts |-> Life(h)]

\* The lifecycle implements the rolling update: it disrupts a host only past
\* the barrier, whatever runs overlap, crash or resume.
RefinesRollingUpdate == Promise!Spec

\* No reboot submission, catalog apply or canary command is ever issued twice
\* for a host: not by a resumed run, an overlapping run, or after a lost reply
\* (update_lifecycle.pp: "never resubmit"; update_acceptance.pp: "never replay
\* automatically").
MutationsAtMostOnce ==
  \A h \in Hosts, m \in Mutations : effects[h][m] <= 1

\* The first reboot of any host comes after every host has been admitted, so a
\* preparation that stopped anywhere stops them all (update_lifecycle.pp: "ALL
\* hosts must have complete native preparation before the first reboot").
EveryHostAdmittedFirst ==
  \A h \in Hosts : effects[h][Submit] > 0 =>
    \A g \in Hosts : admission[g] \in Reasons /\ native[g] # "stopped"

\* Two hosts that share a failure domain, or a control-plane member and anyone,
\* are never both between their reboot and their finalization.
ConflictingHostsNeverOutTogether == Promise!ConflictingHostsNeverOutTogether

\* Native acceptance rests on catalog, health and canary results that are all
\* retained, all passed and all observed on the one boot it names, although
\* different runs may have collected them around reboots of the host.
AcceptedOnOneBoot ==
  \A h \in Hosts : native[h] \in {"accepted", "finalized"} =>
    \A s \in Recorded :
      done[h][s] = [file |-> "whole", boot |-> accepted[h], ok |-> TRUE]

\* The retained lifecycle result means what it says: every host of every wave
\* is finalized.
ReportMeansFinalized ==
  reported => \A h \in Hosts : native[h] = "finalized"

\* Once the controller stops crashing, a resumed run finishes a healthy update:
\* no crash between two steps leaves a journal that stops every later run
\* (update_lifecycle.pp: "resume observation only").
ResumedUpdateFinishes ==
  <>[][\A r \in Runs : ~ HealthyCrash(r)]_vars
    => <>[](\A h \in Hosts : native[h] = "finalized")

\* docs/nest-update-lifecycle.md: "A lost observation can be collected again
\* without owner intervention or a new transaction": a read-only step without
\* a whole result has no result file in the way.
LostObservationsCollectable ==
  \A h \in Hosts :
    /\ admission[h] \notin Reasons => admission[h] = "none"
    /\ done[h][Health].file # "whole" => done[h][Health].file = "absent"
==============================================================================
