# Verification of nest-config

nest-config configures, builds, updates and backs up a fleet of personal machines ("nests"): Puppet manifests and data say what a
host is, Bolt plans and Python or Ruby tasks move the fleet from one image to the next, and a set of helper programs keeps backups,
promotes releases, delivers a TEST service, serves the agents and drives one shared Firefox. The declarative part is decided by
Puppet. The rest is small programs that keep a **journal on disk**, act on **something outside themselves** (a host, a registry, a
Kubernetes API, a browser, GitLab, Gmail), may be **killed between any two steps**, and are **started again** by a timer or an
operator, often beside a copy of themselves that is believed dead. What has to be right is almost always the same: an effect is
journaled before it is tried and never tried again when its outcome is unknown; what is recorded as done was done, to this object and
not to the one that replaced it; what is read in several requests is accepted only if it was true at once; and nothing that is still
needed is deleted, reopened or overwritten on the way.

The modules here model those programs. Each is translated from the source it names; what lies outside `src/` (the native
`nest reset` command, ZFS, git, a registry, the Kubernetes API, GitLab, Gmail, Firefox) is modelled from how `src/` uses it and marked
external in `PROJECT.json`.

## How to read the project

- A component is a module of its own (`HostLifecycle`, `GenerationTransfer`, ...): its state, one action per operation, its properties.
- `MC*.tla` and their `.cfg` instantiate it for TLC. Five of them are **suites**: `MCOperations`, `MCHermes`, `MCReleases`, `MCServices` and `MCFirefox` put
  several components that share no state into one run. A variable `part`, chosen in the first state and never changed, says which
  component moves; the others rest in one initial state. The properties of a suite therefore are those of its parts. Deadlock is not checked in a suite, because every
  part has bounded operations and may use them up.
- `*_proofs.tla` hold the theorems, for every value of the constants, and their inductive invariants. A type invariant that is proved is
  not repeated in a run, but for those of two suites, `TypesOK` of `MCOperations` and of `MCReleases`.
- `PROJECT.json` lists components, runs, a mutant of the model per property, the source lines of every definition, the hazards with the
  properties that would catch them, the findings and the theorems.

## Inventory

| Component | State it keeps | Operations | Modelled by |
|---|---|---|---|
| Host update lifecycle (`plans/host/update_lifecycle.pp`, `update_acceptance.pp`, `update_finalize.pp`; `tasks/update_lifecycle.py` and the retain and accept tasks) | supervisor journal; native reset transaction on each host | admit, reboot, observe, apply, collect, run canaries, accept, finalize, report | `RollingUpdate`, `HostLifecycle` |
| Host update dispatch (`tasks/update_dispatch.py`, `retain_update_report.py`) | parameters, one transient unit, papers of two directories | start, resume, export, receive | `UpdateDispatch` |
| Host update preparation (`plans/host/update.pp`, `tasks/update_wave_plan.py`, the retain tasks) | policies, wave plan, findings, reports, scope index | bind, gates of all hosts, reset by waves, retain | `UpdatePreparation` |
| Host health (`plans/host/update_health.pp` and its four tasks) | none but what is retained | bracketed reads of units, storage, network, users | `HealthObservation` |
| Host catalog evidence (`tasks/update_catalog_apply.rb`, `update_catalog_report.rb`, `retain_update_catalog.py`) | native reports, the retained verdict | run, repeat, bind, retain | `CatalogEvidence` |
| Hermes full-home backups (`files/hermes-backup-generation`) | archives, receipts, holds, lock of one directory | backup, prune, hold, release-hold, legacy-cleanup | `HermesBackups` |
| Hermes order ledger (`files/app/hermes/secure_browser_legacy_support.py`) | rows of an SQLite table | upsert, close, preview, mark, plan, refresh | `OrderLedger` |
| Hermes mail (`files/app/hermes/google_workspace_tool.py`) | ledger of idempotency keys | compose, reserve, send, record | `GmailSend` |
| Hermes source checkout (`files/app/hermes/hermes-source-sync.py`) | a git checkout under overlays, a journal | sync to a ref or commit, roll back | `SourceSync` |
| Hermes release digest (`files/app/hermes/release_digest.py`) | state file of what was told | watch, decide, tell, save | `ReleaseDigest` |
| PatternKit workbench bridge (`files/app/patternkit/workbench_bridge.py`) | the shared tab, operations under way | share, control, input | `Workbench` |
| PatternKit sign-in proxy (`files/app/patternkit/oauth_proxy.py`) | pending logins, sessions | login, callback, forward, logout | `SignIn` |
| Honcho embedding migration (`files/kubernetes/honcho-local-embedding-migration.py`) | rows and vectors in PostgreSQL | reset, documents, messages, indexes, verify | `EmbeddingMigration` |
| Joyride TEST delivery (`files/app/joyride/test_delivery_controller.py`) | journal ConfigMap, Deployment, delivery queue | one CronJob run: resume or pick, claim, patch, watch, report, clear | `TestDelivery` |
| Release graph (`scripts/nest-release-graph.py`, `-discover`, `-bind`, `-inputs`, `-route`, `-assemble`, `-envelope`) | GitLab jobs, artifacts, reservations | freeze, trigger, build, accept | `ReleaseGraph` |
| Release manifest (`scripts/nest-release-manifest.py`) | documents, retained manifests | expect, validate, retain, bind a wave | `ReleaseManifest` |
| Executor bootstrap (`scripts/nest-executor-bootstrap.py`, `nest-executor-accept.py`) | what was read, receipts | compile a route, acquire, accept a successor | `ExecutorBootstrap` |
| Private host identities (`files/build/check-stage3-paths.py`) | a generation of identities, references to it | capture, publish, verify, install | `StageThreeIdentity` |
| Stage 3 roots (`files/build/*-stage3-root.py`) | ZFS datasets, archive, intents, receipts | place, export, receive, materialize, publish, finish | `StageThreeRoot` |
| Root generation transfer (`files/cli/transfer-generation.py`) | one dataset, reservation, receipt, lock | copy, compare, seal, receipt, verify | `GenerationTransfer` |
| Release alias promotion (`scripts/nest-release-promote.py`) | pointer file, retained plans, registry aliases | promote, roll back | `ReleasePromotion` |
| Hermes photos (`files/app/hermes/google_photos_tool.py`) | files and manifest of a batch | download a selection | `GooglePhotos` |
| Media backup (`tasks/media_backup.py`) | snapshots, archives | snapshot, stage, publish, expire | `MediaBackup` |
| Firefox request windows (`files/firefox-browser/firefox_windows.py`, its observer and server) | `windows.json`, one native session | acquire, input, terminal close, three recoveries | `FirefoxWindows` |
| Firefox accessibility bridge (`files/firefox-browser/firefox-ui-bridge.py`) | bindings, action keys, leases | acquire, input, navigate, release, recover | `UiBridge` |
| Kubernetes control plane; registry backups | lock ConfigMap; staging, generations, `current` | reconcile; backup, retire, restore | planned |
| CI builds; executor inputs; image builds; GitLab and OpenVox backups; session broker and egress proxy; artifact imports; host daemons | see `PROJECT.json` | one process each | not modelled |
| Puppet manifests and data | none of their own | declarative | not modelled |

How they interact: preparation binds inputs, plans the waves and makes every host's native transaction; dispatch starts the lifecycle
on a surviving controller and delivers its papers; the lifecycle takes the transactions over by the shared journal (its constants `Hosts`, `Wave` and `Conflicts` and the initial `native`), and takes the health and catalog
evidence as the results of its steps. A release is built as a graph, its Stage 3 members become sealed roots with private identities,
its manifest names them, and a root reaches a host as a transferred generation, whose seal preparation checks. A released image
reaches hosts through the aliases that promotion moves. Host data is retained by the backup generations, which an update's acceptance
holds. Firefox windows, the bridge, the workbench, mail, orders and digests serve the agents and share nothing with the update path.
Where one module relies on another it is through the constants and initial states named here; no two modelled components write
the same variable of the other.

What is hard in each, and makes it correct:

- **Lifecycle**: runs overlap, crash and lose replies; a reboot is a command whose answer may never come. Correct: no mutation
  twice, all hosts admitted before the first reboot, hosts of conflicting failure domains never out together, acceptance on one boot.
- **Preparation**: what was found may stop being so. Correct: all gates before the first reset; what is damaged fits into one wave.
- **Health, catalog, release graph, executor, identity**: many reads of something that moves. Correct: what is accepted was so at one instant.
- **Backups**: a cron and an operator share a directory, and each file operation may be the last. Correct: a held generation
  survives, a receipt describes the archive it stands beside, a usable generation remains, damage stops deletion.
- **Transfer, Stage 3 roots**: a copy of hours, then properties set one by one. Correct: a receipt means a sealed, equal copy, made once.
- **Promotion**: a registry without compare-and-swap, copies that stop half-way. Correct: the pointer says what the aliases serve,
  and a partial copy remains describable from what was retained.
- **TEST delivery, mail**: requests whose replies are lost take effect late. Correct: an outcome is true, and an operation is done once.
- **Dispatch, photos, media**: calls that overlap or die between a check and its use. Correct: what runs is what was asked for, what was
  delivered stays, every archive is of one instant.
- **Orders, digest**: reads and writes of overlapping processes. Correct: what is suppressed was told; what is closed says when.
- **Source checkout, migration**: a kill inside an external command. Correct: whole, or wholly undone.
- **Workbench, sign-in**: parallel requests of several actors. Correct: a confirmation names its own change, a session its own person.
- **Firefox windows and bridge**: windows and tabs cannot be named before they exist; sessions, controllers and saves fail at any point.
  Correct: no second window and no second input, no stranger's window adopted, doubt removed only by what was observed.

The full list of hazards, with the line where each bites and the properties that catch it, is `hazards` in `PROJECT.json`.

## The runs

| Run | Module | Instance | Shows |
|---|---|---|---|
| `lifecycle_waves` | `MCHostLifecycle` | a canary wave, then two parallel hosts; one run, restarted at will; any update, or a healthy one | barrier, truthful report, conflicting hosts, **refinement of `RollingUpdate`**, liveness: a resumed healthy update finishes |
| `operations` | `MCOperations` | six parts: overlapping lifecycles, health, catalog, migration, sign-in, digest | `MutationsAtMostOnce`, `AcceptedOnOneBoot`, `RecordedWasTrue`, `MigrationIsWhole`, `SignedInAsThemselves` |
| `hermes` | `MCHermes` | five parts: backups, orders, mail, workbench, sources | the four properties of the backups, `LedgerIsTrue`, `OneMessagePerKey`, `ConfirmedIsApplied`, `SyncIsWhole` |
| `releases` | `MCReleases` | seven parts: builds, roots, promotion, preparation, transfer, identities, manifest | `AcceptedIsOneGraph`, `ReferenceIsOneIdentity`, `ManifestIsTheRelease`, `CompleteIsWhole`, `CopiedOnce`, `ResetsAreGated`, `PartialCopiesDescribed`, `PointerFollowsAliases` |
| `services` | `MCServices` | four parts: dispatch, photos, media, bootstrap | `DispatchIsFaithful`, `DownloadsStay`, `ArchivesAreKept`, `AcceptedAsRecorded` |
| `delivery` | `MCTestDelivery` | a promotion and a rollback, one late write, one rollout of the platform | true outcomes, one patch, every delivery closes |
| `firefox` | `MCFirefox` | two parts: windows, bridge | `NothingTwice`, `WindowsAreAccounted`, `KeyedInputOnce`, `TabsAreAccounted`, `DoubtRemovedByRecovery` |
| `lifecycle_torn`, `promotion_reconcile`, `firefox_terminal`, `firefox_lost`, `dispatch_resume` | as above, and `MCUpdateDispatch` | the smallest that shows it | the findings, below |

Some properties are conjunctions of the properties of parts: `RecordedWasTrue` is `PassWasHealthyAtOnce` (health), `PassWasConverged`
(catalog) and `SilenceWasTold` (digest); `ResetsAreGated` is `GatesPrecedeResets` and `DamageIsContained`;
`DispatchIsFaithful` is `DispatchedAsAsked`, `ResumeChecksHold` and `DeliveryIsClosed`; `ArchivesAreKept` is `ArchivesAreOfOneInstant`
and `TwoNewerFirst`; `AcceptedAsRecorded` is `RecordedAtOnce` and `AcceptedAsBuilt`; `CompleteIsWhole` and `CopiedOnce` speak of the transfer and
of the Stage 3 root; `LedgerIsTrue` is `ClosingIsRecorded` and `SuppressedWasAnnounced`.

## The update path

### Host update lifecycle

`RollingUpdate` is what a lifecycle execution promises and nothing else: a host is pending, disrupted, accepted, finalized, and may
be disrupted only when every earlier wave is finalized. `HostLifecycle` is the code. A **run** is one execution of the plan;
`phase`, `wave`, `pc`, `step`, `seen` and `got` are its memory and vanish in `Crash`. `parallelize()` gives each host of the wave a
thread, `pc[r][h]`. A **step** is a number: `Submit`, `Catalog`, `Health`, then the canaries in policy order; all but `Health` are
mutations and have an intent file. `admission`, `intent`, `done` and `reported` are the journal, `native`, `requested`, `accepted`,
`boot`, `target` and `inflight` the hosts.

| Action | Code |
|---|---|
| `AdmitHost`, `TornAdmission`, `BeginWaves` | admission of all hosts before the first wave |
| `Observe` | `observe_update_reboot` with its continuity rules |
| `ReadPending`, `ReadAmbiguous`, `ReadComplete` | the journal's `read` of a step: absent, intent only, result |
| `Begin`, then `SubmitReboot`, `ApplyCatalog`, `RunCanary` | the intent, created exclusively, and then the effect |
| `CollectHealth`, `Save`, `TornSave` | results, created exclusively and then written |
| `Poll`, `StartAcceptance`, `Evidence`, `Attest`, `AdmitFinalization`, `Finalize` | boot observation, evidence, native acceptance, finalization |
| `NextWave`, `StopWave`, `Report`, `Fail`, `Crash` | the end of a wave, gates that refuse, the end of a run |
| `HandleReboot`, `Reboot`, `Rollback`, `Clock` | external: the host and the disruption window |

Abstractions. The admission's read and save are one step (the loser of its O_EXCL race only stops). Canary, maintenance and backup
gates have no state of their own: `Fail`. So has the poll budget. Native success and failure of the reboot command are one outcome,
because the plan treats both as "submitted". A host that rebooted by itself is not "out": the promise is about the lifecycle's
disruptions. Preview mode changes nothing that is modelled. The live re-read after native acceptance is part of `Attest`.

Things the model makes visible and that are **not** defects by the code's own account: a health result that was retained as failed is
never collected again; an accepted host that reboots before its finalization cannot be finalized by this plan; an admission retained
as "already booted" makes every later observation refuse. All three stop the wave for an operator.

Three hosts are the least with both a barrier and a parallel wave (`lifecycle_waves`); in `operations`, two runs are enough because a
conflict over a journal entry is between two, and two boots let a host be on another boot at collection, at evidence and at acceptance.

`lifecycle_waves` checks two kinds of behaviours, chosen at the start (`kind`): any update, and the healthy ones, of which
`HealthyUpdatesFinish` is the liveness. Fairness is of the healthy ones only: weak fairness of `HealthyDrive(r)` says that a call of the plan returns, since every one
of them has a finite timeout, and that an operator starts a stopped plan again; weak fairness of `HealthyWorld` that a host handles the
reboot it was sent and comes up. Crashes may happen as often as they like outside an open mutation, and the property is about runs in
which they stop. Inside an open mutation a crash leaves an ambiguous step by design, and liveness is not promised there.

### Update preparation

One execution of `plans/host/update.pp` in preparation or observation mode, over `policy`, `targets` and `window`. `Bind` admits the
policy and computes `waves` with `WavesOf`: the greedy planner of `update_wave_plan.py` puts each host, in order, into the first wave
it fits, so that `Slots` chooses the one assignment in which every host has the least slot its predecessors leave it. `Gate` is a preflight
check of the next host in order, `StartWaves` the point after which hosts are told to reset; `Enter`, `Recheck`, `Admit`, `Command`,
`Retain` are a host of the current wave (`thread`), `WaveEnds` and `RetainScope` the barrier and the index. `Spoil` lets a finding stop
being so at any moment, `WindowMoves` closes the window, `ResetEnds` answers for the native command, also after the plan died (`Die`).
Retained documents are abstracted to `receipts`, whether a finding was retained. 54 policies (all assignments of two failure domains to
three hosts, with and without a limit; a canary, a controller, a host with a held backup), all selections, and one spoiled finding.

`GatesPrecedeResets` says that whoever is told to reset, all hosts had passed the preflight, and it itself its second gates after the
earlier waves were prepared. `DamageIsContained` says what the wave plan is for: whatever fails, the hosts that were told to reset and
are not known prepared fit into one wave.

### Health

A task is a program: `reads` is the list of commands it has yet to issue on a `host` that goes on living (`Break`, `StartManager`,
`StopManager`, `HostReboots`). `BootReads`, `ManagerReads` and `NetworkReads` are the programs, `FirstRead` and `SecondRead` one command
each, the second comparing with what the first saw; `ReportTask`, `GiveUp`, `Error` end a task, `Decide` and `Retain` judge the four
reports again. `sound` is history: the boots on which, at one instant after every manager had been read once, everything was right.
Assumed: nobody repairs a gate, or clears a failed unit other than by ending its manager or rebooting, while a collection lasts. A
command that fails for a moment is an event. Without that assumption no collection of successive reads could say more than that each
thing was right at its own time. Two users, two events: a failure and a reboot, or two failures on either side of a bracket.

### Catalog evidence

`Invoke` and `Complete` are a run of the agent and the repeated run, `BindReport` binds the native report of each, `After` decides about
the repeat, `RetainCatalog` judges again. The server serves another version (`Deploy`, `RollBack`), others run the agent under the same
lock (`OtherRuns`, `OtherEnds`), the host drifts (`Drift`). A run checks and changes the host in one step, its end; a reboot
ends the task and nothing is retained. `PassWasConverged`: a retained pass says that the host was in the version of the release when the
repeat ended. Three versions and three acts of others. What a report looks like, and the binding to the release manifest, which
compares one retained document with another, are abstracted.

### Root generation transfer

`Examine`, `Lock`, `Admit`, `Reserve`, `Copy`, `CopyRest`, `CheckCopy`, `Publish` (five properties, one by one), `CheckSeal`, `Record` are
`transfer`, `Verify` is `--verify`, `Die` a kill anywhere, `Changes` other writers: the exported source is replaced, the writable
destination written to, the dataset destroyed and made anew (`dataset` FALSE). `content` says what the destination holds relative to the
policy. Paths, host identity and room are abstracted to whether the dataset is still the same one and a refusal. Two transfers, two
writes of others: one in each half of a copy, or one before and one after the comparison.

`CompleteIsWhole`: a completed receipt, or a `--verify` that said "sealed", means a sealed dataset with all its names and exactly the
content of the policy for as long as it exists. `CopiedOnce`: into one destination a copy is begun at most once.

### Stage 3 roots

Five commands that hand over to each other: `Provision` to `RecordPlacement` place a private staging dataset; `Export` to `Tally` pack a
build into an archive; `AdmitRoot` to `RecordMaterialized` assemble it from the build, or `Extract` from the archive, compare, seal;
`PublishRoot` to `Close` copy it to the published root; `Check` and `RecordRoot` finish. A job (`jobAt`, `task`, `saw`, `noted`) takes no
lock and repairs nothing; a refusal and a kill leave the same behind (`StopJob`). `Tamper` is everybody else: the container is started
or its volume written to, the archive replaced, an unsealed dataset written to, any dataset destroyed. A digest is the content itself,
and a dataset made anew has another identity. Two stagings, two processes, three jobs and acts of others together, at most one such act:
enough for two jobs over one staging, a dead job and its successor, and one job with a tampered build and a competitor.

### Release graph

`Compile` orders the submitted dependencies. A freezer, the acceptance and the envelope are **programs of reads** (`FreezerReads`,
`AcceptReads`, `EnvelopeReads`): discover the parents' lineages and edges, bind, read all again. One read of a node or an edge is one
step (`Read`), since each is a few requests about one immutable artifact of one job. In between jobs and bridges fail, are retried and
erased (`RetryFreezer`, `RetryBridge`, `RetryBuild`, `Erase`, `FreezerFails`). A result is the job it is of; schemas, digests and
executor receipts are fixed by it. `moment` is history: the current results at the read after which nothing new is noted.
`AcceptedIsOneGraph`: what is published or accepted is one graph: at one moment all of it was current, and every member was built from
exactly the accepted results of its parents. Two members, in a row or (refused) in a circle, with two retries; three, of which two are
merged, with one; two architectures. That the order handles a cycle is checked on the two-member circle.

### Update dispatch

One policy has one dispatch: `CreateParams` and `WriteParams` retain the parameters, `LaunchUnit` starts the transient unit that runs the
plan. A resume is `CompareParams`, `LookAtUnit`, `LookForResult`, `RestartUnit`: four looks at what others may change in between. The plan
retains papers and, last, its result (`PlanWorks`); an export visits what they cite (`FindResult`, `Visit`, `Exported`), and a receive
publishes it by link and unlink (`LinkPaper`, `UnlinkPaper`, `ReadBackPaper`, `Deliver`). `UnitEnds` is systemd, which keeps a failed
transient unit and forgets any other; `StopDispatch` a refusal or death anywhere. `DispatchIsFaithful`: there is one dispatch, and
whoever was told that his was requested asked for what the plan was given; what a resume saw still holds when it restarts, unless another
call began a run in between; a delivery names the result and all it cites, each of them in place. Two processes, two sets of
parameters, three papers of which the result cites the others, three calls.

That exception is real: `ActiveRunsUninterrupted`, the documentation's promise that a resume cannot interrupt an active run, does not
hold (`dispatch_resume`, under Findings). `MCUpdateDispatch` has this module alone, with one set of parameters and one paper.

### Executor bootstrap

Three programs of reads over GitLab's resources: `Compiling` a route, `Building` in the child, `Accepting` its successor. `Passes` says
what each reads in which order, `ReadResource` is one request, `EndPass` the end of a pass, `Retain` the receipt. `Move` retries, erases or
lists anew any resource at any time; a version never comes back. `noted` is history: the versions half way through the passes.
`AcceptedAsRecorded`: all that a receipt records was so at that instant, and what is accepted has not changed since the build acquired it.
Three changes: one in each of the three programs, or all in one.

### Identities, manifest, promotion

`StageThreeIdentity`: `Inventory`, `ReadMaterial`, `CaptureSource`, `CaptureCopy`, `CaptureReference` read the files of a host while they
are renewed one by one (`Renew`); `Reserve`, `Prepare`, `Mark`, `RecordIdentity` publish a reference; `Install` to `ReadInstalled` put it
into a build. `Meddle` is a person who writes into the generation, `Discard` one who removes an incomplete reservation (the documentation
tells them not to). A stamp stands for inode, size, mode and times, so every write changes it; an inventory is one step, since the
capture passes only if no file changed from its first listing to its second. `ReferenceIsOneIdentity`: whatever is returned or installed
under one reference is one identity, held by the source at one instant, its key fitting its certificate. Two publishers, one build, three
publisher runs and others' writes together (a write into the generation counts two); two publishers with two writes (352 000 states)
were explored separately. The installation into a disposable container, which nobody else sees, is the last step of a build.

`ReleaseManifest`: any combination of expected rows, outputs and policies, from different hands, with gaps and repetitions; `Freeze`,
`Validate`, `Retain` under the digest's name by validators that race and die while others write there, and the binding of a wave.
`ManifestIsTheRelease`: recorded are the expected members, each once; every host of a wave comes once and gets a dataset and an identity
no other gets; what is reported as retained is there unless others wrote to it.

`ReleasePromotion`: operators promote and roll back a set of aliases over one pointer file. `Start` takes the pointer's lock, `Admit`
reads all resources and retains the plan (one step, since each alias is compared again before its copy), `Compare`, `Copy`, `ReadBack` go
alias by alias, `Recheck` reads the whole set, `Publish` replaces the pointer; `Stop` is an error or a death anywhere, `ForeignWrite`
another writer of the registry. In `releases` two operators lead from the first of three releases that share images, with one foreign
write and at most four retained plans; `promotion_reconcile` starts from any release, without foreign writes. The pointer moves only to
what the aliases were just read to serve, and after any number of promotions, rollbacks and deaths every alias that our copies left names
an image that a retained plan describes. A copy that goes through after its timeout was given up, and two pointers over the same aliases,
are not modelled.

## The agents and their services

### Hermes backup generations

A **checkpoint** is one backup of the cluster; a **generation** is a directory entry for it: an archive and, last, its receipt. A
process is one invocation of the helper; it holds the directory's `flock` for the whole command, and `Stop` releases it at any step.
Archives are numbered by capture: the number stands for content, digest and modification time at once, so "a receipt describes its
archive" is an equation (equal modification times are left out).

`BeginBackup`, `PublishArchive`, `PublishReceipt`; `BeginPrune`, `PlanRemoval`, `RemoveArchive`, `RemoveReceipt`, `FinishPrune`;
`BeginHold`, `LinkHold`, `UnlinkTemporary`, `ReleaseHold`; `BeginLegacyCleanup`, `RemoveLegacy`, `FinishLegacyCleanup` are the
commands, one action per file operation that a kill can separate. `verify` and `check-hold` only read and are not actions. Waiting
for the lock is not taking a step, so the blocking and the non-blocking callers need no distinction.

Two processes, four checkpoints, two holds, prunes that keep two, and four captures (five, 1.9 million states, were explored
separately): enough for a prune to die between its two unlinks, for its checkpoint to be captured again, and for a hold to die
half-linked while both happen. Behaviour worth knowing: incomplete archives count among the newest N; a hold that died with two links
refuses every later prune until someone looks; what a killed backup left behind blocks that checkpoint for good. The helper documents
each as a refusal. Corruption of an archive in place, and writers older than the holds, are not modelled.

### Order ledger

One order (`order`), since no function touches two. Every function opens its own SQLite connection and reads in autocommit, so the read
and the write that follows it are two actions: `UpsertRead` and `UpsertWrite`, `MarkRead` and `MarkWrite`, `ReadPlanned` and `Observe` of
a refresh. `Upserted(old, args)` is the stored row, `Decision` the order of checks that finds an event to tell. `SendAccepted` and
`SendFailed` are the message, `Die` a kill anywhere. Two callers, three calls, four statuses, one delivery window: a call that writes
back a row over two others. `ClosingIsRecorded`: however writers overwrite one another, an archived, closed or delivered order carries
the time it became so. `SuppressedWasAnnounced`: an event that is suppressed from now on was told to a person. Only the registered
handlers (`retail_order_*`, lines 7373–7383) are live code; the rest of that file is retired purchase and browser code. The
`consumable_*` notes are single rows that no property tells apart.

### Mail

`Compose` hashes the request and its attachments (one content), `ReserveNew` inserts the key, `SentBefore`, `SuppressDuplicate` and
`RefuseKey` are what a known key answers, `Post` sends, `Accept`, `Refuse`, `GiveUp` end the request, `Record` writes its outcome, `Kill`
is anywhere. A final 401 or other 4xx means that Gmail did not accept. `OneMessagePerKey`: Gmail accepts at most one message per key, and
who is told "sent before" is told of that message. Two senders, two keys, two contents, four calls.

### Workbench

Star's requests (`Agents`, handled at once by the threaded server) act in the one tab a person shares (`Share`, `Verified`), on a Studio
session that a person edits too (`Edit`, `Browse`, `MoveLease`, `RestartFirefox`). `Receive`, `Lease`, `Arm`, `Request`, `Post`, `PostAgain`,
`Serve`, `Respond`, `Confirm`, `Abandon` are one input; a caller names a revision it may have read. `ConfirmedIsApplied`: an operation makes
at most one change, and one that is reported done made exactly the change with the revision it is reported with. Two requests, two
inputs, two revisions, two tabs. Which controls are safe, what is published or redacted, is left out.

### Source checkout

`Acquire` waits for the lock, `Inspect` undoes what a journal says or `Resolve`s the target, `SaveJournal`, `Uncover` (the overlays are
moved aside), `Checkout`, `Restore`, `UpdateRef`, `SymbolicRef`, `Finish`; a failure undoes from memory, a kill (`Die`) inside or between
git commands leaves it to the next run. `Repair` is a person after a killed git, `Push` the remote, `Puppet` a new content of the
overlays, which it writes only while no sync runs and no journal exists. All overlays are one content, all other tracked files another; a
tag is a pinned commit. `SyncIsWhole`: Puppet's files are never lost, and the journal goes only when the transition is whole or wholly
undone. Two overlapping runs, three in all, three commits, one more overlay.

### Digest

`Watch` asks for what is pinned and what is offered, per stack with its own notion of the latest release (`Latest`), `Load` reads the
state, `Tell` decides, `OpenTmp`, `WriteTmp`, `Replace` are the state file under its one temporary name, `Exit` flushes what was printed and
`Kill` loses it. A file is an inode (`Inodes`), because overlapping runs share the temporary name. `SilenceWasTold`: a run that stays silent
although versions are behind has the very digest behind it, delivered, or composed by a run that is not over or was killed. Two
processes, three runs, one change of the world.

### Migration, sign-in

`EmbeddingMigration`: `Reset`, `FetchDocuments`, `CommitDocuments`, `FetchMessages`, `CommitMessages`, `CreateIndexes`, `Verify`, killed
anywhere (`Die`) and launched again with either skip. One migration at a time, with Honcho's writers stopped, as the script asks. Two
documents and two messages in batches of one, with text, newlines only or nothing in them, a deleted
document, and whatever an earlier attempt left; two launches.

`SignIn`: `Login`, `Follow` (the browser at GitLab), `Callback`, `SignedIn`, `ExchangeFails`, `Forward` with tunnels that outlive their
session (`StreamEnds`), `Logout`, `Expire`, `Restart`. A browser is the person at it; a login is its random state, and the code GitLab
gives is of the person and of the login's verifier. Links are opened in another browser as a fault. Two browsers, three logins, two
pending, one fault.

### TEST delivery

One **run** of the CronJob at a time (`concurrencyPolicy: Forbid`): resume from the journal or pick from the queue, claim, journal,
inspect, patch, watch, probe, recheck, report, clear. Every request has four outcomes: served and answered, served without answer,
not served, and **arriving later**, after its run is gone (`Arrive`, at most `MaxLate`). The Deployment, its controller and the
platform's own rollouts, the queue's callbacks and the deadline's clock are external. A workload's footprint stands for its uid.
`DeliverySpec` fixes the first footprint and the base image, which only names them.

Fairness: weak fairness of `Run` (CronJobs are started again, requests have timeouts) and of `Clock` (the deadline passes); none of
the rollout, which may hang for ever. A rollout that completes after the deadline is reported as failed, a failed operation may leave
the new image running, and the platform may roll back to an image that was there before (an ABA that the code accepts by comparing
images).

### Photos

A call goes through its items: `Choose` a free name, `OpenPartial`, `WritePartial`, `Rename`, `NextItem`, and `WriteManifest` at the end;
`FailItem` and `Die` leave it anywhere. A file is an inode, because overlapping calls share the partial name. `DownloadsStay`: what a call
that ran by itself returned is, for good, in files of their own. Of calls that overlapped the code promises nothing of the kind: two may
choose one free name. Three calls, at most two at once (the constraint `Bounded`), two photos of one name: one that ran alone, and two
that overlap after it.

### Media

`TakeLock`, `TakeSnapshots`, `StageApp` from the snapshot's directory (`Root`), `Compress`, `Publish`, `DestroySnapshot`, `ExpireArchive`,
`Succeed`; `FailBackup` anywhere, `AppWrites` meanwhile, `SnapshotsReconciled` by an operator. `ArchivesAreKept`: every archive holds all
applications as they were at one instant, and that of a successful run goes only when two newer are there. Two applications, four
runs (the third success is the first to expire anything), one write of each.

## The shared Firefox

### Request windows

`mem` is the controller's `self.state`, `disk` is `windows.json`, and they differ because a save may fail before **or after** it
replaced the file. `epoch`, `orphaned`, `connected`, `pending` are the controller process, `gen`, `session`, `tree`, `wire` Firefox:
its process, whether the driver holds a session, its windows, and creations it has been sent and not handled. One controller runs at a
time (`controller_lease`), its operations are serialized, and `pc` says where the one under way stands.

| Action | Code |
|---|---|
| `Restart`, `Serve` | `Windows.__init__` from the journal; the server starts to serve after the operator's grants |
| `Reconcile`, `AuthorizeBinding`, `AuthorizeCreation` | the three local grants; an error ends the process |
| `ReserveSession`, `CreateSession`, `RecordSession`, `Reconnect` | `_connect`, and `_call` with a lost observer |
| `TakeOwner`, `Reserve`, `SendCreate`, `Receive`, `Timeout`, `GiveUp`, `Finish`, `NotSent` | `acquire`, the receipt callback, `recovery` |
| `BeginInput`, `SendInput`, `ConfirmInput` | `_input`: journal, delivery, readback |
| `Tombstone`, `FenceRetired`, `BeginClose`, `SendClose`, `ConfirmClose` | `lifecycle`, by the scope's state |
| `Fail` | any call that fails or is not answered: the observer is closed, nothing is sent again |
| `Create`, `Reject`, `UserOpens`, `UserCloses`, `RestartFirefox` | external: Firefox and its owner |

A window is its one browsing context. The owner's scope is the flag `mem.owner`. `broken` has no variable: a broken controller and one
that never connected do the same next, they reconnect to a recorded session that is still there or refuse. Observation, navigation,
window budgets, grant expiry and foreign contexts in a bound window only refuse. A grant that is applied twice changes nothing and is
not an action; neither are the exemptions of `retire_unresolved`. An input of several native calls is one delivery. An observer that
keeps a pending reply makes every later call drain it first, which is why nothing else is enabled meanwhile.

In the run `firefox` the windows have two scopes, a new and a legacy action key, three controller processes, two Firefox processes, at most two windows
and two creations, six of processes and creations together, and inputs while one of the processes was restarted at most once (without
the last two, 3.08 million states, it was explored too and holds):
enough for a creation in doubt to be abandoned by a grant and its window to appear late beside the new one, for a close to be interrupted
by either restart, and for a grant to be followed by another crash. Deadlock is not checked because the restarts are bounded: the last
controller may be out of operations. `NothingTwice`: no creation is repeated without a grant that names the scope, no key delivered
twice. `WindowsAreAccounted`: no window is bound but the scope's own last creation, and no closed scope is left with a window.

### Accessibility bridge

The bridge binds workflows to tabs of the one window its owner uses too, and drives it by X11 input. A command (`cmd`) works on `working`, a
copy of `state.json` (`file`), under the state lock from its first read to its last save: `AcquireTab`, `Navigate`, `Input` (`Click`, `Type`,
`SelectorAction`), `Release`, `KeepOpen`, `Recover` start it (until the first save it changes nothing but the selected tab);
`SendAction`, `ConfirmAction`, `SendShortcut`, `ObserveTab`, `ObserveClosure` go on; `FailCommand` and `Kill` end it anywhere. Firefox handles a
shortcut later (`HandleShortcut`) or never (`LoseShortcut`); `OwnerActs`, `NewFirefox` and `Lapse` go on meanwhile. A tab is its
AT-SPI object; what a page shows only decides whether a command refuses or confirms. `Status` looks at Firefox before it takes the lock
(`Looks`), so it may reconcile with a process that has ended since, which only adds doubt. A `state.json` that cannot be read or decoded
counts as empty (`firefox-ui-bridge.py:732-737`); that is not modelled, since the file is replaced as a whole and what the model kills
are processes: it takes a damaged disk or a foreign hand, after which bindings and keys are forgotten. Two workflows, one key, three
tabs over all Firefox processes, one shortcut in flight, one lapsed lease at a time and one abandoned tab of a workflow; the key is used, and
leases lapse, while two tabs have been opened (without the bounds on leases and abandoned tabs, 685 000 states, it was explored too
and holds). A Firefox is launched for the windows or for the bridge
(`FIREFOX_CONTROL_PROTOCOL`, `nest-firefox-browser.sh:48`), so that the run `firefox` has either.

`KeyedInputOnce`: an input journaled under an action key is sent once. `TabsAreAccounted`: a workflow has no second tab opened for it
before the first was seen to close, and a tab has one holder. `DoubtRemovedByRecovery` (an action property): doubt about a tab is removed
only by a recovery of that very tab, still open, with no unconfirmed input. Deadlock is not checked, as tabs are bounded.

## What is proved

The theorems hold for every value of the constants under the module's named assumption, which TLC evaluates in the runs. Assumptions
say that what stands for "nothing" is not one of the things, that bounds are numbers, and what the code establishes elsewhere, named
below. None bounds the number of processes, hosts, keys or retries; the `Max...` constants are arbitrary numbers.

| Module | Theorems |
|---|---|
| `HostLifecycle_proofs` | `TypeCorrect`, `AtMostOnce`, `AdmittedFirst`, `ReportTruthful`, `OneBoot`, `NeverOutTogether`, `Refinement` |
| `TestDelivery_proofs` | `TypeCorrect`, `SuccessIsDelivered`, `PatchSafety` |
| `Operations_proofs` | `SignInSafety`, `MigrationSafety`, `CatalogSafety`, `DigestSafety`, `HealthSafety`; of the suite: `SuiteRunsParts`, `RecordedSafety`, `SuiteTypes` |
| `Hermes_proofs` | of the backups: `TypeCorrect`, `HeldSurvive`, `ReceiptsDescribe`, `DamageStops`, `UsableRemains`; of the suite: `SuiteRunsBackups`, `SuiteInvariant`, `ToolTypes`, `LedgerSafety`, `MailSafety`, `BenchSafety`, `SourceSafety` |
| `Releases_proofs` | `PromotionTypes`, `CopiesDescribed`, `PointerSafety`, `SuiteRunsPromotions`, `SuiteInvariant`, `CompleteSafety`, `CopiedSafety`, `IdentitySafety`, `ManifestSafety`, `PreparationSafety`, `ResetSafety`, `GraphSafety`, `SuiteTypes` |
| `Services_proofs` | `SuiteInvariant`, `ServicesTypes`, `DispatchSafety`, `PhotosSafety`, `MediaSafety`, `BootstrapSafety` |
| `FirefoxWindows_proofs` | `WindowInvariant`, `TypeCorrect`, `NothingIsTwice`, `WindowSafety` |
| `UiBridge_proofs` | `BridgeInvariant`, `TypeCorrect`, `InputSafety`, `TabSafety`, `DoubtSafety` |

None of these properties is inductive by itself: each says what was done, and none what a process read earlier and acts on now. The
invariants add that, and every one of them is checked by the provers as Init, step and consequence.

**Lifecycle** (`LifecycleAssumption`: hosts that conflict are in different waves, which `update_wave_plan.py` establishes).
`OnceInv`: a thread at "act" **holds** its mutation: the intent file exists, the effect has not happened, and no other thread of any run
holds it; `Begin` creates the file exclusively and so makes the only holder. `WaveInv`: a run in wave *w* knows that all hosts are
admitted and all earlier waves finalized; the facts never go back, so other runs cannot spoil them. `EvidenceInv`: what a thread at
"attest" gathered is retained, passed and of the boot in `seen`, and result files are never replaced. The refinement maps a host's
native state and its submission count to `life`; `SubmitReboot`, `Attest` and `Finalize` map to `Disrupt`, `Accept` and `Finalize` (the
first needs `WaveInv` for the barrier and `OnceInv` for "pending"), everything else stutters.

**Backups** (`BackupAssumption`: `--retain` is positive, checkpoints are finite). `BackupInv` adds `CommandInv`: at "capture" the
checkpoint has no receipt; at "link" the generation to hold is complete; while removing, no victim is held and no hold is half linked.
Only the lock keeps this true (`OthersIdle`): this is why a hold may not be created under a shared lock. `UsableInv` says on top of it
that **what the prune under way will leave** is usable, whichever of its victims are gone; that the plan itself leaves something usable
(`PlanIsUsable`) needs that the newest archive has the largest rank, which every finite set of numbers has (`Largest`). The same holds
of the backups inside the suite, which runs them unchanged (`SuiteRunsBackups`).

**Promotion** (`PromotionAssumption`: a release names an image for every alias). `PromotionInv`: only the lock's holder has a promotion
under way, its plan is retained and starts from the pointer's release; an alias it has read again names the new image, unless another
writer came after the reading (`unseen`), and what is unseen is touched. The description
of partial copies survives the advance of the pointer only because every untouched alias was read again.

**Delivery** (`DeliveryAssumption`: every operation has an image). `DeliveryInv`: an operation is journaled at most once and the journal
holds the one that is not closed; a write that is still under way is **sound for the resourceVersion it names**: should it still be
current, applying it is right. That a record was not patched before, although its annotation may be gone again, follows from an order:
each journaled record has a larger rank than the annotation it found (`Ranked`), so the annotations of the Deployment only go up.

**Sign-in**: `SignInInv` binds states, cookies, codes and sessions to the browser that asked (`Bound`) and counts the pending logins.
**Migration**: rows are fetched only while none of the batch is written (`StageMeans`). **Catalog**: the repeat is bound only if the
host was whole when it ended, and nothing of ours comes after (`Bindings`). **Digest**: file, memory and buffers hold only digests that
were or will be told (`Records`).

**Host health** (`HealthAssumption`: no user has the name of a gate or of a read; `UserOrder` may be of any length). `HealthInv` has two
parts. `Grounded` says where a collection can be: the plan is a tail of its four tasks (`PlanOK`), what a task has left of its program of
reads is a tail of a program, first reads before second ones and each at most once (`ProgramOK`), and no reboot goes back (`BootsOK`).
`Accounted` speaks of the time from which every manager has been asked once (`AllAsked`): if the host was healthy at no instant since,
on the boot that is judged, then the reports are condemned or the boot is lost (`BootLost`). Something was wrong at that instant (`AtOnce`), nobody repairs a gate, and a
failed unit goes only with its manager or with the boot (`BootLost`); so what is wrong is **known** (a report or the running task has it) or still **ahead** of the
collection, by a read or a task that is left, and `Carried` shows for each action that neither can be lost: a read turns
"ahead" into "known", a manager that ends makes the two lists of processes differ, a reboot the two boots. A verdict of "pass" is reached
only with nothing ahead and nothing known (`PassesAtOnce`). TLC agreed with the invariant before it was proved. `SuiteRunsParts` carries
all these, and the lifecycle's theorems, over to the suite, where `RecordedSafety` joins the three parts.

**Mail** (`SuiteAssumption` of `MCHermes`): a key has at most one owner, and one whose request is under way or accepted is never free.
**Ledger**: every row a process holds, however stale, is as true as the stored one (`RowIsTrue`); this is why an older row may be written
back. **Workbench**: what an operation posted names its revision, nothing is posted before "sent", and authors are known up to the
revision. **Sources**: the journal is the transition of the lock's holder or of a dead one; its stage, on the way onward or back,
determines HEAD, branch, tree and overlays.

**Transfer** (`SuiteAssumption` of `MCReleases`). `MoveInv`: only the lock's holder is beyond the lock (`MoveAlone`); the reservation comes
before the copy and is never withdrawn, so that copies number at most one (`OneAttempt`); once `CheckSeal` passed, the dataset is whole or
gone (`SealHolds`). **Stage 3 roots**. There is no lock. `RootInv`: the intent "finish" is created exclusively and never removed, so one
job finishes a staging (`OneJobEach`) and fills it once; what a job saw sealed and equal stays so until the dataset is destroyed
(`JobIsSound`, `PlaceIsSound`). The steps' lemma is that whatever anyone does a destroyed staging is not made again, a root made anew
has another identity, and behind a seal nothing but destruction is possible (`StagingKept`, `RootKept`, `PaperKept`). The **types** of the
roots (`RootAssumption`: no file is no build) need more than the shape of the state, because what a job writes is what it read some steps
before: `JobOK` types what it carries by where it is (beyond the comparison it saw a build; before an extraction the export's receipt is of a build;
before the repositories are appended or copied the half copy is there or is foreign), `CountsOK` bounds the identities by the acts of others,
since a root is made anew only after another one was destroyed. `SuiteTypes` joins these with the invariants of the other parts.

**Identities** (`IdentityAssumption`). `IdentityInv`: what a reader has taken was held by the source while its listing is still current
(`SourceIsRead`); whoever is about to write the marker of a reference made the reservation and is alone (`MarkerIsOnes`), and the marker
is of a good identity; everything that was ever given out is the marker (`GivenIsMarked`). **Manifest**: the record is admitted against
the frozen expectations, hence has each member once (`RecordIsAdmitted`); a binding's hosts are those of its wave (`BindingIsOnes`).
Lists of at most two rows are what the module declares (`UpTo2`), and the theorem is about these.

**Preparation** (`SuiteAssumption`: hosts are finitely many). `PrepInv` says that a batch's
waves are planned well (`WellPlanned`: they cover the selection, are disjoint, and each fits the policy), that nothing is reset before
the gates it stands behind (`Guarded`) and that waves come in order (`WavesInOrder`). That the planner is total and its waves fit is by
least counterexample, which the library's well-founded order on numbers gives without an operator parameter (`Least`): the first host
without a slot, or the first whose slot does not fit, would refute the choice made for the hosts before it (`SlotsExist`, `SlotsFit`,
`SlotsAreEarly`); no wave is empty because a host goes to a later one only when an earlier one refused it (`WavesAreUsed`).

**Release graph** (`GraphAssumption`: the requests' dependencies are of their members, every member has an architecture). The programs of
reads are `Sound`: whatever a read owes (a noted lineage its edge, an edge everything again, a member at acceptance those built from it)
comes after it, which the topological order gives (`LayersInOrder`, by least counterexample over the layers) and the programs of
freezers, acceptance and envelope are shown to have (`FreezerProgram`, `AcceptProgram`, `EnvelopeProgram`). `ReaderMeans` says what a
reader may rely on: a child whose job was noted is, while it has that job, what was noted, since a later job has a larger number and an
erased result never returns (`Grows`). So a second look that finds the noted job says that it was current at every moment between the
two, and between the last first look and the first second look lies `moment` (`Kept`). `BasesAreParents`: a member acquired is built
from its parents as they were acquired, which come before it. Only the union of these is inductive; TLC agreed with it first.

**Dispatch** (`DispatchAssumption`: the result is one of the papers). `DispatchInv`: the parameters are created exclusively, so one call
launches (`DispatchOnce`); what was visited, with what is still to be visited, contains all it cites (`BundlesAreClosed`); a paper
whose temporary name is gone is whole (`PapersAreInPlace`). **Photos**: no inode is written after it was renamed (`InodesAreSpent`), names are
taken once (`NamedOnce`), and a call that is alone finds its partial files where it left them (`Alone`, `Settled`). **Media**: what is staged is
what was captured at the instant of the run (`CopiesAreOfTheInstant`). **Executor**: versions grow (`VersionsGrow`), and what was read is
between the versions at two instants (`ReadsAreSeen`); a resource that is read before and after the middle of the passes and found the same
was so in the middle.

**Request windows** (`FirefoxAssumption`: the keys of the earlier bridge are keys). A journal is *true* (`TrueTo`) when every record in
it fits what was sent: a scope that may create has no creation that a grant did not abandon, a scope that is closed has none left, a
bound window is that of the last creation, and a used key is journaled. `JournalsOK` says this of the file always and of the memory
while the process goes on: after a grant that failed to be saved the memory is stale, which does no harm because the process ends
(`pc = "down"`). It survives late events because a record says something of the past only (`StaysTrue`). `CreationsOK` and `ReceiptOK`
follow a creation from the wire to its window and its reply, and `SessionOK` says that no recorded session is of a later Firefox
process than the one that runs, so that none is resumed by mistake.

**Accessibility bridge** (`UiBridgeAssumption`). `Sound` relates the state file to what happened: an input that was sent has its key in
the file, a tab that was opened is bound or abandoned by its workflow, and what is held was seen before. `CmdInv` adds what the command
under way relies on: an entry reserved and not yet sent was never sent, and while a tab is awaited every tab that anybody holds is among
those seen before the shortcut, so that a new one is nobody's. `DoubtSafety` goes through all commands: what they read is the file after
reconciliation, which only adds doubt (`ReconciledBinding`).

### What is only model-checked

- **Liveness**: `EveryDeliveryCloses`, `HealthyUpdatesFinish` (`ResumedUpdateFinishes` of the healthy updates). The proof system has no rule for fairness and ENABLED in reach.
- **Induction over data** needs theorems with an operator parameter. Where a proof needs what a recursive function gives (the planner's
  slots, the layers of the order, sorting, flattening), it is by least counterexample instead, from the library's well-founded order on
  numbers; a folded or recursive *operator* remains out of reach.

Every invariant, and every action property, that a passing run checks is the statement of a listed theorem.

## Findings

Each is a run that TLC ends with a counterexample; `findings` in `PROJECT.json` quotes the lines.

- `lifecycle_torn`: a result file is created before it is written. Torn, it can be neither read nor replaced, although the
  documentation says that a lost observation can be collected again.
- `promotion_reconcile`: after a partial copy no plan that names a moved alias is admissible, although the documentation says to
  submit a reconciled mapping.
- `firefox_terminal`: reconciling a lost generation for one scope drops the terminal event of another whose close was not confirmed; a
  binding grant then reopens it, although the documentation says that terminal scopes refuse. What remains is the operator's check.
- `firefox_lost`: whether a generation is lost is computed from the window records; a session lost before the owner's window is
  recorded can be neither used nor reconciled, although the documentation says that a lost generation can be.
- `dispatch_resume`: a resume looks at the unit and then restarts it. A start, or another resume, that launches the unit in between has
  its active run ended by the restart, although the documentation says that a resume cannot interrupt an active run. What does hold of a
  resume is `ResumeChecksHold`: it ends no run but one that began after it had looked.

Seen while reading and modelling, without a run of their own, because no line of the repository promises otherwise or because the part
is not modelled:

- `/share` of the workbench refuses always: `_browser_contexts` keeps titles of Studio tabs only (`workbench_bridge.py:285`), and the
  shared tab has to be told by its title; `docs/patternkit-eyrie.md:34–37` describes a successful share. The model starts with a binding
  in the state file instead. An edit that a person makes in the intercepted frame is continued as Star's.
- The order ledger suppresses by one key per kind of event, so a second genuine change of a window or a status is never told
  (`secure_browser_legacy_support.py:2034`, 2043, 2105).
- A dispatch that dies at `update_dispatch.py:128` can be neither started nor resumed.
- Overlapping downloads of photos may choose one name (`google_photos_tool.py:168`), so that a row names another call's file.
- A killed `git checkout` whose lock was removed leaves a tree of two commits; later syncs refuse until a person repairs it.
- A message of newlines only makes the Honcho migration loop: SQL's `trim` keeps it, Python's `strip` empties it.
- `firefox_windows.py:658` changes a record in memory before it is saved; after a failed save a repeated event is accepted.
- Parallel unauthenticated requests of one browser overwrite its state cookie, so an earlier login's callback is refused after its state
  was consumed; one browser can fill the table of pending logins.
- The digest: a drift that vanishes and returns unchanged is not told again; a kill between `save_state` and exit loses a digest that is
  recorded; two runs share one temporary file, so that one tells again or fails; an unknown current version raises a `TypeError`.
- A killed download of a Gmail attachment leaves a truncated file under its final name.

## Bounds, in general

Every unbounded thing has a named bound: `MaxBoots`, `MaxCaptures`, `MaxLate`, `MaxForeign`, `MaxPlans`, `MaxWindows`, `MaxCreations`,
`MaxStarts`, `MaxNative`, `MaxTogether`, `MaxCalls`, `MaxSends`, `MaxRevision`, `MaxInputs`, `MaxRuns`, `MaxCommit`, `MaxWrites`, `MaxSpoiled`,
`MaxRetries`, `MaxJobs`, `MaxTampers`, `MaxActs`, `MaxEvents`, `MaxServed`, `MaxOthers`, `MaxLaunches`, `MaxLogins`, `MaxFaults`,
`MaxUpstream`, `MaxTabs`, `MaxAsked`, `MaxBackups`, `MaxMoves`. Each configuration names its instance in its first lines, and the sections above say what happens within it.
Where a theorem states the same property the bound is arbitrary.

Symmetry is declared only over sets whose members the specification does not tell apart (hosts of a wave are told apart by `Wave`, so
they are not), not in liveness runs, and not in `MCReleases`. Each property of a passing run has a mutant, an
operator defined next to the action it replaces, that a plausible bug would make of the code and that the run refutes.

## Not modelled

- **Shared update state, executor inputs, CI builds, image build plans**: each reads or builds once and emits a
  document or refuses; identities are pinned by digest and compared again where they are used, in `ReleaseGraph` and `GenerationTransfer`.
- **GitLab and OpenVox backups, artifact imports, session broker, egress proxy, host daemons**: one process each over a
  service or device that is not in the repository; no state of their own that two of them share.
- **Google tools other than sending**: reads, or one request passed on. **Retired browser and purchase code** in
  `secure_browser_legacy_support.py`: not registered, not reachable.
- **Puppet manifests and data**, formats, schemas, logging, file modes and ownership.

## Plan

1. `ControlPlaneReconcile`: two operators, the lock, freshness, rollback of configuration and manifest.
2. `RegistryBackup`: staging, completion, swap and retirement with interruptions, and the restore's choice.
