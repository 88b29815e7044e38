\* Lifecycle: one host that may reboot by itself, two runs that overlap and crash.
\* Health: two users, two events.  Catalog: three versions, three acts of others.
\* Migration: two documents, two messages, batches of one, two launches.
CONSTANTS
  canary1 = canary1
  run1 = run1
  run2 = run2
  Hosts = {canary1}
  Runs = {run1, run2}
  Waves = 1
  Wave <- OneWave
  Conflicts <- NoConflicts
  CanaryCount = 2
  MaxBoots = 2
  UserOrder <- SomeUsers
  MaxEvents = 2
  MaxServed = 3
  MaxOthers = 3
  Documents <- SomeDocuments
  Messages <- SomeMessages
  BatchSize = 1
  MaxLaunches = 2
  Browsers = {run1, run2}
  Paths = {"studio", "status"}
  MaxLogins = 3
  MaxPending = 2
  MaxFaults = 1
  Nobody = Nobody
  Runners = {run1, run2}
  MaxRuns = 3
  MaxUpstream = 1
SPECIFICATION SuiteSpec
SYMMETRY RunSymmetry
INVARIANT TypesOK
INVARIANT MutationsAtMostOnce
INVARIANT AcceptedOnOneBoot
INVARIANT RecordedWasTrue
INVARIANT SignedInAsThemselves
INVARIANT MigrationIsWhole
CHECK_DEADLOCK FALSE
