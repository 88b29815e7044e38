\* Three hosts in two waves, one run that fails, crashes and is started again.
CONSTANTS
  canary1 = canary1
  nest1 = nest1
  nest2 = nest2
  run1 = run1
  run2 = run2
  Hosts = {canary1, nest1, nest2}
  Runs = {run1}
  Waves = 2
  Wave <- ParallelWaves
  Conflicts <- ParallelConflicts
  CanaryCount = 1
  MaxBoots = 1
SPECIFICATION EitherSpec
INVARIANT EveryHostAdmittedFirst
INVARIANT ConflictingHostsNeverOutTogether
INVARIANT ReportMeansFinalized
PROPERTY RefinesRollingUpdate
PROPERTY HealthyUpdatesFinish
