\* A result file that was created and never written.
CONSTANTS
  canary1 = canary1
  nest1 = nest1
  nest2 = nest2
  run1 = run1
  run2 = run2
  Hosts = {canary1}
  Runs = {run1}
  Waves = 1
  Wave <- OneWave
  Conflicts <- NoConflicts
  CanaryCount = 1
  MaxBoots = 1
SPECIFICATION EitherSpec
INVARIANT LostObservationsCollectable
