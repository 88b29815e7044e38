\* Backups: four checkpoints and captures, two processes, two holds, prunes that keep two.
\* Orders: two callers, four statuses, one window, three calls.
\* Mail: two senders, two keys, two contents, four calls.
\* Workbench: two tabs, two requests at once, two revisions, two inputs.
\* Sources: two runs at once, three in all, three commits, one more overlay.
CONSTANTS
  hour1 = hour1
  hour2 = hour2
  hour3 = hour3
  hour4 = hour4
  one = one
  two = two
  left = left
  right = right
  None = None
  Checkpoints = {hour1, hour2, hour3, hour4}
  HoldIds = {left, right}
  Processes = {one, two}
  Retains = {2}
  Legacies = {1, 2}
  MaxCaptures = 4
  Callers = {one, two}
  Statuses = {"confirmed", "shipped", "delivered", "archived"}
  Etas = {"friday"}
  MaxCalls = 3
  Absent = Absent
  Senders = {one, two}
  key1 = key1
  key2 = key2
  Keys = {key1, key2}
  content1 = content1
  content2 = content2
  Contents = {content1, content2}
  MaxSends = 4
  Nothing = Nothing
  Tabs = {left, right}
  Agents = {one, two}
  MaxRevision = 2
  MaxInputs = 2
  Free = Free
  Syncs = {one, two}
  MaxRuns = 3
  MaxCommit = 3
  MaxWrites = 1
  Idle = Idle
SPECIFICATION SuiteSpec
SYMMETRY Symmetry
CHECK_DEADLOCK FALSE
INVARIANT HeldGenerationsSurvive
INVARIANT ReceiptDescribesArchive
INVARIANT UsableGenerationRemains
INVARIANT LedgerIsTrue
INVARIANT OneMessagePerKey
INVARIANT ConfirmedIsApplied
PROPERTY SyncIsWhole
PROPERTY DamagedHoldStopsPruning
