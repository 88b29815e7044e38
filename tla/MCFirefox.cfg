\* Windows: two scopes, a new and a legacy key, three controllers, two Firefox
\* processes, at most six creations, controllers and Firefox processes together.
\* Bridge: two workflows, one action key, three tabs over the Firefox processes.
CONSTANTS
  alpha = alpha
  beta = beta
  newKey = newKey
  oldKey = oldKey
  None = None
  User = User
  Rejected = Rejected
  Scopes = {alpha, beta}
  Keys = {newKey, oldKey}
  LegacyKeys = {oldKey}
  MaxWindows = 2
  MaxCreations = 2
  MaxStarts = 3
  MaxNative = 2
  MaxTogether = 6
  Unset = Unset
  Workflows = {alpha, beta}
  ActionKeys = {newKey}
  HardCap = 3
  MaxTabs = 3
SPECIFICATION SuiteSpec
SYMMETRY Symmetry
CONSTRAINT SuiteBounded
INVARIANT NothingTwice
INVARIANT WindowsAreAccounted
INVARIANT KeyedInputOnce
INVARIANT TabsAreAccounted
PROPERTY DoubtRemovedByRecovery
CHECK_DEADLOCK FALSE
