\* The windows as in MCFirefox.cfg, for the promise that a lost generation can be reconciled.
CONSTANTS
  alpha = alpha
  beta = beta
  newKey = newKey
  oldKey = oldKey
  None = None
  User = User
  Rejected = Rejected
  Scopes = {alpha, beta}
  Keys = {newKey, oldKey}
  LegacyKeys = {oldKey}
  MaxWindows = 2
  MaxCreations = 2
  MaxStarts = 3
  MaxNative = 2
  MaxTogether = 6
SPECIFICATION Spec
SYMMETRY Symmetry
CONSTRAINT Bounded
PROPERTY LostGenerationReconcilable
CHECK_DEADLOCK FALSE
