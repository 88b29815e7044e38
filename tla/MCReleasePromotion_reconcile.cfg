\* No other writer, operators that die.
CONSTANTS
  june = june
  july = july
  august = august
  zen = zen
  haswell = haswell
  oldZen = oldZen
  newZen = newZen
  oldHaswell = oldHaswell
  newHaswell = newHaswell
  operator1 = operator1
  operator2 = operator2
  None = None
  Releases = {june, july, august}
  Aliases = {zen, haswell}
  Images = {oldZen, newZen, oldHaswell, newHaswell}
  Image <- ThreeReleases
  Operators = {operator1, operator2}
  MaxForeign = 0
  MaxPlans = 9
SPECIFICATION Spec
SYMMETRY Symmetry
INVARIANT PartialPromotionReconcilable
