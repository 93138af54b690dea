SPECIFICATION UnitSpec
CONSTANTS
  Types <- MCTypes
  Passed <- MCPassed
  MaxArgs = 3
  Locs <- MCLocs
  Deviations = {}
  Units <- MCUnits
  Members <- MCMembers
  MaxMembers = 3
  Irregularities = {}
INVARIANTS ValuesArrive InsideArea FollowsAbi LayoutFollowsRules AccessesRight
CHECK_DEADLOCK FALSE
