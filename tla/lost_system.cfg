\* One constellation of one or two systems.
CONSTANTS
  Constellations = 1
  GreekN = 3
  NeighbourDistance = 2
  MinDistance = 5
  Positions <- MCPositions
  Terran = Terran
  Grazny = Grazny
  Nobody = Nobody
  CivList <- MCCivList
  Power <- MCPower
  CivTenths = 6
  BorderWidth = 6
  HomeDistance = 5
  GrowMin = 2
  GrowStep = 2
  MaxRings = 8
SPECIFICATION Spec
INVARIANT TreeComplete
CHECK_DEADLOCK FALSE
