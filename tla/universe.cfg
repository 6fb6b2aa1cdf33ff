\* Up to six systems of three constellations, two civilisations.  Genesis ends:
\* no deadlock check.
CONSTANTS
  Constellations = 3
  GreekN = 3
  NeighbourDistance = 2
  MinDistance = 5
  Positions <- MCPositions
  Terran = Terran
  Grazny = Grazny
  Nobody = Nobody
  CivList <- MCCivList
  Power <- MCPower
  CivTenths = 6
  BorderWidth = 6
  HomeDistance = 5
  GrowMin = 2
  GrowStep = 2
  MaxRings = 8
SPECIFICATION FairSpec
INVARIANTS
  SearchExact
  Territory
  BorderComplete
PROPERTIES
  GrowsNear
  GrowthEnds
CHECK_DEADLOCK FALSE
