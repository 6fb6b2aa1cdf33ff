\* Two sound configurations and twenty that are not; one system of up to two
\* planets with up to two ports each, of a common sun or a bright one.  The
\* start ends: no deadlock check.
CONSTANTS
  Confs <- MCConfs
  NoFile = NoFile
  Unparsable = Unparsable
  PortZones = {"oceanic", "surface", "orbit", "rogue"}
  PlanetZones = {"HOT", "ECO", "COLD"}
  LifeNum = 3
  MaxPlanets = 2
  MaxPorts = 2
  Suns <- MCSuns
  DistMax = 3
  UintModulus = 6
SPECIFICATION FairSpec
INVARIANTS
  
  ValidLoads
  PlanetsInOrder
  
PROPERTY GenesisEnds
CHECK_DEADLOCK FALSE
