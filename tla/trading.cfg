\* Two interchangeable players, two systems, two ports, two items.
CONSTANTS
  s1 = s1
  s2 = s2
  planet1 = planet1
  planet2 = planet2
  mine = mine
  refinery = refinery
  iron = iron
  iridium = iridium
  Players = {p1, p2}
  Systems <- MCSystems
  Planets <- MCPlanets
  Ports <- MCPorts
  Links <- MCLinks
  SystemOf <- MCSystemOf
  PlanetOf <- MCPlanetOf
  Start = s1
  Items <- MCItems
  Queries <- MCQueries
  Requested = {1, 3}
  Price <- MCPrice
  StartCredits = 2
  Stock <- MCStock
  MaxStock <- MCMaxStock
  DailyChange <- MCDailyChange
  Requires <- MCRequires
  Fraction = 5
  DailyBound = 20
  PortList <- MCPortList
SPECIFICATION Spec
INVARIANTS
  CommandsFit
  StockInBounds
  WealthKept
PROPERTIES
  GoodsConserved
  DayRounded
SYMMETRY Symmetry
CHECK_DEADLOCK FALSE
