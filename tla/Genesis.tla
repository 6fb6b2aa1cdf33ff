------------------------------ MODULE Genesis ------------------------------
(***************************************************************************)
(* The planets and ports of one system, made from the types that were      *)
(* loaded: planet_populate_system() (planet.c), port_populate_planet()     *)
(* (port.c) and create_unique_name() (names.c).                            *)
(*                                                                         *)
(* What mtrandom returns is a nondeterministic choice.  The two loops that *)
(* draw until they like what they get are a step per draw, and a draw that *)
(* is rejected changes nothing.                                            *)
(***************************************************************************)
EXTENDS Config

CONSTANTS MaxPlanets,  \* PLANET_MUL_MAX
          MaxPorts,    \* PORT_MAXNUM
          Suns,        \* the [low, high] that hablow and habhigh may be
          DistMax,     \* PLANET_DIST_MAX
          UintModulus  \* 2^32

ASSUME GenesisAssumption ==
  /\ {MaxPlanets, MaxPorts, DistMax, UintModulus} \subseteq Nat \ {0}
  /\ PlanetZones \subseteq {"HOT", "ECO", "COLD"} /\ LifeNum \in Nat
  /\ \A s \in Suns : {s.low, s.high} \subseteq Nat /\ 0 < s.low /\ s.low < s.high /\ s.high < UintModulus
  /\ DistMax < UintModulus

VARIABLES sun,      \* of the system
          wanted,   \* num of planet_populate_system
          zone,     \* zone of planet_genesis, or Undrawn
          planet,   \* the planet that is being made: <<>> or one record
          coming,   \* how many ports it is still to have
          port,     \* the port that has no name yet: <<>> or one record
          planets,  \* system->planets
          taken     \* avail_port_names.taken

makingVars == <<zone, planet, coming, port>>
genesisVars == <<sun, wanted, makingVars, planets, taken>>
vars == <<confVars, genesisVars>>

Undrawn == "undrawn"

GenesisInit == /\ Init
               /\ sun \in Suns
               /\ wanted = 0 /\ zone = Undrawn /\ planet = <<>>
               /\ coming = 0 /\ port = <<>>
               /\ planets = <<>> /\ taken = {}

-----------------------------------------------------------------------------
(* mtrandom_uint() and mtrandom_ulong().                                   *)
Drawn(range) == IF range = 0 THEN {0} ELSE 0..range - 1

PlanetGennum == /\ status = "loaded"
                /\ wanted' \in 1..MaxPlanets
                /\ status' = "populating"
                /\ UNCHANGED <<conf, todo, univVars, sun, makingVars, planets, taken>>

(* planet_genesis() draws the zone first and then types until one fits.    *)
DrawZone == /\ status = "populating" /\ Len(planets) < wanted
            /\ planet = <<>> /\ zone = Undrawn
            /\ zone' \in PlanetZones
            /\ UNCHANGED <<confVars, sun, wanted, planet, coming, port, planets, taken>>

(* Unsigned arithmetic: what lies between habhigh and PLANET_DIST_MAX is   *)
(* almost everything when habhigh is the larger one.                       *)
Distances(z) ==
  CASE z = "HOT"  -> Drawn(sun.low)
    [] z = "ECO"  -> {sun.low + r : r \in Drawn(sun.high - sun.low)}
    [] z = "COLD" -> {(sun.high + r) % UintModulus : r \in Drawn((DistMax - sun.high) % UintModulus)}

Lives(type) == {(type.minlife + r) % UintModulus :
                   r \in Drawn((type.maxlife - type.minlife) % UintModulus)}

(* Mutant: one type less is drawn from than there are.                     *)
FitsButLast(i) == i < Len(planetTypes) /\ zone \in planetTypes[i].zones

Fits(i) == zone \in planetTypes[i].zones

(* The number of ports is drawn by port_populate_planet().                 *)
AcceptType(i) ==
  /\ planet = <<>> /\ zone # Undrawn
  /\ Fits(i)
  /\ \E dist \in Distances(zone), life \in Lives(planetTypes[i]) :
       planet' = <<[name |-> 0, zone |-> zone, type |-> i, dist |-> dist, life |-> life,
                    ports |-> <<>>]>>
  /\ coming' \in IF planetTypes[i].ports = <<>> THEN {0} ELSE 0..MaxPorts
  /\ UNCHANGED <<confVars, sun, wanted, zone, port, planets, taken>>

RejectType(i) == /\ planet = <<>> /\ zone # Undrawn
                 /\ ~Fits(i)
                 /\ UNCHANGED vars

-----------------------------------------------------------------------------
(* With a PORT_CARGO_RANDOMNESS of 0.5, of half of it to half of it and    *)
(* all of it again, cut off towards zero.                                  *)
Maxima(max) == {max \div 2 + r : r \in Drawn(max)}
Changes(change) == IF change >= 0 THEN {change \div 2 + r : r \in Drawn(change)}
                   ELSE {-((-change) \div 2 + r) : r \in Drawn(-change)}

(* More than 10 is lowered, but to no less than 5: to what might have been *)
(* drawn as well.                                                          *)
Amounts(max) == Drawn(max)

Cargos(good) ==
  UNION {{[max |-> max, change |-> change, amount |-> amount, requires |-> good.requires] :
             change \in Changes(good.change), amount \in Amounts(max)} :
         max \in Maxima(good.max)}

GoodsFor(type) == {goods \in [DOMAIN type -> UNION {Cargos(type[n]) : n \in DOMAIN type}] :
                     \A n \in DOMAIN type : goods[n] \in Cargos(type[n])}

(* port_genesis() up to the name.                                          *)
PortGenesis == /\ planet # <<>> /\ coming > 0 /\ port = <<>>
               /\ \E name \in ToSet(planetTypes[planet[1].type].ports) :
                    \E goods \in GoodsFor(portTypes[name]) :
                      port' = <<[type |-> name, goods |-> goods]>>
               /\ UNCHANGED <<confVars, sun, wanted, zone, planet, coming, planets, taken>>

(***************************************************************************)
(* create_name(): a prefix and a place, or a place and a suffix; nothing   *)
(* for a list that is empty.  A name is the sequence of its words.         *)
(***************************************************************************)
Word(words) == IF words = {} THEN {<<>>} ELSE {<<w>> : w \in words}

CreateName == {w[1] \o w[2] : w \in Word(names["placeprefix"]) \X Word(names["placenames"])}
                \union
              {w[1] \o w[2] : w \in Word(names["placenames"]) \X Word(names["placesuffix"])}

(* Mutant: create_unique_name() forgets what it returned.                  *)
TakenNever(name) == taken

Taken(name) == taken \union {name}

NamePort(name) ==
  /\ port # <<>> /\ status = "populating"
  /\ name # <<>> /\ name \notin taken
  /\ taken' = Taken(name)
  /\ planet' = <<[planet[1] EXCEPT !.ports = Append(@, [name |-> name, type |-> port[1].type,
                                                      goods |-> port[1].goods])]>>
  /\ port' = <<>>
  /\ coming' = coming - 1
  /\ UNCHANGED <<confVars, sun, wanted, zone, planets>>

RedrawName(name) == /\ port # <<>> /\ status = "populating"
                    /\ name \in taken
                    /\ UNCHANGED vars

(* "Fails if no names are loaded".                                         *)
AssertName == /\ port # <<>> /\ status = "populating"
              /\ <<>> \in CreateName
              /\ status' = "aborted"
              /\ UNCHANGED <<conf, todo, univVars, genesisVars>>

-----------------------------------------------------------------------------
PushPlanet == /\ planet # <<>> /\ coming = 0
              /\ planets' = planets \o planet
              /\ planet' = <<>> /\ zone' = Undrawn
              /\ UNCHANGED <<confVars, sun, wanted, coming, port, taken>>

(* ptrlist_sort() with cmp_planet_distances: planets equally far keep      *)
(* their order (PtrList).                                                  *)
PlaceByDistance(seq, i) ==
  Cardinality({j \in DOMAIN seq : \/ seq[j].dist < seq[i].dist
                                  \/ seq[j].dist = seq[i].dist /\ j <= i})
SortByDistance(seq) ==
  [k \in DOMAIN seq |-> seq[CHOOSE i \in DOMAIN seq : PlaceByDistance(seq, i) = k]]

(* Mutant: the planets are named in the order in which they were made.     *)
NameUnsorted(seq) ==
  SortByDistance([i \in DOMAIN seq |-> [seq[i] EXCEPT !.name = i]])

(* The system's name and a Roman numeral; the number stands for both, and  *)
(* 0 for no name yet.                                                      *)
NameInOrder(seq) ==
  LET sorted == SortByDistance(seq)
  IN [i \in DOMAIN sorted |-> [sorted[i] EXCEPT !.name = i]]

NamePlanets == /\ status = "populating" /\ Len(planets) = wanted
               /\ planets' = NameInOrder(planets)
               /\ status' = "populated"
               /\ UNCHANGED <<conf, todo, univVars, sun, wanted, makingVars, taken>>

Next == \/ LoadStep /\ UNCHANGED genesisVars
        \/ PlanetGennum \/ DrawZone
        \/ \E i \in DOMAIN planetTypes : AcceptType(i) \/ RejectType(i)
        \/ PortGenesis
        \/ \E name \in CreateName : NamePort(name) \/ RedrawName(name)
        \/ AssertName \/ PushPlanet \/ NamePlanets

Spec == GenesisInit /\ [][Next]_vars

(* A draw that can be to the liking of the loop is so in the end.          *)
FairSpec == Spec /\ WF_vars(Next)

-----------------------------------------------------------------------------
(***************************************************************************)
(* The numerals of a system's planets go from its sun outwards, and so do  *)
(* the zones, unless the sun is so bright that its habitable zone ends     *)
(* beyond PLANET_DIST_MAX: a planet in the cold may be anywhere then, the  *)
(* hot zone included (planet.c:106).                                       *)
(***************************************************************************)
Outer(z) == CASE z = "HOT" -> 1 [] z = "ECO" -> 2 [] z = "COLD" -> 3

PlanetsInOrder ==
  status = "populated" =>
    /\ \A i \in DOMAIN planets : planets[i].name = i
    /\ \A i, j \in DOMAIN planets :
         i < j => /\ planets[i].dist <= planets[j].dist
                  /\ sun.high <= DistMax => Outer(planets[i].zone) <= Outer(planets[j].zone)

(***************************************************************************)
(* Every port is one that the trade can start with (Init of Trading): it   *)
(* has what its type has, within bounds, requires only what it has, and    *)
(* produces what its type produces and consumes what its type consumes;    *)
(* and no two ports of any planets have the same name.                     *)
(***************************************************************************)
Tradable(p) ==
  /\ DOMAIN p.goods = DOMAIN portTypes[p.type]
  /\ \A n \in DOMAIN p.goods :
       LET good == p.goods[n]
       IN /\ good.amount \in 0..good.max
          /\ good.requires \subseteq DOMAIN p.goods
          /\ good.change * portTypes[p.type][n].change >= 0

PortsSound ==
  \A i, j \in DOMAIN planets :
    \A k \in DOMAIN planets[i].ports, l \in DOMAIN planets[j].ports :
      /\ Tradable(planets[i].ports[k])
      /\ planets[i].ports[k].name = planets[j].ports[l].name => <<i, k>> = <<j, l>>

(***************************************************************************)
(* Making the planets comes to an end, if there is a type for every zone   *)
(* and a name for every port there may be; otherwise one of the two loops  *)
(* may draw for ever.  An end is also the failed assertion of              *)
(* create_unique_name where a name without any word can be drawn: this is  *)
(* about the loops, not about the result.                                  *)
(***************************************************************************)
EnoughToDrawFrom ==
  /\ \A z \in PlanetZones : \E i \in DOMAIN planetTypes : z \in planetTypes[i].zones
  /\ Cardinality(CreateName) >= MaxPlanets * MaxPorts

GenesisEnds == status = "loaded" /\ EnoughToDrawFrom ~> status \in {"populated", "aborted"}
=============================================================================
