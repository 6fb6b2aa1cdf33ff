---------------------------- MODULE StartupProofs ----------------------------
(***************************************************************************)
(* Theorems about the start, Config and Genesis, for any configuration and *)
(* for any suns.                                                           *)
(***************************************************************************)
EXTENDS Genesis, FiniteSetTheorems, SequenceTheorems, WellFoundedInduction, TLAPS

-----------------------------------------------------------------------------
(* A set of numbers has a least one.                                       *)
LEMMA MinIs ==
  ASSUME NEW S \in SUBSET Nat, S # {}
  PROVE  Min(S) \in S /\ \A n \in S : Min(S) <= n
<1> DEFINE Smaller == {x \in Nat \X Nat : x[1] < x[2]}
<1>0. S \subseteq Nat
  OBVIOUS
<1>1. IsWellFoundedOn(Smaller, Nat)
  BY NatLessThanWellFounded DEF OpToRel
<1> HIDE DEF Smaller
<1>2. PICK m \in S : \A n \in S : ~(<<n, m>> \in Smaller)
  BY <1>0, <1>1, WFMin
<1>3. ASSUME NEW n \in S
      PROVE  m <= n
  <2>1. n \in Nat /\ m \in Nat /\ ~(<<n, m>> \in Smaller)
    BY <1>2
  <2>2. ~(n < m)
    BY <2>1 DEF Smaller
  <2> QED
    BY <2>1, <2>2
<1> QED
  BY <1>2, <1>3 DEF Min

(* What a loop has done are the entries before the first bad one.          *)
LEMMA UpToIs ==
  ASSUME NEW S, NEW seq \in Seq(S), NEW bad \in SUBSET DOMAIN seq
  PROVE  /\ UpTo(seq, bad) \in Seq(S)
         /\ \A i \in DOMAIN UpTo(seq, bad) :
              i \in DOMAIN seq /\ i \notin bad /\ UpTo(seq, bad)[i] = seq[i]
<1>1. CASE bad = {}
  BY <1>1 DEF UpTo
<1>2. CASE bad # {}
  <2> DEFINE m == Min(bad)
             n == m - 1
             up == SubSeq(seq, 1, n)
  <2>1. DOMAIN seq = 1..Len(seq) /\ Len(seq) \in Nat /\ bad \subseteq Nat
    OBVIOUS
  <2>2. m \in bad /\ \A i \in bad : m <= i
    BY <1>2, <2>1, MinIs
  <2> HIDE DEF m
  <2>3. m \in 1..Len(seq)
    BY <2>1, <2>2
  <2>4. n \in Nat /\ n <= Len(seq) /\ \A i \in 1..n : i \in 1..Len(seq) /\ seq[i] \in S
    BY <2>1, <2>3
  <2> HIDE DEF n
  <2>5. /\ up \in Seq(S)
        /\ Len(up) = IF 1 <= n THEN n - 1 + 1 ELSE 0
        /\ \A i \in 1..n - 1 + 1 : up[i] = seq[1 + i - 1]
    BY <2>4, SubSeqProperties
  <2>6. UpTo(seq, bad) = up
    BY <1>2 DEF UpTo, m, n
  <2> HIDE DEF up
  <2>7. Len(up) = n
    BY <2>4, <2>5
  <2>8. \A i \in 1..n : up[i] = seq[i] /\ i \notin bad
    <3>1. ASSUME NEW i \in 1..n
          PROVE  up[i] = seq[i] /\ i \notin bad
      <4>1. i \in 1..n - 1 + 1 /\ 1 + i - 1 = i /\ i < m
        BY <2>3, <2>4 DEF n
      <4> QED
        BY <2>2, <2>3, <2>5, <4>1
    <3> QED
      BY <3>1
  <2> QED
    BY <2>1, <2>4, <2>5, <2>6, <2>7, <2>8
<1> QED
  BY <1>1, <1>2

-----------------------------------------------------------------------------
(* What is loaded fits together.                                           *)
GoodType(type) ==
  /\ DOMAIN type \subseteq items
  /\ \A n \in DOMAIN type :
       type[n].max \in Nat /\ type[n].change \in Int /\ type[n].requires \subseteq DOMAIN type

PlanetTypes == [zones : SUBSET PlanetZones, ports : Seq(DOMAIN portTypes),
                minlife : Nat, maxlife : Nat]

ConfOK == /\ conf \in Confs
          /\ todo \subseteq DOMAIN conf
          /\ \A t \in DOMAIN portTypes : GoodType(portTypes[t])
          /\ planetTypes \in Seq(PlanetTypes)

Sane == items # {} /\ planetTypes # <<>> /\ shipTypes # <<>> /\ civs > 0

Loaded == {"loaded", "populating", "populated"}

ConfInv == ConfOK /\ (status = "loaded" => Sane)

(* The files of ports hold numbers where numbers belong.                   *)
GoodChildren(children) ==
  \A k \in GoodsOf(children) : /\ children[k].capacity \in Nat
                               /\ {children[k].produces, children[k].consumes} \subseteq Int

(* The files are such as the assumption says.                              *)
LEMMA FilesAre ==
  ASSUME ConfOK, NEW i \in todo
  PROVE  /\ conf[i].key \in FileKeys => Entries(conf[i]) \in Seq(ToSet(Entries(conf[i])))
         /\ conf[i].key = "planets" =>
              \A j \in DOMAIN Entries(conf[i]) :
                /\ Entries(conf[i])[j].zones \in Seq(ToSet(Entries(conf[i])[j].zones))
                /\ Entries(conf[i])[j].ports \in Seq(ToSet(Entries(conf[i])[j].ports))
         /\ conf[i].key = "ports" =>
              \A j \in DOMAIN Entries(conf[i]) : GoodChildren(Entries(conf[i])[j].children)
<1>1. i \in DOMAIN conf
  BY DEF ConfOK
<1> QED
  BY <1>1, ConfsAssumption DEF ConfOK, GoodChildren, GoodsOf

(* The names up to the first that is unknown are known.                    *)
LEMMA KnownUpTo ==
  ASSUME NEW S, NEW seq \in Seq(S), NEW known
  PROVE  UpTo(seq, Unknown(seq, known)) \in Seq(known)
<1> DEFINE bad == Unknown(seq, known)
           up == UpTo(seq, bad)
<1>1. bad \in SUBSET DOMAIN seq
  BY DEF Unknown
<1>2. /\ up \in Seq(S)
      /\ \A i \in DOMAIN up : i \in DOMAIN seq /\ i \notin bad /\ up[i] = seq[i]
  <2> HIDE DEF bad
  <2> QED
    BY <1>1, UpToIs
<1>3. \A i \in DOMAIN up : up[i] \in known
  BY <1>2 DEF Unknown
<1> HIDE DEF up
<1>4. up \in Seq(known)
  BY <1>2, <1>3
<1> QED
  BY <1>4 DEF up

(* A type of ports that passes both passes is a good one.                  *)
LEMMA SecondPassGood ==
  ASSUME NEW children, GoodChildren(children), FirstPass(children)
  PROVE  GoodType(SecondPass(children))
<1> DEFINE Described(n) == children[CHOOSE i \in GoodsOf(children) : children[i].name = n]
           type == SecondPass(children)
<1>1. DOMAIN type = GoodNames(children) /\ GoodNames(children) \subseteq items
  BY DEF SecondPass, FirstPass
<1>2. ASSUME NEW n \in GoodNames(children)
      PROVE  type[n].max \in Nat /\ type[n].change \in Int /\ type[n].requires \subseteq DOMAIN type
  <2>1. \E i \in GoodsOf(children) : children[i].name = n
    BY DEF GoodNames
  <2>2. PICK k \in GoodsOf(children) : Described(n) = children[k]
    BY <2>1
  <2>3. /\ Described(n).capacity \in Nat
        /\ Described(n).produces \in Int /\ Described(n).consumes \in Int
    BY <2>2 DEF GoodChildren
  <2>4. type[n] = [max |-> Described(n).capacity,
                   change |-> Described(n).produces - Described(n).consumes,
                   requires |-> Described(n).requires \intersect GoodNames(children)]
    BY DEF SecondPass
  <2> HIDE DEF Described, type
  <2> QED
    BY <1>1, <2>3, <2>4
<1> QED
  BY <1>1, <1>2 DEF GoodType

-----------------------------------------------------------------------------
(* Loading a file of ports keeps what is loaded together.                  *)
LEMMA PortsKeep ==
  ASSUME ConfOK, NEW i \in todo, LoadPorts(i)
  PROVE  ConfOK'
<1> DEFINE entries == Entries(conf[i])
           bad == BadPorts(entries)
           up == UpTo(entries, bad)
           new == ToSet(up)
           Newest(n) == CHOOSE entry \in new : entry.name = n
<1>1. /\ conf' = conf /\ todo' \subseteq todo /\ items' = items /\ planetTypes' = planetTypes
      /\ conf[i].key = "ports"
      /\ portTypes' = [n \in DOMAIN portTypes \union {entry.name : entry \in new} |->
                         IF n \in DOMAIN portTypes THEN portTypes[n]
                         ELSE SecondPass(Newest(n).children)]
  BY DEF LoadPorts, Load
<1>2. /\ entries \in Seq(ToSet(entries))
      /\ \A j \in DOMAIN entries : GoodChildren(entries[j].children)
  BY <1>1, FilesAre DEF FileKeys
<1>3. bad \in SUBSET DOMAIN entries
  BY DEF BadPorts
<1>4. \A j \in DOMAIN up : j \in DOMAIN entries /\ j \notin bad /\ up[j] = entries[j]
  <2> HIDE DEF entries, bad
  <2> QED
    BY <1>2, <1>3, UpToIs
<1>5. ASSUME NEW entry \in new
      PROVE  GoodType(SecondPass(entry.children))
  <2>1. PICK j \in DOMAIN entries : entry = entries[j] /\ j \notin bad
    BY <1>4 DEF ToSet
  <2>2. FirstPass(entry.children)
    BY <2>1 DEF BadPorts
  <2>3. GoodChildren(entry.children)
    BY <1>2, <2>1
  <2> QED
    BY <2>2, <2>3, SecondPassGood
<1> HIDE DEF new
<1>6. ASSUME NEW n \in DOMAIN portTypes'
      PROVE  GoodType(portTypes'[n])
  <2>1. CASE n \in DOMAIN portTypes
    BY <1>1, <2>1 DEF ConfOK
  <2>2. CASE n \notin DOMAIN portTypes
    <3>1. \E entry \in new : entry.name = n
      BY <1>1, <2>2
    <3>2. Newest(n) \in new
      BY <3>1
    <3>3. portTypes'[n] = SecondPass(Newest(n).children)
      BY <1>1, <2>2
    <3> QED
      BY <1>5, <3>2, <3>3
  <2> QED
    BY <2>1, <2>2
<1>7. \A n \in DOMAIN portTypes' : GoodType(portTypes[n])'
  BY <1>1, <1>6 DEF GoodType
<1>8. planetTypes' \in Seq(PlanetTypes)'
  <2>1. DOMAIN portTypes \subseteq DOMAIN portTypes'
    BY <1>1
  <2>2. \A p \in Seq(DOMAIN portTypes) : p \in Seq(DOMAIN portTypes')
    BY <2>1, SeqMonotonic
  <2>3. PlanetTypes \subseteq PlanetTypes'
    BY <2>2 DEF PlanetTypes
  <2> QED
    BY <1>1, <2>3, SeqMonotonic DEF ConfOK
<1> QED
  BY <1>1, <1>7, <1>8 DEF ConfOK

(* So does loading a file of planets.                                      *)
LEMMA PlanetsKeep ==
  ASSUME ConfOK, NEW i \in todo, LoadPlanets(i)
  PROVE  ConfOK'
<1> DEFINE entries == Entries(conf[i])
           new == [j \in DOMAIN entries |-> PlanetType(entries[j])]
<1>1. /\ conf' = conf /\ todo' \subseteq todo /\ UNCHANGED <<items, portTypes>>
      /\ conf[i].key = "planets"
      /\ planetTypes' = planetTypes \o new
  BY DEF LoadPlanets, Load
<1>2. /\ entries \in Seq(ToSet(entries))
      /\ \A j \in DOMAIN entries :
           /\ entries[j].zones \in Seq(ToSet(entries[j].zones))
           /\ entries[j].ports \in Seq(ToSet(entries[j].ports))
  BY <1>1, FilesAre DEF FileKeys
<1>3. ASSUME NEW j \in DOMAIN entries
      PROVE  PlanetType(entries[j]) \in PlanetTypes
  <2>1. UpTo(entries[j].zones, Unknown(entries[j].zones, PlanetZones)) \in Seq(PlanetZones)
    BY <1>2, KnownUpTo
  <2>2. UpTo(entries[j].ports, Unknown(entries[j].ports, DOMAIN portTypes)) \in Seq(DOMAIN portTypes)
    BY <1>2, KnownUpTo
  <2>3. ToSet(UpTo(entries[j].zones, Unknown(entries[j].zones, PlanetZones))) \subseteq PlanetZones
    BY <2>1 DEF ToSet
  <2>4. SetLife(entries[j].minlife) \in Nat /\ SetLife(entries[j].maxlife) \in Nat
    BY GenesisAssumption DEF SetLife
  <2> QED
    BY <2>2, <2>3, <2>4 DEF PlanetType, PlanetTypes
<1>4. new \in Seq(PlanetTypes)
  BY <1>2, <1>3
<1>5. planetTypes' \in Seq(PlanetTypes)
  <2> HIDE DEF new
  <2> QED
    BY <1>1, <1>4, ConcatProperties DEF ConfOK
<1>6. PlanetTypes' = PlanetTypes
  BY <1>1 DEF PlanetTypes
<1> QED
  BY <1>1, <1>5, <1>6 DEF ConfOK, GoodType

(* Loading keeps the invariant.                                            *)
LEMMA LoadKeeps ==
  ASSUME ConfInv, LoadStep
  PROVE  ConfInv'
<1>1. CASE BuildListOfFileNames
  BY <1>1 DEF ConfInv, ConfOK, BuildListOfFileNames, univVars, Listed, GoodType, PlanetTypes
<1>2. ASSUME NEW i \in todo, LoadCivs(i) \/ LoadItems(i) \/ LoadShips(i) \/ SkipNames(i)
      PROVE  ConfInv'
  <2>1. /\ conf' = conf /\ todo' \subseteq todo /\ UNCHANGED <<portTypes, planetTypes>>
        /\ items \subseteq items' /\ status' # "loaded"
    <3>1. CASE LoadCivs(i)
      BY <3>1 DEF LoadCivs, Load, StatusIf
    <3>2. CASE LoadItems(i)
      BY <3>2 DEF LoadItems, Load, StatusIf
    <3>3. CASE LoadShips(i)
      BY <3>3 DEF LoadShips, Load, StatusIf
    <3>4. CASE SkipNames(i)
      BY <3>4 DEF SkipNames, Load, univVars
    <3> QED
      BY <1>2, <3>1, <3>2, <3>3, <3>4
  <2>2. PlanetTypes' = PlanetTypes
    BY <2>1 DEF PlanetTypes
  <2>3. \A t \in DOMAIN portTypes : GoodType(portTypes[t])'
    BY <2>1 DEF ConfInv, ConfOK, GoodType
  <2> QED
    BY <2>1, <2>2, <2>3 DEF ConfInv, ConfOK
<1>3. ASSUME NEW i \in todo, LoadPorts(i)
      PROVE  ConfInv'
  <2>1. ConfOK'
    BY <1>3, PortsKeep DEF ConfInv
  <2>2. status' # "loaded"
    BY <1>3 DEF LoadPorts
  <2> QED
    BY <2>1, <2>2 DEF ConfInv
<1>4. ASSUME NEW i \in todo, LoadPlanets(i)
      PROVE  ConfInv'
  <2>1. ConfOK'
    BY <1>4, PlanetsKeep DEF ConfInv
  <2>2. status' # "loaded"
    BY <1>4 DEF LoadPlanets, StatusIf
  <2> QED
    BY <2>1, <2>2 DEF ConfInv
<1>5. CASE EndOfFiles
  BY <1>5 DEF ConfInv, ConfOK, EndOfFiles, univVars, GoodType, PlanetTypes
<1>6. CASE LoadNames
  BY <1>6 DEF ConfInv, ConfOK, LoadNames, GoodType, PlanetTypes
<1>7. CASE CheckConfig
  BY <1>7 DEF ConfInv, ConfOK, CheckConfig, IsConfigSane, Sane, univVars, GoodType, PlanetTypes
<1> QED
  BY <1>1, <1>2, <1>3, <1>4, <1>5, <1>6, <1>7 DEF LoadStep

-----------------------------------------------------------------------------
(* Signs multiply.                                                         *)
LEMMA SameSign ==
  ASSUME NEW a \in Int, NEW b \in Int, (a >= 0 /\ b >= 0) \/ (a <= 0 /\ b <= 0)
  PROVE  a * b >= 0
OBVIOUS

(* What is drawn for a good lies within bounds, and a port produces what   *)
(* its type produces, and consumes what it consumes.                       *)
LEMMA CargoDrawn ==
  ASSUME NEW good, good.max \in Nat, good.change \in Int, NEW cargo \in Cargos(good)
  PROVE  /\ cargo.amount \in 0..cargo.max
         /\ cargo.requires = good.requires
         /\ cargo.change * good.change >= 0
<1>1. PICK max \in Maxima(good.max) :
        \E change \in Changes(good.change), amount \in Amounts(max) :
          cargo = [max |-> max, change |-> change, amount |-> amount, requires |-> good.requires]
  BY DEF Cargos
<1>2. PICK change \in Changes(good.change), amount \in Amounts(max) :
        cargo = [max |-> max, change |-> change, amount |-> amount, requires |-> good.requires]
  BY <1>1
<1>3. max \in Nat
  <2>1. PICK r \in Drawn(good.max) : max = good.max \div 2 + r
    BY DEF Maxima
  <2>2. r \in Nat
    BY DEF Drawn
  <2> QED
    BY <2>1, <2>2
<1>4. amount \in 0..max
  BY <1>3 DEF Amounts, Drawn
<1>5. change * good.change >= 0
  <2>1. CASE good.change >= 0
    <3>1. PICK r \in Drawn(good.change) : change = good.change \div 2 + r
      BY <2>1 DEF Changes
    <3>2. r \in Nat
      BY <2>1 DEF Drawn
    <3>3. change \in Int /\ change >= 0
      BY <2>1, <3>1, <3>2
    <3> QED
      BY <2>1, <3>3, SameSign
  <2>2. CASE good.change < 0
    <3>1. PICK r \in Drawn(-good.change) : change = -((-good.change) \div 2 + r)
      BY <2>2 DEF Changes
    <3>2. -good.change \in Nat /\ r \in Nat
      BY <2>2 DEF Drawn
    <3>3. change \in Int /\ change <= 0
      BY <2>2, <3>1, <3>2
    <3> QED
      BY <2>2, <3>3, SameSign
  <2> QED
    BY <2>1, <2>2
<1> QED
  BY <1>2, <1>4, <1>5

(* A port made of a good type can be traded with.                          *)
LEMMA MadeTradable ==
  ASSUME NEW p, GoodType(portTypes[p.type]), p.goods \in GoodsFor(portTypes[p.type])
  PROVE  Tradable(p)
<1> DEFINE type == portTypes[p.type]
<1>1. DOMAIN p.goods = DOMAIN type /\ \A n \in DOMAIN type : p.goods[n] \in Cargos(type[n])
  BY DEF GoodsFor
<1>2. ASSUME NEW n \in DOMAIN p.goods
      PROVE  /\ p.goods[n].amount \in 0..p.goods[n].max
             /\ p.goods[n].requires \subseteq DOMAIN p.goods
             /\ p.goods[n].change * type[n].change >= 0
  <2>1. type[n].max \in Nat /\ type[n].change \in Int /\ type[n].requires \subseteq DOMAIN type
    BY <1>1 DEF GoodType
  <2>2. p.goods[n] \in Cargos(type[n])
    BY <1>1
  <2> HIDE DEF type
  <2> QED
    BY <1>1, <2>1, <2>2, CargoDrawn
<1> QED
  BY <1>1, <1>2 DEF Tradable

-----------------------------------------------------------------------------
(* Numbers below the modulus are not changed by it.                        *)
LEMMA SmallMod ==
  ASSUME NEW m \in Nat \ {0}, NEW a \in 0..m - 1
  PROVE  a % m = a
OBVIOUS

(* A remainder lies between nothing and what it is a remainder of.         *)
LEMMA ModIsNat ==
  ASSUME NEW m \in Nat \ {0}, NEW a \in Int
  PROVE  a % m \in 0..m - 1
OBVIOUS

(* From the sun outwards there are the hot zone, the one where life is     *)
(* possible, and the cold.                                                 *)
LEMMA DistanceIs ==
  ASSUME sun \in Suns, NEW z \in PlanetZones, NEW d \in Distances(z)
  PROVE  /\ d \in Nat
         /\ z = "HOT" => d < sun.low
         /\ z = "ECO" => sun.low <= d /\ d < sun.high
         /\ z = "COLD" /\ sun.high <= DistMax => sun.high <= d
<1>1. /\ sun.low \in Nat /\ sun.high \in Nat /\ 0 < sun.low /\ sun.low < sun.high
      /\ DistMax \in Nat /\ UintModulus \in Nat \ {0} /\ DistMax < UintModulus
      /\ sun.high < UintModulus /\ z \in {"HOT", "ECO", "COLD"}
  BY GenesisAssumption
<1>2. CASE z = "HOT"
  BY <1>1, <1>2 DEF Distances, Drawn
<1>3. CASE z = "ECO"
  BY <1>1, <1>3 DEF Distances, Drawn
<1>4. CASE z = "COLD"
  <2> DEFINE range == (DistMax - sun.high) % UintModulus
  <2>1. range \in 0..UintModulus - 1
    <3>1. DistMax - sun.high \in Int
      BY <1>1
    <3> QED
      BY <1>1, <3>1, ModIsNat
  <2>2. PICK r \in Drawn(range) : d = (sun.high + r) % UintModulus
    BY <1>4 DEF Distances
  <2>3. r \in Nat
    BY <2>1 DEF Drawn
  <2>4. d \in 0..UintModulus - 1
    <3>1. sun.high + r \in Int
      BY <1>1, <2>3
    <3> QED
      BY <1>1, <2>2, <3>1, ModIsNat
  <2>5. ASSUME sun.high <= DistMax
        PROVE  sun.high <= d
    <3>1. range = DistMax - sun.high
      <4>1. DistMax - sun.high \in 0..UintModulus - 1
        BY <1>1, <2>5
      <4> QED
        BY <1>1, <4>1, SmallMod
    <3>2. r <= range
      BY <2>1 DEF Drawn
    <3>3. sun.high + r \in 0..UintModulus - 1
      BY <1>1, <2>3, <3>1, <3>2
    <3>4. d = sun.high + r
      BY <1>1, <2>2, <3>3, SmallMod
    <3> QED
      BY <1>1, <2>3, <3>4
  <2> QED
    BY <1>4, <2>4, <2>5
<1> QED
  BY <1>1, <1>2, <1>3, <1>4

(* Whatever is farther from the sun lies in no inner zone.                 *)
LEMMA ZonesInOrder ==
  ASSUME sun \in Suns, sun.high <= DistMax, NEW y \in PlanetZones, NEW z \in PlanetZones,
         NEW d \in Distances(y), NEW e \in Distances(z), d <= e
  PROVE  Outer(y) <= Outer(z)
<1>1. /\ sun.low \in Nat /\ sun.high \in Nat /\ sun.low < sun.high
      /\ y \in {"HOT", "ECO", "COLD"} /\ z \in {"HOT", "ECO", "COLD"}
  BY GenesisAssumption
<1>2. d \in Nat /\ e \in Nat
  BY DistanceIs
<1>3. /\ y = "ECO" => sun.low <= d
      /\ y = "COLD" => sun.high <= d
      /\ z = "HOT" => e < sun.low
      /\ z = "ECO" => e < sun.high
  BY DistanceIs
<1> QED
  BY <1>1, <1>2, <1>3 DEF Outer

-----------------------------------------------------------------------------
(* The sorted planets are the same ones, each once, and in order.          *)
LEMMA Sorts ==
  ASSUME NEW S, NEW seq \in Seq(S), \A i \in DOMAIN seq : seq[i].dist \in Nat
  PROVE  \E f \in Injection(DOMAIN seq, DOMAIN seq) :
           /\ SortByDistance(seq) = [k \in DOMAIN seq |-> seq[f[k]]]
           /\ \A k, l \in DOMAIN seq : k < l => seq[f[k]].dist <= seq[f[l]].dist
<1> DEFINE D == DOMAIN seq
           Nearer(j, i) == \/ seq[j].dist < seq[i].dist
                           \/ seq[j].dist = seq[i].dist /\ j <= i
           Ahead(i) == {j \in D : Nearer(j, i)}
           place == [i \in D |-> PlaceByDistance(seq, i)]
           f == [k \in D |-> CHOOSE i \in D : PlaceByDistance(seq, i) = k]
<1>1. D = 1..Len(seq) /\ Len(seq) \in Nat /\ D \subseteq Nat
  OBVIOUS
<1>2. IsFiniteSet(D) /\ Cardinality(D) = Len(seq)
  <2>0. 1 \in Int /\ Len(seq) \in Int
    BY <1>1
  <2>1. IsFiniteSet(1..Len(seq)) /\ Cardinality(1..Len(seq)) = IF 1 > Len(seq) THEN 0 ELSE Len(seq) - 1 + 1
    BY <2>0, FS_Interval
  <2> QED
    BY <1>1, <2>1
<1>3. ASSUME NEW i \in D
      PROVE  /\ IsFiniteSet(Ahead(i)) /\ Cardinality(Ahead(i)) \in Nat
             /\ Cardinality(Ahead(i)) <= Len(seq) /\ i \in Ahead(i) /\ place[i] \in D
  <2>1. Ahead(i) \in SUBSET D /\ i \in Ahead(i)
    BY <1>1
  <2> HIDE DEF D, Ahead
  <2>2. IsFiniteSet(Ahead(i)) /\ Cardinality(Ahead(i)) <= Len(seq)
    BY <1>2, <2>1, FS_Subset
  <2>3. Cardinality(Ahead(i)) \in Nat /\ Cardinality(Ahead(i)) # 0
    BY <2>1, <2>2, FS_CardinalityType, FS_EmptySet
  <2>4. place[i] = Cardinality(Ahead(i))
    BY DEF PlaceByDistance, Ahead, D
  <2> QED
    BY <1>1, <2>1, <2>2, <2>3, <2>4
<1>4. ASSUME NEW i \in D, NEW j \in D, i # j, Nearer(i, j)
      PROVE  place[i] < place[j]
  <2>1. Ahead(i) \in SUBSET Ahead(j)
    BY <1>1, <1>4
  <2>2. j \notin Ahead(i)
    BY <1>1, <1>4
  <2>3. place[i] = Cardinality(Ahead(i)) /\ place[j] = Cardinality(Ahead(j))
    BY DEF PlaceByDistance
  <2> HIDE DEF D, Ahead, place, Nearer
  <2>4. Cardinality(Ahead(i)) <= Cardinality(Ahead(j)) /\ Cardinality(Ahead(i)) # Cardinality(Ahead(j))
    BY <1>3, <2>1, <2>2, FS_Subset
  <2>5. Cardinality(Ahead(i)) \in Nat /\ Cardinality(Ahead(j)) \in Nat
    BY <1>3
  <2> QED
    BY <2>3, <2>4, <2>5
<1>5. ASSUME NEW i \in D, NEW j \in D
      PROVE  Nearer(i, j) \/ Nearer(j, i)
  <2>1. i \in Nat /\ j \in Nat /\ seq[i].dist \in Nat /\ seq[j].dist \in Nat
    BY <1>1
  <2> QED
    BY <2>1
<1>6. place \in Injection(D, D)
  <2>1. place \in [D -> D]
    BY <1>3
  <2>2. ASSUME NEW i \in D, NEW j \in D, place[i] = place[j], i # j
        PROVE  FALSE
    <3>1. place[i] \in Nat /\ place[j] \in Nat
      BY <1>1, <2>1
    <3> HIDE DEF place, Nearer
    <3> QED
      BY <1>4, <1>5, <2>2, <3>1
  <2>3. IsInjective(place)
    BY <2>2 DEF IsInjective
  <2> HIDE DEF place
  <2> QED
    BY <2>1, <2>3 DEF Injection
<1> HIDE DEF place, Nearer, D
<1>7. place \in Surjection(D, D)
  BY <1>2, <1>6, FS_Injection
<1>8. ASSUME NEW k \in D
      PROVE  f[k] \in D /\ place[f[k]] = k
  BY <1>7 DEF Surjection, place
<1>9. f \in Injection(D, D)
  <2>1. f \in [D -> D]
    BY <1>8
  <2> HIDE DEF f
  <2>2. \A k, l \in D : f[k] = f[l] => k = l
    BY <1>8
  <2> QED
    BY <2>1, <2>2 DEF Injection, IsInjective
<1>10. SortByDistance(seq) = [k \in D |-> seq[f[k]]]
  BY DEF SortByDistance, D
<1> HIDE DEF f
<1>11. ASSUME NEW k \in D, NEW l \in D, k < l
       PROVE  seq[f[k]].dist <= seq[f[l]].dist
  <2>1. f[k] \in D /\ f[l] \in D /\ place[f[k]] = k /\ place[f[l]] = l /\ k \in Nat /\ l \in Nat
    BY <1>1, <1>8
  <2>2. f[k] # f[l]
    BY <1>11, <2>1
  <2>3. ~Nearer(f[l], f[k])
    <3> SUFFICES ASSUME Nearer(f[l], f[k])
                 PROVE  FALSE
      OBVIOUS
    <3>1. place[f[l]] < place[f[k]]
      BY <1>4, <2>1, <2>2
    <3> QED
      BY <1>11, <2>1, <3>1
  <2>4. Nearer(f[k], f[l])
    BY <1>5, <2>1, <2>3
  <2>5. seq[f[k]].dist \in Nat /\ seq[f[l]].dist \in Nat
    BY <2>1 DEF D
  <2> QED
    BY <2>4, <2>5 DEF Nearer
<1> QED
  BY <1>9, <1>10, <1>11 DEF D

-----------------------------------------------------------------------------
(* The planets and ports that are made.                                    *)
AllGoods == UNION {GoodsFor(portTypes[t]) : t \in DOMAIN portTypes}

GoodsOfType(p) == p.goods \in GoodsFor(portTypes[p.type])

Nameless == {p \in [type : DOMAIN portTypes, goods : AllGoods] : GoodsOfType(p)}

Ports == {p \in [name : taken, type : DOMAIN portTypes, goods : AllGoods] : GoodsOfType(p)}

Planets == {p \in [name : Nat, zone : PlanetZones, type : DOMAIN planetTypes, dist : Nat,
                   life : Int, ports : Seq(Ports)] : p.dist \in Distances(p.zone)}

AtMostOne(S) == {<<>>} \union {<<x>> : x \in S}

GenTypes == /\ sun \in Suns /\ wanted \in Nat /\ coming \in Nat
            /\ zone \in PlanetZones \union {Undrawn}
            /\ planet \in AtMostOne(Planets) /\ port \in AtMostOne(Nameless)
            /\ planets \in Seq(Planets)

NamesOnce(ps) ==
  \A i, j \in DOMAIN ps : \A k \in DOMAIN ps[i].ports, l \in DOMAIN ps[j].ports :
    ps[i].ports[k].name = ps[j].ports[l].name => i = j /\ k = l

(* The planets of the system, and the one that is being made.              *)
Made == planets \o planet

(* Nothing is made before everything is loaded.                            *)
Quiet == /\ zone = Undrawn /\ planet = <<>> /\ port = <<>>
         /\ planets = <<>> /\ taken = {} /\ coming = 0 /\ wanted = 0

Preparing == {"building", "loading", "naming", "checking", "loaded"}

GenOK == /\ GenTypes
         /\ zone # Undrawn => Len(planets) < wanted
         /\ planet # <<>> => zone # Undrawn
         /\ port # <<>> => planet # <<>> /\ coming > 0
         /\ NamesOnce(Made)

GenInv == /\ GenOK
          /\ status \in Preparing => Quiet
          /\ status = "populated" => Len(planets) = wanted

(* A sequence with another one of at most one element behind it.           *)
LEMMA OneMore ==
  ASSUME NEW S, NEW ps \in Seq(S), NEW p \in S
  PROVE  /\ ps \o <<>> = ps
         /\ ps \o <<p>> \in Seq(S)
         /\ DOMAIN (ps \o <<p>>) = 1..Len(ps) + 1
         /\ Len(ps) \in Nat
         /\ \A i \in 1..Len(ps) : (ps \o <<p>>)[i] = ps[i]
         /\ (ps \o <<p>>)[Len(ps) + 1] = p
<1>1. ps \o <<>> = ps
  BY ConcatEmptySeq
<1>2. <<p>> \in Seq(S) /\ Len(<<p>>) = 1 /\ <<p>>[1] = p /\ Len(ps) \in Nat
  OBVIOUS
<1> DEFINE one == <<p>>
<1> HIDE DEF one
<1>3. /\ ps \o one \in Seq(S)
      /\ Len(ps \o one) = Len(ps) + Len(one)
      /\ \A i \in 1..Len(ps) + Len(one) :
           (ps \o one)[i] = IF i <= Len(ps) THEN ps[i] ELSE one[i - Len(ps)]
  <2>1. one \in Seq(S)
    BY <1>2 DEF one
  <2> QED
    BY <2>1, ConcatProperties
<1>4. Len(one) = 1 /\ one[1] = p
  BY <1>2 DEF one
<1>5. DOMAIN (ps \o one) = 1..Len(ps) + 1
  BY <1>2, <1>3, <1>4
<1>6. \A i \in 1..Len(ps) : (ps \o one)[i] = ps[i]
  BY <1>2, <1>3, <1>4
<1>7. (ps \o one)[Len(ps) + 1] = p
  <2>1. Len(ps) + 1 \in 1..Len(ps) + Len(one) /\ ~(Len(ps) + 1 <= Len(ps)) /\ Len(ps) + 1 - Len(ps) = 1
    BY <1>2, <1>4
  <2> QED
    BY <1>3, <1>4, <2>1
<1> QED
  BY <1>1, <1>2, <1>3, <1>5, <1>6, <1>7 DEF one

(* What the sets depend on is loaded, but for the names that are taken.    *)
LEMMA SameSets ==
  ASSUME UNCHANGED <<items, portTypes, planetTypes, sun>>, taken \subseteq taken'
  PROVE  Nameless' = Nameless /\ Ports \subseteq Ports' /\ Planets \subseteq Planets'
<1>1. AllGoods' = AllGoods
  BY DEF AllGoods
<1>2. \A p : GoodsOfType(p)' <=> GoodsOfType(p)
  BY DEF GoodsOfType
<1>3. Nameless' = Nameless /\ Ports \subseteq Ports'
  BY <1>1, <1>2 DEF Nameless, Ports
<1>4. \A z : Distances(z)' = Distances(z)
  BY DEF Distances
<1>5. ASSUME NEW p \in Planets
      PROVE  p \in Planets'
  <2>1. p.ports \in Seq(Ports')
    BY <1>3, SeqMonotonic DEF Planets
  <2> QED
    BY <1>4, <2>1 DEF Planets
<1> QED
  BY <1>3, <1>5

-----------------------------------------------------------------------------
(* A new planet has a distance and a life, and no ports yet.               *)
LEMMA AcceptKeeps ==
  ASSUME ConfOK, GenOK, NEW t \in DOMAIN planetTypes, AcceptType(t)
  PROVE  GenOK'
<1>1. /\ UNCHANGED <<items, portTypes, planetTypes, sun, wanted, zone, port, planets, taken>>
      /\ planet = <<>> /\ zone # Undrawn
  BY DEF AcceptType, confVars, univVars
<1>2. PICK dist \in Distances(zone), life \in Lives(planetTypes[t]) :
        planet' = <<[name |-> 0, zone |-> zone, type |-> t, dist |-> dist, life |-> life,
                     ports |-> <<>>]>>
  BY DEF AcceptType
<1> DEFINE p == [name |-> 0, zone |-> zone, type |-> t, dist |-> dist, life |-> life,
                 ports |-> <<>>]
<1>3. p \in Planets
  <2>1. zone \in PlanetZones /\ sun \in Suns
    BY <1>1 DEF GenOK, GenTypes
  <2>2. dist \in Nat
    BY <2>1, DistanceIs
  <2>3. life \in Int
    <3>1. planetTypes[t].minlife \in Nat /\ planetTypes[t].maxlife \in Nat
      <4>1. planetTypes[t] \in PlanetTypes
        BY DEF ConfOK
      <4> QED
        BY <4>1 DEF PlanetTypes
    <3>2. PICK r \in Drawn((planetTypes[t].maxlife - planetTypes[t].minlife) % UintModulus) :
            life = (planetTypes[t].minlife + r) % UintModulus
      BY DEF Lives
    <3>3. UintModulus \in Nat \ {0}
      BY GenesisAssumption
    <3>4. planetTypes[t].maxlife - planetTypes[t].minlife \in Int
      BY <3>1
    <3>5. (planetTypes[t].maxlife - planetTypes[t].minlife) % UintModulus \in Nat
      BY <3>3, <3>4, ModIsNat
    <3>6. r \in Int
      BY <3>5 DEF Drawn
    <3>7. planetTypes[t].minlife + r \in Int
      BY <3>1, <3>6
    <3> QED
      BY <3>2, <3>3, <3>7, ModIsNat
  <2> QED
    BY <2>1, <2>2, <2>3 DEF Planets
<1>4. coming' \in Nat
  <2>1. MaxPorts \in Nat
    BY GenesisAssumption
  <2>2. coming' \in IF planetTypes[t].ports = <<>> THEN {0} ELSE 0..MaxPorts
    BY DEF AcceptType
  <2> QED
    BY <2>1, <2>2
<1>5. p.ports = <<>> /\ planet' = <<p>>
  BY <1>2
<1> HIDE DEF p
<1>6. GenTypes'
  BY <1>1, <1>3, <1>4, <1>5, SameSets, SeqMonotonic DEF GenOK, GenTypes, AtMostOne
<1>7. NamesOnce(Made)'
  <2>1. planets \in Seq(Planets)
    BY DEF GenOK, GenTypes
  <2>2. /\ Made = planets /\ Made' = planets \o <<p>>
        /\ DOMAIN Made' = 1..Len(planets) + 1 /\ Len(planets) \in Nat
        /\ DOMAIN planets = 1..Len(planets)
        /\ \A i \in 1..Len(planets) : Made'[i] = planets[i]
        /\ Made'[Len(planets) + 1] = p
    BY <1>1, <1>3, <1>5, <2>1, OneMore DEF Made
  <2>3. NamesOnce(planets)
    BY <2>2 DEF GenOK
  <2>4. ASSUME NEW i \in DOMAIN Made', Made'[i].ports # <<>>
        PROVE  i \in DOMAIN planets /\ Made'[i] = planets[i]
    BY <1>5, <2>2, <2>4
  <2>5. DOMAIN <<>> = {}
    OBVIOUS
  <2> QED
    BY <2>3, <2>4, <2>5 DEF NamesOnce
<1> QED
  BY <1>1, <1>6, <1>7 DEF GenOK

(* A port gets the goods of its type.                                      *)
LEMMA PortKeeps ==
  ASSUME ConfOK, GenOK, PortGenesis
  PROVE  GenOK'
<1>1. /\ UNCHANGED <<items, portTypes, planetTypes, sun, wanted, zone, coming, planet, planets, taken>>
      /\ planet # <<>> /\ coming > 0
  BY DEF PortGenesis, confVars, univVars
<1> DEFINE type == planetTypes[planet[1].type]
<1>2. type.ports \in Seq(DOMAIN portTypes)
  <2>1. PICK p \in Planets : planet = <<p>>
    BY <1>1 DEF GenOK, GenTypes, AtMostOne
  <2>2. planet[1] = p /\ p.type \in DOMAIN planetTypes
    BY <2>1 DEF Planets
  <2>3. type \in PlanetTypes
    BY <2>2 DEF ConfOK
  <2> QED
    BY <2>3 DEF PlanetTypes
<1>3. PICK name \in ToSet(type.ports) : \E goods \in GoodsFor(portTypes[name]) :
        port' = <<[type |-> name, goods |-> goods]>>
  BY DEF PortGenesis
<1>4. PICK goods \in GoodsFor(portTypes[name]) : port' = <<[type |-> name, goods |-> goods]>>
  BY <1>3
<1> HIDE DEF type
<1>5. name \in DOMAIN portTypes
  BY <1>2 DEF ToSet
<1>6. [type |-> name, goods |-> goods] \in Nameless
  BY <1>5 DEF Nameless, AllGoods, GoodsOfType
<1>7. GenTypes'
  BY <1>1, <1>4, <1>6, SameSets, SeqMonotonic DEF GenOK, GenTypes, AtMostOne
<1> QED
  BY <1>1, <1>7 DEF GenOK, Made, NamesOnce

(* A port gets a name that no other port has.                              *)
LEMMA NameKeeps ==
  ASSUME GenOK, NEW name, NamePort(name)
  PROVE  GenOK'
<1>1. /\ UNCHANGED <<items, portTypes, planetTypes, sun, wanted, zone, planets>>
      /\ planet # <<>> /\ port # <<>> /\ zone # Undrawn /\ port' = <<>>
      /\ name \notin taken /\ taken' = taken \union {name}
      /\ coming' = coming - 1
  BY DEF NamePort, Taken, confVars, univVars, GenOK
<1>2. PICK p \in Planets : planet = <<p>>
  BY <1>1 DEF GenOK, GenTypes, AtMostOne
<1>3. PICK bare \in Nameless : port = <<bare>>
  BY <1>1 DEF GenOK, GenTypes, AtMostOne
<1> DEFINE new == [name |-> name, type |-> bare.type, goods |-> bare.goods]
           ports == Append(p.ports, new)
           q == [p EXCEPT !.ports = ports]
<1>4. planet' = <<q>>
  BY <1>2, <1>3 DEF NamePort
<1>5. Nameless' = Nameless /\ Ports \subseteq Ports' /\ Planets \subseteq Planets'
  BY <1>1, SameSets
<1>6. new \in Ports' /\ new.name = name
  <2>1. bare.type \in DOMAIN portTypes /\ bare.goods \in AllGoods /\ GoodsOfType(bare)
    BY DEF Nameless
  <2>2. new \in [name : taken', type : DOMAIN portTypes', goods : AllGoods']
    BY <1>1, <2>1 DEF AllGoods
  <2>3. new.goods \in GoodsFor(portTypes'[new.type])
    BY <1>1, <2>1 DEF GoodsOfType
  <2> HIDE DEF new
  <2>4. new \in Ports'
    BY <2>2, <2>3 DEF Ports, GoodsOfType
  <2> QED
    BY <2>4 DEF new
<1> HIDE DEF new
<1>7. p \in Planets' /\ p.ports \in Seq(Ports) /\ p.ports \in Seq(Ports')
  <2>1. p.ports \in Seq(Ports)
    BY DEF Planets
  <2> QED
    BY <1>5, <2>1, SeqMonotonic
<1>8. /\ ports \in Seq(Ports')
      /\ Len(ports) = Len(p.ports) + 1 /\ Len(p.ports) \in Nat
      /\ \A i \in 1..Len(p.ports) : ports[i] = p.ports[i]
      /\ ports[Len(p.ports) + 1] = new
  BY <1>6, <1>7, AppendProperties
<1> HIDE DEF ports
<1>9. q \in Planets' /\ q.ports = ports
  BY <1>7, <1>8 DEF Planets
<1> HIDE DEF q
<1>10. GenTypes'
  <2>1. coming' \in Nat
    BY <1>1 DEF GenOK, GenTypes
  <2>2. planets' \in Seq(Planets')
    BY <1>1, <1>5, SeqMonotonic DEF GenOK, GenTypes
  <2> QED
    BY <1>1, <1>4, <1>9, <2>1, <2>2 DEF GenOK, GenTypes, AtMostOne
<1>11. NamesOnce(Made)'
  <2> DEFINE n == Len(planets)
             m == Len(p.ports)
             old == planets \o <<p>>
             now == planets \o <<q>>
  <2>1. planets \in Seq(Planets) /\ planets \in Seq(Planets')
    BY <1>5, SeqMonotonic DEF GenOK, GenTypes
  <2>2. /\ DOMAIN old = 1..n + 1 /\ n \in Nat /\ DOMAIN planets = 1..n
        /\ \A i \in 1..n : old[i] = planets[i]
        /\ old[n + 1] = p
    BY <2>1, OneMore
  <2>3. /\ DOMAIN now = 1..n + 1
        /\ \A i \in 1..n : now[i] = planets[i]
        /\ now[n + 1] = q
    BY <1>9, <2>1, OneMore
  <2>4. Made = old /\ Made' = now
    BY <1>1, <1>2, <1>4 DEF Made
  <2> HIDE DEF old, now, n, m
  <2>5. NamesOnce(old)
    BY <2>4 DEF GenOK
  <2>6. ASSUME NEW i \in 1..n + 1
        PROVE  /\ \A k \in DOMAIN old[i].ports : old[i].ports[k].name \in taken
               /\ \A k \in DOMAIN now[i].ports :
                    \/ i = n + 1 /\ k = m + 1 /\ now[i].ports[k].name = name
                    \/ k \in DOMAIN old[i].ports /\ now[i].ports[k].name = old[i].ports[k].name
    <3>1. CASE i = n + 1
      <4>1. DOMAIN p.ports = 1..m /\ DOMAIN q.ports = 1..m + 1 /\ m \in Nat
        BY <1>7, <1>8, <1>9 DEF m
      <4>2. \A k \in 1..m : p.ports[k].name \in taken /\ q.ports[k] = p.ports[k]
        BY <1>7, <1>8, <1>9, <4>1 DEF m, Ports
      <4>3. q.ports[m + 1].name = name
        BY <1>6, <1>8, <1>9 DEF m
      <4> QED
        BY <2>2, <2>3, <3>1, <4>1, <4>2, <4>3
    <3>2. CASE i # n + 1
      <4>1. i \in 1..n
        BY <2>2, <3>2
      <4>2. planets[i] \in Planets /\ old[i] = planets[i] /\ now[i] = planets[i]
        BY <2>1, <2>2, <2>3, <4>1
      <4>3. planets[i].ports \in Seq(Ports)
        BY <4>2 DEF Planets
      <4>4. \A k \in DOMAIN planets[i].ports : planets[i].ports[k].name \in taken
        BY <4>3 DEF Ports
      <4> QED
        BY <4>2, <4>4
    <3> QED
      BY <3>1, <3>2
  <2>7. NamesOnce(now)
    BY <1>1, <2>2, <2>3, <2>5, <2>6 DEF NamesOnce
  <2> QED
    BY <2>4, <2>7 DEF NamesOnce
<1> QED
  BY <1>1, <1>10, <1>11 DEF GenOK

(* The planet that has its ports is added to the system.                   *)
LEMMA PushKeeps ==
  ASSUME GenOK, PushPlanet
  PROVE  GenOK' /\ Len(planets') <= wanted
<1>1. /\ UNCHANGED <<items, portTypes, planetTypes, sun, wanted, coming, port, taken>>
      /\ planet # <<>> /\ coming = 0 /\ zone # Undrawn
      /\ planets' = planets \o planet /\ planet' = <<>> /\ zone' = Undrawn
  BY DEF PushPlanet, confVars, univVars, GenOK
<1>2. PICK p \in Planets : planet = <<p>>
  BY <1>1 DEF GenOK, GenTypes, AtMostOne
<1>3. Nameless' = Nameless /\ Planets \subseteq Planets'
  BY <1>1, SameSets
<1>4. planets \in Seq(Planets) /\ wanted \in Nat /\ Len(planets) < wanted
  BY <1>1 DEF GenOK, GenTypes
<1>5. planets' \in Seq(Planets) /\ DOMAIN planets' = 1..Len(planets) + 1 /\ Len(planets) \in Nat
  BY <1>1, <1>2, <1>4, OneMore
<1>6. planets' \in Seq(Planets')
  BY <1>3, <1>5, SeqMonotonic
<1>7. Made' = Made
  <2>1. planets' \o <<>> = planets'
    BY <1>5, ConcatEmptySeq
  <2> QED
    BY <1>1, <2>1 DEF Made
<1>8. Len(planets') = Len(planets) + 1
  BY <1>5
<1> QED
  BY <1>1, <1>3, <1>4, <1>6, <1>7, <1>8 DEF GenOK, GenTypes, AtMostOne, NamesOnce

(* The planets are named in the order of their distances.                  *)
LEMMA NamedInOrder ==
  ASSUME GenOK, NamePlanets
  PROVE  GenOK' /\ PlanetsInOrder' /\ Len(planets') = wanted
<1>1. /\ UNCHANGED <<items, portTypes, planetTypes, sun, wanted, zone, planet, coming, port, taken>>
      /\ Len(planets) = wanted /\ planets' = NameInOrder(planets)
  BY DEF NamePlanets, univVars, makingVars
<1>2. planets \in Seq(Planets) /\ wanted \in Nat /\ sun \in Suns
  BY DEF GenOK, GenTypes
<1>3. zone = Undrawn /\ planet = <<>> /\ port = <<>>
  BY <1>1, <1>2 DEF GenOK
<1> DEFINE D == DOMAIN planets
<1>4. /\ D = 1..wanted /\ D \subseteq Nat
      /\ \A i \in D : planets[i] \in Planets /\ planets[i].dist \in Nat
                        /\ planets[i].zone \in PlanetZones
                        /\ planets[i].dist \in Distances(planets[i].zone)
  <2>1. D = 1..wanted /\ \A i \in D : planets[i] \in Planets
    BY <1>1, <1>2
  <2> QED
    BY <1>2, <2>1 DEF Planets
<1>5. PICK f \in Injection(D, D) :
        /\ SortByDistance(planets) = [k \in D |-> planets[f[k]]]
        /\ \A k, l \in D : k < l => planets[f[k]].dist <= planets[f[l]].dist
  BY <1>2, <1>4, Sorts
<1>6. f \in [D -> D] /\ \A k, l \in D : f[k] = f[l] => k = l
  BY DEF Injection, IsInjective
<1>7. planets' = [k \in D |-> [planets[f[k]] EXCEPT !.name = k]]
  BY <1>1, <1>5 DEF NameInOrder
<1> HIDE DEF D
<1>8. ASSUME NEW k \in D
      PROVE  /\ planets'[k] \in Planets /\ planets'[k].name = k
             /\ planets'[k].zone = planets[f[k]].zone
             /\ planets'[k].dist = planets[f[k]].dist
             /\ planets'[k].ports = planets[f[k]].ports
  <2>1. planets'[k] = [planets[f[k]] EXCEPT !.name = k]
    BY <1>7
  <2>2. planets[f[k]] \in Planets /\ k \in Nat
    BY <1>4, <1>6
  <2> QED
    BY <2>1, <2>2 DEF Planets
<1>9. DOMAIN planets' = D /\ planets' \in Seq(Planets) /\ Len(planets') = wanted
  <2>1. DOMAIN planets' = 1..wanted /\ \A k \in 1..wanted : planets'[k] \in Planets
    BY <1>4, <1>7, <1>8
  <2>2. planets' = [k \in 1..wanted |-> planets'[k]]
    BY <1>4, <1>7
  <2> QED
    BY <1>2, <1>4, <2>1, <2>2
<1>10. planets' \in Seq(Planets') /\ Nameless' = Nameless /\ planet' \in AtMostOne(Planets')
  BY <1>1, <1>3, <1>9, SameSets, SeqMonotonic DEF AtMostOne
<1>11. Made = planets /\ Made' = planets'
  BY <1>1, <1>2, <1>3, <1>9, ConcatEmptySeq DEF Made
<1>12. NamesOnce(planets)
  BY <1>11 DEF GenOK
<1>13. NamesOnce(Made)'
  BY <1>6, <1>8, <1>9, <1>11, <1>12 DEF NamesOnce, D
<1>14. GenOK'
  BY <1>1, <1>3, <1>10, <1>13 DEF GenOK, GenTypes
<1>15. PlanetsInOrder'
  <2>1. ASSUME NEW k \in D, NEW l \in D, k < l
        PROVE  /\ planets'[k].dist <= planets'[l].dist
               /\ sun.high <= DistMax => Outer(planets'[k].zone) <= Outer(planets'[l].zone)
    <3>1. f[k] \in D /\ f[l] \in D /\ planets[f[k]].dist <= planets[f[l]].dist
      BY <1>5, <1>6, <2>1
    <3>2. sun.high <= DistMax => Outer(planets[f[k]].zone) <= Outer(planets[f[l]].zone)
      BY <1>2, <1>4, <3>1, ZonesInOrder
    <3> QED
      BY <1>8, <3>1, <3>2
  <2>2. \A z : Outer(z)' = Outer(z)
    BY DEF Outer
  <2> QED
    BY <1>1, <1>8, <1>9, <2>1, <2>2 DEF PlanetsInOrder
<1> QED
  BY <1>9, <1>14, <1>15

-----------------------------------------------------------------------------
(* What is loaded fits together, what is made fits what is loaded, and what*)
(* is named is in order.                                                   *)
Inv == ConfInv /\ GenInv /\ PlanetsInOrder

(* Nothing is made while files are loaded.                                 *)
LEMMA LoadMakesNothing ==
  ASSUME Inv, LoadStep, UNCHANGED genesisVars
  PROVE  Inv'
<1>1. status \in Preparing /\ status' # "populated"
  <2>1. CASE BuildListOfFileNames \/ EndOfFiles \/ LoadNames \/ CheckConfig
    BY <2>1 DEF BuildListOfFileNames, EndOfFiles, LoadNames, CheckConfig, Preparing
  <2>2. ASSUME NEW i \in todo, LoadCivs(i) \/ LoadItems(i) \/ LoadShips(i) \/ SkipNames(i)
        PROVE  status = "loading" /\ status' # "populated"
    BY <2>2 DEF LoadCivs, LoadItems, LoadShips, SkipNames, Load, StatusIf
  <2>3. ASSUME NEW i \in todo, LoadPorts(i) \/ LoadPlanets(i)
        PROVE  status = "loading" /\ status' # "populated"
    BY <2>3 DEF LoadPorts, LoadPlanets, Load, StatusIf
  <2> QED
    BY <2>1, <2>2, <2>3 DEF LoadStep, Preparing
<1>2. Quiet /\ Quiet'
  BY <1>1 DEF Inv, GenInv, Quiet, genesisVars, makingVars
<1>3. GenOK'
  <2>1. sun' \in Suns
    BY DEF Inv, GenInv, GenOK, GenTypes, genesisVars
  <2>2. GenTypes'
    BY <1>2, <2>1 DEF Quiet, GenTypes, AtMostOne
  <2>3. Made' = <<>>
    BY <1>2 DEF Made, Quiet
  <2> QED
    BY <1>2, <2>2, <2>3 DEF GenOK, Quiet, NamesOnce
<1>4. ConfInv'
  BY LoadKeeps DEF Inv
<1> QED
  BY <1>1, <1>2, <1>3, <1>4 DEF Inv, GenInv, PlanetsInOrder

(* What is loaded is not changed by what is made of it.                    *)
LEMMA ConfStays ==
  ASSUME ConfInv, UNCHANGED <<conf, todo, univVars>>, status' \in {status, "populating", "populated", "aborted"}
  PROVE  ConfInv'
<1>1. PlanetTypes' = PlanetTypes
  BY DEF PlanetTypes, univVars
<1> QED
  BY <1>1 DEF ConfInv, ConfOK, GoodType, Sane, univVars

(* Nothing is loaded, and nothing made, when the program starts.           *)
LEMMA InitInv == GenesisInit => Inv
<1> SUFFICES ASSUME GenesisInit
             PROVE  Inv
  OBVIOUS
<1>1. ConfInv
  BY DEF GenesisInit, Init, ConfInv, ConfOK
<1>2. GenTypes /\ Made = <<>>
  BY DEF GenesisInit, GenTypes, AtMostOne, Made
<1> QED
  BY <1>1, <1>2 DEF GenesisInit, Init, Inv, GenInv, GenOK, Quiet, NamesOnce, PlanetsInOrder

(* Each step of loading, drawing, making and naming keeps that.            *)
LEMMA NextInv == Inv /\ [Next]_vars => Inv'
<1> SUFFICES ASSUME Inv, [Next]_vars
             PROVE  Inv'
  OBVIOUS
<1>0. ConfOK /\ GenOK /\ ConfInv
  BY DEF Inv, ConfInv, GenInv
<1>1. CASE LoadStep /\ UNCHANGED genesisVars
  BY <1>1, LoadMakesNothing
<1>2. CASE PlanetGennum
  <2>1. ConfInv'
    BY <1>0, <1>2, ConfStays DEF PlanetGennum
  <2>2. Quiet /\ wanted' \in Nat /\ status' = "populating"
    BY <1>2, GenesisAssumption DEF Inv, GenInv, PlanetGennum, Preparing
  <2>3. Planets' = Planets /\ Nameless' = Nameless
    BY <1>2 DEF PlanetGennum, Planets, Nameless, Ports, AllGoods, GoodsOfType, Distances, univVars
  <2>4. GenOK'
    BY <1>0, <1>2, <2>2, <2>3 DEF PlanetGennum, GenOK, GenTypes, Quiet, NamesOnce, Made, makingVars
  <2> QED
    BY <2>1, <2>2, <2>4 DEF Inv, GenInv, PlanetsInOrder, Preparing
<1>3. CASE DrawZone
  <2>1. ConfInv'
    BY <1>0, <1>3, ConfStays DEF DrawZone, confVars
  <2>2. Planets' = Planets /\ Nameless' = Nameless
    BY <1>3 DEF DrawZone, confVars, Planets, Nameless, Ports, AllGoods, GoodsOfType, Distances, univVars
  <2>3. GenOK'
    BY <1>0, <1>3, <2>2 DEF DrawZone, GenOK, GenTypes, NamesOnce, Made
  <2>4. status' = "populating"
    BY <1>3 DEF DrawZone, confVars
  <2> QED
    BY <2>1, <2>3, <2>4 DEF Inv, GenInv, PlanetsInOrder, Preparing
<1>4. ASSUME NEW i \in DOMAIN planetTypes, AcceptType(i)
      PROVE  Inv'
  <2>1. ConfInv' /\ status' = status
    BY <1>0, <1>4, ConfStays DEF AcceptType, confVars
  <2>2. GenOK'
    BY <1>0, <1>4, AcceptKeeps
  <2>3. status \notin Preparing /\ status # "populated"
    BY <1>0, <1>4 DEF AcceptType, Inv, GenInv, GenOK, GenTypes, Quiet
  <2> QED
    BY <2>1, <2>2, <2>3 DEF Inv, GenInv, PlanetsInOrder
<1>5. CASE PortGenesis
  <2>1. ConfInv' /\ status' = status
    BY <1>0, <1>5, ConfStays DEF PortGenesis, confVars
  <2>2. GenOK'
    BY <1>0, <1>5, PortKeeps
  <2>3. status \notin Preparing /\ status # "populated"
    BY <1>0, <1>5 DEF PortGenesis, Inv, GenInv, GenOK, GenTypes, Quiet
  <2> QED
    BY <2>1, <2>2, <2>3 DEF Inv, GenInv, PlanetsInOrder
<1>6. ASSUME NEW name, NamePort(name)
      PROVE  Inv'
  <2>1. ConfInv' /\ status' = "populating"
    BY <1>0, <1>6, ConfStays DEF NamePort, confVars
  <2>2. GenOK'
    BY <1>0, <1>6, NameKeeps
  <2> QED
    BY <2>1, <2>2 DEF Inv, GenInv, PlanetsInOrder, Preparing
<1>7. CASE AssertName
  <2>1. ConfInv' /\ status' = "aborted"
    BY <1>0, <1>7, ConfStays DEF AssertName
  <2>2. Planets' = Planets /\ Nameless' = Nameless
    BY <1>7 DEF AssertName, genesisVars, Planets, Nameless, Ports, AllGoods, GoodsOfType, Distances, univVars
  <2>3. GenOK'
    BY <1>0, <1>7, <2>2 DEF AssertName, genesisVars, makingVars, GenOK, GenTypes, NamesOnce, Made
  <2> QED
    BY <2>1, <2>3 DEF Inv, GenInv, PlanetsInOrder, Preparing
<1>8. CASE PushPlanet
  <2>1. ConfInv' /\ status' = status
    BY <1>0, <1>8, ConfStays DEF PushPlanet, confVars
  <2>2. GenOK'
    BY <1>0, <1>8, PushKeeps
  <2>3. status \notin Preparing /\ status # "populated"
    BY <1>0, <1>8 DEF PushPlanet, Inv, GenInv, GenOK, GenTypes, Quiet
  <2> QED
    BY <2>1, <2>2, <2>3 DEF Inv, GenInv, PlanetsInOrder
<1>9. CASE NamePlanets
  <2>1. ConfInv' /\ status' = "populated" /\ wanted' = wanted
    BY <1>0, <1>9, ConfStays DEF NamePlanets
  <2>2. GenOK' /\ PlanetsInOrder' /\ Len(planets') = wanted
    BY <1>0, <1>9, NamedInOrder
  <2> QED
    BY <2>1, <2>2 DEF Inv, GenInv, Preparing
<1>10. CASE UNCHANGED vars
  <2>1. ConfInv' /\ status' = status
    BY <1>0, <1>10, ConfStays DEF vars, confVars
  <2>2. Planets' = Planets /\ Nameless' = Nameless
    BY <1>10 DEF vars, confVars, genesisVars, Planets, Nameless, Ports, AllGoods, GoodsOfType, Distances, univVars
  <2>3. GenOK'
    BY <1>0, <1>10, <2>2 DEF vars, genesisVars, makingVars, GenOK, GenTypes, NamesOnce, Made
  <2> QED
    BY <1>10, <2>1, <2>3 DEF Inv, GenInv, PlanetsInOrder, Quiet, vars, genesisVars, makingVars, Outer
<1> QED
  BY <1>1, <1>2, <1>3, <1>4, <1>5, <1>6, <1>7, <1>8, <1>9, <1>10 DEF Next, RejectType, RedrawName

(* So it always holds.                                                     *)
LEMMA Invariance == Spec => []Inv
<1> QED
  BY InitInv, NextInv, PTL DEF Spec

-----------------------------------------------------------------------------
(***************************************************************************)
(* Whatever the files say, a universe that is loaded refers to nothing     *)
(* that does not exist: the loaders of ports and planets leave out, or     *)
(* give up at, what they do not know.                                      *)
(***************************************************************************)
THEOREM LoadedSoundAlways == Spec => []LoadedSound
<1>1. ASSUME Inv
      PROVE  LoadedSound
  <2>1. ASSUME NEW i \in DOMAIN planetTypes
        PROVE  ToSet(planetTypes[i].ports) \subseteq DOMAIN portTypes
    <3>1. planetTypes[i] \in PlanetTypes
      BY <1>1 DEF Inv, ConfInv, ConfOK
    <3>2. planetTypes[i].ports \in Seq(DOMAIN portTypes)
      BY <3>1 DEF PlanetTypes
    <3> QED
      BY <3>2 DEF ToSet
  <2>2. \A t \in DOMAIN portTypes : \A n \in DOMAIN portTypes[t] :
          n \in items /\ portTypes[t][n].requires \subseteq DOMAIN portTypes[t]
    BY <1>1 DEF Inv, ConfInv, ConfOK, GoodType
  <2> QED
    BY <1>1, <2>1, <2>2 DEF LoadedSound, Inv, ConfInv, Sane
<1> QED
  BY <1>1, Invariance, PTL

(***************************************************************************)
(* The planets are numbered from the sun outwards, and so lie their zones, *)
(* whatever planet_genesis() drew, and however many planets there are.     *)
(***************************************************************************)
THEOREM PlanetsInOrderAlways == Spec => []PlanetsInOrder
<1>1. Inv => PlanetsInOrder
  BY DEF Inv
<1> QED
  BY <1>1, Invariance, PTL

(***************************************************************************)
(* Every port can be traded with, and no two have the same name, whatever  *)
(* port_genesis() drew from the types that were loaded.                    *)
(***************************************************************************)
THEOREM PortsSoundAlways == Spec => []PortsSound
<1>1. ASSUME Inv
      PROVE  PortsSound
  <2>1. /\ planets \in Seq(Planets) /\ planet \in AtMostOne(Planets) /\ NamesOnce(Made)
        /\ \A t \in DOMAIN portTypes : GoodType(portTypes[t])
    BY <1>1 DEF Inv, ConfInv, ConfOK, GenInv, GenOK, GenTypes
  <2>2. NamesOnce(planets)
    <3>1. CASE planet = <<>>
      BY <2>1, <3>1, ConcatEmptySeq DEF Made
    <3>2. CASE planet # <<>>
      <4>1. PICK p \in Planets : planet = <<p>>
        BY <2>1, <3>2 DEF AtMostOne
      <4>2. /\ DOMAIN Made = 1..Len(planets) + 1 /\ Len(planets) \in Nat
            /\ DOMAIN planets = 1..Len(planets)
            /\ \A i \in 1..Len(planets) : Made[i] = planets[i]
        BY <2>1, <4>1, OneMore DEF Made
      <4>3. \A i \in DOMAIN planets : i \in DOMAIN Made /\ Made[i] = planets[i]
        BY <4>2
      <4> QED
        BY <2>1, <4>3 DEF NamesOnce
    <3> QED
      BY <3>1, <3>2
  <2>3. ASSUME NEW i \in DOMAIN planets, NEW k \in DOMAIN planets[i].ports
        PROVE  Tradable(planets[i].ports[k])
    <3>1. planets[i] \in Planets
      BY <2>1
    <3>2. planets[i].ports \in Seq(Ports)
      BY <3>1 DEF Planets
    <3>3. planets[i].ports[k] \in Ports
      BY <3>2
    <3>4. /\ planets[i].ports[k].type \in DOMAIN portTypes
          /\ planets[i].ports[k].goods \in GoodsFor(portTypes[planets[i].ports[k].type])
      BY <3>3 DEF Ports, GoodsOfType
    <3> QED
      BY <2>1, <3>4, MadeTradable
  <2> QED
    BY <2>2, <2>3 DEF PortsSound, NamesOnce
<1> QED
  BY <1>1, Invariance, PTL

-----------------------------------------------------------------------------
(* The entries of the files that are loaded already.                       *)
DonePositions(key) == UNION {{i} \X DOMAIN Entries(conf[i]) : i \in Listed(key) \ todo}

EntriesDone(key) == {EntryAt(p) : p \in DonePositions(key)}

(* So far everything was loaded, and nothing else.                         *)
SoFar ==
  /\ items = {entry.name : entry \in EntriesDone("items")}
  /\ DOMAIN portTypes = {entry.name : entry \in EntriesDone("ports")}
  /\ shipTypes \in Seq(ToSet(shipTypes))
  /\ ToSet(shipTypes) = EntriesDone("ships")
  /\ {type.ports : type \in ToSet(planetTypes)} = {entry.ports : entry \in EntriesDone("planets")}
  /\ civs \in Nat /\ (civs = 0 => Listed("civilizations") \subseteq todo)

Going == {"loading", "naming", "checking"} \union Loaded

Loads ==
  IF status = "building"
  THEN items = {} /\ portTypes = <<>> /\ shipTypes = <<>> /\ planetTypes = <<>> /\ civs = 0
  ELSE /\ status \in Going
       /\ todo \subseteq UNION {Listed(key) : key \in ToSet(Keywords)}
       /\ status # "loading" => todo = {}
       /\ status \in {"checking"} \union Loaded => names = [key \in NameKeys |-> FirstFile(key)]
       /\ SoFar

(* All of a well-formed configuration is.                                  *)
LoadsWell == WellFormed => Loads

(* The elements of a sequence are what it is a sequence of.                *)
LEMMA SeqOfThese ==
  ASSUME NEW S, NEW T, NEW s \in Seq(S), \A i \in DOMAIN s : s[i] \in T
  PROVE  s \in Seq(T)
OBVIOUS

(* Two sequences, one after the other, have the elements of both.          *)
LEMMA RangeOfBoth ==
  ASSUME NEW S, NEW T, NEW a \in Seq(S), NEW b \in Seq(T)
  PROVE  a \o b \in Seq(ToSet(a \o b)) /\ ToSet(a \o b) = ToSet(a) \union ToSet(b)
<1> DEFINE U == S \union T
           c == a \o b
<1>1. a \in Seq(U) /\ b \in Seq(U)
  BY SeqMonotonic
<1> HIDE DEF U
<1>2. /\ c \in Seq(U)
      /\ Len(c) = Len(a) + Len(b)
      /\ \A i \in 1..Len(a) + Len(b) : c[i] = IF i <= Len(a) THEN a[i] ELSE b[i - Len(a)]
  BY <1>1, ConcatProperties
<1> HIDE DEF c
<1>3. /\ DOMAIN a = 1..Len(a) /\ DOMAIN b = 1..Len(b) /\ DOMAIN c = 1..Len(a) + Len(b)
      /\ Len(a) \in Nat /\ Len(b) \in Nat
  BY <1>2
<1>4. \A i \in DOMAIN a : i \in DOMAIN c /\ c[i] = a[i]
  BY <1>2, <1>3
<1>5. ASSUME NEW i \in DOMAIN b
      PROVE  Len(a) + i \in DOMAIN c /\ c[Len(a) + i] = b[i]
  <2>1. Len(a) + i \in 1..Len(a) + Len(b) /\ ~(Len(a) + i <= Len(a)) /\ Len(a) + i - Len(a) = i
    BY <1>3
  <2> QED
    BY <1>2, <1>3, <2>1
<1>6. ASSUME NEW i \in DOMAIN c
      PROVE  c[i] \in ToSet(a) \union ToSet(b)
  <2>1. CASE i <= Len(a)
    BY <1>2, <1>3, <2>1 DEF ToSet
  <2>2. CASE ~(i <= Len(a))
    <3>1. i - Len(a) \in DOMAIN b /\ c[i] = b[i - Len(a)]
      BY <1>2, <1>3, <2>2
    <3> QED
      BY <3>1 DEF ToSet
  <2> QED
    BY <2>1, <2>2
<1>7. ToSet(c) = ToSet(a) \union ToSet(b)
  BY <1>4, <1>5, <1>6 DEF ToSet
<1>8. c \in Seq(ToSet(c))
  <2>1. \A i \in DOMAIN c : c[i] \in ToSet(c)
    BY DEF ToSet
  <2> QED
    BY <1>2, <2>1, SeqOfThese
<1> QED
  BY <1>7, <1>8 DEF c

(* When a file is loaded, its entries are added to those that are loaded.  *)
LEMMA DoneMore ==
  ASSUME NEW i \in todo, NEW key, Load(i, key),
         todo \subseteq UNION {Listed(k) : k \in ToSet(Keywords)}
  PROVE  /\ i \in Listed(key)
         /\ \A k : Listed(k)' = Listed(k)
         /\ EntriesDone(key)' = EntriesDone(key) \union ToSet(Entries(conf[i]))
         /\ \A k : k # key => EntriesDone(k)' = EntriesDone(k)
         /\ \A j : <<i, j>> \notin DonePositions(key)
         /\ \A k : DonePositions(k) \subseteq Positions(k)
         /\ \A j : EntryAt(<<i, j>>) = Entries(conf[i])[j]
         /\ \A j \in DOMAIN Entries(conf[i]) : <<i, j>> \in Positions(key)
<1>1. conf' = conf /\ todo' = todo \ {i} /\ conf[i].key = key
  BY DEF Load
<1>2. i \in Listed(key)
  BY <1>1 DEF Listed
<1>3. \A k : Listed(k)' = Listed(k)
  BY <1>1 DEF Listed
<1>4. \A k : k # key => i \notin Listed(k)
  BY <1>1 DEF Listed
<1>5. \A e : Entries(e)' = Entries(e)
  BY DEF Entries
<1>6. \A k : DonePositions(k)' = UNION {{m} \X DOMAIN Entries(conf[m]) : m \in Listed(k) \ (todo \ {i})}
  BY <1>1, <1>3 DEF DonePositions, Entries
<1>7. DonePositions(key)' = DonePositions(key) \union ({i} \X DOMAIN Entries(conf[i]))
  BY <1>2, <1>6 DEF DonePositions
<1>8. \A k : k # key => DonePositions(k)' = DonePositions(k)
  BY <1>4, <1>6 DEF DonePositions
<1>9. \A j : <<i, j>> \notin DonePositions(key)
  BY DEF DonePositions
<1>10. \A k : DonePositions(k) \subseteq Positions(k)
  BY DEF DonePositions, Positions
<1>11. \A p : EntryAt(p)' = EntryAt(p)
  BY <1>1 DEF EntryAt, Entries
<1>12. \A j : EntryAt(<<i, j>>) = Entries(conf[i])[j]
  BY DEF EntryAt
<1>13. \A j \in DOMAIN Entries(conf[i]) : <<i, j>> \in Positions(key)
  BY <1>2 DEF Positions
<1>14. EntriesDone(key)' = EntriesDone(key) \union ToSet(Entries(conf[i]))
  <2>1. EntriesDone(key)' = {EntryAt(p) : p \in DonePositions(key)'}
    BY <1>11 DEF EntriesDone
  <2>2. {EntryAt(p) : p \in {i} \X DOMAIN Entries(conf[i])} = ToSet(Entries(conf[i]))
    <3>1. ASSUME NEW p \in {i} \X DOMAIN Entries(conf[i])
          PROVE  EntryAt(p) \in ToSet(Entries(conf[i]))
      BY DEF EntryAt, ToSet
    <3>2. ASSUME NEW j \in DOMAIN Entries(conf[i])
          PROVE  \E p \in {i} \X DOMAIN Entries(conf[i]) : EntryAt(p) = Entries(conf[i])[j]
      <4>1. <<i, j>> \in {i} \X DOMAIN Entries(conf[i])
        OBVIOUS
      <4> QED
        BY <1>12, <4>1
    <3>3. \A e \in ToSet(Entries(conf[i])) : \E j \in DOMAIN Entries(conf[i]) : e = Entries(conf[i])[j]
      BY DEF ToSet
    <3> QED
      BY <3>1, <3>2, <3>3
  <2> QED
    BY <1>7, <2>1, <2>2 DEF EntriesDone
<1>15. \A k : k # key => EntriesDone(k)' = EntriesDone(k)
  BY <1>8, <1>11 DEF EntriesDone
<1> QED
  BY <1>2, <1>3, <1>9, <1>10, <1>12, <1>13, <1>14, <1>15

(* What is said of the entries, one by one.                                *)
LEMMA WellFormedIs ==
  ASSUME WellFormed
  PROVE  /\ \A i \in DOMAIN conf : Parsed(i)
         /\ \A p, q \in Positions("ships") : EntryAt(p) = EntryAt(q) => p = q
         /\ \A p, q \in Positions("items") : EntryAt(p).name = EntryAt(q).name => p = q
         /\ \A p, q \in Positions("ports") : EntryAt(p).name = EntryAt(q).name => p = q
         /\ \A p \in Positions("items") : EntryAt(p).keysKnown
         /\ \A p \in Positions("planets") : ToSet(EntryAt(p).ports) \subseteq NamesIn("ports")
BY DEF WellFormed

(* Items are loaded before ports, and ports before planets.                *)
LEMMA InOrderOfKeywords ==
  ASSUME NEW i \in todo
  PROVE  /\ Load(i, "ports") => Listed("items") \intersect todo = {}
         /\ Load(i, "planets") => Listed("ports") \intersect todo = {}
<1>1. DOMAIN Keywords = 1..11
  BY DEF Keywords
<1>2. \A a \in DOMAIN Keywords : /\ Keywords[a] = "items" <=> a = 8
                                 /\ Keywords[a] = "ports" <=> a = 10
                                 /\ Keywords[a] = "planets" <=> a = 11
  BY DEF Keywords
<1>3. ASSUME Load(i, "ports"), NEW j \in Listed("items") \intersect todo
      PROVE  FALSE
  <2>1. conf[i].key = "ports" /\ conf[j].key = "items" /\ Before(i, j)
    BY <1>3 DEF Load, Listed
  <2> QED
    BY <1>1, <1>2, <2>1 DEF Before
<1>4. ASSUME Load(i, "planets"), NEW j \in Listed("ports") \intersect todo
      PROVE  FALSE
  <2>1. conf[i].key = "planets" /\ conf[j].key = "ports" /\ Before(i, j)
    BY <1>4 DEF Load, Listed
  <2> QED
    BY <1>1, <1>2, <2>1 DEF Before
<1> QED
  BY <1>3, <1>4

(* What there is when a file of a well-formed configuration is loaded.     *)
LEMMA LoadIs ==
  ASSUME ConfOK, WellFormed, Loads, NEW i \in todo, NEW key, Load(i, key)
  PROVE  /\ i \in DOMAIN conf /\ conf[i].key = key /\ Parsed(i)
         /\ conf' = conf /\ todo' = todo \ {i} /\ status = "loading"
         /\ todo \subseteq UNION {Listed(k) : k \in ToSet(Keywords)}
         /\ SoFar
<1>1. i \in DOMAIN conf
  BY DEF ConfOK
<1> QED
  BY <1>1, WellFormedIs DEF Load, Loads

(* All goes well if nothing is wrong and everything is taken.              *)
LEMMA LoadsOn ==
  ASSUME ConfOK, WellFormed, Loads, NEW i \in todo, NEW key, Load(i, key),
         status' = "loading", SoFar'
  PROVE  Loads'
<1>1. /\ \A k : Listed(k)' = Listed(k)
      /\ todo' = todo \ {i} /\ todo \subseteq UNION {Listed(k) : k \in ToSet(Keywords)}
  BY LoadIs, DoneMore
<1>2. {Listed(k) : k \in ToSet(Keywords)}' = {Listed(k) : k \in ToSet(Keywords)}
  BY <1>1
<1>3. todo' \subseteq UNION {Listed(k) : k \in ToSet(Keywords)}'
  BY <1>1, <1>2
<1> QED
  BY <1>3 DEF Loads, Going, Loaded

(* What is defined once is not there before it is loaded, nor twice in its *)
(* file.                                                                   *)
LEMMA NotYet ==
  ASSUME ConfOK, WellFormed, Loads, NEW i \in todo, NEW key, Load(i, key),
         NEW j \in DOMAIN Entries(conf[i])
  PROVE  /\ key \in {"items", "ports"} =>
              /\ Entries(conf[i])[j].name \notin {entry.name : entry \in EntriesDone(key)}
              /\ \A l \in DOMAIN Entries(conf[i]) :
                   Entries(conf[i])[l].name = Entries(conf[i])[j].name => l = j
         /\ key = "ships" =>
              /\ Entries(conf[i])[j] \notin EntriesDone(key)
              /\ \A l \in DOMAIN Entries(conf[i]) :
                   Entries(conf[i])[l] = Entries(conf[i])[j] => l = j
<1> DEFINE entries == Entries(conf[i])
<1>1. /\ \A l : <<i, l>> \notin DonePositions(key)
      /\ DonePositions(key) \subseteq Positions(key)
      /\ \A l : EntryAt(<<i, l>>) = entries[l]
      /\ \A l \in DOMAIN entries : <<i, l>> \in Positions(key)
  BY LoadIs, DoneMore
<1> HIDE DEF entries
<1>2. <<i, j>> \in Positions(key) /\ EntryAt(<<i, j>>) = entries[j]
  BY <1>1 DEF entries
<1>3. \A l : <<i, l>> = <<i, j>> => l = j
  OBVIOUS
<1>4. ASSUME key \in {"items", "ports"}
      PROVE  /\ entries[j].name \notin {entry.name : entry \in EntriesDone(key)}
             /\ \A l \in DOMAIN entries : entries[l].name = entries[j].name => l = j
  <2>1. ASSUME NEW p \in Positions(key), EntryAt(p).name = entries[j].name
        PROVE  p = <<i, j>>
    BY <1>2, <1>4, <2>1, WellFormedIs
  <2>2. \A p \in DonePositions(key) : EntryAt(p).name # entries[j].name
    BY <1>1, <2>1
  <2>3. entries[j].name \notin {entry.name : entry \in EntriesDone(key)}
    BY <2>2 DEF EntriesDone
  <2>4. \A l \in DOMAIN entries : entries[l].name = entries[j].name => l = j
    BY <1>1, <1>3, <2>1
  <2> QED
    BY <2>3, <2>4
<1>5. ASSUME key = "ships"
      PROVE  /\ entries[j] \notin EntriesDone(key)
             /\ \A l \in DOMAIN entries : entries[l] = entries[j] => l = j
  <2>1. ASSUME NEW p \in Positions(key), EntryAt(p) = entries[j]
        PROVE  p = <<i, j>>
    BY <1>2, <1>5, <2>1, WellFormedIs
  <2>2. \A p \in DonePositions(key) : EntryAt(p) # entries[j]
    BY <1>1, <2>1
  <2>3. entries[j] \notin EntriesDone(key)
    BY <2>2 DEF EntriesDone
  <2>4. \A l \in DOMAIN entries : entries[l] = entries[j] => l = j
    BY <1>1, <1>3, <2>1
  <2> QED
    BY <2>3, <2>4
<1> QED
  BY <1>4, <1>5 DEF entries

(* Nothing is wrong with a file of items, so all of it is loaded.          *)
LEMMA ItemsAll ==
  ASSUME ConfOK, WellFormed, Loads, NEW i \in todo, LoadItems(i)
  PROVE  Loads'
<1> DEFINE entries == Entries(conf[i])
           bad == BadItems(entries)
<1>1. /\ Load(i, "items")
      /\ status' = StatusIf(Parsed(i) /\ bad = {})
      /\ items' = items \union {entry.name : entry \in ToSet(UpTo(entries, bad))}
      /\ UNCHANGED <<shipTypes, portTypes, planetTypes, civs, names>>
  BY DEF LoadItems
<1>2. Parsed(i) /\ conf[i].key = "items" /\ SoFar
  BY <1>1, LoadIs
<1>3. /\ \A k : Listed(k)' = Listed(k)
      /\ EntriesDone("items")' = EntriesDone("items") \union ToSet(entries)
      /\ \A k : k # "items" => EntriesDone(k)' = EntriesDone(k)
      /\ \A j : EntryAt(<<i, j>>) = entries[j]
      /\ \A j \in DOMAIN entries : <<i, j>> \in Positions("items")
  BY <1>1, LoadIs, DoneMore
<1>4. entries \in Seq(ToSet(entries))
  BY <1>2, FilesAre DEF FileKeys
<1>5. ASSUME NEW j \in DOMAIN entries
      PROVE  j \notin bad
  <2>1. entries[j].keysKnown
    <3>1. <<i, j>> \in Positions("items") /\ EntryAt(<<i, j>>) = entries[j]
      BY <1>3
    <3>2. EntryAt(<<i, j>>).keysKnown
      BY <3>1, WellFormedIs
    <3> QED
      BY <3>1, <3>2
  <2>2. /\ entries[j].name \notin {entry.name : entry \in EntriesDone("items")}
        /\ \A l \in DOMAIN entries : entries[l].name = entries[j].name => l = j
    BY <1>1, NotYet
  <2>3. \A l \in 1..j - 1 : l \in DOMAIN entries /\ l # j
    <3> HIDE DEF entries
    <3> QED
      BY <1>4
  <2> QED
    BY <1>2, <2>1, <2>2, <2>3 DEF BadItems, SoFar
<1>6. bad = {}
  BY <1>5 DEF BadItems
<1>7. status' = "loading" /\ UpTo(entries, bad) = entries
  BY <1>1, <1>2, <1>6 DEF StatusIf, UpTo
<1> HIDE DEF entries, bad
<1>8. items' = {entry.name : entry \in EntriesDone("items")'}
  <2>1. items' = items \union {entry.name : entry \in ToSet(entries)}
    BY <1>1, <1>7
  <2>2. items = {entry.name : entry \in EntriesDone("items")}
    BY <1>2 DEF SoFar
  <2> QED
    BY <1>3, <2>1, <2>2
<1>9. SoFar'
  <2>1. /\ DOMAIN portTypes' = {entry.name : entry \in EntriesDone("ports")'}
        /\ ToSet(shipTypes)' = EntriesDone("ships")'
        /\ {type.ports : type \in ToSet(planetTypes)'} = {entry.ports : entry \in EntriesDone("planets")'}
    BY <1>1, <1>2, <1>3 DEF SoFar, ToSet
  <2>2. /\ shipTypes' \in Seq(ToSet(shipTypes)')
        /\ civs' \in Nat /\ (civs' = 0 => Listed("civilizations")' \subseteq todo')
    <3>1. i \notin Listed("civilizations")
      BY <1>2 DEF Listed
    <3> QED
      BY <1>1, <1>2, <1>3, <3>1 DEF SoFar, Load, ToSet
  <2> QED
    BY <1>8, <2>1, <2>2 DEF SoFar
<1> QED
  BY <1>1, <1>7, <1>9, LoadsOn

(* So are those of ships.                                                  *)
LEMMA ShipsAll ==
  ASSUME ConfOK, WellFormed, Loads, NEW i \in todo, LoadShips(i)
  PROVE  Loads'
<1> DEFINE entries == Entries(conf[i])
           bad == BadShips(entries)
<1>1. /\ Load(i, "ships")
      /\ status' = StatusIf(Parsed(i) /\ bad = {})
      /\ shipTypes' = shipTypes \o UpTo(entries, bad)
      /\ UNCHANGED <<items, portTypes, planetTypes, civs, names>>
  BY DEF LoadShips
<1>2. Parsed(i) /\ conf[i].key = "ships" /\ SoFar
  BY <1>1, LoadIs
<1>3. /\ \A k : Listed(k)' = Listed(k)
      /\ EntriesDone("ships")' = EntriesDone("ships") \union ToSet(entries)
      /\ \A k : k # "ships" => EntriesDone(k)' = EntriesDone(k)
  BY <1>1, LoadIs, DoneMore
<1>4. entries \in Seq(ToSet(entries))
  BY <1>2, FilesAre DEF FileKeys
<1>5. ASSUME NEW j \in DOMAIN entries
      PROVE  j \notin bad
  <2>1. /\ entries[j] \notin EntriesDone("ships")
        /\ \A l \in DOMAIN entries : entries[l] = entries[j] => l = j
    BY <1>1, NotYet
  <2>2. \A l \in 1..j - 1 : l \in DOMAIN entries /\ l # j
    <3> HIDE DEF entries
    <3> QED
      BY <1>4
  <2> QED
    BY <1>2, <2>1, <2>2 DEF BadShips, SoFar
<1>6. bad = {}
  BY <1>5 DEF BadShips
<1>7. status' = "loading" /\ UpTo(entries, bad) = entries
  BY <1>1, <1>2, <1>6 DEF StatusIf, UpTo
<1> HIDE DEF entries, bad
<1>8. /\ shipTypes' \in Seq(ToSet(shipTypes'))
      /\ ToSet(shipTypes') = EntriesDone("ships")'
  <2>1. shipTypes \in Seq(ToSet(shipTypes)) /\ ToSet(shipTypes) = EntriesDone("ships")
    BY <1>2 DEF SoFar
  <2>2. shipTypes' = shipTypes \o entries
    BY <1>1, <1>7
  <2>3. /\ shipTypes \o entries \in Seq(ToSet(shipTypes \o entries))
        /\ ToSet(shipTypes \o entries) = ToSet(shipTypes) \union ToSet(entries)
    BY <1>4, <2>1, RangeOfBoth
  <2> QED
    BY <1>3, <2>1, <2>2, <2>3
<1>9. SoFar'
  <2>1. /\ items' = {entry.name : entry \in EntriesDone("items")'}
        /\ DOMAIN portTypes' = {entry.name : entry \in EntriesDone("ports")'}
        /\ {type.ports : type \in ToSet(planetTypes)'} = {entry.ports : entry \in EntriesDone("planets")'}
    BY <1>1, <1>2, <1>3 DEF SoFar, ToSet
  <2>2. civs' \in Nat /\ (civs' = 0 => Listed("civilizations")' \subseteq todo')
    <3>1. i \notin Listed("civilizations")
      BY <1>2 DEF Listed
    <3> QED
      BY <1>1, <1>2, <1>3, <3>1 DEF SoFar, Load
  <2>3. ToSet(shipTypes)' = ToSet(shipTypes')
    BY DEF ToSet
  <2> QED
    BY <1>8, <2>1, <2>2, <2>3 DEF SoFar
<1> QED
  BY <1>1, <1>7, <1>9, LoadsOn

(* And those of ports, for the items that they name are loaded.            *)
LEMMA PortsAll ==
  ASSUME ConfOK, WellFormed, Loads, NEW i \in todo, LoadPorts(i)
  PROVE  Loads'
<1> DEFINE entries == Entries(conf[i])
           bad == BadPorts(entries)
           new == ToSet(UpTo(entries, bad))
<1>1. /\ Load(i, "ports")
      /\ DOMAIN portTypes' = DOMAIN portTypes \union {entry.name : entry \in new}
      /\ Parsed(i) /\ bad = {} => status' = "loading"
      /\ UNCHANGED <<items, shipTypes, planetTypes, civs, names>>
  BY DEF LoadPorts
<1>2. Parsed(i) /\ conf[i].key = "ports" /\ SoFar
  BY <1>1, LoadIs
<1>3. /\ \A k : Listed(k)' = Listed(k)
      /\ EntriesDone("ports")' = EntriesDone("ports") \union ToSet(entries)
      /\ \A k : k # "ports" => EntriesDone(k)' = EntriesDone(k)
      /\ \A j : EntryAt(<<i, j>>) = entries[j]
      /\ \A j \in DOMAIN entries : <<i, j>> \in Positions("ports")
  BY <1>1, LoadIs, DoneMore
<1>4. entries \in Seq(ToSet(entries))
  BY <1>2, FilesAre DEF FileKeys
<1>5. items = NamesIn("items")
  <2>1. Listed("items") \ todo = Listed("items")
    BY <1>1, InOrderOfKeywords
  <2>2. DonePositions("items") = Positions("items")
    BY <2>1 DEF DonePositions, Positions
  <2> QED
    BY <1>2, <2>2 DEF SoFar, EntriesDone, NamesIn
<1>6. ASSUME NEW j \in DOMAIN entries
      PROVE  j \notin bad
  <2>1. FirstPass(entries[j].children)
    <3>1. <<i, j>> \in Positions("ports") /\ EntryAt(<<i, j>>) = entries[j]
      BY <1>3
    <3>2. FirstPass(EntryAt(<<i, j>>).children)
      BY <1>5, <3>1 DEF WellFormed, FirstPass
    <3> QED
      BY <3>1, <3>2
  <2>2. /\ entries[j].name \notin {entry.name : entry \in EntriesDone("ports")}
        /\ \A l \in DOMAIN entries : entries[l].name = entries[j].name => l = j
    BY <1>1, NotYet
  <2>3. \A l \in 1..j - 1 : l \in DOMAIN entries /\ l # j
    <3> HIDE DEF entries
    <3> QED
      BY <1>4
  <2> QED
    BY <1>2, <2>1, <2>2, <2>3 DEF BadPorts, SoFar
<1>7. bad = {}
  BY <1>6 DEF BadPorts
<1>8. status' = "loading" /\ UpTo(entries, bad) = entries
  BY <1>1, <1>2, <1>7 DEF UpTo
<1> HIDE DEF entries, bad
<1>9. DOMAIN portTypes' = {entry.name : entry \in EntriesDone("ports")'}
  <2>1. DOMAIN portTypes' = DOMAIN portTypes \union {entry.name : entry \in ToSet(entries)}
    BY <1>1, <1>8
  <2>2. DOMAIN portTypes = {entry.name : entry \in EntriesDone("ports")}
    BY <1>2 DEF SoFar
  <2> QED
    BY <1>3, <2>1, <2>2
<1>10. SoFar'
  <2>1. /\ items' = {entry.name : entry \in EntriesDone("items")'}
        /\ ToSet(shipTypes)' = EntriesDone("ships")'
        /\ {type.ports : type \in ToSet(planetTypes)'} = {entry.ports : entry \in EntriesDone("planets")'}
    <3>1. ToSet(shipTypes)' = ToSet(shipTypes) /\ ToSet(planetTypes)' = ToSet(planetTypes)
      BY <1>1 DEF ToSet
    <3> QED
      BY <1>1, <1>2, <1>3, <3>1 DEF SoFar
  <2>2. /\ shipTypes' \in Seq(ToSet(shipTypes)')
        /\ civs' \in Nat /\ (civs' = 0 => Listed("civilizations")' \subseteq todo')
    <3>1. i \notin Listed("civilizations")
      BY <1>2 DEF Listed
    <3> QED
      BY <1>1, <1>2, <1>3, <3>1 DEF SoFar, Load, ToSet
  <2> QED
    BY <1>9, <2>1, <2>2 DEF SoFar
<1> QED
  BY <1>1, <1>8, <1>10, LoadsOn

(* And those of planets, for the ports that they may have are loaded.      *)
LEMMA PlanetsAll ==
  ASSUME ConfOK, WellFormed, Loads, NEW i \in todo, LoadPlanets(i)
  PROVE  Loads'
<1> DEFINE entries == Entries(conf[i])
           new == [j \in DOMAIN entries |-> PlanetType(entries[j])]
<1>1. /\ Load(i, "planets")
      /\ status' = StatusIf(Parsed(i))
      /\ planetTypes' = planetTypes \o new
      /\ UNCHANGED <<items, shipTypes, portTypes, civs, names>>
  BY DEF LoadPlanets
<1>2. Parsed(i) /\ conf[i].key = "planets" /\ SoFar
  BY <1>1, LoadIs
<1>3. /\ \A k : Listed(k)' = Listed(k)
      /\ EntriesDone("planets")' = EntriesDone("planets") \union ToSet(entries)
      /\ \A k : k # "planets" => EntriesDone(k)' = EntriesDone(k)
      /\ \A j : EntryAt(<<i, j>>) = entries[j]
      /\ \A j \in DOMAIN entries : <<i, j>> \in Positions("planets")
  BY <1>1, LoadIs, DoneMore
<1>4. entries \in Seq(ToSet(entries))
  BY <1>2, FilesAre DEF FileKeys
<1>5. DOMAIN portTypes = NamesIn("ports")
  <2>1. Listed("ports") \ todo = Listed("ports")
    BY <1>1, InOrderOfKeywords
  <2>2. DonePositions("ports") = Positions("ports")
    BY <2>1 DEF DonePositions, Positions
  <2> QED
    BY <1>2, <2>2 DEF SoFar, EntriesDone, NamesIn
<1>6. ASSUME NEW j \in DOMAIN entries
      PROVE  PlanetType(entries[j]).ports = entries[j].ports
  <2>1. <<i, j>> \in Positions("planets") /\ EntryAt(<<i, j>>) = entries[j]
    BY <1>3
  <2>2. ToSet(EntryAt(<<i, j>>).ports) \subseteq DOMAIN portTypes
    BY <1>5, <2>1, WellFormedIs
  <2>3. ToSet(entries[j].ports) \subseteq DOMAIN portTypes
    BY <2>1, <2>2
  <2>4. Unknown(entries[j].ports, DOMAIN portTypes) = {}
    BY <2>3 DEF Unknown, ToSet
  <2> QED
    BY <2>4 DEF PlanetType, UpTo
<1>7. status' = "loading"
  BY <1>1, <1>2 DEF StatusIf
<1>8. planetTypes \in Seq(PlanetTypes)
  BY DEF ConfOK
<1>9. new \in Seq(ToSet(new))
  <2>1. DOMAIN new = 1..Len(entries) /\ Len(entries) \in Nat /\ DOMAIN entries = 1..Len(entries)
    BY <1>4
  <2>2. \A j \in DOMAIN new : new[j] \in ToSet(new)
    BY DEF ToSet
  <2>3. \A j \in 1..Len(entries) : PlanetType(entries[j]) \in ToSet(new)
    BY <2>1, <2>2
  <2> HIDE DEF entries
  <2>4. [j \in 1..Len(entries) |-> PlanetType(entries[j])] \in Seq(ToSet(new))
    <3> DEFINE T == ToSet(new)
    <3>1. \A j \in 1..Len(entries) : PlanetType(entries[j]) \in T
      BY <2>3
    <3> HIDE DEF T
    <3>2. [j \in 1..Len(entries) |-> PlanetType(entries[j])] \in Seq(T)
      BY <2>1, <3>1
    <3> QED
      BY <3>2 DEF T
  <2> QED
    BY <2>1, <2>4
<1>10. {type.ports : type \in ToSet(new)} = {entry.ports : entry \in ToSet(entries)}
  <2>1. DOMAIN new = DOMAIN entries /\ \A j \in DOMAIN entries : new[j] = PlanetType(entries[j])
    OBVIOUS
  <2>2. \A j \in DOMAIN entries : new[j].ports = entries[j].ports
    BY <1>6, <2>1
  <2> HIDE DEF new, entries
  <2> QED
    BY <2>1, <2>2 DEF ToSet
<1> HIDE DEF new, entries
<1>11. ToSet(planetTypes') = ToSet(planetTypes) \union ToSet(new)
  BY <1>1, <1>8, <1>9, RangeOfBoth
<1>12. {type.ports : type \in ToSet(planetTypes')} = {entry.ports : entry \in EntriesDone("planets")'}
  <2> DEFINE PortsOf(S) == {e.ports : e \in S}
  <2>1. PortsOf(ToSet(planetTypes)) = PortsOf(EntriesDone("planets"))
    BY <1>2 DEF SoFar
  <2>2. PortsOf(ToSet(new)) = PortsOf(ToSet(entries))
    BY <1>10
  <2>3. \A S, T : PortsOf(S \union T) = PortsOf(S) \union PortsOf(T)
    OBVIOUS
  <2> HIDE DEF PortsOf
  <2>4. PortsOf(ToSet(planetTypes')) = PortsOf(ToSet(planetTypes)) \union PortsOf(ToSet(new))
    BY <1>11, <2>3
  <2>5. PortsOf(EntriesDone("planets")') = PortsOf(EntriesDone("planets")) \union PortsOf(ToSet(entries))
    BY <1>3, <2>3
  <2>6. PortsOf(ToSet(planetTypes')) = PortsOf(EntriesDone("planets")')
    BY <2>1, <2>2, <2>4, <2>5
  <2> QED
    BY <2>6 DEF PortsOf
<1>13. SoFar'
  <2>1. /\ items' = {entry.name : entry \in EntriesDone("items")'}
        /\ DOMAIN portTypes' = {entry.name : entry \in EntriesDone("ports")'}
    BY <1>1, <1>2, <1>3 DEF SoFar
  <2>2. shipTypes' \in Seq(ToSet(shipTypes)') /\ ToSet(shipTypes)' = EntriesDone("ships")'
    <3>1. ToSet(shipTypes)' = ToSet(shipTypes)
      BY <1>1 DEF ToSet
    <3> QED
      BY <1>1, <1>2, <1>3, <3>1 DEF SoFar
  <2>3. civs' \in Nat /\ (civs' = 0 => Listed("civilizations")' \subseteq todo')
    <3>1. i \notin Listed("civilizations")
      BY <1>2 DEF Listed
    <3> QED
      BY <1>1, <1>2, <1>3, <3>1 DEF SoFar, Load
  <2>4. ToSet(planetTypes)' = ToSet(planetTypes')
    BY DEF ToSet
  <2> QED
    BY <1>12, <2>1, <2>2, <2>3, <2>4 DEF SoFar
<1> QED
  BY <1>1, <1>7, <1>13, LoadsOn

(* Nothing is made of the files of civilizations and of names here.        *)
LEMMA OthersAll ==
  ASSUME ConfOK, WellFormed, Loads, NEW i \in todo, LoadCivs(i) \/ SkipNames(i)
  PROVE  Loads'
<1>1. PICK key \in {"civilizations"} \union NameKeys : Load(i, key)
  BY DEF LoadCivs, SkipNames
<1>2. Parsed(i) /\ conf[i].key = key /\ SoFar /\ status = "loading"
  BY <1>1, LoadIs
<1>3. /\ status' = "loading" /\ UNCHANGED <<items, shipTypes, portTypes, planetTypes, names>>
      /\ civs' = civs + 1 \/ (key # "civilizations" /\ civs' = civs)
  <2>1. CASE LoadCivs(i)
    BY <1>2, <2>1 DEF LoadCivs, StatusIf
  <2>2. CASE SkipNames(i)
    <3>1. conf[i].key \in NameKeys
      BY <2>2 DEF SkipNames, Load
    <3> QED
      BY <1>2, <2>2, <3>1 DEF SkipNames, univVars, NameKeys
  <2> QED
    BY <2>1, <2>2
<1>4. key \notin FileKeys
  BY DEF FileKeys, NameKeys
<1>5. /\ \A k : Listed(k)' = Listed(k)
      /\ \A k \in FileKeys : EntriesDone(k)' = EntriesDone(k)
  BY <1>1, <1>4, LoadIs, DoneMore
<1>6. ToSet(shipTypes)' = ToSet(shipTypes) /\ ToSet(planetTypes)' = ToSet(planetTypes)
  BY <1>3 DEF ToSet
<1>7. civs' \in Nat /\ (civs' = 0 => Listed("civilizations")' \subseteq todo')
  <2>1. CASE civs' = civs + 1
    BY <1>2, <2>1 DEF SoFar
  <2>2. CASE key # "civilizations" /\ civs' = civs
    <3>1. i \notin Listed("civilizations")
      BY <1>2, <2>2 DEF Listed
    <3> QED
      BY <1>1, <1>2, <1>5, <2>2, <3>1 DEF SoFar, Load
  <2> QED
    BY <1>3, <2>1, <2>2
<1>8. SoFar'
  <2>1. EntriesDone("items")' = EntriesDone("items") /\ EntriesDone("ports")' = EntriesDone("ports")
    BY <1>5 DEF FileKeys
  <2>2. EntriesDone("ships")' = EntriesDone("ships") /\ EntriesDone("planets")' = EntriesDone("planets")
    BY <1>5 DEF FileKeys
  <2> QED
    BY <1>2, <1>3, <1>6, <1>7, <2>1, <2>2 DEF SoFar
<1> QED
  BY <1>1, <1>3, <1>8, LoadsOn

(* The first things to do, when there is nothing yet.                      *)
LEMMA ListsBuilt ==
  ASSUME ConfOK, WellFormed, Loads, BuildListOfFileNames
  PROVE  Loads'
<1>1. /\ status = "building" /\ status' = "loading" /\ conf' = conf
      /\ todo' = UNION {Listed(key) : key \in ToSet(Keywords)}
      /\ UNCHANGED univVars
  BY DEF BuildListOfFileNames
<1>2. items' = {} /\ portTypes' = <<>> /\ shipTypes' = <<>> /\ planetTypes' = <<>> /\ civs' = 0
  BY <1>1 DEF Loads, univVars
<1>3. \A k : Listed(k)' = Listed(k)
  BY <1>1 DEF Listed
<1>4. \A key \in ToSet(Keywords) : Listed(key) \subseteq todo'
  BY <1>1
<1>5. {"items", "ports", "ships", "planets", "civilizations"} \subseteq ToSet(Keywords)
  <2>1. DOMAIN Keywords = 1..11
    BY DEF Keywords
  <2>2. /\ Keywords[8] = "items" /\ Keywords[9] = "ships" /\ Keywords[10] = "ports"
        /\ Keywords[11] = "planets" /\ Keywords[1] = "civilizations"
    BY DEF Keywords
  <2>3. 8 \in 1..11 /\ 9 \in 1..11 /\ 10 \in 1..11 /\ 11 \in 1..11 /\ 1 \in 1..11
    OBVIOUS
  <2> QED
    BY <2>1, <2>2, <2>3 DEF ToSet
<1>6. ASSUME NEW key \in ToSet(Keywords)
      PROVE  EntriesDone(key)' = {}
  <2>1. (Listed(key) \ todo)' = {}
    BY <1>3, <1>4
  <2>2. DonePositions(key)' = {}
    BY <2>1 DEF DonePositions
  <2> QED
    BY <2>2 DEF EntriesDone
<1>7. /\ EntriesDone("items")' = {} /\ EntriesDone("ports")' = {}
      /\ EntriesDone("ships")' = {} /\ EntriesDone("planets")' = {}
      /\ Listed("civilizations")' \subseteq todo'
  BY <1>3, <1>4, <1>5, <1>6
<1>8. /\ ToSet(shipTypes)' = {} /\ ToSet(planetTypes)' = {}
      /\ DOMAIN portTypes' = {} /\ shipTypes' \in Seq({})
  BY <1>2 DEF ToSet
<1>9. SoFar'
  BY <1>2, <1>7, <1>8 DEF SoFar
<1>10. todo' \subseteq UNION {Listed(key)' : key \in ToSet(Keywords)}
  BY <1>1, <1>3
<1> QED
  BY <1>1, <1>9, <1>10 DEF Loads, Going, Loaded

(* What is loaded of a well-formed configuration stays so.                 *)
LEMMA StaysLoaded ==
  ASSUME Loads, status # "building", status' \in Going, UNCHANGED <<conf, todo>>,
         UNCHANGED <<items, shipTypes, portTypes, planetTypes, civs>>,
         status' # "loading" => todo = {},
         status' \in {"checking"} \union Loaded => names' = [key \in NameKeys |-> FirstFile(key)]
  PROVE  Loads'
<1>1. /\ \A k : Listed(k)' = Listed(k)
      /\ \A k : FirstFile(k)' = FirstFile(k)
  BY DEF Listed, FirstFile
<1>2. \A k : EntriesDone(k)' = EntriesDone(k)
  BY DEF EntriesDone, DonePositions, EntryAt, Listed, Entries
<1>3. ToSet(shipTypes)' = ToSet(shipTypes) /\ ToSet(planetTypes)' = ToSet(planetTypes)
  BY DEF ToSet
<1>4. SoFar /\ todo \subseteq UNION {Listed(key) : key \in ToSet(Keywords)}
  BY DEF Loads
<1>5. SoFar'
  BY <1>1, <1>2, <1>3, <1>4 DEF SoFar
<1>6. todo' \subseteq UNION {Listed(key)' : key \in ToSet(Keywords)}
  BY <1>1, <1>4
<1>7. [key \in NameKeys |-> FirstFile(key)]' = [key \in NameKeys |-> FirstFile(key)]
  BY <1>1
<1>8. status' # "building"
  BY DEF Going, Loaded
<1> QED
  BY <1>5, <1>6, <1>7, <1>8 DEF Loads

(* When no file is left, all of every file is loaded.                      *)
LEMMA AllLoaded ==
  ASSUME WellFormed, Loads, status \in {"checking"} \union Loaded
  PROVE  /\ items = NamesIn("items")
         /\ DOMAIN portTypes = NamesIn("ports")
         /\ ToSet(shipTypes) = {EntryAt(p) : p \in Positions("ships")}
         /\ {type.ports : type \in ToSet(planetTypes)} = {EntryAt(p).ports : p \in Positions("planets")}
         /\ civs > 0
         /\ \A key \in NameKeys : names[key] # {}
<1>1. /\ SoFar /\ todo = {}
      /\ names = [key \in NameKeys |-> FirstFile(key)]
  BY DEF Loads, Loaded
<1>2. \A k : DonePositions(k) = Positions(k)
  BY <1>1 DEF DonePositions, Positions
<1>3. \A k : EntriesDone(k) = {EntryAt(p) : p \in Positions(k)}
  BY <1>2 DEF EntriesDone
<1>4. \A key \in NameKeys : names[key] # {}
  BY <1>1 DEF WellFormed
<1>5. civs > 0
  <2>1. "civilizations" \in ToSet(Keywords)
    <3>1. 1 \in DOMAIN Keywords /\ Keywords[1] = "civilizations"
      BY DEF Keywords
    <3> QED
      BY <3>1 DEF ToSet
  <2>2. Listed("civilizations") # {}
    BY <2>1 DEF WellFormed
  <2> QED
    BY <1>1, <2>2 DEF SoFar
<1>6. /\ items = NamesIn("items") /\ DOMAIN portTypes = NamesIn("ports")
      /\ ToSet(shipTypes) = {EntryAt(p) : p \in Positions("ships")}
  BY <1>1, <1>3 DEF SoFar, NamesIn
<1>7. {type.ports : type \in ToSet(planetTypes)} = {EntryAt(p).ports : p \in Positions("planets")}
  <2>1. {type.ports : type \in ToSet(planetTypes)} = {entry.ports : entry \in EntriesDone("planets")}
    BY <1>1 DEF SoFar
  <2>2. EntriesDone("planets") = {EntryAt(p) : p \in Positions("planets")}
    BY <1>3
  <2>3. {entry.ports : entry \in EntriesDone("planets")} = {EntryAt(p).ports : p \in Positions("planets")}
    BY <2>2
  <2> QED
    BY <2>1, <2>3
<1> QED
  BY <1>4, <1>5, <1>6, <1>7

(* It is not refused, then.                                                *)
LEMMA SaneThen ==
  ASSUME WellFormed, Loads, status = "checking"
  PROVE  IsConfigSane
<1>1. /\ items = NamesIn("items")
      /\ DOMAIN portTypes = NamesIn("ports")
      /\ ToSet(shipTypes) = {EntryAt(p) : p \in Positions("ships")}
      /\ {type.ports : type \in ToSet(planetTypes)} = {EntryAt(p).ports : p \in Positions("planets")}
      /\ civs > 0
      /\ \A key \in NameKeys : names[key] # {}
  BY AllLoaded
<1>2. /\ Positions("items") # {} /\ Positions("ports") # {}
      /\ Positions("ships") # {} /\ Positions("planets") # {}
  BY DEF WellFormed, FileKeys
<1>3. items # {} /\ DOMAIN portTypes # {}
  BY <1>1, <1>2 DEF NamesIn
<1>4. ToSet(shipTypes) # {} /\ ToSet(planetTypes) # {}
  BY <1>1, <1>2
<1>5. shipTypes # <<>> /\ planetTypes # <<>>
  BY <1>4 DEF ToSet
<1>6. /\ names["constellations"] # {} /\ names["placenames"] # {} /\ names["firstnames"] # {}
  BY <1>1 DEF NameKeys
<1> QED
  BY <1>1, <1>3, <1>5, <1>6 DEF IsConfigSane

(* Nor is there a name of no words.                                        *)
LEMMA NamesHaveWords ==
  ASSUME WellFormed, Loads, status = "populating"
  PROVE  <<>> \notin CreateName
<1>1. names["placeprefix"] # {} /\ names["placenames"] # {} /\ names["placesuffix"] # {}
  BY AllLoaded DEF NameKeys, Loaded
<1>2. ASSUME NEW S, S # {}, NEW T, T # {}, NEW w \in Word(S) \X Word(T)
      PROVE  w[1] \o w[2] # <<>>
  <2>1. PICK s \in S, t \in T : w[1] = <<s>> /\ w[2] = <<t>>
    BY <1>2 DEF Word
  <2> DEFINE U == {s, t}
             a == w[1]
             b == w[2]
  <2>2. a \in Seq(U) /\ b \in Seq(U) /\ Len(a) = 1 /\ Len(b) = 1
    BY <2>1
  <2> HIDE DEF U, a, b
  <2>3. Len(a \o b) = Len(a) + Len(b)
    BY <2>2, ConcatProperties
  <2>4. a \o b # <<>>
    BY <2>2, <2>3
  <2> QED
    BY <2>4 DEF a, b
<1> QED
  BY <1>1, <1>2 DEF CreateName

(* A configuration is as well formed as it was.                            *)
LEMMA WellFormedStays ==
  ASSUME conf' = conf
  PROVE  WellFormed' <=> WellFormed
<1>1. /\ \A k : Listed(k)' = Listed(k)
      /\ \A k : FirstFile(k)' = FirstFile(k)
      /\ \A i : Parsed(i)' = Parsed(i)
      /\ \A p : EntryAt(p)' = EntryAt(p)
  BY DEF Listed, FirstFile, Parsed, EntryAt, Entries
<1>2. \A k : Positions(k)' = Positions(k)
  BY <1>1 DEF Positions, Entries
<1>3. \A k : NamesIn(k)' = NamesIn(k)
  BY <1>1, <1>2 DEF NamesIn
<1> QED
  BY <1>1, <1>2, <1>3 DEF WellFormed

(* No step leaves out anything of a well-formed configuration.             *)
LEMMA LoadsWellStays ==
  ASSUME Inv, LoadsWell, [Next]_vars
  PROVE  LoadsWell'
<1> SUFFICES ASSUME WellFormed'
             PROVE  Loads'
  BY DEF LoadsWell
<1>1. conf' = conf
  <2>1. CASE LoadStep
    BY <2>1 DEF LoadStep, BuildListOfFileNames, LoadCivs, LoadItems, LoadShips, LoadPorts,
                LoadPlanets, SkipNames, EndOfFiles, LoadNames, CheckConfig, Load
  <2>2. CASE ~LoadStep
    BY <2>2 DEF Next, PlanetGennum, DrawZone, AcceptType, RejectType, PortGenesis, NamePort,
                RedrawName, AssertName, PushPlanet, NamePlanets, vars, confVars
  <2> QED
    BY <2>1, <2>2
<1>2. WellFormed /\ Loads /\ ConfOK
  <2>1. WellFormed
    BY <1>1, WellFormedStays
  <2> QED
    BY <2>1 DEF LoadsWell, Inv, ConfInv
<1>3. CASE BuildListOfFileNames
  BY <1>2, <1>3, ListsBuilt
<1>4. ASSUME NEW i \in todo,
             \/ LoadCivs(i) \/ LoadItems(i) \/ LoadShips(i)
             \/ LoadPorts(i) \/ LoadPlanets(i) \/ SkipNames(i)
      PROVE  Loads'
  BY <1>2, <1>4, OthersAll, ItemsAll, ShipsAll, PortsAll, PlanetsAll
<1>5. CASE EndOfFiles
  <2>1. /\ status = "loading" /\ todo = {} /\ status' = "naming"
        /\ UNCHANGED <<conf, todo, items, shipTypes, portTypes, planetTypes, civs, names>>
    BY <1>5 DEF EndOfFiles, univVars
  <2> QED
    BY <1>2, <2>1, StaysLoaded DEF Going, Loaded
<1>6. CASE LoadNames
  <2>1. \A key \in NameKeys : Listed(key) # {}
    <3>1. DOMAIN Keywords = 1..11
      BY DEF Keywords
    <3>2. NameKeys \subseteq ToSet(Keywords)
      BY <3>1 DEF NameKeys, Keywords, ToSet
    <3> QED
      BY <1>2, <3>2 DEF WellFormed
  <2>2. /\ status = "naming" /\ status' = "checking"
        /\ names' = [key \in NameKeys |-> FirstFile(key)]
        /\ UNCHANGED <<conf, todo, items, shipTypes, portTypes, planetTypes, civs>>
    BY <1>6, <2>1 DEF LoadNames
  <2>3. todo = {}
    BY <1>2, <2>2 DEF Loads
  <2> QED
    BY <1>2, <2>2, <2>3, StaysLoaded DEF Going, Loaded
<1>7. CASE CheckConfig
  <2>1. /\ status = "checking" /\ status' = "loaded"
        /\ UNCHANGED <<conf, todo, items, shipTypes, portTypes, planetTypes, civs, names>>
    BY <1>2, <1>7, SaneThen DEF CheckConfig, univVars
  <2>2. todo = {} /\ names = [key \in NameKeys |-> FirstFile(key)]
    BY <1>2, <2>1 DEF Loads
  <2> QED
    BY <1>2, <2>1, <2>2, StaysLoaded DEF Going, Loaded
<1>8. CASE UNCHANGED confVars
  <2>1. UNCHANGED <<conf, status, todo, items, shipTypes, portTypes, planetTypes, civs, names>>
    BY <1>8 DEF confVars, univVars
  <2>2. CASE status = "building"
    BY <1>2, <2>1, <2>2 DEF Loads
  <2>3. CASE status # "building"
    BY <1>2, <2>1, <2>3, StaysLoaded DEF Loads
  <2> QED
    BY <2>2, <2>3
<1>9. CASE PlanetGennum \/ NamePlanets
  <2>1. /\ status \in Loaded /\ status' \in Loaded
        /\ UNCHANGED <<conf, todo, items, shipTypes, portTypes, planetTypes, civs, names>>
    BY <1>9 DEF PlanetGennum, NamePlanets, univVars, Loaded
  <2>2. todo = {} /\ names = [key \in NameKeys |-> FirstFile(key)]
    BY <1>2, <2>1 DEF Loads, Loaded
  <2>3. status # "building" /\ status' \in Going
    BY <2>1 DEF Loaded, Going
  <2> QED
    BY <1>2, <2>1, <2>2, <2>3, StaysLoaded
<1>10. CASE AssertName
  BY <1>2, <1>10, NamesHaveWords DEF AssertName
<1>11. \/ LoadStep \/ UNCHANGED confVars \/ PlanetGennum \/ NamePlanets \/ AssertName
  BY DEF Next, DrawZone, AcceptType, RejectType, PortGenesis, NamePort, RedrawName, PushPlanet, vars
<1> QED
  BY <1>3, <1>4, <1>5, <1>6, <1>7, <1>8, <1>9, <1>10, <1>11 DEF LoadStep

(***************************************************************************)
(* A configuration in which every name that is used is defined, once, is   *)
(* loaded, and all of it, however many files there are and in whatever     *)
(* order yastg.conf has its keywords.                                      *)
(***************************************************************************)
THEOREM ValidLoadsAlways == Spec => []ValidLoads
<1>1. GenesisInit => LoadsWell
  BY DEF GenesisInit, Init, LoadsWell, Loads
<1>2. Inv /\ LoadsWell /\ [Next]_vars => LoadsWell'
  BY LoadsWellStays
<1>3. LoadsWell => ValidLoads
  <2> SUFFICES ASSUME WellFormed, Loads, status \in {"loaded", "failed", "aborted", "corrupt"}
               PROVE  /\ status = "loaded"
                      /\ items = NamesIn("items")
                      /\ DOMAIN portTypes = NamesIn("ports")
                      /\ ToSet(shipTypes) = {EntryAt(p) : p \in Positions("ships")}
                      /\ {type.ports : type \in ToSet(planetTypes)} =
                           {EntryAt(p).ports : p \in Positions("planets")}
    BY DEF LoadsWell, ValidLoads
  <2>1. status = "loaded"
    BY DEF Loads, Going, Loaded
  <2> QED
    BY <2>1, AllLoaded DEF Loaded
<1> QED
  BY <1>1, <1>2, <1>3, Invariance, PTL DEF Spec
=============================================================================
