------------------------ MODULE CivilisationsProofs ------------------------
(***************************************************************************)
(* Theorems about the placement of systems, for every number and size of   *)
(* the constellations and whatever positions are drawn.                    *)
(***************************************************************************)
EXTENDS Civilisations, SequenceTheorems, FiniteSetTheorems, WellFoundedInduction,
  TLAPS

(* Systems made and announced fit the constellations begun.                *)
Room == created + left <= begun * (GreekN - 1)

(* What was not placed yet is at <<0, 0>>; what is being placed has been   *)
(* put into the tree.                                                      *)
Fresh ==
  /\ \A s \in Names : created < s => position[s] = <<0, 0>>
  /\ placing # 0 => placing \in tree

TreeInv == UniverseTypeOK /\ Room /\ Fresh /\ TreeSound

-----------------------------------------------------------------------------
(* A constellation more has room for its systems.                          *)
LEMMA OneMore ==
  ASSUME NEW n \in Nat, NEW m \in Nat
  PROVE  /\ n * m \in Nat
         /\ (n + 1) * m = n * m + m
BY SMT

(* Begun constellations have room among the names.                         *)
LEMMA Fits ==
  ASSUME NEW n \in Nat, NEW k \in Nat, NEW m \in Nat, n <= k
  PROVE  n * m <= k * m
BY SMT

(* While one is announced, the next system has a name.                     *)
LEMMA NextNamed ==
  ASSUME UniverseTypeOK, Room, left > 0
  PROVE  created + 1 \in Names /\ created + 1 + (left - 1) <= begun * (GreekN - 1)
<1>1. begun * (GreekN - 1) <= Constellations * (GreekN - 1)
  BY Fits, SizeAssumption DEF UniverseTypeOK
<1>2. begun * (GreekN - 1) \in Nat /\ Constellations * (GreekN - 1) \in Nat
  BY OneMore, SizeAssumption DEF UniverseTypeOK
<1> QED
  BY <1>1, <1>2, SizeAssumption DEF UniverseTypeOK, Room, Names

(* A draw of makeneighbours is a pair of whole numbers.                    *)
LEMMA DrawsWhole ==
  ASSUME UniverseTypeOK, NEW c \in Names, NEW dx \in Offsets, NEW dy \in Offsets
  PROVE  <<X(c) + dx, Y(c) + dy>> \in Int \X Int
BY DistanceAssumption DEF UniverseTypeOK, Offsets, X, Y

-----------------------------------------------------------------------------
(* The heart of it: moving a system that is in the tree, or was never      *)
(* placed, keeps the tree sound.                                           *)
LEMMA MoveSound ==
  ASSUME NEW s \in Names, NEW p \in Int \X Int,
         position \in [Names -> Int \X Int], tree \subseteq 1..created,
         created \in Nat, created' \in Nat, 1..created' \subseteq Names,
         created <= created', s \in 1..created',
         1..created' = (1..created) \union {s},
         s \in tree \/ X(s) = 0,
         TreeSound, SystemMove(s, p)
  PROVE  /\ position' \in [Names -> Int \X Int]
         /\ tree' \subseteq 1..created'
         /\ s \in tree'
         /\ \A t \in Names \ {s} : position'[t] = position[t]
         /\ TreeSound'
<1>1. position' = [position EXCEPT ![s] = p] /\ tree' = (tree \ AtX(X(s))) \union {s}
  BY DEF SystemMove
<1>2. position'[s] = p /\ \A t \in Names \ {s} : position'[t] = position[t]
  BY <1>1
<1>3. \A t \in tree : X(t) # p[1]
  BY DEF SystemMove, AtX
<1>4. \A t, u \in tree' : X(t)' = X(u)' => t = u
  <2> SUFFICES ASSUME NEW t \in tree', NEW u \in tree', X(t)' = X(u)', t # u
               PROVE  FALSE
    OBVIOUS
  <2>1. \A v \in tree' : v # s => v \in tree /\ v \in Names /\ X(v)' = X(v)
    BY <1>1, <1>2 DEF X
  <2>2. X(s)' = p[1]
    BY <1>2 DEF X
  <2> QED
    BY <2>1, <2>2, <1>3 DEF TreeSound
<1>5. \A t \in 1..created' : t \in tree' \/ X(t)' = 0
  <2> SUFFICES ASSUME NEW t \in 1..created', t \notin tree'
               PROVE  X(t)' = 0
    OBVIOUS
  <2>1. t # s /\ t \in 1..created /\ t \in Names
    BY <1>1
  <2>2. X(t)' = X(t)
    BY <1>2, <2>1 DEF X
  <2>3. CASE t \notin tree
    BY <2>1, <2>2, <2>3 DEF TreeSound
  <2>4. CASE t \in tree
    <3>1. X(t) = X(s)
      BY <1>1, <2>4 DEF AtX
    <3> QED
      BY <3>1, <2>1, <2>2, <2>4 DEF TreeSound
  <2> QED
    BY <2>3, <2>4
<1>6. tree' \subseteq 1..created'
  BY <1>1
<1> QED
  BY <1>1, <1>2, <1>4, <1>5, <1>6 DEF TreeSound

-----------------------------------------------------------------------------
(* The first and each further system of a constellation.                   *)
LEMMA CreateStep ==
  ASSUME TreeInv, Create, NEW p \in Int \X Int, SystemMove(created + 1, p),
         first' \in 1..created', work' \in Seq(1..created'),
         placing' \in {0, first'}, placing' # 0 => placing' = created'
  PROVE  TreeInv'
<1> DEFINE s == created + 1
<1>1. /\ s \in Names /\ created' = s /\ left' = left - 1
      /\ s + left' <= begun * (GreekN - 1)
  BY NextNamed DEF TreeInv, Create
<1>2. created \in Nat /\ Names = 1..Constellations * (GreekN - 1)
      /\ Constellations * (GreekN - 1) \in Nat
  BY OneMore, SizeAssumption DEF TreeInv, UniverseTypeOK, Names
<1>3. /\ created' \in Nat /\ created <= created' /\ 1..created' \subseteq Names
      /\ s \in 1..created' /\ 1..created' = (1..created) \union {s}
      /\ created' \in 0..Constellations * (GreekN - 1)
  BY <1>1, <1>2
<1>4. X(s) = 0
  BY <1>1, <1>2 DEF TreeInv, Fresh, X
<1>5. /\ position' \in [Names -> Int \X Int]
      /\ tree' \subseteq 1..created'
      /\ s \in tree'
      /\ \A t \in Names \ {s} : position'[t] = position[t]
      /\ TreeSound'
  BY <1>1, <1>2, <1>3, <1>4, MoveSound DEF TreeInv, UniverseTypeOK
<1>6. UniverseTypeOK'
  BY <1>1, <1>3, <1>5, SizeAssumption DEF TreeInv, UniverseTypeOK, Create
<1>7. Room'
  BY <1>1 DEF Room, Create
<1>8. Fresh'
  <2>1. \A t \in Names : created' < t => position'[t] = <<0, 0>>
    <3>1. SUFFICES ASSUME NEW t \in Names, created' < t
                   PROVE  position'[t] = <<0, 0>>
      OBVIOUS
    <3>2. t \in Int
      BY <1>2
    <3>3. t # s /\ created < t
      BY <3>1, <3>2, <1>1, <1>2
    <3>4. position'[t] = position[t]
      BY <3>3, <1>5
    <3> QED
      BY <3>3, <3>4 DEF TreeInv, Fresh
  <2> QED
    BY <2>1, <1>1, <1>5 DEF Fresh
<1> QED
  BY <1>5, <1>6, <1>7, <1>8 DEF TreeInv

(* Every step of the placement keeps the invariant.                        *)
LEMMA GenesisStep == TreeInv /\ GenesisNext => TreeInv'
<1> SUFFICES ASSUME TreeInv, GenesisNext PROVE TreeInv'
  OBVIOUS
<1> USE DEF TreeInv
<1>1. CASE BeginConstellation
  <2>1. /\ begun \in Nat /\ GreekN - 1 \in Nat /\ left = 0
        /\ begun' = begun + 1 /\ left' \in 1..GreekN - 1
        /\ begun * (GreekN - 1) \in Nat
        /\ begun' * (GreekN - 1) = begun * (GreekN - 1) + (GreekN - 1)
    BY <1>1, OneMore, SizeAssumption DEF UniverseTypeOK, BeginConstellation, Sizes
  <2>2. Room'
    <3>1. created \in Nat /\ created <= begun * (GreekN - 1) /\ created' = created
      BY <1>1, <2>1 DEF Room, BeginConstellation, UniverseTypeOK
    <3> DEFINE room == begun * (GreekN - 1)
    <3>2. created + left' <= room + (GreekN - 1)
      <4> HIDE DEF room
      <4>1. room \in Nat /\ created <= room
        BY <2>1, <3>1 DEF room
      <4> QED
        BY <4>1, <2>1, <3>1
    <3> QED
      BY <2>1, <3>1, <3>2 DEF Room
  <2>3. UniverseTypeOK'
    BY <1>1, SizeAssumption DEF UniverseTypeOK, BeginConstellation, Sizes
  <2>4. Fresh' /\ TreeSound'
    BY <1>1 DEF Fresh, TreeSound, X, BeginConstellation
  <2> QED
    BY <2>2, <2>3, <2>4
<1>2. CASE CreateFirst
  <2>1. /\ Create /\ created' = 1 /\ SystemMove(created + 1, <<0, 0>>)
        /\ first' = 1 /\ work' = <<1>> /\ placing' = 0
    BY <1>2 DEF CreateFirst, Create
  <2> QED
    BY <2>1, CreateStep
<1>3. CASE CreateFar
  <2>1. created' = created + 1 /\ created \in Nat
    BY <1>3 DEF CreateFar, Create, UniverseTypeOK
  <2>2. PICK p \in Positions : SystemMove(created + 1, p)
    BY <1>3 DEF CreateFar
  <2>3. /\ first' = created + 1 /\ work' = <<created + 1>>
        /\ placing' \in {0, created + 1}
    BY <1>3 DEF CreateFar
  <2>4. p \in Int \X Int
    BY PositionsAssumption
  <2>5. Create
    BY <1>3 DEF CreateFar
  <2>6. /\ first' \in 1..created' /\ work' \in Seq(1..created')
        /\ placing' \in {0, first'} /\ (placing' # 0 => placing' = created')
    BY <2>1, <2>3
  <2> QED
    BY <2>2, <2>4, <2>5, <2>6, CreateStep
<1>4. CASE PlaceAgain
  <2>1. PICK p \in Positions : SystemMove(placing, p)
    BY <1>4 DEF PlaceAgain
  <2>2. /\ placing # 0 /\ placing' \in {0, placing}
        /\ UNCHANGED <<phase, begun, left, created, first, work>>
    BY <1>4 DEF PlaceAgain
  <2>3. placing \in tree /\ placing = first /\ placing \in 1..created
    BY <2>2 DEF Fresh, UniverseTypeOK
  <2>4. /\ created \in Nat /\ 1..created \subseteq Names
        /\ 1..created = (1..created) \union {placing}
        /\ placing \in Names /\ p \in Int \X Int
    BY <2>3, OneMore, SizeAssumption, PositionsAssumption DEF UniverseTypeOK, Names
  <2>5. /\ position' \in [Names -> Int \X Int]
        /\ tree' \subseteq 1..created'
        /\ placing \in tree'
        /\ \A t \in Names \ {placing} : position'[t] = position[t]
        /\ TreeSound'
    <3>1. /\ created' = created /\ created <= created' /\ created' \in Nat
          /\ placing \in 1..created'
      BY <2>2, <2>3, <2>4
    <3>2. position \in [Names -> Int \X Int] /\ tree \subseteq 1..created
      BY DEF UniverseTypeOK
    <3> QED
      BY <2>1, <2>3, <2>4, <3>1, <3>2, MoveSound
  <2>6. UniverseTypeOK' /\ Room' /\ Fresh'
    <3>1. UniverseTypeOK'
      BY <2>2, <2>5 DEF UniverseTypeOK
    <3>2. Room'
      BY <2>2 DEF Room
    <3>3. \A s \in Names : created < s => position'[s] = <<0, 0>>
      <4>1. SUFFICES ASSUME NEW s \in Names, created < s
                     PROVE  position'[s] = <<0, 0>>
        OBVIOUS
      <4>2. s # placing
        BY <4>1, <2>3, <2>4
      <4> QED
        BY <4>1, <4>2, <2>5 DEF Fresh
    <3> QED
      BY <3>1, <3>2, <3>3, <2>2, <2>5 DEF Fresh
  <2> QED
    BY <2>5, <2>6
<1>5. CASE CreateNear
  <2> DEFINE center == IF work = <<>> THEN first ELSE Head(work)
  <2>1. /\ Create /\ created' = created + 1 /\ created \in Nat
        /\ first \in 1..created /\ first' = first /\ placing = 0 /\ placing' = 0
        /\ MakeNeighbours(center, created + 1)
    BY <1>5 DEF CreateNear, Create, UniverseTypeOK
  <2>2. center \in 1..created
    BY <2>1 DEF UniverseTypeOK
  <2>3. 1..created \subseteq Names
    BY OneMore, SizeAssumption DEF UniverseTypeOK, Names
  <2>4. PICK p \in Int \X Int : SystemMove(created + 1, p)
    <3> HIDE DEF center
    <3>1. PICK dx \in Offsets, dy \in Offsets :
             SystemMove(created + 1, <<X(center) + dx, Y(center) + dy>>)
      BY <2>1 DEF MakeNeighbours
    <3> QED
      BY <3>1, <2>2, <2>3, DrawsWhole
  <2>5. work' \in Seq(1..created')
    <3>1. work \in Seq(1..created') /\ created + 1 \in 1..created'
      BY <2>1, 1..created \subseteq 1..created' DEF UniverseTypeOK
    <3>2. Append(work, created + 1) \in Seq(1..created') /\ Append(work, created + 1) # <<>>
      BY <3>1, AppendProperties
    <3>3. Tail(Append(work, created + 1)) \in Seq(1..created')
      BY <3>2
    <3> QED
      BY <1>5, <3>2, <3>3 DEF CreateNear
  <2>6. first' \in 1..created' /\ placing' \in {0, first'} /\ (placing' # 0 => placing' = created')
    BY <2>1
  <2> QED
    BY <2>1, <2>4, <2>5, <2>6, CreateStep
<1>6. CASE EndPlacement
  BY <1>6 DEF EndPlacement, UniverseTypeOK, Room, Fresh, TreeSound, X
<1> QED
  BY <1>1, <1>2, <1>3, <1>4, <1>5, <1>6 DEF GenesisNext

(* What civilisations do leaves the systems where they are.                *)
LEMMA TreeStep == TreeInv /\ [Next]_vars => TreeInv'
<1> SUFFICES ASSUME TreeInv, [Next]_vars PROVE TreeInv'
  OBVIOUS
<1>1. CASE Place
  BY <1>1, GenesisStep DEF Place
<1>2. ASSUME UNCHANGED <<begun, left, created, first, work, placing, position, tree>>,
             phase' \in {phase, "grow", "done"}
      PROVE  TreeInv'
  BY <1>2 DEF TreeInv, UniverseTypeOK, Room, Fresh, TreeSound, X
<1>3. CASE ~Place
  BY <1>2, <1>3 DEF Next, Spawn, EndSpawning, Pass, Turn, Refuse, Finish, vars, universeVars
<1> QED
  BY <1>1, <1>3

(* The program starts without systems.                                     *)
LEMMA TreeStart == Init => TreeInv
<1> SUFFICES ASSUME Init PROVE TreeInv
  OBVIOUS
<1>1. 0 * (GreekN - 1) = 0 /\ Constellations * (GreekN - 1) \in Nat
  BY OneMore, SizeAssumption
<1>2. UniverseTypeOK
  BY <1>1, SizeAssumption DEF Init, GenesisInit, UniverseTypeOK
<1>3. Room /\ Fresh /\ TreeSound
  BY <1>1 DEF Init, GenesisInit, Room, Fresh, TreeSound
<1> QED
  BY <1>2, <1>3 DEF TreeInv

(* Whatever is drawn, systems in the tree differ in x, as it requires, and *)
(* system_move loses none but those at x = 0.                              *)
THEOREM TreeSoundAlways == Spec => []TreeSound
<1>1. TreeInv => TreeSound
  BY DEF TreeInv
<1> QED
  BY TreeStart, TreeStep, <1>1, PTL DEF Spec

-----------------------------------------------------------------------------
(* A coordinate cannot differ by more than the distance.                   *)
LEMMA Within ==
  ASSUME NEW a \in Int, NEW b \in Int, NEW d \in Nat, a * a + b * b < d * d
  PROVE  -d < a /\ a < d
<1>1. b * b >= 0
  BY SMT
<1>2. a * a < d * d
  <2>1. a * a \in Int /\ b * b \in Int /\ d * d \in Int
    OBVIOUS
  <2> DEFINE aa == a * a
             bb == b * b
             dd == d * d
  <2>2. aa \in Int /\ bb \in Int /\ dd \in Int /\ bb >= 0 /\ aa + bb < dd
    BY <2>1, <1>1
  <2> HIDE DEF aa, bb, dd
  <2>3. aa < dd
    BY <2>2
  <2> QED
    BY <2>3 DEF aa, dd
<1>3. ASSUME a >= d PROVE FALSE
  <2>1. a * a >= d * d
    BY <1>3, SMT
  <2> QED
    BY <2>1, <1>2, SMT
<1>4. ASSUME a <= -d PROVE FALSE
  <2>1. a * a >= d * d
    BY <1>4, SMT
  <2> QED
    BY <2>1, <1>2, SMT
<1> QED
  BY <1>3, <1>4

(* A system that is near is in the square around the origin.               *)
LEMMA NearWithin ==
  ASSUME position \in [Names -> Int \X Int], NEW o \in Names, NEW s \in Names,
         NEW d \in Nat, Nearer(o, s, d)
  PROVE  /\ X(o) - d < X(s) /\ X(s) < X(o) + d
         /\ Y(o) - d < Y(s) /\ Y(s) < Y(o) + d
<1> DEFINE dx == X(s) - X(o)
           dy == Y(s) - Y(o)
<1>1. X(s) \in Int /\ X(o) \in Int /\ Y(s) \in Int /\ Y(o) \in Int
  BY DEF X, Y
<1>2. dx \in Int /\ dy \in Int
  BY <1>1
<1>3. dx * dx + dy * dy < d * d /\ dy * dy + dx * dx < d * d
  <2>1. dx * dx + dy * dy < d * d
    BY DEF Nearer
  <2>2. dx * dx + dy * dy = dy * dy + dx * dx
    BY <1>2, SMT
  <2> QED
    BY <2>1, <2>2
<1>4. -d < dx /\ dx < d /\ -d < dy /\ dy < d
  <2> HIDE DEF dx, dy
  <2> QED
    BY <1>2, <1>3, Within
<1> QED
  BY <1>1, <1>4

(* Wherever the descent for the least x ends, the scan from there on meets *)
(* every system that is near.                                              *)
LEMMA SearchLemma ==
  ASSUME UniverseTypeOK, NEW o \in Names, NEW d \in Nat,
         NEW start \in Ends(X(o) - d), tree \subseteq Names
  PROVE  Found(start, o, d) = {s \in tree : Nearer(o, s, d)}
<1>1. position \in [Names -> Int \X Int]
  BY DEF UniverseTypeOK
<1>2. \A s \in tree : X(s) \in Int
  BY <1>1 DEF X
<1>3. X(o) \in Int
  BY <1>1 DEF X
<1>4. start \in tree
  BY DEF Ends, AtX
<1>5. ASSUME NEW s \in tree, Nearer(o, s, d) PROVE s \in Found(start, o, d)
  <2>1. /\ X(o) - d < X(s) /\ X(s) < X(o) + d
        /\ Y(o) - d < Y(s) /\ Y(s) < Y(o) + d
    BY <1>1, <1>5, NearWithin
  <2>2. X(start) <= X(s)
    <3>1. CASE AtX(X(o) - d) # {}
      BY <3>1, <2>1, <1>2, <1>3, <1>4 DEF Ends, AtX
    <3>2. CASE AtX(X(o) - d) = {}
      <4>1. ~(X(o) - d < X(s) /\ X(s) < X(start))
        BY <3>2 DEF Ends
      <4> QED
        BY <4>1, <2>1, <1>2, <1>4
    <3> QED
      BY <3>1, <3>2
  <2>3. Y(s) \in Int /\ Y(o) \in Int
    BY <1>1 DEF Y
  <2> QED
    BY <1>2, <1>3, <1>5, <2>1, <2>2, <2>3 DEF Found, Scanned
<1> QED
  BY <1>5 DEF Found, Scanned

(* get_neighbouring_systems is exact in every universe.                    *)
THEOREM SearchExactAlways == Spec => []SearchExact
<1>1. TreeInv => SearchExact
  <2> SUFFICES ASSUME TreeInv,
                      NEW origin \in 1..created,
                      NEW distance \in {NeighbourDistance, MinDistance},
                      NEW start \in Ends(X(origin) - distance)
               PROVE  Found(start, origin, distance)
                        = {s \in tree : Nearer(origin, s, distance)}
    BY DEF SearchExact
  <2>1. 1..created \subseteq Names
    BY OneMore, SizeAssumption DEF TreeInv, UniverseTypeOK, Names
  <2>2. distance \in Nat
    BY DistanceAssumption
  <2> QED
    BY <2>1, <2>2, SearchLemma DEF TreeInv, UniverseTypeOK
<1> QED
  BY TreeStart, TreeStep, <1>1, PTL DEF Spec

-----------------------------------------------------------------------------
(* What lists hold.                                                        *)
LEMMA ElementsAppend ==
  ASSUME NEW S, NEW list \in Seq(S), NEW e \in S
  PROVE  Elements(Append(list, e)) = Elements(list) \union {e}
<1>1. /\ Len(Append(list, e)) = Len(list) + 1
      /\ \A i \in 1..Len(list) : Append(list, e)[i] = list[i]
      /\ Append(list, e)[Len(list) + 1] = e
      /\ Len(list) \in Nat
  BY AppendProperties
<1> QED
  BY <1>1 DEF Elements

(* The head and the rest of a list are what it holds.                      *)
LEMMA ElementsTail ==
  ASSUME NEW S, NEW list \in Seq(S), list # <<>>
  PROVE  /\ Head(list) \in Elements(list)
         /\ Elements(list) = {Head(list)} \union Elements(Tail(list))
         /\ Tail(list) \in Seq(S)
<1>1. /\ Tail(list) \in Seq(S) /\ Len(Tail(list)) = Len(list) - 1
      /\ \A i \in 1..Len(Tail(list)) : Tail(list)[i] = list[i + 1]
  BY HeadTailProperties
<1>2. Len(list) \in Nat \ {0} /\ Head(list) = list[1]
  BY EmptySeq
<1>3. ASSUME NEW i \in 1..Len(list) PROVE list[i] \in {Head(list)} \union Elements(Tail(list))
  <2>1. CASE i = 1
    BY <1>2, <2>1
  <2>2. CASE i # 1
    <3>1. i - 1 \in 1..Len(Tail(list)) /\ Tail(list)[i - 1] = list[i]
      BY <1>1, <1>2, <2>2
    <3> QED
      BY <3>1 DEF Elements
  <2> QED
    BY <2>1, <2>2
<1>4. ASSUME NEW i \in 1..Len(Tail(list)) PROVE Tail(list)[i] \in Elements(list)
  BY <1>1, <1>2 DEF Elements
<1> QED
  BY <1>1, <1>2, <1>3, <1>4 DEF Elements

(* At most one more.                                                       *)
LEMMA ElementsPlus ==
  ASSUME NEW S, NEW list \in Seq(S), NEW e \in S, NEW more \in {<<>>, <<e>>}
  PROVE  /\ list \o more \in Seq(S)
         /\ Elements(list \o more) = Elements(list) \union (IF more = <<>> THEN {} ELSE {e})
<1>1. CASE more = <<>>
  <2>1. list \o more = list
    BY <1>1, ConcatEmptySeq
  <2> QED
    BY <1>1, <2>1
<1>2. CASE more = <<e>> /\ more # <<>>
  <2>1. list \o more = Append(list, e)
    BY <1>2, AppendIsConcat
  <2> QED
    <3>1. /\ Append(list, e) \in Seq(S)
          /\ Elements(Append(list, e)) = Elements(list) \union {e}
      BY ElementsAppend, AppendProperties
    <3>2. (IF more = <<>> THEN {} ELSE {e}) = {e}
      BY <1>2
    <3> QED
      BY <3>1, <3>2, <2>1, Zenon
<1> QED
  BY <1>1, <1>2

-----------------------------------------------------------------------------
(* A search depends on nothing but the tree and the positions.             *)
LEMMA NearSame ==
  ASSUME UNCHANGED <<position, tree>>, NEW s, NEW d
  PROVE  NeighbouringSystems(s, d)' = NeighbouringSystems(s, d)
BY DEF NeighbouringSystems, Found, Scanned, Ends, AtX, Nearer, X, Y

(* A search finds systems of the tree.                                     *)
LEMMA NearInTree ==
  ASSUME NEW s, NEW d PROVE NeighbouringSystems(s, d) \subseteq tree
BY DEF NeighbouringSystems, Found, Scanned

(* A system that gets an owner makes no border.                            *)
LEMMA NoNewBorder ==
  ASSUME NEW S, NEW own \in [S -> Civs \union {Nobody}], tree \subseteq S,
         NEW s \in S, own[s] = Nobody, NEW c \in Civs, NEW u, NEW d \in Civs,
         IsBorder(u, d, [own EXCEPT ![s] = c])
  PROVE  IsBorder(u, d, own)
BY NearInTree, CivsAssumption DEF IsBorder

-----------------------------------------------------------------------------
(* The invariant of homes and growth: before there are civilisations there *)
(* is nothing of theirs, and after that no system is made any more; a home *)
(* is given once; what can grow is owned; what has no owner has no links.  *)
Blank ==
  /\ next = 1
  /\ inhabited = 0
  /\ \A s \in Names : owner[s] = Nobody
  /\ \A c \in Civs : home[c] = 0 /\ territory[c] = {} /\ border[c] = <<>>

Phases ==
  /\ phase = "place" => Blank
  /\ phase # "place" => left = 0 /\ placing = 0

Homes ==
  /\ next \in 1..Len(CivList) + 1
  /\ \A i \in next..Len(CivList) : home[CivList[i]] = 0
  /\ \A c \in Civs : IF home[c] = 0 THEN territory[c] = {} ELSE home[c] \in territory[c]
  /\ \A c \in Civs : Elements(border[c]) \subseteq territory[c]
  /\ \A s \in Names : owner[s] = Nobody => links[s] = {}

GrowthInv == MapTypeOK /\ Phases /\ Homes /\ Territory /\ BorderComplete

(* There is no more to it while systems are made.                          *)
LEMMA BlankIsFine ==
  TreeInv /\ MapTypeOK /\ Homes /\ Blank => Territory /\ BorderComplete
<1> SUFFICES ASSUME TreeInv, MapTypeOK, Homes, Blank PROVE Territory /\ BorderComplete
  OBVIOUS
<1>1. 1..created \subseteq Names
  BY OneMore, SizeAssumption DEF TreeInv, UniverseTypeOK, Names
<1>2. Owned = {}
  BY <1>1 DEF Owned, Blank
<1>3. inhabited = Cardinality(Owned)
  BY <1>2, FS_EmptySet DEF Blank
<1>4. \A c \in Civs : territory[c] = {s \in 1..created : owner[s] = c}
  BY <1>1, CivsAssumption DEF Blank
<1>5. \A c \in Civs : \A part \in SUBSET territory[c] : home[c] \notin part
  BY DEF Blank
<1>6. Territory
  BY <1>2, <1>3, <1>4, <1>5 DEF Territory
<1>7. BorderComplete
  BY DEF BorderComplete, Blank
<1> QED
  BY <1>6, <1>7

(* What Place leaves behind is the invariant, too.                         *)
LEMMA PlaceKeeps ==
  ASSUME TreeInv, TreeInv', GrowthInv, Place PROVE GrowthInv'
<1>1. phase = "place" /\ phase' \in {"place", "spawn"} /\ UNCHANGED civVars
  BY DEF Place, GenesisNext, BeginConstellation, CreateFirst, CreateFar, CreateNear, Create,
         PlaceAgain, EndPlacement, TreeInv, UniverseTypeOK, GrowthInv, Phases
<1>2. created \in Nat /\ created' \in Nat /\ created <= created'
  BY DEF Place, GenesisNext, BeginConstellation, CreateFirst, CreateFar, CreateNear, Create,
         PlaceAgain, EndPlacement, TreeInv, UniverseTypeOK
<1>3. Blank'
  BY <1>1 DEF GrowthInv, Phases, Blank, civVars
<1>4. Homes'
  BY <1>1 DEF GrowthInv, Homes, civVars
<1>5. MapTypeOK'
  <2>1. 1..created \subseteq 1..created' /\ 0..created \subseteq 0..created'
    BY <1>2
  <2>2. /\ \A c \in Civs : border[c] = <<>>
        /\ border' \in [Civs -> Seq(1..created')]
    BY <1>1 DEF GrowthInv, Phases, Blank, MapTypeOK, civVars
  <2> QED
    BY <1>1, <2>1, <2>2 DEF GrowthInv, MapTypeOK, civVars
<1>6. Phases'
  <2>1. CASE phase' = "place"
    BY <2>1, <1>3 DEF Phases
  <2>2. CASE phase' = "spawn"
    <3>1. EndPlacement
      BY <1>1, <2>2 DEF Place, GenesisNext, BeginConstellation, CreateFirst, CreateFar,
                         CreateNear, Create, PlaceAgain
    <3> QED
      BY <3>1, <2>2 DEF Phases, EndPlacement
  <2> QED
    BY <1>1, <2>1, <2>2
<1> QED
  <2>1. (TreeInv /\ MapTypeOK /\ Homes /\ Blank => Territory /\ BorderComplete)'
    BY BlankIsFine, PTL
  <2> QED
    BY <1>3, <1>4, <1>5, <1>6, <2>1 DEF GrowthInv

-----------------------------------------------------------------------------
(* What is the same for a home and for a system that is grown into.        *)
LEMMA Taken ==
  ASSUME TreeInv, GrowthInv, UNCHANGED universeVars,
         NEW c \in Civs, NEW s \in 1..created, owner[s] = Nobody,
         owner' = [owner EXCEPT ![s] = c],
         territory' = [territory EXCEPT ![c] = @ \union {s}],
         inhabited' = inhabited + 1
  PROVE  /\ owner' \in [Names -> Civs \union {Nobody}]
         /\ territory' \in [Civs -> SUBSET (1..created')]
         /\ inhabited' \in 0..created' /\ inhabited' = Cardinality(Owned')
         /\ Owned' = Owned \union {s}
         /\ \A d \in Civs : territory'[d] = {u \in 1..created' : owner'[u] = d}
         /\ s \notin territory[c]
         /\ \A u \in Names, d \in Civs :
              /\ IsBorder(u, d, owner') => IsBorder(u, d, owner)
              /\ IsBorder(u, d, owner)' => IsBorder(u, d, owner')
<1>1. created \in Nat /\ 1..created \subseteq Names /\ tree \subseteq Names /\ s \in Names
      /\ created' = created /\ UNCHANGED <<position, tree>>
  BY OneMore, SizeAssumption DEF TreeInv, UniverseTypeOK, Names, universeVars
<1>2. owner \in [Names -> Civs \union {Nobody}] /\ Nobody \notin Civs
  BY CivsAssumption DEF GrowthInv, MapTypeOK
<1>3. owner'[s] = c /\ \A u \in Names \ {s} : owner'[u] = owner[u]
  BY <1>1, <1>2
<1>4. owner' \in [Names -> Civs \union {Nobody}]
  BY <1>1, <1>2
<1>5. territory' \in [Civs -> SUBSET (1..created')]
  BY <1>1 DEF GrowthInv, MapTypeOK
<1>6. Owned' = Owned \union {s} /\ s \notin Owned
  BY <1>1, <1>2, <1>3 DEF Owned
<1>7. inhabited' \in 0..created' /\ inhabited' = Cardinality(Owned')
  <2>1. IsFiniteSet(1..created) /\ Cardinality(1..created) = created
    BY <1>1, FS_Interval
  <2>2. Owned \subseteq 1..created /\ Owned' \subseteq 1..created
    BY <1>6 DEF Owned
  <2>3. IsFiniteSet(Owned) /\ Cardinality(Owned') <= created /\ Cardinality(Owned') \in Nat
    BY <2>1, <2>2, FS_Subset, FS_CardinalityType
  <2>4. Cardinality(Owned') = Cardinality(Owned) + 1
    BY <2>3, <1>6, FS_AddElement
  <2>5. inhabited = Cardinality(Owned)
    BY DEF GrowthInv, Territory
  <2> QED
    BY <1>1, <2>3, <2>4, <2>5
<1>8. \A d \in Civs : territory[d] = {u \in 1..created : owner[u] = d}
  BY DEF GrowthInv, Territory
<1>9. s \notin territory[c]
  BY <1>2, <1>8
<1>10. \A d \in Civs : territory'[d] = {u \in 1..created' : owner'[u] = d}
  <2>1. ASSUME NEW d \in Civs PROVE territory'[d] = {u \in 1..created' : owner'[u] = d}
    <3>1. CASE d = c
      <4>1. territory'[c] = territory[c] \union {s}
        BY DEF GrowthInv, MapTypeOK
      <4> QED
        BY <3>1, <4>1, <1>1, <1>3, <1>8
    <3>2. CASE d # c
      <4>1. territory'[d] = territory[d]
        BY <3>2 DEF GrowthInv, MapTypeOK
      <4> QED
        BY <3>2, <4>1, <1>1, <1>2, <1>3, <1>8
    <3> QED
      BY <3>1, <3>2
  <2> QED
    BY <2>1
<1>11. ASSUME NEW u \in Names, NEW d \in Civs
       PROVE  /\ IsBorder(u, d, owner') => IsBorder(u, d, owner)
              /\ IsBorder(u, d, owner)' => IsBorder(u, d, owner')
  <2>1. IsBorder(u, d, owner') => IsBorder(u, d, owner)
    <3>1. IsBorder(u, d, [owner EXCEPT ![s] = c]) => IsBorder(u, d, owner)
      BY <1>1, <1>2, NoNewBorder
    <3> QED
      BY <3>1
  <2>2. IsBorder(u, d, owner)' => IsBorder(u, d, owner')
    <3>1. NeighbouringSystems(u, BorderWidth)' = NeighbouringSystems(u, BorderWidth)
      BY <1>1, NearSame
    <3> QED
      BY <3>1 DEF IsBorder
  <2> QED
    BY <2>1, <2>2
<1> QED
  BY <1>4, <1>5, <1>6, <1>7, <1>9, <1>10, <1>11

(* A civilisation gets its home.                                           *)
LEMMA SpawnKeeps ==
  ASSUME TreeInv, GrowthInv, Spawn PROVE GrowthInv'
<1>1. PICK s \in 1..created : \E c \in {CivList[next]} :
       /\ Suits(s)
       /\ owner' = [owner EXCEPT ![s] = c]
       /\ home' = [home EXCEPT ![c] = s]
       /\ territory' = [territory EXCEPT ![c] = @ \union {s}]
       /\ border' = [border EXCEPT ![c] = Append(@, s)]
  BY DEF Spawn
<1> DEFINE c == CivList[next]
<1>2. /\ next \in 1..Len(CivList) /\ next' = next + 1 /\ inhabited' = inhabited + 1
      /\ phase = "spawn" /\ UNCHANGED <<universeVars, links>>
      /\ created' = created /\ phase' = phase /\ left' = left /\ placing' = placing
  BY DEF Spawn, GrowthInv, Homes, universeVars
<1>3. c \in Civs
  BY <1>2 DEF Civs
<1>4. /\ owner[s] = Nobody
      /\ owner' = [owner EXCEPT ![s] = c]
      /\ home' = [home EXCEPT ![c] = s]
      /\ territory' = [territory EXCEPT ![c] = @ \union {s}]
      /\ border' = [border EXCEPT ![c] = Append(@, s)]
  BY <1>1 DEF Suits
<1>5. created \in Nat /\ 1..created \subseteq Names
  BY OneMore, SizeAssumption DEF TreeInv, UniverseTypeOK, Names
<1> HIDE DEF c
<1>6. /\ owner' \in [Names -> Civs \union {Nobody}]
      /\ territory' \in [Civs -> SUBSET (1..created')]
      /\ inhabited' \in 0..created' /\ inhabited' = Cardinality(Owned')
      /\ Owned' = Owned \union {s}
      /\ \A d \in Civs : territory'[d] = {u \in 1..created' : owner'[u] = d}
      /\ s \notin territory[c]
      /\ \A u \in Names, d \in Civs :
           /\ IsBorder(u, d, owner') => IsBorder(u, d, owner)
           /\ IsBorder(u, d, owner)' => IsBorder(u, d, owner')
  BY <1>2, <1>3, <1>4, Taken
<1>7. home[c] = 0 /\ territory[c] = {}
  BY <1>2, <1>3 DEF GrowthInv, Homes, c
<1>8. /\ home'[c] = s /\ territory'[c] = {s} /\ border'[c] = Append(border[c], s)
      /\ \A d \in Civs \ {c} : /\ home'[d] = home[d]
                               /\ territory'[d] = territory[d]
                               /\ border'[d] = border[d]
  BY <1>3, <1>4, <1>7 DEF GrowthInv, MapTypeOK
<1>9. /\ Append(border[c], s) \in Seq(1..created)
      /\ Elements(Append(border[c], s)) = Elements(border[c]) \union {s}
  <2>1. border[c] \in Seq(1..created)
    BY <1>3 DEF GrowthInv, MapTypeOK
  <2>2. Append(border[c], s) \in Seq(1..created)
    BY <2>1, AppendProperties
  <2>3. Elements(Append(border[c], s)) = Elements(border[c]) \union {s}
    <3> DEFINE list == border[c]
    <3>1. list \in Seq(1..created) /\ s \in 1..created
      BY <2>1
    <3> HIDE DEF list
    <3>2. \A S : list \in Seq(S) /\ s \in S =>
                   Elements(Append(list, s)) = Elements(list) \union {s}
      BY ElementsAppend
    <3>3. Elements(Append(list, s)) = Elements(list) \union {s}
      BY <3>1, <3>2, Zenon
    <3> QED
      BY <3>3 DEF list
  <2> QED
    BY <2>2, <2>3
<1>10. MapTypeOK'
  BY <1>2, <1>3, <1>4, <1>6, <1>9 DEF GrowthInv, MapTypeOK
<1>11. Phases'
  BY <1>2 DEF GrowthInv, Phases
<1>12. Homes'
  <2>1. next' \in 1..Len(CivList) + 1
    BY <1>2
  <2>2. \A i \in next'..Len(CivList) : home'[CivList[i]] = 0
    <3>1. SUFFICES ASSUME NEW i \in next'..Len(CivList) PROVE home'[CivList[i]] = 0
      OBVIOUS
    <3>2. i \in 1..Len(CivList) /\ i \in next..Len(CivList) /\ i # next
      BY <1>2
    <3>3. CivList[i] # c /\ CivList[i] \in Civs
      BY <3>2, <1>2, CivsAssumption DEF c, Civs
    <3> QED
      BY <3>2, <3>3, <1>8 DEF GrowthInv, Homes
  <2>3. \A d \in Civs : IF home'[d] = 0 THEN territory'[d] = {} ELSE home'[d] \in territory'[d]
    BY <1>5, <1>8 DEF GrowthInv, Homes
  <2>4. \A d \in Civs : Elements(border'[d]) \subseteq territory'[d]
    BY <1>3, <1>7, <1>8, <1>9 DEF GrowthInv, Homes
  <2>5. \A u \in Names : owner'[u] = Nobody => links'[u] = {}
    BY <1>2, <1>3, <1>4, CivsAssumption DEF GrowthInv, Homes, MapTypeOK
  <2>6. \A d \in Civs : Elements(border[d])' = Elements(border'[d])
    BY DEF Elements
  <2> QED
    BY <2>1, <2>2, <2>3, <2>4, <2>5, <2>6 DEF Homes
<1>13. Territory'
  <2>1. ASSUME NEW d \in Civs, NEW part \in SUBSET territory'[d],
               home'[d] \in part, part # territory'[d]
        PROVE  \E u \in part, t \in territory'[d] \ part : t \in links'[u] /\ u \in links'[t]
    <3>1. d # c
      BY <2>1, <1>8
    <3>2. territory'[d] = territory[d] /\ home'[d] = home[d] /\ links' = links
      BY <3>1, <1>8, <1>2
    <3> QED
      BY <2>1, <3>2 DEF GrowthInv, Territory
  <2>2. ASSUME NEW u \in Owned', NEW t \in links'[u] PROVE owner'[t] = owner'[u]
    <3>1. u # s /\ u \in Owned /\ t \in links[u]
      BY <2>2, <1>2, <1>4, <1>5, <1>6 DEF GrowthInv, Homes
    <3>2. owner[t] = owner[u] /\ owner[u] # Nobody
      BY <3>1 DEF GrowthInv, Territory, Owned
    <3>3. u \in Names /\ t \in Names
      BY <3>1, <1>5 DEF Owned, GrowthInv, MapTypeOK
    <3> QED
      BY <3>1, <3>2, <3>3, <1>4 DEF GrowthInv, MapTypeOK
  <2> QED
    BY <2>1, <2>2, <1>6 DEF Territory
<1>14. BorderComplete'
  <2>1. ASSUME NEW d \in Civs, NEW u \in territory'[d], IsBorder(u, d, owner)'
        PROVE  u \in Elements(border'[d])
    <3>1. CASE d = c
      BY <2>1, <3>1, <1>8, <1>9
    <3>2. CASE d # c
      <4>1. u \in territory[d] /\ u \in Names
        BY <3>2, <1>3, <1>5, <1>8 DEF GrowthInv, MapTypeOK
      <4>2. IsBorder(u, d, owner)
        BY <2>1, <4>1, <1>6
      <4> QED
        BY <3>2, <4>1, <4>2, <1>8 DEF GrowthInv, BorderComplete
    <3> QED
      BY <3>1, <3>2
  <2>2. \A d \in Civs : Elements(border[d])' = Elements(border'[d])
    BY DEF Elements
  <2> QED
    BY <2>1, <2>2 DEF BorderComplete
<1> QED
  BY <1>10, <1>11, <1>12, <1>13, <1>14 DEF GrowthInv

(* A civilisation grows into a system.                                     *)
LEMMA GrowKeeps ==
  ASSUME TreeInv, GrowthInv, NEW c \in Civs, Grow(c), phase # "place",
         UNCHANGED <<universeVars, next, home>>
  PROVE  GrowthInv'
<1> DEFINE t == Head(border[c])
<1>1. border[c] # <<>> /\ border[c] \in Seq(1..created)
  BY DEF Grow, GrowthInv, MapTypeOK
<1>2. PICK s \in tree :
       /\ Nearest(t, s)
       /\ owner' = [owner EXCEPT ![s] = c]
       /\ links' = Linked(s, t)
       /\ territory' = [territory EXCEPT ![c] = @ \union {s}]
       /\ border' = [border EXCEPT ![c] =
                       WithoutInner(c, t, owner') \o
                       (IF IsBorder(s, c, owner') THEN <<s>> ELSE <<>>)]
  BY DEF Grow
<1>3. owner[s] = Nobody /\ inhabited' = inhabited + 1
  BY <1>2 DEF Nearest, Free, Grow
<1>4. /\ created \in Nat /\ 1..created \subseteq Names /\ s \in 1..created
      /\ created' = created /\ home' = home /\ next' = next
  BY OneMore, SizeAssumption DEF TreeInv, UniverseTypeOK, Names, universeVars
<1>5. t \in 1..created /\ t \in territory[c] /\ owner[t] = c
  <2>1. t \in Elements(border[c]) /\ t \in 1..created
    BY <1>1, ElementsTail, HeadTailProperties
  <2> QED
    BY <2>1 DEF GrowthInv, Homes, Territory
<1> DEFINE more == IF IsBorder(s, c, owner') THEN <<s>> ELSE <<>>
           kept == WithoutInner(c, t, owner')
<1> HIDE DEF t
<1>6. /\ owner' \in [Names -> Civs \union {Nobody}]
      /\ territory' \in [Civs -> SUBSET (1..created')]
      /\ inhabited' \in 0..created' /\ inhabited' = Cardinality(Owned')
      /\ Owned' = Owned \union {s}
      /\ \A d \in Civs : territory'[d] = {u \in 1..created' : owner'[u] = d}
      /\ s \notin territory[c]
      /\ \A u \in Names, d \in Civs :
           /\ IsBorder(u, d, owner') => IsBorder(u, d, owner)
           /\ IsBorder(u, d, owner)' => IsBorder(u, d, owner')
  BY <1>2, <1>3, <1>4, Taken
<1>7. s # t
  BY <1>5, <1>6
<1>8. /\ territory'[c] = territory[c] \union {s}
      /\ \A d \in Civs \ {c} : territory'[d] = territory[d] /\ border'[d] = border[d]
  BY <1>2 DEF GrowthInv, MapTypeOK
<1>9. border'[c] = kept \o more
  BY <1>2 DEF GrowthInv, MapTypeOK
<1>10. /\ kept \in Seq(1..created) /\ Elements(kept) \subseteq Elements(border[c])
       /\ Elements(border[c]) \subseteq Elements(kept) \union {t}
       /\ IsBorder(t, c, owner') => t \in Elements(kept)
  <2>1. /\ t \in Elements(border[c])
        /\ Elements(border[c]) = {t} \union Elements(Tail(border[c]))
        /\ Tail(border[c]) \in Seq(1..created)
    BY <1>1, ElementsTail DEF t
  <2>2. CASE IsBorder(t, c, owner')
    BY <1>1, <2>1, <2>2 DEF WithoutInner
  <2>3. CASE ~IsBorder(t, c, owner')
    BY <2>1, <2>3 DEF WithoutInner
  <2> QED
    BY <2>2, <2>3
<1>11. /\ border'[c] \in Seq(1..created)
       /\ Elements(border'[c]) \subseteq Elements(kept) \union {s}
       /\ Elements(kept) \subseteq Elements(border'[c])
       /\ IsBorder(s, c, owner') => s \in Elements(border'[c])
  <2> HIDE DEF kept
  <2>1. CASE IsBorder(s, c, owner')
    <3>1. border'[c] = Append(kept, s)
      BY <1>4, <1>9, <1>10, <2>1, AppendIsConcat
    <3>2. Append(kept, s) \in Seq(1..created)
      BY <1>4, <1>10, AppendProperties
    <3>3. Elements(Append(kept, s)) = Elements(kept) \union {s}
      BY <1>4, <1>10, ElementsAppend
    <3> QED
      BY <3>1, <3>2, <3>3
  <2>2. CASE ~IsBorder(s, c, owner')
    <3>1. border'[c] = kept
      BY <1>9, <1>10, <2>2, ConcatEmptySeq
    <3> QED
      BY <3>1, <1>10, <2>2
  <2> QED
    BY <2>1, <2>2
<1> HIDE DEF kept, more
<1>12. /\ links'[s] = links[s] \union {t} /\ links'[t] = links[t] \union {s}
       /\ \A u \in Names \ {s, t} : links'[u] = links[u]
       /\ links' \in [Names -> SUBSET (1..created)]
  BY <1>2, <1>4, <1>5, <1>7 DEF GrowthInv, MapTypeOK, Linked
<1>13. MapTypeOK'
  <2>1. border' \in [Civs -> Seq(1..created)]
    BY <1>2, <1>11 DEF GrowthInv, MapTypeOK
  <2> QED
    BY <2>1, <1>4, <1>6, <1>12 DEF GrowthInv, MapTypeOK
<1>14. Phases'
  BY DEF GrowthInv, Phases, universeVars
<1>15. \A d \in Civs : Elements(border[d])' = Elements(border'[d])
  BY DEF Elements
<1>16. Homes'
  <2>1. \A d \in Civs : IF home'[d] = 0 THEN territory'[d] = {} ELSE home'[d] \in territory'[d]
    BY <1>4, <1>5, <1>8 DEF GrowthInv, Homes
  <2>2. \A d \in Civs : Elements(border'[d]) \subseteq territory'[d]
    BY <1>8, <1>10, <1>11 DEF GrowthInv, Homes
  <2>3. \A u \in Names : owner'[u] = Nobody => links'[u] = {}
    <3>1. SUFFICES ASSUME NEW u \in Names, owner'[u] = Nobody PROVE links'[u] = {}
      OBVIOUS
    <3>2. u \notin {s, t} /\ owner[u] = Nobody
      BY <3>1, <1>2, <1>4, <1>5, <1>7, CivsAssumption DEF GrowthInv, MapTypeOK
    <3> QED
      BY <3>2, <1>12 DEF GrowthInv, Homes
  <2> QED
    BY <2>1, <2>2, <2>3, <1>4, <1>15 DEF GrowthInv, Homes
<1>17. Territory'
  <2>1. ASSUME NEW d \in Civs, NEW part \in SUBSET territory'[d],
               home'[d] \in part, part # territory'[d]
        PROVE  \E u \in part, v \in territory'[d] \ part : v \in links'[u] /\ u \in links'[v]
    <3> DEFINE old == part \ {s}
    <3>1. home[d] # s /\ home[d] \in old /\ old \subseteq territory[d]
      <4>1. home[d] \in territory[d]
        BY <2>1, <1>4, <1>5, <1>8 DEF GrowthInv, Homes, MapTypeOK
      <4>2. owner[home[d]] = d
        BY <4>1 DEF GrowthInv, Territory
      <4>3. home[d] # s
        BY <4>2, <1>3, CivsAssumption
      <4> QED
        BY <4>3, <2>1, <1>4, <1>8
    <3>2. \A u \in territory[d] : u # s /\ u \in Names /\ links[u] \subseteq links'[u]
      <4>1. \A u \in territory[d] : u \in Names /\ owner[u] = d
        BY <1>4 DEF GrowthInv, Territory
      <4> QED
        BY <4>1, <1>3, <1>12, CivsAssumption
    <3>3. CASE old # territory[d]
      <4>1. PICK u \in old, v \in territory[d] \ old : v \in links[u] /\ u \in links[v]
        <5> HIDE DEF old
        <5>1. \A w \in SUBSET territory[d] : home[d] \in w /\ w # territory[d]
                => \E u \in w, v \in territory[d] \ w : v \in links[u] /\ u \in links[v]
          BY DEF GrowthInv, Territory
        <5> QED
          BY <5>1, <3>1, <3>3
      <4>2. u \in part /\ v \in territory'[d] \ part
        BY <3>2, <1>8
      <4>3. v \in links'[u] /\ u \in links'[v]
        BY <4>1, <3>1, <3>2
      <4> QED
        BY <4>2, <4>3
    <3>4. CASE old = territory[d]
      <4>1. d = c /\ s \notin part
        BY <2>1, <3>4, <1>8
      <4>2. t \in part /\ s \in territory'[d] \ part
        BY <3>4, <4>1, <1>5, <1>8
      <4> QED
        BY <4>2, <1>12
    <3> QED
      BY <3>3, <3>4
  <2>2. ASSUME NEW u \in Owned', NEW v \in links'[u] PROVE owner'[v] = owner'[u]
    <3>1. owner'[s] = c /\ owner'[t] = c
      BY <1>2, <1>4, <1>5, <1>7 DEF GrowthInv, MapTypeOK
    <3>2. CASE u = s
      BY <2>2, <3>1, <3>2, <1>3, <1>4, <1>12 DEF GrowthInv, Homes
    <3>3. CASE u # s
      <4>1. u \in Owned /\ u \in Names
        BY <3>3, <1>4, <1>6 DEF Owned
      <4>2. CASE v \in links[u]
        <5>1. owner[v] = owner[u] /\ owner[u] # Nobody
          BY <4>1, <4>2 DEF GrowthInv, Territory, Owned
        <5>2. v \in Names /\ v # s
          BY <4>1, <4>2, <5>1, <1>3, <1>4 DEF GrowthInv, MapTypeOK
        <5> QED
          BY <5>1, <5>2, <4>1, <3>3, <1>2 DEF GrowthInv, MapTypeOK
      <4>3. CASE v \notin links[u]
        <5>1. u = t /\ v = s
          BY <4>1, <4>3, <3>3, <2>2, <1>12
        <5> QED
          BY <5>1, <3>1
      <4> QED
        BY <4>2, <4>3
    <3> QED
      BY <3>2, <3>3
  <2> QED
    BY <2>1, <2>2, <1>6 DEF Territory
<1>18. BorderComplete'
  <2>1. ASSUME NEW d \in Civs, NEW u \in territory'[d], IsBorder(u, d, owner)'
        PROVE  u \in Elements(border'[d])
    <3>1. u \in Names
      BY <1>4, <1>6
    <3>2. IsBorder(u, d, owner')
      BY <2>1, <3>1, <1>6
    <3>3. CASE u \in territory[d]
      <4>1. u \in Elements(border[d])
        BY <3>1, <3>2, <3>3, <1>6 DEF GrowthInv, BorderComplete
      <4>2. CASE d = c
        BY <3>2, <4>1, <4>2, <1>10, <1>11
      <4>3. CASE d # c
        BY <4>1, <4>3, <1>8
      <4> QED
        BY <4>2, <4>3
    <3>4. CASE u \notin territory[d]
      <4>1. d = c /\ u = s
        BY <3>4, <2>1, <1>8
      <4> QED
        BY <4>1, <3>2, <1>11
    <3> QED
      BY <3>3, <3>4
  <2> QED
    BY <2>1, <1>15 DEF BorderComplete
<1> QED
  BY <1>13, <1>14, <1>16, <1>17, <1>18 DEF GrowthInv

(* Steps that leave the map of owners and links alone.                     *)
LEMMA MapSame ==
  ASSUME TreeInv, GrowthInv, phase # "place", phase' # "place",
         UNCHANGED <<begun, left, created, first, work, placing, position, tree>>,
         UNCHANGED <<next, owner, links, home, territory, border, inhabited>>
  PROVE  GrowthInv'
<1>1. MapTypeOK' /\ Phases'
  BY DEF GrowthInv, MapTypeOK, Phases
<1>2. \A d \in Civs : Elements(border[d])' = Elements(border[d])
  BY DEF Elements
<1>3. Homes'
  BY <1>2 DEF GrowthInv, Homes
<1>4. Territory'
  BY DEF GrowthInv, Territory, Owned
<1>5. \A u, d : IsBorder(u, d, owner)' = IsBorder(u, d, owner)
  <2> TAKE u, d
  <2>1. NeighbouringSystems(u, BorderWidth)' = NeighbouringSystems(u, BorderWidth)
    BY NearSame
  <2> QED
    BY <2>1 DEF IsBorder
<1>6. BorderComplete'
  BY <1>2, <1>5 DEF GrowthInv, BorderComplete
<1> QED
  BY <1>1, <1>3, <1>4, <1>6 DEF GrowthInv

(* Every step keeps both invariants.                                       *)
LEMMA GrowthStep == TreeInv /\ GrowthInv /\ [Next]_vars => GrowthInv'
<1> SUFFICES ASSUME TreeInv, GrowthInv, [Next]_vars PROVE GrowthInv'
  OBVIOUS
<1>0. TreeInv'
  BY TreeStep
<1>1. CASE Place
  BY <1>0, <1>1, PlaceKeeps
<1>2. CASE Spawn
  BY <1>2, SpawnKeeps
<1>3. CASE EndSpawning
  BY <1>3, MapSame DEF EndSpawning
<1>4. CASE Pass
  BY <1>4, MapSame DEF Pass, universeVars
<1>5. ASSUME NEW c \in Civs, Turn(c) PROVE GrowthInv'
  <2>1. CASE Grow(c)
    BY <1>5, <2>1, GrowKeeps DEF Turn
  <2>2. CASE StopGrowing(c)
    BY <1>5, <2>2, MapSame DEF Turn, StopGrowing, universeVars
  <2> QED
    BY <1>5, <2>1, <2>2 DEF Turn
<1>6. CASE Refuse
  BY <1>6, MapSame DEF Refuse, universeVars
<1>7. CASE Finish
  BY <1>7, MapSame DEF Finish, civVars
<1>8. CASE UNCHANGED vars
  <2>1. CASE phase = "place"
    <3>1. Blank' /\ MapTypeOK' /\ Phases' /\ Homes'
      BY <1>8, <2>1 DEF GrowthInv, Phases, Blank, MapTypeOK, Homes, Elements,
                        vars, universeVars, civVars
    <3>2. (TreeInv /\ MapTypeOK /\ Homes /\ Blank => Territory /\ BorderComplete)'
      BY BlankIsFine, PTL
    <3> QED
      BY <1>0, <3>1, <3>2 DEF GrowthInv
  <2>2. CASE phase # "place"
    BY <1>8, <2>2, MapSame DEF vars, universeVars, civVars
  <2> QED
    BY <2>1, <2>2
<1> QED
  BY <1>1, <1>2, <1>3, <1>4, <1>5, <1>6, <1>7, <1>8 DEF Next

(* At the start there are no civilisations on the map.                     *)
LEMMA GrowthStart == Init => GrowthInv
<1> SUFFICES ASSUME Init PROVE GrowthInv
  OBVIOUS
<1>1. created = 0 /\ phase = "place" /\ TreeInv
  BY TreeStart DEF Init, GenesisInit
<1>2. Len(CivList) \in Nat
  BY CivsAssumption
<1>3. Blank
  BY DEF Init, Blank
<1>4. MapTypeOK
  <2>1. <<>> \in Seq(1..created)
    BY EmptySeq
  <2> QED
    BY <1>1, <2>1 DEF Init, MapTypeOK
<1>5. Homes
  <2>1. \A i \in 1..Len(CivList) : CivList[i] \in Civs
    BY DEF Civs
  <2>2. Elements(<<>>) = {}
    BY DEF Elements
  <2> QED
    BY <1>2, <2>1, <2>2 DEF Init, Homes
<1> QED
  BY <1>1, <1>3, <1>4, <1>5, BlankIsFine DEF GrowthInv, Phases

(* A civilisation's systems hang together along its links, and are what is *)
(* counted, however the dice fall.                                         *)
THEOREM TerritoryAlways == Spec => []Territory
<1>1. GrowthInv => Territory
  BY DEF GrowthInv
<1> QED
  BY TreeStart, TreeStep, GrowthStart, GrowthStep, <1>1, PTL DEF Spec

(* No civilisation stops growing while it has a system at the border.      *)
THEOREM BorderCompleteAlways == Spec => []BorderComplete
<1>1. GrowthInv => BorderComplete
  BY DEF GrowthInv
<1> QED
  BY TreeStart, TreeStep, GrowthStart, GrowthStep, <1>1, PTL DEF Spec

-----------------------------------------------------------------------------
(* A set of natural numbers has a least one.                               *)
LEMMA Least ==
  ASSUME NEW S, S \subseteq Nat, S # {}
  PROVE  \E m \in S : \A k \in S : m <= k
<1> DEFINE Less == {p \in Nat \X Nat : p[1] < p[2]}
<1>1. \A m, k \in Nat : <<k, m>> \notin Less => m <= k
  OBVIOUS
<1>2. IsWellFoundedOn(Less, Nat)
  BY NatLessThanWellFounded DEF OpToRel
<1> HIDE DEF Less
<1>3. \E m \in S : \A k \in S : <<k, m>> \notin Less
  BY <1>2, WFMin
<1> QED
  BY <1>1, <1>3

(* The descent for the least x ends at some system: there is one whose x   *)
(* is closest.                                                             *)
LEMMA SomeEnd ==
  ASSUME position \in [Names -> Int \X Int], tree \subseteq Names, tree # {}, NEW x \in Int
  PROVE  Ends(x) # {}
<1> DEFINE Gap(s) == IF x <= X(s) THEN X(s) - x ELSE x - X(s)
           Gaps == {Gap(s) : s \in tree}
<1>1. \A s \in tree : X(s) \in Int
  BY DEF X
<1>2. Gaps \subseteq Nat /\ Gaps # {}
  BY <1>1
<1>3. PICK m \in Gaps : \A k \in Gaps : m <= k
  <2> HIDE DEF Gaps
  <2> QED
    BY <1>2, Least
<1>4. PICK s \in tree : \A t \in tree : Gap(s) <= Gap(t)
  BY <1>3
<1>5. \A t \in tree : ~(X(s) < X(t) /\ X(t) < x) /\ ~(x < X(t) /\ X(t) < X(s))
  BY <1>1, <1>4
<1> QED
  BY <1>5 DEF Ends

(* So what get_neighbouring_systems returns is exact, too.                 *)
LEMMA NeighboursExact ==
  ASSUME UniverseTypeOK, tree \subseteq Names, NEW o \in Names, NEW d \in Nat
  PROVE  NeighbouringSystems(o, d) = {s \in tree : Nearer(o, s, d)}
<1>1. CASE tree = {}
  BY <1>1 DEF NeighbouringSystems
<1>2. CASE tree # {}
  <2> DEFINE start == CHOOSE s \in Ends(X(o) - d) : TRUE
  <2>1. position \in [Names -> Int \X Int]
    BY DEF UniverseTypeOK
  <2>2. X(o) - d \in Int
    BY <2>1 DEF X
  <2>3. start \in Ends(X(o) - d)
    BY <1>2, <2>1, <2>2, SomeEnd
  <2> HIDE DEF start
  <2>4. Found(start, o, d) = {s \in tree : Nearer(o, s, d)}
    BY <2>3, SearchLemma
  <2> QED
    BY <1>2, <2>4 DEF NeighbouringSystems, start
<1> QED
  BY <1>1, <1>2

(* One is as near to the other as the other to the one.                    *)
LEMMA NearerBothWays ==
  ASSUME position \in [Names -> Int \X Int], NEW s \in Names, NEW t \in Names, NEW d
  PROVE  Nearer(s, t, d) <=> Nearer(t, s, d)
<1>1. X(s) \in Int /\ X(t) \in Int /\ Y(s) \in Int /\ Y(t) \in Int
  BY DEF X, Y
<1>2. \A a, b \in Int : (a - b) * (a - b) = (b - a) * (b - a)
  <2>1. ASSUME NEW a \in Int, NEW b \in Int PROVE (a - b) * (a - b) = (b - a) * (b - a)
    BY SMT
  <2> QED
    BY <2>1
<1>3. /\ (X(s) - X(t)) * (X(s) - X(t)) = (X(t) - X(s)) * (X(t) - X(s))
      /\ (Y(s) - Y(t)) * (Y(s) - Y(t)) = (Y(t) - Y(s)) * (Y(t) - Y(s))
  BY <1>1, <1>2
<1> QED
  BY <1>3, Zenon DEF Nearer

(* A new home is far from the others.                                      *)
LEMMA SpawnApart ==
  ASSUME TreeInv, GrowthInv, HomesApart, Spawn PROVE HomesApart'
<1>1. PICK s \in 1..created : \E c \in {CivList[next]} :
        Suits(s) /\ home' = [home EXCEPT ![c] = s]
  BY DEF Spawn
<1> DEFINE c == CivList[next]
<1>2. c \in Civs /\ Suits(s) /\ home' = [home EXCEPT ![c] = s]
  <2>1. next \in 1..Len(CivList)
    BY DEF Spawn, GrowthInv, Homes
  <2>2. c \in Civs
    BY <2>1 DEF Civs
  <2> QED
    BY <1>1, <2>2
<1> HIDE DEF c
<1>3. /\ UNCHANGED <<position, tree>> /\ position \in [Names -> Int \X Int]
      /\ 1..created \subseteq Names /\ tree \subseteq Names /\ HomeDistance \in Nat
  <2>1. 1..created \subseteq Names
    BY OneMore, SizeAssumption DEF TreeInv, UniverseTypeOK, Names
  <2>2. UNCHANGED <<position, tree>>
    BY DEF Spawn, universeVars
  <2>3. HomeDistance \in Nat
    BY GrowthAssumption
  <2> QED
    BY <2>1, <2>2, <2>3 DEF TreeInv, UniverseTypeOK
<1>4. home'[c] = s /\ \A d \in Civs \ {c} : home'[d] = home[d]
  BY <1>2 DEF GrowthInv, MapTypeOK
<1>5. ASSUME NEW d \in Civs, home[d] # 0, home[d] \in tree
      PROVE  ~Nearer(s, home[d], HomeDistance)
  <2>1. owner[home[d]] = d /\ d # Nobody
    BY <1>5, CivsAssumption DEF GrowthInv, Homes, Territory
  <2>2. home[d] \notin NeighbouringSystems(s, HomeDistance)
    BY <1>2, <2>1 DEF Suits
  <2>3. NeighbouringSystems(s, HomeDistance) = {t \in tree : Nearer(s, t, HomeDistance)}
    BY <1>3, NeighboursExact DEF TreeInv
  <2> QED
    BY <1>5, <2>2, <2>3
<1>6. \A t, u : Nearer(t, u, HomeDistance)' = Nearer(t, u, HomeDistance)
  BY <1>3 DEF Nearer, X, Y
<1>7. ASSUME NEW d \in Civs, NEW e \in Civs, d # e, home'[d] # 0, home'[e] # 0,
             home'[d] \in tree, home'[e] \in tree
      PROVE  ~Nearer(home'[d], home'[e], HomeDistance)
  <2>1. CASE d = c
    BY <1>4, <1>5, <1>7, <2>1
  <2>2. CASE e = c
    <3>1. home'[d] = home[d] /\ ~Nearer(s, home[d], HomeDistance) /\ home[d] \in Names
      BY <1>3, <1>4, <1>5, <1>7, <2>2
    <3>2. s \in Names
      BY <1>3
    <3>3. ~Nearer(home[d], s, HomeDistance)
      BY <1>3, <3>1, <3>2, NearerBothWays
    <3> QED
      BY <1>4, <2>2, <3>1, <3>3
  <2>3. CASE d # c /\ e # c
    BY <1>4, <1>7, <2>3 DEF HomesApart
  <2> QED
    BY <2>1, <2>2, <2>3
<1> QED
  BY <1>3, <1>6, <1>7 DEF HomesApart

(* Homes are as far from each other as civ.c wants them: a civilisation's  *)
(* home is visible to the search that looks for the next one's, unless the *)
(* tree has lost it.                                                       *)
THEOREM HomesApartAlways == Spec => []HomesApart
<1>1. Init => HomesApart
  BY DEF Init, HomesApart
<1>2. TreeInv /\ GrowthInv /\ HomesApart /\ [Next]_vars => HomesApart'
  <2> SUFFICES ASSUME TreeInv, GrowthInv, HomesApart, [Next]_vars PROVE HomesApart'
    OBVIOUS
  <2>1. CASE Spawn
    BY <2>1, SpawnApart
  <2>2. CASE Place
    <3>1. \A d \in Civs : home'[d] = 0
      <4>1. phase = "place"
        BY <2>2 DEF Place, GenesisNext, BeginConstellation, CreateFirst, CreateFar, CreateNear,
                    Create, PlaceAgain, EndPlacement, TreeInv, UniverseTypeOK, GrowthInv, Phases
      <4> QED
        BY <4>1, <2>2 DEF GrowthInv, Phases, Blank, Place, civVars
    <3> QED
      BY <3>1 DEF HomesApart
  <2>3. CASE UNCHANGED <<position, tree, home>>
    BY <2>3 DEF HomesApart, Nearer, X, Y
  <2>4. Next => Spawn \/ Place \/ UNCHANGED <<position, tree, home>>
    BY DEF Next, EndSpawning, Pass, Turn, Refuse, Finish, universeVars, civVars
  <2> QED
    BY <2>1, <2>2, <2>3, <2>4 DEF vars, universeVars, civVars
<1> QED
  BY TreeStart, TreeStep, GrowthStart, GrowthStep, <1>1, <1>2, PTL DEF Spec

-----------------------------------------------------------------------------
(* A wider search finds no less.                                           *)
LEMMA WiderFindsMore ==
  ASSUME UniverseTypeOK, NEW s \in Names, NEW t \in Names, NEW q \in Nat, NEW r \in Nat,
         q <= r, Nearer(s, t, q)
  PROVE  Nearer(s, t, r)
<1> DEFINE dx == X(t) - X(s)
           dy == Y(t) - Y(s)
<1>1. dx \in Int /\ dy \in Int
  BY DEF UniverseTypeOK, X, Y
<1>2. dx * dx + dy * dy < q * q
  BY DEF Nearer
<1>3. dx * dx \in Int /\ dy * dy \in Int /\ q * q \in Int /\ r * r \in Int
  <2> HIDE DEF dx, dy
  <2> QED
    BY <1>1, SMT
<1>4. q * q <= q * r /\ q * r <= r * r /\ q * r \in Int
  <2>1. \A a, b, m \in Nat : a <= b => m * a <= m * b /\ a * m <= b * m /\ m * a \in Int
    BY SMT
  <2> QED
    BY <2>1
<1>5. dx * dx + dy * dy < r * r
  <2> HIDE DEF dx, dy
  <2>1. \A a, b, c, d \in Int : a + b < c /\ c <= d => a + b < d
    OBVIOUS
  <2>2. q * q <= r * r
    BY <1>3, <1>4
  <2> QED
    BY <1>2, <1>3, <2>1, <2>2
<1> QED
  BY <1>5 DEF Nearer

(* The widths of the search are whole.                                     *)
LEMMA RadiiWhole == Radii \subseteq Nat
<1>1. \A k \in Nat, m \in Nat : k * m \in Nat
  BY SMT
<1> QED
  BY <1>1, GrowthAssumption DEF Radii

(* A civilisation takes no system while a free one is nearer to its border *)
(* by a step of the search (grow_civ).                                     *)
THEOREM GrowsNearAlways == Spec => GrowsNear
<1> DEFINE Near == \A s, u \in tree : owner[s] = Nobody /\ owner[u] = Nobody =>
                     \A t \in links'[s] \ links[s] :
                       \A r \in Radii : Nearer(t, u, r) => Nearer(t, s, r)
<1>1. TreeInv /\ GrowthInv /\ [Next]_vars => [Near]_vars
  <2> SUFFICES ASSUME TreeInv, GrowthInv, Next PROVE Near
    OBVIOUS
  <2>1. CASE links' = links
    BY <2>1
  <2>2. ASSUME NEW c \in Civs, Grow(c) PROVE Near
    <3> DEFINE from == Head(border[c])
    <3>1. PICK new \in tree : Nearest(from, new) /\ links' = Linked(new, from)
      BY <2>2 DEF Grow
    <3>2. from \in 1..created /\ owner[from] = c /\ c # Nobody
      <4>1. border[c] # <<>> /\ border[c] \in Seq(1..created)
        BY <2>2 DEF Grow, GrowthInv, MapTypeOK
      <4>2. from \in Elements(border[c]) /\ from \in 1..created
        BY <4>1, ElementsTail, HeadTailProperties
      <4> QED
        BY <4>2, CivsAssumption DEF GrowthInv, Homes, Territory
    <3> HIDE DEF from
    <3>3. 1..created \subseteq Names /\ tree \subseteq Names
      BY OneMore, SizeAssumption DEF TreeInv, UniverseTypeOK, Names
    <3>4. ASSUME NEW s \in tree, NEW u \in tree, owner[s] = Nobody, owner[u] = Nobody,
                 NEW t \in links'[s] \ links[s], NEW r \in Radii, Nearer(t, u, r)
          PROVE  Nearer(t, s, r)
      <4>1. s # from
        BY <3>2, <3>4
      <4>2. s = new /\ t = from
        BY <3>1, <3>3, <3>4, <4>1 DEF Linked, GrowthInv, MapTypeOK
      <4>3. PICK q \in Radii : new \in Free(from, q) /\ \A p \in Radii : p < q => Free(from, p) = {}
        BY <3>1 DEF Nearest
      <4>4. q \in Nat /\ r \in Nat
        BY <3>4, <4>3, RadiiWhole
      <4>5. u \in Free(from, r)
        BY <3>2, <3>3, <3>4, <4>2, <4>4, NeighboursExact DEF Free, TreeInv
      <4>6. q <= r
        BY <3>4, <4>3, <4>4, <4>5
      <4>7. Nearer(from, new, q)
        BY <3>2, <3>3, <4>3, <4>4, NeighboursExact DEF Free, TreeInv
      <4> QED
        BY <3>2, <3>3, <4>2, <4>4, <4>6, <4>7, WiderFindsMore DEF TreeInv
    <3> QED
      BY <3>4
  <2>3. Next => links' = links \/ \E c \in Civs : Grow(c)
    BY DEF Next, Place, Spawn, EndSpawning, Pass, Turn, StopGrowing, Refuse, Finish, civVars
  <2> QED
    BY <2>1, <2>2, <2>3
<1> QED
  BY TreeStart, TreeStep, GrowthStart, GrowthStep, <1>1, PTL DEF Spec, GrowsNear
=============================================================================
