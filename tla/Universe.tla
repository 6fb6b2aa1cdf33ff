------------------------------ MODULE Universe ------------------------------
(***************************************************************************)
(* The systems of the universe: how spawn_constellations creates and       *)
(* places them (constellation.c), the tree in which they are ordered by    *)
(* their x coordinate, and the search for neighbours (universe.c).         *)
(*                                                                         *)
(* A system is the number of its creation.  The red-black tree appears as  *)
(* the set of the systems that are linked into it; its shape matters only  *)
(* to where a descent for an absent x ends, which is left open (Ends).     *)
(*                                                                         *)
(* A loop that draws positions until one is free is one step: what it      *)
(* rejects changes nothing.  The polar coordinates of a constellation's    *)
(* first system are any of Positions.                                      *)
(***************************************************************************)
EXTENDS Integers, Sequences, FiniteSets

CONSTANTS
  Constellations,  \* CONSTELLATION_MAXNUM
  GreekN,          \* GREEK_N: letters to name the systems of one by
  Positions,       \* where a constellation can begin
  NeighbourDistance, MinDistance  \* NEIGHBOUR_DISTANCE_LY, CONSTELLATION_MIN_DISTANCE

ASSUME SizeAssumption ==
  /\ Constellations \in Nat \ {0}
  /\ GreekN \in Nat \ {0, 1}
ASSUME PositionsAssumption == Positions \subseteq Int \X Int
ASSUME DistanceAssumption == NeighbourDistance \in Nat /\ MinDistance \in Nat

Names == 1..Constellations * (GreekN - 1)

VARIABLES
  phase,     \* "place" while constellations are made; then Civilisations's
  begun,     \* constellations begun
  left,      \* systems of the last one that are still to be made
  created,   \* ptrlist_len(&univ.systems): the systems are 1..created
  first,     \* fs: the first system of the constellation, or 0
  work,      \* systems of the constellation that get neighbours
  placing,   \* the first system, while it is too close to others; or 0
  position,  \* x and y; <<0, 0>> from the start
  tree       \* univ.x_rbtree

universeVars == <<phase, begun, left, created, first, work, placing, position, tree>>

UniverseTypeOK ==
  /\ phase \in {"place", "spawn", "grow", "done"}
  /\ begun \in 0..Constellations
  /\ left \in 0..GreekN - 1
  /\ created \in 0..Constellations * (GreekN - 1)
  /\ first \in 0..created
  /\ work \in Seq(1..created)
  /\ placing \in {0, first}
  /\ position \in [Names -> Int \X Int]
  /\ tree \subseteq 1..created

GenesisInit ==
  /\ phase = "place"
  /\ begun = 0
  /\ left = 0
  /\ created = 0
  /\ first = 0
  /\ work = <<>>
  /\ placing = 0
  /\ position = [s \in Names |-> <<0, 0>>]
  /\ tree = {}

-----------------------------------------------------------------------------
(* Searching.                                                              *)

X(s) == position[s][1]
Y(s) == position[s][2]

(* system_distance, compared with a distance that is not 0: dropping the   *)
(* fraction of the root makes no difference then.                          *)
Nearer(s, t, distance) ==
  LET dx == X(t) - X(s)
      dy == Y(t) - Y(s)
  IN  dx * dx + dy * dy < distance * distance

(* get_system_at_x.                                                        *)
AtX(x) == {s \in tree : X(s) = x}

(* get_first_system_after_x: it may be the last one before x as well.      *)
Ends(x) ==
  IF AtX(x) # {} THEN AtX(x)
  ELSE {s \in tree : \A t \in tree : /\ ~(X(s) < X(t) /\ X(t) < x)
                                     /\ ~(x < X(t) /\ X(t) < X(s))}

(* Bug: the scan begins behind the system it was given.                    *)
ScannedAfter(start, x) == {s \in tree : X(start) < X(s) /\ X(s) <= x}

(* rb_next from a system on, up to x.                                      *)
Scanned(start, x) == {s \in tree : X(start) <= X(s) /\ X(s) <= x}

Found(start, origin, distance) ==
  {s \in Scanned(start, X(origin) + distance) :
     /\ Y(origin) - distance <= Y(s)
     /\ Y(s) <= Y(origin) + distance
     /\ Nearer(origin, s, distance)}

(* get_neighbouring_systems; the origin is one of them if it is in the     *)
(* tree.  By SearchExact any start will do.                                *)
NeighbouringSystems(origin, distance) ==
  IF tree = {} THEN {}
  ELSE LET start == CHOOSE s \in Ends(X(origin) - distance) : TRUE
       IN  Found(start, origin, distance)

-----------------------------------------------------------------------------
(* system_move.                                                            *)

(* What is erased from the tree is what is found at the old x.             *)
SystemMove(s, p) ==
  /\ AtX(p[1]) = {}
  /\ tree' = (tree \ AtX(X(s))) \union {s}
  /\ position' = [position EXCEPT ![s] = p]

-----------------------------------------------------------------------------
(* addconstellation and spawn_constellations.                              *)

(* How many systems a constellation gets: the draw is below GREEK_N, and 0 *)
(* becomes 1.                                                              *)
Sizes == 1..GreekN - 1

BeginConstellation ==
  /\ phase = "place"
  /\ left = 0
  /\ placing = 0
  /\ begun < Constellations
  /\ begun' = begun + 1
  /\ left' \in Sizes
  /\ first' = 0
  /\ work' = <<>>
  /\ UNCHANGED <<phase, created, placing, position, tree>>

(* The next system of a constellation.                                     *)
Create ==
  /\ left > 0
  /\ placing = 0
  /\ left' = left - 1
  /\ created' = created + 1
  /\ UNCHANGED <<phase, begun>>

(* The first constellation begins in the middle.                           *)
CreateFirst ==
  /\ Create
  /\ created = 0
  /\ SystemMove(1, <<0, 0>>)
  /\ first' = 1
  /\ work' = <<1>>
  /\ UNCHANGED placing

(* The others begin far enough from what is in the tree.                   *)
Far(s) == Cardinality(NeighbouringSystems(s, MinDistance)) <= 1

CreateFar ==
  /\ Create
  /\ first = 0
  /\ created > 0
  /\ \E s \in {created + 1} :
       /\ \E p \in Positions : SystemMove(s, p)
       /\ first' = s
       /\ work' = <<s>>
       /\ placing' = IF Far(s)' THEN 0 ELSE s

PlaceAgain ==
  /\ placing # 0
  /\ \E s \in {placing} :
       /\ \E p \in Positions : SystemMove(s, p)
       /\ placing' = IF Far(s)' THEN 0 ELSE s
  /\ UNCHANGED <<phase, begun, left, created, first, work>>

(* makeneighbours.                                                         *)
Offsets == {2 * r - NeighbourDistance : r \in 0..NeighbourDistance - 1}

MakeNeighbours(center, s) ==
  \E dx, dy \in Offsets : SystemMove(s, <<X(center) + dx, Y(center) + dy>>)

(* The head of work may have got enough neighbours.                        *)
CreateNear ==
  /\ Create
  /\ first # 0
  /\ MakeNeighbours(IF work = <<>> THEN first ELSE Head(work), created + 1)
  /\ LET more == Append(work, created + 1)
     IN  \/ work' = more
         \/ work # <<>> /\ work' = Tail(more)
  /\ UNCHANGED <<first, placing>>

EndPlacement ==
  /\ phase = "place"
  /\ left = 0
  /\ placing = 0
  /\ begun = Constellations
  /\ phase' = "spawn"
  /\ UNCHANGED <<begun, left, created, first, work, placing, position, tree>>

GenesisNext == \/ BeginConstellation
               \/ CreateFirst
               \/ CreateFar
               \/ PlaceAgain
               \/ CreateNear
               \/ EndPlacement

GenesisSpec == GenesisInit /\ [][GenesisNext]_universeVars

-----------------------------------------------------------------------------
(* No two systems in the tree have the same x, and a system that is not in *)
(* the tree has x = 0: nothing else gets lost.  system_move erases what it *)
(* finds at the old x, which is 0 for a system that is not in the tree yet.*)
TreeSound ==
  /\ \A s, t \in tree : X(s) = X(t) => s = t
  /\ \A s \in 1..created : s \in tree \/ X(s) = 0

(* Every system that was placed is in the tree, where the searches look    *)
(* for it.  system_move's comments speak of systems that are not in the    *)
(* tree yet; it erases another system in their place.                      *)
TreeComplete == tree = 1..created

(* get_neighbouring_systems finds what is in the tree and nearer than the  *)
(* distance, and nothing else, wherever the descent ended.                 *)
SearchExact ==
  \A origin \in 1..created, distance \in {NeighbourDistance, MinDistance} :
    \A start \in Ends(X(origin) - distance) :
      Found(start, origin, distance) = {s \in tree : Nearer(origin, s, distance)}
=============================================================================
