--------------------------- MODULE Civilisations ---------------------------
(***************************************************************************)
(* Civilisations get home systems and grow over the systems around them    *)
(* (civ.c), after the systems have been placed as Universe says.           *)
(*                                                                         *)
(* Draws of random numbers are choices.  A civilisation whose power is 0   *)
(* never gets its turn, and the growth might never end: the shipped ones   *)
(* have powers of 2 to 10.                                                 *)
(***************************************************************************)
EXTENDS Universe

CONSTANTS
  CivList,          \* univ.civs: a sequence
  Power(_),         \* c->power
  CivTenths,        \* UNIVERSE_CIV_FRAC is 4 tenths
  BorderWidth,      \* CIV_MIN_BORDER_WIDTH
  HomeDistance,     \* INITIAL_MIN_INTERCIV_DISTANCE_LY
  GrowMin, GrowStep,  \* CIV_GROW_MIN_LY, CIV_GROW_STEP_LY
  MaxRings,         \* bound on the steps by which a search is widened
  Nobody            \* NULL

Civs == {CivList[i] : i \in 1..Len(CivList)}

ASSUME CivsAssumption ==
  /\ CivList \in Seq(Civs)
  /\ \A i, j \in 1..Len(CivList) : CivList[i] = CivList[j] => i = j
  /\ \A c \in Civs : Power(c) \in Nat \ {0}
  /\ Nobody \notin Civs
ASSUME GrowthAssumption ==
  /\ CivTenths \in 0..10
  /\ {BorderWidth, HomeDistance, MaxRings} \subseteq Nat
  /\ GrowMin \in Nat \ {0} /\ GrowStep \in Nat \ {0}

VARIABLES
  next,       \* the place in CivList of the next civilisation to get a home
  owner,      \* s->owner
  links,      \* s->links
  home,       \* c->home, or 0
  territory,  \* c->systems
  border,     \* c->border_systems
  inhabited,  \* univ.inhabited_systems
  growing,    \* growing_civs
  turns       \* those of them whose turn is still to come in this pass

civVars == <<next, owner, links, home, territory, border, inhabited, growing, turns>>
vars == <<universeVars, civVars>>

Elements(list) == {list[i] : i \in 1..Len(list)}

MapTypeOK ==
  /\ owner \in [Names -> Civs \union {Nobody}]
  /\ links \in [Names -> SUBSET (1..created)]
  /\ home \in [Civs -> 0..created]
  /\ territory \in [Civs -> SUBSET (1..created)]
  /\ border \in [Civs -> Seq(1..created)]
  /\ inhabited \in 0..created

TypeOK ==
  /\ UniverseTypeOK
  /\ MapTypeOK
  /\ next \in 1..Len(CivList) + 1
  /\ growing \in Seq(Civs)
  /\ turns \in Seq(Civs)
  /\ Elements(turns) \subseteq Elements(growing)

Init ==
  /\ GenesisInit
  /\ next = 1
  /\ owner = [s \in Names |-> Nobody]
  /\ links = [s \in Names |-> {}]
  /\ home = [c \in Civs |-> 0]
  /\ territory = [c \in Civs |-> {}]
  /\ border = [c \in Civs |-> <<>>]
  /\ inhabited = 0
  /\ growing = <<>>
  /\ turns = <<>>

Place == GenesisNext /\ UNCHANGED civVars

-----------------------------------------------------------------------------
(* spawn_civilizations.                                                    *)

(* Nobody owns the system, nor another one near.                           *)
Suits(s) ==
  /\ owner[s] = Nobody
  /\ \A t \in NeighbouringSystems(s, HomeDistance) : owner[t] = Nobody

Spawn ==
  /\ phase = "spawn"
  /\ next <= Len(CivList)
  /\ \E s \in 1..created, c \in {CivList[next]} :
       /\ Suits(s)
       /\ owner' = [owner EXCEPT ![s] = c]
       /\ home' = [home EXCEPT ![c] = s]
       /\ territory' = [territory EXCEPT ![c] = @ \union {s}]
       /\ border' = [border EXCEPT ![c] = Append(@, s)]
  /\ next' = next + 1
  /\ inhabited' = inhabited + 1
  /\ UNCHANGED <<universeVars, links, growing, turns>>

(* A hundred systems were drawn of which all but the last did not suit, or *)
(* there is no other civilisation: those without a home are removed, and   *)
(* the others put on the list of those that grow, last first.              *)
EndSpawning ==
  /\ phase = "spawn"
  /\ next <= Len(CivList) => \E s \in 1..created : ~Suits(s)
  /\ phase' = "grow"
  /\ growing' = [i \in 1..next - 1 |-> CivList[next - i]]
  /\ UNCHANGED <<begun, left, created, first, work, placing, position, tree>>
  /\ UNCHANGED <<next, owner, links, home, territory, border, inhabited, turns>>

-----------------------------------------------------------------------------
(* grow_civ.                                                               *)

(* is_border_system: there is a free system near, and no foreign one.      *)
IsBorder(s, c, own) ==
  LET near == NeighbouringSystems(s, BorderWidth)
  IN  /\ \E t \in near : own[t] = Nobody
      /\ \A t \in near : own[t] \in {Nobody, c}

(* The search is widened until it finds a free system.                     *)
Radii == {GrowMin + k * GrowStep : k \in 0..MaxRings}

Free(t, r) == {s \in NeighbouringSystems(t, r) : owner[s] = Nobody}

(* Bug: the width at which a system was found is not kept.                 *)
NearestInAnyRing(t, s) ==
  \E r \in Radii :
    /\ s \in Free(t, r)
    /\ \A u \in Free(t, r) : X(s) <= X(u)

(* Of the free systems it finds, the one with the least x.                 *)
Nearest(t, s) ==
  \E r \in Radii :
    /\ s \in Free(t, r)
    /\ \A q \in Radii : q < r => Free(t, q) = {}
    /\ \A u \in Free(t, r) : X(s) <= X(u)

(* Bug: the system that has grown is always taken for one inside.          *)
WithoutHead(c, t, own) == Tail(border[c])

(* The border's systems after s was added: t is its head.                  *)
WithoutInner(c, t, own) == IF IsBorder(t, c, own) THEN border[c] ELSE Tail(border[c])

(* Bug: only one end of the link is recorded.                              *)
OneWay(s, t) == [links EXCEPT ![s] = @ \union {t}]

(* linksystems.                                                            *)
Linked(s, t) == [links EXCEPT ![s] = @ \union {t}, ![t] = @ \union {s}]

Grow(c) ==
  /\ border[c] # <<>>
  /\ \E s \in tree, t \in {Head(border[c])} :
       /\ Nearest(t, s)
       /\ owner' = [owner EXCEPT ![s] = c]
       /\ links' = Linked(s, t)
       /\ territory' = [territory EXCEPT ![c] = @ \union {s}]
       /\ border' = [border EXCEPT ![c] =
                       WithoutInner(c, t, owner') \o
                       (IF IsBorder(s, c, owner') THEN <<s>> ELSE <<>>)]
  /\ inhabited' = inhabited + 1
  /\ UNCHANGED growing

(* A civilisation without a border stops growing.                          *)
StopGrowing(c) ==
  /\ border[c] = <<>>
  /\ growing' = SelectSeq(growing, LAMBDA d : d # c)
  /\ UNCHANGED <<owner, links, territory, border, inhabited>>

-----------------------------------------------------------------------------
(* grow_all_civs.                                                          *)

Goal == (created * CivTenths) \div 10

(* Bug: the goal counts the civilisations that still grow.                 *)
GoesOnWithAll == inhabited < Goal \/ growing # <<>>

GoesOn == inhabited < Goal /\ growing # <<>>

Pass ==
  /\ phase = "grow"
  /\ turns = <<>>
  /\ GoesOn
  /\ turns' = growing
  /\ UNCHANGED <<universeVars, next, owner, links, home, territory, border, inhabited, growing>>

(* The dice say so, or not: they cannot refuse a civilisation that has all *)
(* the power there is.                                                     *)
Turn(c) ==
  /\ phase = "grow"
  /\ turns # <<>>
  /\ c = Head(turns)
  /\ Grow(c) \/ StopGrowing(c)
  /\ turns' = Tail(turns)
  /\ UNCHANGED <<universeVars, next, home>>

Refuse ==
  /\ phase = "grow"
  /\ turns # <<>>
  /\ \E c \in Civs : c # Head(turns) /\ home[c] # 0
  /\ turns' = Tail(turns)
  /\ UNCHANGED <<universeVars, next, owner, links, home, territory, border, inhabited, growing>>

Finish ==
  /\ phase = "grow"
  /\ turns = <<>>
  /\ ~GoesOn
  /\ phase' = "done"
  /\ UNCHANGED <<begun, left, created, first, work, placing, position, tree, civVars>>

Next == \/ Place
        \/ Spawn
        \/ EndSpawning
        \/ Pass
        \/ \E c \in Civs : Turn(c)
        \/ Refuse
        \/ Finish

Spec == Init /\ [][Next]_vars

(* The program goes on, and the dice favour everybody now and then.        *)
Fairness == /\ WF_vars(Pass \/ Refuse \/ Finish \/ \E c \in Civs : Turn(c))
            /\ \A c \in Civs : SF_vars(Turn(c))

FairSpec == Spec /\ Fairness

-----------------------------------------------------------------------------
Owned == {s \in 1..created : owner[s] # Nobody}

(* A civilisation's systems hang together: from home one gets to each of   *)
(* them along hyperspace links, without leaving it, and back.  There are   *)
(* no links but those, and inhabited_systems counts the systems.           *)
Territory ==
  /\ \A c \in Civs :
       /\ territory[c] = {s \in 1..created : owner[s] = c}
       /\ \A part \in SUBSET territory[c] :
            home[c] \in part /\ part # territory[c]
               => \E s \in part, t \in territory[c] \ part : t \in links[s] /\ s \in links[t]
  /\ \A s \in Owned : \A t \in links[s] : owner[t] = owner[s]
  /\ inhabited = Cardinality(Owned)

(* The list that a civilisation grows from has every system of its own     *)
(* that is at the border by now, though it is looked at only when it is    *)
(* added and after it has grown.                                           *)
BorderComplete ==
  \A c \in Civs : \A s \in territory[c] :
    IsBorder(s, c, owner) => s \in Elements(border[c])

(* Two homes are as far from each other as civ.c wants them, unless the    *)
(* tree has lost one of them.                                              *)
HomesApart ==
  \A c, d \in Civs :
    c # d /\ home[c] # 0 /\ home[d] # 0 /\ {home[c], home[d]} \subseteq tree
      => ~Nearer(home[c], home[d], HomeDistance)

(* A system is added to a civilisation only if no free one is nearer to    *)
(* the system it is linked to by a step of the search.                     *)
GrowsNear ==
  [][\A s, u \in tree : owner[s] = Nobody /\ owner[u] = Nobody =>
       \A t \in links'[s] \ links[s] :
         \A r \in Radii : Nearer(t, u, r) => Nearer(t, s, r)]_vars

(* The growth ends, as long as there are free systems in the tree.         *)
GrowthEnds ==
  phase = "grow" ~> phase = "done" \/ (\A s \in tree : owner[s] # Nobody)
=============================================================================
