------------------------------ MODULE TreeProofs ------------------------------
(***************************************************************************)
(* The tree of systems is a red-black tree and an ordered set, for every   *)
(* finite set of coordinates.  The inductive invariant gives every node    *)
(* an interval (bounds) and a black height (heights), two functions that   *)
(* the code does not have; every step of the code then changes them at one *)
(* or two nodes.                                                           *)
(***************************************************************************)
EXTENDS SystemTree, FiniteSetTheorems, WellFoundedInduction, TLAPS

MaybeKeys == Keys \union {NULL}

(* x is strictly on side d of y; strictly between the two bounds.          *)
Beyond(d, x, y) == IF d = Left THEN x < y ELSE y < x
Within(x, bounds) == \A d \in Sides : bounds[d] # NULL => Beyond(Other(d), x, bounds[d])
Towards(x, n) == IF x < n THEN Left ELSE Right

(***************************************************************************)
(* The links.  b[n] is the interval that n divides among its subtrees:     *)
(* everything for the root, and for a child one half of its parent's.      *)
(***************************************************************************)
Bounds == [Keys -> [Sides -> MaybeKeys]]
Hangs(t, b, n, d) == LET k == t.kid[n][d]
                     IN t.parent[k] = n /\ b[k][d] = b[n][d] /\ b[k][Other(d)] = n
RootFree(t, b) == t.root # NULL => /\ t.parent[t.root] = NULL
                                   /\ \A d \in Sides : b[t.root][d] = NULL
KidsHang(t, b) == \A n \in Members(t) : \A d \in Sides :
                    t.kid[n][d] # NULL => Hangs(t, b, n, d)
ParentsHold(t) == \A n \in Keys : t.parent[n] # NULL =>
                    /\ t.parent[n] \in Members(t)
                    /\ \E d \in Sides : t.kid[t.parent[n]][d] = n
Ordered(t, b) == \A n \in Members(t) : Within(n, b[n])
OthersClear(t) == \A n \in Keys \ Members(t) : \A d \in Sides : t.kid[n][d] = NULL
Shape(t, b) == /\ t \in Trees /\ b \in Bounds
               /\ RootFree(t, b) /\ KidsHang(t, b) /\ ParentsHold(t)
               /\ Ordered(t, b) /\ OthersClear(t)

(***************************************************************************)
(* The colours.  h[n] is the number of black nodes on every way down from  *)
(* n, itself included; what hangs on side d of p is one short of it.  No   *)
(* red node is the root or below a red one, except for x or below y.       *)
(***************************************************************************)
Heights == [Keys -> Nat]
HeightOf(h, n) == IF n = NULL THEN 0 ELSE h[n]
Weight(t, n) == IF t.red[n] THEN 0 ELSE 1
Lack(p, d, n, e) == IF n = p /\ e = d THEN 1 ELSE 0
Even(t, h, p, d) == \A n \in Members(t) : \A e \in Sides :
                      h[n] = HeightOf(h, t.kid[n][e]) + Weight(t, n) + Lack(p, d, n, e)
Apart(t, x, y) == /\ IsRed(t, t.root) => t.root = x
                  /\ \A n \in Members(t) : \A d \in Sides :
                       t.red[n] /\ IsRed(t, t.kid[n][d]) => t.kid[n][d] = x \/ n = y

(* Where the calls are.                                                    *)
Asked == \/ op = <<"none">>
         \/ \E name \in {"find", "insert", "erase", "next", "prev"}, x \in Keys : op = <<name, x>>
         \/ \E x, y \in Keys : x < y /\ op = <<"between", x, y>>
Seeks == {"find", "insert", "erase", "between"}

Met(n) == op[1] = "between" =>
            \A k \in Members(tree) : k >= op[2] /\ (n = NULL \/ k < n) => k \in found
Passed(x) == op[1] = "between" =>
            \A k \in Members(tree) : k >= op[2] /\ k <= x => k \in found
FoundOK == op[1] = "between" =>
             \A k \in found : k \in Members(tree) /\ k <= op[3]

AtDescend(b) ==
  /\ op[1] \in Seeks /\ op[2] \in Keys /\ found = {}
  /\ IF up = NULL THEN curr = tree.root
     ELSE /\ up \in Members(tree) /\ up # op[2] /\ Within(op[2], b[up])
          /\ curr = tree.kid[up][Towards(op[2], up)]
From(x) == /\ x \in Members(tree)
           /\ \/ op[1] \in {"next", "prev", "between"}
              \/ op[1] = "erase" /\ phase = "farthest" /\ \A d \in Sides : tree.kid[x][d] # NULL
           /\ op[1] # "between" => x = op[2]
           /\ Passed(x)
AtTurn == phase = "turn" => From(curr)
AtFarthest(b) == phase = "farthest" => /\ curr \in Members(tree)
                                       /\ \E x \in Keys : From(x) /\ b[curr][Other(Ahead)] = x
AtClimb(b) == phase = "climb" => /\ curr \in Members(tree)
                                 /\ \E x \in Keys : /\ From(x) /\ tree.kid[x][Ahead] = NULL
                                                    /\ b[curr][Ahead] = b[x][Ahead]
AtWalk == phase = "walk" => op[1] = "between" /\ curr \in Members(tree) \union {NULL} /\ Met(curr)

Places(b) == /\ FoundOK
             /\ phase = "descend" => AtDescend(b)
             /\ AtTurn /\ AtFarthest(b) /\ AtClimb(b) /\ AtWalk

Colours(h) ==
  /\ phase \notin {"insert_color", "erase_color"} => Even(tree, h, NULL, Left) /\ Apart(tree, NULL, NULL)
  /\ phase = "insert_color" => /\ curr \in Members(tree) /\ tree.red[curr]
                               /\ Even(tree, h, NULL, Left) /\ Apart(tree, curr, NULL)
  /\ phase = "erase_color" =>
       /\ Apart(tree, curr, curr)
       /\ IF up = NULL THEN curr = tree.root /\ Even(tree, h, NULL, Left)
          ELSE /\ up \in Members(tree)
               /\ \/ curr = tree.root /\ Even(tree, h, NULL, Left)
                  \/ \E d \in Sides : tree.kid[up][d] = curr /\ Even(tree, h, up, d)
IInvAt(b, h) == /\ phase \in Phases /\ Asked /\ curr \in MaybeKeys /\ up \in MaybeKeys
                /\ Shape(tree, b) /\ h \in Heights /\ Places(b) /\ Colours(h)

-----------------------------------------------------------------------------
(* The two sides.                                                          *)
LEMMA SideFacts ==
  /\ Left \in Sides /\ Right \in Sides /\ Left # Right
  /\ Other(Left) = Right /\ Other(Right) = Left
  /\ \A d \in Sides : Other(d) \in Sides /\ Other(d) # d /\ Other(Other(d)) = d
  /\ \A d, e \in Sides : e = d \/ e = Other(d)
  /\ \A d \in Sides : d = Left \/ d = Right
BY DEF Sides, Left, Right, Other

(* The coordinates are ordered, the same way from either side.             *)
LEMMA BeyondFacts ==
         /\ \A d \in Sides : \A x, y \in Keys :
              /\ Beyond(d, x, y) \in BOOLEAN
              /\ Beyond(Other(d), x, y) <=> Beyond(d, y, x)
              /\ Beyond(d, x, y) => x # y /\ ~Beyond(d, y, x)
              /\ x # y => Beyond(d, x, y) \/ Beyond(d, y, x)
         /\ \A d \in Sides : \A x, y, z \in Keys :
              Beyond(d, x, y) /\ Beyond(d, y, z) => Beyond(d, x, z)
         /\ \A x, y \in Keys : x # y => Towards(x, y) \in Sides /\ Beyond(Towards(x, y), x, y)
         /\ \A x, y \in Keys : \A d \in Sides : Beyond(d, x, y) => Towards(x, y) = d
<1>1. Keys \subseteq Int
  BY KeysAssumption
<1> QED
  BY <1>1 DEF Beyond, Towards, Other, Sides, Left, Right

(* Types of the parts of a tree.                                           *)
LEMMA TreeTypes ==
  ASSUME NEW t \in Trees
  PROVE  /\ t.root \in MaybeKeys
         /\ t.kid \in [Keys -> [Sides -> MaybeKeys]]
         /\ t.parent \in [Keys -> MaybeKeys]
         /\ t.red \in [Keys -> BOOLEAN]
         /\ \A n \in Keys : t.parent[n] \in MaybeKeys /\ t.red[n] \in BOOLEAN
         /\ \A n \in Keys : \A d \in Sides : t.kid[n][d] \in MaybeKeys
         /\ Members(t) \subseteq Keys
         /\ \A n \in Keys : n \in Members(t) <=> n = t.root \/ t.parent[n] # NULL
BY DEF Trees, MaybeKeys, Members

(* What the shape says of one node and one of its sides.                   *)
LEMMA ShapeFacts ==
  ASSUME NEW t, NEW b, Shape(t, b)
  PROVE  /\ t \in Trees /\ b \in Bounds
         /\ \A n \in Keys : \A d \in Sides : b[n][d] \in MaybeKeys
         /\ NULL \notin Keys
         /\ t.root # NULL => t.root \in Members(t) /\ t.parent[t.root] = NULL
         /\ \A d \in Sides : t.root # NULL => b[t.root][d] = NULL
         /\ \A n \in Members(t) : n \in Keys /\ \A d \in Sides : t.kid[n][d] # NULL =>
              /\ t.kid[n][d] \in Members(t)
              /\ t.parent[t.kid[n][d]] = n
              /\ b[t.kid[n][d]][d] = b[n][d]
              /\ b[t.kid[n][d]][Other(d)] = n
              /\ t.kid[n][d] # n
              /\ Beyond(d, t.kid[n][d], n)
              /\ t.kid[n][d] # t.kid[n][Other(d)]
              /\ t.kid[n][d] # t.root
         /\ \A n \in Members(t) : n # t.root =>
              /\ t.parent[n] \in Members(t)
              /\ \E d \in Sides : t.kid[t.parent[n]][d] = n
         /\ \A n \in Members(t) : \A d \in Sides :
              b[n][d] # NULL => Beyond(Other(d), n, b[n][d]) /\ b[n][d] # n
         /\ \A n \in Keys : n \notin Members(t) => t.parent[n] = NULL /\ \A d \in Sides : t.kid[n][d] = NULL
<1>1. t \in Trees /\ b \in Bounds
  BY DEF Shape
<1>2. NULL \notin Keys
  BY KeysAssumption
<1>3. \A n \in Keys : \A d \in Sides : b[n][d] \in MaybeKeys
  BY <1>1 DEF Bounds
<1>4. t.root # NULL => t.root \in Members(t) /\ t.parent[t.root] = NULL
  BY <1>1, TreeTypes DEF MaybeKeys, Shape, RootFree
<1>5. \A d \in Sides : t.root # NULL => b[t.root][d] = NULL
  BY DEF Shape, RootFree
<1>6. \A n \in Members(t) : \A d \in Sides :
              b[n][d] # NULL => Beyond(Other(d), n, b[n][d]) /\ b[n][d] # n
  BY <1>1, <1>3, SideFacts, BeyondFacts, TreeTypes DEF Shape, Ordered, Within, MaybeKeys
<1>7. ASSUME NEW n \in Members(t), NEW d \in Sides, t.kid[n][d] # NULL
      PROVE  /\ t.kid[n][d] \in Members(t)
             /\ t.parent[t.kid[n][d]] = n
             /\ b[t.kid[n][d]][d] = b[n][d]
             /\ b[t.kid[n][d]][Other(d)] = n
             /\ t.kid[n][d] # n
             /\ Beyond(d, t.kid[n][d], n)
             /\ t.kid[n][d] # t.root
  <2>1. n \in Keys /\ t.kid[n][d] \in Keys
    BY <1>1, <1>7, TreeTypes DEF MaybeKeys
  <2>2. Hangs(t, b, n, d)
    BY <1>7 DEF Shape, KidsHang
  <2>3. t.kid[n][d] \in Members(t) /\ t.kid[n][d] # t.root
    BY <1>1, <1>2, <1>4, <2>1, <2>2, TreeTypes DEF Hangs
  <2>4. Beyond(Other(Other(d)), t.kid[n][d], n)
    BY <1>2, <1>6, <2>1, <2>2, <2>3, SideFacts DEF Hangs
  <2> QED
    BY <2>1, <2>2, <2>3, <2>4, SideFacts, BeyondFacts DEF Hangs
<1>8. ASSUME NEW n \in Members(t), NEW d \in Sides, t.kid[n][d] # NULL
      PROVE  t.kid[n][d] # t.kid[n][Other(d)]
  <2>1. n \in Keys /\ t.kid[n][d] \in Keys
    BY <1>1, <1>8, TreeTypes DEF MaybeKeys
  <2>2. Beyond(d, t.kid[n][d], n)
    BY <1>7, <1>8
  <2>3. t.kid[n][d] = t.kid[n][Other(d)] => Beyond(Other(d), t.kid[n][d], n)
    BY <1>7, <1>8, SideFacts
  <2> QED
    BY <2>1, <2>2, <2>3, SideFacts, BeyondFacts
<1>9. \A n \in Members(t) : n # t.root =>
              /\ t.parent[n] \in Members(t)
              /\ \E d \in Sides : t.kid[t.parent[n]][d] = n
  BY <1>1, TreeTypes DEF Shape, ParentsHold
<1>10. \A n \in Keys : n \notin Members(t) => t.parent[n] = NULL /\ \A d \in Sides : t.kid[n][d] = NULL
  BY <1>1, TreeTypes DEF Shape, OthersClear, NoKids
<1> QED
  BY <1>1, <1>2, <1>3, <1>4, <1>5, <1>6, <1>7, <1>8, <1>9, <1>10, TreeTypes

(* What the shape says of one child.                                       *)
LEMMA KidFacts ==
  ASSUME NEW t, NEW b, Shape(t, b), NEW n \in Members(t), NEW d \in Sides,
         NEW k, k = t.kid[n][d], k # NULL
  PROVE  /\ k \in Members(t) /\ k \in Keys /\ t.parent[k] = n /\ k # n /\ k # t.root
         /\ k # t.kid[n][Other(d)] /\ b[k][d] = b[n][d] /\ b[k][Other(d)] = n
BY ShapeFacts

(* And of one parent.                                                      *)
LEMMA ParentFacts ==
  ASSUME NEW t, NEW b, Shape(t, b), NEW n \in Members(t), n # t.root
  PROVE  /\ t.parent[n] \in Members(t)
         /\ \E d \in Sides : t.kid[t.parent[n]][d] = n
BY ShapeFacts

(* The nodes are keys, and NULL is none.                                   *)
LEMMA NodeFacts ==
  ASSUME NEW t, NEW b, Shape(t, b)
  PROVE  /\ t \in Trees /\ NULL \notin Keys /\ Members(t) \subseteq Keys
         /\ t.root # NULL => t.root \in Members(t) /\ t.parent[t.root] = NULL
BY ShapeFacts, TreeTypes

-----------------------------------------------------------------------------
Beneath(t, n) == Below(ClosedSets(t), n)

(* Below a node: itself, and what is below its children.                   *)
LEMMA BeneathLeast ==
  ASSUME NEW t, NEW n, NEW S, S \in ClosedSets(t), n \in S \union {NULL}
  PROVE  \A k \in Beneath(t, n) : k \in S
BY DEF Beneath, Below

(* What is below a node is closed under the links to the children.         *)
LEMMA BeneathClosed ==
  ASSUME NEW t \in Trees, NEW n
  PROVE  /\ Beneath(t, n) \subseteq Keys
         /\ n \in Keys => n \in Beneath(t, n)
         /\ \A m \in Beneath(t, n) : \A d \in Sides : t.kid[m][d] \in Beneath(t, n) \union {NULL}
         /\ Beneath(t, n) \in ClosedSets(t)
<1>1. Beneath(t, n) \subseteq Keys
  BY DEF Beneath, Below
<1>2. n \in Keys => n \in Beneath(t, n)
  BY KeysAssumption DEF Beneath, Below
<1>3. ASSUME NEW m \in Beneath(t, n), NEW d \in Sides, t.kid[m][d] # NULL
      PROVE  t.kid[m][d] \in Beneath(t, n)
  <2>1. m \in Keys
    BY <1>1
  <2>2. t.kid[m][d] \in Keys
    BY <1>3, <2>1, TreeTypes DEF MaybeKeys
  <2>3. ASSUME NEW S \in ClosedSets(t), n \in S \union {NULL}
        PROVE  t.kid[m][d] \in S
    BY <1>3, <2>3 DEF Beneath, Below, ClosedSets
  <2> QED
    BY <2>2, <2>3 DEF Beneath, Below
<1>4. Beneath(t, n) \in ClosedSets(t)
  BY <1>1, <1>3 DEF ClosedSets
<1> QED
  BY <1>1, <1>2, <1>3, <1>4

(* Nothing is below NULL.                                                  *)
LEMMA BeneathNull ==
  ASSUME NEW t
  PROVE  Beneath(t, NULL) = {}
<1>1. {} \in ClosedSets(t)
  BY DEF ClosedSets
<1> QED
  BY <1>1, BeneathLeast

(* Below a node are itself and what is below its two children.             *)
LEMMA BeneathUnfold ==
  ASSUME NEW t \in Trees, NEW n \in Keys
  PROVE  \A k : k \in Beneath(t, n) <=> k = n \/ \E d \in Sides : k \in Beneath(t, t.kid[n][d])
<1> DEFINE R == {n} \union {k \in Keys : \E d \in Sides : k \in Beneath(t, t.kid[n][d])}
<1>1. R \in SUBSET Keys
  OBVIOUS
<1>2. ASSUME NEW m \in R, NEW d \in Sides
      PROVE  t.kid[m][d] \in R \union {NULL}
  <2>1. t.kid[m][d] \in MaybeKeys
    BY <1>1, TreeTypes
  <2>2. CASE m = n
    BY <2>1, <2>2, BeneathClosed DEF MaybeKeys
  <2>3. CASE m # n
    <3>1. PICK e \in Sides : m \in Beneath(t, t.kid[n][e])
      BY <2>3
    <3>2. t.kid[m][d] \in Beneath(t, t.kid[n][e]) \union {NULL}
      BY <3>1, BeneathClosed
    <3> QED
      BY <2>1, <3>2 DEF MaybeKeys
  <2> QED
    BY <2>2, <2>3
<1>3. \A k \in Beneath(t, n) : k \in R
  <2>1. R \in ClosedSets(t)
    BY <1>1, <1>2 DEF ClosedSets
  <2> QED
    BY <2>1, BeneathLeast
<1>4. ASSUME NEW d \in Sides
      PROVE  \A k \in Beneath(t, t.kid[n][d]) : k \in Beneath(t, n)
  <2>1. n \in Beneath(t, n) /\ Beneath(t, n) \in ClosedSets(t)
    BY BeneathClosed
  <2>2. t.kid[n][d] \in Beneath(t, n) \union {NULL}
    BY <2>1, BeneathClosed
  <2> QED
    BY <2>1, <2>2, BeneathLeast
<1>5. n \in Beneath(t, n)
  BY BeneathClosed
<1> QED
  BY <1>3, <1>4, <1>5

-----------------------------------------------------------------------------
(* x is between the bounds of n.                                           *)
Covers(b, n, x) == Within(x, b[n])

(* The interval of a child is the half of its parent's on its side.        *)
LEMMA KidCovers ==
  ASSUME NEW t, NEW b, Shape(t, b), NEW n \in Members(t), NEW d \in Sides,
         t.kid[n][d] # NULL, NEW x \in Keys
  PROVE  Covers(b, t.kid[n][d], x) <=> Covers(b, n, x) /\ Beyond(d, x, n)
<1> DEFINE k == t.kid[n][d]
<1>1. n \in Keys /\ k \in Members(t) /\ k \in Keys /\ NULL \notin Keys
  BY ShapeFacts
<1>2. b[k][d] = b[n][d] /\ b[k][Other(d)] = n
  BY ShapeFacts
<1>3. \A e \in Sides : b[n][e] \in MaybeKeys /\ b[k][e] \in MaybeKeys
  BY <1>1, ShapeFacts
<1>4. b[n][Other(d)] # NULL => Beyond(d, n, b[n][Other(d)])
  BY ShapeFacts, SideFacts
<1> HIDE DEF k
<1>5. Covers(b, k, x) <=> (b[k][d] # NULL => Beyond(Other(d), x, b[k][d])) /\ (n # NULL => Beyond(d, x, n))
  BY <1>2, SideFacts DEF Covers, Within
<1>6. Covers(b, n, x) <=> /\ (b[n][d] # NULL => Beyond(Other(d), x, b[n][d]))
                          /\ (b[n][Other(d)] # NULL => Beyond(d, x, b[n][Other(d)]))
  BY SideFacts DEF Covers, Within
<1>7. Beyond(d, x, n) /\ b[n][Other(d)] # NULL => Beyond(d, x, b[n][Other(d)])
  BY <1>1, <1>3, <1>4, SideFacts, BeyondFacts DEF MaybeKeys
<1>8. Covers(b, k, x) <=> Covers(b, n, x) /\ Beyond(d, x, n)
  BY <1>1, <1>2, <1>5, <1>6, <1>7
<1> QED
  BY <1>8 DEF k

(* Every node covers itself, and the root everything.                      *)
LEMMA CoversSelf ==
  ASSUME NEW t, NEW b, Shape(t, b)
  PROVE  /\ \A n \in Members(t) : Covers(b, n, n)
         /\ t.root # NULL => \A x \in Keys : Covers(b, t.root, x)
BY ShapeFacts DEF Covers, Within

(* What is below a node is in the tree, and its interval is part of the    *)
(* node's.                                                                 *)
LEMMA BeneathCovered ==
  ASSUME NEW t, NEW b, Shape(t, b), NEW n \in Members(t)
  PROVE  \A k \in Beneath(t, n) : /\ k \in Members(t) /\ Covers(b, n, k)
                                  /\ \A x \in Keys : Covers(b, k, x) => Covers(b, n, x)
<1> DEFINE S == {k \in Members(t) : \A x \in Keys : Covers(b, k, x) => Covers(b, n, x)}
<1>1. n \in Keys /\ Members(t) \subseteq Keys
  BY ShapeFacts, TreeTypes
<1>2. n \in S /\ S \in SUBSET Keys
  BY <1>1
<1>3. ASSUME NEW m \in S, NEW d \in Sides, t.kid[m][d] # NULL
      PROVE  t.kid[m][d] \in S
  <2>1. m \in Members(t) /\ t.kid[m][d] \in Members(t)
    BY <1>3, ShapeFacts
  <2>2. \A x \in Keys : Covers(b, t.kid[m][d], x) => Covers(b, m, x)
    BY <1>3, <2>1, KidCovers
  <2> QED
    BY <2>1, <2>2
<1>4. S \in ClosedSets(t)
  BY <1>2, <1>3 DEF ClosedSets
<1>5. \A k \in Beneath(t, n) : k \in S
  BY <1>2, <1>4, BeneathLeast
<1>6. \A k \in S : k \in Keys /\ Covers(b, n, k)
  BY <1>1, CoversSelf
<1> QED
  BY <1>5, <1>6

Inherited(t) == {G \in SUBSET Members(t) :
                   /\ t.root # NULL => t.root \in G
                   /\ \A n \in Members(t) : n # t.root /\ t.parent[n] \in G => n \in G}

(* Of some subsets of a finite set one has none of the others in it.       *)
LEMMA SmallestSet ==
  ASSUME NEW S, IsFiniteSet(S), NEW F \in SUBSET (SUBSET S), F # {}
  PROVE  \E T \in F : \A U \in F : U \subseteq T => U = T
<1> DEFINE R == StrictSubsetOrdering(S)
<1>1. IsWellFoundedOn(R, SUBSET S)
  <2>1. IsWellFoundedOn(R, FiniteSubsetsOf(S))
    BY FS_StrictSubsetOrderingWellFounded
  <2>2. FiniteSubsetsOf(S) = SUBSET S
    BY FS_FiniteSubsetsOfFinite
  <2> QED
    BY <2>1, <2>2
<1>2. F \subseteq SUBSET S
  OBVIOUS
<1> HIDE DEF R
<1>3. PICK T \in F : \A U \in F : ~(<<U, T>> \in R)
  BY <1>1, <1>2, WFMin
<1>4. ASSUME NEW U \in F, U \subseteq T, U # T
      PROVE  FALSE
  <2>1. <<U, T>> \in R
    BY <1>4 DEF R, StrictSubsetOrdering
  <2> QED
    BY <1>3, <2>1
<1> QED
  BY <1>3, <1>4

(***************************************************************************)
(* Induction down the tree: what holds of the root, and of every node      *)
(* whose parent it holds of, holds of all.  The parent of a node covers    *)
(* more than the node does, so a node covering most of those it fails for  *)
(* would be the root.                                                      *)
(***************************************************************************)
LEMMA FromTheRoot ==
  ASSUME NEW t, NEW b, Shape(t, b), NEW G, G \in Inherited(t)
  PROVE  G = Members(t)
<1> DEFINE Bad == Members(t) \ G
           Missed(n) == {x \in Keys : ~Covers(b, n, x)}
           F == {Missed(n) : n \in Bad}
<1>1. IsFiniteSet(Keys) /\ Members(t) \subseteq Keys
  BY ShapeFacts, TreeTypes, KeysAssumption
<1>2. SUFFICES ASSUME Bad # {}
               PROVE  FALSE
  BY DEF Inherited
<1>3. F \in SUBSET (SUBSET Keys) /\ F # {}
  BY <1>2
<1>4. PICK T \in F : \A U \in F : U \subseteq T => U = T
  <2> HIDE DEF F
  <2> QED
    BY <1>1, <1>3, SmallestSet
<1>5. PICK n \in Bad : T = Missed(n)
  OBVIOUS
<1> DEFINE p == t.parent[n]
<1>6. n \in Members(t) /\ n # t.root /\ n \in Keys /\ n # NULL
  <2>1. n \in Members(t) /\ n \in Keys /\ n # NULL /\ n \notin G
    BY <1>1, <1>5, ShapeFacts
  <2> QED
    BY <2>1 DEF Inherited
<1>7. p \in Members(t) /\ p \in Keys
  BY <1>1, <1>6, ShapeFacts
<1>8. p \in Bad
  BY <1>5, <1>6, <1>7 DEF Inherited
<1>9. PICK d \in Sides : t.kid[p][d] = n
  BY <1>6, ShapeFacts
<1>10. \A x \in Keys : Covers(b, n, x) <=> Covers(b, p, x) /\ Beyond(d, x, p)
  BY <1>6, <1>7, <1>9, KidCovers
<1>11. Covers(b, p, p) /\ ~Covers(b, n, p)
  BY <1>7, <1>10, CoversSelf, BeyondFacts
<1>12. Missed(p) \subseteq T /\ p \in T /\ p \notin Missed(p)
  BY <1>5, <1>7, <1>10, <1>11
<1>13. Missed(p) \in F
  BY <1>8
<1> HIDE DEF Missed, F
<1> QED
  BY <1>4, <1>12, <1>13

(* Every node of the tree can be reached from the root.                    *)
LEMMA AllBeneathRoot ==
  ASSUME NEW t, NEW b, Shape(t, b)
  PROVE  Beneath(t, t.root) = Members(t)
<1>1. CASE t.root = NULL
  <2>1. {} \in Inherited(t)
    BY <1>1 DEF Inherited
  <2>2. {} = Members(t)
    BY <2>1, FromTheRoot
  <2> QED
    BY <1>1, <2>2, BeneathNull
<1>2. CASE t.root # NULL
  <2>1. t.root \in Members(t) /\ t.root \in Keys
    BY <1>2, ShapeFacts
  <2>2. Beneath(t, t.root) \in SUBSET Members(t)
    BY <2>1, BeneathCovered
  <2>3. t.root \in Beneath(t, t.root)
    BY <2>1, BeneathClosed, ShapeFacts
  <2>4. ASSUME NEW n \in Members(t), n # t.root, t.parent[n] \in Beneath(t, t.root)
        PROVE  n \in Beneath(t, t.root)
    <3>1. PICK d \in Sides : t.kid[t.parent[n]][d] = n
      BY <2>4, ShapeFacts
    <3>2. n # NULL
      BY ShapeFacts
    <3> QED
      BY <2>4, <3>1, <3>2, BeneathClosed, ShapeFacts
  <2>5. Beneath(t, t.root) \in Inherited(t)
    BY <2>2, <2>3, <2>4 DEF Inherited
  <2> QED
    BY <2>5, FromTheRoot
<1> QED
  BY <1>1, <1>2

(* A node of the tree that n covers is below n.                            *)
LEMMA CoveredIsBeneath ==
  ASSUME NEW t, NEW b, Shape(t, b), NEW y \in Members(t)
  PROVE  \A n \in Members(t) : Covers(b, n, y) => y \in Beneath(t, n)
<1> DEFINE G == {n \in Members(t) : Covers(b, n, y) => y \in Beneath(t, n)}
<1>1. t.root # NULL => t.root \in G
  BY AllBeneathRoot, ShapeFacts
<1>2. ASSUME NEW n \in Members(t), n # t.root, t.parent[n] \in G, Covers(b, n, y)
      PROVE  y \in Beneath(t, n)
  <2> DEFINE p == t.parent[n]
  <2>1. p \in Members(t) /\ p \in Keys /\ n \in Keys /\ y \in Keys /\ n # NULL /\ t \in Trees
    BY <1>2, ShapeFacts
  <2>2. PICK d \in Sides : t.kid[p][d] = n
    BY <1>2, ShapeFacts
  <2>3. Covers(b, p, y) /\ Beyond(d, y, p)
    BY <1>2, <2>1, <2>2, KidCovers
  <2>4. y \in Beneath(t, p)
    BY <1>2, <2>3
  <2>5. y # p
    BY <2>1, <2>3, BeyondFacts
  <2>6. PICK e \in Sides : y \in Beneath(t, t.kid[p][e])
    BY <2>1, <2>4, <2>5, BeneathUnfold
  <2>7. t.kid[p][e] # NULL
    BY <2>6, BeneathNull
  <2>8. Beyond(e, y, p)
    <3>1. t.kid[p][e] \in Members(t)
      BY <2>1, <2>7, ShapeFacts
    <3>2. Covers(b, t.kid[p][e], y)
      BY <2>6, <3>1, BeneathCovered
    <3> QED
      BY <2>1, <2>7, <3>2, KidCovers
  <2>9. e = d
    BY <2>1, <2>3, <2>8, SideFacts, BeyondFacts
  <2> QED
    BY <2>2, <2>6, <2>9
<1>3. G \in Inherited(t)
  BY <1>1, <1>2 DEF Inherited
<1>4. G = Members(t)
  BY <1>3, FromTheRoot
<1> QED
  BY <1>4

(* Where a child is missing there is no node in its interval.              *)
LEMMA NothingThere ==
  ASSUME NEW t, NEW b, Shape(t, b), NEW n \in Members(t), NEW d \in Sides,
         t.kid[n][d] = NULL, NEW y \in Members(t), Covers(b, n, y)
  PROVE  ~Beyond(d, y, n)
<1>1. y \in Keys /\ n \in Keys /\ t \in Trees
  BY ShapeFacts
<1>2. CASE y = n
  BY <1>1, <1>2, BeyondFacts
<1>3. CASE y # n
  <2>1. y \in Beneath(t, n)
    BY CoveredIsBeneath
  <2>2. PICK e \in Sides : y \in Beneath(t, t.kid[n][e])
    BY <1>1, <1>3, <2>1, BeneathUnfold
  <2>3. t.kid[n][e] # NULL
    BY <2>2, BeneathNull
  <2>4. t.kid[n][e] \in Members(t)
    BY <2>3, ShapeFacts
  <2>5. Covers(b, t.kid[n][e], y)
    BY <2>2, <2>4, BeneathCovered
  <2>6. Beyond(e, y, n) /\ e # d
    BY <1>1, <2>3, <2>5, KidCovers
  <2>7. e = Other(d)
    BY <2>6, SideFacts
  <2> QED
    BY <1>1, <2>6, <2>7, BeyondFacts
<1> QED
  BY <1>2, <1>3

-----------------------------------------------------------------------------
(* What is below a node but not the node itself is below it by its parent. *)
LEMMA ThroughTheParent ==
  ASSUME NEW t, NEW b, Shape(t, b), NEW m \in Members(t), NEW k \in Members(t),
         k # m, k \in Beneath(t, m)
  PROVE  k # t.root /\ t.parent[k] \in Beneath(t, m)
<1> SUFFICES ASSUME ~(k # t.root /\ t.parent[k] \in Beneath(t, m))
             PROVE  FALSE
  OBVIOUS
<1> DEFINE S == Beneath(t, m) \ {k}
<1>1. t \in Trees /\ m \in Keys /\ k \in Keys /\ NULL \notin Keys
  BY ShapeFacts
<1>2. Beneath(t, m) \subseteq Members(t) /\ m \in Beneath(t, m) /\ Beneath(t, m) \subseteq Keys
  BY <1>1, BeneathCovered, BeneathClosed
<1>3. ASSUME NEW q \in S, NEW d \in Sides
      PROVE  t.kid[q][d] \in S \union {NULL}
  <2>1. t.kid[q][d] \in Beneath(t, m) \union {NULL}
    BY <1>1, BeneathClosed
  <2>2. q \in Members(t) /\ q # NULL
    BY <1>1, <1>2
  <2>3. t.kid[q][d] # NULL => t.parent[t.kid[q][d]] = q /\ t.kid[q][d] # t.root
    BY <2>2, ShapeFacts
  <2> QED
    BY <1>1, <2>1, <2>3
<1>4. S \in ClosedSets(t)
  BY <1>2, <1>3 DEF ClosedSets
<1>5. m \in S \union {NULL}
  BY <1>2
<1> HIDE DEF S
<1>6. k \in S
  BY <1>4, <1>5, BeneathLeast
<1> QED
  BY <1>6 DEF S

Blacks(t, n) == {m \in Members(t) : ~t.red[m] /\ n \in Beneath(t, m)}

(* The black nodes above a node can be counted.                            *)
LEMMA BlacksFinite ==
  ASSUME NEW t \in Trees, NEW n
  PROVE  /\ IsFiniteSet(Blacks(t, n)) /\ Cardinality(Blacks(t, n)) \in Nat
         /\ Cardinality(Blacks(t, n)) <= Cardinality(Keys) /\ Cardinality(Keys) \in Nat
<1>1. Blacks(t, n) \subseteq Keys /\ IsFiniteSet(Keys)
  BY TreeTypes, KeysAssumption DEF Blacks
<1> QED
  BY <1>1, FS_Subset, FS_CardinalityType

(* One step down adds the child, if it is black.                           *)
LEMMA BlacksOfKid ==
  ASSUME NEW t, NEW b, Shape(t, b), NEW n \in Members(t), NEW d \in Sides,
         t.kid[n][d] # NULL
  PROVE  Cardinality(Blacks(t, t.kid[n][d])) = Cardinality(Blacks(t, n)) + Weight(t, t.kid[n][d])
<1> DEFINE k == t.kid[n][d]
<1>1. t \in Trees /\ k \in Members(t) /\ k \in Keys /\ n \in Keys /\ k # n /\ t.parent[k] = n
  BY ShapeFacts
<1>2. n \notin Beneath(t, k)
  <2>1. Covers(b, k, n) => Beyond(d, n, n)
    BY <1>1, KidCovers
  <2> QED
    BY <1>1, <2>1, BeneathCovered, BeyondFacts
<1>3. k \in Beneath(t, k)
  BY <1>1, BeneathClosed
<1>4. \A m \in Members(t) : n \in Beneath(t, m) => k \in Beneath(t, m)
  <2> SUFFICES ASSUME NEW m \in Members(t), n \in Beneath(t, m)
               PROVE  k \in Beneath(t, m)
    OBVIOUS
  <2>1. k # NULL
    OBVIOUS
  <2>2. k \in Beneath(t, m) \union {NULL}
    BY <1>1, BeneathClosed
  <2> QED
    BY <2>1, <2>2
<1>5. \A m \in Members(t) : k \in Beneath(t, m) /\ m # k => n \in Beneath(t, m)
  BY <1>1, ThroughTheParent
<1> HIDE DEF k
<1>6. CASE t.red[k]
  <2>1. Blacks(t, k) = Blacks(t, n)
    BY <1>4, <1>5, <1>6 DEF Blacks
  <2> QED
    BY <1>1, <1>6, <2>1, BlacksFinite DEF Weight, k
<1>7. CASE ~t.red[k]
  <2>1. Blacks(t, k) = Blacks(t, n) \union {k}
    BY <1>1, <1>3, <1>4, <1>5, <1>7 DEF Blacks
  <2>2. k \notin Blacks(t, n)
    BY <1>2 DEF Blacks
  <2>3. Cardinality(Blacks(t, k)) = Cardinality(Blacks(t, n)) + 1
    BY <1>1, <2>1, <2>2, BlacksFinite, FS_AddElement
  <2> QED
    BY <1>7, <2>3 DEF Weight, k
<1> QED
  BY <1>6, <1>7

(* The black nodes above a node and those below it are as many everywhere. *)
LEMMA BlacksAndHeight ==
  ASSUME NEW t, NEW b, Shape(t, b), NEW h \in Heights, Even(t, h, NULL, Left)
  PROVE  \A n \in Members(t) :
           Cardinality(Blacks(t, n)) + h[n] = h[t.root] + Weight(t, n)
<1> DEFINE G == {n \in Members(t) :
                   Cardinality(Blacks(t, n)) + h[n] = h[t.root] + Weight(t, n)}
<1>1. ASSUME t.root # NULL
      PROVE  t.root \in G
  <2> DEFINE r == t.root
  <2>1. r \in Members(t) /\ t \in Trees /\ r \in Keys
    BY <1>1, ShapeFacts
  <2>2. \A m \in Members(t) : r \in Beneath(t, m) <=> m = r
    BY <2>1, ThroughTheParent, BeneathClosed
  <2>3. h[r] \in Nat
    BY <2>1 DEF Heights
  <2>4. Cardinality(Blacks(t, r)) = Weight(t, r)
    <3>1. CASE t.red[r]
      <4>1. Blacks(t, r) = {}
        BY <2>2, <3>1 DEF Blacks
      <4> QED
        BY <3>1, <4>1, FS_EmptySet DEF Weight
    <3>2. CASE ~t.red[r]
      <4>1. Blacks(t, r) = {r}
        BY <2>1, <2>2, <3>2 DEF Blacks
      <4> QED
        BY <3>2, <4>1, FS_Singleton DEF Weight
    <3> QED
      BY <3>1, <3>2
  <2>5. Weight(t, r) \in Nat
    BY DEF Weight
  <2>6. Cardinality(Blacks(t, r)) + h[r] = h[r] + Weight(t, r)
    BY <2>3, <2>4, <2>5
  <2> QED
    BY <2>1, <2>6
<1>2. ASSUME NEW k \in Members(t), k # t.root, t.parent[k] \in G
      PROVE  k \in G
  <2> DEFINE n == t.parent[k]
  <2>1. n \in Members(t) /\ n \in Keys /\ k \in Keys /\ k # NULL /\ t \in Trees
    BY <1>2, ShapeFacts
  <2>2. PICK d \in Sides : t.kid[n][d] = k
    BY <1>2, ShapeFacts
  <2>3. Cardinality(Blacks(t, k)) = Cardinality(Blacks(t, n)) + Weight(t, k)
    BY <2>1, <2>2, BlacksOfKid
  <2>4. h[n] = h[k] + Weight(t, n)
    <3>1. h[n] = HeightOf(h, t.kid[n][d]) + Weight(t, n) + Lack(NULL, Left, n, d)
      BY <2>1 DEF Even
    <3>2. Lack(NULL, Left, n, d) = 0
      BY <2>1, ShapeFacts DEF Lack
    <3>3. h[k] \in Nat /\ Weight(t, n) \in Nat
      BY <2>1 DEF Heights, Weight
    <3> QED
      BY <2>1, <2>2, <3>1, <3>2, <3>3 DEF HeightOf
  <2>5. Cardinality(Blacks(t, n)) + h[n] = h[t.root] + Weight(t, n)
    BY <1>2
  <2>6. /\ h[n] \in Nat /\ h[k] \in Nat /\ h[t.root] \in Nat
        /\ Weight(t, n) \in Nat /\ Weight(t, k) \in Nat
        /\ Cardinality(Blacks(t, n)) \in Nat
    <3>1. t.root \in Keys
      BY <2>1, AllBeneathRoot, BeneathNull, TreeTypes DEF MaybeKeys
    <3> QED
      BY <2>1, <3>1, BlacksFinite DEF Heights, Weight
  <2>7. Cardinality(Blacks(t, k)) + h[k] = h[t.root] + Weight(t, k)
    BY <2>3, <2>4, <2>5, <2>6
  <2> QED
    BY <2>7
<1>3. G \in Inherited(t)
  BY <1>1, <1>2 DEF Inherited
<1>4. G = Members(t)
  BY <1>3, FromTheRoot
<1> QED
  BY <1>4

(* The two functions make the tree a red-black tree.                       *)
LEMMA ThenRedBlack ==
  ASSUME NEW t, NEW b, Shape(t, b), NEW h \in Heights,
         Even(t, h, NULL, Left), Apart(t, NULL, NULL)
  PROVE  RedBlack(t)
<1> DEFINE closed == ClosedSets(t)
<1>1. t \in Trees /\ NULL \notin Keys /\ Members(t) \subseteq Keys
  BY ShapeFacts, TreeTypes
<1>2. t.root # NULL => t.parent[t.root] = NULL /\ ~t.red[t.root]
  BY ShapeFacts DEF Apart, IsRed
<1>3. Below(closed, t.root) = Members(t)
  BY AllBeneathRoot DEF Beneath
<1>4. ASSUME NEW n \in Members(t), NEW d \in Sides, NEW k \in Below(closed, t.kid[n][d])
      PROVE  k \in Keys /\ n \in Keys /\ Beyond(d, k, n)
  <2>1. k \in Beneath(t, t.kid[n][d])
    BY DEF Beneath
  <2>2. t.kid[n][d] # NULL
    BY <2>1, BeneathNull
  <2>3. t.kid[n][d] \in Members(t)
    BY <2>2, ShapeFacts
  <2>4. k \in Keys /\ Covers(b, t.kid[n][d], k)
    BY <1>1, <2>1, <2>3, BeneathCovered
  <2> QED
    BY <1>1, <2>2, <2>4, KidCovers
<1>5. ASSUME NEW n \in Members(t)
      PROVE  /\ \A k \in Below(closed, t.kid[n][Left]) : k < n
             /\ \A k \in Below(closed, t.kid[n][Right]) : k > n
             /\ \A d \in Sides : t.kid[n][d] # NULL =>
                  /\ t.parent[t.kid[n][d]] = n
                  /\ t.red[n] => ~t.red[t.kid[n][d]]
  <2>1. \A k \in Below(closed, t.kid[n][Left]) : k < n
    BY <1>4, SideFacts DEF Beyond
  <2>2. \A k \in Below(closed, t.kid[n][Right]) : k > n
    <3>1. \A k \in Below(closed, t.kid[n][Right]) : n < k /\ k \in Int /\ n \in Int
      BY <1>4, SideFacts, KeysAssumption DEF Beyond
    <3> QED
      BY <3>1
  <2>3. \A d \in Sides : t.kid[n][d] # NULL =>
                  /\ t.parent[t.kid[n][d]] = n
                  /\ t.red[n] => ~t.red[t.kid[n][d]]
    BY ShapeFacts DEF Apart, IsRed
  <2> QED
    BY <2>1, <2>2, <2>3
<1> DEFINE Free(n) == n \in Members(t) /\ \E d \in Sides : t.kid[n][d] = NULL
<1>6. \A n : BlacksAbove(t, closed, n) = Cardinality(Blacks(t, n))
  BY DEF BlacksAbove, Blacks, Beneath
<1>7. \A n : Free(n) => Cardinality(Blacks(t, n)) = h[t.root]
  <2> SUFFICES ASSUME NEW n, Free(n)
               PROVE  Cardinality(Blacks(t, n)) = h[t.root]
    OBVIOUS
  <2>1. PICK d \in Sides : t.kid[n][d] = NULL
    OBVIOUS
  <2>2. n \in Members(t) /\ n \in Keys /\ n # NULL
    BY <1>1
  <2>3. Cardinality(Blacks(t, n)) + h[n] = h[t.root] + Weight(t, n)
    BY <2>2, BlacksAndHeight
  <2>4. h[n] = HeightOf(h, t.kid[n][d]) + Weight(t, n) + Lack(NULL, Left, n, d)
    BY <2>2 DEF Even
  <2>5. t.root \in Keys
    BY <1>1, <2>2, AllBeneathRoot, BeneathNull, TreeTypes DEF MaybeKeys
  <2>6. Weight(t, n) \in Nat /\ h[t.root] \in Nat /\ Cardinality(Blacks(t, n)) \in Nat
    BY <1>1, <2>5, BlacksFinite DEF Weight, Heights
  <2>7. h[n] = Weight(t, n)
    BY <2>1, <2>2, <2>4, <2>6 DEF HeightOf, Lack
  <2> QED
    BY <2>3, <2>6, <2>7
<1>8. \E blacks \in 0 .. Cardinality(Keys) :
        \A n : Free(n) => BlacksAbove(t, closed, n) = blacks
  <2>1. CASE \E n : Free(n)
    <3>1. PICK m : Free(m)
      BY <2>1
    <3> DEFINE c == Cardinality(Blacks(t, m))
    <3>2. c \in 0 .. Cardinality(Keys)
      BY <1>1, BlacksFinite
    <3>3. \A n : Free(n) => BlacksAbove(t, closed, n) = c
      BY <1>6, <1>7, <3>1
    <3> HIDE DEF c, Free, closed
    <3> QED
      BY <3>2, <3>3
  <2>2. CASE ~\E n : Free(n)
    <3>1. 0 \in 0 .. Cardinality(Keys)
      BY <1>1, BlacksFinite
    <3> HIDE DEF Free, closed
    <3> QED
      BY <2>2, <3>1
  <2> QED
    BY <2>1, <2>2
<1>9. \E blacks \in 0 .. Cardinality(Keys) :
        \A n \in Members(t) : (\E d \in Sides : t.kid[n][d] = NULL)
                               => BlacksAbove(t, closed, n) = blacks
  <2> HIDE DEF closed
  <2> QED
    BY <1>8
<1> QED
  BY <1>2, <1>3, <1>5, <1>9 DEF RedBlack

-----------------------------------------------------------------------------
(* The assignments of rbtree.c, node by node.                              *)
LEMMA SetKidIs ==
  ASSUME NEW t \in Trees, NEW p \in Keys, NEW s \in Sides, NEW m \in MaybeKeys
  PROVE  LET u == [t EXCEPT !.kid[p][s] = m]
         IN /\ u \in Trees /\ u.root = t.root /\ u.parent = t.parent /\ u.red = t.red
            /\ \A k \in Keys : \A e \in Sides :
                 u.kid[k][e] = IF k = p /\ e = s THEN m ELSE t.kid[k][e]
BY DEF Trees, MaybeKeys

(* A node put in another's place below its parent, or as the root.         *)
LEMMA ReplaceIs ==
  ASSUME NEW t \in Trees, NEW p \in MaybeKeys, NEW n, NEW m \in MaybeKeys
  PROVE  LET u == Replace(t, p, n, m)
         IN /\ u \in Trees /\ u.parent = t.parent /\ u.red = t.red
            /\ u.root = IF p = NULL THEN m ELSE t.root
            /\ \A k \in Keys : \A e \in Sides :
                 u.kid[k][e] = IF p # NULL /\ k = p /\ e = SideOf(t, p, n) THEN m ELSE t.kid[k][e]
<1> DEFINE u == Replace(t, p, n, m)
<1>1. CASE p = NULL
  <2>1. u = [t EXCEPT !.root = m]
    BY <1>1 DEF Replace
  <2>2. u \in Trees /\ u.kid = t.kid /\ u.parent = t.parent /\ u.red = t.red /\ u.root = m
    BY <2>1 DEF Trees, MaybeKeys
  <2> HIDE DEF u
  <2>3. u.root = IF p = NULL THEN m ELSE t.root
    BY <1>1, <2>2
  <2>4. \A k \in Keys : \A e \in Sides :
                 u.kid[k][e] = IF p # NULL /\ k = p /\ e = SideOf(t, p, n) THEN m ELSE t.kid[k][e]
    BY <1>1, <2>2
  <2> QED
    BY <2>2, <2>3, <2>4 DEF u
<1>2. CASE p # NULL
  <2> DEFINE s == SideOf(t, p, n)
  <2>0. p \in Keys /\ s \in Sides
    BY <1>2, SideFacts DEF MaybeKeys, SideOf
  <2> HIDE DEF s
  <2>1. u = [t EXCEPT !.kid[p][s] = m]
    BY <1>2 DEF Replace, s
  <2>2. /\ u \in Trees /\ u.root = t.root /\ u.parent = t.parent /\ u.red = t.red
        /\ \A k \in Keys : \A e \in Sides :
             u.kid[k][e] = IF k = p /\ e = s THEN m ELSE t.kid[k][e]
    BY <2>0, <2>1, SetKidIs
  <2> HIDE DEF u
  <2>3. u.root = IF p = NULL THEN m ELSE t.root
    BY <1>2, <2>2
  <2>4. \A k \in Keys : \A e \in Sides :
                 u.kid[k][e] = IF p # NULL /\ k = p /\ e = SideOf(t, p, n) THEN m ELSE t.kid[k][e]
    BY <1>2, <2>2 DEF s
  <2> QED
    BY <2>2, <2>3, <2>4 DEF u
<1> QED
  BY <1>1, <1>2

(* A new parent of a node, if there is one.                                *)
LEMMA SetParentIs ==
  ASSUME NEW t \in Trees, NEW n \in MaybeKeys, NEW p \in MaybeKeys
  PROVE  LET u == SetParent(t, n, p)
         IN /\ u \in Trees /\ u.root = t.root /\ u.kid = t.kid /\ u.red = t.red
            /\ \A k \in Keys : u.parent[k] = IF k = n THEN p ELSE t.parent[k]
BY KeysAssumption DEF SetParent, Trees, MaybeKeys

(* Where a node of the tree hangs.                                         *)
LEMMA SideOfIs ==
  ASSUME NEW t, NEW b, Shape(t, b), NEW n \in Members(t), n # t.root
  PROVE  /\ SideOf(t, t.parent[n], n) \in Sides
         /\ t.kid[t.parent[n]][SideOf(t, t.parent[n], n)] = n
         /\ \A m \in Members(t) : \A e \in Sides :
              t.kid[m][e] = n <=> m = t.parent[n] /\ e = SideOf(t, t.parent[n], n)
<1> DEFINE p == t.parent[n]
           s == SideOf(t, p, n)
<1>1. p \in Members(t) /\ n # NULL
  BY ShapeFacts
<1>2. s \in Sides /\ t.kid[p][s] = n
  BY <1>1, ShapeFacts, SideFacts DEF SideOf
<1>3. ASSUME NEW m \in Members(t), NEW e \in Sides, t.kid[m][e] = n
      PROVE  m = p /\ e = s
  <2>1. m = p
    BY <1>1, <1>3, ShapeFacts
  <2>2. t.kid[p][e] # t.kid[p][Other(e)]
    BY <1>1, <1>3, <2>1, ShapeFacts
  <2> QED
    BY <1>2, <1>3, <2>1, <2>2, SideFacts
<1> QED
  BY <1>2, <1>3

-----------------------------------------------------------------------------
(* A rotation, node by node.                                               *)
Rotated(t, u, n, d) ==
  LET over == t.kid[n][Other(d)]
      inner == t.kid[over][d]
      parent == t.parent[n]
  IN /\ u \in Trees /\ u.red = t.red
     /\ u.root = IF n = t.root THEN over ELSE t.root
     /\ \A k \in Keys : \A e \in Sides :
          u.kid[k][e] = IF k = n /\ e = Other(d) THEN inner
                        ELSE IF k = over /\ e = d THEN n
                        ELSE IF t.kid[k][e] = n THEN over ELSE t.kid[k][e]
     /\ \A k \in Keys :
          u.parent[k] = IF k = n THEN over
                        ELSE IF k = over THEN parent
                        ELSE IF k = inner THEN n ELSE t.parent[k]

(* The assignments of __rb_rotate_left() and __rb_rotate_right() have      *)
(* that effect.                                                            *)
LEMMA RotateIs ==
  ASSUME NEW t, NEW b, Shape(t, b), NEW n \in Members(t), NEW d \in Sides,
         t.kid[n][Other(d)] # NULL
  PROVE  Rotated(t, Rotate(t, n, d), n, d)
<1> DEFINE o == Other(d)
           over == t.kid[n][o]
           inner == t.kid[over][d]
           parent == t.parent[n]
           turned == [t EXCEPT !.kid[n][o] = inner, !.kid[over][d] = n]
           set == SetParent(turned, inner, n)
           hung == Replace(set, parent, n, over)
           u == [hung EXCEPT !.parent[over] = parent, !.parent[n] = over]
<1>1. t \in Trees /\ o \in Sides /\ o # d /\ NULL \notin Keys
  BY ShapeFacts, SideFacts
<1>2. n \in Keys /\ over \in Keys /\ over # n /\ over \in Members(t) /\ parent \in MaybeKeys
      /\ inner \in MaybeKeys /\ t.parent[over] = n /\ n \in MaybeKeys /\ over \in MaybeKeys
  BY <1>1, ShapeFacts, TreeTypes DEF MaybeKeys
<1>3. Rotate(t, n, d) = u
  BY DEF Rotate
<1>4. parent # NULL <=> n # t.root
  BY <1>1, <1>2, ShapeFacts
<1>5. parent # over /\ parent # n
  <2>1. parent = over => \E e \in Sides : t.kid[over][e] = n /\ Beyond(e, n, over)
    BY <1>1, <1>2, <1>4, ShapeFacts
  <2>2. Beyond(o, over, n)
    BY <1>1, ShapeFacts
  <2>3. parent = over => b[n][d] = b[over][d] /\ b[over][d] = n
    <3>1. SUFFICES ASSUME parent = over
                   PROVE  b[n][d] = b[over][d] /\ b[over][d] = n
      OBVIOUS
    <3>2. PICK e \in Sides : t.kid[over][e] = n /\ Beyond(e, n, over)
      BY <2>1, <3>1
    <3>3. e = d
      BY <1>1, <1>2, <2>2, <3>2, BeyondFacts, SideFacts
    <3> QED
      BY <1>1, <1>2, <3>2, <3>3, ShapeFacts, SideFacts
  <2>4. b[n][d] # n
    BY <1>1, <1>2, ShapeFacts
  <2>5. parent # n
    BY <1>1, <1>2, <1>4, ShapeFacts
  <2> QED
    BY <2>3, <2>4, <2>5
<1> HIDE DEF o, over, inner, parent
<1>6. /\ turned \in Trees /\ turned.root = t.root /\ turned.parent = t.parent /\ turned.red = t.red
      /\ \A k \in Keys : \A e \in Sides :
           turned.kid[k][e] = IF k = n /\ e = o THEN inner
                              ELSE IF k = over /\ e = d THEN n ELSE t.kid[k][e]
  BY <1>1, <1>2 DEF Trees, MaybeKeys
<1> HIDE DEF turned
<1>7. /\ set \in Trees /\ set.root = t.root /\ set.kid = turned.kid /\ set.red = t.red
      /\ \A k \in Keys : set.parent[k] = IF k = inner THEN n ELSE t.parent[k]
  <2>1. turned \in Trees /\ inner \in MaybeKeys /\ n \in MaybeKeys
    BY <1>2, <1>6
  <2>2. /\ set \in Trees /\ set.root = turned.root /\ set.kid = turned.kid /\ set.red = turned.red
        /\ \A k \in Keys : set.parent[k] = IF k = inner THEN n ELSE turned.parent[k]
    BY <2>1, SetParentIs
  <2> QED
    BY <1>6, <2>2
<1> HIDE DEF set
<1>8. /\ hung \in Trees /\ hung.parent = set.parent /\ hung.red = t.red
      /\ hung.root = IF parent = NULL THEN over ELSE t.root
      /\ \A k \in Keys : \A e \in Sides :
           hung.kid[k][e] = IF parent # NULL /\ k = parent /\ e = SideOf(set, parent, n)
                            THEN over ELSE turned.kid[k][e]
  BY <1>2, <1>7, ReplaceIs
<1> HIDE DEF hung
<1>9. /\ u \in Trees /\ u.root = hung.root /\ u.kid = hung.kid /\ u.red = t.red
      /\ \A k \in Keys : u.parent[k] = IF k = n THEN over
                                       ELSE IF k = over THEN parent ELSE hung.parent[k]
  BY <1>2, <1>8 DEF Trees, MaybeKeys
<1> HIDE DEF u
<1>10. parent # NULL => SideOf(set, parent, n) = SideOf(t, parent, n)
  <2>1. parent # NULL => set.kid[parent][Left] = t.kid[parent][Left]
    BY <1>2, <1>5, <1>6, <1>7, SideFacts DEF MaybeKeys
  <2> QED
    BY <2>1 DEF SideOf
<1>11. \A k \in Keys : \A e \in Sides :
         t.kid[k][e] = n <=> parent # NULL /\ k = parent /\ e = SideOf(t, parent, n)
  <2>1. ASSUME NEW k \in Keys, NEW e \in Sides, t.kid[k][e] = n
        PROVE  n # t.root /\ k \in Members(t)
    BY <1>1, <1>2, <2>1, ShapeFacts
  <2>2. n # t.root => parent \in Members(t)
    BY <1>2, ShapeFacts DEF parent
  <2> QED
    BY <1>2, <1>4, <2>1, <2>2, SideOfIs DEF parent
<1>12. \A k \in Keys : \A e \in Sides :
          u.kid[k][e] = IF k = n /\ e = o THEN inner
                        ELSE IF k = over /\ e = d THEN n
                        ELSE IF t.kid[k][e] = n THEN over ELSE t.kid[k][e]
  BY <1>5, <1>6, <1>8, <1>9, <1>10, <1>11
<1>13. inner # n /\ inner # over
  <2>1. inner # NULL => inner # over /\ Beyond(d, inner, over)  /\ t.parent[inner] = over
    BY <1>2, ShapeFacts DEF inner
  <2> QED
    BY <1>1, <1>2, <1>5, <2>1 DEF parent
<1>14. \A k \in Keys :
          u.parent[k] = IF k = n THEN over
                        ELSE IF k = over THEN parent
                        ELSE IF k = inner THEN n ELSE t.parent[k]
  BY <1>7, <1>8, <1>9, <1>13
<1>15. u.root = IF n = t.root THEN over ELSE t.root
  BY <1>4, <1>8, <1>9
<1> QED
  BY <1>3, <1>9, <1>12, <1>14, <1>15 DEF Rotated, o, over, inner, parent

(* A child of a node does not hold the node.                               *)
LEMMA KidHoldsOthers ==
  ASSUME NEW t, NEW b, Shape(t, b), NEW n \in Members(t), NEW d \in Sides,
         t.kid[n][d] # NULL, NEW e \in Sides
  PROVE  t.kid[t.kid[n][d]][e] # n
<1> DEFINE k == t.kid[n][d]
<1> SUFFICES ASSUME t.kid[k][e] = n
             PROVE  FALSE
  OBVIOUS
<1>1. k \in Members(t) /\ k \in Keys /\ n \in Keys /\ n # NULL
  BY ShapeFacts
<1>2. Beyond(d, k, n) /\ Beyond(e, n, k)
  BY <1>1, ShapeFacts
<1>3. e = Other(d)
  BY <1>1, <1>2, BeyondFacts, SideFacts
<1>4. b[n][Other(e)] = k /\ b[k][d] = b[n][d]
  BY <1>1, ShapeFacts
<1>5. b[n][d] = k
  BY <1>3, <1>4, SideFacts
<1>6. b[k][d] # k
  BY <1>1, ShapeFacts
<1> QED
  BY <1>4, <1>5, <1>6

(* Only the two nodes that change places change their intervals.           *)
TurnedBounds(b, over, n, d) ==
  [k \in Keys |-> IF k = over THEN b[n]
                  ELSE IF k = n THEN [e \in Sides |-> IF e = d THEN b[n][d] ELSE over]
                  ELSE b[k]]

(* A rotation loses no node and links none twice.                          *)
LEMMA RotateMembers ==
  ASSUME NEW t, NEW b, Shape(t, b), NEW n \in Members(t), NEW d \in Sides,
         t.kid[n][Other(d)] # NULL, NEW u, Rotated(t, u, n, d)
  PROVE  Members(u) = Members(t)
<1> DEFINE over == t.kid[n][Other(d)]
           inner == t.kid[over][d]
<1>1. over \in Members(t) /\ over \in Keys /\ n \in Keys /\ over # n /\ t \in Trees /\ u \in Trees
      /\ t.parent[over] = n /\ over # t.root /\ NULL \notin Keys /\ Other(d) \in Sides
  BY SideFacts, ShapeFacts DEF Rotated
<1>2. inner # NULL => inner \in Members(t)
  BY <1>1, ShapeFacts
<1>3. t.parent[n] = NULL <=> n = t.root
  BY <1>1, ShapeFacts
<1>4. ASSUME NEW k \in Keys
      PROVE  k \in Members(u) <=> k \in Members(t)
  <2>1. k \in Members(u) <=> k = u.root \/ u.parent[k] # NULL
    BY <1>1, TreeTypes
  <2>2. k \in Members(t) <=> k = t.root \/ t.parent[k] # NULL
    BY <1>1, TreeTypes
  <2>3. u.root = IF n = t.root THEN over ELSE t.root
    BY DEF Rotated
  <2>4. u.parent[k] = IF k = n THEN over
                        ELSE IF k = over THEN t.parent[n]
                        ELSE IF k = inner THEN n ELSE t.parent[k]
    BY DEF Rotated
  <2> HIDE DEF over, inner
  <2> QED
    BY <1>1, <1>2, <1>3, <2>1, <2>2, <2>3, <2>4
<1> QED
  BY <1>1, <1>4, TreeTypes

(* After a rotation the links agree again, and the order is the same.      *)
LEMMA RotateShape ==
  ASSUME NEW t, NEW b, Shape(t, b), NEW n \in Members(t), NEW d \in Sides,
         t.kid[n][Other(d)] # NULL, NEW u, Rotated(t, u, n, d)
  PROVE  Shape(u, TurnedBounds(b, t.kid[n][Other(d)], n, d))
<1> DEFINE o == Other(d)
           over == t.kid[n][o]
           inner == t.kid[over][d]
           c == TurnedBounds(b, over, n, d)
<1>1. /\ over \in Members(t) /\ over \in Keys /\ n \in Keys /\ over # n /\ t \in Trees /\ u \in Trees
      /\ t.parent[over] = n /\ over # t.root /\ NULL \notin Keys /\ o \in Sides /\ o # d
      /\ Other(o) = d /\ Members(u) = Members(t) /\ Members(t) \subseteq Keys
      /\ \A e \in Sides : e = d \/ e = o
  <2>1. o \in Sides /\ o # d /\ Other(o) = d /\ \A e \in Sides : e = d \/ e = o
    BY SideFacts
  <2>2. t \in Trees /\ u \in Trees
    BY ShapeFacts DEF Rotated
  <2>3. Members(u) = Members(t)
    BY RotateMembers
  <2>4. /\ over \in Members(t) /\ over \in Keys /\ n \in Keys /\ over # n
        /\ t.parent[over] = n /\ over # t.root /\ NULL \notin Keys
    <3>1. over # NULL
      OBVIOUS
    <3> HIDE DEF o
    <3> QED
      BY <2>1, <3>1, ShapeFacts
  <2> QED
    BY <2>1, <2>2, <2>3, <2>4, TreeTypes
<1>2. /\ b[over][o] = b[n][o] /\ b[over][d] = n /\ Beyond(o, over, n)
  BY <1>1, ShapeFacts
<1>3. inner # NULL => /\ inner \in Members(t) /\ inner \in Keys /\ t.parent[inner] = over
                      /\ b[inner][d] = n /\ b[inner][o] = over
                      /\ inner # n /\ inner # over /\ inner # t.root
  <2> HAVE inner # NULL
  <2>1. /\ inner \in Members(t) /\ inner \in Keys /\ t.parent[inner] = over
        /\ inner # over /\ inner # t.root
        /\ b[inner][d] = b[over][d] /\ b[inner][Other(d)] = over
    BY <1>1, KidFacts
  <2>2. inner # n
    BY KidHoldsOthers, SideFacts
  <2> QED
    BY <1>2, <2>1, <2>2
<1>4. \A e \in Sides : t.kid[over][e] # n
  BY <1>1, KidHoldsOthers
<1>5. t.parent[n] = NULL <=> n = t.root
  BY <1>1, ShapeFacts
<1>6. \A k \in Keys : \A e \in Sides : b[k][e] \in MaybeKeys
  BY ShapeFacts
<1>7. /\ u.root = IF n = t.root THEN over ELSE t.root
      /\ \A k \in Keys : \A e \in Sides :
          u.kid[k][e] = IF k = n /\ e = o THEN inner
                        ELSE IF k = over /\ e = d THEN n
                        ELSE IF t.kid[k][e] = n THEN over ELSE t.kid[k][e]
      /\ \A k \in Keys :
          u.parent[k] = IF k = n THEN over
                        ELSE IF k = over THEN t.parent[n]
                        ELSE IF k = inner THEN n ELSE t.parent[k]
  BY DEF Rotated
<1>8. /\ \A k \in Keys : k # over /\ k # n => c[k] = b[k]
      /\ c[over] = b[n] /\ c[n][d] = b[n][d] /\ c[n][o] = over
  BY <1>1 DEF TurnedBounds
<1>9. c \in Bounds
  <2>1. \A k \in Keys : b[k] \in [Sides -> MaybeKeys]
    BY ShapeFacts DEF Bounds
  <2>2. over \in MaybeKeys
    BY <1>1 DEF MaybeKeys
  <2> QED
    BY <1>1, <1>6, <2>1, <2>2 DEF TurnedBounds, Bounds
<1> HIDE DEF o, over, inner, c
<1>10. RootFree(u, c)
  <2>1. CASE n = t.root
    <3>1. u.root = over /\ u.parent[over] = t.parent[n] /\ c[over] = b[n]
      BY <1>1, <1>7, <1>8, <2>1
    <3>2. \A e \in Sides : b[n][e] = NULL
      BY <1>1, <2>1, ShapeFacts
    <3> QED
      BY <1>5, <2>1, <3>1, <3>2 DEF RootFree
  <2>2. CASE n # t.root
    <3>1. t.root # NULL => u.parent[t.root] = t.parent[t.root] /\ c[t.root] = b[t.root]
      BY <1>1, <1>3, <1>7, <1>8, <2>2, ShapeFacts
    <3> QED
      BY <1>7, <2>2, <3>1, ShapeFacts DEF RootFree
  <2> QED
    BY <2>1, <2>2
<1>11. ASSUME NEW k \in Members(t), NEW e \in Sides, u.kid[k][e] # NULL
       PROVE  Hangs(u, c, k, e)
  <2>0. k \in Keys
    BY <1>1
  <2>1. CASE k = n /\ e = o
    <3>1. u.kid[k][e] = inner
      BY <1>7, <2>0, <2>1
    <3>2. u.parent[inner] = n /\ c[inner] = b[inner]
      BY <1>3, <1>7, <1>8, <1>11, <3>1
    <3> QED
      BY <1>1, <1>3, <1>8, <1>11, <2>1, <3>1, <3>2 DEF Hangs
  <2>2. CASE k = n /\ e = d
    <3>1. u.kid[k][e] = t.kid[n][d] /\ t.kid[n][d] # n /\ t.kid[n][d] # over /\ t.kid[n][d] \in Keys
      <4>1. t.kid[n][d] # n
        BY <1>1, ShapeFacts
      <4>2. u.kid[k][e] = t.kid[n][d]
        BY <1>1, <1>7, <2>2, <4>1
      <4> QED
        BY <1>1, <1>11, <4>1, <4>2, ShapeFacts DEF over, o
    <3>2. b[t.kid[n][d]][d] = b[n][d] /\ b[t.kid[n][d]][o] = n /\ t.parent[t.kid[n][d]] = n
      BY <1>1, <1>11, <3>1, ShapeFacts DEF o
    <3>3. u.parent[t.kid[n][d]] = n /\ c[t.kid[n][d]] = b[t.kid[n][d]]
      BY <1>7, <1>8, <3>1, <3>2
    <3> QED
      BY <1>8, <2>2, <3>1, <3>2, <3>3 DEF Hangs, o
  <2>3. CASE k = over /\ e = d
    <3>1. u.kid[k][e] = n /\ u.parent[n] = over
      BY <1>1, <1>7, <2>3
    <3> QED
      BY <1>8, <2>3, <3>1 DEF Hangs, o
  <2>4. CASE k = over /\ e = o
    <3> DEFINE q == t.kid[over][o]
    <3>1. u.kid[k][e] = q
      BY <1>1, <1>4, <1>7, <2>4
    <3>2. q \in Keys /\ q # over /\ q # n /\ q # inner /\ t.parent[q] = over /\ b[q][o] = b[over][o] /\ b[q][d] = over
      BY <1>1, <1>4, <1>11, <3>1, ShapeFacts DEF inner
    <3>3. u.parent[q] = over /\ c[q] = b[q]
      BY <1>7, <1>8, <3>2
    <3> QED
      BY <1>1, <1>2, <1>8, <2>4, <3>1, <3>2, <3>3 DEF Hangs
  <2>5. CASE k # n /\ k # over /\ t.kid[k][e] = n
    <3>1. u.kid[k][e] = over /\ u.parent[over] = t.parent[n]
      BY <1>1, <1>7, <2>0, <2>5
    <3>2. t.parent[n] = k /\ b[n][e] = b[k][e] /\ b[n][Other(e)] = k
      BY <1>1, <2>5, ShapeFacts
    <3> QED
      BY <1>8, <2>0, <2>5, <3>1, <3>2 DEF Hangs
  <2>6. CASE k # n /\ k # over /\ t.kid[k][e] # n
    <3> DEFINE q == t.kid[k][e]
    <3>1. u.kid[k][e] = q
      BY <1>7, <2>0, <2>6
    <3>2. q \in Members(t) /\ t.parent[q] = k /\ b[q][e] = b[k][e] /\ b[q][Other(e)] = k
      BY <1>11, <3>1, ShapeFacts
    <3>3. q \in Keys /\ q # over /\ q # n /\ q # inner
      BY <1>1, <1>3, <2>6, <3>2
    <3>4. u.parent[q] = k /\ c[q] = b[q] /\ c[k] = b[k]
      BY <1>7, <1>8, <2>0, <2>6, <3>2, <3>3
    <3> QED
      BY <3>1, <3>2, <3>4 DEF Hangs
  <2> QED
    BY <1>1, <2>1, <2>2, <2>3, <2>4, <2>5, <2>6
<1>12. ASSUME NEW k \in Keys, u.parent[k] # NULL
       PROVE  u.parent[k] \in Members(t) /\ \E e \in Sides : u.kid[u.parent[k]][e] = k
  <2>1. CASE k = n
    BY <1>1, <1>7, <2>1
  <2>2. CASE k = over
    <3>1. u.parent[k] = t.parent[n]
      BY <1>1, <1>7, <2>2
    <3>2. t.parent[n] \in Members(t) /\ t.parent[n] # n
      BY <1>5, <1>12, <3>1, ShapeFacts
    <3>3. PICK e \in Sides : t.kid[t.parent[n]][e] = n
      BY <1>5, <1>12, <3>1, ShapeFacts
    <3>4. t.parent[n] # over
      BY <1>4, <3>3
    <3>5. u.kid[t.parent[n]][e] = over
      BY <1>1, <1>7, <3>2, <3>3, <3>4
    <3> QED
      BY <2>2, <3>1, <3>2, <3>5
  <2>3. CASE k = inner /\ k # n /\ k # over
    <3>1. u.parent[k] = n /\ u.kid[n][o] = k
      BY <1>1, <1>7, <2>3
    <3> QED
      BY <1>1, <3>1
  <2>4. CASE k # n /\ k # over /\ k # inner
    <3> DEFINE q == t.parent[k]
    <3>1. u.parent[k] = q
      BY <1>7, <2>4
    <3>2. q \in Members(t) /\ q \in Keys
      BY <1>1, <1>12, <3>1 DEF Shape, ParentsHold
    <3>3. PICK e \in Sides : t.kid[q][e] = k
      BY <1>12, <3>1 DEF Shape, ParentsHold
    <3>4. u.kid[q][e] = k
      BY <1>7, <2>4, <3>2, <3>3 DEF over, inner
    <3> QED
      BY <3>1, <3>2, <3>4
  <2> QED
    BY <2>1, <2>2, <2>3, <2>4
<1>13. ASSUME NEW k \in Members(t)
       PROVE  Within(k, c[k])
  <2>1. CASE k = over
    <3>1. Covers(b, n, over)
      BY <1>1, CoversSelf, KidCovers DEF over, o
    <3> QED
      BY <1>8, <2>1, <3>1 DEF Covers
  <2>2. CASE k = n
    <3>1. b[n][d] # NULL => Beyond(o, n, b[n][d])
      BY ShapeFacts DEF o
    <3>2. Beyond(d, n, over)
      BY <1>1, <1>2, BeyondFacts DEF o
    <3> QED
      BY <1>1, <1>8, <2>2, <3>1, <3>2 DEF Within, o
  <2>3. CASE k # over /\ k # n
    BY <1>1, <1>8, <2>3 DEF Shape, Ordered
  <2> QED
    BY <2>1, <2>2, <2>3
<1>14. ASSUME NEW k \in Keys, k \notin Members(t), NEW e \in Sides
       PROVE  u.kid[k][e] = NULL
  <2>1. t.kid[k][e] = NULL
    BY <1>14, ShapeFacts
  <2> QED
    BY <1>1, <1>7, <1>14, <2>1
<1>15. KidsHang(u, c) /\ ParentsHold(u) /\ Ordered(u, c) /\ OthersClear(u)
  BY <1>1, <1>11, <1>12, <1>13, <1>14 DEF KidsHang, ParentsHold, Ordered, OthersClear
<1> QED
  BY <1>1, <1>9, <1>10, <1>15 DEF Shape, c, over, o

-----------------------------------------------------------------------------
(* A change of colour leaves the links as they are.                        *)
Recoloured(t, v) == v \in Trees /\ v.root = t.root /\ v.kid = t.kid /\ v.parent = t.parent

(* Shape and members do not depend on the colours.                         *)
LEMMA RecolourShape ==
  ASSUME NEW t, NEW v, Recoloured(t, v)
  PROVE  /\ Members(v) = Members(t)
         /\ \A b : Shape(t, b) => Shape(v, b)
BY DEF Recoloured, Members, Shape, RootFree, KidsHang, Hangs, ParentsHold, Ordered, OthersClear

(* Two assignments of colours, the later one deciding if the nodes are     *)
(* the same.                                                               *)
LEMMA RecolourIs ==
  ASSUME NEW t \in Trees, NEW a \in Keys, NEW c \in Keys, NEW x \in BOOLEAN, NEW y \in BOOLEAN
  PROVE  LET v == [t EXCEPT !.red[a] = x, !.red[c] = y]
         IN /\ Recoloured(t, v)
            /\ \A k \in Keys : v.red[k] = IF k = c THEN y ELSE IF k = a THEN x ELSE t.red[k]
BY DEF Trees, Recoloured

(* The numbers that heights are added up from.                             *)
LEMMA HeightTypes ==
  ASSUME NEW t, NEW h \in Heights
  PROVE  /\ \A k \in Keys : h[k] \in Nat
         /\ \A k \in MaybeKeys : HeightOf(h, k) \in Nat
         /\ \A k : Weight(t, k) \in {0, 1}
         /\ \A p, d, n, e : Lack(p, d, n, e) \in {0, 1}
BY DEF Heights, HeightOf, Weight, Lack, MaybeKeys

(* What a rotation does to the nodes around it.                            *)
LEMMA RotatedKids ==
  ASSUME NEW t, NEW b, Shape(t, b), NEW n \in Members(t), NEW d \in Sides,
         t.kid[n][Other(d)] # NULL, NEW v, Recoloured(t, v), NEW u, Rotated(v, u, n, d)
  PROVE  LET over == t.kid[n][Other(d)]
         IN /\ over \in Members(t) /\ over \in Keys /\ n \in Keys /\ over # n
            /\ u \in Trees /\ Members(u) = Members(t) /\ Members(t) \subseteq Keys
            /\ Other(d) \in Sides /\ Other(d) # d /\ \A e \in Sides : e = d \/ e = Other(d)
            /\ u.kid[n][Other(d)] = t.kid[over][d] /\ u.kid[n][d] = t.kid[n][d]
            /\ u.kid[over][d] = n /\ u.kid[over][Other(d)] = t.kid[over][Other(d)]
            /\ t.kid[over][d] \notin {n, over} /\ t.kid[n][d] \notin {n, over}
            /\ t.kid[over][Other(d)] \notin {n, over}
            /\ \A k \in Members(t) : \A e \in Sides : k # n /\ k # over =>
                 /\ t.kid[k][e] = n => u.kid[k][e] = over
                 /\ t.kid[k][e] # n => u.kid[k][e] = t.kid[k][e] /\ t.kid[k][e] # over
            /\ u.root = IF n = t.root THEN over ELSE t.root
            /\ t.root # over
<1> DEFINE o == Other(d)
           over == t.kid[n][o]
<1>0. /\ v.kid = t.kid /\ v.root = t.root /\ Shape(v, b) /\ Members(v) = Members(t)
      /\ n \in Members(v) /\ v.kid[n][Other(d)] # NULL
  BY RecolourShape DEF Recoloured
<1>1. /\ over \in Members(t) /\ over \in Keys /\ n \in Keys /\ over # n /\ t \in Trees /\ u \in Trees
      /\ t.parent[over] = n /\ over # t.root /\ NULL \notin Keys /\ o \in Sides /\ o # d
      /\ Other(o) = d /\ Members(u) = Members(t) /\ Members(t) \subseteq Keys
      /\ \A e \in Sides : e = d \/ e = o
  <2>1. Members(u) = Members(v)
    BY <1>0, RotateMembers
  <2>2. u \in Trees
    BY DEF Rotated
  <2> QED
    BY <1>0, <2>1, <2>2, ShapeFacts, SideFacts, TreeTypes
<1>2. \A e \in Sides : t.kid[over][e] # n
  BY <1>1, KidHoldsOthers
<1>3. \A e \in Sides : t.kid[over][e] # over
  BY <1>1, ShapeFacts
<1>4. t.kid[n][d] # n /\ t.kid[n][d] # over
  BY <1>1, ShapeFacts
<1>5. /\ u.root = IF n = t.root THEN over ELSE t.root
      /\ \A k \in Keys : \A e \in Sides :
          u.kid[k][e] = IF k = n /\ e = o THEN t.kid[over][d]
                        ELSE IF k = over /\ e = d THEN n
                        ELSE IF t.kid[k][e] = n THEN over ELSE t.kid[k][e]
  <2>1. /\ u.root = IF n = v.root THEN v.kid[n][o] ELSE v.root
        /\ \A k \in Keys : \A e \in Sides :
            u.kid[k][e] = IF k = n /\ e = o THEN v.kid[v.kid[n][o]][d]
                          ELSE IF k = v.kid[n][o] /\ e = d THEN n
                          ELSE IF v.kid[k][e] = n THEN v.kid[n][o] ELSE v.kid[k][e]
    BY DEF Rotated
  <2> QED
    BY <1>0, <2>1
<1>6. \A k \in Members(t) : \A e \in Sides : k # n => t.kid[k][e] # over
  BY <1>1, ShapeFacts
<1> HIDE DEF o, over
<1>7. u.kid[n][o] = t.kid[over][d] /\ u.kid[n][d] = t.kid[n][d]
      /\ u.kid[over][d] = n /\ u.kid[over][o] = t.kid[over][o]
  BY <1>1, <1>2, <1>4, <1>5
<1>8. \A k \in Members(t) : \A e \in Sides : k # n /\ k # over =>
                 /\ t.kid[k][e] = n => u.kid[k][e] = over
                 /\ t.kid[k][e] # n => u.kid[k][e] = t.kid[k][e] /\ t.kid[k][e] # over
  BY <1>1, <1>5, <1>6
<1> QED
  BY <1>1, <1>2, <1>3, <1>4, <1>5, <1>7, <1>8 DEF o, over

(***************************************************************************)
(* The rotation of a black node n with a red one, over, that swaps their   *)
(* colours: the black nodes are as many as before everywhere, the one that *)
(* lacks included if it is not below over.                                 *)
(***************************************************************************)
Swapped(t, n, d) ==
  Rotate([t EXCEPT !.red[t.kid[n][Other(d)]] = FALSE, !.red[n] = TRUE], n, d)
SwappedHeights(h, n, over) ==
  [k \in Keys |-> IF k = n THEN h[n] - 1 ELSE IF k = over THEN h[n] ELSE h[k]]

(* The recoloured tree in between, and its rotation.                       *)
LEMMA SwapIs ==
  ASSUME NEW t, NEW b, Shape(t, b), NEW n \in Members(t), NEW d \in Sides,
         t.kid[n][Other(d)] # NULL
  PROVE  LET v == [t EXCEPT !.red[t.kid[n][Other(d)]] = FALSE, !.red[n] = TRUE]
         IN /\ Recoloured(t, v) /\ Shape(v, b) /\ Members(v) = Members(t)
            /\ \A k \in Keys : v.red[k] = IF k = n THEN TRUE
                                          ELSE IF k = t.kid[n][Other(d)] THEN FALSE ELSE t.red[k]
            /\ Rotated(v, Swapped(t, n, d), n, d)
<1> DEFINE over == t.kid[n][Other(d)]
           v == [t EXCEPT !.red[over] = FALSE, !.red[n] = TRUE]
<1>1. n \in Keys /\ over \in Keys /\ t \in Trees
  BY SideFacts, ShapeFacts
<1>2. Recoloured(t, v) /\ \A k \in Keys : v.red[k] = IF k = n THEN TRUE
                                                     ELSE IF k = over THEN FALSE ELSE t.red[k]
  BY <1>1 DEF Trees, Recoloured
<1>3. Shape(v, b) /\ Members(v) = Members(t) /\ v.kid[n][Other(d)] # NULL
  BY <1>2, RecolourShape DEF Recoloured
<1>4. Rotated(v, Rotate(v, n, d), n, d)
  <2> HIDE DEF v
  <2>1. n \in Members(v)
    BY <1>3
  <2> QED
    BY <1>3, <2>1, RotateIs
<1> QED
  BY <1>2, <1>3, <1>4 DEF Swapped

(* The members and the shape after a rotation with the colours swapped.    *)
LEMMA SwapShape ==
  ASSUME NEW t, NEW b, Shape(t, b), NEW n \in Members(t), NEW d \in Sides,
         t.kid[n][Other(d)] # NULL
  PROVE  /\ Members(Swapped(t, n, d)) = Members(t)
         /\ Shape(Swapped(t, n, d), TurnedBounds(b, t.kid[n][Other(d)], n, d))
<1> DEFINE v == [t EXCEPT !.red[t.kid[n][Other(d)]] = FALSE, !.red[n] = TRUE]
           u == Swapped(t, n, d)
<1>1. /\ Recoloured(t, v) /\ Shape(v, b) /\ Members(v) = Members(t)
      /\ Rotated(v, u, n, d)
  BY SwapIs
<1> HIDE DEF v, u
<1>2. v.kid[n][Other(d)] = t.kid[n][Other(d)] /\ n \in Members(v)
  BY <1>1 DEF Recoloured
<1>3. Members(u) = Members(v)
  BY <1>1, <1>2, RotateMembers
<1>4. Shape(u, TurnedBounds(b, v.kid[n][Other(d)], n, d))
  BY <1>1, <1>2, RotateShape
<1> QED
  BY <1>1, <1>2, <1>3, <1>4 DEF u

(* Where n was black and the child that rises was red, all ways keep       *)
(* their black nodes.                                                      *)
LEMMA SwapColours ==
  ASSUME NEW t, NEW b, Shape(t, b), NEW n \in Members(t), NEW d \in Sides,
         t.kid[n][Other(d)] # NULL, NEW h \in Heights, NEW p, NEW s, Even(t, h, p, s),
         ~t.red[n], t.red[t.kid[n][Other(d)]],
         p # t.kid[n][Other(d)], p = n => s = d
  PROVE  /\ SwappedHeights(h, n, t.kid[n][Other(d)]) \in Heights
         /\ Even(Swapped(t, n, d), SwappedHeights(h, n, t.kid[n][Other(d)]), p, s)
<1> DEFINE o == Other(d)
           over == t.kid[n][o]
           inner == t.kid[over][d]
           outer == t.kid[over][o]
           near == t.kid[n][d]
           v == [t EXCEPT !.red[over] = FALSE, !.red[n] = TRUE]
           u == Swapped(t, n, d)
           g == SwappedHeights(h, n, over)
<1>1. /\ Recoloured(t, v) /\ Shape(v, b) /\ Members(v) = Members(t)
      /\ \A k \in Keys : v.red[k] = IF k = n THEN TRUE ELSE IF k = over THEN FALSE ELSE t.red[k]
      /\ Rotated(v, u, n, d)
  BY SwapIs
<1> HIDE DEF v, u
<1>2. v.kid = t.kid /\ v.root = t.root /\ n \in Members(v) /\ v.kid[n][Other(d)] # NULL /\ u.red = v.red
  BY <1>1 DEF Recoloured, Rotated
<1>3. /\ over \in Members(t) /\ over \in Keys /\ n \in Keys /\ over # n /\ t \in Trees
      /\ u \in Trees /\ Members(u) = Members(t) /\ Members(t) \subseteq Keys
      /\ o \in Sides /\ o # d /\ \A e \in Sides : e = d \/ e = o
      /\ u.kid[n][o] = inner /\ u.kid[n][d] = near
      /\ u.kid[over][d] = n /\ u.kid[over][o] = outer
      /\ inner \notin {n, over} /\ near \notin {n, over} /\ outer \notin {n, over}
      /\ \A k \in Members(t) : \A e \in Sides : k # n /\ k # over =>
                 /\ t.kid[k][e] = n => u.kid[k][e] = over
                 /\ t.kid[k][e] # n => u.kid[k][e] = t.kid[k][e] /\ t.kid[k][e] # over
  <2>1. t \in Trees
    BY ShapeFacts
  <2>2. \A k \in Members(t) : \A e \in Sides : k # n /\ k # over =>
                 /\ t.kid[k][e] = n => u.kid[k][e] = over
                 /\ t.kid[k][e] # n => u.kid[k][e] = t.kid[k][e] /\ t.kid[k][e] # over
    BY <1>1, RotatedKids
  <2>3. /\ u.kid[n][o] = inner /\ u.kid[n][d] = near
        /\ inner \notin {n, over} /\ near \notin {n, over}
        /\ u.kid[over][d] = n /\ u.kid[over][o] = outer /\ outer \notin {n, over}
    BY <1>1, RotatedKids
  <2>4. /\ over \in Members(t) /\ over \in Keys /\ n \in Keys /\ over # n
        /\ u \in Trees /\ Members(u) = Members(t) /\ Members(t) \subseteq Keys
    <3>1. over \in Members(t) /\ over \in Keys /\ over # n
      BY SideFacts, KidFacts
    <3>2. u \in Trees
      BY <1>1 DEF Rotated
    <3>3. Members(u) = Members(v)
      BY <1>1, <1>2, RotateMembers
    <3> QED
      BY <1>1, <3>1, <3>2, <3>3, NodeFacts
  <2>5. o \in Sides /\ o # d /\ \A e \in Sides : e = d \/ e = o
    BY SideFacts
  <2> HIDE DEF o, over, inner, near, outer
  <2> QED
    BY <2>1, <2>2, <2>3, <2>4, <2>5
<1>4. inner \in MaybeKeys /\ outer \in MaybeKeys /\ near \in MaybeKeys /\ NULL \notin Keys
      /\ \A k \in Keys : \A e \in Sides : t.kid[k][e] \in MaybeKeys
  BY <1>3, TreeTypes, KeysAssumption
<1>5. \A k \in Keys : k # n /\ k # over => Weight(u, k) = Weight(t, k)
  BY <1>1, <1>2 DEF Weight
<1>6. Weight(u, n) = 0 /\ Weight(u, over) = 1 /\ Weight(t, n) = 1 /\ Weight(t, over) = 0
  BY <1>1, <1>2, <1>3 DEF Weight
<1>7. /\ h[n] = HeightOf(h, over) + Weight(t, n) + Lack(p, s, n, o)
      /\ h[n] = HeightOf(h, near) + Weight(t, n) + Lack(p, s, n, d)
      /\ h[over] = HeightOf(h, inner) + Weight(t, over) + Lack(p, s, over, d)
      /\ h[over] = HeightOf(h, outer) + Weight(t, over) + Lack(p, s, over, o)
  BY <1>3 DEF Even
<1> HIDE DEF o, over, inner, outer, near
<1>8. Lack(p, s, n, o) = 0 /\ Lack(p, s, over, d) = 0 /\ Lack(p, s, over, o) = 0
  BY <1>3 DEF Lack, over, o
<1>9. HeightOf(h, over) = h[over] /\ h[n] \in Nat /\ h[over] \in Nat
      /\ HeightOf(h, inner) \in Nat /\ HeightOf(h, outer) \in Nat /\ HeightOf(h, near) \in Nat
      /\ Lack(p, s, n, d) \in {0, 1}
  BY <1>3, <1>4, HeightTypes DEF HeightOf
<1>10. /\ h[n] = h[over] + 1 /\ HeightOf(h, inner) = h[over] /\ HeightOf(h, outer) = h[over]
       /\ h[n] = HeightOf(h, near) + 1 + Lack(p, s, n, d)
  BY <1>6, <1>7, <1>8, <1>9
<1>11. /\ g[n] = h[n] - 1 /\ g[over] = h[n] /\ \A k \in Keys : k # n /\ k # over => g[k] = h[k]
  BY <1>3 DEF SwappedHeights
<1>12. \A k \in MaybeKeys : k # n /\ k # over => HeightOf(g, k) = HeightOf(h, k)
  BY <1>11 DEF HeightOf, MaybeKeys
<1>13. HeightOf(g, n) = h[n] - 1 /\ HeightOf(g, over) = h[n]
  BY <1>3, <1>4, <1>11 DEF HeightOf
<1>14. g \in Heights
  <2>1. \A k \in Keys : h[k] \in Nat
    BY HeightTypes
  <2>2. h[n] - 1 \in Nat
    BY <1>9, <1>10
  <2> QED
    BY <1>3, <2>1, <2>2 DEF SwappedHeights, Heights
<1> HIDE DEF g
<1>15. ASSUME NEW k \in Members(t), NEW e \in Sides
       PROVE  g[k] = HeightOf(g, u.kid[k][e]) + Weight(u, k) + Lack(p, s, k, e)
  <2>0. k \in Keys
    BY <1>3
  <2>1. CASE k = n /\ e = o
    BY <1>3, <1>4, <1>6, <1>8, <1>9, <1>10, <1>11, <1>12, <2>1
  <2>2. CASE k = n /\ e = d
    BY <1>3, <1>4, <1>6, <1>9, <1>10, <1>11, <1>12, <2>2
  <2>3. CASE k = over /\ e = d
    BY <1>3, <1>6, <1>8, <1>9, <1>11, <1>13, <2>3
  <2>4. CASE k = over /\ e = o
    BY <1>3, <1>4, <1>6, <1>8, <1>9, <1>10, <1>11, <1>12, <2>4
  <2>5. CASE k # n /\ k # over
    <3>1. h[k] = HeightOf(h, t.kid[k][e]) + Weight(t, k) + Lack(p, s, k, e)
      BY DEF Even
    <3>2. HeightOf(g, u.kid[k][e]) = HeightOf(h, t.kid[k][e])
      <4>1. CASE t.kid[k][e] = n
        <5>1. u.kid[k][e] = over /\ HeightOf(h, n) = h[n]
          BY <1>3, <1>4, <2>5, <4>1 DEF HeightOf
        <5> QED
          BY <1>13, <4>1, <5>1
      <4>2. CASE t.kid[k][e] # n
        <5>1. u.kid[k][e] = t.kid[k][e] /\ t.kid[k][e] # over /\ t.kid[k][e] \in MaybeKeys
          BY <1>3, <1>4, <2>0, <2>5, <4>2
        <5> QED
          BY <1>12, <4>2, <5>1
      <4> QED
        BY <4>1, <4>2
    <3> QED
      BY <1>5, <1>11, <2>0, <2>5, <3>1, <3>2
  <2> QED
    BY <1>3, <2>1, <2>2, <2>3, <2>4, <2>5
<1>16. Even(u, g, p, s)
  BY <1>3, <1>15 DEF Even
<1> QED
  BY <1>14, <1>16 DEF g, u, over, o

(* The colours after it: n is red, the node above it black, the others as  *)
(* before.                                                                 *)
LEMMA SwapRed ==
  ASSUME NEW t, NEW b, Shape(t, b), NEW n \in Members(t), NEW d \in Sides,
         t.kid[n][Other(d)] # NULL
  PROVE  LET u == Swapped(t, n, d)
             over == t.kid[n][Other(d)]
         IN u.red[n] /\ ~u.red[over] /\ \A k \in Keys : k # n /\ k # over => u.red[k] = t.red[k]
<1> DEFINE v == [t EXCEPT !.red[t.kid[n][Other(d)]] = FALSE, !.red[n] = TRUE]
           u == Swapped(t, n, d)
<1>1. /\ \A k \in Keys : v.red[k] = IF k = n THEN TRUE ELSE IF k = t.kid[n][Other(d)] THEN FALSE ELSE t.red[k]
      /\ Rotated(v, u, n, d)
  BY SwapIs
<1> HIDE DEF v, u
<1>2. u.red = v.red
  BY <1>1 DEF Rotated
<1>3. n \in Keys /\ t.kid[n][Other(d)] \in Keys /\ t.kid[n][Other(d)] # n
  BY ShapeFacts, SideFacts
<1> QED
  BY <1>1, <1>2, <1>3 DEF u

(* No red node is below a red one that was not before.                     *)
LEMMA SwapApart ==
  ASSUME NEW t, NEW b, Shape(t, b), NEW n \in Members(t), NEW d \in Sides,
         t.kid[n][Other(d)] # NULL, NEW x, Apart(t, x, NULL),
         ~IsRed(t, t.kid[n][d]), ~IsRed(t, t.kid[t.kid[n][Other(d)]][d])
  PROVE  Apart(Swapped(t, n, d), x, NULL)
<1> DEFINE o == Other(d)
           over == t.kid[n][o]
           inner == t.kid[over][d]
           near == t.kid[n][d]
           v == [t EXCEPT !.red[over] = FALSE, !.red[n] = TRUE]
           u == Swapped(t, n, d)
<1>1. /\ Recoloured(t, v) /\ Shape(v, b) /\ Members(v) = Members(t)
      /\ \A k \in Keys : v.red[k] = IF k = n THEN TRUE ELSE IF k = over THEN FALSE ELSE t.red[k]
      /\ Rotated(v, u, n, d)
  BY SwapIs
<1> HIDE DEF v, u
<1>2. v.kid = t.kid /\ v.root = t.root /\ n \in Members(v) /\ v.kid[n][Other(d)] # NULL /\ u.red = v.red
  BY <1>1 DEF Recoloured, Rotated
<1>3. /\ over \in Members(t) /\ over \in Keys /\ n \in Keys /\ over # n /\ t \in Trees
      /\ Members(u) = Members(t) /\ Members(t) \subseteq Keys
      /\ \A e \in Sides : e = d \/ e = o
      /\ u.kid[n][o] = inner /\ u.kid[n][d] = near
      /\ inner \notin {n, over} /\ near \notin {n, over}
      /\ \A k \in Members(t) : \A e \in Sides : k # n /\ k # over =>
                 /\ t.kid[k][e] = n => u.kid[k][e] = over
                 /\ t.kid[k][e] # n => u.kid[k][e] = t.kid[k][e] /\ t.kid[k][e] # over
      /\ u.root = IF n = t.root THEN over ELSE t.root
      /\ t.root # over
  <2>1. t \in Trees
    BY ShapeFacts
  <2>2. \A k \in Members(t) : \A e \in Sides : k # n /\ k # over =>
                 /\ t.kid[k][e] = n => u.kid[k][e] = over
                 /\ t.kid[k][e] # n => u.kid[k][e] = t.kid[k][e] /\ t.kid[k][e] # over
    BY <1>1, RotatedKids
  <2>3. /\ u.kid[n][o] = inner /\ u.kid[n][d] = near
        /\ inner \notin {n, over} /\ near \notin {n, over}
        /\ u.root = IF n = t.root THEN over ELSE t.root
        /\ t.root # over
    BY <1>1, RotatedKids
  <2>4. /\ over \in Members(t) /\ over \in Keys /\ n \in Keys /\ over # n
        /\ u \in Trees /\ Members(u) = Members(t) /\ Members(t) \subseteq Keys
    <3>1. over \in Members(t) /\ over \in Keys /\ over # n
      BY SideFacts, KidFacts
    <3>2. u \in Trees
      BY <1>1 DEF Rotated
    <3>3. Members(u) = Members(v)
      BY <1>1, <1>2, RotateMembers
    <3> QED
      BY <1>1, <3>1, <3>2, <3>3, NodeFacts
  <2>5. o \in Sides /\ o # d /\ \A e \in Sides : e = d \/ e = o
    BY SideFacts
  <2> HIDE DEF o, over, inner, near
  <2> QED
    BY <2>1, <2>2, <2>3, <2>4, <2>5
<1>4. \A k \in Keys : u.red[k] = IF k = n THEN TRUE ELSE IF k = over THEN FALSE ELSE t.red[k]
  BY <1>1, <1>2
<1>5. \A k \in MaybeKeys : IsRed(u, k) <=> k = n \/ (k # over /\ IsRed(t, k))
  <2>1. NULL \notin Keys
    BY ShapeFacts
  <2> HIDE DEF over
  <2>2. u.red[n] /\ ~u.red[over] /\ \A k \in Keys : k # n /\ k # over => u.red[k] = t.red[k]
    BY <1>3, <1>4
  <2>3. n # NULL /\ over # NULL
    BY <1>3, <2>1
  <2>4. ASSUME NEW k \in Keys
        PROVE  IsRed(u, k) <=> k = n \/ (k # over /\ IsRed(t, k))
    <3>1. CASE k = n
      <4>1. IsRed(u, n)
        BY <2>2, <2>3 DEF IsRed
      <4> QED
        BY <3>1, <4>1
    <3>2. CASE k = over
      BY <1>3, <2>2, <2>3, <3>2 DEF IsRed
    <3>3. CASE k # n /\ k # over
      BY <2>1, <2>2, <3>3 DEF IsRed
    <3> QED
      BY <3>1, <3>2, <3>3
  <2>5. IsRed(u, NULL) <=> NULL = n \/ (NULL # over /\ IsRed(t, NULL))
    BY <2>3 DEF IsRed
  <2> QED
    BY <2>4, <2>5 DEF MaybeKeys
<1>6. /\ \A k \in Keys : \A e \in Sides : t.kid[k][e] \in MaybeKeys
      /\ inner \in MaybeKeys /\ near \in MaybeKeys /\ t.root \in MaybeKeys /\ over \in MaybeKeys
  BY <1>3, TreeTypes, SideFacts DEF MaybeKeys
<1>7. ~IsRed(t, near) /\ ~IsRed(t, inner)
  OBVIOUS
<1> HIDE DEF o, over, inner, near
<1>8. IsRed(u, u.root) => u.root = x
  <2>1. IsRed(t, t.root) => t.root = x
    BY DEF Apart
  <2> QED
    BY <1>3, <1>5, <1>6, <2>1
<1>9. ASSUME NEW k \in Members(t), NEW e \in Sides, u.red[k], IsRed(u, u.kid[k][e])
      PROVE  u.kid[k][e] = x \/ k = NULL
  <2>1. CASE k = n
    BY <1>3, <1>5, <1>6, <1>7, <1>9, <2>1
  <2>2. CASE k # n
    <3>1. k # over /\ t.red[k] /\ k \in Keys
      BY <1>3, <1>4, <1>9, <2>2
    <3>2. t.kid[k][e] # n /\ u.kid[k][e] = t.kid[k][e]
      BY <1>3, <1>5, <1>6, <1>9, <2>2, <3>1
    <3>3. IsRed(t, t.kid[k][e])
      BY <1>3, <1>5, <1>6, <1>9, <3>1, <3>2
    <3> QED
      BY <3>1, <3>2, <3>3 DEF Apart
  <2> QED
    BY <2>1, <2>2
<1>10. Apart(u, x, NULL)
  BY <1>3, <1>8, <1>9 DEF Apart
<1> QED
  BY <1>10 DEF u

-----------------------------------------------------------------------------
(* The parent, the grandparent and the uncle of x.                         *)
Elders(t, x, p, g, q) == /\ p = t.parent[x] /\ g = t.parent[p]
                         /\ q = t.kid[g][Other(SideOf(t, g, p))]

(* A red node whose parent is red: the grandparent is black.               *)
LEMMA InsertFacts ==
  ASSUME NEW t, NEW b, Shape(t, b), NEW x \in Members(t), t.red[x],
         Apart(t, x, NULL), IsRed(t, t.parent[x]), NEW p, NEW g, NEW q, Elders(t, x, p, g, q)
  PROVE  LET d == SideOf(t, g, p)
         IN /\ p \in Members(t) /\ t.red[p] /\ p # x /\ x # t.root /\ p # t.root
            /\ g \in Members(t) /\ ~t.red[g] /\ g # p /\ g # x /\ ~IsRed(t, t.root)
            /\ d \in Sides /\ t.kid[g][d] = p /\ t.kid[g][Other(d)] # p /\ q = t.kid[g][Other(d)]
            /\ t.parent[p] = g /\ t.parent[x] = p
            /\ \A e \in Sides : IsRed(t, t.kid[p][e]) => t.kid[p][e] = x
            /\ \A e \in Sides : ~IsRed(t, t.kid[x][e])
            /\ \E e \in Sides : t.kid[p][e] = x
<1> DEFINE d == SideOf(t, g, p)
<1>0. p = t.parent[x] /\ g = t.parent[p] /\ q = t.kid[g][Other(d)]
  BY DEF Elders
<1> HIDE DEF d
<1>1. t.red[p] /\ p # NULL /\ NULL \notin Keys /\ Members(t) \subseteq Keys
  BY ShapeFacts, TreeTypes, <1>0 DEF IsRed
<1>2. x # t.root /\ p \in Members(t) /\ x # NULL
  <2>1. x \in Keys /\ x # NULL
    BY <1>1
  <2>2. x # t.root
    BY <1>0, <1>1, <2>1, NodeFacts
  <2> QED
    BY <1>0, <2>1, <2>2, ParentFacts
<1>3. PICK e \in Sides : t.kid[p][e] = x
  BY <1>0, <1>2, ParentFacts
<1>4. p # x
  BY <1>2, <1>3, ShapeFacts
<1>5. ~IsRed(t, t.root)
  BY <1>2 DEF Apart
<1>6. p # t.root
  BY <1>1, <1>5 DEF IsRed
<1>7. g \in Members(t) /\ d \in Sides /\ t.kid[g][d] = p
  <2>1. t.parent[p] \in Members(t)
    BY <1>2, <1>6, ShapeFacts
  <2>2. /\ SideOf(t, t.parent[p], p) \in Sides
        /\ t.kid[t.parent[p]][SideOf(t, t.parent[p], p)] = p
    BY <1>2, <1>6, SideOfIs
  <2> QED
    BY <1>0, <2>1, <2>2 DEF d
<1>8. g # p /\ t.kid[g][Other(d)] # p /\ g # NULL
  BY <1>1, <1>7, ShapeFacts
<1>9. g # x
  <2>1. t.kid[t.kid[g][d]][e] # g
    BY <1>1, <1>7, KidHoldsOthers
  <2> QED
    BY <1>3, <1>7, <2>1
<1>10. ~t.red[g]
  BY <1>1, <1>4, <1>7, <1>8 DEF Apart, IsRed
<1>11. \A f \in Sides : IsRed(t, t.kid[p][f]) => t.kid[p][f] = x
  BY <1>1, <1>2 DEF Apart
<1>12. \A f \in Sides : ~IsRed(t, t.kid[x][f])
  <2>1. \A f \in Sides : t.kid[x][f] # NULL => t.kid[x][f] # x
    BY ShapeFacts
  <2> QED
    BY <1>2, <2>1 DEF Apart, IsRed
<1> QED
  BY <1>0, <1>1, <1>2, <1>3, <1>4, <1>5, <1>6, <1>7, <1>8, <1>9, <1>10, <1>11, <1>12 DEF d

(* The uncle is red too: the colours move up by two levels.                *)
Flipped(t, u, p, g, q) ==
  /\ Recoloured(t, u)
  /\ \A k \in Keys : u.red[k] = IF k = g THEN TRUE ELSE IF k \in {p, q} THEN FALSE ELSE t.red[k]

(* Only the grandparent may be below a red node after it.                  *)
LEMMA RedUncleColours ==
  ASSUME NEW t, NEW b, Shape(t, b), NEW x \in Members(t), t.red[x],
         Apart(t, x, NULL), IsRed(t, t.parent[x]), NEW h \in Heights, Even(t, h, NULL, Left),
         NEW p, NEW g, NEW q, Elders(t, x, p, g, q), IsRed(t, q),
         NEW u, Flipped(t, u, p, g, q)
  PROVE  /\ Recoloured(t, u) /\ g \in Members(t) /\ u.red[g] /\ Apart(u, g, NULL)
         /\ \E f \in Heights : Even(u, f, NULL, Left)
<1> DEFINE d == SideOf(t, g, p)
           f == [k \in Keys |-> IF k \in {p, q} THEN h[k] + 1 ELSE h[k]]
<1>1. /\ p \in Members(t) /\ t.red[p] /\ p # x /\ x # t.root /\ p # t.root
      /\ g \in Members(t) /\ ~t.red[g] /\ g # p /\ g # x /\ ~IsRed(t, t.root)
      /\ d \in Sides /\ t.kid[g][d] = p /\ t.kid[g][Other(d)] # p
      /\ \A e \in Sides : IsRed(t, t.kid[p][e]) => t.kid[p][e] = x
      /\ q = t.kid[g][Other(d)]
      /\ t.parent[p] = g /\ t.parent[x] = p
  BY InsertFacts
<1>2. t \in Trees /\ NULL \notin Keys /\ Members(t) \subseteq Keys /\ Other(d) \in Sides /\ t.red[q] /\ q # NULL
      /\ \A e \in Sides : e = d \/ e = Other(d)
  BY <1>1, ShapeFacts, TreeTypes, SideFacts DEF IsRed
<1> HIDE DEF d
<1>3. q \in Members(t) /\ t.parent[q] = g /\ q # g /\ q # p /\ q # t.root
  BY <1>1, <1>2, ShapeFacts DEF d
<1>4. p \in Keys /\ g \in Keys /\ q \in Keys /\ t.parent[p] = g /\ t.parent[x] = p
  BY <1>1, <1>2, <1>3
<1>5. Recoloured(t, u) /\ \A k \in Keys : u.red[k] = IF k = g THEN TRUE
                                                     ELSE IF k \in {p, q} THEN FALSE ELSE t.red[k]
  BY DEF Flipped
<1>6. Members(u) = Members(t) /\ u.kid = t.kid /\ u.root = t.root
  BY <1>5, RecolourShape DEF Recoloured
<1>7. IsRed(u, u.root) => u.root = g
  <2>1. t.root \in Keys \/ t.root = NULL
    BY <1>2, TreeTypes DEF MaybeKeys
  <2> QED
    BY <1>1, <1>3, <1>5, <1>6, <2>1 DEF IsRed
<1>8. ASSUME NEW k \in Members(t), NEW e \in Sides, u.red[k], IsRed(u, u.kid[k][e])
      PROVE  u.kid[k][e] = g \/ k = NULL
  <2> DEFINE c == t.kid[k][e]
  <2>1. k \in Keys /\ c \in Members(t) /\ c \in Keys /\ u.red[c] /\ c # NULL /\ t.parent[c] = k
    BY <1>2, <1>6, <1>8, ShapeFacts DEF IsRed
  <2>2. CASE c = g
    BY <1>6, <2>2
  <2>3. CASE c # g
    <3>1. t.red[c] /\ c # p /\ c # q
      BY <1>5, <2>1, <2>3
    <3>2. k # g
      <4>1. e = d \/ e = Other(d)
        BY <1>2
      <4> QED
        BY <1>1, <3>1, <4>1
    <3>3. t.red[k] /\ k # p
      BY <1>5, <1>8, <2>1, <3>2
    <3>4. c = x \/ k = NULL
      BY <2>1, <3>1, <3>3 DEF Apart, IsRed
    <3> QED
      BY <1>2, <1>4, <2>1, <3>3, <3>4
  <2> QED
    BY <2>2, <2>3
<1>9. Apart(u, g, NULL)
  BY <1>6, <1>7, <1>8 DEF Apart
<1>10. \A k \in Keys : h[k] \in Nat
  BY HeightTypes
<1>11. f \in Heights
  BY <1>10 DEF Heights
<1>12. f[p] = h[p] + 1 /\ f[q] = h[q] + 1 /\ \A k \in Keys : k # p /\ k # q => f[k] = h[k]
  BY <1>4
<1> HIDE DEF f
<1>13. ASSUME NEW k \in Members(t), NEW e \in Sides
       PROVE  f[k] = HeightOf(f, u.kid[k][e]) + Weight(u, k) + Lack(NULL, Left, k, e)
  <2> DEFINE c == t.kid[k][e]
  <2>1. k \in Keys /\ c \in MaybeKeys /\ h[k] \in Nat /\ u.kid[k][e] = c
    BY <1>2, <1>6, <1>10, TreeTypes
  <2>2. h[k] = HeightOf(h, c) + Weight(t, k) + Lack(NULL, Left, k, e)
    BY DEF Even
  <2>3. Lack(NULL, Left, k, e) = 0 /\ HeightOf(h, c) \in Nat
    BY <1>2, <2>1, HeightTypes DEF Lack
  <2>4. CASE k = g
    <3>1. c \in {p, q} /\ c \in Keys
      BY <1>1, <1>2, <1>4, <2>4 DEF d
    <3>2. HeightOf(f, c) = HeightOf(h, c) + 1
      BY <1>2, <1>12, <3>1 DEF HeightOf
    <3>3. Weight(t, k) = 1 /\ Weight(u, k) = 0 /\ f[k] = h[k]
      BY <1>1, <1>3, <1>5, <1>12, <2>1, <2>4 DEF Weight
    <3> QED
      BY <2>1, <2>2, <2>3, <3>2, <3>3
  <2>5. CASE k # g
    <3>1. c # p /\ c # q
      BY <1>2, <1>3, <1>4, <2>5, ShapeFacts
    <3>2. HeightOf(f, c) = HeightOf(h, c)
      BY <1>12, <2>1, <3>1 DEF HeightOf, MaybeKeys
    <3>3. CASE k \in {p, q}
      <4>1. Weight(t, k) = 0 /\ Weight(u, k) = 1 /\ f[k] = h[k] + 1
        BY <1>1, <1>2, <1>5, <1>12, <2>1, <2>5, <3>3 DEF Weight
      <4> QED
        BY <2>1, <2>2, <2>3, <3>2, <4>1
    <3>4. CASE k \notin {p, q}
      <4>1. Weight(t, k) = Weight(u, k) /\ f[k] = h[k]
        BY <1>5, <1>12, <2>1, <2>5, <3>4 DEF Weight
      <4> QED
        BY <2>1, <2>2, <2>3, <3>2, <4>1
    <3> QED
      BY <3>3, <3>4
  <2> QED
    BY <2>4, <2>5
<1>14. Even(u, f, NULL, Left)
  BY <1>6, <1>13 DEF Even
<1> QED
  BY <1>1, <1>4, <1>5, <1>9, <1>11, <1>14

(* The nearer of the two rotations: both nodes are red, so no height       *)
(* changes, and the old parent is the lower one of the pair.               *)
LEMMA BentColours ==
  ASSUME NEW t, NEW b, Shape(t, b), NEW x \in Members(t), t.red[x],
         Apart(t, x, NULL), IsRed(t, t.parent[x]), NEW h \in Heights, Even(t, h, NULL, Left),
         NEW p, NEW g, NEW q, Elders(t, x, p, g, q),
         t.kid[p][Other(SideOf(t, g, p))] = x,
         NEW u, Rotated(t, u, p, SideOf(t, g, p))
  PROVE  u.red[p] /\ Apart(u, p, NULL) /\ Even(u, h, NULL, Left)
<1> DEFINE d == SideOf(t, g, p)
           o == Other(d)
           inner == t.kid[x][d]
           near == t.kid[p][d]
<1>1. /\ p \in Members(t) /\ t.red[p] /\ p # x /\ x # t.root /\ p # t.root
      /\ ~t.red[g] /\ ~IsRed(t, t.root) /\ d \in Sides /\ t.parent[x] = p
      /\ \A e \in Sides : IsRed(t, t.kid[p][e]) => t.kid[p][e] = x
      /\ \A e \in Sides : ~IsRed(t, t.kid[x][e])
  BY InsertFacts
<1>2. t.kid[p][o] = x /\ Recoloured(t, t) /\ u.red = t.red
      /\ x # NULL /\ NULL \notin Keys /\ t \in Trees /\ o \in Sides
  BY <1>1, ShapeFacts, SideFacts DEF Recoloured, Rotated
<1> HIDE DEF d
<1>3. /\ x \in Keys /\ p \in Keys
      /\ Members(u) = Members(t) /\ Members(t) \subseteq Keys
      /\ \A e \in Sides : e = d \/ e = o
      /\ u.kid[p][o] = inner /\ u.kid[p][d] = near
      /\ u.kid[x][d] = p /\ u.kid[x][o] = t.kid[x][o]
      /\ inner \notin {p, x} /\ near \notin {p, x} /\ t.kid[x][o] \notin {p, x}
      /\ \A k \in Members(t) : \A e \in Sides : k # p /\ k # x =>
                 /\ t.kid[k][e] = p => u.kid[k][e] = x
                 /\ t.kid[k][e] # p => u.kid[k][e] = t.kid[k][e] /\ t.kid[k][e] # x
      /\ u.root = t.root
  <2>1. t.kid[p][Other(d)] # NULL /\ Rotated(t, u, p, d)
    BY <1>2 DEF d
  <2> QED
    BY <1>1, <1>2, <2>1, RotatedKids
<1>4. \A k : IsRed(u, k) <=> IsRed(t, k)
  BY <1>2 DEF IsRed
<1>5. ~IsRed(t, inner) /\ ~IsRed(t, near) /\ ~IsRed(t, t.kid[x][o])
  BY <1>1, <1>2, <1>3
<1>6. inner \in MaybeKeys /\ near \in MaybeKeys /\ t.kid[x][o] \in MaybeKeys
      /\ \A k \in Keys : \A e \in Sides : t.kid[k][e] \in MaybeKeys
  BY <1>1, <1>2, <1>3, TreeTypes
<1> HIDE DEF inner, near, o
<1>7. ASSUME NEW k \in Members(t), NEW e \in Sides, u.red[k], IsRed(u, u.kid[k][e])
      PROVE  u.kid[k][e] = p \/ k = NULL
  <2>1. CASE k = p
    BY <1>3, <1>4, <1>5, <1>7, <2>1
  <2>2. CASE k = x
    BY <1>3, <1>4, <1>5, <1>7, <2>2
  <2>3. CASE k # p /\ k # x
    <3>1. t.red[k] /\ k # NULL /\ k \in Keys
      BY <1>2, <1>3, <1>7
    <3>2. CASE t.kid[k][e] = p
      BY <1>1, <1>2, <3>1, <3>2, <2>3 DEF Apart, IsRed
    <3>3. CASE t.kid[k][e] # p
      <4>1. IsRed(t, t.kid[k][e]) /\ t.kid[k][e] # x
        BY <1>3, <1>4, <1>7, <2>3, <3>3
      <4> QED
        BY <3>1, <4>1 DEF Apart
    <3> QED
      BY <3>2, <3>3
  <2> QED
    BY <2>1, <2>2, <2>3
<1>8. Apart(u, p, NULL)
  BY <1>1, <1>3, <1>4, <1>7 DEF Apart
<1>9. \A k \in Keys : h[k] \in Nat
  BY HeightTypes
<1>10. ASSUME NEW k \in Members(t), NEW e \in Sides
       PROVE  h[k] = HeightOf(h, t.kid[k][e]) + Weight(t, k)
              /\ Lack(NULL, Left, k, e) = 0 /\ HeightOf(h, t.kid[k][e]) \in Nat
              /\ (t.red[k] => h[k] = HeightOf(h, t.kid[k][e]))
  <2>1. h[k] = HeightOf(h, t.kid[k][e]) + Weight(t, k) + Lack(NULL, Left, k, e)
    BY DEF Even
  <2>2. HeightOf(h, t.kid[k][e]) \in Nat /\ Lack(NULL, Left, k, e) = 0 /\ Weight(t, k) \in {0, 1}
    BY <1>2, <1>3, <1>6, HeightTypes DEF Lack
  <2>3. t.red[k] => Weight(t, k) = 0
    BY DEF Weight
  <2> QED
    BY <2>1, <2>2, <2>3
<1>11. HeightOf(h, inner) = h[x] /\ HeightOf(h, near) = h[p] /\ HeightOf(h, x) = h[p]
       /\ HeightOf(h, p) = h[p] /\ HeightOf(h, x) = h[x] /\ HeightOf(h, t.kid[x][o]) = h[x]
  BY <1>1, <1>2, <1>3, <1>10 DEF HeightOf, inner, near
<1>12. ASSUME NEW k \in Members(t), NEW e \in Sides
       PROVE  HeightOf(h, u.kid[k][e]) = HeightOf(h, t.kid[k][e])
  <2>1. CASE k = p
    BY <1>1, <1>2, <1>3, <1>10, <1>11, <2>1 DEF near
  <2>2. CASE k = x
    BY <1>1, <1>2, <1>3, <1>10, <1>11, <2>2 DEF inner
  <2>3. CASE k # p /\ k # x
    BY <1>3, <1>11, <2>3
  <2> QED
    BY <2>1, <2>2, <2>3
<1>13. \A k : Weight(u, k) = Weight(t, k)
  BY <1>2 DEF Weight
<1>14. Even(u, h, NULL, Left)
  BY <1>3, <1>12, <1>13 DEF Even
<1> QED
  BY <1>1, <1>2, <1>8, <1>14

(* The farther one: the grandparent goes down on the other side, and the   *)
(* parent takes its place and colour.                                      *)
LEMMA StraightColours ==
  ASSUME NEW t, NEW b, Shape(t, b), NEW x \in Members(t), t.red[x],
         Apart(t, x, NULL), IsRed(t, t.parent[x]), NEW h \in Heights, Even(t, h, NULL, Left),
         NEW p, NEW g, NEW q, Elders(t, x, p, g, q), ~IsRed(t, q),
         NEW d, d = SideOf(t, g, p), t.kid[p][Other(d)] # x
  PROVE  LET u == Swapped(t, g, Other(d))
         IN /\ Members(u) = Members(t) /\ \E c : Shape(u, c)
            /\ u.red[x] /\ Apart(u, x, NULL)
            /\ \E f \in Heights : Even(u, f, NULL, Left)
<1> DEFINE u == Swapped(t, g, Other(d))
<1>1. /\ p \in Members(t) /\ t.red[p] /\ p # x /\ g \in Members(t) /\ ~t.red[g] /\ g # x
      /\ d \in Sides /\ t.kid[g][d] = p /\ q = t.kid[g][Other(d)]
      /\ \A e \in Sides : IsRed(t, t.kid[p][e]) => t.kid[p][e] = x
  BY InsertFacts
<1>2. /\ Other(d) \in Sides /\ Other(Other(d)) = d /\ p # NULL /\ g # NULL /\ x # NULL /\ x \in Keys
  BY <1>1, SideFacts, ShapeFacts
<1>3. ~IsRed(t, t.kid[p][Other(d)])
  BY <1>1, <1>2
<1>4. t.kid[g][Other(Other(d))] = p /\ t.kid[g][Other(Other(d))] # NULL
  BY <1>1, <1>2
<1>5. Members(u) = Members(t) /\ Shape(u, TurnedBounds(b, p, g, Other(d)))
  BY <1>1, <1>2, <1>4, SwapShape
<1>6. SwappedHeights(h, g, p) \in Heights /\ Even(u, SwappedHeights(h, g, p), NULL, Left)
  <2>1. NULL # p /\ (NULL = g => Left = Other(d))
    BY <1>2
  <2> QED
    BY <1>1, <1>2, <1>4, <2>1, SwapColours
<1>7. Apart(u, x, NULL) /\ \A k \in Keys : k # g /\ k # p => u.red[k] = t.red[k]
  <2>1. ~IsRed(t, t.kid[g][Other(d)]) /\ ~IsRed(t, t.kid[t.kid[g][Other(Other(d))]][Other(d)])
    BY <1>1, <1>3, <1>4
  <2> DEFINE o == Other(d)
  <2>2. o \in Sides /\ t.kid[g][Other(o)] # NULL /\ t.kid[g][Other(o)] = p
        /\ ~IsRed(t, t.kid[g][o]) /\ ~IsRed(t, t.kid[t.kid[g][Other(o)]][o])
    BY <1>2, <1>4, <2>1
  <2> HIDE DEF o
  <2>3. g \in Members(t)
    BY <1>1
  <2>4. Apart(Swapped(t, g, o), x, NULL)
    BY <2>2, <2>3, SwapApart
  <2>5. \A k \in Keys : k # g /\ k # t.kid[g][Other(o)] => Swapped(t, g, o).red[k] = t.red[k]
    BY <2>2, <2>3, SwapRed
  <2> QED
    BY <2>2, <2>4, <2>5 DEF o
<1> QED
  BY <1>1, <1>2, <1>5, <1>6, <1>7

(* The sum that a height is.                                               *)
LEMMA EvenFacts ==
  ASSUME NEW t \in Trees, NEW h \in Heights, NEW p, NEW d, Even(t, h, p, d),
         NEW n \in Members(t), NEW e \in Sides
  PROVE  /\ h[n] \in Nat /\ HeightOf(h, t.kid[n][e]) \in Nat
         /\ Weight(t, n) \in {0, 1} /\ Lack(p, d, n, e) \in {0, 1}
         /\ h[n] = HeightOf(h, t.kid[n][e]) + Weight(t, n) + Lack(p, d, n, e)
         /\ n \in Keys /\ t.kid[n][e] \in MaybeKeys
<1>1. n \in Keys /\ t.kid[n][e] \in MaybeKeys
  BY TreeTypes
<1>2. h[n] = HeightOf(h, t.kid[n][e]) + Weight(t, n) + Lack(p, d, n, e)
  BY DEF Even
<1> QED
  BY <1>1, <1>2, HeightTypes

(***************************************************************************)
(* A red node that turns black, the root or one on the side that is short  *)
(* of a black node, evens the heights out.                                 *)
(***************************************************************************)
Blackened(t, u, x) == /\ Recoloured(t, u) /\ ~u.red[x]
                      /\ \A k \in Keys : k # x => u.red[k] = t.red[k]

(* SetRed() of a node of the tree.                                         *)
LEMMA SetRedIs ==
  ASSUME NEW t \in Trees, NEW n \in Keys
  PROVE  Blackened(t, SetRed(t, n, FALSE), n)
<1>1. n # NULL
  BY KeysAssumption
<1>2. SetRed(t, n, FALSE) = [t EXCEPT !.red[n] = FALSE]
  BY <1>1 DEF SetRed
<1> QED
  BY <1>2 DEF Blackened, Recoloured, Trees

(* Wherever the node is the root or on the side that lacks, the heights    *)
(* are even after it.                                                      *)
LEMMA BlackenEven ==
  ASSUME NEW t, NEW b, Shape(t, b), NEW x \in Members(t), t.red[x],
         NEW h \in Heights, NEW p, NEW d, Even(t, h, p, d),
         \/ x = t.root /\ p = NULL
         \/ p \in Members(t) /\ d \in Sides /\ t.kid[p][d] = x,
         NEW u, Blackened(t, u, x)
  PROVE  \E f \in Heights : Even(u, f, NULL, Left)
<1> DEFINE f == [k \in Keys |-> IF k = x THEN h[k] + 1 ELSE h[k]]
<1>1. /\ t \in Trees /\ x \in Keys /\ NULL \notin Keys /\ Members(t) \subseteq Keys
      /\ u.kid = t.kid /\ Members(u) = Members(t) /\ p # x
  BY ShapeFacts, TreeTypes, RecolourShape DEF Blackened, Recoloured
<1>2. \A k \in Keys : h[k] \in Nat
  BY HeightTypes
<1>3. f \in Heights
  BY <1>2 DEF Heights
<1>4. f[x] = h[x] + 1 /\ \A k \in Keys : k # x => f[k] = h[k]
  BY <1>1
<1>5. Weight(t, x) = 0 /\ Weight(u, x) = 1 /\ \A k \in Keys : k # x => Weight(u, k) = Weight(t, k)
  BY DEF Weight, Blackened
<1> HIDE DEF f
<1>6. ASSUME NEW k \in Members(t), NEW e \in Sides
      PROVE  f[k] = HeightOf(f, u.kid[k][e]) + Weight(u, k) + Lack(NULL, Left, k, e)
  <2> DEFINE c == t.kid[k][e]
             hc == HeightOf(h, c)
  <2>1. /\ h[k] \in Nat /\ hc \in Nat /\ h[k] = hc + Weight(t, k) + Lack(p, d, k, e)
        /\ Weight(t, k) \in {0, 1} /\ k \in Keys /\ c \in MaybeKeys
    BY <1>1, EvenFacts
  <2>2. Lack(NULL, Left, k, e) = 0 /\ u.kid[k][e] = c
    BY <1>1, <2>1 DEF Lack
  <2>3. CASE c = x
    <3>1. k # x /\ x # t.root /\ t.parent[x] = k
      BY <1>1, <2>3, ShapeFacts
    <3>2. p = k /\ d = e
      <4>1. p \in Members(t) /\ d \in Sides /\ t.kid[p][d] = x
        BY <3>1
      <4>2. t.kid[p][d] # t.kid[p][Other(d)] /\ t.parent[x] = p
        BY <1>1, <4>1, ShapeFacts
      <4> QED
        BY <2>3, <3>1, <4>1, <4>2, SideFacts
    <3>3. Lack(p, d, k, e) = 1
      BY <3>2 DEF Lack
    <3>4. HeightOf(f, c) = hc + 1
      BY <1>1, <1>4, <2>3 DEF HeightOf
    <3> HIDE DEF hc, c
    <3> QED
      BY <1>4, <1>5, <2>1, <2>2, <3>1, <3>3, <3>4
  <2>4. CASE c # x
    <3>1. HeightOf(f, c) = hc
      BY <1>1, <1>4, <2>1, <2>4 DEF HeightOf, MaybeKeys
    <3>2. Lack(p, d, k, e) = 0
      BY <1>1, <2>1, <2>4 DEF Lack
    <3> HIDE DEF hc, c
    <3>3. CASE k = x
      BY <1>4, <1>5, <2>1, <2>2, <3>1, <3>2, <3>3
    <3>4. CASE k # x
      BY <1>4, <1>5, <2>1, <2>2, <3>1, <3>2, <3>4
    <3> QED
      BY <3>3, <3>4
  <2> QED
    BY <2>3, <2>4
<1>7. Even(u, f, NULL, Left)
  BY <1>1, <1>6 DEF Even
<1> QED
  BY <1>3, <1>7

(* A tree with nodes has a root.                                           *)
LEMMA RootThere ==
  ASSUME NEW t, NEW b, Shape(t, b), Members(t) # {}
  PROVE  t.root \in Members(t) /\ t.root \in Keys /\ t.root # NULL
<1>1. t.root # NULL
  BY AllBeneathRoot, BeneathNull
<1> QED
  BY <1>1, ShapeFacts

(* The end of an insertion: the root is black.                             *)
LEMMA InsertEndColours ==
  ASSUME NEW t, NEW b, Shape(t, b), NEW x \in Members(t), t.red[x],
         Apart(t, x, NULL), ~IsRed(t, t.parent[x]), NEW h \in Heights, Even(t, h, NULL, Left)
  PROVE  LET u == SetRed(t, t.root, FALSE)
         IN /\ Recoloured(t, u) /\ Apart(u, NULL, NULL)
            /\ \E f \in Heights : Even(u, f, NULL, Left)
<1> DEFINE r == t.root
           u == SetRed(t, r, FALSE)
<1>1. r \in Members(t) /\ r \in Keys /\ r # NULL /\ t \in Trees
  BY RootThere, ShapeFacts
<1> HIDE DEF r
<1>2. Blackened(t, u, r)
  BY <1>1, SetRedIs
<1> HIDE DEF u
<1>3. Members(u) = Members(t) /\ u.kid = t.kid /\ u.root = r
  <2>1. Recoloured(t, u)
    BY <1>2 DEF Blackened
  <2> QED
    BY <2>1, RecolourShape DEF Recoloured, r
<1>4. ASSUME NEW k \in Members(t), NEW e \in Sides, u.red[k], IsRed(u, u.kid[k][e])
      PROVE  FALSE
  <2> DEFINE c == t.kid[k][e]
  <2>1. c # NULL /\ c \in Keys /\ k \in Keys /\ k # NULL /\ t.parent[c] = k /\ c # r
    <3>1. c # NULL /\ u.kid[k][e] = c
      BY <1>3, <1>4 DEF IsRed
    <3>2. c \in Members(t) /\ t.parent[c] = k /\ c # t.root
      BY <3>1, ShapeFacts
    <3> QED
      BY <3>1, <3>2, ShapeFacts DEF r
  <2>2. t.red[k] /\ t.red[c]
    BY <1>2, <1>3, <1>4, <2>1 DEF Blackened, IsRed
  <2>3. c = x
    BY <2>1, <2>2 DEF Apart, IsRed
  <2> QED
    BY <2>1, <2>2, <2>3 DEF IsRed
<1>5. Apart(u, NULL, NULL)
  BY <1>2, <1>3, <1>4 DEF Apart, IsRed, Blackened
<1>6. \E f \in Heights : Even(u, f, NULL, Left)
  <2>1. CASE t.red[r]
    <3>1. r = t.root /\ NULL = NULL
      BY DEF r
    <3> QED
      BY <1>1, <1>2, <2>1, <3>1, BlackenEven
  <2>2. CASE ~t.red[r]
    <3>1. \A k \in Members(t) : Weight(u, k) = Weight(t, k)
      BY <1>1, <1>2, <2>2, ShapeFacts DEF Weight, Blackened
    <3>2. Even(u, h, NULL, Left)
      BY <1>3, <3>1 DEF Even
    <3> QED
      BY <3>2
  <2> QED
    BY <2>1, <2>2
<1> QED
  BY <1>2, <1>5, <1>6 DEF Blackened, u, r

-----------------------------------------------------------------------------
(* The links that a rotation with a swap of colours leaves alone.          *)
LEMMA SwapKids ==
  ASSUME NEW t, NEW b, Shape(t, b), NEW n \in Members(t), NEW d \in Sides,
         t.kid[n][Other(d)] # NULL
  PROVE  LET u == Swapped(t, n, d)
             over == t.kid[n][Other(d)]
         IN /\ u.kid[n][d] = t.kid[n][d]
            /\ \A k \in Members(t) : \A e \in Sides :
                 k # n /\ k # over /\ t.kid[k][e] # n => u.kid[k][e] = t.kid[k][e]
<1> DEFINE v == [t EXCEPT !.red[t.kid[n][Other(d)]] = FALSE, !.red[n] = TRUE]
           u == Swapped(t, n, d)
<1>1. Recoloured(t, v) /\ Rotated(v, u, n, d)
  BY SwapIs
<1> HIDE DEF v, u
<1>2. /\ u.kid[n][d] = t.kid[n][d]
      /\ \A k \in Members(t) : \A e \in Sides : k # n /\ k # t.kid[n][Other(d)] =>
                 (t.kid[k][e] # n => u.kid[k][e] = t.kid[k][e])
  BY <1>1, RotatedKids
<1> QED
  BY <1>2 DEF u

(***************************************************************************)
(* x, on side d of p, lacks a black node, and is neither red nor the root: *)
(* then it has a sibling.                                                  *)
(***************************************************************************)
Kin(t, p, x, d, s) == d = SideOf(t, p, x) /\ s = t.kid[p][Other(d)]

(* The side the code finds is the one that lacks, and the sibling is       *)
(* there.                                                                  *)
LEMMA EraseFacts ==
  ASSUME NEW t, NEW b, Shape(t, b), NEW x, x # t.root, ~IsRed(t, x), Apart(t, x, x),
         NEW p \in Members(t), NEW h \in Heights, NEW c \in Sides, t.kid[p][c] = x, Even(t, h, p, c),
         NEW d, NEW s, Kin(t, p, x, d, s)
  PROVE  /\ d \in Sides /\ t.kid[p][d] = x /\ Even(t, h, p, d)
         /\ s = t.kid[p][Other(d)] /\ s \in Members(t) /\ Apart(t, NULL, NULL)
<1>1. /\ t \in Trees /\ NULL \notin Keys /\ Other(c) \in Sides /\ p \in Keys /\ p # NULL /\ Other(c) # c
      /\ \A e \in Sides : e = c \/ e = Other(c)
  BY ShapeFacts, SideFacts
<1>2. t.kid[p][Other(c)] # NULL
  <2> DEFINE hx == HeightOf(h, x)
             hs == HeightOf(h, t.kid[p][Other(c)])
  <2>1. hx \in Nat /\ hs \in Nat /\ Weight(t, p) \in {0, 1} /\ h[p] = hx + Weight(t, p) + Lack(p, c, p, c)
        /\ h[p] = hs + Weight(t, p) + Lack(p, c, p, Other(c))
    BY <1>1, EvenFacts
  <2>2. Lack(p, c, p, c) = 1 /\ Lack(p, c, p, Other(c)) = 0
    BY <1>1 DEF Lack
  <2> HIDE DEF hx, hs
  <2>3. hs # 0
    BY <2>1, <2>2
  <2> QED
    BY <2>3 DEF hs, HeightOf
<1>3. t.kid[p][Other(c)] # x
  BY <1>1, <1>2, ShapeFacts, SideFacts
<1>4. d = c
  <2>1. CASE c = Left
    BY <2>1 DEF Kin, SideOf
  <2>2. CASE c = Right
    <3>1. t.kid[p][Left] # x
      BY <1>3, <2>2, SideFacts
    <3> QED
      BY <2>2, <3>1 DEF Kin, SideOf
  <2> QED
    BY <2>1, <2>2, SideFacts
<1>5. s = t.kid[p][Other(d)]
  BY DEF Kin
<1>6. s \in Members(t)
  BY <1>1, <1>2, <1>4, <1>5, ShapeFacts
<1>7. Apart(t, NULL, NULL)
  <2>1. ~IsRed(t, t.root)
    BY DEF Apart
  <2>2. \A k \in Members(t) : t.red[k] => k # x
    BY <1>1, ShapeFacts DEF IsRed
  <2> QED
    BY <2>1, <2>2 DEF Apart
<1> QED
  BY <1>1, <1>4, <1>5, <1>6, <1>7

(* A red sibling: x gets a black one, and the lack stays where it is.      *)
LEMMA RedSiblingColours ==
  ASSUME NEW t, NEW b, Shape(t, b), NEW p \in Members(t), NEW d \in Sides,
         NEW h \in Heights, Even(t, h, p, d), Apart(t, NULL, NULL),
         NEW s \in Members(t), s = t.kid[p][Other(d)], t.red[s], ~IsRed(t, t.kid[p][d])
  PROVE  LET u == Swapped(t, p, d)
         IN /\ Members(u) = Members(t) /\ \E c : Shape(u, c)
            /\ u.kid[p][d] = t.kid[p][d] /\ Apart(u, NULL, NULL)
            /\ \E f \in Heights : Even(u, f, p, d)
<1> DEFINE u == Swapped(t, p, d)
<1>1. /\ s # NULL /\ p # NULL /\ p # s /\ t.kid[p][Other(d)] # NULL /\ Other(d) \in Sides
      /\ t.kid[s][d] # s
  BY ShapeFacts, SideFacts
<1>2. ~t.red[p]
  BY <1>1 DEF Apart, IsRed
<1>3. ~IsRed(t, t.kid[s][d])
  BY <1>1 DEF Apart, IsRed
<1>4. Members(u) = Members(t) /\ Shape(u, TurnedBounds(b, t.kid[p][Other(d)], p, d))
  BY <1>1, SwapShape
<1>5. /\ SwappedHeights(h, p, t.kid[p][Other(d)]) \in Heights
      /\ Even(u, SwappedHeights(h, p, t.kid[p][Other(d)]), p, d)
  <2>1. t.red[t.kid[p][Other(d)]] /\ p # t.kid[p][Other(d)] /\ (p = p => d = d)
    BY <1>1
  <2> QED
    BY <1>1, <1>2, <2>1, SwapColours
<1>6. Apart(u, NULL, NULL)
  <2>1. ~IsRed(t, t.kid[t.kid[p][Other(d)]][d])
    BY <1>3
  <2> QED
    BY <1>1, <2>1, SwapApart
<1>7. u.kid[p][d] = t.kid[p][d]
  BY <1>1, SwapKids
<1> QED
  BY <1>4, <1>5, <1>6, <1>7

(* The nearer nephew is red: it becomes the sibling.                       *)
LEMMA NearNephewColours ==
  ASSUME NEW t, NEW b, Shape(t, b), NEW p \in Members(t), NEW d \in Sides,
         NEW h \in Heights, Even(t, h, p, d), Apart(t, NULL, NULL),
         NEW s \in Members(t), s = t.kid[p][Other(d)], ~t.red[s],
         ~IsRed(t, t.kid[s][Other(d)]), IsRed(t, t.kid[s][d])
  PROVE  LET u == Swapped(t, s, Other(d))
         IN /\ Members(u) = Members(t) /\ \E c : Shape(u, c)
            /\ u.kid[p][d] = t.kid[p][d] /\ Apart(u, NULL, NULL)
            /\ \E f \in Heights : Even(u, f, p, d)
<1> DEFINE o == Other(d)
           u == Swapped(t, s, o)
           near == t.kid[s][d]
<1>1. /\ o \in Sides /\ Other(o) = d /\ o # d /\ near # NULL /\ t.red[near]
      /\ p # NULL /\ s # NULL /\ p # s /\ t.parent[s] = p /\ t.kid[p][d] # s
  <2>1. o \in Sides /\ Other(o) = d /\ o # d /\ s = t.kid[p][o] /\ s # NULL /\ p # NULL
    <3>1. s # NULL /\ p # NULL
      BY NodeFacts
    <3> QED
      BY <3>1, SideFacts
  <2> HIDE DEF o
  <2>2. t.parent[s] = p /\ p # s /\ s # t.kid[p][Other(o)]
    BY <2>1, KidFacts
  <2> QED
    BY <2>1, <2>2 DEF IsRed
<1>2. near \in Members(t) /\ p # near /\ t.kid[near][o] # near
  <2>1. p # near
    <3>1. t.kid[t.kid[p][o]][d] # p
      BY <1>1, KidHoldsOthers
    <3> QED
      BY <3>1
  <2>2. near # NULL
    BY <1>1
  <2>3. near \in Members(t)
    BY <2>2, ShapeFacts
  <2>4. o \in Sides
    BY <1>1
  <2> HIDE DEF near, o
  <2>5. t.kid[near][o] # near
    BY <2>2, <2>3, <2>4, KidFacts
  <2> QED
    BY <2>1, <2>3, <2>5
<1>3. t.kid[p][d] # s
  BY <1>1
<1> HIDE DEF o, u
<1>4. t.kid[s][Other(o)] = near /\ t.kid[s][Other(o)] # NULL
  BY <1>1
<1>5. Members(u) = Members(t) /\ Shape(u, TurnedBounds(b, t.kid[s][Other(o)], s, o))
  BY <1>1, <1>4, SwapShape DEF u
<1>6. /\ SwappedHeights(h, s, t.kid[s][Other(o)]) \in Heights
      /\ Even(u, SwappedHeights(h, s, t.kid[s][Other(o)]), p, d)
  <2>1. t.red[t.kid[s][Other(o)]] /\ p # t.kid[s][Other(o)] /\ (p = s => d = o)
    BY <1>1, <1>2, <1>4
  <2> QED
    BY <1>1, <1>4, <2>1, SwapColours DEF u
<1>7. Apart(u, NULL, NULL)
  <2>1. ~IsRed(t, t.kid[near][o])
    BY <1>1, <1>2 DEF Apart, IsRed
  <2>2. ~IsRed(t, t.kid[t.kid[s][Other(o)]][o]) /\ ~IsRed(t, t.kid[s][o])
    BY <1>4, <2>1 DEF o
  <2> QED
    BY <1>1, <1>4, <2>2, SwapApart DEF u
<1>8. u.kid[p][d] = t.kid[p][d]
  <2>1. \A k \in Members(t) : \A e \in Sides :
          k # s /\ k # t.kid[s][Other(o)] /\ t.kid[k][e] # s => u.kid[k][e] = t.kid[k][e]
    <3>1. o \in Sides
      BY <1>1
    <3> QED
      BY <1>4, <3>1, SwapKids DEF u
  <2> QED
    BY <1>1, <1>2, <1>3, <1>4, <2>1
<1> QED
  BY <1>5, <1>6, <1>7, <1>8 DEF u, o

(***************************************************************************)
(* Two black nephews: the sibling turns red, and their parent, one black   *)
(* node short now, lacks it in its turn.                                   *)
(***************************************************************************)
Reddened(t, u, x) == /\ Recoloured(t, u) /\ u.red[x]
                     /\ \A k \in Keys : k # x => u.red[k] = t.red[k]

(* The lack moves up by one level, or is gone with the root.               *)
LEMMA BlackNephewsColours ==
  ASSUME NEW t, NEW b, Shape(t, b), NEW p \in Members(t), NEW d \in Sides,
         NEW h \in Heights, Even(t, h, p, d), Apart(t, NULL, NULL),
         NEW s \in Members(t), s = t.kid[p][Other(d)], ~t.red[s],
         ~IsRed(t, t.kid[p][d]), \A e \in Sides : ~IsRed(t, t.kid[s][e]),
         NEW q, NEW c,
         \/ p = t.root /\ q = NULL
         \/ q \in Members(t) /\ c \in Sides /\ t.kid[q][c] = p,
         NEW u, Reddened(t, u, s)
  PROVE  Apart(u, p, p) /\ \E f \in Heights : Even(u, f, q, c)
<1> DEFINE x == t.kid[p][d]
           f == [k \in Keys |-> IF k \in {p, s} THEN h[k] - 1 ELSE h[k]]
<1>1. /\ t \in Trees /\ NULL \notin Keys /\ Members(t) \subseteq Keys /\ p \in Keys /\ s \in Keys
      /\ u.kid = t.kid /\ u.root = t.root /\ Members(u) = Members(t)
      /\ Other(d) \in Sides /\ Other(d) # d /\ \A e \in Sides : e = d \/ e = Other(d)
  BY ShapeFacts, TreeTypes, RecolourShape, SideFacts DEF Reddened, Recoloured
<1>2. /\ s # p /\ s # NULL /\ p # NULL /\ t.parent[s] = p /\ s # t.root /\ x # s
  BY <1>1, ShapeFacts
<1>3. p # q
  BY <1>1, ShapeFacts
<1>4. Apart(u, p, p)
  <2>1. ~IsRed(u, u.root)
    <3>1. ~IsRed(t, t.root)
      BY DEF Apart, IsRed
    <3>2. t.root \in Keys \/ t.root = NULL
      BY <1>1, TreeTypes DEF MaybeKeys
    <3> QED
      BY <1>1, <1>2, <3>1, <3>2 DEF IsRed, Reddened
  <2>2. ASSUME NEW k \in Members(t), NEW e \in Sides, u.red[k], IsRed(u, u.kid[k][e]), k # p
        PROVE  FALSE
    <3> DEFINE y == t.kid[k][e]
    <3>1. k \in Keys /\ y # NULL /\ y \in Keys /\ t.parent[y] = k /\ u.red[y] /\ u.kid[k][e] = y
      <4>1. y # NULL
        BY <1>1, <2>2 DEF IsRed
      <4>2. t.parent[y] = k /\ y \in Members(t)
        BY <4>1, ShapeFacts
      <4> QED
        BY <1>1, <2>2, <4>1, <4>2 DEF IsRed
    <3>2. y # s
      BY <1>2, <2>2, <3>1
    <3>3. t.red[y]
      BY <3>1, <3>2 DEF Reddened
    <3>4. CASE k = s
      BY <3>1, <3>3, <3>4 DEF IsRed
    <3>5. CASE k # s
      BY <2>2, <3>1, <3>3, <3>5, <1>1 DEF Reddened, Apart, IsRed
    <3> QED
      BY <3>4, <3>5
  <2> QED
    BY <1>1, <2>1, <2>2 DEF Apart
<1>5. \A k \in Keys : h[k] \in Nat
  BY HeightTypes
<1>6. /\ Lack(p, d, p, d) = 1 /\ \A k : \A e \in Sides : k # p \/ e # d => Lack(p, d, k, e) = 0
  BY DEF Lack
<1>7. h[s] \in Nat /\ h[p] \in Nat /\ h[s] >= 1 /\ h[p] >= 1
  <2> DEFINE hx == HeightOf(h, x)
             hs == HeightOf(h, s)
             W == Weight(t, p)
  <2>1. hx \in Nat /\ W \in {0, 1} /\ h[p] = hx + W + Lack(p, d, p, d)
    BY <1>1, EvenFacts
  <2>2. hs \in Nat /\ h[p] = hs + W + Lack(p, d, p, Other(d))
    BY <1>1, EvenFacts
  <2>3. hs = h[s]
    BY <1>1, <1>2 DEF HeightOf
  <2> HIDE DEF hx, hs, W
  <2> QED
    BY <1>1, <1>6, <2>1, <2>2, <2>3
<1>8. f \in Heights
  <2>1. h[s] - 1 \in Nat /\ h[p] - 1 \in Nat
    BY <1>7
  <2> QED
    BY <1>1, <1>5, <2>1 DEF Heights
<1>9. f[p] = h[p] - 1 /\ f[s] = h[s] - 1 /\ \A k \in Keys : k # p /\ k # s => f[k] = h[k]
  BY <1>1
<1>10. Weight(t, s) = 1 /\ Weight(u, s) = 0 /\ \A k \in Keys : k # s => Weight(u, k) = Weight(t, k)
  BY DEF Weight, Reddened
<1> HIDE DEF f, x
<1>11. ASSUME NEW k \in Members(t), NEW e \in Sides
       PROVE  f[k] = HeightOf(f, u.kid[k][e]) + Weight(u, k) + Lack(q, c, k, e)
  <2> DEFINE y == t.kid[k][e]
             hy == HeightOf(h, y)
  <2>1. /\ h[k] \in Nat /\ hy \in Nat /\ h[k] = hy + Weight(t, k) + Lack(p, d, k, e)
        /\ Weight(t, k) \in {0, 1} /\ k \in Keys /\ y \in MaybeKeys
    BY <1>1, EvenFacts
  <2>2. u.kid[k][e] = y /\ (y # NULL => t.parent[y] = k)
    BY <1>1, ShapeFacts
  <2>3. CASE k = p /\ e = d
    <3>1. y # s /\ y # p /\ Lack(q, c, k, e) = 0
      BY <1>1, <1>2, <1>3, <2>2, <2>3, ShapeFacts DEF Lack, x
    <3>2. HeightOf(f, y) = hy
      BY <1>9, <2>1, <3>1 DEF HeightOf, MaybeKeys
    <3> HIDE DEF hy, y
    <3>3. f[k] = h[k] - 1 /\ Weight(u, k) = Weight(t, k) /\ Lack(p, d, k, e) = 1
      BY <1>1, <1>2, <1>6, <1>9, <1>10, <2>3
    <3> QED
      BY <2>1, <2>2, <3>1, <3>2, <3>3
  <2>4. CASE k = p /\ e = Other(d)
    <3>1. y = s /\ Lack(q, c, k, e) = 0
      BY <1>3, <2>4 DEF Lack
    <3>2. HeightOf(f, y) = hy - 1
      BY <1>1, <1>2, <1>9, <3>1 DEF HeightOf
    <3> HIDE DEF hy, y
    <3>3. f[k] = h[k] - 1 /\ Weight(u, k) = Weight(t, k) /\ Lack(p, d, k, e) = 0
      BY <1>1, <1>2, <1>6, <1>9, <1>10, <2>4
    <3> QED
      BY <1>7, <2>1, <2>2, <2>4, <3>1, <3>2, <3>3
  <2>5. CASE k = s
    <3>1. y # s /\ y # p /\ k # q
      <4>1. y # s
        BY <2>2, <2>5, <1>2
      <4>2. t.kid[t.kid[p][Other(d)]][e] # p
        BY <1>1, <1>2, KidHoldsOthers
      <4>3. k = q => y # p \/ c # e
        BY <2>5, <4>2
      <4>4. k # q
        BY <1>1, <1>2, <2>5, KidHoldsOthers
      <4> QED
        BY <2>5, <4>1, <4>2, <4>4
    <3>2. HeightOf(f, y) = hy
      BY <1>9, <2>1, <3>1 DEF HeightOf, MaybeKeys
    <3>3. Lack(q, c, k, e) = 0
      BY <3>1 DEF Lack
    <3> HIDE DEF hy, y
    <3>4. f[k] = h[k] - 1 /\ Weight(u, k) = 0 /\ Weight(t, k) = 1 /\ Lack(p, d, k, e) = 0
      BY <1>2, <1>6, <1>9, <1>10, <2>5
    <3> QED
      BY <2>1, <2>2, <3>2, <3>3, <3>4
  <2>6. CASE k # p /\ k # s
    <3>0. y # s /\ k # NULL
      BY <1>1, <1>2, <2>1, <2>2, <2>6
    <3>1. f[k] = h[k] /\ Weight(u, k) = Weight(t, k) /\ Lack(p, d, k, e) = 0
      BY <1>6, <1>9, <1>10, <2>1, <2>6
    <3>2. CASE y = p
      <4>1. q \in Members(t) /\ c \in Sides /\ t.kid[q][c] = p
        BY <1>1, <1>2, <2>2, <3>2, ShapeFacts
      <4>2. t.parent[p] = q /\ t.kid[q][c] # t.kid[q][Other(c)]
        BY <1>2, <4>1, ShapeFacts
      <4>3. k = q /\ e = c
        BY <1>2, <2>2, <3>2, <4>1, <4>2, SideFacts
      <4>4. Lack(q, c, k, e) = 1 /\ HeightOf(f, y) = hy - 1
        BY <1>2, <1>9, <3>2, <4>3 DEF Lack, HeightOf
      <4> HIDE DEF hy, y
      <4> QED
        BY <2>1, <2>2, <3>1, <4>4
    <3>3. CASE y # p
      <4>1. Lack(q, c, k, e) = 0
        BY <3>0, <3>3 DEF Lack
      <4>2. HeightOf(f, y) = hy
        BY <1>9, <2>1, <3>0, <3>3 DEF HeightOf, MaybeKeys
      <4> HIDE DEF hy, y
      <4> QED
        BY <2>1, <2>2, <3>1, <4>1, <4>2
    <3> QED
      BY <3>2, <3>3
  <2> QED
    BY <1>1, <2>3, <2>4, <2>5, <2>6
<1>12. Even(u, f, q, c)
  BY <1>1, <1>11 DEF Even
<1> QED
  BY <1>4, <1>8, <1>12

(***************************************************************************)
(* The farther nephew is red: the sibling takes the parent's place and     *)
(* colour, and the parent and the nephew are black below it.               *)
(***************************************************************************)
Handed(t, v, p, s, far) ==
  /\ Recoloured(t, v) /\ (v.red[s] <=> t.red[p]) /\ ~v.red[p] /\ ~v.red[far]
  /\ \A k \in Keys : k \notin {s, p, far} => v.red[k] = t.red[k]

FarNephew(t, p, d, s, far) == s = t.kid[p][Other(d)] /\ far = t.kid[s][Other(d)]

(* After it nothing lacks.                                                 *)
LEMMA FarNephewColours ==
  ASSUME NEW t, NEW b, Shape(t, b), NEW p \in Members(t), NEW d \in Sides,
         NEW h \in Heights, Even(t, h, p, d), Apart(t, NULL, NULL),
         NEW s \in Members(t), NEW far, FarNephew(t, p, d, s, far), ~t.red[s], IsRed(t, far),
         NEW v, Handed(t, v, p, s, far), NEW u, Rotated(v, u, p, d)
  PROVE  Apart(u, NULL, NULL) /\ \E f \in Heights : Even(u, f, NULL, Left)
<1> DEFINE o == Other(d)
           x == t.kid[p][d]
           inner == t.kid[s][d]
           f == [k \in Keys |-> IF k = p THEN h[s] ELSE IF k = s THEN h[p]
                                ELSE IF k = far THEN h[far] + 1 ELSE h[k]]
<1>1. /\ t \in Trees /\ NULL \notin Keys /\ Members(t) \subseteq Keys /\ p \in Keys /\ s \in Keys
      /\ o \in Sides /\ s # NULL /\ p # NULL /\ far # NULL /\ t.red[far]
  <2>1. far # NULL /\ t.red[far]
    BY DEF IsRed
  <2> QED
    BY <2>1, ShapeFacts, TreeTypes, SideFacts
<1>2. /\ t.parent[far] = s /\ far \in Members(t) /\ far \in Keys /\ far # s
      /\ t.parent[s] = p /\ s # t.root /\ far # t.root /\ far # inner
  <2>1. far = t.kid[s][o] /\ s = t.kid[p][o] /\ Other(o) = d
    BY SideFacts DEF FarNephew
  <2> HIDE DEF o
  <2>2. t.parent[s] = p /\ s # t.root
    <3>1. o \in Sides /\ s # NULL
      BY <1>1
    <3> QED
      BY <2>1, <3>1, KidFacts
  <2>3. t.parent[far] = s /\ far \in Members(t) /\ far # s /\ far # t.root /\ far # t.kid[s][Other(o)]
    <3>1. o \in Sides /\ t.kid[s][o] # NULL
      BY <1>1, <2>1
    <3>2. LET y == t.kid[s][o]
          IN t.parent[y] = s /\ y \in Members(t) /\ y # s /\ y # t.root /\ y # t.kid[s][Other(o)]
      BY <3>1, ShapeFacts
    <3> QED
      BY <2>1, <3>2
  <2> QED
    BY <1>1, <2>1, <2>2, <2>3
<1>3. /\ Recoloured(t, v) /\ u.red = v.red /\ t.kid[p][Other(d)] # NULL
  BY <1>1 DEF Handed, Rotated, FarNephew
<1>4. /\ s # p /\ Members(u) = Members(t)
      /\ o # d /\ \A e \in Sides : e = d \/ e = o
      /\ u.kid[p][o] = inner /\ u.kid[p][d] = x
      /\ u.kid[s][d] = p /\ u.kid[s][o] = far
      /\ inner \notin {p, s} /\ x \notin {p, s} /\ far \notin {p, s}
      /\ \A k \in Members(t) : \A e \in Sides : k # p /\ k # s =>
           /\ t.kid[k][e] = p => u.kid[k][e] = s
           /\ t.kid[k][e] # p => u.kid[k][e] = t.kid[k][e] /\ t.kid[k][e] # s
      /\ u.root = IF p = t.root THEN s ELSE t.root
  <2>1. s = t.kid[p][o] /\ far = t.kid[s][o] /\ o = Other(d)
    BY DEF FarNephew
  <2> HIDE DEF f, o
  <2>2. Recoloured(t, v) /\ t.kid[p][Other(d)] # NULL
    BY <1>3
  <2> HIDE DEF x, inner
  <2>3. LET over == t.kid[p][Other(d)]
         IN /\ over \in Keys /\ over # p /\ Members(u) = Members(t)
            /\ Other(d) # d /\ \A e \in Sides : e = d \/ e = Other(d)
            /\ u.kid[p][Other(d)] = t.kid[over][d] /\ u.kid[p][d] = t.kid[p][d]
            /\ u.kid[over][d] = p /\ u.kid[over][Other(d)] = t.kid[over][Other(d)]
            /\ t.kid[over][d] \notin {p, over} /\ t.kid[p][d] \notin {p, over}
            /\ t.kid[over][Other(d)] \notin {p, over}
            /\ \A k \in Members(t) : \A e \in Sides : k # p /\ k # over =>
                 /\ t.kid[k][e] = p => u.kid[k][e] = over
                 /\ t.kid[k][e] # p => u.kid[k][e] = t.kid[k][e] /\ t.kid[k][e] # over
            /\ u.root = IF p = t.root THEN over ELSE t.root
    BY <2>2, RotatedKids
  <2> QED
    BY <2>1, <2>3 DEF x, inner
<1>5. x # far /\ inner # far
  <2>1. x # NULL => t.parent[x] = p
    BY ShapeFacts
  <2> QED
    BY <1>1, <1>2, <1>4, <2>1
<1>6. x \in MaybeKeys /\ inner \in MaybeKeys /\ \A k \in Keys : \A e \in Sides : t.kid[k][e] \in MaybeKeys
  BY <1>1, TreeTypes
<1>7. /\ (u.red[s] <=> t.red[p]) /\ ~u.red[p] /\ ~u.red[far]
      /\ \A k \in Keys : k \notin {s, p, far} => u.red[k] = t.red[k]
  BY <1>3 DEF Handed
<1>8. /\ Weight(t, s) = 1 /\ Weight(t, far) = 0 /\ Weight(u, s) = Weight(t, p)
      /\ Weight(u, p) = 1 /\ Weight(u, far) = 1
      /\ \A k \in Keys : k \notin {s, p, far} => Weight(u, k) = Weight(t, k)
  BY <1>1, <1>7 DEF Weight
<1>9. ~IsRed(t, t.root) /\ \A k \in Members(t) : \A e \in Sides : t.red[k] => ~IsRed(t, t.kid[k][e])
  <2>1. \A k \in Members(t) : k # NULL
    BY <1>1
  <2> QED
    BY <2>1 DEF Apart, IsRed
<1>10. far = t.kid[s][o] /\ s = t.kid[p][o]
  BY DEF FarNephew
<1> HIDE DEF o, x, inner
<1>11. ~IsRed(u, u.root)
  <2>1. CASE p = t.root
    BY <1>1, <1>4, <1>7, <1>9, <2>1 DEF IsRed
  <2>2. CASE p # t.root
    <3>1. t.root \in Keys \/ t.root = NULL
      BY <1>1, TreeTypes DEF MaybeKeys
    <3> QED
      BY <1>1, <1>2, <1>4, <1>7, <1>9, <2>2, <3>1 DEF IsRed
  <2> QED
    BY <2>1, <2>2
<1>12. ASSUME NEW k \in Members(t), NEW e \in Sides, u.red[k], IsRed(u, u.kid[k][e])
       PROVE  FALSE
  <2>1. k # p /\ k # far /\ k \in Keys
    BY <1>1, <1>7, <1>12
  <2>2. CASE k = s
    <3>1. u.kid[s][e] = p \/ u.kid[s][e] = far
      BY <1>4
    <3>2. u.red[u.kid[s][e]]
      BY <1>12, <2>2 DEF IsRed
    <3> QED
      BY <1>7, <3>1, <3>2
  <2>3. CASE k # s
    <3>1. t.red[k]
      BY <1>7, <1>12, <2>1, <2>3
    <3>2. CASE t.kid[k][e] = p
      <4>1. u.kid[k][e] = s /\ u.red[s]
        BY <1>4, <1>12, <2>1, <2>3, <3>2 DEF IsRed
      <4> QED
        BY <1>1, <1>7, <1>9, <3>1, <3>2, <4>1 DEF IsRed
    <3>3. CASE t.kid[k][e] # p
      <4> DEFINE y == t.kid[k][e]
      <4>1. u.kid[k][e] = y /\ y # s /\ y # p /\ y # NULL /\ u.red[y] /\ y \in Keys
        BY <1>4, <1>6, <1>12, <2>1, <2>3, <3>3 DEF IsRed, MaybeKeys
      <4>2. t.red[y]
        BY <1>7, <4>1
      <4> QED
        BY <1>9, <3>1, <4>1, <4>2 DEF IsRed
    <3> QED
      BY <3>2, <3>3
  <2> QED
    BY <2>2, <2>3
<1>13. Apart(u, NULL, NULL)
  BY <1>4, <1>11, <1>12 DEF Apart
<1>14. \A k : \A e \in Sides : k # p \/ e # d => Lack(p, d, k, e) = 0
  BY DEF Lack
<1>15. /\ Lack(p, d, p, d) = 1 /\ Lack(p, d, p, o) = 0
       /\ \A k \in Keys : \A e \in Sides : Lack(NULL, Left, k, e) = 0
  BY <1>1, <1>4 DEF Lack
<1> DEFINE hx == HeightOf(h, x)
           hi == HeightOf(h, inner)
<1>16. /\ hx \in Nat /\ hi \in Nat /\ Weight(t, p) \in {0, 1} /\ h[p] \in Nat /\ h[s] \in Nat /\ h[far] \in Nat
       /\ h[s] = hx + 1 /\ hi = hx /\ h[far] = hx /\ h[p] = hx + Weight(t, p) + 1
  <2>1. hx \in Nat /\ h[p] \in Nat /\ Weight(t, p) \in {0, 1} /\ h[p] = hx + Weight(t, p) + Lack(p, d, p, d)
    BY <1>1, EvenFacts DEF x
  <2>2. h[p] = HeightOf(h, s) + Weight(t, p) + Lack(p, d, p, o)
    BY <1>1, <1>10, EvenFacts
  <2>3. hi \in Nat /\ h[s] \in Nat /\ h[s] = hi + Weight(t, s) + Lack(p, d, s, d)
    BY <1>1, EvenFacts DEF inner
  <2>4. h[s] = HeightOf(h, far) + Weight(t, s) + Lack(p, d, s, o)
    BY <1>1, <1>10, EvenFacts
  <2>5. HeightOf(h, s) = h[s] /\ HeightOf(h, far) = h[far] /\ h[far] \in Nat
    BY <1>1, <1>2, HeightTypes DEF HeightOf
  <2>6. Lack(p, d, s, o) = 0 /\ Lack(p, d, s, d) = 0
    BY <1>1, <1>4, <1>14
  <2>7. Weight(t, s) = 1 /\ Lack(p, d, p, d) = 1 /\ Lack(p, d, p, o) = 0
    BY <1>8, <1>15
  <2>8. h[s] = hi + 1 /\ h[s] = h[far] + 1
    BY <2>3, <2>4, <2>5, <2>6, <2>7
  <2>9. h[p] = hx + Weight(t, p) + 1 /\ h[p] = h[s] + Weight(t, p)
    BY <2>1, <2>2, <2>3, <2>5, <2>7
  <2> HIDE DEF hx, hi
  <2>10. h[s] = hx + 1
    BY <2>1, <2>3, <2>9
  <2> QED
    BY <2>1, <2>3, <2>5, <2>8, <2>9, <2>10
<1>17. f \in Heights
  <2>1. \A k \in Keys : h[k] \in Nat
    BY HeightTypes
  <2>2. h[far] + 1 \in Nat
    BY <1>16
  <2> QED
    BY <1>16, <2>1, <2>2 DEF Heights
<1>18. /\ f[p] = h[s] /\ f[s] = h[p] /\ f[far] = h[far] + 1
       /\ \A k \in Keys : k \notin {p, s, far} => f[k] = h[k]
  BY <1>1, <1>2, <1>4
<1> HIDE DEF f
<1>19. ASSUME NEW k \in Members(t), NEW e \in Sides
       PROVE  f[k] = HeightOf(f, u.kid[k][e]) + Weight(u, k) + Lack(NULL, Left, k, e)
  <2>1. k \in Keys /\ Lack(NULL, Left, k, e) = 0
    BY <1>1, <1>15
  <2>2. CASE k = p
    <3>1. HeightOf(f, x) = hx /\ HeightOf(f, inner) = hi
      BY <1>4, <1>5, <1>6, <1>18 DEF HeightOf, MaybeKeys
    <3>2. u.kid[k][e] = x \/ u.kid[k][e] = inner
      BY <1>4, <2>2
    <3> HIDE DEF hx, hi
    <3>3. HeightOf(f, u.kid[k][e]) = hx
      BY <1>16, <3>1, <3>2
    <3>4. f[k] = hx + 1 /\ Weight(u, k) = 1 /\ hx \in Nat
      BY <1>8, <1>16, <1>18, <2>2
    <3> QED
      BY <2>1, <3>3, <3>4
  <2>3. CASE k = s
    <3>1. u.kid[k][e] = p \/ u.kid[k][e] = far
      BY <1>4, <2>3
    <3>2. HeightOf(f, p) = h[s] /\ HeightOf(f, far) = h[far] + 1
      BY <1>1, <1>18 DEF HeightOf
    <3> HIDE DEF hx, hi
    <3>3. HeightOf(f, u.kid[k][e]) = hx + 1
      BY <1>16, <3>1, <3>2
    <3> QED
      BY <1>8, <1>16, <1>18, <2>1, <2>3, <3>3
  <2>4. CASE k # p /\ k # s
    <3> DEFINE y == t.kid[k][e]
               hy == HeightOf(h, y)
    <3>1. /\ h[k] \in Nat /\ hy \in Nat /\ h[k] = hy + Weight(t, k) + Lack(p, d, k, e) /\ y \in MaybeKeys
      BY <1>1, EvenFacts
    <3>2. Lack(p, d, k, e) = 0
      BY <1>14, <2>4
    <3>3. HeightOf(f, u.kid[k][e]) = hy
      <4>1. CASE y = p
        <5>1. HeightOf(f, s) = h[p] /\ hy = h[p] /\ u.kid[k][e] = s
          BY <1>1, <1>4, <1>18, <2>4, <4>1 DEF HeightOf
        <5> QED
          BY <5>1
      <4>2. CASE y # p
        <5>1. u.kid[k][e] = y /\ y # s
          BY <1>4, <2>4, <4>2
        <5>2. y # far
          <6>1. y # NULL => t.parent[y] = k
            BY ShapeFacts
          <6> QED
            BY <1>1, <1>2, <2>4, <6>1
        <5> QED
          BY <1>18, <3>1, <4>2, <5>1, <5>2 DEF HeightOf, MaybeKeys
      <4> QED
        BY <4>1, <4>2
    <3> HIDE DEF y, hy
    <3>4. CASE k = far
      <4>1. Weight(t, k) = 0 /\ Weight(u, k) = 1 /\ f[k] = h[k] + 1
        BY <1>8, <1>18, <3>4
      <4> QED
        BY <2>1, <3>1, <3>2, <3>3, <4>1
    <3>5. CASE k # far
      BY <1>8, <1>18, <2>1, <2>4, <3>1, <3>2, <3>3, <3>5
    <3> QED
      BY <3>4, <3>5
  <2> QED
    BY <2>2, <2>3, <2>4
<1>20. Even(u, f, NULL, Left)
  BY <1>4, <1>19 DEF Even
<1> QED
  BY <1>13, <1>17, <1>20

(* The end of a removal: a red node or the root turns black.               *)
LEMMA EraseEndColours ==
  ASSUME NEW t, NEW b, Shape(t, b), NEW x \in MaybeKeys, Apart(t, x, x),
         NEW p, NEW d, NEW h \in Heights, Even(t, h, p, d),
         \/ x = t.root /\ p = NULL
         \/ IsRed(t, x) /\ p \in Members(t) /\ d \in Sides /\ t.kid[p][d] = x
  PROVE  LET u == SetRed(t, x, FALSE)
         IN /\ Recoloured(t, u) /\ Apart(u, NULL, NULL)
            /\ \E f \in Heights : Even(u, f, NULL, Left)
<1> DEFINE u == SetRed(t, x, FALSE)
<1>1. t \in Trees /\ NULL \notin Keys /\ Members(t) \subseteq Keys
  BY ShapeFacts, TreeTypes
<1>2. CASE x = NULL
  <2>1. u = t /\ Recoloured(t, t)
    BY <1>1, <1>2 DEF SetRed, Recoloured
  <2>2. p = NULL
    BY <1>2 DEF IsRed
  <2>3. \A n \in Members(t) : \A e \in Sides : Lack(p, d, n, e) = 0 /\ Lack(NULL, Left, n, e) = 0
    BY <1>1, <2>2 DEF Lack
  <2>4. Even(t, h, NULL, Left)
    BY <2>3 DEF Even
  <2> QED
    BY <1>2, <2>1, <2>4
<1>3. CASE x # NULL
  <2>1. x \in Keys /\ x \in Members(t)
    BY <1>1, <1>3, ShapeFacts DEF MaybeKeys
  <2> HIDE DEF u
  <2>2. Blackened(t, u, x)
    BY <1>1, <2>1, SetRedIs DEF u
  <2>3. Members(u) = Members(t) /\ u.kid = t.kid /\ u.root = t.root
    <3>1. Recoloured(t, u)
      BY <2>2 DEF Blackened
    <3> QED
      BY <3>1, RecolourShape DEF Recoloured
  <2>4. ~IsRed(u, u.root)
    <3>1. CASE t.root = x
      BY <2>2, <2>3, <3>1 DEF Blackened, IsRed
    <3>2. CASE t.root # x
      <4>1. ~IsRed(t, t.root)
        BY <3>2 DEF Apart
      <4>2. t.root \in Keys \/ t.root = NULL
        BY <1>1, TreeTypes DEF MaybeKeys
      <4> QED
        BY <2>2, <2>3, <3>2, <4>1, <4>2 DEF Blackened, IsRed
    <3> QED
      BY <3>1, <3>2
  <2>5. ASSUME NEW k \in Members(t), NEW e \in Sides, u.red[k], IsRed(u, u.kid[k][e])
        PROVE  FALSE
    <3> DEFINE y == t.kid[k][e]
    <3>1. u.kid[k][e] = y /\ y # NULL /\ u.red[y] /\ k \in Keys
      BY <1>1, <2>3, <2>5 DEF IsRed
    <3>2. y \in Keys
      BY <3>1, ShapeFacts
    <3>3. k # x /\ y # x /\ t.red[k] /\ t.red[y]
      BY <2>2, <2>5, <3>1, <3>2 DEF Blackened
    <3> QED
      BY <3>1, <3>3 DEF Apart, IsRed
  <2>6. Apart(u, NULL, NULL)
    BY <2>3, <2>4, <2>5 DEF Apart
  <2>7. \E f \in Heights : Even(u, f, NULL, Left)
    <3>1. CASE t.red[x]
      <4>1. \/ x = t.root /\ p = NULL
            \/ p \in Members(t) /\ d \in Sides /\ t.kid[p][d] = x
        OBVIOUS
      <4> QED
        BY <2>1, <2>2, <3>1, <4>1, BlackenEven
    <3>2. CASE ~t.red[x]
      <4>1. p = NULL
        BY <3>2 DEF IsRed
      <4>2. \A k \in Members(t) : k \in Keys /\ k # NULL /\ Weight(u, k) = Weight(t, k)
        BY <1>1, <2>2, <3>2 DEF Weight, Blackened
      <4>3. \A n \in Members(t) : \A e \in Sides : Lack(p, d, n, e) = Lack(NULL, Left, n, e)
        BY <4>1, <4>2 DEF Lack
      <4>4. Even(u, h, NULL, Left)
        BY <2>3, <4>2, <4>3 DEF Even
      <4> QED
        BY <4>4
    <3> QED
      BY <3>1, <3>2
  <2> QED
    BY <2>2, <2>6, <2>7 DEF Blackened, u
<1> QED
  BY <1>2, <1>3

-----------------------------------------------------------------------------
(* A new leaf, node by node.                                               *)
Leafed(t, u, x, p) ==
  /\ u \in Trees
  /\ u.root = IF p = NULL THEN x ELSE t.root
  /\ \A k \in Keys : \A e \in Sides :
       u.kid[k][e] = IF k = x THEN NULL
                     ELSE IF p # NULL /\ k = p /\ e = Towards(x, p) THEN x ELSE t.kid[k][e]
  /\ \A k \in Keys : u.parent[k] = IF k = x THEN p ELSE t.parent[k]
  /\ u.red[x] /\ \A k \in Keys : k # x => u.red[k] = t.red[k]

(* rb_link_node() has that effect.                                         *)
LEMMA LinkedIs ==
  ASSUME NEW t \in Trees, NEW x \in Keys, NEW p \in MaybeKeys, p # x
  PROVE  Leafed(t, Linked(t, x, p), x, p)
<1> DEFINE hung == IF p = NULL THEN [t EXCEPT !.root = x]
                   ELSE [t EXCEPT !.kid[p][IF x < p THEN Left ELSE Right] = x]
           u == [hung EXCEPT !.kid[x] = NoKids, !.parent[x] = p, !.red[x] = TRUE]
<1>1. Linked(t, x, p) = u
  BY DEF Linked
<1>2. /\ hung \in Trees /\ hung.parent = t.parent /\ hung.red = t.red
      /\ hung.root = IF p = NULL THEN x ELSE t.root
      /\ \A k \in Keys : \A e \in Sides :
           hung.kid[k][e] = IF p # NULL /\ k = p /\ e = Towards(x, p) THEN x ELSE t.kid[k][e]
  <2>1. CASE p = NULL
    <3>1. hung = [t EXCEPT !.root = x]
      BY <2>1
    <3> QED
      BY <2>1, <3>1 DEF Trees
  <2>2. CASE p # NULL
    <3> DEFINE s == Towards(x, p)
    <3>1. p \in Keys /\ s \in Sides /\ x \in MaybeKeys
      BY <2>2, SideFacts DEF MaybeKeys, Towards
    <3>2. hung = [t EXCEPT !.kid[p][s] = x]
      BY <2>2 DEF Towards
    <3> HIDE DEF s, hung
    <3>3. LET w == [t EXCEPT !.kid[p][s] = x]
          IN /\ w \in Trees /\ w.root = t.root /\ w.parent = t.parent /\ w.red = t.red
             /\ \A k \in Keys : \A e \in Sides :
                  w.kid[k][e] = IF k = p /\ e = s THEN x ELSE t.kid[k][e]
      BY <3>1, SetKidIs
    <3> QED
      BY <2>2, <3>2, <3>3 DEF s
  <2> QED
    BY <2>1, <2>2
<1> HIDE DEF hung
<1>3. NoKids \in [Sides -> MaybeKeys] /\ \A e \in Sides : NoKids[e] = NULL
  BY DEF NoKids, MaybeKeys
<1>4. /\ u \in Trees /\ u.root = hung.root
      /\ \A k \in Keys : u.kid[k] = IF k = x THEN NoKids ELSE hung.kid[k]
      /\ \A k \in Keys : u.parent[k] = IF k = x THEN p ELSE hung.parent[k]
      /\ \A k \in Keys : u.red[k] = IF k = x THEN TRUE ELSE hung.red[k]
  BY <1>2, <1>3 DEF Trees, MaybeKeys
<1> HIDE DEF u
<1>5. \A k \in Keys : \A e \in Sides :
       u.kid[k][e] = IF k = x THEN NULL
                     ELSE IF p # NULL /\ k = p /\ e = Towards(x, p) THEN x ELSE t.kid[k][e]
  BY <1>2, <1>3, <1>4
<1>6. u.red[x] /\ \A k \in Keys : k # x => u.red[k] = t.red[k]
  BY <1>2, <1>4
<1>7. /\ u.root = IF p = NULL THEN x ELSE t.root
      /\ \A k \in Keys : u.parent[k] = IF k = x THEN p ELSE t.parent[k]
  BY <1>2, <1>4
<1> QED
  BY <1>1, <1>4, <1>5, <1>6, <1>7 DEF Leafed

(* A free place whose interval has x in it.                                *)
Free(t, b, x, p) == \/ p = NULL /\ t.root = NULL
                    \/ p \in Members(t) /\ Within(x, b[p]) /\ t.kid[p][Towards(x, p)] = NULL

(***************************************************************************)
(* The new leaf has the half of its parent's interval it was put into, and *)
(* is red: no height changes but its own.                                  *)
(***************************************************************************)
LEMMA LinkKeeps ==
  ASSUME NEW t, NEW b, Shape(t, b), NEW x \in Keys, x \notin Members(t),
         NEW p \in MaybeKeys, Free(t, b, x, p), NEW h \in Heights, Even(t, h, NULL, Left),
         Apart(t, NULL, NULL), NEW u, Leafed(t, u, x, p)
  PROVE  /\ Members(u) = Members(t) \union {x} /\ \E c : Shape(u, c)
         /\ u.red[x] /\ Apart(u, x, NULL) /\ \E f \in Heights : Even(u, f, NULL, Left)
<1> DEFINE s == Towards(x, p)
           c == [k \in Keys |-> IF k # x THEN b[k]
                                ELSE [e \in Sides |-> IF p = NULL THEN NULL
                                                      ELSE IF e = s THEN b[p][s] ELSE p]]
           f == [k \in Keys |-> IF k = x THEN 0 ELSE h[k]]
<1>1. /\ t \in Trees /\ NULL \notin Keys /\ Members(t) \subseteq Keys /\ x # NULL
      /\ s \in Sides /\ Other(s) \in Sides /\ Other(s) # s /\ \A e \in Sides : e = s \/ e = Other(s)
      /\ Other(Other(s)) = s
  BY ShapeFacts, TreeTypes, SideFacts DEF Towards
<1>2. /\ p # NULL => /\ p \in Members(t) /\ p \in Keys /\ p # x /\ t.root # NULL
                     /\ Within(x, b[p]) /\ t.kid[p][s] = NULL
      /\ p = NULL => t.root = NULL /\ Members(t) = {}
  <2>1. CASE p = NULL
    BY <1>1, <2>1, RootThere DEF Free
  <2>2. CASE p # NULL
    BY <1>1, <2>2, RootThere DEF Free
  <2> QED
    BY <2>1, <2>2
<1>3. t.parent[x] = NULL /\ t.root # x /\ \A e \in Sides : t.kid[x][e] = NULL
  BY <1>1, ShapeFacts
<1>4. /\ u \in Trees
      /\ u.root = IF p = NULL THEN x ELSE t.root
      /\ \A k \in Keys : \A e \in Sides :
           u.kid[k][e] = IF k = x THEN NULL
                         ELSE IF p # NULL /\ k = p /\ e = s THEN x ELSE t.kid[k][e]
      /\ \A k \in Keys : u.parent[k] = IF k = x THEN p ELSE t.parent[k]
      /\ u.red[x] /\ \A k \in Keys : k # x => u.red[k] = t.red[k]
  BY DEF Leafed
<1> HIDE DEF s
<1>5. Members(u) = Members(t) \union {x}
  <2>1. ASSUME NEW k \in Keys
        PROVE  k \in Members(u) <=> k \in Members(t) \/ k = x
    <3>1. k \in Members(u) <=> k = u.root \/ u.parent[k] # NULL
      BY <1>4, TreeTypes
    <3>2. k \in Members(t) <=> k = t.root \/ t.parent[k] # NULL
      BY <1>1, TreeTypes
    <3> QED
      BY <1>1, <1>2, <1>4, <3>1, <3>2
  <2> QED
    BY <1>1, <1>4, <2>1, TreeTypes
<1>6. /\ \A k \in Keys : k # x => c[k] = b[k]
      /\ p = NULL => \A e \in Sides : c[x][e] = NULL
      /\ p # NULL => c[x][s] = b[p][s] /\ c[x][Other(s)] = p
  BY <1>1
<1>7. c \in Bounds
  <2>1. \A k \in Keys : b[k] \in [Sides -> MaybeKeys]
    BY ShapeFacts DEF Bounds
  <2>2. p # NULL => b[p][s] \in MaybeKeys
    BY <1>1, <1>2, <2>1
  <2> QED
    BY <2>1, <2>2 DEF Bounds, MaybeKeys
<1>8. f \in Heights /\ f[x] = 0 /\ \A k \in Keys : k # x => f[k] = h[k]
  BY HeightTypes DEF Heights
<1> HIDE DEF c, f
<1>9. RootFree(u, c)
  <2>1. CASE p = NULL
    BY <1>4, <1>6, <2>1 DEF RootFree
  <2>2. CASE p # NULL
    <3>1. t.root \in Keys /\ t.root # x /\ u.root = t.root
      BY <1>1, <1>2, <1>3, <1>4, <2>2, RootThere
    <3> QED
      BY <1>4, <1>6, <3>1, ShapeFacts DEF RootFree
  <2> QED
    BY <2>1, <2>2
<1>10. ASSUME NEW k \in Members(u), NEW e \in Sides, u.kid[k][e] # NULL
       PROVE  Hangs(u, c, k, e)
  <2>1. k # x /\ k \in Members(t) /\ k \in Keys
    BY <1>1, <1>4, <1>5, <1>10
  <2>2. CASE p # NULL /\ k = p /\ e = s
    BY <1>1, <1>2, <1>4, <1>6, <2>1, <2>2 DEF Hangs
  <2>3. CASE ~(p # NULL /\ k = p /\ e = s)
    <3> DEFINE y == t.kid[k][e]
    <3>1. u.kid[k][e] = y /\ y # NULL
      BY <1>4, <1>10, <2>1, <2>3
    <3>2. t.parent[y] = k /\ b[y][e] = b[k][e] /\ b[y][Other(e)] = k /\ y \in Members(t)
      BY <2>1, <3>1, ShapeFacts
    <3>3. y \in Keys /\ y # x
      BY <1>1, <3>2
    <3> QED
      BY <1>4, <1>6, <2>1, <3>1, <3>2, <3>3 DEF Hangs
  <2> QED
    BY <2>2, <2>3
<1>11. ASSUME NEW k \in Keys, u.parent[k] # NULL
       PROVE  u.parent[k] \in Members(u) /\ \E e \in Sides : u.kid[u.parent[k]][e] = k
  <2>1. CASE k = x
    BY <1>1, <1>2, <1>4, <1>5, <1>11, <2>1
  <2>2. CASE k # x
    <3> DEFINE q == t.parent[k]
    <3>1. u.parent[k] = q /\ q # NULL
      BY <1>4, <1>11, <2>2
    <3>2. q \in Members(t) /\ \E e \in Sides : t.kid[q][e] = k
      BY <3>1 DEF Shape, ParentsHold
    <3>3. PICK e \in Sides : t.kid[q][e] = k
      BY <3>2
    <3>4. q \in Keys /\ q # x /\ k # NULL
      BY <1>1, <3>2
    <3>5. u.kid[q][e] = k
      BY <1>2, <1>4, <3>3, <3>4
    <3> QED
      BY <1>5, <3>1, <3>2, <3>5
  <2> QED
    BY <2>1, <2>2
<1>12. ASSUME NEW k \in Members(u)
       PROVE  Within(k, c[k])
  <2>1. CASE k = x /\ p = NULL
    BY <1>6, <2>1 DEF Within
  <2>2. CASE k = x /\ p # NULL
    <3>1. b[p][s] # NULL => Beyond(Other(s), x, b[p][s])
      BY <1>1, <1>2, <2>2 DEF Within
    <3>2. Beyond(s, x, p)
      BY <1>2, <2>2, BeyondFacts DEF s
    <3>3. c[x][s] # NULL => Beyond(Other(s), x, c[x][s])
      BY <1>6, <2>2, <3>1
    <3>4. Beyond(Other(Other(s)), x, c[x][Other(s)])
      BY <1>1, <1>6, <2>2, <3>2
    <3> QED
      BY <1>1, <2>2, <3>3, <3>4 DEF Within
  <2>3. CASE k # x
    BY <1>1, <1>5, <1>6, <2>3 DEF Shape, Ordered
  <2> QED
    BY <2>1, <2>2, <2>3
<1>13. ASSUME NEW k \in Keys, k \notin Members(u), NEW e \in Sides
       PROVE  u.kid[k][e] = NULL
  BY <1>2, <1>4, <1>5, <1>13, ShapeFacts
<1>14. Shape(u, c)
  BY <1>4, <1>7, <1>9, <1>10, <1>11, <1>12, <1>13
     DEF Shape, KidsHang, ParentsHold, Ordered, OthersClear
<1>15. Apart(u, x, NULL)
  <2>1. IsRed(u, u.root) => u.root = x
    <3>1. CASE p = NULL
      BY <1>4, <3>1
    <3>2. CASE p # NULL
      <4>1. t.root \in Keys /\ t.root # x /\ u.root = t.root
        BY <1>1, <1>2, <1>3, <1>4, <3>2, RootThere
      <4> QED
        BY <1>4, <4>1 DEF Apart, IsRed
    <3> QED
      BY <3>1, <3>2
  <2>2. ASSUME NEW k \in Members(u), NEW e \in Sides, u.red[k], IsRed(u, u.kid[k][e])
        PROVE  u.kid[k][e] = x
    <3> DEFINE y == t.kid[k][e]
    <3>1. k # x /\ k \in Members(t) /\ k \in Keys /\ u.kid[k][e] # NULL
      BY <1>1, <1>4, <1>5, <2>2 DEF IsRed
    <3>2. SUFFICES ASSUME u.kid[k][e] # x
                   PROVE  FALSE
      OBVIOUS
    <3>3. u.kid[k][e] = y /\ y # NULL
      BY <1>4, <3>1, <3>2
    <3>4. y \in Members(t) /\ y \in Keys /\ y # x
      BY <1>1, <3>1, <3>2, <3>3, ShapeFacts
    <3>5. t.red[k] /\ t.red[y]
      BY <1>4, <2>2, <3>1, <3>3, <3>4 DEF IsRed
    <3> QED
      BY <1>1, <3>1, <3>3, <3>5 DEF Apart, IsRed
  <2> QED
    BY <2>1, <2>2 DEF Apart
<1>16. ASSUME NEW k \in Members(u), NEW e \in Sides
       PROVE  f[k] = HeightOf(f, u.kid[k][e]) + Weight(u, k) + Lack(NULL, Left, k, e)
  <2>1. k \in Keys /\ k # NULL /\ Lack(NULL, Left, k, e) = 0
    BY <1>1, <1>5 DEF Lack
  <2>2. CASE k = x
    BY <1>4, <1>8, <2>1, <2>2 DEF HeightOf, Weight
  <2>3. CASE k # x
    <3> DEFINE y == t.kid[k][e]
    <3>1. k \in Members(t) /\ h[k] = HeightOf(h, y) + Weight(t, k) + Lack(NULL, Left, k, e) /\ y \in MaybeKeys
      BY <1>1, <1>5, <2>3, EvenFacts
    <3>2. f[k] = h[k] /\ Weight(u, k) = Weight(t, k)
      BY <1>4, <1>8, <2>1, <2>3 DEF Weight
    <3>3. HeightOf(f, u.kid[k][e]) = HeightOf(h, y)
      <4>1. CASE p # NULL /\ k = p /\ e = s
        BY <1>1, <1>2, <1>4, <1>8, <2>3, <4>1 DEF HeightOf
      <4>2. CASE ~(p # NULL /\ k = p /\ e = s)
        <5>1. u.kid[k][e] = y /\ (y # NULL => y # x)
          BY <1>4, <2>1, <2>3, <3>1, <4>2, ShapeFacts
        <5> QED
          BY <1>8, <3>1, <5>1 DEF HeightOf, MaybeKeys
      <4> QED
        BY <4>1, <4>2
    <3> HIDE DEF y
    <3> QED
      BY <3>1, <3>2, <3>3
  <2> QED
    BY <2>2, <2>3
<1>17. Even(u, f, NULL, Left)
  BY <1>16 DEF Even
<1> QED
  BY <1>4, <1>5, <1>8, <1>14, <1>15, <1>17

-----------------------------------------------------------------------------
(* A node cut out of the tree, its only child in its place, node by node.  *)
Cut(t, u, n, child) ==
  /\ u \in Trees
  /\ u.root = IF n = t.root THEN child ELSE t.root
  /\ \A k \in Keys : \A e \in Sides :
       u.kid[k][e] = IF k = n THEN NULL ELSE IF t.kid[k][e] = n THEN child ELSE t.kid[k][e]
  /\ \A k \in Keys : u.parent[k] = IF k = n THEN NULL
                                   ELSE IF k = child THEN t.parent[n] ELSE t.parent[k]
  /\ ~u.red[n] /\ \A k \in Keys : k # n => u.red[k] = t.red[k]

(* The fields of a node that is out of the tree.                           *)
LEMMA ClearedIs ==
  ASSUME NEW t \in Trees, NEW n \in Keys
  PROVE  LET u == Cleared(t, n)
         IN /\ u \in Trees /\ u.root = t.root
            /\ \A k \in Keys : \A e \in Sides : u.kid[k][e] = IF k = n THEN NULL ELSE t.kid[k][e]
            /\ \A k \in Keys : u.parent[k] = IF k = n THEN NULL ELSE t.parent[k]
            /\ ~u.red[n] /\ \A k \in Keys : k # n => u.red[k] = t.red[k]
<1> DEFINE u == Cleared(t, n)
<1>1. NoKids \in [Sides -> Keys \union {NULL}] /\ \A e \in Sides : NoKids[e] = NULL
  BY DEF NoKids
<1> HIDE DEF NoKids
<1>2. /\ u \in Trees /\ u.root = t.root
      /\ \A k \in Keys : u.kid[k] = IF k = n THEN NoKids ELSE t.kid[k]
      /\ \A k \in Keys : u.parent[k] = IF k = n THEN NULL ELSE t.parent[k]
      /\ \A k \in Keys : u.red[k] = IF k = n THEN FALSE ELSE t.red[k]
  BY <1>1 DEF Cleared, Trees
<1> HIDE DEF u
<1>3. \A k \in Keys : \A e \in Sides : u.kid[k][e] = IF k = n THEN NULL ELSE t.kid[k][e]
  BY <1>1, <1>2
<1> QED
  BY <1>2, <1>3 DEF u

(* rb_erase() of a node with at most one child has that effect.            *)
LEMMA SplicedIs ==
  ASSUME NEW t, NEW b, Shape(t, b), NEW n \in Members(t),
         \E d \in Sides : t.kid[n][d] = NULL
  PROVE  /\ Cut(t, Spliced(t, n), n, OnlyKid(t, n))
         /\ \E d \in Sides : t.kid[n][d] = OnlyKid(t, n) /\ t.kid[n][Other(d)] = NULL
<1> DEFINE child == OnlyKid(t, n)
           p == t.parent[n]
           set == SetParent(t, child, p)
           hung == Replace(set, p, n, child)
           u == Cleared(hung, n)
<1>1. Spliced(t, n) = u
  BY DEF Spliced
<1>2. \E d \in Sides : t.kid[n][d] = child /\ t.kid[n][Other(d)] = NULL
  <2>1. CASE t.kid[n][Left] = NULL
    BY <2>1, SideFacts DEF OnlyKid
  <2>2. CASE t.kid[n][Left] # NULL
    BY <2>2, SideFacts DEF OnlyKid
  <2> QED
    BY <2>1, <2>2
<1> HIDE DEF child, p
<1>3. t \in Trees /\ n \in Keys /\ child \in MaybeKeys /\ p \in MaybeKeys /\ NULL \notin Keys
      /\ (p = NULL <=> n = t.root) /\ n # NULL
  BY <1>2, ShapeFacts, TreeTypes DEF p, MaybeKeys
<1>4. child # n
  BY <1>2, <1>3, ShapeFacts
<1>5. /\ set \in Trees /\ set.root = t.root /\ set.kid = t.kid /\ set.red = t.red
      /\ \A k \in Keys : set.parent[k] = IF k = child THEN p ELSE t.parent[k]
  BY <1>3, SetParentIs
<1> HIDE DEF set
<1>6. /\ hung \in Trees /\ hung.parent = set.parent /\ hung.red = set.red
      /\ hung.root = IF p = NULL THEN child ELSE set.root
      /\ \A k \in Keys : \A e \in Sides :
           hung.kid[k][e] = IF p # NULL /\ k = p /\ e = SideOf(set, p, n) THEN child ELSE set.kid[k][e]
  BY <1>3, <1>5, ReplaceIs
<1> HIDE DEF hung
<1>7. /\ u \in Trees /\ u.root = hung.root
      /\ \A k \in Keys : \A e \in Sides : u.kid[k][e] = IF k = n THEN NULL ELSE hung.kid[k][e]
      /\ \A k \in Keys : u.parent[k] = IF k = n THEN NULL ELSE hung.parent[k]
      /\ ~u.red[n] /\ \A k \in Keys : k # n => u.red[k] = hung.red[k]
  BY <1>3, <1>6, ClearedIs
<1> HIDE DEF u
<1>8. SideOf(set, p, n) = SideOf(t, p, n)
  BY <1>5 DEF SideOf
<1>9. \A k \in Keys : \A e \in Sides :
         t.kid[k][e] = n <=> p # NULL /\ k = p /\ e = SideOf(t, p, n)
  <2>1. ASSUME NEW k \in Keys, NEW e \in Sides, t.kid[k][e] = n
        PROVE  n # t.root /\ k \in Members(t)
    BY <1>3, <2>1, ShapeFacts
  <2>2. n # t.root => p \in Members(t)
    BY <1>3, ShapeFacts DEF p
  <2> QED
    BY <1>3, <2>1, <2>2, SideOfIs DEF p
<1>10. \A k \in Keys : \A e \in Sides :
       u.kid[k][e] = IF k = n THEN NULL ELSE IF t.kid[k][e] = n THEN child ELSE t.kid[k][e]
  BY <1>5, <1>6, <1>7, <1>8, <1>9
<1>11. \A k \in Keys : u.parent[k] = IF k = n THEN NULL ELSE IF k = child THEN p ELSE t.parent[k]
  BY <1>5, <1>6, <1>7
<1>12. u.root = IF n = t.root THEN child ELSE t.root
  BY <1>3, <1>5, <1>6, <1>7
<1>13. ~u.red[n] /\ \A k \in Keys : k # n => u.red[k] = t.red[k]
  BY <1>5, <1>6, <1>7
<1>14. Cut(t, u, n, child)
  BY <1>7, <1>10, <1>11, <1>12, <1>13 DEF Cut, p
<1> QED
  BY <1>1, <1>2, <1>14 DEF child

(***************************************************************************)
(* The child takes over the whole interval of the node that left, and a    *)
(* black node leaves its place short of one.                               *)
(***************************************************************************)
Widened(b, n) ==
  [k \in Keys |-> [f \in Sides |-> IF b[k][f] = n THEN b[n][f] ELSE b[k][f]]]

(* The members and the shape of the tree without the node.                 *)
LEMMA CutShape ==
  ASSUME NEW t, NEW b, Shape(t, b), NEW n \in Members(t), NEW child,
         \E d \in Sides : t.kid[n][d] = child /\ t.kid[n][Other(d)] = NULL,
         NEW u, Cut(t, u, n, child)
  PROVE  Members(u) = Members(t) \ {n} /\ Shape(u, Widened(b, n))
<1> DEFINE p == t.parent[n]
           c == Widened(b, n)
<1>0. PICK d \in Sides : t.kid[n][d] = child /\ t.kid[n][Other(d)] = NULL
  OBVIOUS
<1>1. /\ t \in Trees /\ n \in Keys /\ child \in MaybeKeys /\ p \in MaybeKeys /\ NULL \notin Keys
      /\ (p = NULL <=> n = t.root) /\ n # NULL /\ Members(t) \subseteq Keys
      /\ child # n /\ p # n /\ (p # NULL => p \in Members(t))
      /\ Other(d) \in Sides /\ Other(d) # d /\ Other(Other(d)) = d /\ \A e \in Sides : e = d \/ e = Other(d)
  BY <1>0, ShapeFacts, TreeTypes, SideFacts DEF MaybeKeys
<1>2. child # NULL => /\ child \in Members(t) /\ t.parent[child] = n /\ child # t.root /\ child \in Keys
                      /\ b[child][d] = b[n][d] /\ b[child][Other(d)] = n
  BY <1>0, <1>1, KidFacts
<1>3. /\ u \in Trees /\ u.root = IF n = t.root THEN child ELSE t.root
      /\ \A k \in Keys : \A e \in Sides :
           u.kid[k][e] = IF k = n THEN NULL ELSE IF t.kid[k][e] = n THEN child ELSE t.kid[k][e]
      /\ \A k \in Keys : u.parent[k] = IF k = n THEN NULL
                                       ELSE IF k = child THEN p ELSE t.parent[k]
  BY DEF Cut
<1> HIDE DEF p
<1>4. Members(u) = Members(t) \ {n}
  <2>1. ASSUME NEW k \in Keys
        PROVE  k \in Members(u) <=> k \in Members(t) /\ k # n
    <3>1. k \in Members(u) <=> k = u.root \/ u.parent[k] # NULL
      BY <1>3, TreeTypes
    <3>2. k \in Members(t) <=> k = t.root \/ t.parent[k] # NULL
      BY <1>1, TreeTypes
    <3>3. CASE k = n
      BY <1>1, <1>3, <3>1, <3>3
    <3>4. CASE k = child
      <4>1. child # NULL
        BY <1>1, <3>4
      <4> QED
        BY <1>1, <1>2, <1>3, <3>1, <3>4, <4>1
    <3>5. CASE k # n /\ k # child
      BY <1>1, <1>3, <3>1, <3>2, <3>5
    <3> QED
      BY <3>3, <3>4, <3>5
  <2> QED
    BY <1>1, <1>3, <2>1, TreeTypes
<1>5. \A k \in Keys : \A e \in Sides : /\ b[k][e] \in MaybeKeys
                                       /\ c[k][e] = IF b[k][e] = n THEN b[n][e] ELSE b[k][e]
  BY ShapeFacts DEF Widened
<1>6. c \in Bounds
  BY <1>1, <1>5 DEF Bounds, Widened
<1>7. \A e \in Sides : b[n][e] # n /\ (n = t.root => b[n][e] = NULL)
  BY <1>1, ShapeFacts
<1> HIDE DEF c
<1>8. child # NULL => \A e \in Sides : c[child][e] = b[n][e]
  <2>1. child # NULL => c[child][d] = b[n][d]
    BY <1>2, <1>5, <1>7
  <2>2. child # NULL => c[child][Other(d)] = b[n][Other(d)]
    BY <1>1, <1>2, <1>5
  <2> QED
    BY <1>1, <2>1, <2>2
<1>9. RootFree(u, c)
  <2>1. CASE n = t.root
    BY <1>1, <1>2, <1>3, <1>7, <1>8, <2>1 DEF RootFree
  <2>2. CASE n # t.root
    <3>1. t.root # NULL => t.root \in Keys /\ t.root # n /\ t.root # child
      BY <1>1, <1>2, <2>2, ShapeFacts
    <3> QED
      BY <1>1, <1>3, <1>5, <2>2, <3>1, ShapeFacts DEF RootFree
  <2> QED
    BY <2>1, <2>2
<1>10. ASSUME NEW k \in Members(u), NEW e \in Sides, u.kid[k][e] # NULL
       PROVE  Hangs(u, c, k, e)
  <2> DEFINE y == t.kid[k][e]
  <2>1. k # n /\ k \in Members(t) /\ k \in Keys /\ Other(e) \in Sides
    BY <1>1, <1>4, SideFacts
  <2>2. CASE y = n
    <3>1. u.kid[k][e] = child /\ child # NULL
      BY <1>3, <1>10, <2>1, <2>2
    <3>2. t.parent[n] = k /\ b[n][e] = b[k][e] /\ b[n][Other(e)] = k
      BY <1>1, <2>1, <2>2, KidFacts
    <3>3. u.parent[child] = k
      BY <1>1, <1>2, <1>3, <3>1, <3>2 DEF p
    <3>4. c[k][e] = b[k][e]
      BY <1>5, <1>7, <2>1, <3>2
    <3> QED
      BY <1>8, <2>1, <3>1, <3>2, <3>3, <3>4 DEF Hangs
  <2>3. CASE y # n
    <3>1. u.kid[k][e] = y /\ y # NULL
      BY <1>3, <1>10, <2>1, <2>3
    <3>2. t.parent[y] = k /\ b[y][e] = b[k][e] /\ b[y][Other(e)] = k /\ y \in Members(t) /\ y \in Keys
      BY <1>1, <2>1, <3>1, ShapeFacts
    <3>3. y # child
      BY <1>2, <2>1, <3>1, <3>2
    <3>4. u.parent[y] = k
      BY <1>3, <2>3, <3>2, <3>3
    <3>5. c[y][e] = c[k][e] /\ c[y][Other(e)] = k
      BY <1>5, <2>1, <3>2
    <3> QED
      BY <3>1, <3>4, <3>5 DEF Hangs
  <2> QED
    BY <2>2, <2>3
<1>11. ASSUME NEW k \in Keys, u.parent[k] # NULL
       PROVE  u.parent[k] \in Members(u) /\ \E e \in Sides : u.kid[u.parent[k]][e] = k
  <2>1. CASE k = child
    <3>1. u.parent[k] = p /\ p # NULL /\ p \in Members(t) /\ p \in Keys
      BY <1>1, <1>3, <1>11, <2>1
    <3>2. PICK e \in Sides : t.kid[p][e] = n
      BY <1>1, <3>1, ShapeFacts DEF p
    <3> QED
      BY <1>1, <1>3, <1>4, <2>1, <3>1, <3>2
  <2>2. CASE k # child
    <3> DEFINE q == t.parent[k]
    <3>1. u.parent[k] = q /\ q # NULL /\ k # n
      BY <1>3, <1>11, <2>2
    <3>2. q \in Members(t) /\ \E e \in Sides : t.kid[q][e] = k
      BY <3>1 DEF Shape, ParentsHold
    <3>3. PICK e \in Sides : t.kid[q][e] = k
      BY <3>2
    <3>4. q # n
      <4>1. e = d \/ e = Other(d)
        BY <1>1
      <4>2. k # NULL
        BY <1>1
      <4> QED
        BY <1>0, <2>2, <3>3, <4>1, <4>2
    <3>5. u.kid[q][e] = k
      BY <1>1, <1>3, <3>1, <3>2, <3>3, <3>4
    <3> QED
      BY <1>4, <3>1, <3>2, <3>4, <3>5
  <2> QED
    BY <2>1, <2>2
<1>12. ASSUME NEW k \in Members(u)
       PROVE  Within(k, c[k])
  <2>1. k \in Members(t) /\ k \in Keys
    BY <1>1, <1>4
  <2>2. ASSUME NEW e \in Sides, c[k][e] # NULL
        PROVE  Beyond(Other(e), k, c[k][e])
    <3>1. CASE b[k][e] = n
      <4>1. Beyond(Other(e), k, n)
        BY <1>1, <2>1, <3>1, ShapeFacts
      <4>2. c[k][e] = b[n][e] /\ b[n][e] \in Keys
        BY <1>1, <1>5, <2>1, <2>2, <3>1 DEF MaybeKeys
      <4>3. Beyond(Other(e), n, b[n][e])
        BY <2>2, <4>2, ShapeFacts
      <4>4. Other(e) \in Sides
        BY SideFacts
      <4> QED
        BY <1>1, <2>1, <4>1, <4>2, <4>3, <4>4, BeyondFacts
    <3>2. CASE b[k][e] # n
      BY <1>5, <2>1, <2>2, <3>2, ShapeFacts
    <3> QED
      BY <3>1, <3>2
  <2> QED
    BY <2>2 DEF Within
<1>13. ASSUME NEW k \in Keys, k \notin Members(u), NEW e \in Sides
       PROVE  u.kid[k][e] = NULL
  BY <1>1, <1>3, <1>4, <1>13, ShapeFacts
<1>14. Shape(u, c)
  BY <1>3, <1>6, <1>9, <1>10, <1>11, <1>12, <1>13
     DEF Shape, KidsHang, ParentsHold, Ordered, OthersClear
<1> QED
  BY <1>4, <1>14 DEF c

(* A red node is missed nowhere, a black one on the side of its parent it  *)
(* was on.                                                                 *)
LEMMA CutColours ==
  ASSUME NEW t, NEW b, Shape(t, b), NEW n \in Members(t), NEW child,
         \E d \in Sides : t.kid[n][d] = child /\ t.kid[n][Other(d)] = NULL,
         NEW u, Cut(t, u, n, child), Members(u) = Members(t) \ {n},
         NEW h \in Heights, Even(t, h, NULL, Left), Apart(t, NULL, NULL)
  PROVE  /\ Apart(u, child, child)
         /\ t.red[n] => Apart(u, NULL, NULL) /\ Even(u, h, NULL, Left)
         /\ t.parent[n] = NULL => u.root = child /\ Even(u, h, NULL, Left)
         /\ t.parent[n] # NULL =>
              /\ t.parent[n] \in Members(u)
              /\ \E e \in Sides : /\ u.kid[t.parent[n]][e] = child
                                  /\ ~t.red[n] => Even(u, h, t.parent[n], e)
<1> DEFINE p == t.parent[n]
<1>0. PICK d \in Sides : t.kid[n][d] = child /\ t.kid[n][Other(d)] = NULL
  OBVIOUS
<1>1. /\ t \in Trees /\ n \in Keys /\ child \in MaybeKeys /\ p \in MaybeKeys /\ NULL \notin Keys
      /\ (p = NULL <=> n = t.root) /\ n # NULL /\ Members(t) \subseteq Keys
      /\ child # n /\ p # n /\ (p # NULL => p \in Members(t))
  BY <1>0, ShapeFacts, TreeTypes, SideFacts DEF MaybeKeys
<1>2. /\ u \in Trees /\ u.root = IF n = t.root THEN child ELSE t.root
      /\ \A k \in Keys : \A e \in Sides :
           u.kid[k][e] = IF k = n THEN NULL ELSE IF t.kid[k][e] = n THEN child ELSE t.kid[k][e]
      /\ ~u.red[n] /\ \A k \in Keys : k # n => u.red[k] = t.red[k]
  BY DEF Cut
<1> HIDE DEF p
<1>3. \A k \in MaybeKeys : k # n => (IsRed(u, k) <=> IsRed(t, k))
  BY <1>1, <1>2 DEF IsRed, MaybeKeys
<1>4. ~IsRed(t, t.root) /\ \A k \in Members(t) : \A e \in Sides : t.red[k] => ~IsRed(t, t.kid[k][e])
  <2>1. \A k \in Members(t) : k # NULL
    BY <1>1
  <2> QED
    BY <2>1 DEF Apart, IsRed
<1>5. t.red[n] => ~IsRed(t, child) /\ n # t.root
  BY <1>0, <1>1, <1>4 DEF IsRed
<1>6. IsRed(u, u.root) => u.root = child /\ ~t.red[n]
  <2>1. CASE n = t.root
    BY <1>2, <1>5, <2>1
  <2>2. CASE n # t.root
    <3>1. t.root \in MaybeKeys
      BY <1>1, TreeTypes
    <3> QED
      BY <1>2, <1>3, <1>4, <2>2, <3>1
  <2> QED
    BY <2>1, <2>2
<1>7. ASSUME NEW k \in Members(u), NEW e \in Sides, u.red[k], IsRed(u, u.kid[k][e])
      PROVE  u.kid[k][e] = child /\ ~t.red[n]
  <2>1. k # n /\ k \in Members(t) /\ k \in Keys /\ t.red[k] /\ t.kid[k][e] \in MaybeKeys
    BY <1>1, <1>2, <1>7, TreeTypes
  <2>2. CASE t.kid[k][e] = n
    <3>1. u.kid[k][e] = child
      BY <1>2, <2>1, <2>2
    <3>2. IsRed(t, child)
      BY <1>1, <1>3, <1>7, <3>1
    <3> QED
      BY <1>5, <3>1, <3>2
  <2>3. CASE t.kid[k][e] # n
    <3>1. u.kid[k][e] = t.kid[k][e]
      BY <1>2, <2>1, <2>3
    <3>2. IsRed(t, t.kid[k][e])
      BY <1>3, <1>7, <2>1, <2>3, <3>1
    <3> QED
      BY <1>4, <2>1, <3>2
  <2> QED
    BY <2>2, <2>3
<1>8. Apart(u, child, child)
  BY <1>6, <1>7 DEF Apart
<1>9. t.red[n] => Apart(u, NULL, NULL)
  BY <1>6, <1>7 DEF Apart
<1>10. /\ h[n] \in Nat /\ HeightOf(h, child) \in Nat /\ Weight(t, n) \in {0, 1}
       /\ h[n] = HeightOf(h, child) + Weight(t, n)
  <2>1. /\ h[n] = HeightOf(h, child) + Weight(t, n) + Lack(NULL, Left, n, d)
        /\ h[n] \in Nat /\ HeightOf(h, child) \in Nat /\ Weight(t, n) \in {0, 1}
    BY <1>0, <1>1, EvenFacts
  <2>2. Lack(NULL, Left, n, d) = 0
    BY <1>1 DEF Lack
  <2> QED
    BY <2>1, <2>2
<1>11. ASSUME NEW k \in Members(u), NEW e \in Sides
       PROVE  /\ h[k] \in Nat /\ HeightOf(h, u.kid[k][e]) \in Nat /\ Weight(u, k) \in {0, 1}
              /\ h[k] = HeightOf(h, u.kid[k][e]) + Weight(u, k)
                        + (IF t.kid[k][e] = n THEN Weight(t, n) ELSE 0)
  <2>1. k # n /\ k \in Members(t) /\ k \in Keys /\ t.kid[k][e] \in MaybeKeys
    BY <1>1, TreeTypes
  <2>2. /\ h[k] = HeightOf(h, t.kid[k][e]) + Weight(t, k) + Lack(NULL, Left, k, e)
        /\ h[k] \in Nat /\ HeightOf(h, t.kid[k][e]) \in Nat /\ Weight(t, k) \in {0, 1}
    BY <1>1, <2>1, EvenFacts
  <2>3. Lack(NULL, Left, k, e) = 0 /\ Weight(u, k) = Weight(t, k)
    BY <1>1, <1>2, <2>1 DEF Lack, Weight
  <2>4. CASE t.kid[k][e] = n
    <3>1. u.kid[k][e] = child /\ HeightOf(h, t.kid[k][e]) = h[n]
      BY <1>1, <1>2, <2>1, <2>4 DEF HeightOf
    <3> QED
      BY <1>10, <2>2, <2>3, <2>4, <3>1
  <2>5. CASE t.kid[k][e] # n
    <3>1. u.kid[k][e] = t.kid[k][e]
      BY <1>2, <2>1, <2>5
    <3> QED
      BY <2>2, <2>3, <2>5, <3>1
  <2> QED
    BY <2>4, <2>5
<1>12. \A k \in Members(u) : \A e \in Sides : Lack(NULL, Left, k, e) = 0
  BY <1>1 DEF Lack
<1>13. t.red[n] \/ p = NULL => Even(u, h, NULL, Left)
  <2> SUFFICES ASSUME t.red[n] \/ p = NULL, NEW k \in Members(u), NEW e \in Sides
               PROVE  h[k] = HeightOf(h, u.kid[k][e]) + Weight(u, k) + Lack(NULL, Left, k, e)
    BY DEF Even
  <2>1. (IF t.kid[k][e] = n THEN Weight(t, n) ELSE 0) = 0
    <3>1. CASE t.red[n]
      BY <3>1 DEF Weight
    <3>2. CASE p = NULL
      <4>1. t.kid[k][e] # n
        BY <1>1, <3>2, ShapeFacts
      <4> QED
        BY <4>1
    <3> QED
      BY <3>1, <3>2
  <2> QED
    BY <1>11, <1>12, <2>1
<1>14. p # NULL => /\ p \in Members(u)
                   /\ \E e \in Sides : u.kid[p][e] = child /\ (~t.red[n] => Even(u, h, p, e))
  <2> SUFFICES ASSUME p # NULL
               PROVE  /\ p \in Members(u)
                      /\ \E e \in Sides : u.kid[p][e] = child /\ (~t.red[n] => Even(u, h, p, e))
    OBVIOUS
  <2>1. p \in Members(u) /\ p \in Keys
    BY <1>1
  <2> DEFINE s == SideOf(t, p, n)
  <2>2. s \in Sides /\ \A m \in Members(t) : \A e \in Sides : t.kid[m][e] = n <=> m = p /\ e = s
    BY <1>1, SideOfIs DEF p
  <2> HIDE DEF s
  <2>3. u.kid[p][s] = child
    BY <1>1, <1>2, <2>1, <2>2
  <2>4. ~t.red[n] => Even(u, h, p, s)
    <3> SUFFICES ASSUME ~t.red[n], NEW k \in Members(u), NEW e \in Sides
                 PROVE  h[k] = HeightOf(h, u.kid[k][e]) + Weight(u, k) + Lack(p, s, k, e)
      BY DEF Even
    <3>1. (IF t.kid[k][e] = n THEN Weight(t, n) ELSE 0) = Lack(p, s, k, e)
      BY <2>2 DEF Lack, Weight
    <3> QED
      BY <1>11, <3>1
  <2> QED
    BY <2>1, <2>2, <2>3, <2>4
<1>15. p = NULL => u.root = child
  BY <1>1, <1>2
<1> QED
  BY <1>8, <1>9, <1>13, <1>14, <1>15 DEF p

-----------------------------------------------------------------------------
(* The bounds of a node are nodes whose intervals have it in them.         *)
LEMMA BoundsHold ==
  ASSUME NEW t, NEW b, Shape(t, b)
  PROVE  \A k \in Members(t) : \A f \in Sides :
           b[k][f] # NULL => b[k][f] \in Members(t) /\ Covers(b, b[k][f], k)
<1> DEFINE G == {k \in Members(t) : \A f \in Sides :
                   b[k][f] # NULL => b[k][f] \in Members(t) /\ Covers(b, b[k][f], k)}
<1>1. t.root # NULL => t.root \in G
  BY ShapeFacts
<1>2. ASSUME NEW k \in Members(t), k # t.root, t.parent[k] \in G
      PROVE  k \in G
  <2> DEFINE p == t.parent[k]
  <2>1. p \in Members(t) /\ p \in Keys /\ k \in Keys /\ k # NULL /\ NULL \notin Keys
    BY <1>2, ShapeFacts
  <2>2. PICK d \in Sides : t.kid[p][d] = k
    BY <1>2, ShapeFacts
  <2>3. /\ b[k][d] = b[p][d] /\ b[k][Other(d)] = p /\ Beyond(d, k, p)
        /\ Other(d) \in Sides /\ \A f \in Sides : f = d \/ f = Other(d)
    BY <2>1, <2>2, ShapeFacts, SideFacts
  <2>4. Covers(b, p, k)
    BY <2>1, <2>2, CoversSelf, KidCovers
  <2>5. b[k][d] # NULL => b[k][d] \in Members(t) /\ Covers(b, b[k][d], k)
    <3> SUFFICES ASSUME b[k][d] # NULL
                 PROVE  b[k][d] \in Members(t) /\ Covers(b, b[k][d], k)
      OBVIOUS
    <3> DEFINE z == b[k][d]
    <3>1. z \in Members(t) /\ z \in Keys /\ Covers(b, z, p)
      BY <1>2, <2>3, ShapeFacts
    <3>2. Beyond(Other(d), k, z)
      BY <2>1, ShapeFacts
    <3> HIDE DEF z, p
    <3>3. ASSUME NEW f \in Sides, b[z][f] # NULL
          PROVE  Beyond(Other(f), k, b[z][f])
      <4>1. Beyond(Other(f), p, b[z][f]) /\ b[z][f] \in Keys
        BY <3>1, <3>3, ShapeFacts DEF Covers, Within, MaybeKeys
      <4>2. Beyond(Other(f), z, b[z][f])
        BY <3>1, <3>3, ShapeFacts
      <4>3. Other(f) \in Sides /\ (f = d \/ f = Other(d)) /\ Other(Other(d)) = d
        BY <2>3, SideFacts
      <4>4. CASE f = d
        BY <2>1, <3>1, <3>2, <4>1, <4>2, <4>3, <4>4, BeyondFacts
      <4>5. CASE f = Other(d)
        BY <2>1, <2>3, <3>1, <4>1, <4>3, <4>5, BeyondFacts
      <4> QED
        BY <4>3, <4>4, <4>5
    <3>4. Covers(b, z, k)
      BY <3>3 DEF Covers, Within
    <3> QED
      BY <3>1, <3>4 DEF z
  <2> QED
    BY <2>1, <2>3, <2>4, <2>5
<1>3. G \in Inherited(t)
  BY <1>1, <1>2 DEF Inherited
<1>4. G = Members(t)
  BY <1>3, FromTheRoot
<1> QED
  BY <1>4

(***************************************************************************)
(* Next to n on side d is m, when n bounds m on the other one and m has no *)
(* child there, or when m bounds n and n has no child on side d.           *)
(***************************************************************************)
LEMMA NextIsBelow ==
  ASSUME NEW t, NEW b, Shape(t, b), NEW n \in Keys, NEW m \in Members(t), NEW d \in Sides,
         b[m][Other(d)] = n, t.kid[m][Other(d)] = NULL
  PROVE  /\ n \in Members(t) /\ Beyond(d, m, n)
         /\ \A k \in Members(t) : Beyond(d, k, n) => k = m \/ Beyond(d, k, m)
<1>1. NULL \notin Keys /\ Other(d) \in Sides /\ m \in Keys /\ n # NULL /\ Other(Other(d)) = d
  BY ShapeFacts, SideFacts
<1>2. n \in Members(t) /\ Beyond(d, m, n)
  BY <1>1, BoundsHold, ShapeFacts
<1>3. ASSUME NEW k \in Members(t), Beyond(d, k, n), Beyond(d, m, k)
      PROVE  FALSE
  <2>1. k \in Keys
    BY ShapeFacts
  <2>2. b[m][d] # NULL => Beyond(Other(d), k, b[m][d])
    <3>1. b[m][d] # NULL => Beyond(Other(d), m, b[m][d]) /\ b[m][d] \in Keys
      BY <1>1, ShapeFacts DEF MaybeKeys
    <3>2. Beyond(Other(d), k, m)
      BY <1>1, <1>3, <2>1, BeyondFacts
    <3> QED
      BY <1>1, <2>1, <3>1, <3>2, BeyondFacts
  <2>3. b[m][Other(d)] # NULL => Beyond(Other(Other(d)), k, b[m][Other(d)])
    BY <1>1, <1>3
  <2>4. Covers(b, m, k)
    BY <2>2, <2>3, SideFacts DEF Covers, Within
  <2>5. ~Beyond(Other(d), k, m)
    BY <1>1, <2>4, NothingThere
  <2> QED
    BY <1>1, <1>3, <2>1, <2>5, BeyondFacts
<1> QED
  BY <1>1, <1>2, <1>3, BeyondFacts, ShapeFacts

(* From a node with no child on side d, the next on that side is its       *)
(* bound there.                                                            *)
LEMMA NextIsAbove ==
  ASSUME NEW t, NEW b, Shape(t, b), NEW n \in Members(t), NEW d \in Sides,
         t.kid[n][d] = NULL
  PROVE  \A k \in Members(t) : Beyond(d, k, n) =>
           b[n][d] # NULL /\ (k = b[n][d] \/ Beyond(d, k, b[n][d]))
<1> SUFFICES ASSUME NEW k \in Members(t), Beyond(d, k, n),
                    ~(b[n][d] # NULL /\ (k = b[n][d] \/ Beyond(d, k, b[n][d])))
             PROVE  FALSE
  OBVIOUS
<1>1. NULL \notin Keys /\ Other(d) \in Sides /\ n \in Keys /\ k \in Keys /\ Other(Other(d)) = d
  BY ShapeFacts, SideFacts
<1>2. b[n][d] # NULL => Beyond(Other(d), k, b[n][d])
  <2>1. b[n][d] # NULL => b[n][d] \in Keys
    BY <1>1, ShapeFacts DEF MaybeKeys
  <2> QED
    BY <1>1, <2>1, BeyondFacts
<1>3. b[n][Other(d)] # NULL => Beyond(d, k, b[n][Other(d)])
  <2>1. b[n][Other(d)] # NULL => Beyond(d, n, b[n][Other(d)]) /\ b[n][Other(d)] \in Keys
    BY <1>1, ShapeFacts DEF MaybeKeys
  <2> QED
    BY <1>1, <2>1, BeyondFacts
<1>4. Covers(b, n, k)
  BY <1>1, <1>2, <1>3, SideFacts DEF Covers, Within
<1>5. ~Beyond(d, k, n)
  BY <1>4, NothingThere
<1> QED
  BY <1>5

-----------------------------------------------------------------------------
(* Another node m in the place of n, with its links and colour, node by    *)
(* node.                                                                   *)
Taken(w, u, n, m) ==
  /\ u \in Trees
  /\ u.root = IF n = w.root THEN m ELSE w.root
  /\ \A k \in Keys : \A e \in Sides :
       u.kid[k][e] = IF k = n THEN NULL
                     ELSE IF k = m THEN w.kid[n][e]
                     ELSE IF w.kid[k][e] = n THEN m ELSE w.kid[k][e]
  /\ \A k \in Keys : u.parent[k] = IF k = n THEN NULL
                                   ELSE IF k = m THEN w.parent[n]
                                   ELSE IF w.parent[k] = n THEN m ELSE w.parent[k]
  /\ (u.red[m] <=> w.red[n]) /\ \A k \in Keys : k # n /\ k # m => u.red[k] = w.red[k]

(* The leftmost node m of the right subtree of n.                          *)
Successor(t, b, n, m) ==
  /\ n \in Members(t) /\ m \in Members(t) /\ \A d \in Sides : t.kid[n][d] # NULL
  /\ t.kid[m][Left] = NULL /\ b[m][Left] = n

(* Where it is: m hangs on the left of its parent, or is the right child   *)
(* of n.                                                                   *)
LEMMA SuccessorFacts ==
  ASSUME NEW t, NEW b, Shape(t, b), NEW n, NEW m, Successor(t, b, n, m)
  PROVE  /\ n \in Members(t) /\ m \in Members(t) /\ n \in Keys /\ m \in Keys /\ m # n
         /\ m # t.root /\ t.parent[m] \in Members(t) /\ t.kid[t.parent[m]][IF t.parent[m] = n THEN Right ELSE Left] = m
         /\ t.kid[m][Right] # n /\ t.kid[m][Right] # m
         /\ n < m /\ Covers(b, n, m)
<1>1. /\ n \in Members(t) /\ m \in Members(t) /\ b[m][Left] = n /\ t.kid[m][Left] = NULL
  BY DEF Successor
<1>2. n \in Keys /\ m \in Keys /\ NULL \notin Keys /\ m # n
  BY <1>1, ShapeFacts, SideFacts
<1>3. Beyond(Right, m, n) /\ Covers(b, n, m)
  BY <1>1, <1>2, BoundsHold, ShapeFacts, SideFacts
<1>4. m # t.root
  BY <1>1, <1>2, ShapeFacts, SideFacts
<1>5. PICK e \in Sides : t.kid[t.parent[m]][e] = m
  BY <1>1, <1>4, ShapeFacts
<1>6. t.parent[m] \in Members(t) /\ t.parent[m] \in Keys /\ b[m][Other(e)] = t.parent[m] /\ Beyond(e, m, t.parent[m])
  BY <1>1, <1>2, <1>4, <1>5, ShapeFacts
<1>7. e = IF t.parent[m] = n THEN Right ELSE Left
  <2>1. CASE e = Right
    BY <1>1, <1>6, <2>1, SideFacts
  <2>2. CASE e = Left
    <3>1. t.parent[m] = n => Beyond(Left, m, n)
      BY <1>6, <2>2
    <3>2. t.parent[m] # n
      BY <1>2, <1>3, <3>1, SideFacts, BeyondFacts
    <3> QED
      BY <2>2, <3>2
  <2> QED
    BY <2>1, <2>2, SideFacts
<1>8. t.kid[m][Right] # m
  BY <1>1, <1>2, ShapeFacts, SideFacts
<1>9. t.kid[m][Right] # n
  <2>1. t.kid[m][Right] = n => Beyond(Right, n, m)
    BY <1>1, <1>2, ShapeFacts, SideFacts
  <2> QED
    BY <1>2, <1>3, <2>1, SideFacts, BeyondFacts
<1>10. n < m
  BY <1>3, SideFacts DEF Beyond
<1> QED
  BY <1>1, <1>2, <1>3, <1>4, <1>5, <1>6, <1>7, <1>8, <1>9, <1>10

(* The bodies of Succeeded before the node is cleared.                     *)
LEMMA SucceededIs ==
  ASSUME NEW t, NEW b, Shape(t, b), NEW n, NEW m, Successor(t, b, n, m),
         NEW w, Cut(t, w, m, t.kid[m][Right])
  PROVE  Taken(w, Succeeded(t, n, m), n, m)
<1> DEFINE child == t.kid[m][Right]
           p == t.parent[m]
           q == t.parent[n]
           l == t.kid[n][Left]
           r == t.kid[n][Right]
           s == Replace(t, q, n, m)
           sp == SetParent(s, child, p)
           around == [sp EXCEPT !.kid[p][Left] = child, !.kid[m][Right] = s.kid[n][Right],
                                !.parent[s.kid[n][Right]] = m]
           v == IF p = n THEN s ELSE around
           x == [v EXCEPT !.parent[m] = v.parent[n], !.red[m] = v.red[n],
                          !.kid[m][Left] = v.kid[n][Left], !.parent[v.kid[n][Left]] = m]
           u == Cleared(x, n)
<1>1. Succeeded(t, n, m) = u
  BY DEF Succeeded
<1>2. /\ n \in Members(t) /\ m \in Members(t) /\ n \in Keys /\ m \in Keys /\ m # n
      /\ m # t.root /\ p \in Members(t) /\ t.kid[p][IF p = n THEN Right ELSE Left] = m
      /\ child # n /\ child # m
  BY SuccessorFacts
<1>3. l # NULL /\ r # NULL /\ t.kid[m][Left] = NULL
  BY SideFacts DEF Successor
<1> HIDE DEF child, p, q, l, r
<1>4. /\ t \in Trees /\ NULL \notin Keys /\ n # NULL /\ m # NULL /\ p \in Keys /\ p # m /\ q # n /\ q # m
      /\ child \in MaybeKeys /\ q \in MaybeKeys /\ p \in MaybeKeys /\ l \in Keys /\ r \in Keys
      /\ t.parent[l] = n /\ t.parent[r] = n /\ l # n /\ r # n /\ l # r
      /\ (child # NULL => t.parent[child] = m /\ child # l /\ child # r)
      /\ (q = NULL <=> n = t.root)
  <2>1. t \in Trees /\ NULL \notin Keys /\ n # NULL /\ m # NULL /\ p \in Keys /\ p # m /\ q # n /\ Members(t) \subseteq Keys
        /\ (q = NULL <=> n = t.root)
    BY <1>2, ShapeFacts, SideFacts, TreeTypes DEF p, q
  <2>2. child \in MaybeKeys /\ q \in MaybeKeys /\ p \in MaybeKeys
    BY <1>2, <2>1, TreeTypes, SideFacts DEF child, q, MaybeKeys
  <2>3. /\ l \in Keys /\ r \in Keys /\ t.parent[l] = n /\ t.parent[r] = n /\ l # n /\ r # n /\ l # r
    BY <1>2, <1>3, ShapeFacts, SideFacts DEF l, r
  <2>4. child # NULL => t.parent[child] = m
    BY <1>2, ShapeFacts, SideFacts DEF child
  <2>5. q # m
    <3>1. q = m => \E e \in Sides : t.kid[m][e] = n
      BY <1>2, <2>1, ShapeFacts DEF q
    <3> QED
      BY <1>2, <1>3, <2>1, <3>1, SideFacts DEF child
  <2> QED
    BY <1>2, <2>1, <2>2, <2>3, <2>4, <2>5
<1>5. l # m
  <2>1. l = m => p = n
    BY <1>4 DEF p
  <2> QED
    BY <1>2, <1>4, <2>1 DEF r, l
<1>6. r = m <=> p = n
  BY <1>2, <1>4 DEF p, r
<1>7. /\ s \in Trees /\ s.parent = t.parent /\ s.red = t.red
      /\ s.root = IF q = NULL THEN m ELSE t.root
      /\ \A k \in Keys : \A e \in Sides :
           s.kid[k][e] = IF q # NULL /\ k = q /\ e = SideOf(t, q, n) THEN m ELSE t.kid[k][e]
  <2>1. m \in MaybeKeys
    BY <1>2 DEF MaybeKeys
  <2> QED
    BY <1>4, <2>1, ReplaceIs
<1>8. \A k \in Keys : \A e \in Sides :
         t.kid[k][e] = n <=> q # NULL /\ k = q /\ e = SideOf(t, q, n)
  <2>1. ASSUME NEW k \in Keys, NEW e \in Sides, t.kid[k][e] = n
        PROVE  n # t.root /\ k \in Members(t)
    BY <1>4, <2>1, ShapeFacts
  <2>2. n # t.root => q \in Members(t)
    BY <1>2, ShapeFacts DEF q
  <2> QED
    BY <1>2, <1>4, <2>1, <2>2, SideOfIs DEF q
<1>9. \A k \in Keys : \A e \in Sides : s.kid[k][e] = IF t.kid[k][e] = n THEN m ELSE t.kid[k][e]
  BY <1>7, <1>8
<1>10. s.root = IF n = t.root THEN m ELSE t.root
  BY <1>4, <1>7
<1> HIDE DEF s
<1>11. s.kid[n][Left] = l /\ s.kid[n][Right] = r
  BY <1>2, <1>4, <1>9, SideFacts DEF l, r
<1>12. /\ v \in Trees /\ v.root = s.root /\ v.red = t.red
       /\ \A k \in Keys : \A e \in Sides :
            v.kid[k][e] = IF p # n /\ k = p /\ e = Left THEN child
                          ELSE IF p # n /\ k = m /\ e = Right THEN r ELSE s.kid[k][e]
       /\ \A k \in Keys :
            v.parent[k] = IF p # n /\ k = r THEN m
                          ELSE IF p # n /\ k = child THEN p ELSE t.parent[k]
  <2>1. CASE p = n
    <3>1. v = s
      BY <2>1
    <3> QED
      BY <1>7, <2>1, <3>1
  <2>2. CASE p # n
    <3>1. v = [sp EXCEPT !.kid[p][Left] = child, !.kid[m][Right] = r, !.parent[r] = m]
      BY <1>11, <2>2
    <3>2. /\ sp \in Trees /\ sp.root = s.root /\ sp.kid = s.kid /\ sp.red = s.red
          /\ \A k \in Keys : sp.parent[k] = IF k = child THEN p ELSE s.parent[k]
      <4>1. s \in Trees /\ child \in MaybeKeys /\ p \in MaybeKeys
        BY <1>4, <1>7
      <4> QED
        BY <4>1, SetParentIs
    <3> HIDE DEF sp, v
    <3> DEFINE s1 == [sp EXCEPT !.kid[p][Left] = child]
               s2 == [s1 EXCEPT !.kid[m][Right] = r]
               s3 == SetParent(s2, r, m)
    <3>3. v = s3
      <4>1. v = [s2 EXCEPT !.parent[r] = m]
        BY <3>1
      <4> HIDE DEF v, s2
      <4> QED
        BY <1>4, <4>1 DEF SetParent
    <3>4. /\ s1 \in Trees /\ s1.root = sp.root /\ s1.parent = sp.parent /\ s1.red = sp.red
          /\ \A k \in Keys : \A e \in Sides :
               s1.kid[k][e] = IF k = p /\ e = Left THEN child ELSE sp.kid[k][e]
      <4>1. p \in Keys /\ child \in MaybeKeys /\ Left \in Sides
        BY <1>4, SideFacts
      <4>2. sp \in Trees
        BY <3>2
      <4> QED
        BY <4>1, <4>2, SetKidIs
    <3> HIDE DEF s1
    <3>5. /\ s2 \in Trees /\ s2.root = s1.root /\ s2.parent = s1.parent /\ s2.red = s1.red
          /\ \A k \in Keys : \A e \in Sides :
               s2.kid[k][e] = IF k = m /\ e = Right THEN r ELSE s1.kid[k][e]
      <4>1. m \in Keys /\ r \in MaybeKeys /\ Right \in Sides
        BY <1>2, <1>4, SideFacts DEF MaybeKeys
      <4> QED
        BY <3>4, <4>1, SetKidIs
    <3> HIDE DEF s2
    <3>6. /\ s3 \in Trees /\ s3.root = s2.root /\ s3.kid = s2.kid /\ s3.red = s2.red
          /\ \A k \in Keys : s3.parent[k] = IF k = r THEN m ELSE s2.parent[k]
      <4>1. m \in MaybeKeys /\ r \in MaybeKeys
        BY <1>2, <1>4 DEF MaybeKeys
      <4> QED
        BY <3>5, <4>1, SetParentIs
    <3> HIDE DEF s3
    <3>7. /\ \A k \in Keys : \A e \in Sides :
               v.kid[k][e] = IF k = p /\ e = Left THEN child
                             ELSE IF k = m /\ e = Right THEN r ELSE s.kid[k][e]
          /\ \A k \in Keys : v.parent[k] = IF k = r THEN m ELSE IF k = child THEN p ELSE t.parent[k]
      BY <1>4, <1>7, <3>2, <3>3, <3>4, <3>5, <3>6
    <3> QED
      BY <1>7, <2>2, <3>2, <3>3, <3>4, <3>5, <3>6, <3>7
  <2> QED
    BY <2>1, <2>2
<1> HIDE DEF v
<1>13. v.kid[n][Left] = l /\ v.parent[n] = q
  BY <1>2, <1>4, <1>11, <1>12, SideFacts DEF q
<1>14. /\ x \in Trees /\ x.root = v.root
       /\ \A k \in Keys : \A e \in Sides :
            x.kid[k][e] = IF k = m /\ e = Left THEN l ELSE v.kid[k][e]
       /\ \A k \in Keys : x.parent[k] = IF k = l THEN m ELSE IF k = m THEN q ELSE v.parent[k]
       /\ \A k \in Keys : x.red[k] = IF k = m THEN v.red[n] ELSE v.red[k]
  <2>1. x = [v EXCEPT !.parent[m] = q, !.red[m] = v.red[n], !.kid[m][Left] = l, !.parent[l] = m]
    BY <1>13
  <2>2. v.red[n] \in BOOLEAN
    BY <1>2, <1>12, TreeTypes
  <2> HIDE DEF x
  <2> DEFINE x1 == SetParent(v, m, q)
             x2 == [x1 EXCEPT !.red[m] = v.red[n]]
             x3 == [x2 EXCEPT !.kid[m][Left] = l]
             x4 == SetParent(x3, l, m)
  <2>3. m \in MaybeKeys /\ q \in MaybeKeys /\ l \in MaybeKeys /\ m \in Keys /\ Left \in Sides /\ m # NULL /\ l # NULL
    BY <1>2, <1>4, SideFacts DEF MaybeKeys
  <2>4. x = x4
    <3>1. x1 = [v EXCEPT !.parent[m] = q]
      BY <2>3 DEF SetParent
    <3>2. x = [x3 EXCEPT !.parent[l] = m]
      BY <2>1, <3>1
    <3> HIDE DEF x3
    <3> QED
      BY <2>3, <3>2 DEF SetParent
  <2>5. /\ x1 \in Trees /\ x1.root = v.root /\ x1.kid = v.kid /\ x1.red = v.red
        /\ \A k \in Keys : x1.parent[k] = IF k = m THEN q ELSE v.parent[k]
    BY <1>12, <2>3, SetParentIs
  <2> HIDE DEF x1
  <2>6. /\ x2 \in Trees /\ x2.root = x1.root /\ x2.kid = x1.kid /\ x2.parent = x1.parent
        /\ \A k \in Keys : x2.red[k] = IF k = m THEN v.red[n] ELSE x1.red[k]
    BY <2>2, <2>3, <2>5 DEF Trees
  <2> HIDE DEF x2
  <2>7. /\ x3 \in Trees /\ x3.root = x2.root /\ x3.parent = x2.parent /\ x3.red = x2.red
        /\ \A k \in Keys : \A e \in Sides :
             x3.kid[k][e] = IF k = m /\ e = Left THEN l ELSE x2.kid[k][e]
    BY <2>3, <2>6, SetKidIs
  <2> HIDE DEF x3
  <2>8. /\ x4 \in Trees /\ x4.root = x3.root /\ x4.kid = x3.kid /\ x4.red = x3.red
        /\ \A k \in Keys : x4.parent[k] = IF k = l THEN m ELSE x3.parent[k]
    <3>1. x3 \in Trees /\ l \in MaybeKeys /\ m \in MaybeKeys
      BY <2>3, <2>7
    <3> QED
      BY <3>1, SetParentIs
  <2> HIDE DEF x4
  <2> QED
    BY <2>4, <2>5, <2>6, <2>7, <2>8
<1> HIDE DEF x
<1>15. /\ u \in Trees /\ u.root = x.root
       /\ \A k \in Keys : \A e \in Sides : u.kid[k][e] = IF k = n THEN NULL ELSE x.kid[k][e]
       /\ \A k \in Keys : u.parent[k] = IF k = n THEN NULL ELSE x.parent[k]
       /\ ~u.red[n] /\ \A k \in Keys : k # n => u.red[k] = x.red[k]
  BY <1>2, <1>14, ClearedIs
<1> HIDE DEF u
<1>16. /\ w \in Trees /\ w.root = IF m = t.root THEN child ELSE t.root
       /\ \A k \in Keys : \A e \in Sides :
            w.kid[k][e] = IF k = m THEN NULL ELSE IF t.kid[k][e] = m THEN child ELSE t.kid[k][e]
       /\ \A k \in Keys : w.parent[k] = IF k = m THEN NULL
                                        ELSE IF k = child THEN p ELSE t.parent[k]
       /\ ~w.red[m] /\ \A k \in Keys : k # m => w.red[k] = t.red[k]
  BY DEF Cut, child, p
<1>17. u.root = IF n = w.root THEN m ELSE w.root
  BY <1>2, <1>10, <1>12, <1>14, <1>15, <1>16
<1>18. (u.red[m] <=> w.red[n]) /\ \A k \in Keys : k # n /\ k # m => u.red[k] = w.red[k]
  BY <1>2, <1>12, <1>14, <1>15, <1>16
<1>19. \A k \in Keys : \A e \in Sides :
         t.kid[k][e] = m <=> k = p /\ e = IF p = n THEN Right ELSE Left
  <2>1. ASSUME NEW k \in Keys, NEW e \in Sides, t.kid[k][e] = m
        PROVE  k \in Members(t)
    BY <1>4, <2>1, ShapeFacts
  <2>2. /\ SideOf(t, p, m) \in Sides /\ t.kid[p][SideOf(t, p, m)] = m
        /\ \A k \in Members(t) : \A e \in Sides : t.kid[k][e] = m <=> k = p /\ e = SideOf(t, p, m)
    BY <1>2, SideOfIs DEF p
  <2>3. (IF p = n THEN Right ELSE Left) = SideOf(t, p, m)
    BY <1>2, <2>2, SideFacts
  <2> QED
    BY <1>2, <2>1, <2>2, <2>3
<1>20. ASSUME NEW k \in Keys, NEW e \in Sides
       PROVE  u.kid[k][e] = IF k = n THEN NULL
                            ELSE IF k = m THEN w.kid[n][e]
                            ELSE IF w.kid[k][e] = n THEN m ELSE w.kid[k][e]
  <2>0. (e = Left \/ e = Right) /\ Left # Right /\ Left \in Sides /\ Right \in Sides
    BY SideFacts
  <2>1. CASE k = n
    BY <1>15, <2>1
  <2>2. CASE k = m /\ e = Left
    <3>1. u.kid[m][Left] = l
      BY <1>2, <1>14, <1>15, <2>0
    <3>2. w.kid[n][Left] = l
      BY <1>2, <1>5, <1>16, <2>0 DEF l
    <3> QED
      BY <1>2, <2>2, <3>1, <3>2
  <2>3. CASE k = m /\ e = Right /\ p # n
    <3>1. u.kid[m][Right] = r
      BY <1>2, <1>4, <1>12, <1>14, <1>15, <2>0, <2>3
    <3>2. w.kid[n][Right] = r
      BY <1>2, <1>6, <1>16, <2>0, <2>3 DEF r
    <3> QED
      BY <1>2, <2>3, <3>1, <3>2
  <2>4. CASE k = m /\ e = Right /\ p = n
    <3>1. u.kid[m][Right] = child
      BY <1>2, <1>9, <1>12, <1>14, <1>15, <2>0, <2>4 DEF child
    <3>2. w.kid[n][Right] = child
      BY <1>2, <1>6, <1>16, <2>0, <2>4 DEF r
    <3> QED
      BY <1>2, <2>4, <3>1, <3>2
  <2>5. CASE k # n /\ k # m /\ k = p /\ e = Left
    <3>1. u.kid[k][e] = child
      BY <1>12, <1>14, <1>15, <2>5
    <3>2. w.kid[k][e] = child
      BY <1>16, <1>19, <2>5
    <3> QED
      BY <1>2, <2>5, <3>1, <3>2
  <2>6. CASE k # n /\ k # m /\ ~(k = p /\ e = Left)
    <3>1. u.kid[k][e] = s.kid[k][e]
      BY <1>12, <1>14, <1>15, <2>6
    <3>2. w.kid[k][e] = t.kid[k][e]
      BY <1>16, <1>19, <2>6
    <3> QED
      BY <1>9, <2>6, <3>1, <3>2
  <2> QED
    BY <2>0, <2>1, <2>2, <2>3, <2>4, <2>5, <2>6
<1>21. ASSUME NEW k \in Keys
       PROVE  u.parent[k] = IF k = n THEN NULL
                            ELSE IF k = m THEN w.parent[n]
                            ELSE IF w.parent[k] = n THEN m ELSE w.parent[k]
  <2>1. CASE k = n
    BY <1>15, <2>1
  <2>2. CASE k = m
    <3>1. u.parent[m] = q
      BY <1>2, <1>5, <1>14, <1>15
    <3>2. w.parent[n] = q
      BY <1>2, <1>16 DEF q
    <3> QED
      BY <1>2, <2>2, <3>1, <3>2
  <2>3. CASE k = l
    <3>1. u.parent[k] = m
      BY <1>4, <1>14, <1>15, <2>3
    <3>2. w.parent[k] = n
      BY <1>4, <1>5, <1>16, <2>3
    <3> QED
      BY <1>4, <1>5, <2>3, <3>1, <3>2
  <2>4. CASE k = r /\ k # m
    <3>1. u.parent[k] = m
      BY <1>4, <1>6, <1>12, <1>14, <1>15, <2>4
    <3>2. w.parent[k] = n
      BY <1>4, <1>16, <2>4
    <3> QED
      BY <1>4, <2>4, <3>1, <3>2
  <2>5. CASE k = child
    <3>1. u.parent[k] = IF p # n THEN p ELSE m
      <4>1. child # NULL /\ child # l /\ child # r /\ t.parent[child] = m
        BY <1>4, <2>5
      <4> QED
        BY <1>2, <1>12, <1>14, <1>15, <2>5, <4>1
    <3>2. w.parent[k] = p
      BY <1>2, <1>16, <2>5
    <3> QED
      BY <1>2, <2>5, <3>1, <3>2
  <2>6. CASE k \notin {n, m, l, r, child}
    <3>1. t.parent[k] # n
      <4> SUFFICES ASSUME t.parent[k] = n
                   PROVE  FALSE
        OBVIOUS
      <4>1. PICK e \in Sides : t.kid[n][e] = k
        BY <1>4 DEF Shape, ParentsHold
      <4> QED
        BY <2>6, <4>1, SideFacts DEF l, r
    <3>2. u.parent[k] = t.parent[k]
      BY <1>12, <1>14, <1>15, <2>6
    <3>3. w.parent[k] = t.parent[k]
      BY <1>16, <2>6
    <3> QED
      BY <2>6, <3>1, <3>2, <3>3
  <2> QED
    BY <2>1, <2>2, <2>3, <2>4, <2>5, <2>6
<1>22. Taken(w, u, n, m)
  BY <1>15, <1>17, <1>18, <1>20, <1>21 DEF Taken
<1> QED
  BY <1>1, <1>22

(***************************************************************************)
(* The node that takes the place has the interval and the height of the    *)
(* one that leaves; no node of the tree is between the two.                *)
(***************************************************************************)
Renamed(b, n, m) ==
  [k \in Keys |-> [f \in Sides |-> IF k = m THEN b[n][f]
                                   ELSE IF b[k][f] = n THEN m ELSE b[k][f]]]
Neighbours(t, b, n, m) ==
  /\ m \in Keys /\ m \notin Members(t) /\ Within(m, b[n])
  /\ \A k \in Members(t) : \A d \in Sides : k # n /\ Beyond(d, k, n) => Beyond(d, k, m)

(* The members and links after another node took the place of one.         *)
LEMMA TakenFacts ==
  ASSUME NEW t, NEW b, Shape(t, b), NEW n \in Members(t), NEW m \in Keys,
         m \notin Members(t), NEW u, Taken(t, u, n, m)
  PROVE  /\ t \in Trees /\ u \in Trees /\ n \in Keys /\ n # m /\ n # NULL /\ m # NULL
         /\ Members(t) \subseteq Keys /\ NULL \notin Keys
         /\ Members(u) = (Members(t) \ {n}) \union {m}
         /\ \A e \in Sides : u.kid[m][e] = t.kid[n][e] /\ t.kid[n][e] # n
         /\ u.parent[m] = t.parent[n] /\ t.parent[n] # n
         /\ \A k \in Members(t) : \A e \in Sides : t.kid[k][e] # m
         /\ \A k \in Keys : k # n /\ k # m =>
              /\ \A e \in Sides : u.kid[k][e] = IF t.kid[k][e] = n THEN m ELSE t.kid[k][e]
              /\ u.parent[k] = IF t.parent[k] = n THEN m ELSE t.parent[k]
<1>1. t \in Trees /\ n \in Keys /\ n # m /\ n # NULL /\ m # NULL /\ Members(t) \subseteq Keys /\ NULL \notin Keys
  BY ShapeFacts, TreeTypes
<1>2. /\ u \in Trees /\ u.root = IF n = t.root THEN m ELSE t.root
      /\ \A k \in Keys : \A e \in Sides :
           u.kid[k][e] = IF k = n THEN NULL ELSE IF k = m THEN t.kid[n][e]
                         ELSE IF t.kid[k][e] = n THEN m ELSE t.kid[k][e]
      /\ \A k \in Keys : u.parent[k] = IF k = n THEN NULL ELSE IF k = m THEN t.parent[n]
                                       ELSE IF t.parent[k] = n THEN m ELSE t.parent[k]
  BY DEF Taken
<1>3. \A e \in Sides : t.kid[n][e] # n
  BY <1>1, ShapeFacts
<1>4. t.parent[n] # n
  BY <1>1, <1>3, ShapeFacts
<1>5. \A k \in Members(t) : \A e \in Sides : t.kid[k][e] # m
  BY <1>1, ShapeFacts
<1>6. ASSUME NEW k \in Keys
      PROVE  k \in Members(u) <=> k = m \/ (k \in Members(t) /\ k # n)
  <2>1. k \in Members(u) <=> k = u.root \/ u.parent[k] # NULL
    BY <1>2, TreeTypes
  <2>2. k \in Members(t) <=> k = t.root \/ t.parent[k] # NULL
    BY <1>1, TreeTypes
  <2>3. CASE k = n
    BY <1>1, <1>2, <2>1, <2>3
  <2>4. CASE k = m
    <3>1. n = t.root \/ t.parent[n] # NULL
      BY <1>1, TreeTypes
    <3> QED
      BY <1>1, <1>2, <2>1, <2>4, <3>1
  <2>5. CASE k # n /\ k # m
    BY <1>1, <1>2, <2>1, <2>2, <2>5
  <2> QED
    BY <2>3, <2>4, <2>5
<1>7. Members(u) = (Members(t) \ {n}) \union {m}
  BY <1>1, <1>2, <1>6, TreeTypes
<1> QED
  BY <1>1, <1>2, <1>3, <1>4, <1>5, <1>7

(* The shape of the tree after it.                                         *)
LEMMA TakenShape ==
  ASSUME NEW t, NEW b, Shape(t, b), NEW n \in Members(t), NEW m,
         Neighbours(t, b, n, m), NEW u, Taken(t, u, n, m)
  PROVE  Shape(u, Renamed(b, n, m))
<1> DEFINE c == Renamed(b, n, m)
<1>1. /\ m \in Keys /\ m \notin Members(t) /\ Within(m, b[n])
      /\ \A k \in Members(t) : \A d \in Sides : k # n /\ Beyond(d, k, n) => Beyond(d, k, m)
  BY DEF Neighbours
<1>2. /\ t \in Trees /\ u \in Trees /\ n \in Keys /\ n # m /\ n # NULL /\ m # NULL
      /\ Members(t) \subseteq Keys /\ NULL \notin Keys
      /\ Members(u) = (Members(t) \ {n}) \union {m}
      /\ \A e \in Sides : u.kid[m][e] = t.kid[n][e] /\ t.kid[n][e] # n
      /\ u.parent[m] = t.parent[n] /\ t.parent[n] # n
      /\ \A k \in Members(t) : \A e \in Sides : t.kid[k][e] # m
      /\ \A k \in Keys : k # n /\ k # m =>
           /\ \A e \in Sides : u.kid[k][e] = IF t.kid[k][e] = n THEN m ELSE t.kid[k][e]
           /\ u.parent[k] = IF t.parent[k] = n THEN m ELSE t.parent[k]
  BY <1>1, TakenFacts
<1>3. \A k \in Keys : \A e \in Sides :
        /\ b[k][e] \in MaybeKeys
        /\ c[k][e] = IF k = m THEN b[n][e] ELSE IF b[k][e] = n THEN m ELSE b[k][e]
  BY ShapeFacts DEF Renamed
<1>4. c \in Bounds
  BY <1>1, <1>2, <1>3 DEF Bounds, MaybeKeys, Renamed
<1>5. \A e \in Sides : b[n][e] # n
  BY <1>2, ShapeFacts
<1>6. \A e \in Sides : c[m][e] = b[n][e]
  BY <1>1, <1>3
<1>7. \A k \in Keys : \A e \in Sides : k # m => c[k][e] = IF b[k][e] = n THEN m ELSE b[k][e]
  BY <1>3
<1> HIDE DEF c
<1>8. RootFree(u, c)
  <2>1. u.root = IF n = t.root THEN m ELSE t.root
    BY DEF Taken
  <2>2. CASE n = t.root
    BY <1>2, <1>6, <2>1, <2>2, ShapeFacts DEF RootFree
  <2>3. CASE n # t.root /\ t.root # NULL
    <3>1. t.root \in Members(t) /\ t.root \in Keys /\ t.root # m /\ t.parent[t.root] = NULL
          /\ \A d \in Sides : b[t.root][d] = NULL
      BY <1>1, <2>3, ShapeFacts
    <3> QED
      BY <1>2, <1>7, <2>1, <2>3, <3>1 DEF RootFree
  <2> QED
    BY <1>2, <2>1, <2>2, <2>3 DEF RootFree
<1>9. ASSUME NEW k \in Members(u), NEW e \in Sides, u.kid[k][e] # NULL
      PROVE  Hangs(u, c, k, e)
  <2>1. Other(e) \in Sides
    BY SideFacts
  <2>2. CASE k = m
    <3> DEFINE y == t.kid[n][e]
    <3>1. u.kid[k][e] = y /\ y # NULL
      BY <1>2, <1>9, <2>2
    <3>2. y \in Members(t) /\ y \in Keys /\ t.parent[y] = n /\ b[y][e] = b[n][e] /\ b[y][Other(e)] = n /\ y # n
      BY <1>2, <3>1, ShapeFacts
    <3>3. y # m
      BY <1>1, <3>2
    <3> HIDE DEF y
    <3>4. u.parent[y] = m
      BY <1>2, <3>2, <3>3
    <3>5. c[y][e] = c[m][e] /\ c[y][Other(e)] = m
      BY <1>5, <1>6, <1>7, <2>1, <3>2, <3>3
    <3> QED
      BY <2>2, <3>1, <3>4, <3>5 DEF Hangs
  <2>3. CASE k # m /\ t.kid[k][e] = n
    <3>1. k \in Members(t) /\ k \in Keys /\ k # n
      BY <1>2, <2>3
    <3>2. u.kid[k][e] = m
      BY <1>2, <2>3, <3>1
    <3>3. t.parent[n] = k /\ b[n][e] = b[k][e] /\ b[n][Other(e)] = k
      BY <1>2, <2>3, <3>1, KidFacts
    <3>4. c[m][e] = c[k][e] /\ c[m][Other(e)] = k
      BY <1>5, <1>6, <1>7, <2>1, <2>3, <3>1, <3>3
    <3> QED
      BY <1>2, <3>2, <3>3, <3>4 DEF Hangs
  <2>4. CASE k # m /\ t.kid[k][e] # n
    <3> DEFINE y == t.kid[k][e]
    <3>1. k \in Members(t) /\ k \in Keys /\ k # n
      BY <1>2, <2>4
    <3>2. u.kid[k][e] = y /\ y # NULL
      BY <1>2, <1>9, <2>4, <3>1
    <3>3. y \in Members(t) /\ y \in Keys /\ t.parent[y] = k /\ b[y][e] = b[k][e] /\ b[y][Other(e)] = k
      BY <1>2, <3>1, <3>2, ShapeFacts
    <3>4. y # m /\ y # n
      BY <1>1, <2>4, <3>3
    <3> HIDE DEF y
    <3>5. u.parent[y] = k
      BY <1>2, <3>1, <3>3, <3>4
    <3>6. c[y][e] = c[k][e] /\ c[y][Other(e)] = k
      BY <1>7, <2>1, <2>4, <3>1, <3>3, <3>4
    <3> QED
      BY <3>2, <3>5, <3>6 DEF Hangs
  <2> QED
    BY <2>2, <2>3, <2>4
<1>10. ASSUME NEW k \in Keys, u.parent[k] # NULL
       PROVE  u.parent[k] \in Members(u) /\ \E e \in Sides : u.kid[u.parent[k]][e] = k
  <2>0. k # n
    BY <1>10 DEF Taken
  <2>1. CASE k = m
    <3> DEFINE q == t.parent[n]
    <3>1. u.parent[k] = q /\ q # NULL
      BY <1>2, <1>10, <2>1
    <3>2. q \in Members(t) /\ \E e \in Sides : t.kid[q][e] = n
      BY <1>2, <3>1 DEF Shape, ParentsHold
    <3>3. PICK e \in Sides : t.kid[q][e] = n
      BY <3>2
    <3>4. q \in Keys /\ q # n /\ q # m
      BY <1>1, <1>2, <3>2
    <3> HIDE DEF q
    <3>5. u.kid[q][e] = m
      BY <1>2, <3>3, <3>4
    <3> QED
      BY <1>2, <2>1, <3>1, <3>2, <3>4, <3>5
  <2>2. CASE k # m /\ t.parent[k] = n
    <3>1. u.parent[k] = m
      BY <1>2, <2>0, <2>2
    <3>2. \E e \in Sides : t.kid[n][e] = k
      BY <1>2, <2>2 DEF Shape, ParentsHold
    <3> QED
      BY <1>2, <3>1, <3>2
  <2>3. CASE k # m /\ t.parent[k] # n
    <3> DEFINE q == t.parent[k]
    <3>1. u.parent[k] = q /\ q # NULL
      BY <1>2, <1>10, <2>0, <2>3
    <3>2. q \in Members(t) /\ \E e \in Sides : t.kid[q][e] = k
      BY <3>1 DEF Shape, ParentsHold
    <3>3. PICK e \in Sides : t.kid[q][e] = k
      BY <3>2
    <3>4. q \in Keys /\ q # n /\ q # m
      BY <1>1, <1>2, <2>3, <3>2
    <3> HIDE DEF q
    <3>5. u.kid[q][e] = k
      BY <1>2, <2>0, <3>3, <3>4
    <3> QED
      BY <1>2, <3>1, <3>2, <3>4, <3>5
  <2> QED
    BY <2>1, <2>2, <2>3
<1>11. ASSUME NEW k \in Members(u)
       PROVE  Within(k, c[k])
  <2>1. CASE k = m
    BY <1>1, <1>6, <2>1 DEF Within
  <2>2. CASE k # m
    <3>1. k \in Members(t) /\ k \in Keys /\ k # n
      BY <1>2, <2>2
    <3>2. ASSUME NEW e \in Sides, c[k][e] # NULL
          PROVE  Beyond(Other(e), k, c[k][e])
      <4>0. Other(e) \in Sides
        BY SideFacts
      <4>1. CASE b[k][e] = n
        <5>1. Beyond(Other(e), k, n)
          BY <1>2, <3>1, <4>1, ShapeFacts
        <5> QED
          BY <1>1, <1>7, <2>2, <3>1, <4>0, <4>1, <5>1
      <4>2. CASE b[k][e] # n
        BY <1>7, <2>2, <3>1, <3>2, <4>2, ShapeFacts
      <4> QED
        BY <4>1, <4>2
    <3> QED
      BY <3>2 DEF Within
  <2> QED
    BY <2>1, <2>2
<1>12. ASSUME NEW k \in Keys, k \notin Members(u), NEW e \in Sides
       PROVE  u.kid[k][e] = NULL
  <2>1. CASE k = n
    BY <2>1 DEF Taken
  <2>2. CASE k # n
    <3>1. k # m /\ k \notin Members(t)
      BY <1>2, <1>12, <2>2
    <3>2. t.kid[k][e] = NULL
      BY <3>1, ShapeFacts
    <3> QED
      BY <1>2, <2>2, <3>1, <3>2
  <2> QED
    BY <2>1, <2>2
<1>13. Shape(u, c)
  BY <1>2, <1>4, <1>8, <1>9, <1>10, <1>11, <1>12
     DEF Shape, KidsHang, ParentsHold, Ordered, OthersClear
<1> QED
  BY <1>13 DEF c

(* The colours and heights after it: m has the height of n.                *)
Heir(h, g, n, m) == g = [h EXCEPT ![m] = h[n]]

(* Every way has the black nodes it had, with m in the place of n.         *)
LEMMA TakenColours ==
  ASSUME NEW t, NEW b, Shape(t, b), NEW n \in Members(t), NEW m \in Keys,
         m \notin Members(t), NEW u, Taken(t, u, n, m),
         NEW h \in Heights, NEW g, Heir(h, g, n, m)
  PROVE  /\ g \in Heights
         /\ \A p \in MaybeKeys \ {m} : \A d : Even(t, h, p, d) => Even(u, g, IF p = n THEN m ELSE p, d)
         /\ \A x \in MaybeKeys \ {n, m} : Apart(t, x, x) => Apart(u, x, x)
         /\ Apart(t, NULL, NULL) => Apart(u, NULL, NULL)
<1>1. /\ t \in Trees /\ u \in Trees /\ n \in Keys /\ n # m /\ n # NULL /\ m # NULL
      /\ Members(t) \subseteq Keys /\ NULL \notin Keys
      /\ Members(u) = (Members(t) \ {n}) \union {m}
      /\ \A e \in Sides : u.kid[m][e] = t.kid[n][e] /\ t.kid[n][e] # n
      /\ \A k \in Members(t) : \A e \in Sides : t.kid[k][e] # m
      /\ \A k \in Keys : k # n /\ k # m =>
           \A e \in Sides : u.kid[k][e] = IF t.kid[k][e] = n THEN m ELSE t.kid[k][e]
  BY TakenFacts
<1>2. u.root = (IF n = t.root THEN m ELSE t.root) /\ (u.red[m] <=> t.red[n])
      /\ \A k \in Keys : k # n /\ k # m => u.red[k] = t.red[k]
  BY DEF Taken
<1>3. g \in Heights /\ g[m] = h[n] /\ \A k \in Keys : k # m => g[k] = h[k]
  BY <1>1 DEF Heights, Heir
<1> DEFINE R(k) == IF k = n THEN m ELSE k
<1>4. \A k \in Keys : t.red[k] \in BOOLEAN /\ u.red[k] \in BOOLEAN
  BY <1>1, TreeTypes
<1>5. ASSUME NEW k \in Members(u)
      PROVE  \E o \in Members(t) : /\ o \in Keys /\ k = R(o) /\ o # m
                                   /\ \A e \in Sides : u.kid[k][e] = R(t.kid[o][e]) /\ t.kid[o][e] # m
                                   /\ (u.red[k] <=> t.red[o]) /\ g[k] = h[o]
  <2>1. CASE k = m
    <3>1. \A e \in Sides : u.kid[m][e] = R(t.kid[n][e]) /\ t.kid[n][e] # m
      BY <1>1
    <3> QED
      BY <1>1, <1>2, <1>3, <2>1, <3>1
  <2>2. CASE k # m
    <3>1. k \in Members(t) /\ k \in Keys /\ k # n
      BY <1>1, <2>2
    <3>2. \A e \in Sides : u.kid[k][e] = R(t.kid[k][e]) /\ t.kid[k][e] # m
      BY <1>1, <2>2, <3>1
    <3> QED
      BY <1>2, <1>3, <2>2, <3>1, <3>2
  <2> QED
    BY <2>1, <2>2
<1>6. ASSUME NEW y \in MaybeKeys, y # m
      PROVE  HeightOf(g, R(y)) = HeightOf(h, y) /\ (IsRed(u, R(y)) <=> IsRed(t, y))
  <2>1. CASE y = n
    BY <1>1, <1>2, <1>3, <2>1 DEF HeightOf, IsRed
  <2>2. CASE y # n
    BY <1>1, <1>2, <1>3, <1>6, <2>2 DEF HeightOf, IsRed, MaybeKeys
  <2> QED
    BY <2>1, <2>2
<1>7. \A k \in Keys : \A e \in Sides : t.kid[k][e] \in MaybeKeys
  BY <1>1, TreeTypes
<1>8. t.root \in MaybeKeys /\ t.root # m /\ u.root = R(t.root)
  BY <1>1, <1>2, ShapeFacts, TreeTypes
<1>9. ASSUME NEW p \in MaybeKeys \ {m}, NEW d, Even(t, h, p, d)
      PROVE  Even(u, g, R(p), d)
  <2>1. ASSUME NEW k \in Members(u), NEW e \in Sides
        PROVE  g[k] = HeightOf(g, u.kid[k][e]) + Weight(u, k) + Lack(R(p), d, k, e)
    <3>1. PICK o \in Members(t) : /\ o \in Keys /\ k = R(o) /\ o # m
                                  /\ \A f \in Sides : u.kid[k][f] = R(t.kid[o][f]) /\ t.kid[o][f] # m
                                  /\ (u.red[k] <=> t.red[o]) /\ g[k] = h[o]
      BY <1>5
    <3>2. HeightOf(g, u.kid[k][e]) = HeightOf(h, t.kid[o][e])
      <4>1. t.kid[o][e] \in MaybeKeys /\ t.kid[o][e] # m /\ u.kid[k][e] = R(t.kid[o][e])
        BY <1>7, <3>1
      <4> HIDE DEF R
      <4> QED
        BY <1>6, <4>1
    <3>3. Weight(u, k) = Weight(t, o)
      BY <3>1 DEF Weight
    <3>4. Lack(R(p), d, k, e) = Lack(p, d, o, e)
      BY <1>1, <3>1 DEF Lack
    <3>5. h[o] = HeightOf(h, t.kid[o][e]) + Weight(t, o) + Lack(p, d, o, e)
      BY <1>9, <3>1 DEF Even
    <3> QED
      BY <3>1, <3>2, <3>3, <3>4, <3>5
  <2> QED
    BY <2>1 DEF Even
<1>10. ASSUME NEW x \in MaybeKeys \ {n, m}, Apart(t, x, x)
       PROVE  Apart(u, x, x)
  <2>1. IsRed(u, u.root) => u.root = x
    <3>1. IsRed(u, R(t.root)) <=> IsRed(t, t.root)
      BY <1>6, <1>8
    <3>2. IsRed(t, t.root) => t.root = x
      BY <1>10 DEF Apart
    <3> QED
      BY <1>1, <1>8, <3>1, <3>2
  <2>2. ASSUME NEW k \in Members(u), NEW e \in Sides, u.red[k], IsRed(u, u.kid[k][e])
        PROVE  u.kid[k][e] = x \/ k = x
    <3>1. PICK o \in Members(t) : /\ o \in Keys /\ k = R(o) /\ o # m
                                  /\ \A f \in Sides : u.kid[k][f] = R(t.kid[o][f]) /\ t.kid[o][f] # m
                                  /\ (u.red[k] <=> t.red[o]) /\ g[k] = h[o]
      BY <1>5
    <3>2. t.red[o] /\ IsRed(t, t.kid[o][e])
      <4>1. t.kid[o][e] \in MaybeKeys /\ t.kid[o][e] # m /\ u.kid[k][e] = R(t.kid[o][e])
        BY <1>7, <3>1
      <4> HIDE DEF R
      <4> QED
        BY <1>6, <2>2, <3>1, <4>1
    <3>3. t.kid[o][e] = x \/ o = x
      BY <1>10, <3>2 DEF Apart
    <3> QED
      BY <1>1, <3>1, <3>3
  <2> QED
    BY <2>1, <2>2 DEF Apart
<1>11. NULL \in MaybeKeys \ {n, m}
  BY <1>1 DEF MaybeKeys
<1> QED
  BY <1>3, <1>9, <1>10, <1>11

(***************************************************************************)
(* rb_erase(), before __rb_erase_color(): the node is gone, and where a    *)
(* black one left its place the subtree of x is short of one.  Short says  *)
(* so of the side of p on which x hangs.                                   *)
(***************************************************************************)
Short(u, p, x, black) ==
  /\ p \in Members(u)
  /\ \E e \in Sides : u.kid[p][e] = x /\ (black => \E f \in Heights : Even(u, f, p, e))

(* A node with at most one child.                                          *)
LEMMA SpliceKeeps ==
  ASSUME NEW t, NEW b, Shape(t, b), NEW n \in Members(t),
         \E d \in Sides : t.kid[n][d] = NULL,
         NEW h \in Heights, Even(t, h, NULL, Left), Apart(t, NULL, NULL),
         NEW u, u = Spliced(t, n), NEW x, x = OnlyKid(t, n)
  PROVE  /\ Members(u) = Members(t) \ {n} /\ \E c : Shape(u, c)
         /\ Apart(u, x, x) /\ x \in MaybeKeys /\ t.parent[n] \in MaybeKeys
         /\ t.red[n] => Apart(u, NULL, NULL) /\ \E f \in Heights : Even(u, f, NULL, Left)
         /\ t.parent[n] = NULL => u.root = x /\ \E f \in Heights : Even(u, f, NULL, Left)
         /\ t.parent[n] # NULL => Short(u, t.parent[n], x, ~t.red[n])
<1>1. Cut(t, u, n, x) /\ \E d \in Sides : t.kid[n][d] = x /\ t.kid[n][Other(d)] = NULL
  BY SplicedIs
<1>2. Members(u) = Members(t) \ {n} /\ Shape(u, Widened(b, n))
  BY <1>1, CutShape
<1>3. /\ Apart(u, x, x)
      /\ t.red[n] => Apart(u, NULL, NULL) /\ Even(u, h, NULL, Left)
      /\ t.parent[n] = NULL => u.root = x /\ Even(u, h, NULL, Left)
      /\ t.parent[n] # NULL =>
           /\ t.parent[n] \in Members(u)
           /\ \E e \in Sides : /\ u.kid[t.parent[n]][e] = x
                               /\ ~t.red[n] => Even(u, h, t.parent[n], e)
  <2>1. /\ Cut(t, u, n, x) /\ Members(u) = Members(t) \ {n}
        /\ \E d \in Sides : t.kid[n][d] = x /\ t.kid[n][Other(d)] = NULL
    BY <1>1, <1>2
  <2>2. Apart(u, x, x)
    BY <2>1, CutColours
  <2>3. t.red[n] => Apart(u, NULL, NULL) /\ Even(u, h, NULL, Left)
    BY <2>1, CutColours
  <2>4. t.parent[n] = NULL => u.root = x /\ Even(u, h, NULL, Left)
    BY <2>1, CutColours
  <2>5. t.parent[n] # NULL => t.parent[n] \in Members(u)
    BY <2>1, CutColours
  <2>6. t.parent[n] # NULL => \E e \in Sides : /\ u.kid[t.parent[n]][e] = x
                                               /\ ~t.red[n] => Even(u, h, t.parent[n], e)
    BY <2>1, CutColours
  <2> QED
    BY <2>2, <2>3, <2>4, <2>5, <2>6
<1>4. x \in MaybeKeys /\ t.parent[n] \in MaybeKeys
  BY <1>1, ShapeFacts, TreeTypes
<1>5. t.parent[n] # NULL => Short(u, t.parent[n], x, ~t.red[n])
  BY <1>3 DEF Short
<1> QED
  BY <1>2, <1>3, <1>4, <1>5

(* A node with two, in whose place the next one is put.                    *)
LEMMA SucceedKeeps ==
  ASSUME NEW t, NEW b, Shape(t, b), NEW n, NEW m, Successor(t, b, n, m),
         NEW h \in Heights, Even(t, h, NULL, Left), Apart(t, NULL, NULL),
         NEW u, u = Succeeded(t, n, m), NEW x, x = t.kid[m][Right],
         NEW p, p = IF t.parent[m] = n THEN m ELSE t.parent[m]
  PROVE  /\ Members(u) = Members(t) \ {n} /\ \E c : Shape(u, c)
         /\ Apart(u, x, x) /\ x \in MaybeKeys /\ p \in MaybeKeys
         /\ t.red[m] => Apart(u, NULL, NULL) /\ \E f \in Heights : Even(u, f, NULL, Left)
         /\ Short(u, p, x, ~t.red[m])
<1> DEFINE w == Spliced(t, m)
           c == Widened(b, m)
           g == [h EXCEPT ![m] = h[n]]
           q == t.parent[m]
<1>1. /\ n \in Members(t) /\ m \in Members(t) /\ n \in Keys /\ m \in Keys /\ m # n
      /\ m # t.root /\ q \in Members(t)
      /\ x # n /\ x # m /\ n < m /\ Covers(b, n, m)
  BY SuccessorFacts
<1>2. t.kid[m][Left] = NULL /\ b[m][Left] = n /\ OnlyKid(t, m) = x
  BY DEF Successor, OnlyKid
<1>3. Cut(t, w, m, x) /\ \E d \in Sides : t.kid[m][d] = x /\ t.kid[m][Other(d)] = NULL
  <2>1. \E d \in Sides : t.kid[m][d] = NULL
    BY <1>2, SideFacts
  <2> QED
    BY <1>1, <1>2, <2>1, SplicedIs
<1>4. Taken(w, u, n, m)
  BY <1>3, SucceededIs
<1> HIDE DEF w, q
<1>5. Members(w) = Members(t) \ {m} /\ Shape(w, c)
  BY <1>1, <1>3, CutShape
<1>6. NULL \notin Keys /\ q # NULL /\ x \in MaybeKeys /\ q # m
  BY <1>1, <1>2, ShapeFacts, TreeTypes, SideFacts DEF q
<1>7. /\ Apart(w, x, x)
      /\ t.red[m] => Apart(w, NULL, NULL) /\ Even(w, h, NULL, Left)
      /\ q \in Members(w)
      /\ \E e \in Sides : /\ w.kid[q][e] = x
                          /\ ~t.red[m] => Even(w, h, q, e)
  <2>1. /\ Apart(w, x, x)
        /\ t.red[m] => Apart(w, NULL, NULL) /\ Even(w, h, NULL, Left)
        /\ t.parent[m] = NULL => w.root = x /\ Even(w, h, NULL, Left)
        /\ t.parent[m] # NULL =>
             /\ t.parent[m] \in Members(w)
             /\ \E e \in Sides : /\ w.kid[t.parent[m]][e] = x
                                 /\ ~t.red[m] => Even(w, h, t.parent[m], e)
    BY <1>1, <1>3, <1>5, CutColours
  <2> QED
    BY <1>6, <2>1 DEF q
<1>8. n \in Members(w) /\ m \notin Members(w)
  BY <1>1, <1>5
<1>9. Neighbours(w, c, n, m)
  <2>1. Within(m, c[n])
    <3>1. ASSUME NEW f \in Sides, b[n][f] = m
          PROVE  FALSE
      <4>1. Beyond(Other(f), m, m)
        BY <1>1, <1>6, <3>1 DEF Covers, Within
      <4> QED
        BY <1>1, <4>1, SideFacts, BeyondFacts
    <3>2. \A f \in Sides : c[n][f] = b[n][f]
      BY <1>1, <3>1 DEF Widened
    <3> QED
      BY <1>1, <3>2 DEF Covers, Within
  <2>2. ASSUME NEW k \in Members(w), NEW d \in Sides, k # n, Beyond(d, k, n)
        PROVE  Beyond(d, k, m)
    <3>1. k \in Members(t) /\ k # m /\ k \in Keys
      BY <1>5, ShapeFacts
    <3>2. CASE d = Left
      <4>1. Beyond(Left, n, m)
        BY <1>1 DEF Beyond
      <4> QED
        BY <1>1, <2>2, <3>1, <3>2, <4>1, SideFacts, BeyondFacts
    <3>3. CASE d = Right
      BY <1>1, <1>2, <2>2, <3>1, <3>3, NextIsBelow, SideFacts
    <3> QED
      BY <3>2, <3>3, SideFacts
  <2> QED
    BY <1>1, <1>8, <2>1, <2>2 DEF Neighbours
<1>10. Shape(u, Renamed(c, n, m))
  BY <1>4, <1>5, <1>8, <1>9, TakenShape
<1> HIDE DEF c
<1>11. /\ Members(u) = (Members(w) \ {n}) \union {m}
       /\ \A e \in Sides : u.kid[m][e] = w.kid[n][e] /\ w.kid[n][e] # n
       /\ \A k \in Keys : k # n /\ k # m =>
            \A e \in Sides : u.kid[k][e] = IF w.kid[k][e] = n THEN m ELSE w.kid[k][e]
  BY <1>1, <1>4, <1>5, <1>8, TakenFacts
<1>12. Members(u) = Members(t) \ {n}
  BY <1>1, <1>5, <1>11
<1>g. Heir(h, g, n, m)
  BY DEF Heir
<1> HIDE DEF g
<1>13. /\ g \in Heights
       /\ \A o \in MaybeKeys \ {m} : \A d : Even(w, h, o, d) => Even(u, g, IF o = n THEN m ELSE o, d)
       /\ \A y \in MaybeKeys \ {n, m} : Apart(w, y, y) => Apart(u, y, y)
       /\ Apart(w, NULL, NULL) => Apart(u, NULL, NULL)
  BY <1>1, <1>4, <1>5, <1>8, <1>g, TakenColours
<1>14. Apart(u, x, x)
  BY <1>1, <1>6, <1>7, <1>13
<1>15. t.red[m] => Apart(u, NULL, NULL) /\ Even(u, g, NULL, Left)
  <2>1. NULL \in MaybeKeys \ {m} /\ NULL # n
    BY <1>1, <1>6 DEF MaybeKeys
  <2> QED
    BY <1>7, <1>13, <2>1
<1>16. p = (IF q = n THEN m ELSE q) /\ p \in Members(u) /\ p \in MaybeKeys
  <2>1. p = IF q = n THEN m ELSE q
    BY DEF q
  <2>2. q \in Keys
    BY <1>1, ShapeFacts
  <2> QED
    BY <1>1, <1>6, <1>12, <2>1, <2>2 DEF MaybeKeys
<1>17. PICK e \in Sides : w.kid[q][e] = x /\ (~t.red[m] => Even(w, h, q, e))
  BY <1>7
<1>18. u.kid[p][e] = x
  <2>1. CASE q = n
    BY <1>11, <1>16, <1>17, <2>1
  <2>2. CASE q # n
    <3>1. q \in Keys
      BY <1>1, ShapeFacts
    <3> QED
      BY <1>1, <1>6, <1>11, <1>16, <1>17, <2>2, <3>1
  <2> QED
    BY <2>1, <2>2
<1>19. ~t.red[m] => Even(u, g, p, e)
  <2>1. q \in MaybeKeys \ {m}
    BY <1>1, <1>6, ShapeFacts DEF MaybeKeys
  <2> QED
    BY <1>13, <1>16, <1>17, <2>1
<1>20. Short(u, p, x, ~t.red[m])
  BY <1>13, <1>16, <1>18, <1>19 DEF Short
<1> QED
  BY <1>6, <1>10, <1>12, <1>13, <1>14, <1>15, <1>16, <1>20

-----------------------------------------------------------------------------
(***************************************************************************)
(* The steps of the code.  Each keeps the invariant, for some bounds and   *)
(* heights, and is a step of the ordered set or none.                      *)
(***************************************************************************)
IInv == \E b, h : IInvAt(b, h)
Promised == O!Next \/ UNCHANGED <<Members(tree), treeCall, treeAnswer>>

(* The arguments of the calls.                                             *)
LEMMA AskedFacts ==
  ASSUME Asked
  PROVE  /\ op[1] \in {"find", "insert", "erase", "next", "prev"} => op[2] \in Keys /\ op = <<op[1], op[2]>>
         /\ op[1] = "between" => /\ op[2] \in Keys /\ op[3] \in Keys /\ op[2] < op[3]
                                 /\ op = <<"between", op[2], op[3]>>
<1>1. CASE op = <<"none">>
  BY <1>1
<1>2. CASE \E name \in {"find", "insert", "erase", "next", "prev"}, x \in Keys : op = <<name, x>>
  BY <1>2
<1>3. CASE \E x, y \in Keys : x < y /\ op = <<"between", x, y>>
  BY <1>3
<1> QED
  BY <1>1, <1>2, <1>3 DEF Asked

(* A call that ends leaves a red-black tree.                               *)
LEMMA EndedKeeps ==
  ASSUME Ended, NEW c, Shape(tree', c), NEW g \in Heights,
         Even(tree', g, NULL, Left), Apart(tree', NULL, NULL)
  PROVE  IInv'
<1>1. phase' \in Phases /\ Asked' /\ curr' \in MaybeKeys /\ up' \in MaybeKeys
  BY DEF Ended, Phases, Asked, MaybeKeys
<1>2. Places(c)'
  BY DEF Ended, Places, FoundOK, AtTurn, AtFarthest, AtClimb, AtWalk
<1>3. Colours(g)'
  BY DEF Ended, Colours
<1>4. IInvAt(c, g)'
  BY <1>1, <1>2, <1>3 DEF IInvAt
<1> QED
  BY <1>4 DEF IInv

(* A step that only looks leaves the tree and its bounds and heights.      *)
LEMMA LookKeeps ==
  ASSUME NEW b, NEW h, IInvAt(b, h), tree' = tree,
         phase \notin {"insert_color", "erase_color"},
         phase' \in Phases \ {"insert_color", "erase_color"},
         Asked', curr' \in MaybeKeys, up' \in MaybeKeys, Places(b)'
  PROVE  IInv'
<1>1. Colours(h)'
  BY DEF IInvAt, Colours
<1>2. IInvAt(b, h)'
  BY <1>1 DEF IInvAt
<1> QED
  BY <1>2 DEF IInv

(* rb_insert_color() goes on.                                              *)
LEMMA InsertKeeps ==
  ASSUME phase' = "insert_color", Asked', up' \in MaybeKeys, FoundOK',
         NEW c, Shape(tree', c), NEW g \in Heights, Even(tree', g, NULL, Left),
         curr' \in Members(tree'), tree'.red[curr'], Apart(tree', curr', NULL)
  PROVE  IInv'
<1>1. phase' \in Phases /\ curr' \in MaybeKeys
  BY DEF Phases, MaybeKeys, Members
<1>2. Places(c)'
  BY DEF Places, AtTurn, AtFarthest, AtClimb, AtWalk
<1>3. Colours(g)'
  BY DEF Colours
<1>4. IInvAt(c, g)'
  BY <1>1, <1>2, <1>3 DEF IInvAt
<1> QED
  BY <1>4 DEF IInv

(* __rb_erase_color() goes on.                                             *)
LEMMA EraseKeeps ==
  ASSUME phase' = "erase_color", Asked', up' \in MaybeKeys, FoundOK',
         NEW c, Shape(tree', c), NEW g \in Heights, curr' \in MaybeKeys, Apart(tree', curr', curr'),
         \/ curr' = tree'.root /\ Even(tree', g, NULL, Left) /\ (up' = NULL \/ up' \in Members(tree'))
         \/ /\ up' # NULL /\ up' \in Members(tree')
            /\ \E d \in Sides : tree'.kid[up'][d] = curr' /\ Even(tree', g, up', d)
  PROVE  IInv'
<1>1. phase' \in Phases
  BY DEF Phases
<1>2. Places(c)'
  BY DEF Places, AtTurn, AtFarthest, AtClimb, AtWalk
<1>3. Colours(g)'
  BY DEF Colours
<1>4. IInvAt(c, g)'
  BY <1>1, <1>2, <1>3 DEF IInvAt
<1> QED
  BY <1>4 DEF IInv

(* Where a search is.                                                      *)
LEMMA DescendFacts ==
  ASSUME NEW b, Shape(tree, b), AtDescend(b), Asked, curr \in MaybeKeys
  PROVE  /\ op[2] \in Keys
         /\ curr # NULL => curr \in Members(tree) /\ curr \in Keys /\ Within(op[2], b[curr])
         /\ curr = NULL => op[2] \notin Members(tree) /\ Free(tree, b, op[2], up) /\ up # op[2]
         /\ up \in MaybeKeys
<1> DEFINE x == op[2]
           d == Towards(x, up)
<1>1. x \in Keys
  BY DEF AtDescend
<1>2. tree \in Trees /\ NULL \notin Keys /\ Members(tree) \subseteq Keys
  BY ShapeFacts, TreeTypes
<1> HIDE DEF x
<1>3. CASE up = NULL
  <2>1. curr = tree.root
    BY <1>3 DEF AtDescend
  <2>2. CASE curr # NULL
    <3>1. curr \in Members(tree) /\ \A e \in Sides : b[curr][e] = NULL
      BY <2>1, <2>2, ShapeFacts
    <3> QED
      BY <1>1, <1>2, <1>3, <2>2, <3>1 DEF Within, x, MaybeKeys
  <2>3. CASE curr = NULL
    <3>1. Members(tree) = {}
      BY <2>1, <2>3, RootThere
    <3> QED
      BY <1>1, <1>2, <1>3, <2>1, <2>3, <3>1 DEF Free, x, MaybeKeys
  <2> QED
    BY <2>2, <2>3
<1>4. CASE up # NULL
  <2>1. up \in Members(tree) /\ up # x /\ Within(x, b[up]) /\ curr = tree.kid[up][d] /\ up \in Keys
    BY <1>2, <1>4 DEF AtDescend, x
  <2>2. d \in Sides /\ Beyond(d, x, up)
    BY <1>1, <2>1, BeyondFacts
  <2> HIDE DEF d
  <2>3. CASE curr # NULL
    <3>1. curr \in Members(tree) /\ curr \in Keys
      BY <2>1, <2>2, <2>3, ShapeFacts
    <3>2. Covers(b, tree.kid[up][d], x)
      <4>1. tree.kid[up][d] # NULL
        BY <2>1, <2>3
      <4>2. Covers(b, up, x)
        BY <2>1 DEF Covers
      <4> QED
        BY <1>1, <2>1, <2>2, <4>1, <4>2, KidCovers
    <3> QED
      BY <1>1, <1>2, <2>1, <2>3, <3>1, <3>2 DEF Covers, x, MaybeKeys
  <2>4. CASE curr = NULL
    <3>1. x \notin Members(tree)
      <4>1. tree.kid[up][d] = NULL /\ Covers(b, up, x)
        BY <2>1, <2>4 DEF Covers
      <4> QED
        BY <2>1, <2>2, <4>1, NothingThere
    <3>2. Free(tree, b, x, up)
      BY <2>1, <2>4 DEF Free, d
    <3> QED
      BY <1>1, <2>1, <2>4, <3>1, <3>2 DEF x, MaybeKeys
  <2> QED
    BY <2>3, <2>4
<1> QED
  BY <1>3, <1>4

(* A call begins.                                                          *)
LEMMA BeginKeeps ==
  ASSUME NEW b, NEW h, IInvAt(b, h), NEW x \in Keys,
         Search(x) \/ Step(x) \/ \E y \in Keys : Between(x, y)
  PROVE  IInv' /\ Promised
<1>1. PICK o, ph, n : Begin(o, ph, n) /\ \/ /\ ph = "descend" /\ n = tree.root
                                            /\ \/ \E name \in {"find", "insert", "erase"} : o = <<name, x>>
                                               \/ \E y \in Keys : x < y /\ o = <<"between", x, y>>
                                         \/ /\ ph = "turn" /\ n = x /\ x \in Members(tree)
                                            /\ \E name \in {"next", "prev"} : o = <<name, x>>
  <2>1. CASE Search(x)
    <3>1. PICK name \in {"find", "insert", "erase"} : Begin(<<name, x>>, "descend", tree.root)
      BY <2>1 DEF Search
    <3> QED
      BY <3>1
  <2>2. CASE Step(x)
    <3>1. PICK name \in {"next", "prev"} : Begin(<<name, x>>, "turn", x)
      BY <2>2 DEF Step
    <3>2. x \in Members(tree)
      BY <2>2 DEF Step
    <3> QED
      BY <3>1, <3>2
  <2>3. CASE \E y \in Keys : Between(x, y)
    <3>1. PICK y \in Keys : Between(x, y)
      BY <2>3
    <3> QED
      BY <3>1 DEF Between
  <2> QED
    BY <2>1, <2>2, <2>3
<1>2. /\ phase = "idle" /\ phase' = ph /\ op' = o /\ curr' = n /\ up' = NULL /\ found' = {}
      /\ treeCall' = <<"none">> /\ treeAnswer' = NULL /\ tree' = tree
  BY <1>1 DEF Begin
<1>3. Shape(tree, b) /\ tree \in Trees
  BY ShapeFacts DEF IInvAt
<1>4. Asked' /\ curr' \in MaybeKeys /\ up' \in MaybeKeys
  <2>1. Asked'
    BY <1>1, <1>2 DEF Asked
  <2>2. tree.root \in MaybeKeys
    BY <1>3, TreeTypes
  <2> QED
    BY <1>1, <1>2, <2>1, <2>2 DEF MaybeKeys
<1>5. FoundOK'
  BY <1>2 DEF FoundOK
<1>6. phase' = "descend" => AtDescend(b)'
  BY <1>1, <1>2 DEF AtDescend, Seeks
<1>7. AtTurn'
  BY <1>1, <1>2 DEF AtTurn, From, Passed
<1>8. Places(b)'
  BY <1>1, <1>2, <1>5, <1>6, <1>7 DEF Places, AtFarthest, AtClimb, AtWalk
<1>9. IInv'
  BY <1>1, <1>2, <1>4, <1>8, LookKeeps DEF Phases
<1>10. Promised
  BY <1>2 DEF Promised, O!Next, O!Begin
<1> QED
  BY <1>9, <1>10

(* The search goes down.                                                   *)
LEMMA DescendKeeps ==
  ASSUME NEW b, NEW h, IInvAt(b, h), Descend
  PROVE  IInv' /\ Promised
<1>1. /\ phase = "descend" /\ curr # NULL /\ curr # op[2] /\ up' = curr
      /\ curr' = tree.kid[curr][Towards(op[2], curr)]
      /\ tree' = tree /\ phase' = phase /\ op' = op /\ found' = found /\ treeCall' = treeCall /\ treeAnswer' = treeAnswer
  BY DEF Descend, answered, Towards
<1>2. Shape(tree, b) /\ AtDescend(b) /\ Asked /\ curr \in MaybeKeys /\ FoundOK
  BY <1>1 DEF IInvAt, Places
<1>3. op[2] \in Keys /\ curr \in Members(tree) /\ curr \in Keys /\ Within(op[2], b[curr])
  BY <1>1, <1>2, DescendFacts
<1>4. curr' \in MaybeKeys /\ up' \in MaybeKeys
  <2>1. Towards(op[2], curr) \in Sides /\ tree \in Trees
    BY <1>1, <1>2, <1>3, BeyondFacts, ShapeFacts
  <2> QED
    BY <1>1, <1>3, <2>1, TreeTypes DEF MaybeKeys
<1>5. AtDescend(b)'
  <2>1. NULL \notin Keys
    BY KeysAssumption
  <2> QED
    BY <1>1, <1>2, <1>3, <2>1 DEF AtDescend
<1>6. FoundOK' /\ Asked'
  BY <1>1, <1>2 DEF FoundOK, Asked
<1>7. Places(b)'
  BY <1>1, <1>5, <1>6 DEF Places, AtTurn, AtFarthest, AtClimb, AtWalk
<1>8. IInv'
  BY <1>1, <1>4, <1>6, <1>7, LookKeeps DEF Phases
<1>9. Promised
  BY <1>1 DEF Promised
<1> QED
  BY <1>8, <1>9

(* Between the calls, and while one looks for its place, the tree is a     *)
(* red-black tree.                                                         *)
LEMMA CalmFacts ==
  ASSUME NEW b, NEW h, IInvAt(b, h), phase \notin {"insert_color", "erase_color"}
  PROVE  Shape(tree, b) /\ h \in Heights /\ Even(tree, h, NULL, Left) /\ Apart(tree, NULL, NULL)
BY DEF IInvAt, Colours

(* get_system_at_x() answers.                                              *)
LEMMA FindEndsKeeps ==
  ASSUME NEW b, NEW h, IInvAt(b, h), FindEnds
  PROVE  IInv' /\ Promised
<1>1. /\ phase = "descend" /\ op[1] = "find" /\ curr \in {NULL, op[2]} /\ Ended
      /\ treeCall' = op /\ treeAnswer' = curr /\ tree' = tree
  BY DEF FindEnds, Answer
<1>2. Shape(tree, b) /\ AtDescend(b) /\ Asked /\ curr \in MaybeKeys
  BY <1>1 DEF IInvAt, Places
<1>3. IInv'
  BY <1>1, CalmFacts, EndedKeeps
<1>4. op = <<"find", op[2]>> /\ op[2] \in Keys
  BY <1>1, <1>2, AskedFacts
<1>5. curr = IF op[2] \in Members(tree) THEN op[2] ELSE NULL
  BY <1>1, <1>2, DescendFacts
<1>6. O!Find(op[2])
  BY <1>1, <1>4, <1>5 DEF O!Find
<1> QED
  BY <1>3, <1>4, <1>6 DEF Promised, O!Next

(* A call with nothing to do.                                              *)
LEMMA GiveUpKeeps ==
  ASSUME NEW b, NEW h, IInvAt(b, h), GiveUp
  PROVE  IInv' /\ Promised
<1>1. phase = "descend" /\ Ended /\ tree' = tree /\ treeCall' = treeCall /\ treeAnswer' = treeAnswer
  BY DEF GiveUp, answered
<1>2. IInv'
  BY <1>1, CalmFacts, EndedKeeps
<1> QED
  BY <1>1, <1>2 DEF Promised

(* The first system of a walk: none from x on is before it.                *)
LEMMA NearestKeeps ==
  ASSUME NEW b, NEW h, IInvAt(b, h), Nearest
  PROVE  IInv' /\ Promised
<1> DEFINE x == op[2]
<1>1. /\ phase = "descend" /\ op[1] = "between" /\ curr \in {NULL, x} /\ phase' = "walk"
      /\ curr' = IF curr = NULL THEN up ELSE curr
      /\ tree' = tree /\ op' = op /\ up' = up /\ found' = found /\ treeCall' = treeCall /\ treeAnswer' = treeAnswer
  BY DEF Nearest, answered
<1>2. Shape(tree, b) /\ AtDescend(b) /\ Asked /\ curr \in MaybeKeys /\ FoundOK
  BY <1>1 DEF IInvAt, Places
<1>3. x \in Keys /\ up \in MaybeKeys
      /\ (curr # NULL => curr \in Members(tree))
      /\ (curr = NULL => x \notin Members(tree) /\ Free(tree, b, x, up) /\ up # x)
  BY <1>2, DescendFacts
<1>4. NULL \notin Keys /\ Keys \subseteq Int /\ Members(tree) \subseteq Keys
  BY <1>2, ShapeFacts, TreeTypes, KeysAssumption
<1> HIDE DEF x
<1>5. curr' \in Members(tree) \union {NULL}
  BY <1>1, <1>3 DEF Free
<1>6. ASSUME NEW k \in Members(tree), k >= x, curr' = NULL \/ k < curr'
      PROVE  FALSE
  <2>0. k \in Keys /\ k \in Int /\ x \in Int
    BY <1>3, <1>4
  <2>1. CASE curr # NULL
    BY <1>1, <1>4, <1>6, <2>0, <2>1
  <2>2. CASE curr = NULL /\ up = NULL
    <3>1. tree.root = NULL
      BY <1>3, <1>4, <2>2 DEF Free
    <3> QED
      BY <1>2, <1>4, <3>1, RootThere
  <2>3. CASE curr = NULL /\ up # NULL
    <3>1. up \in Members(tree) /\ Within(x, b[up]) /\ tree.kid[up][Towards(x, up)] = NULL /\ x # up /\ up \in Int
      BY <1>3, <1>4, <2>3 DEF Free
    <3>2. k < up /\ x < up
      BY <1>1, <1>4, <1>6, <2>0, <2>3, <3>1
    <3>3. tree.kid[up][Left] = NULL
      BY <3>1, <3>2 DEF Towards
    <3>4. b[up][Left] # NULL /\ (k = b[up][Left] \/ Beyond(Left, k, b[up][Left]))
      <4>1. Beyond(Left, k, up)
        BY <3>2 DEF Beyond
      <4> QED
        BY <1>2, <3>1, <3>3, <4>1, NextIsAbove, SideFacts
    <3>5. Beyond(Right, x, b[up][Left])
      BY <3>1, <3>4, SideFacts DEF Within
    <3>6. b[up][Left] \in Int
      <4>1. up \in Keys /\ Left \in Sides
        BY <1>4, <3>1, SideFacts
      <4>2. b[up][Left] \in MaybeKeys
        BY <1>2, <4>1, ShapeFacts
      <4> QED
        BY <1>4, <3>4, <4>2 DEF MaybeKeys
    <3> QED
      BY <1>6, <2>0, <3>4, <3>5, <3>6, SideFacts DEF Beyond
  <2> QED
    BY <2>1, <2>2, <2>3
<1>7. Met(curr)'
  BY <1>1, <1>6 DEF Met, x
<1>8. FoundOK' /\ Asked'
  BY <1>1, <1>2 DEF FoundOK, Asked
<1>9. Places(b)'
  BY <1>1, <1>5, <1>7, <1>8 DEF Places, AtTurn, AtFarthest, AtClimb, AtWalk
<1>10. curr' \in MaybeKeys /\ up' \in MaybeKeys
  BY <1>1, <1>3, <1>4, <1>5 DEF MaybeKeys
<1>11. IInv'
  BY <1>1, <1>8, <1>9, <1>10, LookKeeps DEF Phases
<1> QED
  BY <1>1, <1>11 DEF Promised

(* rb_link_node(): the new system is a member of the set.                  *)
LEMMA LinkStepKeeps ==
  ASSUME NEW b, NEW h, IInvAt(b, h), Link
  PROVE  IInv' /\ Promised
<1> DEFINE x == op[2]
<1>1. /\ phase = "descend" /\ op[1] = "insert" /\ curr = NULL
      /\ tree' = Linked(tree, x, up) /\ phase' = "insert_color" /\ curr' = x
      /\ treeCall' = op /\ treeAnswer' = NULL /\ op' = op /\ up' = up /\ found' = found
  BY DEF Link, Answer
<1>2. Shape(tree, b) /\ AtDescend(b) /\ Asked /\ curr \in MaybeKeys
  BY <1>1 DEF IInvAt, Places
<1>3. op = <<"insert", x>> /\ x \in Keys
  BY <1>1, <1>2, AskedFacts
<1>4. x \notin Members(tree) /\ Free(tree, b, x, up) /\ up # x /\ up \in MaybeKeys
  BY <1>1, <1>2, DescendFacts
<1>5. h \in Heights /\ Even(tree, h, NULL, Left) /\ Apart(tree, NULL, NULL) /\ tree \in Trees
  BY <1>1, <1>2, CalmFacts, ShapeFacts
<1> HIDE DEF x
<1>6. Leafed(tree, tree', x, up)
  <2>1. Leafed(tree, Linked(tree, x, up), x, up)
    BY <1>3, <1>4, <1>5, LinkedIs
  <2> QED
    BY <1>1, <2>1
<1>7. /\ Members(tree') = Members(tree) \union {x} /\ \E c : Shape(tree', c)
      /\ tree'.red[x] /\ Apart(tree', x, NULL) /\ \E f \in Heights : Even(tree', f, NULL, Left)
  <2>1. ASSUME NEW u, Leafed(tree, u, x, up)
        PROVE  /\ Members(u) = Members(tree) \union {x} /\ \E c : Shape(u, c)
               /\ u.red[x] /\ Apart(u, x, NULL) /\ \E f \in Heights : Even(u, f, NULL, Left)
    BY <1>2, <1>3, <1>4, <1>5, <2>1, LinkKeeps
  <2> QED
    BY <1>6, <2>1
<1>8. PICK c : Shape(tree', c)
  BY <1>7
<1>9. PICK f \in Heights : Even(tree', f, NULL, Left)
  BY <1>7
<1>10. FoundOK' /\ Asked' /\ up' \in MaybeKeys
  BY <1>1, <1>2, <1>4 DEF FoundOK, Asked
<1>11. IInv'
  BY <1>1, <1>7, <1>8, <1>9, <1>10, InsertKeeps
<1>12. O!Insert(x)
  BY <1>1, <1>3, <1>4, <1>7 DEF O!Insert
<1> QED
  BY <1>3, <1>11, <1>12 DEF Promised, O!Next

(* rb_erase(), after the node is out: the rebalancing, or the end.         *)
LEMMA RebalanceKeeps ==
  ASSUME Asked, op[1] = "erase", NEW red \in BOOLEAN, NEW x \in MaybeKeys, NEW p \in MaybeKeys,
         Rebalance(~red, x, p), NEW c, Shape(tree', c), Apart(tree', x, x),
         red => Apart(tree', NULL, NULL) /\ \E f \in Heights : Even(tree', f, NULL, Left),
         p = NULL => tree'.root = x /\ \E f \in Heights : Even(tree', f, NULL, Left),
         p # NULL => Short(tree', p, x, ~red)
  PROVE  IInv'
<1>1. CASE red
  <2>1. Ended
    BY <1>1 DEF Rebalance
  <2>2. PICK f \in Heights : Even(tree', f, NULL, Left)
    BY <1>1
  <2> QED
    BY <1>1, <2>1, <2>2, EndedKeeps
<1>2. CASE ~red
  <2>1. phase' = "erase_color" /\ curr' = x /\ up' = p /\ op' = op /\ found' = found
    BY <1>2 DEF Rebalance
  <2>2. FoundOK' /\ Asked'
    BY <2>1 DEF FoundOK, Asked
  <2>3. CASE p = NULL
    <3>1. PICK f \in Heights : Even(tree', f, NULL, Left)
      BY <2>3
    <3> QED
      BY <2>1, <2>2, <2>3, <3>1, EraseKeeps
  <2>4. CASE p # NULL
    <3>1. PICK e \in Sides : tree'.kid[p][e] = x /\ \E f \in Heights : Even(tree', f, p, e)
      BY <1>2, <2>4 DEF Short
    <3>2. PICK f \in Heights : Even(tree', f, p, e)
      BY <3>1
    <3>3. p \in Members(tree')
      BY <2>4 DEF Short
    <3> QED
      BY <2>1, <2>2, <2>4, <3>1, <3>2, <3>3, EraseKeeps
  <2> QED
    BY <2>3, <2>4
<1> QED
  BY <1>1, <1>2

(* rb_erase() of a node with at most one child: it is gone from the set.   *)
LEMMA UnlinkKeeps ==
  ASSUME NEW b, NEW h, IInvAt(b, h), Unlink
  PROVE  IInv' /\ Promised
<1>1. /\ phase = "descend" /\ op[1] = "erase" /\ curr = op[2]
      /\ \E d \in Sides : tree.kid[curr][d] = NULL
      /\ tree' = Spliced(tree, curr)
      /\ Rebalance(~tree.red[curr], OnlyKid(tree, curr), tree.parent[curr])
      /\ treeCall' = op /\ treeAnswer' = NULL
  BY DEF Unlink, Answer
<1>2. Shape(tree, b) /\ AtDescend(b) /\ Asked /\ curr \in MaybeKeys
  BY <1>1 DEF IInvAt, Places
<1>3. op = <<"erase", op[2]>> /\ op[2] \in Keys /\ curr \in Members(tree)
  <2>1. op = <<"erase", op[2]>> /\ op[2] \in Keys
    BY <1>1, <1>2, AskedFacts
  <2> QED
    BY <1>1, <1>2, <2>1, DescendFacts, KeysAssumption
<1>4. h \in Heights /\ Even(tree, h, NULL, Left) /\ Apart(tree, NULL, NULL)
  BY <1>1, CalmFacts
<1> DEFINE x == OnlyKid(tree, curr)
           p == tree.parent[curr]
<1>5. /\ Members(tree') = Members(tree) \ {curr} /\ \E c : Shape(tree', c)
      /\ Apart(tree', x, x) /\ x \in MaybeKeys /\ p \in MaybeKeys
      /\ tree.red[curr] => Apart(tree', NULL, NULL) /\ \E f \in Heights : Even(tree', f, NULL, Left)
      /\ p = NULL => tree'.root = x /\ \E f \in Heights : Even(tree', f, NULL, Left)
      /\ p # NULL => Short(tree', p, x, ~tree.red[curr])
  BY <1>1, <1>2, <1>3, <1>4, SpliceKeeps
<1>6. tree.red[curr] \in BOOLEAN
  <2>1. tree \in Trees /\ curr \in Keys
    BY <1>2, <1>3, ShapeFacts
  <2> QED
    BY <2>1, TreeTypes
<1>7. PICK c : Shape(tree', c)
  BY <1>5
<1>8. Rebalance(~tree.red[curr], x, p)
  BY <1>1
<1> HIDE DEF x, p
<1>9. IInv'
  BY <1>1, <1>2, <1>5, <1>6, <1>7, <1>8, RebalanceKeeps
<1>10. O!Erase(op[2])
  BY <1>1, <1>3, <1>5 DEF O!Erase
<1> QED
  BY <1>3, <1>9, <1>10 DEF Promised, O!Next

(* A node with two children: its successor is looked for.                  *)
LEMMA ToSuccessorKeeps ==
  ASSUME NEW b, NEW h, IInvAt(b, h), ToSuccessor
  PROVE  IInv' /\ Promised
<1>1. /\ phase = "descend" /\ op[1] = "erase" /\ curr = op[2]
      /\ \A d \in Sides : tree.kid[curr][d] # NULL
      /\ phase' = "farthest" /\ curr' = tree.kid[curr][Right]
      /\ tree' = tree /\ op' = op /\ up' = up /\ found' = found /\ treeCall' = treeCall /\ treeAnswer' = treeAnswer
  BY DEF ToSuccessor, answered
<1>2. Shape(tree, b) /\ AtDescend(b) /\ Asked /\ curr \in MaybeKeys
  BY <1>1 DEF IInvAt, Places
<1>3. op = <<"erase", op[2]>> /\ op[2] \in Keys /\ curr \in Members(tree) /\ curr \in Keys /\ up \in MaybeKeys
  <2>1. op = <<"erase", op[2]>> /\ op[2] \in Keys
    BY <1>1, <1>2, AskedFacts
  <2> QED
    BY <1>1, <1>2, <2>1, DescendFacts, KeysAssumption
<1>4. curr' \in Members(tree) /\ curr' \in Keys /\ b[curr'][Left] = curr
  <2>1. tree.kid[curr][Right] # NULL /\ Right \in Sides /\ Other(Right) = Left
    BY <1>1, SideFacts
  <2>2. /\ tree.kid[curr][Right] \in Members(tree) /\ tree.kid[curr][Right] \in Keys
        /\ b[tree.kid[curr][Right]][Other(Right)] = curr
    BY <1>2, <1>3, <2>1, ShapeFacts
  <2> QED
    BY <1>1, <2>1, <2>2
<1>5. AtFarthest(b)'
  <2>1. Ahead' = Right /\ Other(Ahead') = Left
    BY <1>1, SideFacts DEF Ahead
  <2>2. curr \in Keys /\ b[curr'][Other(Ahead')] = curr
    BY <1>3, <1>4, <2>1
  <2>3. ASSUME NEW x \in Keys, x = curr
        PROVE  From(x)'
    BY <1>1, <1>3, <2>3 DEF From, Passed
  <2>4. \E x \in Keys : From(x)' /\ b[curr'][Other(Ahead')] = x
    BY <2>2, <2>3
  <2> QED
    BY <1>1, <1>4, <2>4 DEF AtFarthest
<1>6. FoundOK' /\ Asked'
  BY <1>1, <1>2 DEF FoundOK, Asked
<1>7. Places(b)'
  BY <1>1, <1>5, <1>6 DEF Places, AtTurn, AtClimb, AtWalk
<1>8. IInv'
  BY <1>1, <1>3, <1>4, <1>6, <1>7, LookKeeps DEF Phases, MaybeKeys
<1> QED
  BY <1>1, <1>8 DEF Promised

(* rb_next() and rb_prev(): the sides.                                     *)
LEMMA AheadFacts ==
  /\ Ahead \in Sides /\ Other(Ahead) \in Sides /\ Other(Other(Ahead)) = Ahead
  /\ op[1] # "prev" => Ahead = Right /\ Other(Ahead) = Left
  /\ op[1] = "prev" => Ahead = Left
BY SideFacts DEF Ahead

(* Down into the subtree ahead, or up.                                     *)
LEMMA TurnKeeps ==
  ASSUME NEW b, NEW h, IInvAt(b, h), Turn
  PROVE  IInv' /\ Promised
<1> DEFINE kid == tree.kid[curr][Ahead]
<1>1. /\ phase = "turn" /\ tree' = tree /\ op' = op /\ up' = up /\ found' = found
      /\ treeCall' = treeCall /\ treeAnswer' = treeAnswer
      /\ IF kid # NULL THEN phase' = "farthest" /\ curr' = kid ELSE phase' = "climb" /\ curr' = curr
  BY DEF Turn, answered
<1>2. Shape(tree, b) /\ From(curr) /\ Asked /\ FoundOK /\ up \in MaybeKeys
  BY <1>1 DEF IInvAt, Places, AtTurn
<1>3. curr \in Members(tree) /\ curr \in Keys /\ op[1] \in {"next", "prev", "between"}
  BY <1>1, <1>2, ShapeFacts DEF From
<1>4. Ahead' = Ahead
  BY <1>1 DEF Ahead
<1>5. ASSUME NEW x \in Keys, x = curr
      PROVE  From(x)'
  BY <1>1, <1>2, <1>3, <1>5 DEF From, Passed
<1>6. FoundOK' /\ Asked'
  BY <1>1, <1>2 DEF FoundOK, Asked
<1>7. kid # NULL => kid \in Members(tree) /\ kid \in Keys /\ b[kid][Other(Ahead)] = curr
  BY <1>2, <1>3, AheadFacts, ShapeFacts
<1>8. Places(b)' /\ curr' \in MaybeKeys
  <2>1. CASE kid # NULL
    <3>1. curr' \in Members(tree) /\ curr' \in Keys /\ b[curr'][Other(Ahead')] = curr
      BY <1>1, <1>4, <1>7, <2>1
    <3>2. \E x \in Keys : From(x)' /\ b[curr'][Other(Ahead')] = x
      BY <1>3, <1>5, <3>1
    <3>3. AtFarthest(b)'
      BY <1>1, <2>1, <3>1, <3>2 DEF AtFarthest
    <3> QED
      BY <1>1, <1>6, <2>1, <3>1, <3>3 DEF Places, AtTurn, AtClimb, AtWalk, MaybeKeys
  <2>2. CASE kid = NULL
    <3>1. \E x \in Keys : From(x)' /\ tree'.kid[x][Ahead'] = NULL /\ b[curr'][Ahead'] = b[x][Ahead']
      BY <1>1, <1>3, <1>4, <1>5, <2>2
    <3>2. AtClimb(b)'
      BY <1>1, <1>3, <2>2, <3>1 DEF AtClimb
    <3> QED
      BY <1>1, <1>3, <1>6, <2>2, <3>2 DEF Places, AtTurn, AtFarthest, AtWalk, MaybeKeys
  <2> QED
    BY <2>1, <2>2
<1>9. IInv'
  BY <1>1, <1>2, <1>6, <1>8, LookKeeps DEF Phases
<1> QED
  BY <1>1, <1>9 DEF Promised

(* Down to the node next to the one the walk came from.                    *)
LEMMA FarthestKeeps ==
  ASSUME NEW b, NEW h, IInvAt(b, h), Farthest
  PROVE  IInv' /\ Promised
<1> DEFINE kid == tree.kid[curr][Other(Ahead)]
<1>1. /\ phase = "farthest" /\ kid # NULL /\ curr' = kid
      /\ tree' = tree /\ phase' = phase /\ op' = op /\ up' = up /\ found' = found
      /\ treeCall' = treeCall /\ treeAnswer' = treeAnswer
  BY DEF Farthest, answered
<1>2. Shape(tree, b) /\ Asked /\ FoundOK /\ up \in MaybeKeys /\ curr \in Members(tree)
  BY <1>1 DEF IInvAt, Places, AtFarthest
<1>3. PICK x \in Keys : From(x) /\ b[curr][Other(Ahead)] = x
  BY <1>1 DEF IInvAt, Places, AtFarthest
<1>4. Ahead' = Ahead
  BY <1>1 DEF Ahead
<1>5. kid \in Members(tree) /\ kid \in Keys /\ b[kid][Other(Ahead)] = x
  BY <1>1, <1>2, <1>3, AheadFacts, ShapeFacts
<1>6. From(x)'
  BY <1>1, <1>3 DEF From, Passed
<1>7. \E y \in Keys : From(y)' /\ b[curr'][Other(Ahead')] = y
  BY <1>1, <1>4, <1>5, <1>6
<1>8. AtFarthest(b)'
  BY <1>1, <1>5, <1>7 DEF AtFarthest
<1>9. FoundOK' /\ Asked'
  BY <1>1, <1>2 DEF FoundOK, Asked
<1>10. Places(b)' /\ curr' \in MaybeKeys
  BY <1>1, <1>5, <1>8, <1>9 DEF Places, AtTurn, AtClimb, AtWalk, MaybeKeys
<1>11. IInv'
  BY <1>1, <1>2, <1>9, <1>10, LookKeeps DEF Phases
<1> QED
  BY <1>1, <1>11 DEF Promised

(* Up over the links of the side the walk goes to.                         *)
LEMMA ClimbKeeps ==
  ASSUME NEW b, NEW h, IInvAt(b, h), Climb
  PROVE  IInv' /\ Promised
<1> DEFINE p == tree.parent[curr]
<1>1. /\ phase = "climb" /\ p # NULL /\ tree.kid[p][Ahead] = curr /\ curr' = p
      /\ tree' = tree /\ phase' = phase /\ op' = op /\ up' = up /\ found' = found
      /\ treeCall' = treeCall /\ treeAnswer' = treeAnswer
  BY DEF Climb, answered
<1>2. Shape(tree, b) /\ Asked /\ FoundOK /\ up \in MaybeKeys /\ curr \in Members(tree) /\ curr \in Keys
  BY <1>1, ShapeFacts DEF IInvAt, Places, AtClimb
<1>3. PICK x \in Keys : From(x) /\ tree.kid[x][Ahead] = NULL /\ b[curr][Ahead] = b[x][Ahead]
  BY <1>1 DEF IInvAt, Places, AtClimb
<1>4. Ahead' = Ahead
  BY <1>1 DEF Ahead
<1>5. p \in Members(tree) /\ p \in Keys
  <2>1. curr # tree.root
    BY <1>1, <1>2, ShapeFacts
  <2> QED
    BY <1>2, <2>1, ShapeFacts
<1> HIDE DEF p
<1>6. b[curr][Ahead] = b[p][Ahead]
  <2>1. curr # NULL
    BY <1>2, ShapeFacts
  <2>2. b[tree.kid[p][Ahead]][Ahead] = b[p][Ahead]
    BY <1>1, <1>2, <1>5, <2>1, AheadFacts, ShapeFacts
  <2> QED
    BY <1>1, <2>2
<1>7. From(x)'
  BY <1>1, <1>3 DEF From, Passed
<1>8. \E y \in Keys : From(y)' /\ tree'.kid[y][Ahead'] = NULL /\ b[curr'][Ahead'] = b[y][Ahead']
  BY <1>1, <1>3, <1>4, <1>6, <1>7
<1>9. AtClimb(b)'
  BY <1>1, <1>5, <1>8 DEF AtClimb
<1>10. FoundOK' /\ Asked'
  BY <1>1, <1>2 DEF FoundOK, Asked
<1>11. Places(b)' /\ curr' \in MaybeKeys
  BY <1>1, <1>5, <1>9, <1>10 DEF Places, AtTurn, AtFarthest, AtWalk, MaybeKeys
<1>12. IInv'
  BY <1>1, <1>2, <1>10, <1>11, LookKeeps DEF Phases
<1> QED
  BY <1>1, <1>12 DEF Promised

(* The successor takes the place of the node that is erased.               *)
LEMMA SucceedStepKeeps ==
  ASSUME NEW b, NEW h, IInvAt(b, h), Succeed
  PROVE  IInv' /\ Promised
<1> DEFINE n == op[2]
           x == tree.kid[curr][Right]
           p == IF tree.parent[curr] = n THEN curr ELSE tree.parent[curr]
<1>1. /\ phase = "farthest" /\ op[1] = "erase" /\ tree.kid[curr][Left] = NULL
      /\ tree' = Succeeded(tree, n, curr)
      /\ Rebalance(~tree.red[curr], x, p)
      /\ treeCall' = op /\ treeAnswer' = NULL
  BY DEF Succeed, Answer
<1>2. Shape(tree, b) /\ Asked /\ curr \in Members(tree)
  BY <1>1 DEF IInvAt, Places, AtFarthest
<1>3. PICK y \in Keys : From(y) /\ b[curr][Other(Ahead)] = y
  BY <1>1 DEF IInvAt, Places, AtFarthest
<1>4. y = n /\ n \in Members(tree) /\ \A d \in Sides : tree.kid[n][d] # NULL
  BY <1>1, <1>3 DEF From
<1>5. Successor(tree, b, n, curr)
  <2>1. Other(Ahead) = Left
    BY <1>1, AheadFacts
  <2> QED
    BY <1>1, <1>2, <1>3, <1>4, <2>1 DEF Successor
<1>6. op = <<"erase", n>> /\ n \in Keys
  BY <1>1, <1>2, AskedFacts
<1>7. h \in Heights /\ Even(tree, h, NULL, Left) /\ Apart(tree, NULL, NULL)
  BY <1>1, CalmFacts
<1>8. /\ Members(tree') = Members(tree) \ {n} /\ \E c : Shape(tree', c)
      /\ Apart(tree', x, x) /\ x \in MaybeKeys /\ p \in MaybeKeys
      /\ tree.red[curr] => Apart(tree', NULL, NULL) /\ \E f \in Heights : Even(tree', f, NULL, Left)
      /\ Short(tree', p, x, ~tree.red[curr])
  BY <1>1, <1>2, <1>5, <1>7, SucceedKeeps
<1>9. tree.red[curr] \in BOOLEAN
  <2>1. tree \in Trees /\ curr \in Keys
    BY <1>2, ShapeFacts
  <2> QED
    BY <2>1, TreeTypes
<1>10. PICK c : Shape(tree', c)
  BY <1>8
<1>11. Rebalance(~tree.red[curr], x, p) /\ p # NULL
  <2>1. p \in Members(tree')
    BY <1>8 DEF Short
  <2>2. p # NULL
    BY <1>10, <2>1, ShapeFacts
  <2> QED
    BY <1>1, <2>2
<1> HIDE DEF x, p
<1>12. IInv'
  BY <1>1, <1>2, <1>8, <1>9, <1>10, <1>11, RebalanceKeeps
<1> HIDE DEF n
<1>13. O!Erase(n)
  BY <1>1, <1>4, <1>6, <1>8 DEF O!Erase
<1> QED
  BY <1>6, <1>12, <1>13 DEF Promised, O!Next

(* n is what comes after x on side d, or NULL where nothing does.          *)
NextTo(t, d, x, n) ==
  /\ n = NULL => \A k \in Members(t) : ~Beyond(d, k, x)
  /\ n # NULL => /\ n \in Members(t) /\ Beyond(d, n, x)
                 /\ \A k \in Members(t) : Beyond(d, k, x) => k = n \/ Beyond(d, k, n)

(* rb_next() and rb_prev() return it.                                      *)
LEMMA ArriveKeeps ==
  ASSUME NEW b, NEW h, IInvAt(b, h), phase \in {"farthest", "climb"},
         NEW x \in Keys, From(x), op[1] # "erase", NEW n, NextTo(tree, Ahead, x, n), Arrive(n)
  PROVE  IInv' /\ Promised
<1>1. /\ tree' = tree
      /\ IF op[1] = "between" THEN /\ phase' = "walk" /\ curr' = n /\ op' = op /\ up' = up /\ found' = found
                                   /\ treeCall' = treeCall /\ treeAnswer' = treeAnswer
         ELSE Ended /\ treeCall' = op /\ treeAnswer' = n
  BY DEF Arrive, Answer, answered
<1>2. Shape(tree, b) /\ Asked /\ FoundOK /\ up \in MaybeKeys /\ tree \in Trees
  BY ShapeFacts DEF IInvAt, Places
<1>3. op[1] \in {"next", "prev", "between"} /\ (op[1] # "between" => x = op[2]) /\ Passed(x) /\ x \in Members(tree)
  BY DEF From
<1>4. NULL \notin Keys /\ Keys \subseteq Int /\ Members(tree) \subseteq Keys
  BY <1>2, TreeTypes, KeysAssumption
<1>5. CASE op[1] = "between"
  <2>1. /\ phase' = "walk" /\ curr' = n /\ op' = op /\ up' = up /\ found' = found
        /\ treeCall' = treeCall /\ treeAnswer' = treeAnswer
    BY <1>1, <1>5
  <2>2. Ahead = Right
    BY <1>5, AheadFacts
  <2>3. n \in Members(tree) \union {NULL}
    BY DEF NextTo
  <2>4. op[2] \in Keys
    BY <1>2, <1>5, AskedFacts
  <2>5. ASSUME NEW k \in Members(tree), k >= op[2], n = NULL \/ k < n
        PROVE  k \in found
    <3>1. k \in Int /\ x \in Int
      BY <1>4
    <3>2. k <= x
      <4>1. CASE n = NULL
        BY <2>2, <3>1, <4>1, SideFacts DEF NextTo, Beyond
      <4>2. CASE n # NULL
        <5>1. n \in Int /\ k < n
          BY <1>4, <2>3, <2>5, <4>2
        <5>2. k = n \/ Beyond(Right, k, n) \/ ~Beyond(Right, k, x)
          BY <2>2, <4>2 DEF NextTo
        <5> QED
          BY <3>1, <5>1, <5>2, SideFacts DEF Beyond
      <4> QED
        BY <4>1, <4>2
    <3> QED
      BY <1>3, <1>5, <2>5, <3>2 DEF Passed
  <2>6. Met(curr)'
    BY <1>1, <2>1, <2>5 DEF Met
  <2>7. FoundOK' /\ Asked'
    BY <1>1, <1>2, <2>1 DEF FoundOK, Asked
  <2>8. Places(b)'
    BY <1>1, <1>5, <2>1, <2>3, <2>6, <2>7 DEF Places, AtTurn, AtFarthest, AtClimb, AtWalk
  <2>9. curr' \in MaybeKeys
    BY <1>4, <2>1, <2>3 DEF MaybeKeys
  <2>10. IInv'
    BY <1>1, <1>2, <2>1, <2>7, <2>8, <2>9, LookKeeps DEF Phases
  <2> QED
    BY <1>1, <2>1, <2>10 DEF Promised
<1>6. CASE op[1] # "between"
  <2>1. Ended /\ treeCall' = op /\ treeAnswer' = n /\ x = op[2]
    BY <1>1, <1>3, <1>6
  <2>2. IInv'
    BY <1>1, <2>1, CalmFacts, EndedKeeps
  <2>3. ASSUME op[1] = "next"
        PROVE  n = O!Smallest(O!After(x))
    <3>1. Ahead = Right
      BY <2>3, AheadFacts
    <3>2. \A k \in Members(tree) : Beyond(Right, k, x) <=> k > x
      BY <1>4, SideFacts DEF Beyond
    <3>3. CASE n = NULL
      <4>1. O!After(x) = {}
        BY <3>1, <3>2, <3>3 DEF NextTo, O!After
      <4> QED
        BY <3>3, <4>1 DEF O!Smallest
    <3>4. CASE n # NULL
      <4>1. n \in O!After(x) /\ n \in Int
        BY <1>4, <3>1, <3>2, <3>4 DEF NextTo, O!After
      <4>2. \A k \in O!After(x) : k \in Int /\ n <= k
        <5>1. \A k \in Members(tree) : Beyond(Right, k, n) <=> k > n
          BY <1>4, <4>1, SideFacts DEF Beyond
        <5> QED
          BY <1>4, <3>1, <3>2, <3>4, <4>1, <5>1 DEF NextTo, O!After
      <4>3. \A m \in O!After(x) : (\A k \in O!After(x) : m <= k) => m = n
        BY <4>1, <4>2
      <4> QED
        BY <4>1, <4>2, <4>3 DEF O!Smallest
    <3> QED
      BY <3>3, <3>4
  <2>4. ASSUME op[1] = "prev"
        PROVE  n = O!Greatest(O!Before(x))
    <3>1. Ahead = Left
      BY <2>4, AheadFacts
    <3>2. \A k \in Members(tree) : Beyond(Left, k, x) <=> k < x
      BY <1>4, SideFacts DEF Beyond
    <3>3. CASE n = NULL
      <4>1. O!Before(x) = {}
        BY <3>1, <3>2, <3>3 DEF NextTo, O!Before
      <4> QED
        BY <3>3, <4>1 DEF O!Greatest
    <3>4. CASE n # NULL
      <4>1. n \in O!Before(x) /\ n \in Int
        BY <1>4, <3>1, <3>2, <3>4 DEF NextTo, O!Before
      <4>2. \A k \in O!Before(x) : k \in Int /\ n >= k
        <5>1. \A k \in Members(tree) : Beyond(Left, k, n) <=> k < n
          BY <1>4, <4>1, SideFacts DEF Beyond
        <5> QED
          BY <1>4, <3>1, <3>2, <3>4, <4>1, <5>1 DEF NextTo, O!Before
      <4>3. \A m \in O!Before(x) : (\A k \in O!Before(x) : m >= k) => m = n
        BY <4>1, <4>2
      <4> QED
        BY <4>1, <4>2, <4>3 DEF O!Greatest
    <3> QED
      BY <3>3, <3>4
  <2>5. op = <<op[1], x>>
    BY <1>2, <1>3, <1>6, <2>1, AskedFacts
  <2>6. O!Step(x)
    BY <1>1, <1>3, <1>6, <2>1, <2>3, <2>4, <2>5 DEF O!Step
  <2> QED
    BY <2>2, <2>6 DEF Promised, O!Next
<1> QED
  BY <1>5, <1>6

(* The end of the way down is next to where the walk began.                *)
LEMMA ArriveBelowKeeps ==
  ASSUME NEW b, NEW h, IInvAt(b, h), ArriveBelow
  PROVE  IInv' /\ Promised
<1>1. phase = "farthest" /\ op[1] # "erase" /\ tree.kid[curr][Other(Ahead)] = NULL /\ Arrive(curr)
  BY DEF ArriveBelow
<1>2. Shape(tree, b) /\ curr \in Members(tree)
  BY <1>1 DEF IInvAt, Places, AtFarthest
<1>3. PICK x \in Keys : From(x) /\ b[curr][Other(Ahead)] = x
  BY <1>1 DEF IInvAt, Places, AtFarthest
<1>4. NextTo(tree, Ahead, x, curr)
  <2>1. /\ Beyond(Ahead, curr, x)
        /\ \A k \in Members(tree) : Beyond(Ahead, k, x) => k = curr \/ Beyond(Ahead, k, curr)
    BY <1>1, <1>2, <1>3, AheadFacts, NextIsBelow
  <2>2. curr # NULL
    BY <1>2, ShapeFacts
  <2> QED
    BY <1>2, <2>1, <2>2 DEF NextTo
<1> QED
  BY <1>1, <1>3, <1>4, ArriveKeeps

(* So is the ancestor where the way up ends.                               *)
LEMMA ArriveAboveKeeps ==
  ASSUME NEW b, NEW h, IInvAt(b, h), ArriveAbove
  PROVE  IInv' /\ Promised
<1> DEFINE p == tree.parent[curr]
<1>1. phase = "climb" /\ ~(p # NULL /\ tree.kid[p][Ahead] = curr) /\ Arrive(p)
  BY DEF ArriveAbove
<1>2. Shape(tree, b) /\ curr \in Members(tree) /\ curr \in Keys /\ NULL \notin Keys
  BY <1>1, ShapeFacts DEF IInvAt, Places, AtClimb
<1>3. PICK x \in Keys : From(x) /\ tree.kid[x][Ahead] = NULL /\ b[curr][Ahead] = b[x][Ahead]
  BY <1>1 DEF IInvAt, Places, AtClimb
<1>4. x \in Members(tree) /\ op[1] # "erase"
  BY <1>1, <1>3 DEF From
<1>5. p = b[curr][Ahead] /\ (p = NULL \/ p \in Members(tree))
  <2>1. CASE curr = tree.root
    BY <1>2, <2>1, AheadFacts, ShapeFacts
  <2>2. CASE curr # tree.root
    <3>1. p \in Members(tree) /\ \E e \in Sides : tree.kid[p][e] = curr
      BY <1>2, <2>2, ShapeFacts
    <3>2. p # NULL
      BY <1>2, <3>1, ShapeFacts
    <3>3. tree.kid[p][Other(Ahead)] = curr
      BY <1>1, <3>1, <3>2, AheadFacts, SideFacts
    <3>4. b[tree.kid[p][Other(Ahead)]][Other(Other(Ahead))] = p
      BY <1>2, <3>1, <3>3, AheadFacts, ShapeFacts
    <3> QED
      BY <3>1, <3>3, <3>4, AheadFacts
  <2> QED
    BY <2>1, <2>2
<1> HIDE DEF p
<1>6. NextTo(tree, Ahead, x, p)
  <2>1. \A k \in Members(tree) : Beyond(Ahead, k, x) => p # NULL /\ (k = p \/ Beyond(Ahead, k, p))
    BY <1>2, <1>3, <1>4, <1>5, AheadFacts, NextIsAbove
  <2>2. p # NULL => Beyond(Ahead, p, x)
    <3>1. ASSUME p # NULL
          PROVE  Beyond(Other(Ahead), x, p)
      BY <1>2, <1>3, <1>4, <1>5, <3>1, AheadFacts, ShapeFacts
    <3>2. p # NULL => p \in Keys
      BY <1>2, <1>5, ShapeFacts
    <3> QED
      BY <3>1, <3>2, AheadFacts, BeyondFacts
  <2> QED
    BY <1>5, <2>1, <2>2 DEF NextTo
<1> QED
  BY <1>1, <1>3, <1>4, <1>6, ArriveKeeps

(* get_neighbouring_systems(): a system is met.                            *)
LEMMA WalkKeeps ==
  ASSUME NEW b, NEW h, IInvAt(b, h), Walk
  PROVE  IInv' /\ Promised
<1>1. /\ phase = "walk" /\ curr # NULL /\ curr <= op[3] /\ found' = found \union {curr} /\ phase' = "turn"
      /\ tree' = tree /\ op' = op /\ curr' = curr /\ up' = up /\ treeCall' = treeCall /\ treeAnswer' = treeAnswer
  BY DEF Walk, answered
<1>2. Shape(tree, b) /\ Asked /\ FoundOK /\ up \in MaybeKeys /\ op[1] = "between"
      /\ curr \in Members(tree) /\ Met(curr)
  BY <1>1 DEF IInvAt, Places, AtWalk
<1>3. curr \in Keys /\ Keys \subseteq Int /\ Members(tree) \subseteq Keys
  BY <1>2, ShapeFacts, TreeTypes, KeysAssumption
<1>4. FoundOK' /\ Asked'
  BY <1>1, <1>2 DEF FoundOK, Asked
<1>5. ASSUME NEW k \in Members(tree), k >= op[2], k <= curr
      PROVE  k \in found'
  <2>1. k = curr \/ k < curr
    <3>1. k \in Int /\ curr \in Int
      BY <1>3
    <3> QED
      BY <1>5, <3>1
  <2>2. k < curr => k \in found
    BY <1>2, <1>5 DEF Met
  <2> QED
    BY <1>1, <2>1, <2>2
<1>6. From(curr)'
  BY <1>1, <1>2, <1>5 DEF From, Passed
<1>7. Places(b)'
  BY <1>1, <1>4, <1>6 DEF Places, AtTurn, AtFarthest, AtClimb, AtWalk
<1>8. IInv'
  BY <1>1, <1>2, <1>3, <1>4, <1>7, LookKeeps DEF Phases, MaybeKeys
<1> QED
  BY <1>1, <1>8 DEF Promised

(* All between the two places were met.                                    *)
LEMMA WalkEndsKeeps ==
  ASSUME NEW b, NEW h, IInvAt(b, h), WalkEnds
  PROVE  IInv' /\ Promised
<1> DEFINE x == op[2]
           y == op[3]
<1>1. /\ phase = "walk" /\ ~(curr # NULL /\ curr <= y) /\ Ended
      /\ treeCall' = op /\ treeAnswer' = {k \in found : k >= x} /\ tree' = tree
  BY DEF WalkEnds, Answer
<1>2. Shape(tree, b) /\ Asked /\ FoundOK /\ op[1] = "between"
      /\ curr \in Members(tree) \union {NULL} /\ Met(curr)
  BY <1>1 DEF IInvAt, Places, AtWalk
<1>3. x \in Keys /\ y \in Keys /\ x < y /\ op = <<"between", x, y>>
  BY <1>2, AskedFacts
<1>4. Keys \subseteq Int /\ Members(tree) \subseteq Keys
  BY <1>2, ShapeFacts, TreeTypes, KeysAssumption
<1>5. IInv'
  BY <1>1, CalmFacts, EndedKeeps
<1>6. \A k \in found : k \in Members(tree) /\ k <= y
  BY <1>2 DEF FoundOK
<1>7. \A k \in Members(tree) : k >= x /\ (curr = NULL \/ k < curr) => k \in found
  BY <1>2 DEF Met
<1> HIDE DEF x, y
<1>8. {k \in found : k >= x} = {k \in Members(tree) : x <= k /\ k <= y}
  <2>1. ASSUME NEW k \in found, k >= x
        PROVE  k \in Members(tree) /\ x <= k /\ k <= y
    BY <1>3, <1>4, <1>6, <2>1
  <2>2. ASSUME NEW k \in Members(tree), x <= k, k <= y
        PROVE  k \in found /\ k >= x
    <3>1. k \in Int /\ x \in Int /\ y \in Int
      BY <1>3, <1>4
    <3>2. k >= x
      BY <2>2, <3>1
    <3>3. curr = NULL \/ k < curr
      BY <1>1, <1>2, <1>4, <2>2, <3>1
    <3> QED
      BY <1>7, <3>2, <3>3
  <2> QED
    BY <2>1, <2>2
<1>9. O!Between(x, y)
  BY <1>1, <1>3, <1>8 DEF O!Between
<1> QED
  BY <1>3, <1>5, <1>9 DEF Promised, O!Next

(***************************************************************************)
(* rb_insert_color().                                                      *)
(***************************************************************************)
LEMMA InsertColorFacts ==
  ASSUME NEW b, NEW h, IInvAt(b, h), phase = "insert_color"
  PROVE  /\ Shape(tree, b) /\ tree \in Trees /\ h \in Heights /\ Even(tree, h, NULL, Left)
         /\ curr \in Members(tree) /\ curr \in Keys /\ tree.red[curr] /\ Apart(tree, curr, NULL)
         /\ Asked /\ FoundOK /\ up \in MaybeKeys
BY ShapeFacts DEF IInvAt, Colours, Places

(* A step of the loop: the same members, and the call goes on.             *)
LEMMA RecolouringKeeps ==
  ASSUME NEW b, NEW h, IInvAt(b, h), phase = "insert_color", InsertColor,
         Members(tree') = Members(tree), NEW c, Shape(tree', c),
         NEW g \in Heights, Even(tree', g, NULL, Left),
         curr' \in Members(tree), tree'.red[curr'], Apart(tree', curr', NULL)
  PROVE  IInv' /\ Promised
<1>1. phase' = phase /\ op' = op /\ up' = up /\ found' = found /\ treeCall' = treeCall /\ treeAnswer' = treeAnswer
  BY DEF InsertColor, answered
<1>2. Asked /\ FoundOK /\ up \in MaybeKeys
  BY InsertColorFacts
<1>3. FoundOK' /\ Asked'
  BY <1>1, <1>2 DEF FoundOK, Asked
<1>4. IInv'
  BY <1>1, <1>2, <1>3, InsertKeeps
<1> QED
  BY <1>1, <1>4 DEF Promised

(* The colours of the red pair and its elders change, and the loop goes    *)
(* on above.                                                               *)
LEMMA RedUncleKeeps ==
  ASSUME NEW b, NEW h, IInvAt(b, h), RedUncle
  PROVE  IInv' /\ Promised
<1> DEFINE p == Parent
           g == Gparent
           q == Uncle
<1>1. /\ phase = "insert_color" /\ InsertColor /\ IsRed(tree, tree.parent[curr]) /\ IsRed(tree, q) /\ curr' = g
      /\ tree' = [tree EXCEPT !.red[q] = FALSE, !.red[p] = FALSE, !.red[g] = TRUE]
  BY DEF RedUncle, InsertColor, Parent
<1>2. /\ Shape(tree, b) /\ tree \in Trees /\ h \in Heights /\ Even(tree, h, NULL, Left)
      /\ curr \in Members(tree) /\ tree.red[curr] /\ Apart(tree, curr, NULL)
  BY <1>1, InsertColorFacts
<1>3. Elders(tree, curr, p, g, q)
  BY DEF Elders, Parent, Gparent, Uncle, Hang
<1> HIDE DEF p, g, q
<1>4. p \in Members(tree) /\ g \in Members(tree) /\ q = tree.kid[g][Other(SideOf(tree, g, p))]
      /\ SideOf(tree, g, p) \in Sides
  BY <1>1, <1>2, <1>3, InsertFacts
<1>5. p \in Keys /\ g \in Keys /\ q \in Keys
  <2>1. q # NULL
    BY <1>1 DEF IsRed
  <2>2. tree.kid[g][Other(SideOf(tree, g, p))] \in MaybeKeys /\ p \in Keys /\ g \in Keys
    BY <1>2, <1>4, SideFacts, TreeTypes
  <2> QED
    BY <1>4, <2>1, <2>2 DEF MaybeKeys
<1>6. Flipped(tree, tree', p, g, q)
  <2>1. Recoloured(tree, tree')
    BY <1>1, <1>2, <1>5 DEF Recoloured, Trees
  <2>2. \A k \in Keys : tree'.red[k] = IF k = g THEN TRUE ELSE IF k \in {p, q} THEN FALSE ELSE tree.red[k]
    BY <1>1, <1>2, <1>5 DEF Trees
  <2> QED
    BY <2>1, <2>2 DEF Flipped
<1>7. /\ Recoloured(tree, tree') /\ tree'.red[g] /\ Apart(tree', g, NULL)
      /\ \E f \in Heights : Even(tree', f, NULL, Left)
  <2>1. ASSUME NEW u, Flipped(tree, u, p, g, q)
        PROVE  /\ Recoloured(tree, u) /\ u.red[g] /\ Apart(u, g, NULL)
               /\ \E f \in Heights : Even(u, f, NULL, Left)
    BY <1>1, <1>2, <1>3, <2>1, RedUncleColours
  <2> QED
    BY <1>6, <2>1
<1>8. Members(tree') = Members(tree) /\ Shape(tree', b)
  BY <1>2, <1>7, RecolourShape
<1>9. PICK f \in Heights : Even(tree', f, NULL, Left)
  BY <1>7
<1> QED
  BY <1>1, <1>4, <1>7, <1>8, <1>9, RecolouringKeeps

(* The first rotation of a bent pair.                                      *)
LEMMA BentKeeps ==
  ASSUME NEW b, NEW h, IInvAt(b, h), Bent
  PROVE  IInv' /\ Promised
<1> DEFINE p == Parent
           g == Gparent
           q == Uncle
           d == SideOf(tree, g, p)
<1>1. /\ phase = "insert_color" /\ InsertColor /\ IsRed(tree, tree.parent[curr]) /\ curr' = p
      /\ tree.kid[p][Other(d)] = curr /\ tree' = Rotate(tree, p, d)
  BY DEF Bent, InsertColor, Parent, Hang
<1>2. /\ Shape(tree, b) /\ tree \in Trees /\ h \in Heights /\ Even(tree, h, NULL, Left)
      /\ curr \in Members(tree) /\ curr \in Keys /\ tree.red[curr] /\ Apart(tree, curr, NULL)
  BY <1>1, InsertColorFacts
<1>3. Elders(tree, curr, p, g, q)
  BY DEF Elders, Parent, Gparent, Uncle, Hang
<1> HIDE DEF p, g, q
<1>4. p \in Members(tree) /\ d \in Sides
  BY <1>1, <1>2, <1>3, InsertFacts
<1>5. tree.kid[p][Other(d)] # NULL
  BY <1>1, <1>2, ShapeFacts
<1>6. Rotated(tree, tree', p, d)
  <2> HIDE DEF d
  <2>1. Rotated(tree, Rotate(tree, p, d), p, d)
    BY <1>2, <1>4, <1>5, RotateIs
  <2> QED
    BY <1>1, <2>1
<1>7. tree'.red[p] /\ Apart(tree', p, NULL) /\ Even(tree', h, NULL, Left)
  <2>1. ASSUME NEW u, Rotated(tree, u, p, d)
        PROVE  u.red[p] /\ Apart(u, p, NULL) /\ Even(u, h, NULL, Left)
    BY <1>1, <1>2, <1>3, <2>1, BentColours
  <2> QED
    BY <1>6, <2>1
<1> HIDE DEF d
<1>8. Members(tree') = Members(tree) /\ \E c : Shape(tree', c)
  <2>1. ASSUME NEW u, Rotated(tree, u, p, d)
        PROVE  Members(u) = Members(tree) /\ \E c : Shape(u, c)
    BY <1>2, <1>4, <1>5, <2>1, RotateMembers, RotateShape
  <2> QED
    BY <1>6, <2>1
<1>9. PICK c : Shape(tree', c)
  BY <1>8
<1> QED
  BY <1>1, <1>2, <1>4, <1>7, <1>8, <1>9, RecolouringKeeps

(* The rotation at the grandparent.                                        *)
LEMMA StraightKeeps ==
  ASSUME NEW b, NEW h, IInvAt(b, h), Straight
  PROVE  IInv' /\ Promised
<1> DEFINE p == Parent
           g == Gparent
           q == Uncle
           d == Hang
<1>1. /\ phase = "insert_color" /\ InsertColor /\ IsRed(tree, tree.parent[curr]) /\ ~IsRed(tree, q)
      /\ curr' = curr /\ tree.kid[p][Other(d)] # curr
      /\ tree' = Rotate([tree EXCEPT !.red[p] = FALSE, !.red[g] = TRUE], g, Other(d))
  BY DEF Straight, InsertColor, Parent
<1>2. /\ Shape(tree, b) /\ tree \in Trees /\ h \in Heights /\ Even(tree, h, NULL, Left)
      /\ curr \in Members(tree) /\ tree.red[curr] /\ Apart(tree, curr, NULL)
  BY <1>1, InsertColorFacts
<1>3. Elders(tree, curr, p, g, q) /\ d = SideOf(tree, g, p)
  BY DEF Elders, Parent, Gparent, Uncle, Hang
<1> HIDE DEF p, g, q, d
<1>4. g \in Members(tree) /\ tree.kid[g][d] = p /\ d \in Sides
  BY <1>1, <1>2, <1>3, InsertFacts
<1>5. tree' = Swapped(tree, g, Other(d))
  <2>1. Other(Other(d)) = d
    BY <1>4, SideFacts
  <2> QED
    BY <1>1, <1>4, <2>1 DEF Swapped
<1>6. /\ Members(tree') = Members(tree) /\ \E c : Shape(tree', c)
      /\ tree'.red[curr] /\ Apart(tree', curr, NULL)
      /\ \E f \in Heights : Even(tree', f, NULL, Left)
  <2> DEFINE u == Swapped(tree, g, Other(d))
  <2>1. /\ Members(u) = Members(tree) /\ \E c : Shape(u, c)
        /\ u.red[curr] /\ Apart(u, curr, NULL)
        /\ \E f \in Heights : Even(u, f, NULL, Left)
    BY <1>1, <1>2, <1>3, StraightColours
  <2> HIDE DEF u
  <2>2. tree' = u
    BY <1>5 DEF u
  <2> QED
    BY <2>1, <2>2
<1>7. PICK c : Shape(tree', c)
  BY <1>6
<1>8. PICK f \in Heights : Even(tree', f, NULL, Left)
  BY <1>6
<1> QED
  BY <1>1, <1>2, <1>6, <1>7, <1>8, RecolouringKeeps

(* The loop ends with the root black.                                      *)
LEMMA InsertEndsKeeps ==
  ASSUME NEW b, NEW h, IInvAt(b, h), InsertEnds
  PROVE  IInv' /\ Promised
<1>1. /\ phase = "insert_color" /\ ~IsRed(tree, tree.parent[curr]) /\ Ended
      /\ tree' = SetRed(tree, tree.root, FALSE) /\ treeCall' = treeCall /\ treeAnswer' = treeAnswer
  BY DEF InsertEnds, Parent, answered
<1>2. /\ Shape(tree, b) /\ tree \in Trees /\ h \in Heights /\ Even(tree, h, NULL, Left)
      /\ curr \in Members(tree) /\ tree.red[curr] /\ Apart(tree, curr, NULL)
  BY <1>1, InsertColorFacts
<1>3. Recoloured(tree, tree') /\ Apart(tree', NULL, NULL) /\ \E f \in Heights : Even(tree', f, NULL, Left)
  BY <1>1, <1>2, InsertEndColours
<1>4. Members(tree') = Members(tree) /\ Shape(tree', b)
  BY <1>2, <1>3, RecolourShape
<1>5. PICK f \in Heights : Even(tree', f, NULL, Left)
  BY <1>3
<1>6. IInv'
  BY <1>1, <1>3, <1>4, <1>5, EndedKeeps
<1> QED
  BY <1>1, <1>4, <1>6 DEF Promised

(***************************************************************************)
(* __rb_erase_color().                                                     *)
(***************************************************************************)
LEMMA EraseColorFacts ==
  ASSUME NEW b, NEW h, IInvAt(b, h), EraseColor
  PROVE  /\ Shape(tree, b) /\ tree \in Trees /\ h \in Heights
         /\ up \in Members(tree) /\ up \in Keys /\ up # NULL /\ curr \in MaybeKeys
         /\ Side \in Sides /\ tree.kid[up][Side] = curr /\ Even(tree, h, up, Side)
         /\ Sibling = tree.kid[up][Other(Side)] /\ Sibling \in Members(tree) /\ Sibling \in Keys
         /\ Apart(tree, NULL, NULL) /\ ~IsRed(tree, curr)
         /\ Asked /\ FoundOK
<1>1. phase = "erase_color" /\ ~IsRed(tree, curr) /\ curr # tree.root
  BY DEF EraseColor
<1>2. /\ Shape(tree, b) /\ tree \in Trees /\ h \in Heights /\ Apart(tree, curr, curr)
      /\ Asked /\ FoundOK /\ up \in MaybeKeys /\ curr \in MaybeKeys
  BY <1>1, ShapeFacts DEF IInvAt, Colours, Places
<1>3. up # NULL /\ up \in Members(tree) /\ \E e \in Sides : tree.kid[up][e] = curr /\ Even(tree, h, up, e)
  BY <1>1 DEF IInvAt, Colours
<1>4. PICK e \in Sides : tree.kid[up][e] = curr /\ Even(tree, h, up, e)
  BY <1>3
<1>5. Kin(tree, up, curr, Side, Sibling)
  BY DEF Kin, Side, Sibling
<1>6. /\ Side \in Sides /\ tree.kid[up][Side] = curr /\ Even(tree, h, up, Side)
      /\ Sibling = tree.kid[up][Other(Side)] /\ Sibling \in Members(tree) /\ Apart(tree, NULL, NULL)
  BY <1>1, <1>2, <1>3, <1>4, <1>5, EraseFacts
<1>7. Sibling \in Keys /\ up \in Keys
  BY <1>2, <1>3, <1>6, ShapeFacts
<1> QED
  BY <1>1, <1>2, <1>3, <1>6, <1>7

(* What is true with no exception is true with any.                        *)
LEMMA ApartAnywhere ==
  ASSUME NEW t \in Trees, NEW x, Apart(t, NULL, NULL)
  PROVE  Apart(t, x, x)
<1>1. NULL \notin Members(t)
  BY TreeTypes, KeysAssumption
<1> QED
  BY <1>1 DEF Apart, IsRed

(* A step of the loop that leaves the missing node where it was.           *)
LEMMA ShiftingKeeps ==
  ASSUME NEW b, NEW h, IInvAt(b, h), EraseColor, curr' = curr, up' = up,
         Members(tree') = Members(tree), NEW c, Shape(tree', c),
         tree'.kid[up][Side] = tree.kid[up][Side], Apart(tree', NULL, NULL),
         NEW g \in Heights, Even(tree', g, up, Side)
  PROVE  IInv' /\ Promised
<1>1. phase' = phase /\ op' = op /\ found' = found /\ treeCall' = treeCall /\ treeAnswer' = treeAnswer /\ phase = "erase_color"
  BY DEF EraseColor, answered
<1>2. /\ up \in Members(tree) /\ up \in MaybeKeys /\ up # NULL /\ Side \in Sides /\ curr \in MaybeKeys
      /\ tree.kid[up][Side] = curr /\ Asked /\ FoundOK
  BY EraseColorFacts DEF MaybeKeys
<1>3. FoundOK' /\ Asked'
  BY <1>1, <1>2 DEF FoundOK, Asked
<1>4. Apart(tree', curr', curr')
  BY ShapeFacts, ApartAnywhere
<1> DEFINE d == Side
<1>5. tree'.kid[up][d] = curr /\ Even(tree', g, up, d) /\ d \in Sides
  BY <1>2
<1> HIDE DEF d
<1>6. IInv'
  BY <1>1, <1>2, <1>3, <1>4, <1>5, EraseKeeps
<1> QED
  BY <1>1, <1>6 DEF Promised

(* A rotation at the parent gives the short side a black sibling.          *)
LEMMA RedSiblingKeeps ==
  ASSUME NEW b, NEW h, IInvAt(b, h), RedSibling
  PROVE  IInv' /\ Promised
<1> DEFINE d == Side
           s == Sibling
<1>1. /\ EraseColor /\ tree.red[s] /\ curr' = curr /\ up' = up
      /\ tree' = Rotate([tree EXCEPT !.red[s] = FALSE, !.red[up] = TRUE], up, d)
  BY DEF RedSibling
<1>2. /\ Shape(tree, b) /\ tree \in Trees /\ h \in Heights /\ up \in Members(tree)
      /\ d \in Sides /\ tree.kid[up][d] = curr /\ Even(tree, h, up, d)
      /\ s = tree.kid[up][Other(d)] /\ s \in Members(tree)
      /\ Apart(tree, NULL, NULL) /\ ~IsRed(tree, curr)
  BY <1>1, EraseColorFacts
<1> HIDE DEF d, s
<1>3. tree' = Swapped(tree, up, d)
  BY <1>1, <1>2 DEF Swapped
<1>4. /\ Members(tree') = Members(tree) /\ \E c : Shape(tree', c)
      /\ tree'.kid[up][d] = tree.kid[up][d] /\ Apart(tree', NULL, NULL)
      /\ \E f \in Heights : Even(tree', f, up, d)
  <2> DEFINE u == Swapped(tree, up, d)
  <2>1. /\ Members(u) = Members(tree) /\ \E c : Shape(u, c)
        /\ u.kid[up][d] = tree.kid[up][d] /\ Apart(u, NULL, NULL)
        /\ \E f \in Heights : Even(u, f, up, d)
    BY <1>1, <1>2, RedSiblingColours
  <2> HIDE DEF u
  <2>2. tree' = u
    BY <1>3 DEF u
  <2> QED
    BY <2>1, <2>2
<1>5. PICK c : Shape(tree', c)
  BY <1>4
<1>6. PICK f \in Heights : Even(tree', f, up, d)
  BY <1>4
<1> QED
  BY <1>1, <1>4, <1>5, <1>6, ShiftingKeeps DEF d

(* A rotation at the sibling makes the farther nephew red.                 *)
LEMMA NearNephewKeeps ==
  ASSUME NEW b, NEW h, IInvAt(b, h), NearNephewRed
  PROVE  IInv' /\ Promised
<1> DEFINE d == Side
           s == Sibling
<1>1. /\ EraseColor /\ ~tree.red[s] /\ curr' = curr /\ up' = up
      /\ ~IsRed(tree, tree.kid[s][Other(d)]) /\ IsRed(tree, tree.kid[s][d])
      /\ tree' = Rotate([tree EXCEPT !.red[tree.kid[s][d]] = FALSE, !.red[s] = TRUE], s, Other(d))
  BY DEF NearNephewRed, Nephew
<1>2. /\ Shape(tree, b) /\ tree \in Trees /\ h \in Heights /\ up \in Members(tree)
      /\ d \in Sides /\ tree.kid[up][d] = curr /\ Even(tree, h, up, d)
      /\ s = tree.kid[up][Other(d)] /\ s \in Members(tree)
      /\ Apart(tree, NULL, NULL) /\ ~IsRed(tree, curr)
  BY <1>1, EraseColorFacts
<1> HIDE DEF d, s
<1>3. tree' = Swapped(tree, s, Other(d))
  <2>1. Other(Other(d)) = d
    BY <1>2, SideFacts
  <2> QED
    BY <1>1, <2>1 DEF Swapped
<1>4. /\ Members(tree') = Members(tree) /\ \E c : Shape(tree', c)
      /\ tree'.kid[up][d] = tree.kid[up][d] /\ Apart(tree', NULL, NULL)
      /\ \E f \in Heights : Even(tree', f, up, d)
  <2> DEFINE u == Swapped(tree, s, Other(d))
  <2>1. /\ Members(u) = Members(tree) /\ \E c : Shape(u, c)
        /\ u.kid[up][d] = tree.kid[up][d] /\ Apart(u, NULL, NULL)
        /\ \E f \in Heights : Even(u, f, up, d)
    BY <1>1, <1>2, NearNephewColours
  <2> HIDE DEF u
  <2>2. tree' = u
    BY <1>3 DEF u
  <2> QED
    BY <2>1, <2>2
<1>5. PICK c : Shape(tree', c)
  BY <1>4
<1>6. PICK f \in Heights : Even(tree', f, up, d)
  BY <1>4
<1> QED
  BY <1>1, <1>4, <1>5, <1>6, ShiftingKeeps DEF d

(* The sibling turns red and the lack moves up.                            *)
LEMMA BlackNephewsKeeps ==
  ASSUME NEW b, NEW h, IInvAt(b, h), BlackNephews
  PROVE  IInv' /\ Promised
<1> DEFINE d == Side
           s == Sibling
           q == tree.parent[up]
<1>1. /\ EraseColor /\ ~tree.red[s] /\ \A e \in Sides : ~IsRed(tree, tree.kid[s][e])
      /\ tree' = [tree EXCEPT !.red[s] = TRUE] /\ curr' = up /\ up' = q
  BY DEF BlackNephews, Nephew
<1>2. /\ Shape(tree, b) /\ tree \in Trees /\ h \in Heights /\ up \in Members(tree) /\ up \in Keys
      /\ d \in Sides /\ tree.kid[up][d] = curr /\ Even(tree, h, up, d)
      /\ s = tree.kid[up][Other(d)] /\ s \in Members(tree) /\ s \in Keys
      /\ Apart(tree, NULL, NULL) /\ ~IsRed(tree, curr) /\ Asked /\ FoundOK
  BY <1>1, EraseColorFacts
<1>3. phase' = phase /\ op' = op /\ found' = found /\ treeCall' = treeCall /\ treeAnswer' = treeAnswer /\ phase = "erase_color"
  BY <1>1 DEF EraseColor, answered
<1> HIDE DEF d, s, q
<1>4. Reddened(tree, tree', s)
  <2>1. Recoloured(tree, tree')
    BY <1>1, <1>2 DEF Recoloured, Trees
  <2>2. tree'.red[s] /\ \A k \in Keys : k # s => tree'.red[k] = tree.red[k]
    BY <1>1, <1>2 DEF Trees
  <2> QED
    BY <2>1, <2>2 DEF Reddened
<1>5. Members(tree') = Members(tree) /\ Shape(tree', b) /\ tree'.kid = tree.kid /\ tree'.root = tree.root
  BY <1>2, <1>4, RecolourShape DEF Reddened, Recoloured
<1>6. FoundOK' /\ Asked' /\ q \in MaybeKeys /\ up \in MaybeKeys
  <2>1. q \in MaybeKeys
    BY <1>2, TreeTypes DEF q
  <2> QED
    BY <1>2, <1>3, <1>5, <2>1 DEF FoundOK, Asked, MaybeKeys
<1>7. PICK c \in Sides : \/ up = tree.root /\ q = NULL /\ c = Left
                         \/ q \in Members(tree) /\ tree.kid[q][c] = up
  BY <1>2, ShapeFacts, SideFacts DEF q
<1>8. Apart(tree', up, up) /\ \E f \in Heights : Even(tree', f, q, c)
  <2>1. \/ up = tree.root /\ q = NULL
        \/ q \in Members(tree) /\ c \in Sides /\ tree.kid[q][c] = up
    BY <1>7
  <2>2. ~IsRed(tree, tree.kid[up][d])
    BY <1>2
  <2>3. ASSUME NEW u, Reddened(tree, u, s)
        PROVE  Apart(u, up, up) /\ \E f \in Heights : Even(u, f, q, c)
    BY <1>1, <1>2, <2>1, <2>2, <2>3, BlackNephewsColours
  <2> QED
    BY <1>4, <2>3
<1>9. PICK f \in Heights : Even(tree', f, q, c)
  BY <1>8
<1>10. \/ up = tree'.root /\ Even(tree', f, NULL, Left) /\ q = NULL
       \/ q # NULL /\ q \in Members(tree') /\ \E e \in Sides : tree'.kid[q][e] = up /\ Even(tree', f, q, e)
  <2>1. q \in Members(tree) => q # NULL
    BY <1>2, ShapeFacts
  <2> QED
    BY <1>5, <1>7, <1>9, <2>1
<1>11. IInv'
  BY <1>1, <1>3, <1>5, <1>6, <1>8, <1>10, EraseKeeps
<1> QED
  BY <1>3, <1>5, <1>11 DEF Promised

(* The last rotation, after which the loop ends at the root.               *)
LEMMA FarNephewKeeps ==
  ASSUME NEW b, NEW h, IInvAt(b, h), FarNephewRed
  PROVE  IInv' /\ Promised
<1> DEFINE d == Side
           s == Sibling
           far == tree.kid[s][Other(d)]
           v == [tree EXCEPT !.red[s] = tree.red[up], !.red[up] = FALSE, !.red[far] = FALSE]
<1>1. /\ EraseColor /\ ~tree.red[s] /\ IsRed(tree, far)
      /\ tree' = Rotate(v, up, d) /\ curr' = tree'.root /\ up' = up
  BY DEF FarNephewRed, Nephew
<1>2. /\ Shape(tree, b) /\ tree \in Trees /\ h \in Heights /\ up \in Members(tree) /\ up \in Keys
      /\ d \in Sides /\ Even(tree, h, up, d)
      /\ s = tree.kid[up][Other(d)] /\ s \in Members(tree) /\ s \in Keys
      /\ Apart(tree, NULL, NULL) /\ Asked /\ FoundOK
  BY <1>1, EraseColorFacts
<1>3. phase' = phase /\ op' = op /\ found' = found /\ treeCall' = treeCall /\ treeAnswer' = treeAnswer /\ phase = "erase_color"
  BY <1>1 DEF EraseColor, answered
<1> HIDE DEF d, s
<1>4. far \in Members(tree) /\ far \in Keys /\ far # up /\ far # s /\ s # up /\ s # NULL
      /\ FarNephew(tree, up, d, s, far)
  <2>1. far # NULL /\ s # NULL /\ Other(d) \in Sides
    <3>1. far # NULL
      BY <1>1 DEF IsRed
    <3>2. s # NULL
      BY <1>2, NodeFacts
    <3> QED
      BY <1>2, <3>1, <3>2, SideFacts
  <2>2. far \in Members(tree) /\ far \in Keys /\ tree.parent[far] = s /\ far # s
    BY <1>2, <2>1, ShapeFacts
  <2>3. tree.parent[s] = up /\ s # up
    BY <1>2, <2>1, ShapeFacts
  <2>4. far # up
    <3>1. Beyond(Other(d), s, up) /\ Beyond(Other(d), far, s)
      BY <1>2, <2>1, ShapeFacts
    <3> QED
      BY <1>2, <2>1, <2>2, <3>1, BeyondFacts
  <2>5. FarNephew(tree, up, d, s, far)
    BY <1>2 DEF FarNephew
  <2> QED
    BY <2>1, <2>2, <2>3, <2>4, <2>5
<1> HIDE DEF far
<1>5. Handed(tree, v, up, s, far)
  <2>1. tree.red[up] \in BOOLEAN
    BY <1>2, TreeTypes
  <2>2. Recoloured(tree, v)
    BY <1>2, <1>4, <2>1 DEF Recoloured, Trees
  <2>3. (v.red[s] <=> tree.red[up]) /\ ~v.red[up] /\ ~v.red[far]
    BY <1>2, <1>4, <2>1 DEF Trees
  <2>4. \A k \in Keys : k \notin {s, up, far} => v.red[k] = tree.red[k]
    BY <1>2, <1>4, <2>1 DEF Trees
  <2> QED
    BY <2>2, <2>3, <2>4 DEF Handed
<1> HIDE DEF v
<1>6. Shape(v, b) /\ Members(v) = Members(tree) /\ v.kid = tree.kid
  BY <1>2, <1>5, RecolourShape DEF Handed, Recoloured
<1>7. v.kid[up][Other(d)] # NULL /\ up \in Members(v)
  BY <1>2, <1>4, <1>6
<1>8. Rotated(v, tree', up, d)
  <2>1. Rotated(v, Rotate(v, up, d), up, d)
    BY <1>2, <1>6, <1>7, RotateIs
  <2> QED
    BY <1>1, <2>1
<1>9. Members(tree') = Members(tree) /\ \E c : Shape(tree', c)
  <2>1. ASSUME NEW u, Rotated(v, u, up, d)
        PROVE  Members(u) = Members(v) /\ \E c : Shape(u, c)
    BY <1>2, <1>6, <1>7, <2>1, RotateMembers, RotateShape
  <2> QED
    BY <1>6, <1>8, <2>1
<1>10. Apart(tree', NULL, NULL) /\ \E f \in Heights : Even(tree', f, NULL, Left)
  <2>1. ASSUME NEW u, Rotated(v, u, up, d)
        PROVE  Apart(u, NULL, NULL) /\ \E f \in Heights : Even(u, f, NULL, Left)
    BY <1>1, <1>2, <1>4, <1>5, <2>1, FarNephewColours
  <2> QED
    BY <1>8, <2>1
<1>11. PICK c : Shape(tree', c)
  BY <1>9
<1>12. PICK f \in Heights : Even(tree', f, NULL, Left)
  BY <1>10
<1>13. tree' \in Trees
  BY <1>11, ShapeFacts
<1>14. Apart(tree', curr', curr') /\ curr' \in MaybeKeys
  BY <1>1, <1>10, <1>13, ApartAnywhere, TreeTypes
<1>15. FoundOK' /\ Asked' /\ up' \in MaybeKeys
  BY <1>1, <1>2, <1>3, <1>9 DEF FoundOK, Asked, MaybeKeys
<1>16. IInv'
  BY <1>1, <1>2, <1>3, <1>9, <1>11, <1>12, <1>14, <1>15, EraseKeeps
<1> QED
  BY <1>3, <1>9, <1>16 DEF Promised

(* The node that lacks is red, or is the root: black, it makes up for it.  *)
LEMMA EraseEndsKeeps ==
  ASSUME NEW b, NEW h, IInvAt(b, h), EraseEnds
  PROVE  IInv' /\ Promised
<1>1. /\ phase = "erase_color" /\ (IsRed(tree, curr) \/ curr = tree.root) /\ Ended
      /\ tree' = SetRed(tree, curr, FALSE) /\ treeCall' = treeCall /\ treeAnswer' = treeAnswer
  BY DEF EraseEnds, answered
<1>2. Shape(tree, b) /\ h \in Heights /\ Apart(tree, curr, curr) /\ curr \in MaybeKeys
  BY <1>1 DEF IInvAt, Colours
<1>3. \E p, d : /\ Even(tree, h, p, d)
                /\ \/ curr = tree.root /\ p = NULL
                   \/ IsRed(tree, curr) /\ p \in Members(tree) /\ d \in Sides /\ tree.kid[p][d] = curr
  <2>1. CASE curr = tree.root /\ Even(tree, h, NULL, Left)
    BY <2>1
  <2>2. CASE up \in Members(tree) /\ \E d \in Sides : tree.kid[up][d] = curr /\ Even(tree, h, up, d)
    <3>1. PICK d \in Sides : tree.kid[up][d] = curr /\ Even(tree, h, up, d)
      BY <2>2
    <3>2. curr # tree.root
      <4>1. tree.root # NULL
        BY <1>2, <2>2, RootThere
      <4> QED
        BY <1>2, <2>2, <3>1, <4>1, ShapeFacts
    <3> QED
      BY <1>1, <2>2, <3>1, <3>2
  <2> QED
    BY <1>1, <2>1, <2>2 DEF IInvAt, Colours
<1>4. PICK p, d : /\ Even(tree, h, p, d)
                  /\ \/ curr = tree.root /\ p = NULL
                     \/ IsRed(tree, curr) /\ p \in Members(tree) /\ d \in Sides /\ tree.kid[p][d] = curr
  BY <1>3
<1>5. Recoloured(tree, tree') /\ Apart(tree', NULL, NULL) /\ \E f \in Heights : Even(tree', f, NULL, Left)
  BY <1>1, <1>2, <1>4, EraseEndColours
<1>6. Members(tree') = Members(tree) /\ Shape(tree', b)
  BY <1>2, <1>5, RecolourShape
<1>7. PICK f \in Heights : Even(tree', f, NULL, Left)
  BY <1>5
<1>8. IInv'
  BY <1>1, <1>5, <1>6, <1>7, EndedKeeps
<1> QED
  BY <1>1, <1>6, <1>8 DEF Promised

-----------------------------------------------------------------------------
(***************************************************************************)
(* The theorems.                                                           *)
(***************************************************************************)
LEMMA InitInvariant ==
  ASSUME TreeInit
  PROVE  IInv /\ Members(tree) = {}
<1> DEFINE b == [k \in Keys |-> [d \in Sides |-> NULL]]
           h == [k \in Keys |-> 0]
<1>1. /\ tree = [root |-> NULL, kid |-> [n \in Keys |-> NoKids],
                 parent |-> [n \in Keys |-> NULL], red |-> [n \in Keys |-> FALSE]]
      /\ phase = "idle" /\ op = <<"none">> /\ curr = NULL /\ up = NULL /\ found = {}
  BY DEF TreeInit
<1>2. tree \in Trees /\ tree.root = NULL
      /\ \A n \in Keys : tree.parent[n] = NULL /\ \A d \in Sides : tree.kid[n][d] = NULL
  <2>1. NoKids \in [Sides -> Keys \union {NULL}] /\ \A d \in Sides : NoKids[d] = NULL
    BY DEF NoKids
  <2> HIDE DEF NoKids
  <2> QED
    BY <1>1, <2>1 DEF Trees
<1>3. NULL \notin Keys
  BY KeysAssumption
<1>4. Members(tree) = {}
  BY <1>2, <1>3 DEF Members
<1>5. b \in Bounds /\ h \in Heights
  BY DEF Bounds, Heights, MaybeKeys
<1> HIDE DEF b, h
<1>6. Shape(tree, b)
  BY <1>2, <1>4, <1>5 DEF Shape, RootFree, KidsHang, ParentsHold, Ordered, OthersClear
<1>7. Even(tree, h, NULL, Left) /\ Apart(tree, NULL, NULL)
  BY <1>2, <1>4 DEF Even, Apart, IsRed
<1>8. Places(b)
  BY <1>1 DEF Places, FoundOK, AtTurn, AtFarthest, AtClimb, AtWalk
<1>9. Colours(h)
  BY <1>1, <1>7 DEF Colours
<1>10. IInvAt(b, h)
  BY <1>1, <1>5, <1>6, <1>8, <1>9 DEF IInvAt, Phases, Asked, MaybeKeys
<1> QED
  BY <1>4, <1>10 DEF IInv

(* Every step keeps the invariant and the promise.                         *)
LEMMA NextKeeps ==
  ASSUME IInv, TreeNext
  PROVE  IInv' /\ Promised
<1>1. PICK b, h : IInvAt(b, h)
  BY DEF IInv
<1>2. CASE \E x \in Keys : Search(x) \/ Step(x)
  BY <1>1, <1>2, BeginKeeps
<1>3. CASE \E x, y \in Keys : Between(x, y)
  BY <1>1, <1>3, BeginKeeps
<1>4. CASE Searching
  BY <1>1, <1>4, DescendKeeps, FindEndsKeeps, GiveUpKeeps, NearestKeeps, LinkStepKeeps, UnlinkKeeps,
     ToSuccessorKeeps DEF Searching
<1>5. CASE Walking
  BY <1>1, <1>5, TurnKeeps, FarthestKeeps, SucceedStepKeeps, ClimbKeeps, ArriveBelowKeeps, ArriveAboveKeeps,
     WalkKeeps, WalkEndsKeeps DEF Walking
<1>6. CASE Inserting
  BY <1>1, <1>6, RedUncleKeeps, BentKeeps, StraightKeeps, InsertEndsKeeps DEF Inserting
<1>7. CASE Erasing
  BY <1>1, <1>7, RedSiblingKeeps, BlackNephewsKeeps, NearNephewKeeps, FarNephewKeeps, EraseEndsKeeps DEF Erasing
<1> QED
  BY <1>2, <1>3, <1>4, <1>5, <1>6, <1>7 DEF TreeNext

(* And so does no step at all.                                             *)
LEMMA StutterKeeps ==
  ASSUME IInv, UNCHANGED treeVars
  PROVE  IInv' /\ UNCHANGED <<Members(tree), treeCall, treeAnswer>>
<1>1. /\ tree' = tree /\ phase' = phase /\ op' = op /\ curr' = curr /\ up' = up /\ found' = found
      /\ treeCall' = treeCall /\ treeAnswer' = treeAnswer
  BY DEF treeVars, locals, answered
<1>2. PICK b, h : IInvAt(b, h)
  BY DEF IInv
<1>3. Asked' /\ FoundOK'
  BY <1>1, <1>2 DEF IInvAt, Places, Asked, FoundOK
<1>4. \A x : From(x) => From(x)'
  BY <1>1 DEF From, Passed
<1>5. Ahead' = Ahead
  BY <1>1 DEF Ahead
<1>6. (phase = "descend" => AtDescend(b))' /\ AtTurn' /\ AtFarthest(b)' /\ AtClimb(b)' /\ AtWalk'
  BY <1>1, <1>2, <1>4, <1>5 DEF IInvAt, Places, AtDescend, AtTurn, AtFarthest, AtClimb, AtWalk, Met
<1>7. Colours(h)'
  BY <1>1, <1>2 DEF IInvAt, Colours
<1>8. IInvAt(b, h)'
  BY <1>1, <1>2, <1>3, <1>6, <1>7 DEF IInvAt, Places
<1> QED
  BY <1>1, <1>8 DEF IInv

(* The invariant of the steps, with the bounds and heights they keep.      *)
THEOREM InductiveInvariant == TreeSpec => []IInv
<1>1. TreeInit => IInv
  BY InitInvariant
<1>2. IInv /\ [TreeNext]_treeVars => IInv'
  BY NextKeeps, StutterKeeps
<1> QED
  BY <1>1, <1>2, PTL DEF TreeSpec

(* Between two calls the tree of systems is a red-black tree, whatever was *)
(* inserted and erased and however many systems there are (rbtree.c).      *)
THEOREM TreeBalancedAlways == TreeSpec => []TreeBalanced
<1>1. IInv => TreeBalanced
  <2> SUFFICES ASSUME IInv
               PROVE  TreeBalanced
    OBVIOUS
  <2>1. PICK b, h : IInvAt(b, h)
    BY DEF IInv
  <2>2. tree \in Trees
    BY <2>1, ShapeFacts DEF IInvAt
  <2>3. phase = "idle" => RedBlack(tree)
    BY <2>1, CalmFacts, ThenRedBlack
  <2> QED
    BY <2>2, <2>3 DEF TreeBalanced
<1> QED
  BY <1>1, InductiveInvariant, PTL

(* The tree of systems is an ordered set to universe.c: every call answers *)
(* as OrderedSet.tla says, and nothing changes the set but an insertion    *)
(* and a removal.                                                          *)
THEOREM ImplementsOrderedSet == TreeSpec => AsOrderedSet
<1>1. TreeInit => O!Init
  BY InitInvariant DEF TreeInit, O!Init
<1>2. IInv /\ [TreeNext]_treeVars => [O!Next]_<<Members(tree), treeCall, treeAnswer>>
  BY NextKeeps, StutterKeeps DEF Promised
<1> QED
  BY <1>1, <1>2, InductiveInvariant, PTL DEF TreeSpec, AsOrderedSet, O!Spec
=============================================================================
