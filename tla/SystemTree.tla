----------------------------- MODULE SystemTree -----------------------------
(***************************************************************************)
(* univ.x_rbtree: the systems in the order of their x coordinates, in the  *)
(* red-black tree of rbtree.c.  A node is the coordinate of its system.    *)
(* Each of the mirrored halves of the code is one definition here, with    *)
(* the side as a parameter.  A value NULL that the code dereferences is    *)
(* outside the domain of the functions below: TLC would stop at it.        *)
(*                                                                         *)
(* A loop of the code is an action here, taken once per iteration, and     *)
(* phase says which loop the call in progress is in.  No call begins       *)
(* before the last one ended: one thread makes the universe, and later     *)
(* calls, of several threads, only read.                                   *)
(***************************************************************************)
EXTENDS Integers, FiniteSets

CONSTANTS Keys,     \* the x coordinates: finitely many, as a long has
          NULL      \* no node

ASSUME KeysAssumption == Keys \subseteq Int /\ IsFiniteSet(Keys) /\ NULL \notin Keys

Left == "rb_left"
Right == "rb_right"
Sides == {Left, Right}
Other(d) == IF d = Left THEN Right ELSE Left

VARIABLES tree,     \* the root, and the links and colour of every node
          phase,    \* the loop of the call in progress, or "idle"
          op,       \* that call and its arguments
          curr, up, \* its locals: a node, and the parent of one
          found,    \* the systems it has met
          treeCall,   \* the call answered last, until the next begins
          treeAnswer  \* what it returned: a key, NULL, or a set of keys

locals == <<op, curr, up, found>>
answered == <<treeCall, treeAnswer>>
treeVars == <<tree, phase, locals, answered>>

Phases == {"idle", "descend", "turn", "farthest", "climb", "walk",
           "insert_color", "erase_color"}

NoKids == [d \in Sides |-> NULL]

Trees == [root : Keys \union {NULL},
          kid : [Keys -> [Sides -> Keys \union {NULL}]],
          parent : [Keys -> Keys \union {NULL}],
          red : [Keys -> BOOLEAN]]

(* The nodes that are linked into the tree.                                *)
Members(t) == {n \in Keys : n = t.root \/ t.parent[n] # NULL}

TreeInit == /\ tree = [root |-> NULL, kid |-> [n \in Keys |-> NoKids],
                       parent |-> [n \in Keys |-> NULL], red |-> [n \in Keys |-> FALSE]]
            /\ phase = "idle"
            /\ op = <<"none">> /\ curr = NULL /\ up = NULL /\ found = {}
            /\ treeCall = <<"none">> /\ treeAnswer = NULL

IsRed(t, n) == n # NULL /\ t.red[n]

(* The side of p on which n hangs, and n's place given to m.               *)
SideOf(t, p, n) == IF t.kid[p][Left] = n THEN Left ELSE Right
Replace(t, p, n, m) == IF p = NULL THEN [t EXCEPT !.root = m]
                       ELSE [t EXCEPT !.kid[p][SideOf(t, p, n)] = m]
SetParent(t, n, p) == IF n = NULL THEN t ELSE [t EXCEPT !.parent[n] = p]
SetRed(t, n, red) == IF n = NULL THEN t ELSE [t EXCEPT !.red[n] = red]

(* Mutant: the node that changes sides keeps its parent.                   *)
RotateForgetful(t, n, d) ==
  LET over == t.kid[n][Other(d)]
      parent == t.parent[n]
      turned == [t EXCEPT !.kid[n][Other(d)] = t.kid[over][d], !.kid[over][d] = n]
      hung == Replace(turned, parent, n, over)
  IN [hung EXCEPT !.parent[over] = parent, !.parent[n] = over]

(* __rb_rotate_left() and, with the sides swapped, __rb_rotate_right().    *)
Rotate(t, n, d) ==
  LET over == t.kid[n][Other(d)]
      inner == t.kid[over][d]
      parent == t.parent[n]
      turned == [t EXCEPT !.kid[n][Other(d)] = inner, !.kid[over][d] = n]
      hung == Replace(SetParent(turned, inner, n), parent, n, over)
  IN [hung EXCEPT !.parent[over] = parent, !.parent[n] = over]

(* rb_link_node(): a red leaf below p, or the root.                        *)
Linked(t, x, p) ==
  LET hung == IF p = NULL THEN [t EXCEPT !.root = x]
              ELSE [t EXCEPT !.kid[p][IF x < p THEN Left ELSE Right] = x]
  IN [hung EXCEPT !.kid[x] = NoKids, !.parent[x] = p, !.red[x] = TRUE]

(* What a node keeps in its fields outside the tree is of no interest.     *)
Cleared(t, n) == [t EXCEPT !.kid[n] = NoKids, !.parent[n] = NULL, !.red[n] = FALSE]

(* rb_erase() of a node with at most one child, which takes its place.     *)
OnlyKid(t, n) == t.kid[n][IF t.kid[n][Left] = NULL THEN Right ELSE Left]
Spliced(t, n) ==
  LET child == OnlyKid(t, n)
      p == t.parent[n]
  IN Cleared(Replace(SetParent(t, child, p), p, n, child), n)

(* rb_erase() of a node with two: the next one, m, takes its place.        *)
Succeeded(t, n, m) ==
  LET child == t.kid[m][Right]
      p == t.parent[m]
      s == Replace(t, t.parent[n], n, m)
      u == IF p = n THEN s
           ELSE [SetParent(s, child, p) EXCEPT
                   !.kid[p][Left] = child,
                   !.kid[m][Right] = s.kid[n][Right],
                   !.parent[s.kid[n][Right]] = m]
  IN Cleared([u EXCEPT !.parent[m] = u.parent[n], !.red[m] = u.red[n],
                       !.kid[m][Left] = u.kid[n][Left],
                       !.parent[u.kid[n][Left]] = m], n)

-----------------------------------------------------------------------------
Begin(o, ph, n) ==
  /\ phase = "idle"
  /\ phase' = ph
  /\ op' = o /\ curr' = n /\ up' = NULL /\ found' = {}
  /\ treeCall' = <<"none">> /\ treeAnswer' = NULL
  /\ UNCHANGED tree

Ended == phase' = "idle" /\ op' = <<"none">> /\ curr' = NULL /\ up' = NULL /\ found' = {}
Answer(a) == treeCall' = op /\ treeAnswer' = a

(* A search begins at the root: of get_system_at_x(), which system_move()  *)
(* calls for the old and the new place, of insert_system_into_rbtree() and *)
(* of get_first_system_after_x() for get_neighbouring_systems().           *)
Search(x) == \E name \in {"find", "insert", "erase"} :
               Begin(<<name, x>>, "descend", tree.root)
Between(x, y) == x < y /\ Begin(<<"between", x, y>>, "descend", tree.root)

(* rb_next() and rb_prev() of a node of the tree.  None of these is its    *)
(* own parent: only rb_init_node() makes one so, before it is linked.      *)
Step(x) == /\ x \in Members(tree)
           /\ \E name \in {"next", "prev"} : Begin(<<name, x>>, "turn", x)

Descend ==
  /\ phase = "descend" /\ curr \notin {NULL, op[2]}
  /\ up' = curr
  /\ curr' = tree.kid[curr][IF op[2] < curr THEN Left ELSE Right]
  /\ UNCHANGED <<tree, phase, op, found, answered>>

FindEnds ==
  /\ phase = "descend" /\ op[1] = "find" /\ curr \in {NULL, op[2]}
  /\ Ended /\ Answer(curr)
  /\ UNCHANGED tree

(* system_move() gives up for a place that is taken, before the bug() of   *)
(* insert_system_into_rbtree(), and has nothing to remove for a system     *)
(* that is not there.                                                      *)
GiveUp ==
  /\ phase = "descend"
  /\ \/ op[1] = "insert" /\ curr = op[2]
     \/ op[1] = "erase" /\ curr = NULL
  /\ Ended
  /\ UNCHANGED <<tree, answered>>

(* Neither the first after x nor the last before it, but one of the two.   *)
Nearest ==
  /\ phase = "descend" /\ op[1] = "between" /\ curr \in {NULL, op[2]}
  /\ phase' = "walk"
  /\ curr' = IF curr = NULL THEN up ELSE curr
  /\ UNCHANGED <<tree, op, up, found, answered>>

Link ==
  /\ phase = "descend" /\ op[1] = "insert" /\ curr = NULL
  /\ tree' = Linked(tree, op[2], up)
  /\ phase' = "insert_color" /\ curr' = op[2]
  /\ Answer(NULL)
  /\ UNCHANGED <<op, up, found>>

(* A black node out of the tree leaves child, a child of p, short of one.  *)
Rebalance(black, child, p) ==
  IF black THEN phase' = "erase_color" /\ curr' = child /\ up' = p /\ UNCHANGED <<op, found>>
  ELSE Ended

Unlink ==
  /\ phase = "descend" /\ op[1] = "erase" /\ curr = op[2]
  /\ \E d \in Sides : tree.kid[curr][d] = NULL
  /\ tree' = Spliced(tree, curr)
  /\ Rebalance(~tree.red[curr], OnlyKid(tree, curr), tree.parent[curr])
  /\ Answer(NULL)

ToSuccessor ==
  /\ phase = "descend" /\ op[1] = "erase" /\ curr = op[2]
  /\ \A d \in Sides : tree.kid[curr][d] # NULL
  /\ phase' = "farthest" /\ curr' = tree.kid[curr][Right]
  /\ UNCHANGED <<tree, op, up, found, answered>>

-----------------------------------------------------------------------------
(* The way to the next node is to the right, to the previous to the left.  *)
Ahead == IF op[1] = "prev" THEN Left ELSE Right

(* Mutant: the descent into the other subtree is left out.                 *)
TurnUp ==
  /\ phase = "turn"
  /\ phase' = "climb"
  /\ UNCHANGED <<tree, locals, answered>>

Turn ==
  /\ phase = "turn"
  /\ LET kid == tree.kid[curr][Ahead]
     IN IF kid # NULL THEN phase' = "farthest" /\ curr' = kid
        ELSE phase' = "climb" /\ UNCHANGED curr
  /\ UNCHANGED <<tree, op, up, found, answered>>

Farthest ==
  /\ phase = "farthest" /\ tree.kid[curr][Other(Ahead)] # NULL
  /\ curr' = tree.kid[curr][Other(Ahead)]
  /\ UNCHANGED <<tree, phase, op, up, found, answered>>

Succeed ==
  /\ phase = "farthest" /\ op[1] = "erase" /\ tree.kid[curr][Left] = NULL
  /\ tree' = Succeeded(tree, op[2], curr)
  /\ Rebalance(~tree.red[curr], tree.kid[curr][Right],
               IF tree.parent[curr] = op[2] THEN curr ELSE tree.parent[curr])
  /\ Answer(NULL)

(* The nearest ancestor on the other side of the node.                     *)
Climb ==
  LET p == tree.parent[curr]
  IN /\ phase = "climb" /\ p # NULL /\ tree.kid[p][Ahead] = curr
     /\ curr' = p
     /\ UNCHANGED <<tree, phase, op, up, found, answered>>

Arrive(n) ==
  /\ IF op[1] = "between" THEN phase' = "walk" /\ curr' = n /\ UNCHANGED <<op, up, found, answered>>
     ELSE Ended /\ Answer(n)
  /\ UNCHANGED tree

ArriveBelow == /\ phase = "farthest" /\ op[1] # "erase"
               /\ tree.kid[curr][Other(Ahead)] = NULL
               /\ Arrive(curr)

ArriveAbove == LET p == tree.parent[curr]
               IN /\ phase = "climb" /\ ~(p # NULL /\ tree.kid[p][Ahead] = curr)
                  /\ Arrive(p)

(* get_neighbouring_systems(), in one dimension.                           *)
Walk ==
  /\ phase = "walk" /\ curr # NULL /\ curr <= op[3]
  /\ found' = found \union {curr}
  /\ phase' = "turn"
  /\ UNCHANGED <<tree, op, curr, up, answered>>

WalkEnds ==
  /\ phase = "walk" /\ ~(curr # NULL /\ curr <= op[3])
  /\ Ended /\ Answer({k \in found : k >= op[2]})
  /\ UNCHANGED tree

-----------------------------------------------------------------------------
(***************************************************************************)
(* rb_insert_color(): curr is red, and so may its parent be.  After the    *)
(* rotation of a bent pair the code goes on to the other one in the same   *)
(* iteration; the conditions for it hold in the state between the two.     *)
(***************************************************************************)
Parent == tree.parent[curr]
Gparent == tree.parent[Parent]
Hang == SideOf(tree, Gparent, Parent)
Uncle == tree.kid[Gparent][Other(Hang)]

InsertColor == /\ phase = "insert_color" /\ IsRed(tree, Parent)
               /\ UNCHANGED <<phase, op, up, found, answered>>

RedUncle ==
  /\ InsertColor /\ IsRed(tree, Uncle)
  /\ tree' = [tree EXCEPT !.red[Uncle] = FALSE, !.red[Parent] = FALSE, !.red[Gparent] = TRUE]
  /\ curr' = Gparent

Bent ==
  /\ InsertColor /\ ~IsRed(tree, Uncle) /\ tree.kid[Parent][Other(Hang)] = curr
  /\ tree' = Rotate(tree, Parent, Hang)
  /\ curr' = Parent

Straight ==
  /\ InsertColor /\ ~IsRed(tree, Uncle) /\ tree.kid[Parent][Other(Hang)] # curr
  /\ tree' = Rotate([tree EXCEPT !.red[Parent] = FALSE, !.red[Gparent] = TRUE],
                    Gparent, Other(Hang))
  /\ UNCHANGED curr

InsertEnds ==
  /\ phase = "insert_color" /\ ~IsRed(tree, Parent)
  /\ tree' = SetRed(tree, tree.root, FALSE)
  /\ Ended /\ UNCHANGED answered

(***************************************************************************)
(* __rb_erase_color(): curr, a child of up, is short of one black node.    *)
(* Again the conditions for the rest of an iteration hold after its first  *)
(* rotations, which are steps of their own.                                *)
(***************************************************************************)
Side == SideOf(tree, up, curr)
Sibling == tree.kid[up][Other(Side)]
Nephew(d) == tree.kid[Sibling][d]

EraseColor == /\ phase = "erase_color" /\ ~IsRed(tree, curr) /\ curr # tree.root
              /\ UNCHANGED <<phase, op, found, answered>>

RedSibling ==
  /\ EraseColor /\ tree.red[Sibling]
  /\ tree' = Rotate([tree EXCEPT !.red[Sibling] = FALSE, !.red[up] = TRUE], up, Side)
  /\ UNCHANGED <<curr, up>>

BlackNephews ==
  /\ EraseColor /\ ~tree.red[Sibling] /\ \A d \in Sides : ~IsRed(tree, Nephew(d))
  /\ tree' = [tree EXCEPT !.red[Sibling] = TRUE]
  /\ curr' = up /\ up' = tree.parent[up]

NearNephewRed ==
  /\ EraseColor /\ ~tree.red[Sibling] /\ ~IsRed(tree, Nephew(Other(Side)))
  /\ IsRed(tree, Nephew(Side))
  /\ tree' = Rotate([tree EXCEPT !.red[Nephew(Side)] = FALSE, !.red[Sibling] = TRUE],
                    Sibling, Other(Side))
  /\ UNCHANGED <<curr, up>>

FarNephewRed ==
  /\ EraseColor /\ ~tree.red[Sibling] /\ IsRed(tree, Nephew(Other(Side)))
  /\ tree' = Rotate([tree EXCEPT !.red[Sibling] = tree.red[up], !.red[up] = FALSE,
                                 !.red[Nephew(Other(Side))] = FALSE], up, Side)
  /\ curr' = tree'.root /\ UNCHANGED up

EraseEnds ==
  /\ phase = "erase_color" /\ (IsRed(tree, curr) \/ curr = tree.root)
  /\ tree' = SetRed(tree, curr, FALSE)
  /\ Ended /\ UNCHANGED answered

-----------------------------------------------------------------------------
Searching == Descend \/ FindEnds \/ GiveUp \/ Nearest \/ Link \/ Unlink \/ ToSuccessor
Walking == Turn \/ Farthest \/ Succeed \/ Climb \/ ArriveBelow \/ ArriveAbove \/ Walk \/ WalkEnds
Inserting == RedUncle \/ Bent \/ Straight \/ InsertEnds
Erasing == RedSibling \/ BlackNephews \/ NearNephewRed \/ FarNephewRed \/ EraseEnds

TreeNext == \/ \E x \in Keys : Search(x) \/ Step(x)
            \/ \E x, y \in Keys : Between(x, y)
            \/ Searching \/ Walking \/ Inserting \/ Erasing

TreeSpec == TreeInit /\ [][TreeNext]_treeVars

-----------------------------------------------------------------------------
(* What can be reached from n over the links to the children: whatever is  *)
(* in every set that is closed under them and has n in it.                 *)
ClosedSets(t) == {S \in SUBSET Keys :
                    \A n \in S : \A d \in Sides : t.kid[n][d] \in S \union {NULL}}
Below(closed, n) == {k \in Keys : \A S \in closed : n \in S \union {NULL} => k \in S}
BlacksAbove(t, closed, n) ==
  Cardinality({m \in Members(t) : ~t.red[m] /\ n \in Below(closed, m)})

RedBlack(t) ==
  LET closed == ClosedSets(t)
  IN /\ t.root # NULL => t.parent[t.root] = NULL /\ ~t.red[t.root]
     /\ Below(closed, t.root) = Members(t)
     /\ \A n \in Members(t) :
          /\ \A k \in Below(closed, t.kid[n][Left]) : k < n
          /\ \A k \in Below(closed, t.kid[n][Right]) : k > n
          /\ \A d \in Sides : t.kid[n][d] # NULL =>
               /\ t.parent[t.kid[n][d]] = n
               /\ t.red[n] => ~t.red[t.kid[n][d]]
     /\ \E blacks \in 0 .. Cardinality(Keys) :
          \A n \in Members(t) : (\E d \in Sides : t.kid[n][d] = NULL)
                                 => BlacksAbove(t, closed, n) = blacks

(***************************************************************************)
(* Between two calls the tree is a red-black tree: every node that is      *)
(* linked can be reached, lies between those to its left and right and is  *)
(* the parent of its children, none red is below a red one, and there are  *)
(* as many black ones on every way down to a place that is free.  With it  *)
(* a search takes logarithmic time.                                        *)
(***************************************************************************)
TreeBalanced == tree \in Trees /\ (phase = "idle" => RedBlack(tree))

(* To its users it is the ordered set of the systems inserted and not      *)
(* removed: no rotation loses one, and no walk over the links skips one.   *)
O == INSTANCE OrderedSet WITH set <- Members(tree), call <- treeCall,
                              answer <- treeAnswer, Null <- NULL
AsOrderedSet == O!Spec
=============================================================================
