------------------------------ MODULE PtrList -------------------------------
(***************************************************************************)
(* ptrlist.c on the circular lists of list.h: a head and, for each pointer *)
(* on the list, a cell with its links.  ptrlist_sort() moves the cells, in *)
(* place, by a merge sort from the bottom up.                              *)
(***************************************************************************)
EXTENDS Integers, Sequences, FiniteSets

CONSTANTS Cells,         \* the addresses malloc() may return
          Head0,         \* the list itself
          Data,          \* what is pointed to
          Origin,        \* the system that distances are taken from
          Distance(_),   \* system_distance() from there
          Null           \* NULL

CellsAssumption == /\ Cells \subseteq Nat /\ IsFiniteSet(Cells)
                   /\ Head0 \notin Cells /\ Null \notin Cells \union Data \union {Head0}

VARIABLES list,     \* the links and the data of the cells, and the field len
          call,     \* the last call
          answer    \* what it returned, Null if nothing

vars == <<list, call, answer>>

Links == Cells \union {Head0}

(* INIT_LIST_HEAD().                                                       *)
EmptyList == [next |-> [c \in Links |-> IF c = Head0 THEN Head0 ELSE Null],
              prev |-> [c \in Links |-> IF c = Head0 THEN Head0 ELSE Null],
              data |-> [c \in Cells |-> Null],
              len |-> 0]

Init == list = EmptyList /\ call = "init" /\ answer = Null

(* __list_add(), __list_del() and list_move().                             *)
ListAdd(l, c, p, n) == [l EXCEPT !.prev[n] = c, !.next[c] = n, !.prev[c] = p, !.next[p] = c]
ListDel(l, c) == [l EXCEPT !.prev[l.next[c]] = l.prev[c], !.next[l.prev[c]] = l.next[c]]
ListMove(l, c, p) == LET m == ListDel(l, c) IN ListAdd(m, c, p, m.next[p])

Free(l, c) == [ListDel(l, c) EXCEPT !.next[c] = Null, !.prev[c] = Null, !.data[c] = Null,
                                    !.len = @ - 1]

(* ptrlist_get(): the cell n places after c, or the head.                  *)
RECURSIVE Advance(_, _, _)
Advance(l, c, n) == IF n = 0 \/ c = Head0 THEN c ELSE Advance(l, l.next[c], n - 1)
Get(l, n) == Advance(l, l.next[Head0], n)

-----------------------------------------------------------------------------
(***************************************************************************)
(* cmp_system_distances(): the origin is nearer than any other; it may be  *)
(* on the list twice (get_neighbouring_ports(), generate_map()).           *)
(***************************************************************************)
CmpSystemDistances(x, y) == IF x = Origin THEN -1
                            ELSE IF y = Origin THEN 1
                            ELSE Distance(x) - Distance(y)

RECURSIVE MergeLists(_, _, _, _, _, _)
MergeLists(l, target, left, right, lenl, lenr) ==
  IF lenl = 0 /\ lenr = 0 THEN l
  ELSE IF lenl = 0 \/ (lenr > 0 /\ CmpSystemDistances(l.data[left], l.data[right]) > 0)
  THEN MergeLists(ListMove(l, right, target), right, left, l.next[right], lenl, lenr - 1)
  ELSE MergeLists(ListMove(l, left, target), left, l.next[left], right, lenl - 1, lenr)

(* How many cells there are from c to the head, up to n.                   *)
RECURSIVE Run(_, _, _)
Run(l, c, n) == IF n = 0 \/ c = Head0 THEN 0 ELSE 1 + Run(l, l.next[c], n - 1)

RECURSIVE MergeChunks(_, _, _)
MergeChunks(l, left, chunk) ==
  IF left = Head0 THEN l
  ELSE LET right == Advance(l, left, chunk)
           next == Advance(l, right, chunk)
       IN MergeChunks(MergeLists(l, l.prev[left], left, right,
                                 Run(l, left, chunk), Run(l, right, chunk)),
                      next, chunk)

(* Mutant: the last merge of a length that is no power of two is left out.  *)
RECURSIVE SortHalves(_, _)
SortHalves(l, chunk) ==
  IF chunk >= (l.len \div 2) THEN l ELSE SortHalves(MergeChunks(l, Get(l, 0), chunk), 2 * chunk)

RECURSIVE SortFrom(_, _)
SortFrom(l, chunk) ==
  IF chunk >= l.len THEN l ELSE SortFrom(MergeChunks(l, Get(l, 0), chunk), 2 * chunk)

-----------------------------------------------------------------------------
(* ptrlist_push(): malloc() may return any free cell; it may as well fail, *)
(* and which of the free ones it returns makes no difference.              *)
Push(x) ==
  /\ call' = "push"
  /\ LET unused == {c \in Cells : list.next[c] = Null}
     IN \/ UNCHANGED list
        \/ \E c \in unused :
             /\ \A d \in unused : c <= d
             /\ list' = [ListAdd(list, c, list.prev[Head0], Head0) EXCEPT
                           !.data[c] = x, !.len = @ + 1]
  /\ answer' = Null

Pull ==
  /\ call' = "pull"
  /\ LET first == list.next[Head0]
     IN \/ first = Head0 /\ answer' = Null /\ UNCHANGED list
        \/ /\ first # Head0
           /\ answer' = list.data[first]
           /\ list' = Free(list, first)

Entry(n) ==
  /\ call' = "entry"
  /\ answer' = list.data[Get(list, n)]
  /\ UNCHANGED list

Remove(n) ==
  /\ call' = "rm"
  /\ list' = Free(list, Get(list, n))
  /\ answer' = Null

Sort ==
  /\ call' = "sort"
  /\ list' = SortFrom(list, 1)
  /\ answer' = Null

FreeAll ==
  /\ call' = "free"
  /\ list' = EmptyList
  /\ answer' = Null

Next == \/ \E x \in Data : Push(x)
        \/ \E n \in 0..(list.len - 1) : Entry(n) \/ Remove(n)
        \/ Pull \/ Sort \/ FreeAll

Spec == Init /\ [][Next]_vars

-----------------------------------------------------------------------------
(* The data of the cells from c on, along the links given.                 *)
RECURSIVE Along(_, _)
Along(links, c) == IF c = Head0 THEN <<>> ELSE <<list.data[c]>> \o Along(links, links[c])
Items == Along(list.next, list.next[Head0])

(***************************************************************************)
(* The links backwards are those forwards, and the length is the number of *)
(* cells: list_add_tail() and the next sort rely on both.                  *)
(***************************************************************************)
LinksAgree ==
  /\ list.len = Cardinality({c \in Cells : list.next[c] # Null})
  /\ list.len = Len(Items)
  /\ \A c \in Links : list.next[c] # Null => list.prev[list.next[c]] = c

(* To its users the list is a sequence: no call loses or doubles an entry, *)
(* and a sort puts the nearest first and leaves equals in their order.     *)
L == INSTANCE PointerList WITH items <- Items
AsList == L!Spec
=============================================================================
