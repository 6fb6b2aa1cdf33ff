----------------------------- MODULE StringTrie -----------------------------
(***************************************************************************)
(* stringtrie.c: a trie whose nodes are allocated when a string is added   *)
(* and freed when the last string that needs them is removed, and which    *)
(* answers a lookup of an incomplete string.  It holds the commands of a   *)
(* player, the goods of a port and of a ship, and the names of systems,    *)
(* ports and planets.                                                      *)
(*                                                                         *)
(* A node is named by the path to it from the root.  Characters are those  *)
(* after crunch(), which folds case.  An array of children (struct st_lsb) *)
(* is freed with its last child, so that there is one where there is a     *)
(* child; the split of a character into an msb and an lsb shows nowhere.   *)
(***************************************************************************)
EXTENDS SequencesExt

CONSTANTS Characters, \* the values of crunch()
          Strings,    \* the strings that are added and removed, none empty
          Queries,    \* the strings that are looked up, none empty
          Data,       \* the pointers stored
          Null,       \* NULL
          Crash       \* what a lookup "returns" that dereferences NULL

ASSUME StringsAssumption == Strings \union Queries \subseteq Seq(Characters) \ {<<>>}
ASSUME DataAssumption == Null \notin Data /\ Crash \notin Data \union {Null}

VARIABLES node,       \* the allocated nodes below the root
          data,       \* their data pointers
          call,       \* the last call: its name, and the string it was given
          answer      \* what it returned; additions return no data

vars == <<node, data, call, answer>>

NonEmptyPrefixes(s) == Prefixes(s) \ {<<>>}

Stored == {n \in node : data[n] # Null}

Children(n) == {m \in node : Len(m) = Len(n) + 1 /\ IsPrefix(n, m)}

Init == /\ node = {}
        /\ data = [n \in {} |-> Null]
        /\ call = <<"destroy">>
        /\ answer = Null

-----------------------------------------------------------------------------
(* st_add_string: the missing nodes are allocated, with no data.           *)
AddString(s, d) ==
  /\ call' = <<"add", s>>
  /\ node' = node \union NonEmptyPrefixes(s)
  /\ data' = [n \in node' |-> IF n = s THEN d
                              ELSE IF n \in node THEN data[n] ELSE Null]
  /\ answer' = Null

(* Bug: only the node of the string itself is freed.                       *)
FreedAlone(s) == {n \in {s} : Len(n) > 1 /\ Children(n) = {}}

(* Going up from s, each node is freed that carries no data and has no     *)
(* child left, up to the second: the first node of a path is never freed.  *)
Freed(s) ==
  LET Idle(n) == (n = s \/ data[n] = Null) /\ \A m \in Children(n) : IsPrefix(m, s)
  IN  {n \in NonEmptyPrefixes(s) :
         /\ Len(n) > 1
         /\ \A m \in NonEmptyPrefixes(s) : IsPrefix(n, m) => Idle(m)}

(* st_rm_string: what was stored is returned, NULL if there is no node.    *)
RmString(s) ==
  /\ call' = <<"rm", s>>
  /\ \/ /\ s \notin node
        /\ answer' = Null
        /\ UNCHANGED <<node, data>>
     \/ /\ s \in node
        /\ answer' = data[s]
        /\ node' = node \ Freed(s)
        /\ data' = [n \in node' |-> IF n = s THEN Null ELSE data[n]]

(* st_destroy_root: all nodes are freed.                                   *)
Destroy == /\ call' = <<"destroy">>
           /\ node' = {}
           /\ data' = [n \in {} |-> Null]
           /\ answer' = Null

-----------------------------------------------------------------------------
(* get_the_only_child: down while there is no data and one child.  What is *)
(* there is returned, unless something hangs from it.  Where there is      *)
(* neither, lsb->lsb is read with lsb still NULL.                          *)
GoesOn(n) == data[n] = Null /\ \E m \in Children(n) : Children(n) = {m}

TheOnlyChild(q) ==
  LET end == CHOOSE n \in node :
               /\ IsPrefix(q, n) /\ ~GoesOn(n)
               /\ \A m \in node : IsPrefix(q, m) /\ IsStrictPrefix(m, n) => GoesOn(m)
  IN  IF Children(end) # {} THEN Null
      ELSE IF data[end] = Null THEN Crash ELSE data[end]

(* Bug: the first of several children is followed.                         *)
FindIgnoringSiblings(q) ==
  IF q \notin node THEN Null
  ELSE IF data[q] # Null \/ Children(q) = {} THEN TheOnlyChild(q)
  ELSE TheOnlyChild(CHOOSE m \in Children(q) : TRUE)

(* find_node, when no exact match is asked for.                            *)
Find(q) == IF q \notin node THEN Null
           ELSE IF data[q] # Null THEN data[q]
           ELSE TheOnlyChild(q)

LookupString(q) == /\ call' = <<"lookup", q>>
                   /\ answer' = Find(q)
                   /\ UNCHANGED <<node, data>>

LookupExact(q) == /\ call' = <<"exact", q>>
                  /\ answer' = IF q \in node THEN data[q] ELSE Null
                  /\ UNCHANGED <<node, data>>

(* A process that crashed does nothing more.                               *)
Next == /\ answer # Crash
        /\ \/ \E s \in Strings : RmString(s) \/ \E d \in Data : AddString(s, d)
           \/ \E q \in Queries : LookupString(q) \/ LookupExact(q)
           \/ Destroy

Spec == Init /\ [][Next]_vars

-----------------------------------------------------------------------------
(* Nothing is left allocated that leads to no string, except the first     *)
(* node of a path (st_rm_string): the tries of a ship and of a player are  *)
(* changed for as long as the player is connected.                         *)
NoGarbage == \A n \in node : Len(n) > 1 => \E s \in Stored : IsPrefix(n, s)

(* A lookup always returns, with NULL if not with data (the comment on     *)
(* get_the_only_child says so, and the assertion in it that it cannot      *)
(* fail).                                                                  *)
LookupReturns == answer # Crash

(* The table that the trie stands for.                                     *)
Table == [s \in Strings |-> IF s \in node THEN data[s] ELSE Null]

D == INSTANCE Dictionary WITH dict <- Table

(* Every node but the root hangs from another one.                         *)
TypeOK ==
  /\ node \subseteq UNION {NonEmptyPrefixes(s) : s \in Strings}
  /\ \A n \in node : NonEmptyPrefixes(n) \subseteq node
  /\ data \in [node -> Data \union {Null}]
  /\ call \in D!Calls
  /\ answer \in Data \union {Null, Crash}

(* Where a lookup returns, the trie is a Dictionary to its callers:        *)
(* freeing nodes loses no string that is stored, and a prefix is completed *)
(* when and only when one stored string begins with it.                    *)
AsDictionary == D!Init /\ [][answer' # Crash => D!Next]_<<Table, call, answer>>
=============================================================================
