---------------------------- MODULE MCContainers ----------------------------
(***************************************************************************)
(* The three containers, one per behaviour: the trie, the tree and the     *)
(* list have no state in common, and the two not chosen stay empty.        *)
(***************************************************************************)
EXTENDS MCStringTrie, SystemTree

CONSTANTS Cells, ListHead, Pointers, Origin

VARIABLES container, list, listCall, listAnswer

listVars == <<list, listCall, listAnswer>>

(* Pointers 2 and 3 are equally far from the origin, 4 is farther.         *)
MCDistance(x) == x \div 2

P == INSTANCE PtrList WITH call <- listCall, answer <- listAnswer, Head0 <- ListHead,
                           Data <- Pointers, Distance <- MCDistance

ASSUME P!CellsAssumption

MCInit == Init /\ TreeInit /\ P!Init /\ container \in {"trie", "tree", "list"}

MCNext == \/ container = "trie" /\ Next /\ UNCHANGED <<container, treeVars, listVars>>
          \/ container = "tree" /\ TreeNext /\ UNCHANGED <<container, vars, listVars>>
          \/ container = "list" /\ P!Next /\ UNCHANGED <<container, vars, treeVars>>

MCSpec == MCInit /\ [][MCNext]_<<container, vars, treeVars, listVars>>

-----------------------------------------------------------------------------
(* A ptrlist is a sequence to its users, with a stable sort.               *)
AsSequence == P!AsList /\ [](P!LinksAgree)
=============================================================================
