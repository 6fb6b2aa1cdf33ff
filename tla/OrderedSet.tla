----------------------------- MODULE OrderedSet -----------------------------
(***************************************************************************)
(* What the tree of systems promises: a set of positions that can be       *)
(* walked in order, from any place and in both directions.                 *)
(***************************************************************************)
EXTENDS Integers, FiniteSets

CONSTANTS Keys,     \* the x coordinates
          Null

VARIABLES set,      \* the positions taken
          call,     \* the call answered last and its arguments
          answer    \* what it returned: a key, Null, or a set of keys

Before(x) == {k \in set : k < x}
After(x) == {k \in set : k > x}
Smallest(S) == IF S = {} THEN Null ELSE CHOOSE k \in S : \A j \in S : k <= j
Greatest(S) == IF S = {} THEN Null ELSE CHOOSE k \in S : \A j \in S : k >= j

Init == set = {} /\ call = <<"none">> /\ answer = Null

(* A call begins: the last answer is of no use any more.                   *)
Begin == call' = <<"none">> /\ answer' = Null /\ UNCHANGED set

Insert(x) == /\ call' = <<"insert", x>>
             /\ x \notin set
             /\ set' = set \union {x}
             /\ answer' = Null
Erase(x) == /\ call' = <<"erase", x>>
            /\ x \in set
            /\ set' = set \ {x}
            /\ answer' = Null
Find(x) == /\ call' = <<"find", x>>
           /\ answer' = IF x \in set THEN x ELSE Null
           /\ UNCHANGED set
Step(x) == /\ x \in set
           /\ \/ call' = <<"next", x>> /\ answer' = Smallest(After(x))
              \/ call' = <<"prev", x>> /\ answer' = Greatest(Before(x))
           /\ UNCHANGED set
Between(x, y) == /\ x < y
                 /\ call' = <<"between", x, y>>
                 /\ answer' = {k \in set : x <= k /\ k <= y}
                 /\ UNCHANGED set

Next == \/ Begin
        \/ \E x \in Keys : Insert(x) \/ Erase(x) \/ Find(x) \/ Step(x)
        \/ \E x, y \in Keys : Between(x, y)
Spec == Init /\ [][Next]_<<set, call, answer>>
=============================================================================
