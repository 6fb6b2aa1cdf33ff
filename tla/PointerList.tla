---------------------------- MODULE PointerList -----------------------------
(***************************************************************************)
(* What ptrlist.c promises: a sequence of pointers that grows at its end,  *)
(* shrinks anywhere, and is sorted by distance without a change of order   *)
(* among equals.                                                           *)
(***************************************************************************)
EXTENDS Integers, Sequences, FiniteSets

CONSTANTS Data,           \* what is pointed to
          Origin,         \* the one that comes first wherever it is
          Distance(_),    \* what they are sorted by
          Null

VARIABLES items,    \* the sequence
          call,     \* the last call
          answer    \* what it returned, Null if nothing

Init == items = <<>> /\ call = "init" /\ answer = Null

Push(x) == /\ call' = "push"
           /\ \/ items' = Append(items, x)
              \/ UNCHANGED items
           /\ answer' = Null

Pull == /\ call' = "pull"
        /\ \/ items = <<>> /\ answer' = Null /\ UNCHANGED items
           \/ items # <<>> /\ answer' = Head(items) /\ items' = Tail(items)

Entry(n) == /\ call' = "entry"
            /\ answer' = items[n + 1]
            /\ UNCHANGED items

Remove(n) == /\ call' = "rm"
             /\ items' = SubSeq(items, 1, n) \o SubSeq(items, n + 2, Len(items))
             /\ answer' = Null

(* Where the i-th entry goes: behind the nearer ones, and behind those     *)
(* before it that are as near.                                             *)
Precedes(j, i) == IF (items[j] = Origin) # (items[i] = Origin) THEN items[j] = Origin
                  ELSE \/ items[i] # Origin /\ Distance(items[j]) < Distance(items[i])
                       \/ j < i /\ (\/ items[i] = Origin
                                    \/ Distance(items[j]) = Distance(items[i]))
Rank(i) == Cardinality({j \in 1..Len(items) : Precedes(j, i)}) + 1

Sort == /\ call' = "sort"
        /\ items' \in {[r \in 1..Len(items) |->
                          items[CHOOSE i \in 1..Len(items) : Rank(i) = r]]}
        /\ answer' = Null

Free == call' = "free" /\ items' = <<>> /\ answer' = Null

Next == \/ \E x \in Data : Push(x)
        \/ \E n \in 0..(Len(items) - 1) : Entry(n) \/ Remove(n)
        \/ Pull \/ Sort \/ Free
Spec == Init /\ [][Next]_<<items, call, answer>>
=============================================================================
