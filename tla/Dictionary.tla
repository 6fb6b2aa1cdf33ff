----------------------------- MODULE Dictionary -----------------------------
(***************************************************************************)
(* What stringtrie.c promises its users: a table from strings to data, in  *)
(* which a string that is not there stands for the only one there that it  *)
(* is the beginning of.                                                    *)
(***************************************************************************)
EXTENDS SequencesExt

CONSTANTS Strings,    \* the strings that may be added and removed
          Queries,    \* the strings that may be looked up
          Data,       \* what is stored with a string
          Null        \* NULL

VARIABLES dict,       \* the table: [Strings -> Data \union {Null}]
          call,       \* the last call: its name, and the string it was given
          answer      \* what it returned; additions return no data

Known == {s \in Strings : dict[s] # Null}

Completions(q) == {s \in Known : IsPrefix(q, s)}

Meaning(q) == IF q \in Known THEN dict[q]
              ELSE IF \E s \in Known : Completions(q) = {s}
              THEN dict[CHOOSE s \in Known : IsPrefix(q, s)]
              ELSE Null

Calls == ({"add", "rm"} \X Strings) \union ({"lookup", "exact"} \X Queries)
           \union {<<"destroy">>}

TypeOK == /\ dict \in [Strings -> Data \union {Null}]
          /\ call \in Calls
          /\ answer \in Data \union {Null}

Init == /\ dict = [s \in Strings |-> Null]
        /\ call = <<"destroy">>
        /\ answer = Null

Learn(s, d) == /\ call' = <<"add", s>>
               /\ dict' = [dict EXCEPT ![s] = d]
               /\ answer' = Null

Forget(s) == /\ call' = <<"rm", s>>
             /\ dict' = [dict EXCEPT ![s] = Null]
             /\ answer' = dict[s]

Lookup(q) == /\ call' = <<"lookup", q>>
             /\ answer' = Meaning(q)
             /\ UNCHANGED dict

LookupExact(q) == /\ call' = <<"exact", q>>
                  /\ answer' = IF q \in Known THEN dict[q] ELSE Null
                  /\ UNCHANGED dict

Clear == /\ call' = <<"destroy">>
         /\ dict' = [s \in Strings |-> Null]
         /\ answer' = Null

Next == \/ \E s \in Strings : Forget(s) \/ \E d \in Data : Learn(s, d)
        \/ \E q \in Queries : Lookup(q) \/ LookupExact(q)
        \/ Clear

Spec == Init /\ [][Next]_<<dict, call, answer>>
=============================================================================
