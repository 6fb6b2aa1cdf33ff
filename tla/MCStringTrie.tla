---------------------------- MODULE MCStringTrie ----------------------------
(* Strings for TLC: prefixes of each other, siblings, and a shared path    *)
(* that forks late, as "sell" and "ships" or "leave" and "look" do.        *)
EXTENDS StringTrie

MCCharacters == {"a", "d", "f", "g", "h", "l", "o", "q"}
MCStrings == {<<"g">>, <<"g", "o">>, <<"g", "o", "l", "d">>, <<"g", "o", "l", "f">>,
              <<"h">>, <<"h", "a">>}
MCQueries == UNION {NonEmptyPrefixes(s) : s \in MCStrings} \union {<<"q">>}
=============================================================================
