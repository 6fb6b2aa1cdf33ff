----------------------------- MODULE MCTrading -----------------------------
(* A mine and a refinery in two systems, like the mine and the mill of     *)
(* data/ports: the refinery makes iridium ore out of iron ore.  The items  *)
(* are two of data/items whose names begin alike: a player may type "ir".  *)
EXTENDS Trading

CONSTANTS s1, s2, planet1, planet2, mine, refinery, iron, iridium

MCSystems == {s1, s2}
MCPlanets == {planet1, planet2}
MCPorts == {mine, refinery}
MCLinks == {<<s1, s2>>, <<s2, s1>>}
MCSystemOf == (planet1 :> s1) @@ (planet2 :> s2)
MCPlanetOf == (mine :> planet1) @@ (refinery :> planet2)

MCItems == {iron, iridium}
MCQueries == {{iron}, {iridium}, MCItems}
MCPrice == (iron :> 1) @@ (iridium :> 2)
MCStock == (mine :> <<iron>>) @@ (refinery :> <<iron, iridium>>)
MCMaxStock == (<<mine, iron>> :> 1) @@ (<<refinery, iron>> :> 2) @@ (<<refinery, iridium>> :> 1)
MCDailyChange == (<<mine, iron>> :> 1) @@ (<<refinery, iron>> :> -1) @@ (<<refinery, iridium>> :> 6)
MCRequires == (<<mine, iron>> :> {}) @@ (<<refinery, iron>> :> {}) @@ (<<refinery, iridium>> :> {iron})
MCPortList == <<refinery, mine>>

Symmetry == Permutations(Players)
=============================================================================
