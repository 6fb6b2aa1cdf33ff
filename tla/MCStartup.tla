------------------------------ MODULE MCStartup ------------------------------
(* A small yastg.conf, and what may be wrong with one.                        *)
EXTENDS Genesis

Entry(key, file) == [key |-> key, file |-> file]

Civ == Entry("civilizations", {})
Words == <<Entry("constellations", {"Orion"}), Entry("firstnames", {"Ann"}),
           Entry("surnames", {"Lee"}), Entry("placenames", {"Bath", "York"}),
           Entry("placeprefix", {"New"}), Entry("placesuffix", {"Spa"})>>

Item(name) == [name |-> name, keysKnown |-> TRUE]
Ore == Entry("items", <<Item("ore"), Item("steel")>>)

Ships == Entry("ships", <<"hauler">>)

Good(name, capacity, produces, consumes, requires) ==
  [key |-> "item", name |-> name, capacity |-> capacity, produces |-> produces,
   consumes |-> consumes, requires |-> requires]
Zones(zones) == [key |-> "zones", zones |-> zones]
Port(name, children) == [name |-> name, children |-> children]
Mine == Port("mine", <<Zones(<<"surface">>), Good("ore", 1, 0, 2, {})>>)
Mill == Port("mill", <<Good("steel", 2, 1, 0, {"ore"}), Good("ore", 1, 1, 1, {})>>)

Planet(zones, ports, minlife, maxlife) ==
  [zones |-> zones, ports |-> ports, minlife |-> minlife, maxlife |-> maxlife]
Garden(ports) == Planet(<<"ECO">>, ports, 0, 0)
Bare == Planet(<<"HOT", "COLD">>, <<>>, 1, 2)

Ports(entries) == Entry("ports", entries)
Planets(entries) == Entry("planets", entries)

(* In the order of the dependencies, and in the opposite one.                 *)
InOrder == Words \o <<Civ, Ore, Ships, Ports(<<Mill>>),
                      Planets(<<Bare, Garden(<<"mill">>)>>)>>
Reversed == Reverse(Words \o <<Civ, Ore, Ships, Ports(<<Mine>>),
                               Planets(<<Bare, Garden(<<"mine">>)>>)>>)

(* What refers to nothing, or comes twice, or is not there.                   *)
Base == Words \o <<Civ, Ore, Ships, Ports(<<Mine>>), Planets(<<Bare, Garden(<<>>)>>)>>
With(i, entry) == [Base EXCEPT ![i] = entry]
Broken ==
  {[Base EXCEPT ![10] = Ports(<<Port("mill", <<Good("steel", 2, 1, 0, {"ore"})>>)>>),
                ![11] = Planets(<<Bare, Garden(<<"mill">>)>>)],
   With(10, Ports(<<Mine, Mine>>)),
   With(10, Ports(<<Mine, Port("well", <<Good("water", 1, 1, 0, {})>>)>>)),
   With(10, Ports(<<Port("well", <<Good("water", 1, 1, 0, {})>>)>>)),
   With(10, Ports(<<Port("mill", <<Zones(<<"sea">>)>>)>>)),
   With(10, Ports(<<Port("mill", <<Good("ore", 1, 1, 0, {}), Good("ore", 2, 1, 0, {})>>)>>)),
   With(10, Entry("ports", Unparsable)),
   With(10, Entry("prots", <<Mine>>)),
   With(11, Planets(<<Planet(<<"ECO", "TEPID", "HOT">>, <<"mine", "casino", "mine">>, 0, 0)>>)),
   With(11, Planets(<<Planet(<<"HOT", "ECO", "COLD">>, <<>>, 2, 99)>>)),
   With(8, Entry("items", <<Item("ore"), Item("ore")>>)),
   With(8, Entry("items", <<[name |-> "ore", keysKnown |-> FALSE]>>)),
   With(9, Entry("ships", <<"hauler", "hauler">>)),
   With(9, Entry("ships", NoFile)),
   With(7, Entry("civilizations", Unparsable)),
   With(4, Entry("placenames", NoFile)),
   With(4, Entry("placenames", {})),
   [Base EXCEPT ![4] = Entry("placenames", {}), ![6] = Entry("placesuffix", {}),
                ![11] = Planets(<<Bare, Garden(<<"mine">>)>>)],
   Append(Base, Entry("items", <<Item("water")>>)),
   Append(Base, Entry("items", <<Item("ore")>>))}

MCConfs == {InOrder, Reversed} \union Broken

MCSuns == {[low |-> 1, high |-> 2], [low |-> 3, high |-> 4]}
=============================================================================
