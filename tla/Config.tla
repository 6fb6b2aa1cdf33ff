------------------------------- MODULE Config -------------------------------
(***************************************************************************)
(* The start of the program up to create_universe(): loadconfig.c reads    *)
(* yastg.conf, which names the files to load for each keyword; the files   *)
(* of items, ships, ports and planets refer to each other by name.         *)
(*                                                                         *)
(* A file is what parse_config_file() makes of it: a sequence of entries,  *)
(* or a set of words for a file of names.  Names and keywords are looked   *)
(* up whole (see StringTrie for what else a lookup does); malloc() never   *)
(* fails.                                                                  *)
(***************************************************************************)
EXTENDS Integers, SequencesExt

CONSTANTS Confs,       \* the yastg.conf: sequences of [key, file]
          NoFile,      \* a keyword without a file name, or a file not found
          Unparsable,  \* a file that parse_config_file() rejects
          PortZones,   \* port_zone_names
          PlanetZones, \* planet_zone_names
          LifeNum      \* PLANET_LIFE_NUM; a form of life is a number below
                       \* it, and any other number a name that is unknown

NameKeys == {"constellations", "firstnames", "surnames",
             "placenames", "placeprefix", "placesuffix"}

FileKeys == {"items", "ships", "ports", "planets"}

(* A file is the sequence of its entries, but a file of words the set of   *)
(* them.  A capacity is no negative number.                                *)
Entries(e) == IF e.file \in {NoFile, Unparsable} THEN <<>> ELSE e.file

ASSUME ConfsAssumption ==
  \A c \in Confs :
    /\ c \in Seq(ToSet(c))
    /\ \A i \in DOMAIN c :
         /\ c[i].key \in NameKeys /\ c[i].file # NoFile => IsFiniteSet(c[i].file)
         /\ c[i].key \in FileKeys => Entries(c[i]) \in Seq(ToSet(Entries(c[i])))
         /\ c[i].key = "planets" =>
              \A j \in DOMAIN Entries(c[i]) :
                LET e == Entries(c[i])[j]
                IN e.zones \in Seq(ToSet(e.zones)) /\ e.ports \in Seq(ToSet(e.ports))
         /\ c[i].key = "ports" =>
              \A j \in DOMAIN Entries(c[i]) :
                LET children == Entries(c[i])[j].children
                IN \A k \in DOMAIN children : children[k].key = "item" =>
                     /\ children[k].capacity \in Nat
                     /\ {children[k].produces, children[k].consumes} \subseteq Int

VARIABLES
  conf,         \* yastg.conf
  status,       \* "building", "loading", "naming", "checking" and then
                \* "loaded", "failed" (die), "aborted" or "corrupt"
  todo,         \* where conf names the files that are still to be loaded
  items,        \* univ.items and univ.item_names
  shipTypes,    \* univ.ship_types
  portTypes,    \* univ.port_types, a function of the names
  planetTypes,  \* univ.planet_types
  civs,         \* the length of univ.civs
  names         \* the words of each keyword that are loaded

univVars == <<items, shipTypes, portTypes, planetTypes, civs, names>>
confVars == <<conf, status, todo, univVars>>

Init == /\ conf \in Confs
        /\ status = "building"
        /\ todo = {}
        /\ items = {} /\ shipTypes = <<>> /\ portTypes = <<>>
        /\ planetTypes = <<>> /\ civs = 0
        /\ names = [k \in NameKeys |-> {}]

-----------------------------------------------------------------------------
(* Mutant: planets are loaded before the ports that they refer to.         *)
PlanetsFirst == <<"civilizations", "constellations", "firstnames", "surnames", "placenames",
                  "placeprefix", "placesuffix", "items", "ships", "planets", "ports">>

(* The order of configs[] in load_config(): "very important this is        *)
(* correct".                                                               *)
Keywords == <<"civilizations", "constellations", "firstnames", "surnames", "placenames",
              "placeprefix", "placesuffix", "items", "ships", "ports", "planets">>

(* The list of files of a keyword: an entry without a file that exists is  *)
(* logged and skipped.                                                     *)
Listed(key) == {i \in DOMAIN conf : conf[i].key = key /\ conf[i].file # NoFile}

BuildListOfFileNames ==
  /\ status = "building"
  /\ todo' = UNION {Listed(key) : key \in ToSet(Keywords)}
  /\ status' = "loading"
  /\ UNCHANGED <<conf, univVars>>

(* What a loop over a sequence has done when it returns at the first of    *)
(* those that are bad.                                                     *)
UpTo(seq, bad) == IF bad = {} THEN seq ELSE SubSeq(seq, 1, Min(bad) - 1)

(* load_items_from_file(): a name twice, or a key that is not one of an    *)
(* item's, ends it with an error.                                          *)
BadItems(entries) ==
  {i \in DOMAIN entries : \/ entries[i].name \in items
                          \/ \E j \in 1..i - 1 : entries[j].name = entries[i].name
                          \/ ~entries[i].keysKnown}

(* load_ships_from_file(): so does a name twice.                           *)
BadShips(entries) ==
  {i \in DOMAIN entries : \/ entries[i] \in ToSet(shipTypes)
                          \/ \E j \in 1..i - 1 : entries[j] = entries[i]}

(***************************************************************************)
(* load_ports_from_file(): of each type the goods are allocated first, and *)
(* described when all of them are known.  A zone or an item that does not  *)
(* exist, an item twice, or a type twice ends it with an error; a good     *)
(* required that the port does not have is logged and left out.            *)
(***************************************************************************)
GoodsOf(children) == {i \in DOMAIN children : children[i].key = "item"}
GoodNames(children) == {children[i].name : i \in GoodsOf(children)}

FirstPass(children) ==
  /\ \A i \in DOMAIN children :
       children[i].key = "zones" => ToSet(children[i].zones) \subseteq PortZones
  /\ GoodNames(children) \subseteq items
  /\ \A i, j \in GoodsOf(children) : children[i].name = children[j].name => i = j

(* Mutant: what is required is not looked for among the goods.             *)
SecondPassTrusting(children) ==
  [n \in GoodNames(children) |->
     LET c == children[CHOOSE i \in GoodsOf(children) : children[i].name = n]
     IN [max |-> c.capacity,
         change |-> c.produces - c.consumes,
         requires |-> c.requires]]

SecondPass(children) ==
  [n \in GoodNames(children) |->
     LET c == children[CHOOSE i \in GoodsOf(children) : children[i].name = n]
     IN [max |-> c.capacity,
         change |-> c.produces - c.consumes,
         requires |-> c.requires \intersect GoodNames(children)]]

BadPorts(entries) ==
  {i \in DOMAIN entries : \/ ~FirstPass(entries[i].children)
                          \/ entries[i].name \in DOMAIN portTypes
                          \/ \E j \in 1..i - 1 : entries[j].name = entries[i].name}

(***************************************************************************)
(* load_planets_from_file(): an unknown zone or port type ends the list it *)
(* is in, and an unknown life stays the 0 it was, with a message; the      *)
(* planet type is added all the same.                                      *)
(***************************************************************************)
SetLife(life) == IF life \in 0..LifeNum - 1 THEN life ELSE 0

Unknown(seq, known) == {i \in DOMAIN seq : seq[i] \notin known}

PlanetType(entry) ==
  [zones |-> ToSet(UpTo(entry.zones, Unknown(entry.zones, PlanetZones))),
   ports |-> UpTo(entry.ports, Unknown(entry.ports, DOMAIN portTypes)),
   minlife |-> SetLife(entry.minlife),
   maxlife |-> SetLife(entry.maxlife)]

-----------------------------------------------------------------------------
(* do_load_from_files(): the lists of the keywords one after the other.    *)
Before(i, j) ==
  \/ conf[i].key = conf[j].key /\ i < j
  \/ \E a, b \in DOMAIN Keywords :
       a < b /\ Keywords[a] = conf[i].key /\ Keywords[b] = conf[j].key

Load(i, key) == /\ status = "loading"
                /\ i \in todo /\ conf[i].key = key
                /\ \A j \in todo \ {i} : Before(i, j)
                /\ todo' = todo \ {i}
                /\ UNCHANGED conf

StatusIf(ok) == IF ok THEN "loading" ELSE "failed"
Parsed(i) == conf[i].file # Unparsable

LoadCivs(i) == /\ Load(i, "civilizations")
               /\ status' = StatusIf(Parsed(i))
               /\ civs' = IF Parsed(i) THEN civs + 1 ELSE civs
               /\ UNCHANGED <<items, shipTypes, portTypes, planetTypes, names>>

LoadItems(i) ==
  LET entries == Entries(conf[i])
      bad == BadItems(entries)
  IN /\ Load(i, "items")
     /\ status' = StatusIf(Parsed(i) /\ bad = {})
     /\ items' = items \union {entry.name : entry \in ToSet(UpTo(entries, bad))}
     /\ UNCHANGED <<shipTypes, portTypes, planetTypes, civs, names>>

LoadShips(i) ==
  LET entries == Entries(conf[i])
      bad == BadShips(entries)
  IN /\ Load(i, "ships")
     /\ status' = StatusIf(Parsed(i) /\ bad = {})
     /\ shipTypes' = shipTypes \o UpTo(entries, bad)
     /\ UNCHANGED <<items, portTypes, planetTypes, civs, names>>

(* On an error, destroy_config() is given the list of the port types       *)
(* loaded so far, which are no struct config.                              *)
LoadPorts(i) ==
  LET entries == Entries(conf[i])
      bad == BadPorts(entries)
      new == ToSet(UpTo(entries, bad))
  IN /\ Load(i, "ports")
     /\ portTypes' =
          [n \in DOMAIN portTypes \union {entry.name : entry \in new} |->
             IF n \in DOMAIN portTypes THEN portTypes[n]
             ELSE SecondPass((CHOOSE entry \in new : entry.name = n).children)]
     /\ status' = IF Parsed(i) /\ bad = {} THEN "loading"
                  ELSE IF DOMAIN portTypes' = {} THEN "failed"
                  ELSE "corrupt"
     /\ UNCHANGED <<items, shipTypes, planetTypes, civs, names>>

LoadPlanets(i) ==
  LET entries == Entries(conf[i])
  IN /\ Load(i, "planets")
     /\ status' = StatusIf(Parsed(i))
     /\ planetTypes' = planetTypes \o [j \in DOMAIN entries |-> PlanetType(entries[j])]
     /\ UNCHANGED <<items, shipTypes, portTypes, civs, names>>

(* The keywords of names have no function of their own.                    *)
SkipNames(i) == /\ \E key \in NameKeys : Load(i, key)
                /\ UNCHANGED <<status, univVars>>

EndOfFiles == /\ status = "loading" /\ todo = {}
              /\ status' = "naming"
              /\ UNCHANGED <<conf, todo, univVars>>

(***************************************************************************)
(* load_names_from_files(): the first file of each keyword; an assertion   *)
(* fails when one has none.                                                *)
(***************************************************************************)
FirstFile(key) == conf[Min(Listed(key))].file

LoadNames ==
  /\ status = "naming"
  /\ \/ /\ \E key \in NameKeys : Listed(key) = {}
        /\ status' = "aborted"
        /\ UNCHANGED names
     \/ /\ \A key \in NameKeys : Listed(key) # {}
        /\ status' = "checking"
        /\ names' = [key \in NameKeys |-> FirstFile(key)]
  /\ UNCHANGED <<conf, todo, items, shipTypes, portTypes, planetTypes, civs>>

(* is_config_sane().                                                       *)
IsConfigSane ==
  /\ items # {} /\ DOMAIN portTypes # {} /\ planetTypes # <<>> /\ shipTypes # <<>> /\ civs > 0
  /\ names["constellations"] # {}
  /\ names["placenames"] \union names["placeprefix"] \union names["placesuffix"] # {}
  /\ names["firstnames"] \union names["surnames"] # {}

CheckConfig == /\ status = "checking"
               /\ status' = IF IsConfigSane THEN "loaded" ELSE "failed"
               /\ UNCHANGED <<conf, todo, univVars>>

LoadStep ==
  \/ BuildListOfFileNames
  \/ \E i \in todo : \/ LoadCivs(i) \/ LoadItems(i) \/ LoadShips(i)
                     \/ LoadPorts(i) \/ LoadPlanets(i) \/ SkipNames(i)
  \/ EndOfFiles \/ LoadNames \/ CheckConfig

-----------------------------------------------------------------------------
(***************************************************************************)
(* Whatever the files say, the universe of a program that goes on refers   *)
(* to nothing that does not exist, and has at least one of everything that *)
(* it takes the first or any one of.                                       *)
(***************************************************************************)
LoadedSound ==
  status = "loaded" =>
    /\ items # {} /\ planetTypes # <<>> /\ shipTypes # <<>> /\ civs > 0
    /\ \A i \in DOMAIN planetTypes : ToSet(planetTypes[i].ports) \subseteq DOMAIN portTypes
    /\ \A t \in DOMAIN portTypes : \A n \in DOMAIN portTypes[t] :
         /\ n \in items
         /\ portTypes[t][n].requires \subseteq DOMAIN portTypes[t]

(***************************************************************************)
(* A configuration in which every name that is used is defined, once, is   *)
(* loaded, and all of it, in whatever order yastg.conf has its keywords.   *)
(***************************************************************************)
Positions(key) == UNION {{i} \X DOMAIN Entries(conf[i]) : i \in Listed(key)}
EntryAt(p) == Entries(conf[p[1]])[p[2]]
NamesIn(key) == {EntryAt(p).name : p \in Positions(key)}

WellFormed ==
  /\ \A i \in DOMAIN conf : conf[i].key \in ToSet(Keywords) /\ Parsed(i)
  /\ \A key \in ToSet(Keywords) : Listed(key) # {}
  /\ \A key \in NameKeys : FirstFile(key) # {}
  /\ \A key \in FileKeys : Positions(key) # {}
  /\ \A p, q \in Positions("ships") : EntryAt(p) = EntryAt(q) => p = q
  /\ \A key \in {"items", "ports"} : \A p, q \in Positions(key) :
       EntryAt(p).name = EntryAt(q).name => p = q
  /\ \A p \in Positions("items") : EntryAt(p).keysKnown
  /\ \A p \in Positions("ports") :
       LET children == EntryAt(p).children
       IN /\ GoodNames(children) \subseteq NamesIn("items")
          /\ \A j, k \in GoodsOf(children) : children[j].name = children[k].name => j = k
          /\ \A j \in DOMAIN children :
               children[j].key = "zones" => ToSet(children[j].zones) \subseteq PortZones
  /\ \A p \in Positions("planets") : ToSet(EntryAt(p).ports) \subseteq NamesIn("ports")

ValidLoads ==
  WellFormed /\ status \in {"loaded", "failed", "aborted", "corrupt"} =>
    /\ status = "loaded"
    /\ items = NamesIn("items")
    /\ DOMAIN portTypes = NamesIn("ports")
    /\ ToSet(shipTypes) = {EntryAt(p) : p \in Positions("ships")}
    /\ {type.ports : type \in ToSet(planetTypes)} = {EntryAt(p).ports : p \in Positions("planets")}
=============================================================================
