----------------------------- MODULE Navigation -----------------------------
(***************************************************************************)
(* Where a player is and what it can be told to do there (player.c,        *)
(* ship.c): player_go takes away the commands of the place that is left    *)
(* and adds those of the place that is entered.  Each handler asserts that *)
(* the ship is where its command makes sense.                              *)
(*                                                                         *)
(* The universe does not change after it was generated.  A player has one  *)
(* ship and is always aboard.  One worker at a time executes the commands  *)
(* of a player (see OneRunner in Connections), so a command is one step.   *)
(***************************************************************************)
EXTENDS Naturals

CONSTANTS Players,
          Systems, Planets, Ports,
          Links,        \* the pairs of systems with a hyperspace link
          SystemOf,     \* planet->system
          PlanetOf,     \* port->planet: every port is generated on a planet
          Start         \* the first of univ.systems

ASSUME PlacesAssumption ==
  /\ Links \subseteq Systems \X Systems
  /\ SystemOf \in [Planets -> Systems]
  /\ PlanetOf \in [Ports -> Planets]
  /\ Start \in Systems

VARIABLES postype,      \* ship->postype; "NONE" also while there is no player
          pos,          \* ship->pos
          cli           \* player->cli: the handler of each command

navVars == <<postype, pos, cli>>

Empty == [n \in {} |-> n]

(* What player_init adds, for as long as the player lives.                 *)
Always == [help |-> "help", inventory |-> "inventory", quit |-> "quit",
           look |-> "look", ships |-> "show_ships", ports |-> "ports"]

(* What player_go adds at each kind of place, and what cli_rm_cmd is       *)
(* called with on leaving it.                                              *)
Local(type) ==
  IF type = "SYSTEM" THEN [go |-> "hyper", map |-> "map", jump |-> "jump",
                           dock |-> "dock", orbit |-> "orbit"]
  ELSE IF type = "PORT" THEN [buy |-> "buy", leave |-> "leave_port",
                              sell |-> "sell", trade |-> "trade"]
  ELSE IF type = "PLANET" THEN [dock |-> "dock", leave |-> "leave_planet"]
  ELSE Empty

(* Bug: a new command of ports was not added to the removal.               *)
RemovedButTrade(type) == DOMAIN Local(type) \ {"trade"}

Removed(type) ==
  IF type = "SYSTEM" THEN {"go", "map", "jump", "dock", "orbit"}
  ELSE IF type = "PORT" THEN {"buy", "leave", "sell", "trade"}
  ELSE IF type = "PLANET" THEN {"dock", "leave"}
  ELSE {}

(* The assertion on ship->postype at the head of a handler.                *)
Asserted(handler, type) ==
  /\ handler \in {"hyper", "map", "orbit"} => type = "SYSTEM"
  /\ handler \in {"buy", "sell", "trade", "leave_port"} => type = "PORT"
  /\ handler = "leave_planet" => type = "PLANET"

PlacesOf(type) == IF type = "SYSTEM" THEN Systems
                  ELSE IF type = "PORT" THEN Ports ELSE Planets

NavTypeOK ==
  /\ postype \in [Players -> {"NONE", "SYSTEM", "PORT", "PLANET"}]
  /\ pos \in [Players -> Systems \union Planets \union Ports]
  /\ DOMAIN cli = Players

Online == {p \in Players : postype[p] # "NONE"}

NavInit == /\ postype = [p \in Players |-> "NONE"]
           /\ pos = [p \in Players |-> Start]
           /\ cli = [p \in Players |-> Empty]

-----------------------------------------------------------------------------
(* The second function where it is defined, else the first.                *)
Override(f, g) == [n \in DOMAIN f \union DOMAIN g |-> IF n \in DOMAIN g THEN g[n] ELSE f[n]]

(* player_go, from a command table that the caller gives: ship_go always   *)
(* succeeds.                                                               *)
PlayerGo(p, table, type, place) ==
  LET kept == [n \in DOMAIN table \ Removed(postype[p]) |-> table[n]] IN
  /\ postype' = [postype EXCEPT ![p] = type]
  /\ pos' = [pos EXCEPT ![p] = place]
  /\ cli' = [cli EXCEPT ![p] = Override(kept, Local(type))]

(* conn_fulfixinit: a new player, aboard a new ship.                       *)
Login(p) == /\ p \notin Online
            /\ PlayerGo(p, Always, "SYSTEM", Start)

(* player_free, when the connection is freed.                              *)
Logout(p) == /\ p \in Online
             /\ postype' = [postype EXCEPT ![p] = "NONE"]
             /\ pos' = [pos EXCEPT ![p] = Start]
             /\ cli' = [cli EXCEPT ![p] = Empty]

(* cli_run_cmd finds this handler under some name.                         *)
Offered(p, handler) == \E n \in DOMAIN cli[p] : cli[p][n] = handler

Hyper(p) ==
  /\ Offered(p, "hyper")
  /\ \E s \in Systems : /\ <<pos[p], s>> \in Links
                        /\ PlayerGo(p, cli[p], "SYSTEM", s)

(* The jump drive reaches every system, the one the ship is in included.   *)
Jump(p) ==
  /\ Offered(p, "jump")
  /\ \E s \in Systems : PlayerGo(p, cli[p], "SYSTEM", s)

(* From orbit, or from anywhere in the system without entering the orbit.  *)
Dock(p) ==
  /\ Offered(p, "dock")
  /\ \E port \in Ports :
        /\ \/ postype[p] = "PLANET" /\ PlanetOf[port] = pos[p]
           \/ postype[p] = "SYSTEM" /\ SystemOf[PlanetOf[port]] = pos[p]
        /\ PlayerGo(p, cli[p], "PORT", port)

Orbit(p) ==
  /\ Offered(p, "orbit")
  /\ \E planet \in Planets : /\ SystemOf[planet] = pos[p]
                             /\ PlayerGo(p, cli[p], "PLANET", planet)

LeavePort(p) ==
  /\ Offered(p, "leave_port")
  /\ PlayerGo(p, cli[p], "PLANET", PlanetOf[pos[p]])

LeavePlanet(p) ==
  /\ Offered(p, "leave_planet")
  /\ PlayerGo(p, cli[p], "SYSTEM", SystemOf[pos[p]])

Travel(p) == Hyper(p) \/ Jump(p) \/ Dock(p) \/ Orbit(p) \/ LeavePort(p) \/ LeavePlanet(p)

NavNext == \E p \in Players : Login(p) \/ Logout(p) \/ Travel(p)

NavSpec == NavInit /\ [][NavNext]_navVars

-----------------------------------------------------------------------------
(* A player is at a place of the kind its ship says, and no command is on  *)
(* offer whose handler would assert a different kind: a stale entry of the *)
(* place before, or an entry of another place under the same name ("leave",*)
(* "dock"), would abort the server.                                        *)
CommandsFit ==
  \A p \in Online :
     /\ pos[p] \in PlacesOf(postype[p])
     /\ \A n \in DOMAIN cli[p] : Asserted(cli[p][n], postype[p])

(* Why: the table holds what every place offers and what this one adds.    *)
CliInv ==
  /\ \A p \in Online : /\ pos[p] \in PlacesOf(postype[p])
                       /\ cli[p] = Override(Always, Local(postype[p]))
  /\ \A p \in Players \ Online : cli[p] = Empty
=============================================================================
