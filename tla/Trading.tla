------------------------------ MODULE Trading ------------------------------
(***************************************************************************)
(* The goods of ports and ships: the commands "buy" and "sell" (player.c,  *)
(* ship.c) and the thread that lets every port produce and consume         *)
(* (port_update.c).  A command holds port->items_lock and ship->cargo_lock *)
(* from its first lookup to the end and is one step.  update_port holds    *)
(* items_lock from the first to the last item of a port, one step each.    *)
(*                                                                         *)
(* What a player types for an item is the set of items whose names begin   *)
(* with it: the trie finds the one of them that is there, if only one is   *)
(* (Dictionary; see LookupReturns in StringTrie for what else it may do).  *)
(* No item name begins with another one; a requirement is listed once, and *)
(* no item requires itself.                                                *)
(* Memory is never exhausted, and no hold ever reaches LONG_MAX.           *)
(***************************************************************************)
EXTENDS Navigation, Integers, FiniteSetsExt, SequencesExt

CONSTANTS Items,
          Queries,      \* what is typed: sets of items
          Requested,    \* the amounts typed; "all" is as good as a large one
          Price,        \* item->base_price, which every port charges
          StartCredits, \* 100000
          Stock,        \* port->items: the items in the order of the list
          MaxStock,     \* cargo->max of the cargo <<port, item>>
          DailyChange,  \* cargo->daily_change
          Requires,     \* cargo->requires
          Fraction,     \* PORT_UPDATE_FRACTION
          PortList,     \* univ.ports, a sequence
          DailyBound    \* how large a daily_change DayRounded looks at

Sold(port) == ToSet(Stock[port])

Cargos == {c \in Ports \X Items : c[2] \in Sold(c[1])}

ASSUME FiniteAssumption == IsFiniteSet(Items) /\ IsFiniteSet(Ports) /\ IsFiniteSet(Players)
ASSUME ItemsAssumption == /\ Queries \subseteq SUBSET Items
                          /\ Requested \subseteq Nat \ {0}
                          /\ Price \in [Items -> Nat]
                          /\ StartCredits \in Nat
ASSUME StockAssumption == /\ \A port \in Ports : Stock[port] \in Seq(Items)
                          /\ MaxStock \in [Cargos -> Nat]
                          /\ DailyChange \in [Cargos -> Int]
                          /\ Requires \in [Cargos -> SUBSET Items]
                          /\ \A c \in Cargos : Requires[c] \subseteq Sold(c[1]) \ {c[2]}
ASSUME UpdateAssumption == /\ Fraction \in Nat \ {0}
                           /\ PortList \in Seq(Ports) /\ PortList # <<>>
                           /\ DailyBound \in Nat

VARIABLES amount,       \* cargo->amount of every cargo of a port
          hold,         \* hold[p]: the amounts of the items in the cargo list
                        \* and in the cargo_names of the ship
          credits,      \* player->credits
          iteration,    \* of port_update_worker
          updated,      \* how many ports it has updated in this iteration
          nextItem,     \* its place in the list of items of the next port
          failed        \* an assertion failed and aborted the server

goodsVars == <<amount, hold, credits>>
updaterVars == <<iteration, updated, nextItem>>
vars == <<navVars, goodsVars, updaterVars, failed>>

TypeOK ==
  /\ NavTypeOK
  /\ amount \in [Cargos -> Int]
  /\ DOMAIN hold = Players
  /\ \A p \in Players : \E S \in SUBSET Items : hold[p] \in [S -> Nat]
  /\ credits \in [Players -> Int]
  /\ iteration \in 0..Fraction - 1
  /\ updated \in 0..Len(PortList) - 1
  /\ nextItem \in 1..Len(Stock[PortList[updated + 1]]) + 1
  /\ failed \in BOOLEAN

(* port_genesis leaves every cargo with some amount up to its maximum.     *)
Init ==
  /\ NavInit
  /\ amount \in {a \in [Cargos -> UNION {0..MaxStock[c] : c \in Cargos}] :
                    \A c \in Cargos : a[c] <= MaxStock[c]}
  /\ hold = [p \in Players |-> Empty]
  /\ credits = [p \in Players |-> 0]
  /\ iteration = 0
  /\ updated = 0
  /\ nextItem = 1
  /\ failed = FALSE

-----------------------------------------------------------------------------
(* The port that is being updated; its items_lock is held after the first  *)
(* item.                                                                   *)
Updating == PortList[updated + 1]
Locked(port) == port = Updating /\ nextItem > 1

(* A player comes with credits and an empty hold, and takes what it holds  *)
(* along when it leaves.                                                   *)
Arrive(p) == /\ Login(p)
             /\ credits' = [credits EXCEPT ![p] = StartCredits]
             /\ UNCHANGED <<amount, hold, updaterVars, failed>>

Depart(p) == /\ Logout(p)
             /\ credits' = [credits EXCEPT ![p] = 0]
             /\ hold' = [hold EXCEPT ![p] = Empty]
             /\ UNCHANGED <<amount, updaterVars, failed>>

Move(p) == Travel(p) /\ UNCHANGED <<goodsVars, updaterVars, failed>>

(* Bug: the credits are not looked at.                                     *)
OnCredit(p, item, n) == n

(* The amount that a player can pay for; the question does not arise for   *)
(* what is free.                                                           *)
Affordable(p, item, n) ==
  IF Price[item] = 0 THEN n ELSE Min({n, credits[p] \div Price[item]})

(* What a hold has of an item, with an entry or without.                   *)
Held(goods, item) == IF item \in DOMAIN goods THEN goods[item] ELSE 0

(* A hold with n more of an item, if only an entry for it.                 *)
AddToHold(goods, item, n) == Override(goods, [i \in {item} |-> Held(goods, item) + n])

(* cmd_buy and move_cargo_to_ship.  An entry is made in the ship's hold    *)
(* even if the port has nothing left.                                      *)
Buy(p) ==
  LET port == pos[p] IN
  /\ Offered(p, "buy")
  /\ ~Locked(port)
  /\ \E q \in Queries, n \in Requested, item \in Items :
        LET c == <<port, item>>
            wanted == Affordable(p, item, n)
            moved == Min({wanted, amount[c]})
        IN  /\ q \intersect Sold(port) = {item}
            /\ wanted # 0
            /\ amount' = [amount EXCEPT ![c] = @ - moved]
            /\ hold' = [hold EXCEPT ![p] = AddToHold(@, item, moved)]
            /\ credits' = [credits EXCEPT ![p] = @ - moved * Price[item]]
  /\ UNCHANGED <<navVars, updaterVars, failed>>

(* Bug: the entry that became empty is dropped, but not the amount sold    *)
(* from one that did not.                                                  *)
TakeFromHoldNothing(goods, item, n) ==
  [i \in DOMAIN goods \ (IF n = goods[item] THEN {item} ELSE {}) |-> goods[i]]

(* A hold with n less of an item; no empty entry is kept.                  *)
TakeFromHold(goods, item, n) ==
  [i \in DOMAIN goods \ (IF n = goods[item] THEN {item} ELSE {}) |->
     IF i = item THEN goods[i] - n ELSE goods[i]]

(* What goes from the ship to the port of what is asked for.               *)
MovedFromShip(p, c, n) == Min({n, hold[p][c[2]], MaxStock[c] - amount[c]})

(* The name is looked up among the goods of the ship and, on its own,      *)
(* among those of the port: what both find need not be the same item.      *)
MeantBySell(p, q, item) ==
  /\ \E i \in Items : q \intersect DOMAIN hold[p] = {i}
  /\ q \intersect Sold(pos[p]) = {item}

(* cmd_sell and move_cargo_from_ship.                                      *)
Sell(p) ==
  /\ Offered(p, "sell")
  /\ ~Locked(pos[p])
  /\ \E q \in Queries, n \in Requested, item \in DOMAIN hold[p] :
        LET c == <<pos[p], item>>
            moved == MovedFromShip(p, c, n)
        IN  /\ MeantBySell(p, q, item)
            /\ amount' = [amount EXCEPT ![c] = @ + moved]
            /\ hold' = [hold EXCEPT ![p] = TakeFromHold(@, item, moved)]
            /\ credits' = [credits EXCEPT ![p] = @ + moved * Price[item]]
  /\ UNCHANGED <<navVars, updaterVars, failed>>

(* assert(ship_cargo) in move_cargo_from_ship, which looks for the port's  *)
(* item in the ship.                                                       *)
SellFails(p) ==
  /\ Offered(p, "sell")
  /\ ~Locked(pos[p])
  /\ \E q \in Queries, item \in Items \ DOMAIN hold[p] : MeantBySell(p, q, item)
  /\ failed' = TRUE
  /\ UNCHANGED <<navVars, goodsVars, updaterVars>>

-----------------------------------------------------------------------------
(* The port update thread.                                                 *)

Abs(n) == IF n < 0 THEN -n ELSE n

(* The division of C, which rounds towards zero.                           *)
Quotient(a, b) == LET q == Abs(a) \div Abs(b) IN IF (a < 0) = (b < 0) THEN q ELSE -q

(* Bug: what divides evenly is rounded as well.                            *)
ChangeAlwaysRounded(daily, i) ==
  LET change == Quotient(daily, Fraction)
      every == Abs(Quotient(Fraction, daily))
      extra == every # 0 /\ i % every = 0
  IN  IF ~extra THEN change ELSE IF daily > 0 THEN change + 1 ELSE change - 1

(* The change of iteration i: the rounded part of a day's, and one more in *)
(* every so many iterations if it does not divide evenly.                  *)
Change(daily, i) ==
  LET change == Quotient(daily, Fraction)
      every == Abs(Quotient(Fraction, daily))
      extra == daily # change * Fraction /\ every # 0 /\ i % every = 0
  IN  IF ~extra THEN change ELSE IF daily > 0 THEN change + 1 ELSE change - 1

(* Bug: only the stock of the item itself is looked at.                    *)
ClipToOwnStock(port, item, change) ==
  IF change < 0 THEN -Min({-change, amount[<<port, item>>]})
  ELSE Min({change, MaxStock[<<port, item>>] - amount[<<port, item>>]})

(* Within what there is of the item, the room for it, and what there is of *)
(* every requirement, which making an item and consuming one both use up.  *)
Clip(port, item, change) ==
  LET required == {amount[<<port, r>>] : r \in Requires[<<port, item>>]}
      limit == IF change < 0 THEN amount[<<port, item>>]
               ELSE MaxStock[<<port, item>>] - amount[<<port, item>>]
      size == Min({Abs(change), limit} \union required)
  IN  IF change < 0 THEN -size ELSE size

(* The loop body of update_port: an item that neither is made nor consumed *)
(* is passed over.                                                         *)
UpdateItem ==
  /\ nextItem <= Len(Stock[Updating])
  /\ LET item == Stock[Updating][nextItem]
         daily == DailyChange[<<Updating, item>>]
         change == Clip(Updating, item, Change(daily, iteration))
         made(c) == IF c = <<Updating, item>> THEN change ELSE 0
         used(c) == IF c[1] = Updating /\ c[2] \in Requires[<<Updating, item>>]
                    THEN Abs(change) ELSE 0
     IN  amount' = IF daily = 0 THEN amount
                   ELSE [c \in Cargos |-> amount[c] + made(c) - used(c)]
  /\ nextItem' = nextItem + 1
  /\ UNCHANGED <<navVars, hold, credits, iteration, updated, failed>>

(* The lock is released.  After the last port the thread sleeps, and goes  *)
(* on with the next iteration.                                             *)
UpdateDone ==
  /\ nextItem > Len(Stock[Updating])
  /\ nextItem' = 1
  /\ IF updated + 1 = Len(PortList)
     THEN updated' = 0 /\ iteration' = (iteration + 1) % Fraction
     ELSE updated' = updated + 1 /\ UNCHANGED iteration
  /\ UNCHANGED <<navVars, goodsVars, failed>>

(* After a failed assertion there is no server.                            *)
Next == /\ ~failed
        /\ \/ \E p \in Players : \/ Arrive(p)
                                 \/ Depart(p)
                                 \/ Move(p)
                                 \/ Buy(p)
                                 \/ Sell(p)
                                 \/ SellFails(p)
           \/ UpdateItem
           \/ UpdateDone

Spec == Init /\ [][Next]_vars

-----------------------------------------------------------------------------
(* Trading and producing, in any order, keep every stock between nothing   *)
(* and its maximum: move_cargo_to_ship and move_cargo_from_ship assert it, *)
(* and update_port computes with it.                                       *)
StockInBounds == \A c \in Cargos : amount[c] \in 0..MaxStock[c]

(* Why: amounts that were clipped one by one, with credits that are there. *)
GoodsInv == /\ TypeOK
            /\ StockInBounds
            /\ \A p \in Players : credits[p] >= 0

(* What goods are worth.                                                   *)
Value(goods) == SumFunction([i \in DOMAIN goods |-> goods[i] * Price[i]])

(* No trade makes a player richer or poorer, and no player is in debt:     *)
(* what the credits and the goods are worth together stays what it was on  *)
(* arrival.                                                                *)
WealthKept ==
  \A p \in Online : credits[p] >= 0 /\ credits[p] + Value(hold[p]) = StartCredits

(* Why: and who is not there has nothing.                                  *)
WealthInv == WealthKept /\ \A p \in Players \ Online : hold[p] = Empty

(* All there is of an item, in the ports and in the ships.                 *)
InPorts(item) == [c \in Cargos |-> IF c[2] = item THEN amount[c] ELSE 0]
InShips(item) == [p \in Players |-> Held(hold[p], item)]
Total(item) == SumFunction(InPorts(item)) + SumFunction(InShips(item))

(* Goods change hands and are neither lost nor made, except by the ports   *)
(* and with a player who leaves.                                           *)
GoodsConserved ==
  [][goodsVars' # goodsVars /\ updaterVars' = updaterVars /\ Online \subseteq Online'
       => \A i \in Items : Total(i)' = Total(i)]_vars

(* What the first n iterations of a day, which are counted from 0, make or *)
(* use up of a stock that nothing limits.                                  *)
SumOfChanges(daily, n) == SumFunction([i \in 0..n - 1 |-> Change(daily, i)])

Divides(a, b) == Abs(b) % Abs(a) = 0

(* How far a day takes an unlimited stock, when iteration is set back to   *)
(* 0, from daily_change, the number that players see as "Daily change":    *)
(* all the way and no further where it divides the iterations of a day or  *)
(* is a multiple of them.  Otherwise, if it is less than one a step, too   *)
(* far but never twice, and if it is more, not far enough but more than    *)
(* half; never is something made that should be used up.                   *)
DayRounded ==
  [][iteration > iteration' =>
       \A daily \in (-DailyBound..DailyBound) \ {0} :
          LET total == SumOfChanges(daily, iteration + 1)
              day == Abs(total)
              due == Abs(daily)
          IN  /\ total < 0 <=> daily < 0
              /\ day = due <=> Divides(due, Fraction) \/ Divides(Fraction, due)
              /\ due < Fraction => due <= day /\ day < 2 * due
              /\ due > Fraction => day <= due /\ due < 2 * day]_vars
=============================================================================
