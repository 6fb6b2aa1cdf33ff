---------------------------- MODULE TradingProofs ----------------------------
(***************************************************************************)
(* Proofs about Trading, for any universe, items and players.              *)
(***************************************************************************)
EXTENDS Trading, FiniteSetTheorems, SequenceTheorems, WellFoundedInduction, TLAPS

PlaceTypes == {"SYSTEM", "PORT", "PLANET"}

-----------------------------------------------------------------------------
(* What player_go removes is what it added.                                *)
LEMMA RemovedIsLocal ==
  ASSUME NEW type \in PlaceTypes \union {"NONE"}
  PROVE  Removed(type) = DOMAIN Local(type)
BY DEF Removed, Local, Empty, PlaceTypes

(* It is none of what every place offers.                                  *)
LEMMA LocalIsNotAlways ==
  ASSUME NEW type \in PlaceTypes \union {"NONE"}
  PROVE  DOMAIN Local(type) \intersect DOMAIN Always = {}
BY DEF Local, Always, Empty, PlaceTypes

(* Without what it removes, the table of a place is what every place has.  *)
LEMMA RemoveLocal ==
  ASSUME NEW type \in PlaceTypes \union {"NONE"},
         NEW table, table = Override(Always, Local(type))
  PROVE  [n \in DOMAIN table \ Removed(type) |-> table[n]] = [n \in DOMAIN Always |-> Always[n]]
<1>1. DOMAIN table = DOMAIN Always \union DOMAIN Local(type)
  BY DEF Override
<1>2. DOMAIN table \ Removed(type) = DOMAIN Always
  BY <1>1, RemovedIsLocal, LocalIsNotAlways
<1>3. \A n \in DOMAIN Always : table[n] = Always[n]
  BY LocalIsNotAlways DEF Override
<1>. QED  BY <1>2, <1>3

(* A command that is offered at a place works there.                       *)
LEMMA LocalFits ==
  ASSUME NEW type \in PlaceTypes, NEW n \in DOMAIN Override(Always, Local(type))
  PROVE  Asserted(Override(Always, Local(type))[n], type)
<1>. DEFINE table == Override(Always, Local(type))
<1>1. CASE n \in DOMAIN Local(type)
  <2>1. table[n] = Local(type)[n]
    BY <1>1 DEF Override
  <2>2. Asserted(Local(type)[n], type)
    BY <1>1 DEF Local, Asserted, PlaceTypes, Empty
  <2>. QED  BY <2>1, <2>2
<1>2. CASE n \in DOMAIN Always /\ n \notin DOMAIN Local(type)
  <2>1. table[n] = Always[n]
    BY <1>2 DEF Override
  <2>2. Asserted(Always[n], type)
    BY <1>2 DEF Always, Asserted
  <2>. QED  BY <2>1, <2>2
<1>. QED  BY <1>1, <1>2 DEF Override

-----------------------------------------------------------------------------
(* Every step of the game that moves no player leaves the commands alone.  *)
LEMMA CliUndisturbed ==
  ASSUME CliInv, UNCHANGED navVars
  PROVE  CliInv'
BY DEF CliInv, navVars, Online

(* Entering a place replaces the commands of the place before.             *)
LEMMA PlayerGoCli ==
  ASSUME NavTypeOK, CliInv,
         NEW p \in Players, NEW table, NEW type \in PlaceTypes, NEW place \in PlacesOf(type),
         table = Override(Always, Local(postype[p])),
         PlayerGo(p, table, type, place)
  PROVE  NavTypeOK' /\ CliInv'
<1>1. postype[p] \in PlaceTypes \union {"NONE"}
  BY DEF NavTypeOK, PlaceTypes
<1>. DEFINE kept == [n \in DOMAIN table \ Removed(postype[p]) |-> table[n]]
<1>2. kept = [n \in DOMAIN Always |-> Always[n]]
  BY <1>1, RemoveLocal
<1>3. Override(kept, Local(type)) = Override(Always, Local(type))
  BY <1>2 DEF Override
<1>4. /\ postype' = [postype EXCEPT ![p] = type]
      /\ pos' = [pos EXCEPT ![p] = place]
      /\ cli' = [cli EXCEPT ![p] = Override(Always, Local(type))]
  BY <1>3 DEF PlayerGo
<1>5. place \in Systems \union Planets \union Ports
  BY DEF PlacesOf
<1>6. NavTypeOK'
  BY <1>4, <1>5 DEF NavTypeOK, PlaceTypes
<1>7. ASSUME NEW o \in Online'
      PROVE  pos'[o] \in PlacesOf(postype'[o]) /\ cli'[o] = Override(Always, Local(postype'[o]))
  <2>1. CASE o = p
    BY <1>4, <2>1 DEF NavTypeOK
  <2>2. CASE o # p
    BY <1>4, <2>2, <1>7 DEF NavTypeOK, Online, CliInv
  <2>. QED  BY <2>1, <2>2
<1>8. ASSUME NEW o \in Players \ Online' PROVE cli'[o] = Empty
  <2>1. o # p
    BY <1>4, <1>8 DEF NavTypeOK, Online, PlaceTypes
  <2>. QED  BY <1>4, <1>8, <2>1 DEF NavTypeOK, Online, CliInv
<1>. QED  BY <1>6, <1>7, <1>8 DEF CliInv

(* A handler that asserts a kind of place is offered there only.           *)
LEMMA OfferedThere ==
  ASSUME NavTypeOK, CliInv, NEW p \in Players, NEW handler, Offered(p, handler)
  PROVE  p \in Online /\ Asserted(handler, postype[p])
<1>. p \in Online
  BY DEF Offered, CliInv, Empty
<1>1. postype[p] \in PlaceTypes
  BY DEF NavTypeOK, Online, PlaceTypes
<1>. QED  BY <1>1, LocalFits DEF Offered, CliInv

(* Logging in, travelling and logging out keep the commands right.         *)
LEMMA NavStep ==
  ASSUME NavTypeOK, CliInv, NEW p \in Players,
         Login(p) \/ Logout(p) \/ Travel(p)
  PROVE  NavTypeOK' /\ CliInv'
<1>1. CASE Login(p)
  <2>1. postype[p] = "NONE"
    BY <1>1 DEF Login, Online
  <2>2. Always = Override(Always, Local(postype[p]))
    BY <2>1 DEF Override, Local, Empty, Always
  <2>. QED  BY <1>1, <2>2, PlayerGoCli, PlacesAssumption DEF Login, PlacesOf, PlaceTypes
<1>2. CASE Logout(p)
  <2>1. NavTypeOK'
    BY <1>2, PlacesAssumption DEF Logout, NavTypeOK
  <2>2. \A o \in Online' : o # p /\ o \in Online
    BY <1>2 DEF Logout, NavTypeOK, Online
  <2>3. \A o \in Online' : pos'[o] = pos[o] /\ cli'[o] = cli[o] /\ postype'[o] = postype[o]
    BY <1>2, <2>2 DEF Logout, NavTypeOK, Online
  <2>4. \A o \in Players \ Online' : cli'[o] = Empty
    BY <1>2 DEF Logout, NavTypeOK, Online, CliInv
  <2>. QED  BY <2>1, <2>2, <2>3, <2>4 DEF CliInv
<1>3. CASE Travel(p)
  <2>. p \in Online
    BY <1>3, OfferedThere DEF Travel, Hyper, Jump, Dock, Orbit, LeavePort, LeavePlanet
  <2>. cli[p] = Override(Always, Local(postype[p])) /\ pos[p] \in PlacesOf(postype[p])
    BY <1>3 DEF CliInv
  <2>1. CASE Hyper(p)
    BY <2>1, PlayerGoCli DEF Hyper, PlacesOf, PlaceTypes
  <2>2. CASE Jump(p)
    BY <2>2, PlayerGoCli DEF Jump, PlacesOf, PlaceTypes
  <2>3. CASE Dock(p)
    BY <2>3, PlayerGoCli DEF Dock, PlacesOf, PlaceTypes
  <2>4. CASE Orbit(p)
    BY <2>4, PlayerGoCli DEF Orbit, PlacesOf, PlaceTypes
  <2>5. CASE LeavePort(p)
    <3>1. postype[p] = "PORT"
      BY <1>3, <2>5, OfferedThere DEF LeavePort, Asserted
    <3>2. PlanetOf[pos[p]] \in PlacesOf("PLANET")
      BY <3>1, PlacesAssumption DEF PlacesOf
    <3>. QED  BY <2>5, <3>2, PlayerGoCli DEF LeavePort, PlaceTypes
  <2>6. CASE LeavePlanet(p)
    <3>1. postype[p] = "PLANET"
      BY <1>3, <2>6, OfferedThere DEF LeavePlanet, Asserted
    <3>2. SystemOf[pos[p]] \in PlacesOf("SYSTEM")
      BY <3>1, PlacesAssumption DEF PlacesOf
    <3>. QED  BY <2>6, <3>2, PlayerGoCli DEF LeavePlanet, PlaceTypes
  <2>. QED  BY <1>3, <2>1, <2>2, <2>3, <2>4, <2>5, <2>6 DEF Travel
<1>. QED  BY <1>1, <1>2, <1>3

-----------------------------------------------------------------------------
(* Induction over the subsets of a finite set.                             *)
LEMMA BySubsets ==
  ASSUME NEW S, IsFiniteSet(S), NEW Good,
         \A T \in SUBSET S : (\A U \in SUBSET T : U # T => U \in Good) => T \in Good
  PROVE  \A T \in SUBSET S : T \in Good
<1> DEFINE R == StrictSubsetOrdering(S)
           Bad == (SUBSET S) \ Good
<1> SUFFICES ASSUME Bad # {}
             PROVE  FALSE
  OBVIOUS
<1>1. IsWellFoundedOn(R, SUBSET S)
  <2>1. IsWellFoundedOn(R, FiniteSubsetsOf(S))
    BY FS_StrictSubsetOrderingWellFounded
  <2>2. FiniteSubsetsOf(S) = SUBSET S
    BY FS_FiniteSubsetsOfFinite
  <2> QED
    BY <2>1, <2>2
<1>2. Bad \subseteq SUBSET S
  OBVIOUS
<1> HIDE DEF R, Bad
<1>3. PICK T \in Bad : \A U \in Bad : ~(<<U, T>> \in R)
  BY <1>1, <1>2, WFMin
<1>4. T \in SUBSET S /\ T \notin Good
  BY <1>3 DEF Bad
<1>5. ASSUME NEW U \in SUBSET T, U # T
      PROVE  U \in Good
  <2>1. U \in SUBSET S
    BY <1>4
  <2>2. <<U, T>> \in R
    BY <1>4, <1>5, <2>1 DEF R, StrictSubsetOrdering
  <2> QED
    BY <1>3, <2>1, <2>2 DEF Bad
<1> QED
  BY <1>4, <1>5

-----------------------------------------------------------------------------
(* The sum of a function over a finite set is taken element by element,    *)
(* each time the one that is chosen.                                       *)
Chosen(s) == CHOOSE x \in s : TRUE

Sums(g, fun, S) ==
  g = [s \in SUBSET S |-> IF s = {} THEN 0 ELSE fun[Chosen(s)] + g[s \ {Chosen(s)}]]

LEMMA SumMeans ==
  ASSUME NEW fun, NEW S
  PROVE  SumFunctionOnSet(fun, S) = (CHOOSE g : Sums(g, fun, S))[S]
BY DEF SumFunctionOnSet, FoldFunctionOnSet, MapThenFoldSet, Sums, Chosen

(* What is chosen is there.                                                *)
LEMMA ChosenIs ==
  ASSUME NEW s, s # {}
  PROVE  Chosen(s) \in s
BY DEF Chosen

(* There is one way only to take such sums, *)
LEMMA SumsUnique ==
  ASSUME NEW fun, NEW S, IsFiniteSet(S), NEW g, Sums(g, fun, S), NEW h, Sums(h, fun, S)
  PROVE  \A s \in SUBSET S : g[s] = h[s]
<1> DEFINE Good == {s \in SUBSET S : g[s] = h[s]}
<1>1. ASSUME NEW s \in SUBSET S, \A u \in SUBSET s : u # s => u \in Good
      PROVE  s \in Good
  <2>1. /\ g[s] = IF s = {} THEN 0 ELSE fun[Chosen(s)] + g[s \ {Chosen(s)}]
        /\ h[s] = IF s = {} THEN 0 ELSE fun[Chosen(s)] + h[s \ {Chosen(s)}]
    BY DEF Sums
  <2>2. CASE s # {}
    <3>1. s \ {Chosen(s)} \in SUBSET s /\ s \ {Chosen(s)} # s
      BY <2>2, ChosenIs
    <3>2. g[s \ {Chosen(s)}] = h[s \ {Chosen(s)}]
      BY <1>1, <3>1
    <3> QED
      BY <2>1, <3>2
  <2> QED
    BY <2>1, <2>2
<1> HIDE DEF Good
<1>2. \A s \in SUBSET S : s \in Good
  BY <1>1, BySubsets
<1> QED
  BY <1>2 DEF Good

(* and a way there is.                                                     *)
LEMMA SumsExist ==
  ASSUME NEW fun, NEW S, IsFiniteSet(S)
  PROVE  \E g : Sums(g, fun, S)
<1> DEFINE Sum(s) == (CHOOSE g : Sums(g, fun, s))[s]
           Good == {s \in SUBSET S : \E g : Sums(g, fun, s)}
<1>1. ASSUME NEW s \in SUBSET S, \A u \in SUBSET s : u # s => u \in Good
      PROVE  s \in Good
  <2> DEFINE g == [t \in SUBSET s |-> IF t = {} THEN 0 ELSE fun[Chosen(t)] + Sum(t \ {Chosen(t)})]
  <2>1. ASSUME NEW t \in SUBSET s, t # s
        PROVE  g[t] = Sum(t)
    <3> DEFINE k == CHOOSE h : Sums(h, fun, t)
               r == t \ {Chosen(t)}
    <3>1. Sums(k, fun, t)
      BY <1>1, <2>1
    <3>2. CASE t = {}
      <4>1. k[t] = 0
        BY <3>1, <3>2 DEF Sums
      <4> QED
        BY <3>2, <4>1
    <3>3. CASE t # {}
      <4>1. r \in SUBSET t /\ r # t /\ r \in SUBSET s /\ r # s
        BY <2>1, <3>3, ChosenIs
      <4>2. Sums(CHOOSE h : Sums(h, fun, r), fun, r)
        BY <1>1, <4>1
      <4> DEFINE m == CHOOSE h : Sums(h, fun, r)
                 n == [u \in SUBSET r |-> k[u]]
      <4>3. Sums(n, fun, r)
        <5> HIDE DEF k, r
        <5>1. ASSUME NEW u \in SUBSET r
              PROVE  n[u] = IF u = {} THEN 0 ELSE fun[Chosen(u)] + n[u \ {Chosen(u)}]
          <6>1. u \in SUBSET t /\ u \ {Chosen(u)} \in SUBSET r
            BY <4>1
          <6>2. k[u] = IF u = {} THEN 0 ELSE fun[Chosen(u)] + k[u \ {Chosen(u)}]
            BY <3>1, <6>1 DEF Sums
          <6> QED
            BY <6>1, <6>2
        <5>2. n = [u \in SUBSET r |-> n[u]]
          OBVIOUS
        <5> HIDE DEF n
        <5>3. n = [u \in SUBSET r |-> IF u = {} THEN 0 ELSE fun[Chosen(u)] + n[u \ {Chosen(u)}]]
          BY <5>1, <5>2
        <5> QED
          BY <5>3 DEF Sums
      <4>4. IsFiniteSet(r)
        BY <4>1, FS_Subset
      <4>5. r \in SUBSET r
        OBVIOUS
      <4> HIDE DEF m, n, k
      <4>6. m[r] = n[r]
        BY <4>2, <4>3, <4>4, <4>5, SumsUnique DEF m
      <4>7. k[t] = fun[Chosen(t)] + k[r]
        BY <3>1, <3>3 DEF Sums
      <4>8. n[r] = k[r]
        BY DEF n
      <4>9. m[r] = Sum(r)
        BY DEF m
      <4>10. k[t] = Sum(t)
        BY DEF k
      <4> HIDE DEF Sum
      <4>11. g[t] = fun[Chosen(t)] + Sum(r)
        BY <3>3
      <4> QED
        BY <4>6, <4>7, <4>8, <4>9, <4>10, <4>11
    <3> QED
      BY <3>2, <3>3
  <2>2. ASSUME NEW t \in SUBSET s, t # {}
        PROVE  g[t \ {Chosen(t)}] = Sum(t \ {Chosen(t)})
    <3>1. t \ {Chosen(t)} \in SUBSET s /\ t \ {Chosen(t)} # s
      BY <2>2, ChosenIs
    <3> HIDE DEF g, Sum
    <3> QED
      BY <2>1, <3>1
  <2>3. g = [t \in SUBSET s |-> IF t = {} THEN 0 ELSE fun[Chosen(t)] + g[t \ {Chosen(t)}]]
    <3> HIDE DEF Sum
    <3>1. \A t \in SUBSET s : g[t] = IF t = {} THEN 0 ELSE fun[Chosen(t)] + g[t \ {Chosen(t)}]
      BY <2>2
    <3>2. g = [t \in SUBSET s |-> g[t]]
      OBVIOUS
    <3> HIDE DEF g
    <3> QED
      BY <3>1, <3>2
  <2> HIDE DEF g
  <2>4. Sums(g, fun, s)
    BY <2>3 DEF Sums
  <2> QED
    BY <2>4
<1> HIDE DEF Good
<1>2. \A s \in SUBSET S : s \in Good
  BY <1>1, BySubsets
<1> QED
  BY <1>2 DEF Good

-----------------------------------------------------------------------------
(* So the sum is 0 for nothing, and else what is chosen and the sum of the *)
(* rest.                                                                   *)
LEMMA SumIs ==
  ASSUME NEW fun, NEW S, IsFiniteSet(S)
  PROVE  SumFunctionOnSet(fun, S) =
           IF S = {} THEN 0 ELSE fun[Chosen(S)] + SumFunctionOnSet(fun, S \ {Chosen(S)})
<1> DEFINE k == CHOOSE g : Sums(g, fun, S)
           r == S \ {Chosen(S)}
           m == CHOOSE g : Sums(g, fun, r)
           n == [u \in SUBSET r |-> k[u]]
<1>1. Sums(k, fun, S)
  BY SumsExist
<1>2. k[S] = IF S = {} THEN 0 ELSE fun[Chosen(S)] + k[r]
  <2> HIDE DEF k
  <2> QED
    BY <1>1 DEF Sums
<1>3. IsFiniteSet(r) /\ r \in SUBSET S
  BY FS_Subset
<1>4. Sums(m, fun, r)
  BY <1>3, SumsExist
<1>5. Sums(n, fun, r)
  <2> HIDE DEF k, r
  <2>1. ASSUME NEW u \in SUBSET r
        PROVE  n[u] = IF u = {} THEN 0 ELSE fun[Chosen(u)] + n[u \ {Chosen(u)}]
    <3>1. u \in SUBSET S /\ u \ {Chosen(u)} \in SUBSET r
      BY <1>3
    <3>2. k[u] = IF u = {} THEN 0 ELSE fun[Chosen(u)] + k[u \ {Chosen(u)}]
      BY <1>1, <3>1 DEF Sums
    <3> QED
      BY <3>1, <3>2
  <2>2. n = [u \in SUBSET r |-> n[u]]
    OBVIOUS
  <2> HIDE DEF n
  <2>3. n = [u \in SUBSET r |-> IF u = {} THEN 0 ELSE fun[Chosen(u)] + n[u \ {Chosen(u)}]]
    BY <2>1, <2>2
  <2> QED
    BY <2>3 DEF Sums
<1> HIDE DEF m, n, k
<1>6. m[r] = n[r]
  BY <1>3, <1>4, <1>5, SumsUnique
<1>7. n[r] = k[r]
  BY DEF n
<1>8. SumFunctionOnSet(fun, S) = k[S] /\ SumFunctionOnSet(fun, r) = m[r]
  BY SumMeans DEF k, m
<1> QED
  BY <1>2, <1>6, <1>7, <1>8

(* The sum of whole numbers is one, depends on nothing else, and is the    *)
(* same in whatever order it is taken.                                     *)
LEMMA SumRemove ==
  ASSUME NEW S, IsFiniteSet(S), NEW fun, \A x \in S : fun[x] \in Int
  PROVE  /\ SumFunctionOnSet(fun, S) \in Int
         /\ \A x \in S : SumFunctionOnSet(fun, S) = fun[x] + SumFunctionOnSet(fun, S \ {x})
<1> DEFINE Sum(T) == SumFunctionOnSet(fun, T)
           Good == {T \in SUBSET S : /\ Sum(T) \in Int
                                     /\ \A x \in T : Sum(T) = fun[x] + Sum(T \ {x})}
<1>1. \A T \in SUBSET S : Sum(T) = IF T = {} THEN 0 ELSE fun[Chosen(T)] + Sum(T \ {Chosen(T)})
  BY SumIs, FS_Subset
<1> HIDE DEF Sum
<1>2. ASSUME NEW T \in SUBSET S, \A U \in SUBSET T : U # T => U \in Good
      PROVE  T \in Good
  <2>1. CASE T = {}
    <3>1. Sum(T) = 0
      BY <1>1, <2>1
    <3>2. \A x \in T : Sum(T) = fun[x] + Sum(T \ {x})
      BY <2>1
    <3> HIDE DEF Sum
    <3> QED
      BY <3>1, <3>2
  <2>2. CASE T # {}
    <3> DEFINE y == Chosen(T)
               U == T \ {y}
    <3>1. y \in T /\ U \in SUBSET T /\ U # T
      BY <2>2, ChosenIs
    <3>2. Sum(T) = fun[y] + Sum(U) /\ Sum(U) \in Int /\ fun[y] \in Int
      BY <1>1, <1>2, <2>2, <3>1
    <3>3. ASSUME NEW x \in T, x # y
          PROVE  Sum(T) = fun[x] + Sum(T \ {x})
      <4> DEFINE V == T \ {x}
                 W == T \ {x, y}
      <4>1. x \in U /\ U \ {x} = W /\ y \in V /\ V \ {y} = W
        BY <3>1, <3>3
      <4>2. V \in SUBSET T /\ V # T /\ W \in SUBSET T /\ W # T
        BY <3>3
      <4> HIDE DEF y, U, V, W
      <4>3. U \in Good /\ V \in Good /\ W \in Good
        BY <1>2, <3>1, <4>2
      <4>4. Sum(U) = fun[x] + Sum(W) /\ Sum(V) = fun[y] + Sum(W) /\ Sum(W) \in Int
        BY <4>1, <4>3
      <4>5. fun[x] \in Int /\ fun[y] \in Int
        BY <3>1, <3>3
      <4>6. Sum(T) = fun[x] + Sum(V)
        BY <3>2, <4>4, <4>5
      <4> QED
        BY <4>6 DEF V
    <3>4. \A x \in T : Sum(T) = fun[x] + Sum(T \ {x})
      BY <3>2, <3>3
    <3>5. Sum(T) \in Int
      <4> HIDE DEF U, y
      <4> QED
        BY <3>2
    <3> QED
      BY <3>4, <3>5
  <2> QED
    BY <2>1, <2>2
<1> HIDE DEF Good
<1>3. \A T \in SUBSET S : T \in Good
  BY <1>2, BySubsets
<1> QED
  BY <1>3 DEF Good, Sum

LEMMA SumSame ==
  ASSUME NEW S, IsFiniteSet(S), NEW f, NEW g, \A x \in S : f[x] = g[x]
  PROVE  SumFunctionOnSet(f, S) = SumFunctionOnSet(g, S)
<1> DEFINE F(T) == SumFunctionOnSet(f, T)
           G(T) == SumFunctionOnSet(g, T)
           Good == {T \in SUBSET S : F(T) = G(T)}
<1>1. \A T \in SUBSET S : /\ F(T) = IF T = {} THEN 0 ELSE f[Chosen(T)] + F(T \ {Chosen(T)})
                          /\ G(T) = IF T = {} THEN 0 ELSE g[Chosen(T)] + G(T \ {Chosen(T)})
  BY SumIs, FS_Subset
<1> HIDE DEF F, G
<1>2. ASSUME NEW T \in SUBSET S, \A U \in SUBSET T : U # T => U \in Good
      PROVE  T \in Good
  <2>1. CASE T = {}
    BY <1>1, <2>1
  <2>2. CASE T # {}
    <3>1. Chosen(T) \in T /\ T \ {Chosen(T)} \in SUBSET T /\ T \ {Chosen(T)} # T
      BY <2>2, ChosenIs
    <3>2. F(T \ {Chosen(T)}) = G(T \ {Chosen(T)}) /\ f[Chosen(T)] = g[Chosen(T)]
      BY <1>2, <3>1
    <3> QED
      BY <1>1, <2>2, <3>2
  <2> QED
    BY <2>1, <2>2
<1> HIDE DEF Good
<1>3. \A T \in SUBSET S : T \in Good
  BY <1>2, BySubsets
<1> QED
  BY <1>3 DEF Good, F, G

(* When one of the numbers changes, the sum changes by as much.            *)
LEMMA SumChange ==
  ASSUME NEW S, IsFiniteSet(S), NEW f \in [S -> Int], NEW g \in [S -> Int], NEW x \in S,
         \A y \in S \ {x} : f[y] = g[y]
  PROVE  SumFunction(g) = SumFunction(f) + g[x] - f[x]
<1> DEFINE r == S \ {x}
<1>1. /\ SumFunctionOnSet(f, S) = f[x] + SumFunctionOnSet(f, r)
      /\ SumFunctionOnSet(g, S) = g[x] + SumFunctionOnSet(g, r)
  BY SumRemove
<1>2. IsFiniteSet(r)
  BY FS_Subset
<1>3. SumFunctionOnSet(f, r) = SumFunctionOnSet(g, r) /\ SumFunctionOnSet(f, r) \in Int
  BY <1>2, SumSame, SumRemove
<1>4. DOMAIN f = S /\ DOMAIN g = S /\ f[x] \in Int /\ g[x] \in Int
  OBVIOUS
<1> HIDE DEF r
<1>5. SumFunctionOnSet(g, S) = SumFunctionOnSet(f, S) + g[x] - f[x]
  BY <1>1, <1>3, <1>4
<1> QED
  BY <1>4, <1>5 DEF SumFunction

(* When one is added, so is its number.                                    *)
LEMMA SumAdd ==
  ASSUME NEW S, IsFiniteSet(S), NEW x, x \notin S, NEW f \in [S -> Int],
         NEW g \in [S \union {x} -> Int], \A y \in S : f[y] = g[y]
  PROVE  SumFunction(g) = SumFunction(f) + g[x]
<1> DEFINE T == S \union {x}
<1>1. IsFiniteSet(T) /\ x \in T /\ T \ {x} = S /\ DOMAIN f = S /\ DOMAIN g = T /\ g[x] \in Int
  BY FS_AddElement
<1>2. SumFunctionOnSet(g, T) = g[x] + SumFunctionOnSet(g, T \ {x})
  BY <1>1, SumRemove
<1>3. SumFunctionOnSet(g, S) = SumFunctionOnSet(f, S) /\ SumFunctionOnSet(f, S) \in Int
  BY SumSame, SumRemove
<1>4. SumFunctionOnSet(g, T) = g[x] + SumFunctionOnSet(g, S)
  BY <1>1, <1>2
<1> HIDE DEF T
<1>5. g[x] \in Int
  BY <1>1
<1>6. SumFunctionOnSet(g, T) = SumFunctionOnSet(f, S) + g[x]
  BY <1>3, <1>4, <1>5
<1> QED
  BY <1>1, <1>6 DEF SumFunction

-----------------------------------------------------------------------------
(* A set of natural numbers has a minimum.                                 *)
LEMMA MinOfNats ==
  ASSUME NEW S, S \subseteq Nat, S # {}
  PROVE  /\ Min(S) \in S
         /\ Min(S) \in Nat
         /\ \A n \in S : Min(S) <= n
<1>1. PICK m \in S : \A n \in S : ~ (<<n, m>> \in OpToRel(<, Nat))
  BY NatLessThanWellFounded, WFMin, Zenon
<1>2. OpToRel(<, Nat) = {ss \in Nat \X Nat : ss[1] < ss[2]}
  BY DEF OpToRel
<1>3. ASSUME NEW n \in S PROVE m <= n
  <2>1. <<n, m>> \in Nat \X Nat /\ n \in Nat /\ m \in Nat
    OBVIOUS
  <2>2. ~ (n < m)
    BY <1>1, <1>2, <2>1
  <2>. QED  BY <2>1, <2>2
<1>. QED  BY <1>3 DEF Min

(* The quotient of natural numbers is one.                                 *)
LEMMA DivNat ==
  ASSUME NEW a \in Nat, NEW b \in Nat \ {0}
  PROVE  a \div b \in Nat
OBVIOUS

(* What can be paid for does not cost more than there is.                  *)
LEMMA AffordableCost ==
  ASSUME NEW price \in Nat \ {0}, NEW money \in Nat, NEW n \in Nat, n <= money \div price
  PROVE  n * price <= money
<1>. DEFINE q == money \div price
<1>1. q \in Nat /\ q * price <= money
  OBVIOUS
<1>. HIDE DEF q
<1>2. n * price <= q * price
  <2>1. PICK d \in Nat : q = n + d
    <3>. q - n \in Nat /\ q = n + (q - n)
      BY <1>1 DEF q
    <3>. QED OBVIOUS
  <2>2. q * price = n * price + d * price
    BY <2>1
  <2>3. d * price \in Nat
    BY <2>1
  <2>4. n * price \in Nat
    OBVIOUS
  <2>. QED  BY <2>2, <2>3, <2>4
<1>3. n * price \in Nat /\ q * price \in Nat
  BY <1>1
<1>. QED  BY <1>1, <1>2, <1>3

(* The cargos of a port are its items.                                     *)
LEMMA CargoOf ==
  ASSUME NEW port \in Ports, NEW item \in Items, item \in Sold(port)
  PROVE  <<port, item>> \in Cargos
BY DEF Cargos

(* The port that is updated next.                                          *)
LEMMA UpdatingType ==
  ASSUME TypeOK
  PROVE  Updating \in Ports /\ Stock[Updating] \in Seq(Items)
<1>1. updated + 1 \in 1..Len(PortList)
  BY UpdateAssumption DEF TypeOK
<1>2. PortList[updated + 1] \in Ports
  BY <1>1, UpdateAssumption, ElementOfSeq
<1>. QED  BY <1>2, StockAssumption DEF Updating

(* A purchase, *)
Bought(p, item, moved) ==
  /\ <<pos[p], item>> \in Cargos
  /\ moved <= amount[<<pos[p], item>>]
  /\ moved * Price[item] \in Nat
  /\ moved * Price[item] <= credits[p]
  /\ amount' = [amount EXCEPT ![<<pos[p], item>>] = @ - moved]
  /\ hold' = [hold EXCEPT ![p] = AddToHold(@, item, moved)]
  /\ credits' = [credits EXCEPT ![p] = @ - moved * Price[item]]
  /\ UNCHANGED <<navVars, updaterVars, failed>>

(* and a sale, by what they move.                                          *)
SoldOff(p, item, moved) ==
  /\ <<pos[p], item>> \in Cargos
  /\ moved <= hold[p][item]
  /\ moved <= MaxStock[<<pos[p], item>>] - amount[<<pos[p], item>>]
  /\ amount' = [amount EXCEPT ![<<pos[p], item>>] = @ + moved]
  /\ hold' = [hold EXCEPT ![p] = TakeFromHold(hold[p], item, moved)]
  /\ credits' = [credits EXCEPT ![p] = @ + moved * Price[item]]
  /\ UNCHANGED <<navVars, updaterVars, failed>>

(* A purchase moves what the port has and the player can pay for.          *)
LEMMA BuyMeans ==
  ASSUME GoodsInv, CliInv, NEW p \in Players, Buy(p)
  PROVE  \E item \in Items, moved \in Nat : Bought(p, item, moved)
<1>. USE DEF GoodsInv, TypeOK
<1>1. /\ Offered(p, "buy")
      /\ UNCHANGED <<navVars, updaterVars, failed>>
  BY DEF Buy
<1>2. pos[p] \in Ports
  <2>1. p \in Online /\ postype[p] = "PORT"
    BY <1>1, OfferedThere DEF Asserted
  <2>. QED  BY <2>1 DEF CliInv, PlacesOf
<1>3. PICK q \in Queries, n \in Requested, item \in Items :
        LET c == <<pos[p], item>>
            wanted == Affordable(p, item, n)
            moved == Min({wanted, amount[c]})
        IN  /\ q \intersect Sold(pos[p]) = {item}
            /\ amount' = [amount EXCEPT ![c] = @ - moved]
            /\ hold' = [hold EXCEPT ![p] = AddToHold(@, item, moved)]
            /\ credits' = [credits EXCEPT ![p] = @ - moved * Price[item]]
  BY DEF Buy
<1>. DEFINE c == <<pos[p], item>>
            wanted == Affordable(p, item, n)
            moved == Min({wanted, amount[c]})
<1>4. c \in Cargos
  BY <1>2, <1>3, CargoOf
<1>5. /\ n \in Nat
      /\ Price[item] \in Nat
      /\ MaxStock[c] \in Nat
      /\ amount[c] \in 0..MaxStock[c]
      /\ credits[p] \in Nat
  BY <1>4, ItemsAssumption, StockAssumption DEF StockInBounds
<1>6. wanted \in Nat /\ (Price[item] # 0 => wanted <= credits[p] \div Price[item])
  <2>1. CASE Price[item] = 0
    BY <2>1, <1>5 DEF Affordable
  <2>2. CASE Price[item] # 0
    <3>1. credits[p] \div Price[item] \in Nat
      BY <2>2, <1>5, DivNat
    <3>2. wanted = Min({n, credits[p] \div Price[item]})
      BY <2>2 DEF Affordable
    <3>3. {n, credits[p] \div Price[item]} \subseteq Nat
      BY <3>1, <1>5
    <3>. HIDE DEF wanted
    <3>. QED  BY <3>2, <3>3, MinOfNats
  <2>. QED  BY <2>1, <2>2
<1>. HIDE DEF wanted
<1>7. moved \in Nat /\ moved <= wanted /\ moved <= amount[c]
  <2>1. {wanted, amount[c]} \subseteq Nat
    BY <1>5, <1>6
  <2>. QED  BY <2>1, MinOfNats
<1>. HIDE DEF moved
<1>8. moved * Price[item] \in Nat /\ moved * Price[item] <= credits[p]
  <2>1. CASE Price[item] = 0
    BY <2>1, <1>5, <1>7
  <2>2. CASE Price[item] # 0
    <3>1. credits[p] \div Price[item] \in Nat
      BY <2>2, <1>5, DivNat
    <3>2. moved <= credits[p] \div Price[item]
      BY <3>1, <2>2, <1>6, <1>7
    <3>3. moved * Price[item] \in Nat
      BY <1>5, <1>7
    <3>. QED  BY <2>2, <3>2, <3>3, <1>5, <1>7, AffordableCost
  <2>. QED  BY <2>1, <2>2
<1>9. /\ amount' = [amount EXCEPT ![c] = @ - moved]
      /\ hold' = [hold EXCEPT ![p] = AddToHold(@, item, moved)]
      /\ credits' = [credits EXCEPT ![p] = @ - moved * Price[item]]
  BY <1>3 DEF moved, wanted
<1>. QED  BY <1>1, <1>4, <1>7, <1>8, <1>9 DEF Bought

(* It leaves stocks in bounds and nobody in debt.                          *)
LEMMA BuyStep ==
  ASSUME GoodsInv, CliInv, NEW p \in Players, Buy(p)
  PROVE  GoodsInv'
<1>. USE DEF GoodsInv, TypeOK
<1>1. PICK item \in Items, moved \in Nat : Bought(p, item, moved)
  BY BuyMeans
<1>. USE DEF Bought
<1>. DEFINE c == <<pos[p], item>>
<1>2. Held(hold[p], item) \in Nat
  BY DEF Held
<1>3. \A o \in Players : \E T \in SUBSET Items : hold'[o] \in [T -> Nat]
  <2>. TAKE o \in Players
  <2>1. CASE o # p
    BY <1>1, <2>1
  <2>2. CASE o = p
    <3>1. PICK T \in SUBSET Items : hold[p] \in [T -> Nat]
      OBVIOUS
    <3>2. hold'[p] = AddToHold(hold[p], item, moved)
      BY <1>1
    <3>3. hold'[p] \in [T \union {item} -> Nat]
      BY <3>1, <3>2, <1>1, <1>2 DEF AddToHold, Override
    <3>. QED  BY <2>2, <3>3
  <2>. QED  BY <2>1, <2>2
<1>4. amount' \in [Cargos -> Int] /\ StockInBounds'
  <2>1. amount[c] \in 0..MaxStock[c] /\ MaxStock[c] \in Nat
    BY <1>1, StockAssumption DEF StockInBounds
  <2>2. amount'[c] \in 0..MaxStock[c]
    BY <1>1, <2>1
  <2>3. \A d \in Cargos : d # c => amount'[d] = amount[d]
    BY <1>1
  <2>4. amount' \in [Cargos -> Int]
    BY <1>1
  <2>. QED  BY <2>2, <2>3, <2>4 DEF StockInBounds
<1>5. credits' \in [Players -> Int] /\ \A o \in Players : credits'[o] >= 0
  <2>1. credits' = [credits EXCEPT ![p] = @ - moved * Price[item]]
    BY <1>1
  <2>2. credits[p] - moved * Price[item] \in Nat
    BY <1>1
  <2>. QED  BY <2>1, <2>2
<1>6. DOMAIN hold' = Players
  BY <1>1
<1>7. NavTypeOK'
  BY <1>1 DEF NavTypeOK, navVars
<1>8. UNCHANGED <<iteration, updated, nextItem, failed>>
  BY <1>1 DEF updaterVars
<1>. QED  BY <1>3, <1>4, <1>5, <1>6, <1>7, <1>8

(* A sale moves what the player has and the port has room for.             *)
LEMMA SellMeans ==
  ASSUME GoodsInv, CliInv, NEW p \in Players, Sell(p)
  PROVE  \E item \in DOMAIN hold[p], moved \in Nat : SoldOff(p, item, moved)
<1>. USE DEF GoodsInv, TypeOK
<1>1. /\ Offered(p, "sell")
      /\ UNCHANGED <<navVars, updaterVars, failed>>
  BY DEF Sell
<1>2. pos[p] \in Ports
  <2>1. p \in Online /\ postype[p] = "PORT"
    BY <1>1, OfferedThere DEF Asserted
  <2>. QED  BY <2>1 DEF CliInv, PlacesOf
<1>3. PICK q \in Queries, n \in Requested, item \in DOMAIN hold[p] :
        LET c == <<pos[p], item>>
            moved == MovedFromShip(p, c, n)
        IN  /\ MeantBySell(p, q, item)
            /\ amount' = [amount EXCEPT ![c] = @ + moved]
            /\ hold' = [hold EXCEPT ![p] = TakeFromHold(hold[p], item, moved)]
            /\ credits' = [credits EXCEPT ![p] = @ + moved * Price[item]]
  BY DEF Sell
<1>. DEFINE c == <<pos[p], item>>
            moved == MovedFromShip(p, c, n)
<1>4. PICK T \in SUBSET Items : hold[p] \in [T -> Nat]
  OBVIOUS
<1>5. item \in Items /\ c \in Cargos
  BY <1>2, <1>3, <1>4, CargoOf DEF MeantBySell
<1>6. /\ n \in Nat
      /\ Price[item] \in Nat
      /\ MaxStock[c] \in Nat
      /\ amount[c] \in 0..MaxStock[c]
      /\ hold[p][item] \in Nat
  BY <1>4, <1>5, ItemsAssumption, StockAssumption DEF StockInBounds
<1>7. moved \in Nat /\ moved <= hold[p][item] /\ moved <= MaxStock[c] - amount[c]
  <2>1. {n, hold[p][item], MaxStock[c] - amount[c]} \subseteq Nat
    BY <1>6
  <2>2. moved = Min({n, hold[p][item], MaxStock[c] - amount[c]})
    BY DEF MovedFromShip
  <2>. HIDE DEF moved
  <2>. QED  BY <2>1, <2>2, MinOfNats
<1>. HIDE DEF moved
<1>8. /\ amount' = [amount EXCEPT ![c] = @ + moved]
      /\ hold' = [hold EXCEPT ![p] = TakeFromHold(hold[p], item, moved)]
      /\ credits' = [credits EXCEPT ![p] = @ + moved * Price[item]]
  BY <1>3 DEF moved
<1>. QED  BY <1>1, <1>5, <1>7, <1>8 DEF SoldOff

(* It leaves stocks in bounds and nobody in debt, too.                     *)
LEMMA SellStep ==
  ASSUME GoodsInv, CliInv, NEW p \in Players, Sell(p)
  PROVE  GoodsInv'
<1>. USE DEF GoodsInv, TypeOK
<1>1. PICK item \in DOMAIN hold[p], moved \in Nat : SoldOff(p, item, moved)
  BY SellMeans
<1>. USE DEF SoldOff
<1>. DEFINE c == <<pos[p], item>>
<1>2. PICK T \in SUBSET Items : hold[p] \in [T -> Nat]
  OBVIOUS
<1>3. moved * Price[item] \in Nat
  <2>1. Price[item] \in Nat
    BY <1>2, ItemsAssumption
  <2>. QED  BY <2>1
<1>4. \A o \in Players : \E U \in SUBSET Items : hold'[o] \in [U -> Nat]
  <2>. TAKE o \in Players
  <2>1. CASE o # p
    BY <1>1, <2>1
  <2>2. CASE o = p
    <3>1. hold'[p] = TakeFromHold(hold[p], item, moved)
      BY <1>1
    <3>. DEFINE U == DOMAIN hold[p] \ (IF moved = hold[p][item] THEN {item} ELSE {})
    <3>2. U \in SUBSET Items
      BY <1>2
    <3>3. hold'[p] \in [U -> Nat]
      BY <3>1, <1>2, <1>1 DEF TakeFromHold
    <3>. HIDE DEF U
    <3>. QED  BY <2>2, <3>2, <3>3
  <2>. QED  BY <2>1, <2>2
<1>5. amount' \in [Cargos -> Int] /\ StockInBounds'
  <2>1. amount[c] \in 0..MaxStock[c] /\ MaxStock[c] \in Nat
    BY <1>1, StockAssumption DEF StockInBounds
  <2>2. amount'[c] \in 0..MaxStock[c]
    BY <1>1, <2>1
  <2>3. \A d \in Cargos : d # c => amount'[d] = amount[d]
    BY <1>1
  <2>4. amount' \in [Cargos -> Int]
    BY <1>1
  <2>. QED  BY <2>2, <2>3, <2>4 DEF StockInBounds
<1>6. credits' \in [Players -> Int] /\ \A o \in Players : credits'[o] >= 0
  <2>1. credits' = [credits EXCEPT ![p] = @ + moved * Price[item]]
    BY <1>1
  <2>2. credits[p] + moved * Price[item] \in Nat
    BY <1>3
  <2>. QED  BY <2>1, <2>2
<1>7. DOMAIN hold' = Players
  BY <1>1
<1>8. NavTypeOK'
  BY <1>1 DEF NavTypeOK, navVars
<1>9. UNCHANGED <<iteration, updated, nextItem, failed>>
  BY <1>1 DEF updaterVars
<1>. QED  BY <1>4, <1>5, <1>6, <1>7, <1>8, <1>9

(* The change of an iteration is a number.                                 *)
LEMMA ChangeInt ==
  ASSUME NEW daily \in Int, NEW i \in Nat
  PROVE  Change(daily, i) \in Int
<1>1. Abs(daily) \in Nat /\ Abs(Fraction) \in Nat \ {0}
  BY UpdateAssumption DEF Abs
<1>2. Abs(daily) \div Abs(Fraction) \in Nat
  BY <1>1, DivNat
<1>3. Quotient(daily, Fraction) \in Int
  BY <1>2 DEF Quotient
<1>. QED  BY <1>3 DEF Change

(* Clipping: the size of what is left fits the stock, the room and every   *)
(* requirement.                                                            *)
LEMMA ClipSize ==
  ASSUME GoodsInv, NEW port \in Ports, NEW item \in Items, <<port, item>> \in Cargos,
         NEW change \in Int
  PROVE  \E size \in Nat :
           /\ change < 0 => /\ Clip(port, item, change) = -size
                            /\ size <= amount[<<port, item>>]
           /\ change >= 0 => /\ Clip(port, item, change) = size
                             /\ size <= MaxStock[<<port, item>>] - amount[<<port, item>>]
           /\ \A r \in Requires[<<port, item>>] : size <= amount[<<port, r>>]
<1>. DEFINE required == {amount[<<port, r>>] : r \in Requires[<<port, item>>]}
            limit == IF change < 0 THEN amount[<<port, item>>]
                     ELSE MaxStock[<<port, item>>] - amount[<<port, item>>]
            size == Min({Abs(change), limit} \union required)
<1>1. \A c \in Cargos : amount[c] \in Nat /\ MaxStock[c] - amount[c] \in Nat
  BY StockAssumption DEF GoodsInv, TypeOK, StockInBounds
<1>2. \A r \in Requires[<<port, item>>] : <<port, r>> \in Cargos
  BY StockAssumption DEF Cargos
<1>3. required \subseteq Nat
  BY <1>1, <1>2
<1>4. Abs(change) \in Nat /\ limit \in Nat
  BY <1>1 DEF Abs
<1>5. Clip(port, item, change) = IF change < 0 THEN -size ELSE size
  BY DEF Clip
<1>6. size \in Nat /\ \A n \in {Abs(change), limit} \union required : size <= n
  <2>. HIDE DEF required, limit
  <2>1. {Abs(change), limit} \union required \subseteq Nat
    BY <1>3, <1>4
  <2>. QED  BY <2>1, MinOfNats
<1>. HIDE DEF size
<1>7. size <= limit /\ \A r \in Requires[<<port, item>>] : size <= amount[<<port, r>>]
  BY <1>6
<1>. QED  BY <1>5, <1>6, <1>7

(* So does one item of a port's update: what is made fits in, and what is  *)
(* used up, of the item or of what it requires, was there.                 *)
LEMMA UpdateItemStep ==
  ASSUME GoodsInv, UpdateItem
  PROVE  GoodsInv'
<1>. USE DEF GoodsInv, TypeOK
<1>. DEFINE item == Stock[Updating][nextItem]
            cargo == <<Updating, item>>
            daily == DailyChange[cargo]
            change == Clip(Updating, item, Change(daily, iteration))
            made(c) == IF c = cargo THEN change ELSE 0
            used(c) == IF c[1] = Updating /\ c[2] \in Requires[cargo] THEN Abs(change) ELSE 0
<1>1. /\ nextItem <= Len(Stock[Updating])
      /\ amount' = IF daily = 0 THEN amount
                   ELSE [c \in Cargos |-> amount[c] + made(c) - used(c)]
      /\ nextItem' = nextItem + 1
      /\ UNCHANGED <<navVars, hold, credits, iteration, updated, failed>>
  BY DEF UpdateItem
<1>2. Updating \in Ports /\ Stock[Updating] \in Seq(Items)
  BY UpdatingType
<1>3. nextItem \in 1..Len(Stock[Updating])
  BY <1>1, <1>2 DEF Updating
<1>4. item \in Items /\ item \in Sold(Updating)
  BY <1>2, <1>3, ElementOfSeq DEF Sold, ToSet
<1>5. cargo \in Cargos
  BY <1>2, <1>4, CargoOf
<1>. HIDE DEF item
<1>6. \A c \in Cargos : amount[c] \in 0..MaxStock[c] /\ MaxStock[c] \in Nat
  BY StockAssumption DEF StockInBounds
<1>7. \A r \in Requires[cargo] : <<Updating, r>> \in Cargos /\ <<Updating, r>> # cargo
  BY <1>2, <1>5, StockAssumption, CargoOf
<1>8. Change(daily, iteration) \in Int
  BY <1>5, StockAssumption, UpdateAssumption, ChangeInt
<1>9. PICK size \in Nat :
        /\ Change(daily, iteration) < 0 => change = -size /\ size <= amount[cargo]
        /\ Change(daily, iteration) >= 0 => change = size /\ size <= MaxStock[cargo] - amount[cargo]
        /\ \A r \in Requires[cargo] : size <= amount[<<Updating, r>>]
  BY <1>2, <1>4, <1>5, <1>8, ClipSize
<1>10. change \in Int /\ Abs(change) = size
  BY <1>8, <1>9 DEF Abs
<1>11. /\ amount[cargo] + change \in 0..MaxStock[cargo]
       /\ ~ (cargo[1] = Updating /\ cargo[2] \in Requires[cargo])
  <2>1. amount[cargo] + change \in 0..MaxStock[cargo]
    BY <1>5, <1>6, <1>8, <1>9
  <2>2. item \notin Requires[cargo]
    BY <1>7
  <2>. QED  BY <2>1, <2>2
<1>. HIDE DEF change
<1>12. ASSUME NEW c \in Cargos
       PROVE  amount[c] + made(c) - used(c) \in 0..MaxStock[c]
  <2>1. CASE c = cargo
    BY <2>1, <1>10, <1>11
  <2>2. CASE c # cargo /\ c[1] = Updating /\ c[2] \in Requires[cargo]
    <3>1. c = <<Updating, c[2]>>
      BY <2>2 DEF Cargos
    <3>2. size <= amount[c]
      BY <2>2, <3>1, <1>9
    <3>. QED  BY <2>2, <3>2, <1>6, <1>10
  <2>3. CASE c # cargo /\ ~ (c[1] = Updating /\ c[2] \in Requires[cargo])
    BY <2>3, <1>6
  <2>. QED  BY <2>1, <2>2, <2>3
<1>. HIDE DEF made, used
<1>13. amount' \in [Cargos -> Int] /\ StockInBounds'
  <2>1. CASE daily = 0
    BY <2>1, <1>1 DEF StockInBounds
  <2>2. CASE daily # 0
    <3>1. amount' = [c \in Cargos |-> amount[c] + made(c) - used(c)]
      BY <2>2, <1>1
    <3>2. \A c \in Cargos : amount'[c] \in 0..MaxStock[c]
      BY <3>1, <1>12
    <3>3. amount' \in [Cargos -> Int]
      BY <3>1, <3>2, <1>6
    <3>. QED  BY <3>2, <3>3 DEF StockInBounds
  <2>. QED  BY <2>1, <2>2
<1>14. NavTypeOK'
  BY <1>1 DEF NavTypeOK, navVars
<1>15. nextItem' \in 1..Len(Stock[PortList[updated' + 1]]) + 1
  BY <1>1, <1>2, <1>3 DEF Updating
<1>. QED  BY <1>1, <1>13, <1>14, <1>15

(* Counted from 0, and counted from 1.                                     *)
LEMMA PlaceInList ==
  ASSUME NEW n \in Nat, NEW i \in 0..n - 1
  PROVE  i + 1 \in 1..n
OBVIOUS

(* The next port to update is one of the list, and its update starts at    *)
(* its first item.                                                         *)
LEMMA UpdateDoneStep ==
  ASSUME GoodsInv, UpdateDone
  PROVE  GoodsInv'
<1>. USE DEF GoodsInv, TypeOK
<1>1. /\ nextItem' = 1
      /\ \/ updated' = 0 /\ iteration' = (iteration + 1) % Fraction
         \/ /\ updated + 1 # Len(PortList)
            /\ updated' = updated + 1 /\ iteration' = iteration
      /\ UNCHANGED <<navVars, goodsVars, failed>>
  BY DEF UpdateDone
<1>2. Len(PortList) \in Nat \ {0}
  BY UpdateAssumption
<1>3. updated' \in 0..Len(PortList) - 1
  BY <1>1, <1>2
<1>4. iteration' \in 0..Fraction - 1
  BY <1>1, UpdateAssumption
<1>5. Stock[PortList[updated' + 1]] \in Seq(Items)
  <2>1. updated' + 1 \in 1..Len(PortList)
    BY <1>2, <1>3, PlaceInList
  <2>2. PortList[updated' + 1] \in Ports
    BY <2>1, UpdateAssumption, ElementOfSeq
  <2>. QED  BY <2>2, StockAssumption
<1>6. nextItem' \in 1..Len(Stock[PortList[updated' + 1]]) + 1
  BY <1>1, <1>5
<1>7. NavTypeOK' /\ StockInBounds'
  BY <1>1 DEF NavTypeOK, navVars, goodsVars, StockInBounds
<1>. QED  BY <1>1, <1>3, <1>4, <1>6, <1>7 DEF goodsVars

(* Players come without debts and leave with an empty hold.                *)
LEMMA MoveStep ==
  ASSUME GoodsInv, CliInv, NEW p \in Players, Arrive(p) \/ Depart(p) \/ Move(p)
  PROVE  GoodsInv' /\ CliInv'
<1>. USE DEF GoodsInv, TypeOK
<1>1. NavTypeOK' /\ CliInv'
  BY NavStep DEF Arrive, Depart, Move
<1>2. UNCHANGED <<amount, iteration, updated, nextItem, failed>>
  BY DEF Arrive, Depart, Move, goodsVars, updaterVars
<1>3. StockInBounds'
  BY <1>2 DEF StockInBounds
<1>4. credits' \in [Players -> Int] /\ \A o \in Players : credits'[o] >= 0
  <2>1. \/ credits' = [credits EXCEPT ![p] = StartCredits]
        \/ credits' = [credits EXCEPT ![p] = 0]
        \/ credits' = credits
    BY DEF Arrive, Depart, Move, goodsVars
  <2>2. StartCredits \in Nat
    BY ItemsAssumption
  <2>. QED  BY <2>1, <2>2
<1>5. Empty \in [{} -> Nat]
  BY DEF Empty
<1>6. DOMAIN hold' = Players /\ \A o \in Players : \E S \in SUBSET Items : hold'[o] \in [S -> Nat]
  <2>1. CASE hold' = hold
    BY <2>1
  <2>2. CASE hold' = [hold EXCEPT ![p] = Empty]
    <3>1. ASSUME NEW o \in Players
          PROVE  \E S \in SUBSET Items : hold'[o] \in [S -> Nat]
      <4>1. CASE o = p
        BY <4>1, <2>2, <1>5
      <4>2. CASE o # p
        BY <4>2, <2>2
      <4>. QED  BY <4>1, <4>2
    <3>. QED  BY <3>1, <2>2
  <2>. QED  BY <2>1, <2>2 DEF Arrive, Depart, Move, goodsVars
<1>. QED  BY <1>1, <1>2, <1>3, <1>4, <1>6

(* At first every port is stocked, and nobody is there.                    *)
LEMMA InitInv ==
  ASSUME Init
  PROVE  GoodsInv /\ CliInv
<1>1. NavTypeOK /\ CliInv
  BY PlacesAssumption DEF Init, NavInit, NavTypeOK, CliInv, Online
<1>2. StockInBounds /\ amount \in [Cargos -> Int]
  <2>1. PICK a \in [Cargos -> UNION {0..MaxStock[c] : c \in Cargos}] :
             amount = a /\ \A c \in Cargos : a[c] <= MaxStock[c]
    BY DEF Init
  <2>2. \A c \in Cargos : a[c] \in Nat
    BY <2>1, StockAssumption
  <2>3. amount \in [Cargos -> Nat]
    BY <2>1, <2>2
  <2>. QED  BY <2>1, <2>2, <2>3, StockAssumption DEF StockInBounds
<1>3. hold = [p \in Players |-> Empty] /\ Empty \in [{} -> Nat]
  BY DEF Init, Empty
<1>4. DOMAIN hold = Players /\ \A p \in Players : \E S \in SUBSET Items : hold[p] \in [S -> Nat]
  BY <1>3
<1>5. credits \in [Players -> Int] /\ \A p \in Players : credits[p] >= 0
  BY DEF Init
<1>6. iteration \in 0..Fraction - 1 /\ updated \in 0..Len(PortList) - 1
  <2>1. Len(PortList) \in Nat \ {0}
    BY UpdateAssumption
  <2>. QED  BY <2>1, UpdateAssumption DEF Init
<1>7. nextItem \in 1..Len(Stock[PortList[updated + 1]]) + 1
  <2>1. PortList[1] \in Ports
    BY UpdateAssumption, ElementOfSeq
  <2>2. Stock[PortList[1]] \in Seq(Items)
    BY <2>1, StockAssumption
  <2>. QED  BY <2>2 DEF Init
<1>8. failed \in BOOLEAN
  BY DEF Init
<1>. QED  BY <1>1, <1>2, <1>4, <1>5, <1>6, <1>7, <1>8 DEF GoodsInv, TypeOK

(* One step of players or of the port update thread keeps both invariants. *)
LEMMA NextInv ==
  ASSUME GoodsInv, CliInv, [Next]_vars
  PROVE  GoodsInv' /\ CliInv'
<1>1. ASSUME NEW p \in Players, Arrive(p) \/ Depart(p) \/ Move(p)
      PROVE  GoodsInv' /\ CliInv'
  BY <1>1, MoveStep
<1>2. ASSUME NEW p \in Players, Buy(p)
      PROVE  GoodsInv' /\ CliInv'
  BY <1>2, BuyStep, CliUndisturbed DEF Buy
<1>3. ASSUME NEW p \in Players, Sell(p)
      PROVE  GoodsInv' /\ CliInv'
  BY <1>3, SellStep, CliUndisturbed DEF Sell
<1>4. ASSUME NEW p \in Players, SellFails(p)
      PROVE  GoodsInv' /\ CliInv'
  <2>1. UNCHANGED <<navVars, goodsVars, updaterVars>> /\ failed' = TRUE
    BY <1>4 DEF SellFails
  <2>2. GoodsInv'
    BY <2>1 DEF GoodsInv, TypeOK, NavTypeOK, StockInBounds, navVars, goodsVars, updaterVars
  <2>. QED  BY <2>1, <2>2, CliUndisturbed
<1>5. CASE UpdateItem
  BY <1>5, UpdateItemStep, CliUndisturbed DEF UpdateItem
<1>6. CASE UpdateDone
  BY <1>6, UpdateDoneStep, CliUndisturbed DEF UpdateDone
<1>7. CASE UNCHANGED vars
  <2>1. UNCHANGED <<navVars, goodsVars, updaterVars, failed>>
    BY <1>7 DEF vars
  <2>2. GoodsInv'
    BY <2>1 DEF GoodsInv, TypeOK, NavTypeOK, StockInBounds, navVars, goodsVars, updaterVars
  <2>. QED  BY <2>1, <2>2, CliUndisturbed
<1>. QED  BY <1>1, <1>2, <1>3, <1>4, <1>5, <1>6, <1>7 DEF Next

(* Both hold at all times.                                                 *)
LEMMA InvAlways == Spec => [](GoodsInv /\ CliInv)
BY InitInv, NextInv, PTL DEF Spec

-----------------------------------------------------------------------------
(* For any universe: a command that a player can type is one whose handler *)
(* accepts the place the ship is at, however it got there.                 *)
THEOREM CommandsFitAlways == Spec => []CommandsFit
<1>1. GoodsInv /\ CliInv => CommandsFit
  <2>. SUFFICES ASSUME GoodsInv, CliInv, NEW p \in Online
                PROVE  /\ pos[p] \in PlacesOf(postype[p])
                       /\ \A n \in DOMAIN cli[p] : Asserted(cli[p][n], postype[p])
    BY DEF CommandsFit
  <2>1. postype[p] \in PlaceTypes
    BY DEF GoodsInv, TypeOK, NavTypeOK, Online, PlaceTypes
  <2>. QED  BY <2>1, LocalFits DEF CliInv
<1>. QED  BY <1>1, InvAlways, PTL

(* For any ports, items, requirements and daily changes: trade and the     *)
(* port update thread together keep every stock within its bounds.         *)
THEOREM StockBounded == Spec => []StockInBounds
<1>1. GoodsInv => StockInBounds
  BY DEF GoodsInv
<1>. QED  BY <1>1, InvAlways, PTL

(* The state of the game is of the right types at all times.               *)
THEOREM TypeCorrect == Spec => []TypeOK
<1>1. GoodsInv => TypeOK
  BY DEF GoodsInv
<1>. QED  BY <1>1, InvAlways, PTL

-----------------------------------------------------------------------------
(* One more of a thing costs its price more.                               *)
LEMMA Distribute ==
  ASSUME NEW a \in Int, NEW b \in Int, NEW price \in Int
  PROVE  /\ (a + b) * price = a * price + b * price
         /\ (a - b) * price = a * price - b * price
         /\ a * price \in Int
OBVIOUS

(* What goods are worth is a whole number.                                 *)
LEMMA ValueInt ==
  ASSUME NEW T \in SUBSET Items, NEW goods \in [T -> Nat]
  PROVE  /\ [i \in DOMAIN goods |-> goods[i] * Price[i]] \in [T -> Int]
         /\ IsFiniteSet(T)
         /\ Value(goods) \in Int
<1>. DEFINE worth == [i \in DOMAIN goods |-> goods[i] * Price[i]]
<1>1. \A i \in T : goods[i] \in Int /\ Price[i] \in Int
  BY ItemsAssumption
<1>2. \A i \in T : goods[i] * Price[i] \in Int
  BY <1>1, Distribute
<1>3. worth \in [T -> Int]
  BY <1>2
<1>4. IsFiniteSet(T)
  BY FiniteAssumption, FS_Subset
<1>5. DOMAIN worth = T /\ \A i \in T : worth[i] \in Int
  BY <1>3
<1>6. Value(goods) = SumFunctionOnSet(worth, T)
  BY <1>5 DEF Value, SumFunction
<1>. HIDE DEF worth
<1>7. Value(goods) \in Int
  BY <1>4, <1>5, <1>6, SumRemove
<1>. QED  BY <1>3, <1>4, <1>7 DEF worth

(* Goods that come in are worth what they cost,                            *)
LEMMA ValueMore ==
  ASSUME NEW T \in SUBSET Items, NEW goods \in [T -> Nat], NEW item \in Items, NEW n \in Nat
  PROVE  Value(AddToHold(goods, item, n))
           = Value(goods) + n * Price[item]
<1>. DEFINE more == AddToHold(goods, item, n)
            f == [i \in DOMAIN goods |-> goods[i] * Price[i]]
            g == [i \in DOMAIN more |-> more[i] * Price[i]]
<1>1. Held(goods, item) \in Nat
  BY DEF Held
<1>2. more \in [T \union {item} -> Nat]
  BY <1>1 DEF AddToHold, Override
<1>3. more[item] = Held(goods, item) + n /\ \A i \in T \ {item} : more[i] = goods[i]
  BY DEF AddToHold, Override
<1>4. Price[item] \in Int
  BY ItemsAssumption
<1>. HIDE DEF more
<1>5. IsFiniteSet(T) /\ f \in [T -> Int] /\ g \in [T \union {item} -> Int] /\ Value(goods) \in Int
  BY <1>2, ValueInt
<1>6. \A i \in T \ {item} : f[i] = g[i]
  BY <1>2, <1>3
<1>7. g[item] = (Held(goods, item) + n) * Price[item]
  BY <1>2, <1>3
<1>8. (Held(goods, item) + n) * Price[item] = Held(goods, item) * Price[item] + n * Price[item]
  BY <1>1, <1>4, Distribute
<1>9. n * Price[item] \in Int
  BY <1>4, Distribute
<1>10. CASE item \in T
  <2>1. f[item] = Held(goods, item) * Price[item] /\ T \union {item} = T
    BY <1>10 DEF Held
  <2>2. f[item] \in Int
    BY <1>5, <1>10
  <2>. HIDE DEF f, g
  <2>3. SumFunction(g) = SumFunction(f) + g[item] - f[item]
    BY <1>5, <1>6, <1>10, <2>1, SumChange
  <2>4. SumFunction(g) = SumFunction(f) + n * Price[item]
    <3>1. SumFunction(f) \in Int
      BY <1>5 DEF Value, f
    <3>. QED  BY <1>7, <1>8, <1>9, <2>1, <2>2, <2>3, <3>1
  <2>. QED  BY <2>4 DEF Value, more, f, g
<1>11. CASE item \notin T
  <2>1. Held(goods, item) = 0
    BY <1>11 DEF Held
  <2>. HIDE DEF f, g
  <2>2. SumFunction(g) = SumFunction(f) + g[item]
    BY <1>5, <1>6, <1>11, SumAdd
  <2>3. g[item] = n * Price[item]
    BY <1>7, <2>1
  <2>. QED  BY <2>2, <2>3 DEF Value, more, f, g
<1>. QED  BY <1>10, <1>11

(* and goods that go, what they bring.                                     *)
LEMMA ValueLess ==
  ASSUME NEW T \in SUBSET Items, NEW goods \in [T -> Nat], NEW item \in T, NEW n \in Nat,
         n <= goods[item]
  PROVE  Value(TakeFromHold(goods, item, n)) = Value(goods) - n * Price[item]
<1>. DEFINE U == T \ (IF n = goods[item] THEN {item} ELSE {})
            less == TakeFromHold(goods, item, n)
            f == [i \in DOMAIN goods |-> goods[i] * Price[i]]
            g == [i \in DOMAIN less |-> less[i] * Price[i]]
<1>1. /\ U \in SUBSET Items /\ less \in [U -> Nat]
      /\ \A i \in U : less[i] = IF i = item THEN goods[i] - n ELSE goods[i]
  BY DEF TakeFromHold
<1>. HIDE DEF less
<1>2. Price[item] \in Int /\ goods[item] \in Int
  BY ItemsAssumption
<1>3. /\ IsFiniteSet(T) /\ IsFiniteSet(U) /\ f \in [T -> Int] /\ g \in [U -> Int]
      /\ Value(goods) \in Int /\ Value(less) \in Int
  <2>1. IsFiniteSet(T) /\ f \in [T -> Int] /\ Value(goods) \in Int
    BY ValueInt
  <2>. HIDE DEF U
  <2>2. IsFiniteSet(U) /\ g \in [U -> Int] /\ Value(less) \in Int
    BY <1>1, ValueInt
  <2>. QED  BY <2>1, <2>2
<1>4. f[item] = goods[item] * Price[item] /\ \A i \in U \ {item} : f[i] = g[i]
  BY <1>1
<1>5. n * Price[item] \in Int /\ f[item] \in Int
  BY <1>2, <1>3, Distribute
<1>6. CASE n = goods[item]
  <2>1. U = T \ {item} /\ item \notin U /\ T = U \union {item}
    BY <1>6
  <2>2. \A i \in U : g[i] = f[i]
    BY <1>4, <2>1
  <2>3. f[item] = n * Price[item]
    BY <1>4, <1>6
  <2>. HIDE DEF f, g, U
  <2>4. SumFunction(f) = SumFunction(g) + f[item]
    BY <1>3, <2>1, <2>2, SumAdd
  <2>5. SumFunction(f) = Value(goods) /\ SumFunction(g) = Value(less)
    BY DEF f, g, Value
  <2>. QED  BY <1>3, <1>5, <2>3, <2>4, <2>5 DEF less
<1>7. CASE n # goods[item]
  <2>1. U = T
    BY <1>7
  <2>2. g[item] = (goods[item] - n) * Price[item]
    BY <1>1, <2>1
  <2>3. g[item] = f[item] - n * Price[item]
    <3>. HIDE DEF f, g
    <3>. QED  BY <1>2, <1>4, <2>2, Distribute
  <2>. HIDE DEF f, g, U
  <2>4. SumFunction(g) = SumFunction(f) + g[item] - f[item]
    BY <1>3, <1>4, <2>1, SumChange
  <2>5. SumFunction(f) = Value(goods) /\ SumFunction(g) = Value(less)
    BY DEF f, g, Value
  <2>. QED  BY <1>3, <1>5, <2>3, <2>4, <2>5 DEF less
<1>. QED  BY <1>6, <1>7 DEF less

(* Nothing is worth nothing.                                               *)
LEMMA ValueEmpty == Value(Empty) = 0
<1>. DEFINE f == [i \in DOMAIN Empty |-> Empty[i] * Price[i]]
<1>1. DOMAIN f = {}
  BY DEF Empty
<1>. HIDE DEF f
<1>2. SumFunction(f) = SumFunctionOnSet(f, {})
  BY <1>1 DEF SumFunction
<1>3. SumFunctionOnSet(f, {}) = 0
  BY SumIs, FS_EmptySet
<1>. QED  BY <1>2, <1>3 DEF Value, f

(* No step makes a player richer or poorer.                                *)
LEMMA WealthStep ==
  ASSUME GoodsInv, CliInv, WealthInv, [Next]_vars
  PROVE  WealthInv'
<1>1. \A p \in Players : \E T \in SUBSET Items : hold[p] \in [T -> Nat]
  BY DEF GoodsInv, TypeOK
<1>2. /\ DOMAIN hold = Players /\ credits \in [Players -> Int]
      /\ \A p \in Players : credits[p] >= 0
      /\ postype \in [Players -> PlaceTypes \union {"NONE"}]
  BY DEF GoodsInv, TypeOK, NavTypeOK, PlaceTypes
<1>3. \A p \in Players : credits'[p] >= 0
  BY NextInv DEF GoodsInv
<1>4. ASSUME NEW p \in Players, UNCHANGED navVars,
             \A o \in Players \ {p} : hold'[o] = hold[o] /\ credits'[o] = credits[o],
             hold'[p] = hold[p] \/ p \in Online,
             credits'[p] + Value(hold'[p]) = credits[p] + Value(hold[p])
      PROVE  WealthInv'
  <2>1. Online' = Online
    BY <1>4 DEF navVars, Online
  <2>2. ASSUME NEW o \in Online
        PROVE  credits'[o] + Value(hold'[o]) = StartCredits
    BY <1>4, <2>2 DEF WealthInv, WealthKept, Online
  <2>3. \A o \in Players \ Online : hold'[o] = Empty
    BY <1>4 DEF WealthInv
  <2>4. \A o \in Online : o \in Players
    BY DEF Online
  <2>. QED  BY <1>3, <2>1, <2>2, <2>3, <2>4 DEF WealthInv, WealthKept
<1>5. ASSUME UNCHANGED <<navVars, hold, credits>>
      PROVE  WealthInv'
  BY <1>5 DEF WealthInv, WealthKept, Online, navVars
<1>6. ASSUME NEW p \in Players, Buy(p)
      PROVE  WealthInv'
  <2>1. PICK item \in Items, moved \in Nat : Bought(p, item, moved)
    BY <1>6, BuyMeans
  <2>. USE DEF Bought
  <2>2. PICK T \in SUBSET Items : hold[p] \in [T -> Nat]
    BY <1>1
  <2>3. /\ hold'[p] = AddToHold(hold[p], item, moved)
        /\ credits'[p] = credits[p] - moved * Price[item]
        /\ \A o \in Players \ {p} : hold'[o] = hold[o] /\ credits'[o] = credits[o]
    BY <1>2, <2>1
  <2>4. Value(hold'[p]) = Value(hold[p]) + moved * Price[item]
    BY <2>2, <2>3, ValueMore
  <2>5. Value(hold[p]) \in Int
    BY <2>2, ValueInt
  <2>6. credits'[p] + Value(hold'[p]) = credits[p] + Value(hold[p])
    BY <1>2, <2>1, <2>3, <2>4, <2>5
  <2>7. p \in Online
    BY <1>6, OfferedThere DEF Buy, GoodsInv, TypeOK
  <2>. QED  BY <1>4, <2>1, <2>3, <2>6, <2>7
<1>7. ASSUME NEW p \in Players, Sell(p)
      PROVE  WealthInv'
  <2>1. PICK item \in DOMAIN hold[p], moved \in Nat : SoldOff(p, item, moved)
    BY <1>7, SellMeans
  <2>. USE DEF SoldOff
  <2>2. PICK T \in SUBSET Items : hold[p] \in [T -> Nat]
    BY <1>1
  <2>3. /\ hold'[p] = TakeFromHold(hold[p], item, moved)
        /\ credits'[p] = credits[p] + moved * Price[item]
        /\ \A o \in Players \ {p} : hold'[o] = hold[o] /\ credits'[o] = credits[o]
    BY <1>2, <2>1
  <2>4. DOMAIN hold[p] = T /\ item \in T
    BY <2>1, <2>2
  <2>5. Value(hold'[p]) = Value(hold[p]) - moved * Price[item]
    BY <2>1, <2>2, <2>3, <2>4, ValueLess
  <2>6. Value(hold[p]) \in Int
    BY <2>2, ValueInt
  <2>7. moved * Price[item] \in Int
    <3>1. moved \in Int /\ Price[item] \in Int
      BY <2>1, <2>4, ItemsAssumption
    <3>. QED  BY <3>1, Distribute
  <2>8. credits'[p] + Value(hold'[p]) = credits[p] + Value(hold[p])
    BY <1>2, <2>3, <2>5, <2>6, <2>7
  <2>9. p \in Online
    BY <1>7, OfferedThere DEF Sell, GoodsInv, TypeOK
  <2>. QED  BY <1>4, <2>1, <2>3, <2>8, <2>9
<1>8. ASSUME NEW p \in Players, Arrive(p)
      PROVE  WealthInv'
  <2>1. /\ credits' = [credits EXCEPT ![p] = StartCredits] /\ hold' = hold
        /\ p \notin Online /\ postype' = [postype EXCEPT ![p] = "SYSTEM"]
    BY <1>8 DEF Arrive, Login, PlayerGo
  <2>2. Online' = Online \union {p}
    BY <1>2, <2>1 DEF Online
  <2>3. credits'[p] + Value(hold'[p]) = StartCredits
    BY <1>2, <2>1, ValueEmpty, ItemsAssumption DEF WealthInv
  <2>4. \A o \in Online : o \in Players /\ o # p /\ credits'[o] = credits[o]
    BY <1>2, <2>1 DEF Online
  <2>. QED  BY <1>3, <2>1, <2>2, <2>3, <2>4 DEF WealthInv, WealthKept
<1>9. ASSUME NEW p \in Players, Depart(p)
      PROVE  WealthInv'
  <2>1. /\ credits' = [credits EXCEPT ![p] = 0] /\ hold' = [hold EXCEPT ![p] = Empty]
        /\ postype' = [postype EXCEPT ![p] = "NONE"]
    BY <1>9 DEF Depart, Logout
  <2>2. Online' = Online \ {p}
    BY <1>2, <2>1 DEF Online
  <2>3. \A o \in Players \ {p} : credits'[o] = credits[o] /\ hold'[o] = hold[o]
    BY <1>2, <2>1
  <2>4. \A o \in Online' : o \in Online /\ o \in Players \ {p}
    BY <2>2 DEF Online
  <2>5. \A o \in Players \ Online' : hold'[o] = Empty
    BY <1>2, <2>1, <2>2, <2>3 DEF WealthInv
  <2>. QED  BY <1>3, <2>3, <2>4, <2>5 DEF WealthInv, WealthKept
<1>10. ASSUME NEW p \in Players, Move(p)
       PROVE  WealthInv'
  <2>1. UNCHANGED <<hold, credits>>
    BY <1>10 DEF Move, goodsVars
  <2>2. Online' = Online
    <3>1. PICK type \in PlaceTypes : postype' = [postype EXCEPT ![p] = type]
      BY <1>10 DEF Move, Travel, PlayerGo, Hyper, Jump, Dock, Orbit, LeavePort, LeavePlanet,
                   PlaceTypes
    <3>2. p \in Online
      BY <1>10, OfferedThere DEF Move, Travel, Hyper, Jump, Dock, Orbit, LeavePort, LeavePlanet,
                                 GoodsInv, TypeOK
    <3>3. type # "NONE"
      BY DEF PlaceTypes
    <3>. QED  BY <1>2, <3>1, <3>2, <3>3 DEF Online
  <2>. QED  BY <2>1, <2>2 DEF WealthInv, WealthKept
<1>11. ASSUME NEW p \in Players, SellFails(p)
       PROVE  WealthInv'
  BY <1>5, <1>11 DEF SellFails, goodsVars
<1>12. CASE UpdateItem
  BY <1>5, <1>12 DEF UpdateItem
<1>13. CASE UpdateDone
  BY <1>5, <1>13 DEF UpdateDone, goodsVars
<1>14. CASE UNCHANGED vars
  BY <1>5, <1>14 DEF vars, goodsVars
<1>. QED  BY <1>6, <1>7, <1>8, <1>9, <1>10, <1>11, <1>12, <1>13, <1>14 DEF Next

(* For any items and prices, and any number of players: what a player has  *)
(* in credits and in goods is together what it came with, and no player is *)
(* ever in debt, whatever is traded where, in whatever order.              *)
THEOREM WealthKeptAlways == Spec => []WealthKept
<1>1. Init => WealthInv
  BY DEF Init, NavInit, WealthInv, WealthKept, Online
<1>2. WealthInv => WealthKept
  BY DEF WealthInv
<1>. QED  BY <1>1, <1>2, WealthStep, InvAlways, PTL DEF Spec

-----------------------------------------------------------------------------
(* There are finitely many cargos.                                         *)
LEMMA CargosFinite == IsFiniteSet(Cargos)
<1>1. IsFiniteSet(Ports \X Items)
  BY FiniteAssumption, FS_Product
<1>2. Cargos \in SUBSET (Ports \X Items)
  BY DEF Cargos
<1>. QED  BY <1>1, <1>2, FS_Subset

(* A hold that takes goods in has so much more of this item only,          *)
LEMMA HeldMore ==
  ASSUME NEW T \in SUBSET Items, NEW goods \in [T -> Nat], NEW item \in Items, NEW n \in Nat,
         NEW i \in Items
  PROVE  Held(AddToHold(goods, item, n), i)
           = Held(goods, i) + (IF i = item THEN n ELSE 0)
<1>1. Held(goods, i) \in Nat /\ Held(goods, item) \in Nat
  BY DEF Held
<1>. DEFINE more == AddToHold(goods, item, n)
<1>2. DOMAIN more = T \union {item}
  BY DEF AddToHold, Override
<1>3. CASE i = item
  <2>1. more[i] = Held(goods, item) + n
    BY <1>3 DEF AddToHold, Override
  <2>. HIDE DEF more
  <2>2. Held(more, i) = more[i]
    BY <1>2, <1>3 DEF Held
  <2>. QED  BY <1>3, <2>1, <2>2 DEF more
<1>4. CASE i # item
  <2>1. i \in T => more[i] = goods[i]
    BY <1>4 DEF AddToHold, Override
  <2>. HIDE DEF more
  <2>2. Held(more, i) = Held(goods, i)
    BY <1>2, <1>4, <2>1 DEF Held
  <2>. QED  BY <1>1, <1>4, <2>2 DEF more
<1>. QED  BY <1>3, <1>4

(* and one that gives goods away so much less.                             *)
LEMMA HeldLess ==
  ASSUME NEW T \in SUBSET Items, NEW goods \in [T -> Nat], NEW item \in T, NEW n \in Nat,
         NEW i \in Items
  PROVE  Held(TakeFromHold(goods, item, n), i)
           = Held(goods, i) - (IF i = item THEN n ELSE 0)
<1>1. Held(goods, i) \in Nat
  BY DEF Held
<1>2. CASE i = item
  BY <1>2 DEF Held, TakeFromHold
<1>3. CASE i # item
  <2>1. Held(TakeFromHold(goods, item, n), i) = Held(goods, i)
    BY <1>3 DEF Held, TakeFromHold
  <2>. QED  BY <1>1, <1>3, <2>1
<1>. QED  BY <1>2, <1>3

(* What one cargo loses and one hold gains, or the other way round, is     *)
(* still there.                                                            *)
LEMMA MovedIsKept ==
  ASSUME GoodsInv, GoodsInv', NEW c \in Cargos, NEW p \in Players, NEW n \in Int,
         amount' = [amount EXCEPT ![c] = @ - n],
         \A o \in Players \ {p} : hold'[o] = hold[o],
         \A j \in Items : Held(hold'[p], j) = Held(hold[p], j) + (IF j = c[2] THEN n ELSE 0),
         NEW i \in Items
  PROVE  Total(i)' = Total(i)
<1>1. /\ amount \in [Cargos -> Int] /\ amount' \in [Cargos -> Int]
      /\ \A o \in Players : \E S \in SUBSET Items : hold[o] \in [S -> Nat]
      /\ \A o \in Players : \E S \in SUBSET Items : hold'[o] \in [S -> Nat]
  BY DEF GoodsInv, TypeOK
<1>2. \A o \in Players : Held(hold[o], i) \in Int /\ Held(hold'[o], i) \in Int
  BY <1>1 DEF Held
<1>. DEFINE f == InPorts(i)
            g == InPorts(i)'
            h == InShips(i)
            k == InShips(i)'
<1>3. /\ f \in [Cargos -> Int] /\ g \in [Cargos -> Int]
      /\ \A d \in Cargos \ {c} : f[d] = g[d]
      /\ g[c] = IF c[2] = i THEN f[c] - n ELSE f[c]
  BY <1>1 DEF InPorts
<1>4. /\ h \in [Players -> Int] /\ k \in [Players -> Int]
      /\ \A o \in Players \ {p} : h[o] = k[o]
      /\ k[p] = h[p] + (IF i = c[2] THEN n ELSE 0)
  BY <1>2 DEF InShips
<1>5. Total(i) = SumFunction(f) + SumFunction(h) /\ Total(i)' = SumFunction(g) + SumFunction(k)
  BY DEF Total
<1>. HIDE DEF f, g, h, k
<1>6. SumFunction(g) = SumFunction(f) + g[c] - f[c]
  BY <1>3, CargosFinite, SumChange
<1>7. SumFunction(k) = SumFunction(h) + k[p] - h[p]
  BY <1>4, FiniteAssumption, SumChange
<1>8. SumFunction(f) \in Int /\ SumFunction(h) \in Int
  <2>1. DOMAIN f = Cargos /\ DOMAIN h = Players
    BY <1>3, <1>4
  <2>. QED  BY <1>3, <1>4, <2>1, CargosFinite, FiniteAssumption, SumRemove DEF SumFunction
<1>9. f[c] \in Int /\ h[p] \in Int
  BY <1>3, <1>4
<1>. QED  BY <1>3, <1>4, <1>5, <1>6, <1>7, <1>8, <1>9

(* So it is with a purchase, *)
LEMMA BuyKeepsGoods ==
  ASSUME GoodsInv, GoodsInv', CliInv, NEW p \in Players, Buy(p), NEW i \in Items
  PROVE  Total(i)' = Total(i)
<1>1. /\ DOMAIN hold = Players
      /\ \A o \in Players : \E S \in SUBSET Items : hold[o] \in [S -> Nat]
  BY DEF GoodsInv, TypeOK
<1>2. PICK item \in Items, moved \in Nat : Bought(p, item, moved)
  BY BuyMeans
<1>. USE DEF Bought
<1>3. PICK T \in SUBSET Items : hold[p] \in [T -> Nat]
  BY <1>1
<1>4. /\ hold'[p] = AddToHold(hold[p], item, moved)
      /\ \A o \in Players \ {p} : hold'[o] = hold[o]
  BY <1>1, <1>2
<1>5. ASSUME NEW j \in Items
      PROVE  Held(hold'[p], j) = Held(hold[p], j) + (IF j = item THEN moved ELSE 0)
  BY <1>3, <1>4, HeldMore
<1>. DEFINE c == <<pos[p], item>>
<1>6. c \in Cargos /\ c[2] = item /\ moved \in Int /\ amount' = [amount EXCEPT ![c] = @ - moved]
  BY <1>2
<1>. HIDE DEF c
<1>. QED  BY <1>4, <1>5, <1>6, MovedIsKept

(* and with a sale.                                                        *)
LEMMA SellKeepsGoods ==
  ASSUME GoodsInv, GoodsInv', CliInv, NEW p \in Players, Sell(p), NEW i \in Items
  PROVE  Total(i)' = Total(i)
<1>1. /\ DOMAIN hold = Players
      /\ \A o \in Players : \E S \in SUBSET Items : hold[o] \in [S -> Nat]
  BY DEF GoodsInv, TypeOK
<1>2. PICK item \in DOMAIN hold[p], moved \in Nat : SoldOff(p, item, moved)
  BY SellMeans
<1>. USE DEF SoldOff
<1>3. PICK T \in SUBSET Items : hold[p] \in [T -> Nat]
  BY <1>1
<1>4. /\ hold'[p] = TakeFromHold(hold[p], item, moved)
      /\ \A o \in Players \ {p} : hold'[o] = hold[o]
  BY <1>1, <1>2
<1>. DEFINE n == -moved
            c == <<pos[p], item>>
<1>5. \A j \in Items : Held(hold'[p], j) = Held(hold[p], j) - (IF j = item THEN moved ELSE 0)
  BY <1>2, <1>3, <1>4, HeldLess
<1>6. \A j \in Items : Held(hold'[p], j) = Held(hold[p], j) + (IF j = item THEN n ELSE 0)
  <2>1. \A j \in Items : Held(hold[p], j) \in Nat
    BY <1>3 DEF Held
  <2>. QED  BY <1>5, <2>1
<1>7. amount' = [amount EXCEPT ![c] = @ - n]
  <2>1. amount[c] \in Int
    BY <1>2 DEF GoodsInv, TypeOK
  <2>2. amount[c] + moved = amount[c] - n
    BY <2>1
  <2>. QED  BY <1>2, <2>2
<1>8. c \in Cargos /\ c[2] = item /\ n \in Int
  BY <1>2
<1>. HIDE DEF c, n
<1>. QED  BY <1>4, <1>6, <1>7, <1>8, MovedIsKept

(* For any items, ports and players: trade loses no goods and makes none;  *)
(* there is always as much of an item, in all ports and ships together, as *)
(* before, but for what ports produce and consume and players take along.  *)
THEOREM GoodsConservedAlways == Spec => GoodsConserved
<1>1. ASSUME GoodsInv, CliInv, Next, updaterVars' = updaterVars, Online \subseteq Online',
             NEW i \in Items
      PROVE  Total(i)' = Total(i)
  <2>. USE <1>1
  <2>1. GoodsInv'
    BY NextInv
  <2>2. /\ DOMAIN hold = Players
        /\ \A o \in Players : \E S \in SUBSET Items : hold[o] \in [S -> Nat]
    BY DEF GoodsInv, TypeOK
  <2>3. ASSUME UNCHANGED <<amount, hold>>
        PROVE  Total(i)' = Total(i)
    BY <2>3 DEF Total, InPorts, InShips
  <2>4. ASSUME NEW p \in Players, Buy(p)
        PROVE  Total(i)' = Total(i)
    BY <2>1, <2>4, BuyKeepsGoods
  <2>5. ASSUME NEW p \in Players, Sell(p)
        PROVE  Total(i)' = Total(i)
    BY <2>1, <2>5, SellKeepsGoods
  <2>6. ASSUME NEW p \in Players, Arrive(p) \/ Move(p) \/ SellFails(p)
        PROVE  Total(i)' = Total(i)
    BY <2>3, <2>6 DEF Arrive, Move, SellFails, goodsVars
  <2>7. ASSUME NEW p \in Players, Depart(p)
        PROVE  FALSE
    BY <2>7 DEF Depart, Logout, Online, GoodsInv, TypeOK, NavTypeOK
  <2>8. CASE UpdateItem
    BY <2>8 DEF UpdateItem, updaterVars, GoodsInv, TypeOK
  <2>9. CASE UpdateDone
    BY <2>3, <2>9 DEF UpdateDone, goodsVars
  <2>. QED  BY <2>4, <2>5, <2>6, <2>7, <2>8, <2>9 DEF Next
<1>2. GoodsInv /\ CliInv /\ [Next]_vars
        => [goodsVars' # goodsVars /\ updaterVars' = updaterVars /\ Online \subseteq Online'
              => \A i \in Items : Total(i)' = Total(i)]_vars
  BY <1>1
<1>. QED  BY <1>2, InvAlways, PTL DEF Spec, GoodsConserved
=============================================================================
