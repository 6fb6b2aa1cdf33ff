# Verification of yastg

TLA+ models of yastg (Yet Another Space Trading Game), TLC runs that check them
on small instances, and TLAPS proofs for every instance. Source references are
to the C files of the repository.

## 1. The system

yastg is one process. `main()` loads the configuration, generates the universe
and starts three threads besides itself; every player is a TCP connection.

| part | state | operations | talks to |
|---|---|---|---|
| event loop (`server.c`) | `conn_list`, watchers, `struct connection` | accept, receive a line, disconnect, wall, pause, resume, terminate | workers through `work_items`; console through a pipe |
| workers (`connection.c`) | `work_items`, `workers_lock`, per connection `worker`, `terminate`, `worker_lock` | take a connection, run its line, prompt | loop through `ev_async_send(kill_watcher)`; runs player commands |
| player commands (`player.c`, `ship.c`, `cli.c`) | command table, position, hold, credits | travel, buy, sell, look | string tries, port stock |
| port update (`port_update.c`) | iteration counter, amounts at the ports | one pass over all ports every 10 s | port stock, under `items_lock` |
| string trie (`stringtrie.c`) | tree of nodes | add, remove, look up (also a unique prefix), destroy | used by commands, cargos, names |
| console (`console.c`) | its own event loop | wall, pause, resume, quit | writes to the pipe of the loop |
| start and stop (`main.c`, `server.c`) | threads, pipe | start, wait for a signal, stop | all threads |
| universe (`universe.c`, `system.c`, `star.c`) | systems, links, a tree ordered by x | generation, neighbour search, `system_move` | civilisations, ports |
| civilisations, constellations (`civ.c`, `constellation.c`) | owners of systems | growth | universe |
| ports, planets (`port.c`, `planet.c`) | items, ports of a planet | generation | configuration, names |
| buffers (`buffer.c`) | bytes received of a line, bytes to be sent | read, terminate a line, print, write | loop and workers, without a lock |
| lists and trees (`ptrlist.c`, `list.h`, `rbtree.c`) | cells, nodes and their links | add, remove, walk, sort | universe, civilisations, planets |
| configuration (`loadconfig.c`, `item.c`, `*_type.c`) | item, ship, port and planet types, words for names | load each file in order, check | generation |
| names (`names.c`) | words, names taken | draw until unused | ports, constellations, players |
| log, modules, maps, random numbers | | | everything |

What is hard here, and what has to be true of it:

* **Loop against workers.** The loop frees a connection that workers may be
  about to use; two flags, two locks and the work list decide who may. One
  command at a time per connection, none started on a condemned one, no use of
  freed memory, no line and no wakeup lost, a shutdown that ends.
* **Loop against clients.** A client may answer before the worker has finished,
  or send lines without waiting.
* **Commands against port update.** Both change amounts of the same port;
  stocks stay in bounds and nothing is created by trading.
* **Tables that are edited for the life of a session.** The trie frees nodes as
  strings go; the command table is changed at every move.
* **Bytes.** Reads and writes of any length, a buffer that grows, and two threads
  that reset the same one. A line is executed whole, text arrives whole.
* **References by name.** Four files refer to each other; what is left after a
  mistake in one of them must still be something a universe can be made from.
* **Sequential algorithms on big data** (universe, containers, rounding of daily
  changes). A placement, a search and a growth that rely on each other's
  bookkeeping: the tree, owners, links, border lists, counters.

`PROJECT.json` lists each hazard at its line.

## 2. Modules

| module | models | checked by |
|---|---|---|
| `Sessions` | abstract: what the service promises one connection | refined by `Connections` |
| `Connections` | event loop and workers | `calm`, `messages`, `shutdown_race` |
| `ConnectionsProofs` | theorems about it, its steps as steps of `Sessions` among them | TLAPS |
| `Buffer` | `struct buffer` and what `buffer.c` does to one | through `PeerLines` |
| `PeerLines`, `MCPeerLines` | the bytes of one connection, extends `Buffer` | `buffers` |
| `PeerLinesProofs` | theorems about both | TLAPS |
| `Dictionary` | abstract: a table with completion of unique prefixes | refined by `StringTrie` |
| `StringTrie`, `MCStringTrie` | the trie | `containers`, `trie_husk` |
| `TrieProofs` | theorems about it, the refinement of `Dictionary` among them | TLAPS |
| `OrderedSet` | abstract: a set of positions that can be walked in order | refined by `SystemTree` |
| `SystemTree` | the red-black tree under the calls of `universe.c` | `containers` |
| `TreeProofs` | theorems about it, the refinement of `OrderedSet` among them | TLAPS |
| `PointerList` | abstract: a sequence with a stable sort | refined by `PtrList` |
| `PtrList` | `ptrlist.c` on the links of `list.h` | `containers` |
| `MCContainers` | composes the three containers | `containers` |
| `Navigation` | places, ships, command table | through `Trading` |
| `Trading`, `MCTrading` | trade and port update, extends `Navigation` | `trading` |
| `TradingProofs` | theorems about `Navigation` and `Trading` | TLAPS |
| `Lifecycle` | main(), console, server and port update thread; the pipe | `lifecycle`, `term_lost` |
| `LifecycleProofs` | theorems about it | TLAPS |
| `Universe` | systems, their placement, the tree by x, the neighbour search | through `Civilisations` |
| `Civilisations`, `MCCivilisations` | homes and growth, extends `Universe` | `universe`, `lost_system` |
| `CivilisationsProofs` | theorems about both | TLAPS |
| `Config` | the loading of the configuration | through `Genesis` |
| `Genesis`, `MCStartup` | planets, ports and names of a system, extends `Config` | `startup` |
| `StartupProofs` | theorems about both | TLAPS |

Definitions named after a bug (`MarkIgnoresWorker`, `ClipToOwnStock`, ...), with
a comment that begins "Bug:" or "Mutant:", are variants of the definition that follows them.
They are used by no specification: replacing a definition by its variant makes
one of the properties fail, which shows that the property can.

### Connections

A step ends where another thread can get in: a lock is taken, a flag is read, a
socket is written to.

* `status`, `terminate`, `worker`, `workerLock`, `recv` are fields of
  `struct connection`. `dataWatcher` and `killWatcher` say whether the libev
  watchers are started and whether `ev_async_send` was called.
* `workItems` and `workersLock` are `struct conn_data`. `pc`, `conn`,
  `wterminate` are the worker threads; `Take`, `Claim`, `CheckTerminate`,
  `Mark`, `Run`, `Prompt`, `Done` follow `connection_worker` from line 98 to
  138.
* `loopPc`, `loopConn`, `phase` are the loop. `disconnect_peer` is
  `Disconnect`, `Dequeue`, `Spin`, `Free`: the spin on `conn->worker` and the
  locking of `conn->worker_lock` are two steps because they are two in the code.
* `client` and `inbox` are the peer. A polite client sends one line per prompt;
  members of `Impatient` send as they like. `byLoop` is history: the connections
  the loop condemned by a failed send of its own, or closed at shutdown.

A line is "quit" or any other; a command's effect on the game is modelled in
`Trading`. Sends to members of `Flaky` may fail. The length check of a wall at
`server.c:271` is in `Wall`: it lets through the walls whose text and
terminator are as long as the packed header, six bytes.

Where the code would go on after corrupting memory the model does not: a worker
takes no step with a freed connection, and `DoWork` is not enabled for a
connection that is still on the list. `ShutdownCompletes` names both cases as
exceptions. Memory is sequentially consistent: the flags are plain or volatile
`int`s, and the build uses `-O0`.

### Buffer and PeerLines

`Buffer` has the arithmetic of `buffer.c` as operators on a record of the bytes
and their number in use, the size being the length of the bytes; bytes fresh from
`realloc` are `Unset`. `PeerLines` is one connection seen from its two ends:
`wire` and `screen` are the two directions of the socket, `recv` and `send` the
two buffers. A call of `read()`, `write()` or `vsnprintf()` is a step of its own,
and takes or returns any part of what it could. `Say` and `Flush` are
`conn_send`, once for the loop and once for the workers: `pc` says who is where.
The client types a line when a prompt has appeared. `answered` and `log` are
history: what was to be sent since the client typed, and the reasons there were to
drop a line or a connection. `Take` is the part of `connection_worker` that
`Connections` has in detail; here it is one step that takes, drops or ignores the
line.

### Containers


A node is named by its path. `Freed` is the loop of `st_rm_string` that goes up
from the removed node, with its end at the second character. `TheOnlyChild` is
where the loop of `get_the_only_child` ends: `GoesOn` holds of the nodes that it
passes. It yields `Crash` where `get_the_only_child` reads through `lsb == NULL`. The
refinement mapping to `Dictionary` forgets the tree: `Table` is what the trie
stores. `AsDictionary` says that each call does what the table would, unless it
crashes; `LookupReturns`, which is violated, says it does not crash.

`SystemTree` names a node by the x of its system and has each of the mirrored
halves of `rbtree.c` once, with the side as a parameter. Its calls are those of
`universe.c`: insert at a free place, erase, find, go to the next or the one
before, and the scan between two places of `get_neighbouring_systems`, with its
descent that may end on either side. Each iteration of a loop is a step: `phase`
says which loop the call in progress is in ("descend", "farthest", "climb", "walk",
"insert_color", "erase_color"), and `curr`, `up` and `found` are its locals. No
call begins before the last one has ended: the tree is changed only while one
thread makes the universe, and the searches of several threads later on only read
it. A call is answered where its effect on the set of systems is complete:
an insertion when the node is linked, a removal when it is unlinked, before the
rebalancing. The refinement mapping is the set of nodes that are linked. It is
what `Universe` takes for granted when it says "the set of the systems linked
into the tree".

`PtrList` is the cells and links of the list. `MergeLists` moves cells from
run to run as `merge_lists` does, swapping what it calls left and right; the
mapping to `PointerList` is the sequence of data along the links. The origin of
`cmp_system_distances` may be on the list twice, as `get_neighbouring_ports` puts
it there.

The three have no state in common: `MCContainers` runs one of them at a time.

### Navigation and Trading

`PlayerGo` exchanges the command table as `player_go` does, with what it removes
and what it adds as two separate lists, like in the code. A command is one
step: one worker at a time executes the commands of a player (`OneRunner`), and
buying and selling hold `items_lock` and `cargo_lock` throughout. `UpdateItem`
is one iteration of the loop in `update_port`; the port is `Locked` after its
first item, and other ports can be traded at meanwhile.

What a player types for an item is the set of the items whose names begin with
it. A lookup finds the one of them that is there if there is only one, which is
`Dictionary`'s meaning of a prefix. `MeantBySell` looks twice, as `cmd_sell`
does.

### Lifecycle

`main`, `console`, `server` and `ports` say where each of the four threads is; a
step ends where another thread can get in. `pipe` is the pipe as bytes, since a
wall is two writes (`SendWall`, `SendText`) and two reads (`ReadHeader`,
`ReadData`), and `read()` takes what is there. `loop`, `sleep` and `kill` are the
console's event loop, `console->sleep` and the pending flag of its kill
watcher: `StopConsole` crashes on a loop that is not there yet, and
`StartWatchers` forgets a send that came too early. `Signals` says where main()
may be when a signal comes from outside; the console's `quit` is a signal in any
case. `ports` follows `port_update_worker` with its unprotected reads of
`terminate` in `CheckClock` and `Decide` and the one under the lock in `Sleep`.

`Connections` begins and ends within two of these steps: its event loop is the
server at "poll", its shutdown is `ClosePeers` to `StopWorkers`, whose end
(`ShutdownCompletes`) is taken here as one step each.

### Universe and Civilisations

A system is the number of its creation, its `position` is `s->x` and `s->y`, and
`tree` is the set of the systems linked into `univ.x_rbtree`. The shape of the
tree matters to one thing: where the descent of `get_first_system_after_x` ends
when no system has that x. `Ends` is the set of the places where it can: the
nearest ones on either side. `SystemMove` is `system_move` as a whole; it is not
enabled where the function returns 1, and the loops around it, which draw again,
are one step. `begun`, `left`, `first`, `work` are the locals of
`spawn_constellations` and `addconstellation`; `placing` is the inner loop that
moves a constellation's first system until it is alone.

`Spawn` and `EndSpawning` are `spawn_civilizations`, with `next` the loop's
place in the list; `growing` and `turns` are `growing_civs` and what is left of
the current pass over it. `Grow`, `StopGrowing` are the two results of
`grow_civ`. The rings by which it widens its search are `Radii`; the function
picks the first free system in the order of the tree, which is the one with the
least x. `system_distance` truncates a root and compares with a whole number:
`Nearer` compares squares, which is the same for distances above 0.

### Config and Genesis

`conf` is `yastg.conf`: a sequence of keywords with their files, and a file is
what the parser makes of it. `todo` is what `do_load_from_files` has still to load:
the entries on the lists of the keywords, taken one by one in the order of the table
`configs` and then of `yastg.conf` (`Before`). Each `load_*_from_file` is one action on
its part of `univ`. The loop in it stops at the first entry that is bad: `BadItems`,
`BadShips`, `BadPorts` and `Unknown` are the bad ones, and `UpTo` is what was done
before. A name used twice is bad whether it was in an earlier file or in the same one.
`status` is how the start
ends: "loaded", "failed" (`die`), "aborted" (an assertion), or "corrupt" where
`load_ports_from_file` frees the list of port types as configuration entries.

`Genesis` goes on from "loaded" and fills one system. What `mtrandom` returns is a
choice; the two loops that draw again until they like the result are a step per
draw, and a rejected draw changes nothing. `Distances` and `Lives` are computed
modulo 2^w, as the unsigned arithmetic of `planet.c` is. `SortByDistance` puts
a planet at the place that its distance has among the others, equal ones in the
order in which they were: what the merge sort of `PtrList` does (`AsSequence`).

## 3. Runs

| run | expects | shows |
|---|---|---|
| `calm` | pass | polite clients, failing sends, no messages: `NoUseAfterFree`, `OneRunner`, `NoLostWakeup`, `QueueDrains`, and the service implements `Sessions` with its fairness |
| `messages` | pass | impatient client, wall, pause, resume, terminate: `NoUseAfterQuit`, `ShutdownCompletes` |
| `shutdown_race` | violation | the loop frees a connection under a worker at shutdown |
| `buffers` | pass | a line is executed as it was typed (`LineIntact`) and is executed or dropped for a reason (`LineRuns`), text arrives whole (`OutputWhole`), send errors are real (`SendErrorsReal`) |
| `containers` | pass | `AsDictionary`, `AsOrderedSet`, `AsSequence`: each container implements its abstract one over all sequences of calls; `TreeBalanced`, `NoGarbage` |
| `trie_husk` | violation | a lookup dereferences NULL after removals |
| `trading` | pass | `CommandsFit`, `StockInBounds`, `WealthKept`, `GoodsConserved`, and how far the rounding has taken a day's total from `daily_change` when the day is over (`DayRounded`) |
| `lifecycle` | pass | quit on the console stops the program (`QuitEnds`), understood by the server (`TermHonoured`), in an order that is safe (`CleanupAlone`, `NoLateWrite`, `NoSleepAfterStop`) |
| `term_lost` | violation | a signal from outside during a wall: the message to stop is lost |
| `universe` | pass | the search is exact (`SearchExact`), territories connected and counted (`Territory`), borders complete, growth to the nearest ring and to an end |
| `lost_system` | violation | placing the second system takes the first out of the tree |
| `startup` | pass | what is loaded is sound (`LoadedSound`) and all of a sound configuration is loaded (`ValidLoads`); planets in order, ports that can be traded with (`PortsSound`), generation that ends, if only in a failed assertion (`GenesisEnds`) |

**Bounds.** `calm` has two connections and three workers: enough for two workers
at one connection while the third serves another, and for the loop to
disconnect one while a signal is on its way for the other. The pool of the
program has four; the safety results do not depend on the number (section 5).
`messages` has one connection, since the loop treats connections
independently except for the work list, and three workers, so that two can
claim the connection while one sleeps. A client has at most one unread line in
the socket. A connection is accepted at most once; the program makes a new
structure each time. `buffers` has a buffer of 1 to 3 bytes (the program 100 to 10240), so
that it grows twice; lines that are empty, short, exactly as long as fits with
their end, and one byte longer; outputs that fit and one that does not; three lines,
so that the second meets the buffers the first has left and the third is typed ahead
if a wall has doubled a prompt; two workers, and one wall or pause. `containers` uses six strings over five letters, chosen so that one is a
prefix of another, two fork late and two share nothing; six places for systems, with which
every case of the rebalancing after a removal comes up; and up to four list
entries of four pointers, the origin and two
equally far ones among them: enough for a short last chunk. `trading` has one port
that makes an item and one that consumes it and needs it for another item,
stocks of one or two units, two credits per player, and five iterations a day;
players are interchangeable, which is why symmetry is sound: no liveness is
checked there. Five iterations a day (the program has 8640) are the fewest in which
the extra unit comes in every second iteration and does not come out even;
`DayRounded` looks, at the end of each day, at every daily change of up to
`DailyBound`, four times as many, of both signs. `lifecycle` sends two messages before the stop: the first can
leave a half that the second is read with. Walls of 2, 6 and 9 bytes are shorter
than a header, as long, and longer. Its signals from outside come while main() is
still starting, where they kill the process, or after it took one, where they are
ignored; the one it waits for is the console's own. `term_lost` lifts that.
`universe` has three constellations of one or two systems (the program 128 of up
to 23): enough to lose a system, to reject a place that is too near, to grow
from both homes and to meet between them. With so few systems the 0.4 of
`UNIVERSE_CIV_FRAC` would be reached by the homes alone; `CivTenths` is 6. Distances
are in the same order as in the program except that of homes, which is taken as
5 so that two can be placed; `MaxRings` covers the whole instance.
`startup` has two sound configurations, one with its keywords in the opposite
order, and twenty with one mistake each: a name that is not defined, defined
twice, missing, or in a file that cannot be read. One system of up to two planets
with up to two ports each is enough for two planets to be sorted and for a name to
be drawn again; a sun's habitable zone ends within or beyond the largest distance.

**Fairness** (`calm`, `messages`). Weak fairness of every worker and of the
loop's own steps: threads are scheduled, and a mutex that becomes free is got in
the end. Strong fairness of `Disconnect(c)` and `LeaveLoop`: these are enabled
only between two callbacks, again and again, and one iteration of libev invokes
every pending watcher, whatever else is pending. Nothing is assumed of clients,
the console or spurious wakeups.

In `lifecycle` each of the four threads has weak fairness; typing, signals and a
failing start have none. In `universe` the growth loop goes on (weak fairness of
its steps) and strong fairness of each civilisation's turn says that the dice
favour everybody now and then, which they do with probability one while its power
is not 0. Placement and the choice of homes have no fairness.

In `buffers` the threads have weak fairness, and so has `Resume`: that a paused
player is resumed some day is an assumption about the person at the console. In
`startup` weak fairness of `Next` speaks of steps that change something: a draw
that could be accepted is accepted in the end, which has probability one.

**Deadlock** is checked in `calm`. The other runs stop on purpose: a server that
was stopped, a crash, a failed assertion, a client that falls silent.

## 4. Disagreements found

1. *Use after free at shutdown* (`shutdown_race`). `disconnect_peers` ends
   connections that are not condemned. A worker that has read `terminate` as
   clear and not yet set `worker` is invisible to the spin at `server.c:65`. The
   same happens when the loop condemns a connection by a failed send at that
   moment. Quitting, and sends of the workers that fail, are safe: that is
   `NoUseAfterQuit`.
2. *A lookup crashes* (`trie_husk`). The first node of a removed string is never
   freed and has no children; completing it reads through NULL. A docked player
   that types `g` does it, as `go` was removed on docking.
3. *The stop is lost* (`term_lost`). A signal from outside between the two writes
   of a wall puts `MSG_TERM` between the wall's header and its text; the server
   reads it as data, and main() waits for ever.
4. *A system is lost* (`lost_system`). `system_move` erases what is at the old x of
   the system it moves. A new system has x = 0, where the first one is: placing the
   second takes the first out of the tree for good. `TreeSound` says that nothing
   else is ever lost that way. No civilisation grows into the lost system; if it is
   chosen as a home it is invisible to the others, which is why `HomesApart`
   speaks of homes in the tree.

The models contain more behaviour that the properties have to step around. It is
described here and no run is spent on it:

* *An answer to the prompt is dropped* as "too fast": the prompt is sent before
  `worker` is cleared (`connection.c:134-138`). `LineRuns` names it as a reason.
* *A sale fails an assertion* (`ship.c:125`). The typed prefix is resolved twice, in
  the ship and in the port. The shipped items "Iron ore" and "Iridium ore" begin
  alike; the shipped ports list only one of them. `SellFails` is this step. It is
  not the only way in which a sale can end the server: a good that was sold out
  leaves an empty node in the ship's trie (`ship.c:134`), and a later lookup there
  may crash, which is what `trie_husk` shows of the trie alone.
* *A wall or a pause can end a connection, or have the client type ahead.*
  `conn->send` has no lock: when the loop and a worker flush at once, the second
  finds the buffer empty, and that counts as a send error; or both send what is there,
  and a prompt appears twice. To a client that answers every prompt that is one line
  too many, which its connection can mix with the next. All four properties of
  `PeerLines` except this case ("crossed"). That `LineIntact` needs the exception too
  came out of the attempt to prove it: two lines were not enough to meet it.
* *Lines typed while paused are joined.* The message sent with the pause says they
  "will queue up" (`server.c:127`); they arrive in one read, and
  `buffer_terminate_line` looks at the last byte only, so they are one line. A
  client that types ahead in general can have its line mixed with the rest of
  another one, and `realloc` may move the bytes a worker is executing; the client of
  `PeerLines` does not type ahead.
* *A line longer than 10240 bytes jams its connection*: the buffer stays full, `read()`
  with no room returns 0, and the watcher calls again (`Read` with `r = 0`).
* *A wall reaches the players only if its text is five characters long*
  (`server.c:271` compares the length of the text with that of the header).
* *Suns of class O and B*: the habitable zone ends beyond `PLANET_DIST_MAX`, the
  unsigned difference at `planet.c:106` wraps, and a cold planet may be anywhere.
  In the same way a reversed pair of lives (`planet.c:95`) draws any number, which
  is an index into `planet_life_desc`; a misspelt one counts as 0.
* *A mistake in a file of ports* makes `load_ports_from_file` call `destroy_config` on
  the port types loaded so far (`port_type.c:280`).
* *A keyword of names without a file* fails the assertion at `loadconfig.c:169`, before
  `is_config_sane` is asked; with words for prefixes only it is satisfied, and
  `names.c:69` may fail instead.
* A daily change of 1 becomes 0 at every generated port (`port.c:64`); an item
  without a price or a weight keeps what `malloc` returned (`item.c:45`).

The `lifecycle` runs show two more things that no text of the repository speaks of: a
signal in the console thread's first moments is sent to an event loop that is
NULL (`console.c:406`) or forgotten by `ev_async_start` (345), and a message
typed just after a signal from outside may be written to the closed pipe, which
`write_msg` reports as a bug.

## 5. Proofs

**Connections.** `LockingInv` is inductive together with `TypeOK`. Use after
free is not inductive on its own: that a worker past its check of
`conn->terminate` is safe depends on why the connection was condemned. The parts:

* `LockInv`: who holds which lock, by program counter.
* `OneRunner`: `worker` is set exactly while one worker runs the connection. One
  part says that who runs has the flag and is alone (`RunnersMarked`), the other
  that a flag that is set belongs to somebody who runs (`MarksHeld`). `Done`
  keeps the first because nobody else is running where it clears the flag. The
  second is why the spin of `disconnect_peer` always has a worker to wait for.
* `DoomInv`: if a worker has read `terminate` as clear and it is set since, a
  command running on the connection set it, so `worker` is set; and that command
  cannot clear the flag before the checking worker releases `worker_lock`.
* `QueueInv`: what is on the work list is open and is there once; what the loop
  disconnects is neither on the list nor about to be claimed.
* `LoopInv`: once the loop has seen `worker` clear on a condemned connection, it
  stays clear.
* `NoUseAfterQuit` follows at `Free`.

`ConnectionsProofs` proves each part step by step (`LockStep`, `RunnerStep`,
`DoomStep`, `QueueStep`, `LoopInvStep`, `SafeStep`) for any number of connections
and workers, any clients and any messages. `UseAfterFreeNever` adds that without
messages the loop condemns nothing. `NoLostWakeup` is inductive on its own.
`QueuedOnce` follows from `LineInv`, which says where the line of a client that
waits for its prompt can be: in the socket, with the loop, on the list or with a
worker that has not prompted yet, and in one place only. It says that the model's
end, at a connection appended twice, is never reached because of such a client.
The end of `ConnectionsProofs` shows that each step without messages is a step of
`Sessions` or changes nothing there.

**Trading.** The invariant is `GoodsInv /\ CliInv`. `CliInv` says what the
command table is at each place; `CommandsFit` alone is not inductive, since it
does not say that a command of another place is absent under a name that is not
removed. `GoodsInv` joins types, stock bounds and credits: that clipping by
credits never moves a negative amount needs credits that are not negative, and
that update keeps stocks in bounds needs bounds of the requirements. The theorems
hold for any universe, items, prices, requirements and daily changes, under the
named assumptions of the two modules: no item requires itself. `DayRounded` adds up
iterations, which needs induction, and is left to TLC.

`WealthKept` needs, for those who come, that nobody leaves goods behind in a ship
that is used again: `WealthInv` adds that a player who is not there has an empty
hold. `WealthKept` and `GoodsConserved` are about sums over all items, ports and
players, so the proof first says what a sum is. `SumFunction` of the community
modules takes the elements of a finite set in an order nobody knows; `SumIs` shows
that the function it chooses exists, by induction over the subsets of a finite set
(`BySubsets`, with a set of good subsets in place of a predicate), and `SumRemove`
that the order does not matter. With it a sum changes by what one of its numbers
does (`SumChange`) or by what is added (`SumAdd`). `BuyMeans` and `SellMeans` say
what a purchase and a sale move: the same amount out of a cargo as into a hold,
for its price. From there `ValueMore`, `ValueLess` and `MovedIsKept` give
`WealthKeptAlways` and `GoodsConservedAlways`, for any prices and any number of
items, ports and players.

**Lifecycle.** `CleanupAlone` follows from `StopOrder`, the order in which the
joins let threads pass: on its own it does not say that a server about to end has
waited for the port update thread. `NoSleepAfterStop` is inductive. `NoLateWrite`
follows from `Silent`: once main() has stopped waiting, `console->sleep` is set
and no text is half written; it assumes that no signal comes from outside while
main() waits, and without that it does not hold. `TypeOK` says that the pipe holds
bytes and that a read of data follows a header that announced some; its proof
needs that a wall's length fits its 16 bits.

`TermHonoured` is that the pipe is a sequence of whole messages, as far as the
server is concerned: by the time `MSG_TERM` is written nothing is left half written
(`Silent`), and the server reads a header where one begins. `Framing` says it without
an induction over the pipe: there is a set of offsets, with the server at one of
them, at each of which a whole message stands and the next of them follows, unless it
is a wall without its text yet or `MSG_TERM` at the end (`TermHonouredAlways`). It is assumed, as in the run, that no signal comes from outside
while main() waits; `term_lost` shows what happens then.

**PeerLines.** The theorems hold for any lines, any outputs, any sizes of the buffer,
any number of walls and pauses, and any cutting of what is sent by `read()` and
`write()`. `Places` says of each thread's step what it can rely on; `SendInv`
says which part of an output is on the screen, in the send buffer or with the one who
flushes, and that it is whole when the last of them are put together (`OutputWhole`,
`SendErrorsReal`). `Turn` says whose move it is: from the prompt to the answer the
line is the client's, then the wire's, then the loop's, then a worker's, and nobody
resets the receive buffer in between. `LineOK` says that what the receive buffer and
the wire hold, put together, is the line. The last three are kept only as long as
nothing has "crossed"; `log` remembers whether something has. The
arithmetic of `Buffer` is in lemmas of its own, one for each operator (`AfterReadIs`,
`PrintedIs`, `LineTerminated`, ...): what it does to the size, to `idx` and to each
byte.

**StringTrie.** Two invariants: every prefix of a node is a node and only strings have
data (`Shaped`; as a prefix of a prefix is one, no induction over strings is needed),
and `NoGarbage`. The second is what `Freed` must keep: the loop that frees going up from
the removed string stops at the first node that is shared, and below it nothing is
freed. For a lookup: the loop of `get_the_only_child` passes nodes that have one child
and no data; if it ends at a string, that string is the only one below the place
where it began, for two strings below it fork at some node, which it would not have
passed (`OnlyChildMeans`, `TwoBelow`); and the first such node is found by
well-founded induction over lengths. So completion finds the only string with the
prefix, or nothing, or it crashes (`FindMeans`), and each call is a step of
`Dictionary` or a crash (`ImplementsDictionary`: `Spec => AsDictionary`).

**SystemTree.** Reachability, order and black heights are about whole subtrees, and an
invariant that mentions subtrees needs an induction at every rotation. The invariant
`IInv` says instead that two functions exist that the code does not have: bounds, an interval
for each node, and heights, the number of black nodes on any way down from it.
`Shape` says that each node lies within its interval and divides it between its
children, that parents and children agree, and that a node which is not in the
tree has no children. `Even` says that a node's height is that of either child, and
one more if the node is black.
With them everything is local: a rotation changes the intervals and heights of two
nodes and of no other (`RotateShape` and what follows it), which is why it loses
nothing. Within a call the invariant names the one defect that its
loop is there to mend: during `rb_insert_color()` one node may be red below a red
one (`Apart` with an exception); during `__rb_erase_color()` one side of one node
is short of a black node (`Even` with a `Lack`). Each case of the two loops moves
that defect up or removes it. That `__rb_erase_color()` never finds the sibling missing, and
the rotations never turn around NULL, follows from the heights.

The searches need of the intervals that what is looked for is in that of the
node the descent is at (`AtDescend`). For the walks, the next node is the least of the right subtree
or the nearest ancestor on the right (`NextIsBelow`, `NextIsAbove`, `NothingThere`);
`AtWalk` says that `found` holds every system from the lower end up to where the
walk is.

`TreeBalanced` is stated without bounds and heights, by what can be reached and by
counting. `ThenRedBlack` derives it: what can be reached from a node is what
lies in its interval, by well-founded induction over the finite set of keys, and the
black nodes above a free place number what the root's height says
(`BlacksAndHeight`). The theorems hold for any finite set of coordinates and any
sequence of calls.

**Config and Genesis.** `LoadedSound` follows from `ConfInv`: whatever is loaded
refers to what was loaded before it, and stays so because nothing is ever unloaded.
Only its part about the first and any one of everything (`Sane`) comes from
`is_config_sane`. `ValidLoads` needs more, an invariant of the well-formed
configurations alone (`LoadsWell`): so far everything has been loaded and
nothing else, that is, the items are the names of the entries of the files of items
that are not in `todo`, and so on (`SoFar`). It is inductive since a bad entry would be
an entry with the name of another one (`NotYet`), and since ports are loaded only
when no file of items is left and planets only when no file of ports is: that is
`InOrderOfKeywords`, the comment "very important this is correct" in
`load_config`. It also shows that the assertions at `loadconfig.c:169` and
`names.c:69` cannot fail then (`NamesHaveWords`).

`PlanetsInOrder` rests on `Sorts`: for any sequence of planets, the places that
`PlaceByDistance` gives are all different and all taken (a counting argument: the
sets it counts are nested), so the sorted sequence has each planet once and in order.
Then `DistanceIs` gives the order of the zones, where the habitable zone ends within
`PLANET_DIST_MAX`. `PortsSound` needs that a name is remembered when it is given
(`NamesOnce` over the planets and the one that is being made) and that sorting and
naming move no port (`NamedInOrder`); that nothing is made before all is loaded
(`Quiet`) is why types do not change under ports. It is what `Trading` assumes of its
ports, so that the two fit together.

**Universe.** `TreeSound` is inductive with `Fresh`: a system that is moved is
either in the tree already, and then alone at its x, or was never placed and has
x = 0; so `system_move` takes nothing else out. `Room` bounds the number of
systems. `SearchExact` is a matter of the squares (`Within`) and of `Ends`: no
system lies between the end of the descent and the least x.

**Civilisations.** `GrowthInv` joins `Territory` and `BorderComplete` with what they
need: nothing is owned while systems are placed (`Phases`), no system is made
later, a home is given once, the border list holds own systems only, and a system
without an owner has no links (`Homes`). That the list stays complete rests on
`NoNewBorder`: a system that gets an owner turns no other system into a border
system, so that revising the head is enough. The connection of a territory is
stated by cuts, as any part with the home in it has a link that leaves it; each
step of growth extends it by the one link it makes. `HomesApart` is inductive with
`GrowthInv` (`HomesApartAlways`): the search from a new home is exact wherever it
starts (`SearchLemma`) and does start somewhere, since among the systems of the
tree one is closest to the least x (`SomeEnd`, by well-founded induction); so it
would have found an older home in the tree, which has an owner. `GrowsNear` needs
the same, and that a wider search finds no less (`WiderFindsMore`): a free system
that is nearer would have been found by a narrower ring.

**Assumptions** are those named in the modules: the constants have their types;
`Flaky` and `Impatient` are connections; `Workers` is not empty; places are
placed; the coordinates of the tree are finitely many integers; items, ports and
players are finitely many; a buffer can grow to its limit; the entries of a file are
a sequence and a capacity in it is not negative (with a negative one `port_genesis` would draw from
2^32 numbers and more). TLC evaluates them in the runs.

**Model-checked only.** Everything with fairness (`QueueDrains`,
`ShutdownCompletes`, `LineRuns`, `QuitEnds`, `GrowthEnds`, `GenesisEnds`, the
fairness part of `AsSessions`): liveness is not for this prover. `AsSequence`: the
chunks of the merge sort double from pass to pass, and what they hold together is a
matter of induction over the list. `DayRounded`, a sum over the
iterations of a day, for the same reason. Every invariant of a passing run is stated
by a theorem.

## 6. Not modelled, and the plan

Left out for good: the parser of configuration files (generated by bison and flex
from a grammar without state), the random stars of a system, loading of modules,
logging, map drawing, ASCII art, the random number generator. Failing allocations
are left out throughout.

What would come next:

1. The work list at the level of pointers, to show what appending a linked node
   does for a client that does not wait.
2. A peer that hangs up, and a client that types ahead, with the recovery the
   server has for neither.
3. The proof that is missing: the list with a step for each iteration of its loops,
   as the tree has now, so that the merge sort has an inductive invariant.
