----------------------------- MODULE Lifecycle -----------------------------
(***************************************************************************)
(* The threads of yastg from start to stop: main() (main.c), the console   *)
(* (console.c), the server thread and the port update thread, and the pipe *)
(* on which main() and the console send messages to the server.            *)
(*                                                                         *)
(* The pipe is a sequence of bytes: a message is a header and, for a wall, *)
(* a text that is written and read on its own.  What becomes of the        *)
(* connections when the server stops is the subject of Connections, what   *)
(* the port update thread does to the ports that of Trading.               *)
(*                                                                         *)
(* The pipe is never full.  The second pthread_join of the server thread   *)
(* (main.c) finds a thread that was joined and returns at once, as in the  *)
(* GNU C library.  Commands of the console that only show something and    *)
(* those that load modules are left out.                                   *)
(***************************************************************************)
EXTENDS Naturals, Sequences

CONSTANTS WallSizes,    \* msg.cnt of the walls: length of the text plus one
          MaxMessages,  \* bound on the messages the console sends
          Signals       \* where main() may be when a signal comes from outside

MSG_PAUSE == 1
MSG_CONT  == 2
MSG_WALL  == 4
MSG_TERM  == 8

SizeofSignal == 6

ASSUME SizesAssumption == \A n \in WallSizes : n \in Nat /\ 2 <= n /\ n <= 65535
ASSUME BoundAssumption == MaxMessages \in Nat

VARIABLES
  process,      \* "up"; "exited"; "killed" by the signal itself; "died" in
                \* die(), "bug" in bug(), "crashed" in the kernel
  main,         \* where main() is
  \* the console thread
  console,      \* where it is; "poll" between two callbacks
  loop,         \* its event loop: "on", "breaking", "left"
  sleep,        \* console->sleep: stdin is not watched any more
  kill,         \* kill_watcher.sent
  wall,         \* the length of the text that cmd_wall is about to write
  messages,     \* how many it has sent
  \* the server thread
  pipe,         \* the bytes in the pipe
  server,       \* where it is; "poll" between two callbacks
  msg,          \* the header that server_msg_cb has read
  \* the port update thread
  ports,        \* where it is
  terminate     \* the flag that stops it

consoleVars == <<console, loop, sleep, kill, wall, messages>>
serverVars == <<server, msg>>
portsVars == <<ports, terminate>>
vars == <<process, main, consoleVars, pipe, serverVars, portsVars>>

-----------------------------------------------------------------------------
(* Messages as bytes: struct signal is packed, little-endian, and its type *)
(* an enum of four bytes.                                                  *)

Bytes == 0..255

Header(cnt, type) == <<cnt % 256, cnt \div 256, type, 0, 0, 0>>

NoMsg == [cnt |-> 0, type |-> 0]

Decoded(b) == [cnt |-> b[1] + 256 * b[2],
               type |-> b[3] + 256 * (b[4] + 256 * (b[5] + 256 * b[6]))]

(* Bug: the terminator is counted but not written.                         *)
TextWithoutNul(n) == [i \in 1..n - 1 |-> 97]

(* The text of a wall; which letters it has does not matter.               *)
Text(n) == [i \in 1..n |-> IF i = n THEN 0 ELSE 97]

(* read(): what there is, up to so many bytes; it blocks when the pipe is  *)
(* empty.                                                                  *)
Available(n) == IF n < Len(pipe) THEN n ELSE Len(pipe)
After(n) == SubSeq(pipe, Available(n) + 1, Len(pipe))

ThreadsOK ==
  /\ process \in {"up", "exited", "killed", "died", "bug", "crashed"}
  /\ main \in {"startServer", "startConsole", "mask", "waiting", "stopConsole",
               "stopServer", "joinServer", "joinConsole", "cleanup"}
  /\ console \in {"absent", "start", "setup", "poll", "text", "ended"}
  /\ loop \in {"on", "breaking", "left"}
  /\ sleep \in BOOLEAN /\ kill \in BOOLEAN /\ terminate \in BOOLEAN
  /\ server \in {"absent", "init", "poll", "data", "closing", "stopPorts", "joinPorts",
                 "stopWorkers", "ended"}
  /\ ports \in {"absent", "update", "lock", "waiting", "woken", "decide", "ended"}

MessagesOK ==
  /\ wall \in {0} \union WallSizes
  /\ messages \in 0..MaxMessages
  /\ pipe \in Seq(Bytes)
  /\ msg \in [cnt : Nat, type : Nat]
  /\ server = "data" => msg.cnt > 0

(* The server waits for data only when the header has announced some.      *)
TypeOK == ThreadsOK /\ MessagesOK

(* The configuration is read and the universe is there.                    *)
Init ==
  /\ process = "up"
  /\ main = "startServer"
  /\ console = "absent"
  /\ loop = "on"
  /\ sleep = FALSE
  /\ kill = FALSE
  /\ wall = 0
  /\ messages = 0
  /\ pipe = <<>>
  /\ server = "absent"
  /\ msg = NoMsg
  /\ ports = "absent"
  /\ terminate = FALSE

-----------------------------------------------------------------------------
(* main().                                                                 *)

StartServer ==
  /\ main = "startServer"
  /\ main' = "startConsole"
  /\ server' = "init"
  /\ UNCHANGED <<process, consoleVars, pipe, msg, portsVars>>

StartConsole ==
  /\ main = "startConsole"
  /\ main' = "mask"
  /\ console' = "start"
  /\ UNCHANGED <<process, loop, sleep, kill, wall, messages, pipe, serverVars, portsVars>>

(* wait_for_exit blocks the signals and waits for one.                     *)
MaskSignals ==
  /\ main = "mask"
  /\ main' = "waiting"
  /\ UNCHANGED <<process, consoleVars, pipe, serverVars, portsVars>>

(* SIGTERM, SIGINT or SIGHUP: the default action until main() has blocked  *)
(* them; nothing once it has taken one.                                    *)
Signal ==
  /\ process' = IF main \in {"startServer", "startConsole", "mask"} THEN "killed" ELSE process
  /\ main' = IF main = "waiting" THEN "stopConsole" ELSE main

OutsideSignal ==
  /\ main \in Signals
  /\ Signal
  /\ UNCHANGED <<consoleVars, pipe, serverVars, portsVars>>

(* Bug: the console is not told.                                           *)
StopConsoleNot ==
  /\ main = "stopConsole"
  /\ main' = "stopServer"
  /\ UNCHANGED <<process, consoleVars, pipe, serverVars, portsVars>>

(* ev_async_send, on a loop that is NULL while the thread has not made it. *)
StopConsole ==
  /\ main = "stopConsole"
  /\ main' = "stopServer"
  /\ process' = IF console = "start" THEN "crashed" ELSE process
  /\ kill' = TRUE
  /\ UNCHANGED <<console, loop, sleep, wall, messages, pipe, serverVars, portsVars>>

(* stop_server writes MSG_TERM, joins the thread and closes the pipe's end *)
(* for reading.                                                            *)
StopServer ==
  /\ main = "stopServer"
  /\ main' = "joinServer"
  /\ pipe' = pipe \o Header(0, MSG_TERM)
  /\ UNCHANGED <<process, consoleVars, serverVars, portsVars>>

JoinServer ==
  /\ main = "joinServer"
  /\ server = "ended"
  /\ main' = "joinConsole"
  /\ UNCHANGED <<process, consoleVars, pipe, serverVars, portsVars>>

(* Bug: only the server thread is joined.                                  *)
JoinConsoleNot ==
  /\ main = "joinConsole"
  /\ main' = "cleanup"
  /\ UNCHANGED <<process, consoleVars, pipe, serverVars, portsVars>>

JoinConsole ==
  /\ main = "joinConsole"
  /\ console = "ended"
  /\ main' = "cleanup"
  /\ UNCHANGED <<process, consoleVars, pipe, serverVars, portsVars>>

(* The universe and the names are freed and the log is closed.             *)
Cleanup ==
  /\ main = "cleanup"
  /\ process' = "exited"
  /\ UNCHANGED <<main, consoleVars, pipe, serverVars, portsVars>>

MainStep == \/ StartServer
            \/ StartConsole
            \/ MaskSignals
            \/ StopConsole
            \/ StopServer
            \/ JoinServer
            \/ JoinConsole
            \/ Cleanup

-----------------------------------------------------------------------------
(* The console thread.                                                     *)

MakeLoop ==
  /\ console = "start"
  /\ console' = "setup"
  /\ UNCHANGED <<process, main, loop, sleep, kill, wall, messages, pipe, serverVars, portsVars>>

(* ev_async_start forgets what was sent before.                            *)
StartWatchers ==
  /\ console = "setup"
  /\ console' = "poll"
  /\ kill' = FALSE
  /\ UNCHANGED <<process, main, loop, sleep, wall, messages, pipe, serverVars, portsVars>>

(* A line is read from stdin: also, once, in the iteration in which        *)
(* console_kill_cb has broken the loop, if it was there already.           *)
Command ==
  /\ console = "poll"
  /\ ~sleep
  /\ loop # "left"
  /\ loop' = IF loop = "breaking" THEN "left" ELSE loop

(* write() in write_msg: bug() if nobody can read any more.                *)
Write(bytes) ==
  IF main \in {"joinConsole", "cleanup"} THEN process' = "bug" /\ UNCHANGED pipe
  ELSE pipe' = pipe \o bytes /\ UNCHANGED process

(* cmd_pause and cmd_resume.                                               *)
SendPlain ==
  /\ Command
  /\ messages < MaxMessages
  /\ messages' = messages + 1
  /\ \E type \in {MSG_PAUSE, MSG_CONT} : Write(Header(0, type))
  /\ UNCHANGED <<main, console, sleep, kill, wall, serverVars, portsVars>>

(* cmd_wall writes the header and then the text.                           *)
SendWall ==
  /\ Command
  /\ messages < MaxMessages
  /\ messages' = messages + 1
  /\ \E n \in WallSizes : Write(Header(n, MSG_WALL)) /\ wall' = n
  /\ console' = "text"
  /\ UNCHANGED <<main, sleep, kill, serverVars, portsVars>>

SendText ==
  /\ console = "text"
  /\ Write(Text(wall))
  /\ console' = "poll"
  /\ wall' = 0
  /\ UNCHANGED <<main, loop, sleep, kill, messages, serverVars, portsVars>>

(* Bug: stdin is watched on.                                               *)
QuitAwake ==
  /\ Command
  /\ Signal
  /\ UNCHANGED <<console, sleep, kill, wall, messages, pipe, serverVars, portsVars>>

(* cmd_quit: no more commands, and SIGTERM.                                *)
Quit ==
  /\ Command
  /\ sleep' = TRUE
  /\ Signal
  /\ UNCHANGED <<console, kill, wall, messages, pipe, serverVars, portsVars>>

(* console_kill_cb.                                                        *)
BreakLoop ==
  /\ console = "poll"
  /\ kill
  /\ kill' = FALSE
  /\ loop' = "breaking"
  /\ UNCHANGED <<process, main, console, sleep, wall, messages, pipe, serverVars, portsVars>>

EndConsole ==
  /\ console = "poll"
  /\ loop # "on"
  /\ console' = "ended"
  /\ UNCHANGED <<process, main, loop, sleep, kill, wall, messages, pipe, serverVars, portsVars>>

ConsoleStep == MakeLoop \/ StartWatchers \/ SendText \/ BreakLoop \/ EndConsole

-----------------------------------------------------------------------------
(* The server thread: server_main and server_msg_cb.                       *)

(* The workers and the port update thread are started, the sockets bound;  *)
(* that thread ends at once when it cannot read the clock.                 *)
StartServing ==
  /\ server = "init"
  /\ server' = "poll"
  /\ ports' \in {"update", "ended"}
  /\ UNCHANGED <<process, main, consoleVars, pipe, msg, terminate>>

(* die(), mostly for an address that is in use.                            *)
FailToServe ==
  /\ server = "init"
  /\ process' = "died"
  /\ UNCHANGED <<main, consoleVars, pipe, serverVars, portsVars>>

(* server_handlesignal: the loop is left, or goes on.                      *)
Handle(type) == server' = IF type = MSG_TERM THEN "closing" ELSE "poll"

(* A short read is an invalid header.                                      *)
ReadHeader ==
  /\ server = "poll"
  /\ pipe # <<>>
  /\ pipe' = After(SizeofSignal)
  /\ \/ /\ Available(SizeofSignal) < SizeofSignal
        /\ UNCHANGED <<server, msg>>
     \/ /\ Available(SizeofSignal) = SizeofSignal
        /\ Decoded(pipe).cnt > 0
        /\ msg' = Decoded(pipe)
        /\ server' = "data"
     \/ /\ Available(SizeofSignal) = SizeofSignal
        /\ Decoded(pipe).cnt = 0
        /\ Handle(Decoded(pipe).type)
        /\ UNCHANGED msg
  /\ UNCHANGED <<process, main, consoleVars, portsVars>>

(* The length that was read is compared with that of a header.             *)
ReadData ==
  /\ server = "data"
  /\ pipe # <<>>
  /\ pipe' = After(msg.cnt)
  /\ IF Available(msg.cnt) = SizeofSignal THEN Handle(msg.type) ELSE server' = "poll"
  /\ msg' = NoMsg
  /\ UNCHANGED <<process, main, consoleVars, portsVars>>

(* Every peer is disconnected: see ShutdownCompletes in Connections.       *)
ClosePeers ==
  /\ server = "closing"
  /\ server' = "stopPorts"
  /\ UNCHANGED <<process, main, consoleVars, pipe, msg, portsVars>>

(* Bug: termination_cond is not signalled.                                 *)
StopPortsSilently ==
  /\ server = "stopPorts"
  /\ server' = "joinPorts"
  /\ terminate' = TRUE
  /\ UNCHANGED <<process, main, consoleVars, pipe, msg, ports>>

(* stop_updating_ports: the flag and the signal, under termination_lock.   *)
StopPorts ==
  /\ server = "stopPorts"
  /\ server' = "joinPorts"
  /\ terminate' = TRUE
  /\ ports' = IF ports = "waiting" THEN "woken" ELSE ports
  /\ UNCHANGED <<process, main, consoleVars, pipe, msg>>

JoinPorts ==
  /\ server = "joinPorts"
  /\ ports = "ended"
  /\ server' = "stopWorkers"
  /\ UNCHANGED <<process, main, consoleVars, pipe, msg, portsVars>>

(* conn_shutdown and conn_destroy: the workers are joined.                 *)
StopWorkers ==
  /\ server = "stopWorkers"
  /\ server' = "ended"
  /\ UNCHANGED <<process, main, consoleVars, pipe, msg, portsVars>>

ServerStep == \/ StartServing
              \/ ReadHeader
              \/ ReadData
              \/ ClosePeers
              \/ StopPorts
              \/ JoinPorts
              \/ StopWorkers

-----------------------------------------------------------------------------
(* The port update thread: port_update_worker.                             *)

(* update_all_ports, under univ.ports_lock.                                *)
UpdateAllPorts ==
  /\ ports = "update"
  /\ ports' = "lock"
  /\ UNCHANGED <<process, main, consoleVars, pipe, serverVars, terminate>>

(* Under termination_lock: the flag is read before the thread sleeps.      *)
Sleep ==
  /\ ports = "lock"
  /\ ports' = IF terminate THEN "decide" ELSE "waiting"
  /\ UNCHANGED <<process, main, consoleVars, pipe, serverVars, terminate>>

(* The time is up, or pthread_cond_timedwait returns without a reason.     *)
Timeout ==
  /\ ports = "waiting"
  /\ ports' = "woken"
  /\ UNCHANGED <<process, main, consoleVars, pipe, serverVars, terminate>>

(* The conditions of the two loops each read the flag.  It may be early    *)
(* yet; clock_gettime may fail, which ends the thread.                     *)
CheckClock ==
  /\ ports = "woken"
  /\ ports' \in {"decide", "ended"} \union (IF terminate THEN {} ELSE {"lock"})
  /\ UNCHANGED <<process, main, consoleVars, pipe, serverVars, terminate>>

Decide ==
  /\ ports = "decide"
  /\ ports' = IF terminate THEN "ended" ELSE "update"
  /\ UNCHANGED <<process, main, consoleVars, pipe, serverVars, terminate>>

PortsStep == UpdateAllPorts \/ Sleep \/ Timeout \/ CheckClock \/ Decide

-----------------------------------------------------------------------------
Next == /\ process = "up"
        /\ \/ MainStep
           \/ OutsideSignal
           \/ ConsoleStep
           \/ SendPlain
           \/ SendWall
           \/ Quit
           \/ ServerStep
           \/ FailToServe
           \/ PortsStep

Spec == Init /\ [][Next]_vars

(* The threads are scheduled, and the port update thread's sleep is one of *)
(* ten seconds.  Nobody has to type anything.                              *)
Fairness == /\ WF_vars(process = "up" /\ MainStep)
            /\ WF_vars(process = "up" /\ ConsoleStep)
            /\ WF_vars(process = "up" /\ ServerStep)
            /\ WF_vars(process = "up" /\ PortsStep)

FairSpec == Spec /\ Fairness

-----------------------------------------------------------------------------
(* MSG_TERM is understood: when it has left the pipe, the server stops.    *)
(* main() waits for that ("waiting for server to terminate"), and its      *)
(* comment says that stopping the server ends all connections.             *)
TermHonoured ==
  main = "joinServer" /\ pipe = <<>> =>
     server \in {"closing", "stopPorts", "joinPorts", "stopWorkers", "ended"}

(* Nobody writes to the pipe once its reader is gone: write_msg takes that *)
(* for an internal bug and exits, in the middle of main()'s cleaning up.   *)
NoLateWrite == process # "bug"

(* While main() frees the universe, no other thread is there to use it.    *)
CleanupAlone ==
  main = "cleanup" => /\ server = "ended"
                      /\ ports = "ended"
                      /\ console = "ended"

(* The port update thread, once told to stop, does not go to sleep, nor on *)
(* sleeping, for the ten seconds it would otherwise.                       *)
NoSleepAfterStop == terminate => ports # "waiting"

(* "quit" on the console ends the program: every thread is stopped and     *)
(* joined, unless the program ends before it was up.                       *)
QuitEnds == sleep ~> process \in {"exited", "killed", "died"}
=============================================================================
