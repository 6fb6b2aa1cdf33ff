---------------------------- MODULE Connections ----------------------------
(***************************************************************************)
(* The connection service of yastg: the event loop of server.c, which owns *)
(* every struct connection, and the pool of worker threads of connection.c *)
(* that execute the players' command lines.  One action per step between   *)
(* two points where another thread can get in: a lock taken, a flag read,  *)
(* a write to a socket.                                                    *)
(*                                                                         *)
(* A polite client answers a prompt with one line and waits for the next   *)
(* prompt; an impatient one sends lines as it likes.  The memory model is  *)
(* sequentially consistent.  Nothing is modelled after the two things that *)
(* corrupt memory: a worker whose connection is freed takes no step, and   *)
(* the loop takes none once it is about to append a connection that still  *)
(* is on the work list.                                                    *)
(***************************************************************************)
EXTENDS Naturals, Sequences, Functions

CONSTANTS Conns,      \* the connections that may ever be accepted
          Workers,    \* the threads of the pool (NUM_WORKERS of them)
          Flaky,      \* connections to which a send may fail
          Impatient,  \* connections whose client does not wait for the prompt
          Msgs,       \* the messages the console and main() may send
          WallSizes,  \* msg.cnt of the walls sent: length of the text plus one
          NoConn,     \* not a connection
          Server      \* the event loop, as the holder of a lock

Lines == {"cmd", "quit"}
NoLine == "none"

(* sizeof(struct signal): a packed uint16_t and an enum.                   *)
SizeofSignal == 6

ASSUME ConnsAssumption == /\ NoConn \notin Conns
                          /\ Flaky \subseteq Conns
                          /\ Impatient \subseteq Conns
ASSUME WorkersAssumption == /\ Workers # {}
                            /\ {Server, NoConn} \intersect Workers = {}
ASSUME MsgsAssumption == /\ Msgs \subseteq {"pause", "cont", "wall", "term"}
                         /\ WallSizes \subseteq Nat

VARIABLES
  \* struct connection
  status,         \* "absent" before accept(), "open", "freed"
  terminate,      \* conn->terminate
  worker,         \* conn->worker: a worker is executing a line
  workerLock,     \* holder of conn->worker_lock
  recv,           \* the line in conn->recv
  dataWatcher,    \* conn->data_watcher is started
  killWatcher,    \* "off", "on", or "sent" once ev_async_send() was called
  \* struct conn_data
  workersLock,    \* holder of workers_lock
  workItems,      \* work_items, oldest first
  \* the worker threads
  pc,             \* where each worker is
  conn,           \* its local variable conn
  wterminate,     \* w->terminate
  \* the event loop
  loopPc,         \* where the loop is; "poll" between two callbacks
  loopConn,       \* the connection its callback is about
  phase,          \* "serving", "breaking" after MSG_TERM, "closing", "down"
  \* the peers
  client,         \* "absent", "prompted", "sent" while it waits for an answer
  inbox,          \* the line in the socket: lines read at once count as one
  \* history
  byLoop          \* connections the loop condemned, or closed on its own

connVars == <<status, terminate, worker, workerLock, recv, dataWatcher, killWatcher>>
queueVars == <<workersLock, workItems>>
workerVars == <<pc, conn, wterminate>>
loopVars == <<loopPc, loopConn, phase>>
peerVars == <<client, inbox>>
vars == <<connVars, queueVars, workerVars, loopVars, peerVars, byLoop>>

-----------------------------------------------------------------------------
None == NoConn                    \* nobody holds the lock

Open == {c \in Conns : status[c] = "open"}

(* Where a worker executes a line: conn->worker is its flag.               *)
Running(w) == pc[w] \in {"run", "prompt", "done"}

(* Where a worker will still use its connection.                           *)
Holds(w) == pc[w] \in {"claim", "check", "mark", "run", "prompt", "done"}

TypeOK ==
  /\ status \in [Conns -> {"absent", "open", "freed"}]
  /\ terminate \in [Conns -> BOOLEAN]
  /\ worker \in [Conns -> BOOLEAN]
  /\ workerLock \in [Conns -> Workers \union {Server, None}]
  /\ recv \in [Conns -> Lines \union {NoLine}]
  /\ dataWatcher \in [Conns -> BOOLEAN]
  /\ killWatcher \in [Conns -> {"off", "on", "sent"}]
  /\ workersLock \in Workers \union {None}
  /\ workItems \in Seq(Conns)
  /\ pc \in [Workers -> {"lock", "waiting", "claim", "check", "mark", "run",
                         "prompt", "done", "exited"}]
  /\ conn \in [Workers -> Conns \union {NoConn}]
  /\ \A w \in Workers : Holds(w) => conn[w] \in Conns
  /\ wterminate \in [Workers -> BOOLEAN]
  /\ loopPc \in {"poll", "enqueue", "dequeue", "spin", "free", "join"}
  /\ loopConn \in Conns \union {NoConn}
  /\ loopPc \in {"enqueue", "dequeue", "spin", "free"} => loopConn \in Conns
  /\ phase \in {"serving", "breaking", "closing", "down"}
  /\ client \in [Conns -> {"absent", "prompted", "sent"}]
  /\ inbox \in [Conns -> Lines \union {NoLine}]
  /\ byLoop \subseteq Conns

-----------------------------------------------------------------------------
(* conndata_init, conn_init and server_main up to ev_run: the workers are  *)
(* started and on their way to workers_lock, the loop is about to poll.    *)
Init ==
  /\ status = [c \in Conns |-> "absent"]
  /\ terminate = [c \in Conns |-> FALSE]
  /\ worker = [c \in Conns |-> FALSE]
  /\ workerLock = [c \in Conns |-> None]
  /\ recv = [c \in Conns |-> NoLine]
  /\ dataWatcher = [c \in Conns |-> FALSE]
  /\ killWatcher = [c \in Conns |-> "off"]
  /\ workersLock = None
  /\ workItems = <<>>
  /\ pc = [w \in Workers |-> "lock"]
  /\ conn = [w \in Workers |-> NoConn]
  /\ wterminate = [w \in Workers |-> FALSE]
  /\ loopPc = "poll"
  /\ loopConn = NoConn
  /\ phase = "serving"
  /\ client = [c \in Conns |-> "absent"]
  /\ inbox = [c \in Conns |-> NoLine]
  /\ byLoop = {}

-----------------------------------------------------------------------------
(* Sending and condemning, as the threads do it inside their own steps.    *)

(* The connections a send to which may fail now: conn_send does nothing on *)
(* one that is already condemned.                                          *)
MayFail(S) == {c \in S \intersect Flaky : ~terminate[c]}

(* server_disconnect_nicely on each of C: only the first call on a         *)
(* connection changes anything, and the loop is told once.                 *)
DisconnectNicely(C) ==
  /\ terminate' = [c \in Conns |-> terminate[c] \/ c \in C]
  /\ killWatcher' = [c \in Conns |->
        IF c \in C /\ ~terminate[c] /\ killWatcher[c] = "on" THEN "sent"
        ELSE killWatcher[c]]

(* One conn_send to each of S by any thread: write() fails on some of the  *)
(* flaky ones, and those are condemned.                                    *)
SendTo(S, failed) ==
  /\ failed \subseteq MayFail(S)
  /\ DisconnectNicely(failed)

-----------------------------------------------------------------------------
(* The worker threads: connection_worker.                                  *)

(* With workers_lock held and nothing to do: pthread_cond_wait.            *)
Wait(w) ==
  /\ pc[w] = "lock"
  /\ workersLock = None
  /\ workItems = <<>>
  /\ ~wterminate[w]
  /\ pc' = [pc EXCEPT ![w] = "waiting"]
  /\ UNCHANGED <<connVars, queueVars, conn, wterminate, loopVars, peerVars, byLoop>>

(* POSIX allows pthread_cond_wait to return without a signal.              *)
SpuriousWake(w) ==
  /\ pc[w] = "waiting"
  /\ pc' = [pc EXCEPT ![w] = "lock"]
  /\ UNCHANGED <<connVars, queueVars, conn, wterminate, loopVars, peerVars, byLoop>>

Exit(w) ==
  /\ pc[w] = "lock"
  /\ workersLock = None
  /\ wterminate[w]
  /\ pc' = [pc EXCEPT ![w] = "exited"]
  /\ UNCHANGED <<connVars, queueVars, conn, wterminate, loopVars, peerVars, byLoop>>

(* The first item leaves the list; workers_lock stays held.                *)
Take(w) ==
  /\ pc[w] = "lock"
  /\ workersLock = None
  /\ workItems # <<>>
  /\ ~wterminate[w]
  /\ workersLock' = w
  /\ conn' = [conn EXCEPT ![w] = Head(workItems)]
  /\ workItems' = Tail(workItems)
  /\ pc' = [pc EXCEPT ![w] = "claim"]
  /\ UNCHANGED <<connVars, wterminate, loopVars, peerVars, byLoop>>

(* Bug: workers_lock is never released.                                    *)
ClaimKeepsWorkersLock(w) ==
  /\ pc[w] = "claim"
  /\ status[conn[w]] = "open"
  /\ workerLock[conn[w]] = None
  /\ workerLock' = [workerLock EXCEPT ![conn[w]] = w]
  /\ pc' = [pc EXCEPT ![w] = "check"]
  /\ UNCHANGED <<status, terminate, worker, recv, dataWatcher, killWatcher, queueVars,
                 conn, wterminate, loopVars, peerVars, byLoop>>

(* conn->worker_lock is taken first and workers_lock released after.       *)
Claim(w) ==
  /\ pc[w] = "claim"
  /\ status[conn[w]] = "open"
  /\ workerLock[conn[w]] = None
  /\ workerLock' = [workerLock EXCEPT ![conn[w]] = w]
  /\ workersLock' = None
  /\ pc' = [pc EXCEPT ![w] = "check"]
  /\ UNCHANGED <<status, terminate, worker, recv, dataWatcher, killWatcher, workItems,
                 conn, wterminate, loopVars, peerVars, byLoop>>

(* Go back for more work without executing the line.                       *)
Abandon(w) ==
  /\ workerLock' = [workerLock EXCEPT ![conn[w]] = None]
  /\ pc' = [pc EXCEPT ![w] = "lock"]
  /\ conn' = [conn EXCEPT ![w] = NoConn]
  /\ UNCHANGED worker

(* A line of a condemned connection is not executed.                       *)
CheckTerminate(w) ==
  /\ pc[w] = "check"
  /\ status[conn[w]] = "open"
  /\ \/ /\ terminate[conn[w]]
        /\ Abandon(w)
     \/ /\ ~terminate[conn[w]]
        /\ pc' = [pc EXCEPT ![w] = "mark"]
        /\ UNCHANGED <<workerLock, worker, conn>>
  /\ UNCHANGED <<status, terminate, recv, dataWatcher, killWatcher, queueVars,
                 wterminate, loopVars, peerVars, byLoop>>

(* Bug: the line is executed although the previous one still is.           *)
MarkIgnoresWorker(w) ==
  /\ pc[w] = "mark"
  /\ status[conn[w]] = "open"
  /\ worker' = [worker EXCEPT ![conn[w]] = TRUE]
  /\ workerLock' = [workerLock EXCEPT ![conn[w]] = None]
  /\ pc' = [pc EXCEPT ![w] = "run"]
  /\ UNCHANGED <<status, terminate, recv, dataWatcher, killWatcher, queueVars,
                 conn, wterminate, loopVars, peerVars, byLoop>>

(* "Got new data too fast": the line is dropped while conn->worker is set; *)
(* otherwise the flag is set and conn->worker_lock released.               *)
Mark(w) ==
  /\ pc[w] = "mark"
  /\ status[conn[w]] = "open"
  /\ \/ /\ worker[conn[w]]
        /\ Abandon(w)
     \/ /\ ~worker[conn[w]]
        /\ worker' = [worker EXCEPT ![conn[w]] = TRUE]
        /\ workerLock' = [workerLock EXCEPT ![conn[w]] = None]
        /\ pc' = [pc EXCEPT ![w] = "run"]
        /\ UNCHANGED conn
  /\ UNCHANGED <<status, terminate, recv, dataWatcher, killWatcher, queueVars,
                 wterminate, loopVars, peerVars, byLoop>>

(* cli_run_cmd: "quit" condemns the connection; what any other line sends  *)
(* may fail and condemn it too.                                            *)
Run(w) ==
  LET c == conn[w] IN
  /\ pc[w] = "run"
  /\ status[c] = "open"
  /\ \/ /\ recv[c] = "quit"
        /\ DisconnectNicely({c})
     \/ /\ recv[c] # "quit"
        /\ \E failed \in SUBSET {c} : SendTo({c}, failed)
  /\ pc' = [pc EXCEPT ![w] = "prompt"]
  /\ UNCHANGED <<status, worker, workerLock, recv, dataWatcher, queueVars,
                 conn, wterminate, loopVars, peerVars, byLoop>>

(* conn_send(PROMPT): it reaches the client unless the connection is       *)
(* condemned or this write fails.                                          *)
Prompt(w) ==
  LET c == conn[w] IN
  /\ pc[w] = "prompt"
  /\ status[c] = "open"
  /\ \E failed \in SUBSET {c} :
        /\ SendTo({c}, failed)
        /\ client' = [client EXCEPT ![c] =
              IF terminate[c] \/ c \in failed THEN @ ELSE "prompted"]
  /\ pc' = [pc EXCEPT ![w] = "done"]
  /\ UNCHANGED <<status, worker, workerLock, recv, dataWatcher, queueVars,
                 conn, wterminate, loopVars, inbox, byLoop>>

(* Bug: conn->worker stays set.                                            *)
DoneLeavesWorker(w) ==
  /\ pc[w] = "done"
  /\ status[conn[w]] = "open"
  /\ workerLock[conn[w]] = None
  /\ pc' = [pc EXCEPT ![w] = "lock"]
  /\ conn' = [conn EXCEPT ![w] = NoConn]
  /\ UNCHANGED <<connVars, queueVars, wterminate, loopVars, peerVars, byLoop>>

(* conn->worker is cleared under conn->worker_lock.                        *)
Done(w) ==
  /\ pc[w] = "done"
  /\ status[conn[w]] = "open"
  /\ workerLock[conn[w]] = None
  /\ worker' = [worker EXCEPT ![conn[w]] = FALSE]
  /\ pc' = [pc EXCEPT ![w] = "lock"]
  /\ conn' = [conn EXCEPT ![w] = NoConn]
  /\ UNCHANGED <<status, terminate, workerLock, recv, dataWatcher, killWatcher, queueVars,
                 wterminate, loopVars, peerVars, byLoop>>

WorkerStep(w) == \/ Wait(w)
                 \/ Exit(w)
                 \/ Take(w)
                 \/ Claim(w)
                 \/ CheckTerminate(w)
                 \/ Mark(w)
                 \/ Run(w)
                 \/ Prompt(w)
                 \/ Done(w)

-----------------------------------------------------------------------------
(* The event loop: callbacks libev runs one after the other.               *)

(* Callbacks already collected when MSG_TERM is handled still run.         *)
Dispatching == loopPc = "poll" /\ phase \in {"serving", "breaking"}

(* server_accept_connection.  Nobody else knows the connection yet, so the *)
(* handler is one step.  The greeting may fail to be sent.                 *)
Accept(c) ==
  /\ Dispatching
  /\ status[c] = "absent"
  /\ status' = [status EXCEPT ![c] = "open"]
  /\ dataWatcher' = [dataWatcher EXCEPT ![c] = TRUE]
  /\ \/ /\ client' = [client EXCEPT ![c] = "prompted"]
        /\ killWatcher' = [killWatcher EXCEPT ![c] = "on"]
        /\ UNCHANGED terminate
     \/ /\ c \in Flaky
        /\ client' = [client EXCEPT ![c] = "sent"]
        /\ killWatcher' = [killWatcher EXCEPT ![c] = "sent"]
        /\ terminate' = [terminate EXCEPT ![c] = TRUE]
  /\ UNCHANGED <<worker, workerLock, recv, queueVars, workerVars, loopVars, inbox, byLoop>>

(* err_stop and err_free: conn_fulfixinit failed, or accept() did.         *)
Refuse(c) ==
  /\ Dispatching
  /\ status[c] = "absent"
  /\ status' = [status EXCEPT ![c] = "freed"]
  /\ UNCHANGED <<terminate, worker, workerLock, recv, dataWatcher, killWatcher, queueVars,
                 workerVars, loopVars, peerVars, byLoop>>

(* receive_peer_data up to conn_do_work: a whole line is in the buffer.    *)
Receive(c) ==
  /\ Dispatching
  /\ status[c] = "open"
  /\ dataWatcher[c]
  /\ inbox[c] # NoLine
  /\ recv' = [recv EXCEPT ![c] = inbox[c]]
  /\ inbox' = [inbox EXCEPT ![c] = NoLine]
  /\ loopPc' = "enqueue"
  /\ loopConn' = c
  /\ UNCHANGED <<status, terminate, worker, workerLock, dataWatcher, killWatcher, queueVars,
                 workerVars, phase, client, byLoop>>

(* Bug: workers_cond is not signalled.                                     *)
DoWorkWithoutSignal ==
  /\ loopPc = "enqueue"
  /\ workersLock = None
  /\ loopConn \notin Range(workItems)
  /\ workItems' = Append(workItems, loopConn)
  /\ loopPc' = "poll"
  /\ loopConn' = NoConn
  /\ UNCHANGED <<connVars, workersLock, workerVars, phase, peerVars, byLoop>>

(* conn_do_work: append under workers_lock and signal, which wakes one of  *)
(* the waiting workers if there is any.  Nothing keeps the code from       *)
(* appending what is already there; the model ends there (see above).      *)
DoWork ==
  /\ loopPc = "enqueue"
  /\ workersLock = None
  /\ loopConn \notin Range(workItems)
  /\ workItems' = Append(workItems, loopConn)
  /\ \/ /\ \A w \in Workers : pc[w] # "waiting"
        /\ UNCHANGED pc
     \/ \E w \in Workers : /\ pc[w] = "waiting"
                           /\ pc' = [pc EXCEPT ![w] = "lock"]
  /\ loopPc' = "poll"
  /\ loopConn' = NoConn
  /\ UNCHANGED <<connVars, workersLock, conn, wterminate, phase, peerVars, byLoop>>

(* server_disconnect_cb enters disconnect_peer, which stops the watchers.  *)
Disconnect(c) ==
  /\ Dispatching
  /\ status[c] = "open"
  /\ killWatcher[c] = "sent"
  /\ loopPc' = "dequeue"
  /\ loopConn' = c
  /\ dataWatcher' = [dataWatcher EXCEPT ![c] = FALSE]
  /\ killWatcher' = [killWatcher EXCEPT ![c] = "off"]
  /\ UNCHANGED <<status, terminate, worker, workerLock, recv, queueVars, workerVars,
                 phase, peerVars, byLoop>>

(* list_del of the entry of c; a list node is on the list at most once.    *)
Unlink(s, c) ==
  IF c \notin Range(s) THEN s
  ELSE LET i == CHOOSE j \in DOMAIN s : s[j] = c
       IN  SubSeq(s, 1, i - 1) \o SubSeq(s, i + 1, Len(s))

(* Bug: the connection stays on the work list.                             *)
DequeueNothing ==
  /\ loopPc = "dequeue"
  /\ workersLock = None
  /\ loopPc' = "spin"
  /\ UNCHANGED <<connVars, queueVars, workerVars, loopConn, phase, peerVars, byLoop>>

(* Under workers_lock the connection is taken off work_items.              *)
Dequeue ==
  /\ loopPc = "dequeue"
  /\ workersLock = None
  /\ workItems' = Unlink(workItems, loopConn)
  /\ loopPc' = "spin"
  /\ UNCHANGED <<connVars, workersLock, workerVars, loopConn, phase, peerVars, byLoop>>

(* Bug: the loop does not wait for conn->worker.                           *)
SpinNotAtAll ==
  /\ loopPc = "spin"
  /\ loopPc' = "free"
  /\ UNCHANGED <<connVars, queueVars, workerVars, loopConn, phase, peerVars, byLoop>>

(* The spin on conn->worker is over; the two steps below are apart because *)
(* a worker can set the flag between them.                                 *)
Spin ==
  /\ loopPc = "spin"
  /\ ~worker[loopConn]
  /\ loopPc' = "free"
  /\ UNCHANGED <<connVars, queueVars, workerVars, loopConn, phase, peerVars, byLoop>>

(* conn->worker_lock is taken, never to be released, and the connection is *)
(* unlinked from conn_list and freed.                                      *)
Free ==
  /\ loopPc = "free"
  /\ workerLock[loopConn] = None
  /\ workerLock' = [workerLock EXCEPT ![loopConn] = Server]
  /\ status' = [status EXCEPT ![loopConn] = "freed"]
  /\ loopPc' = "poll"
  /\ loopConn' = NoConn
  /\ UNCHANGED <<terminate, worker, recv, dataWatcher, killWatcher, queueVars, workerVars,
                 phase, peerVars, byLoop>>

-----------------------------------------------------------------------------
(* The messages of the pipe: server_msg_cb and server_handlesignal.        *)

(* The send loops go over conn_list; each connection is written to on its  *)
(* own, so one step stands for the whole walk.                             *)
SendToAll == \E failed \in SUBSET MayFail(Open) :
                /\ SendTo(Open, failed)
                /\ byLoop' = byLoop \union failed

Pause ==
  /\ Dispatching
  /\ "pause" \in Msgs
  /\ SendToAll
  /\ dataWatcher' = [c \in Conns |-> dataWatcher[c] /\ c \notin Open]
  /\ UNCHANGED <<status, worker, workerLock, recv, queueVars, workerVars, loopVars, peerVars>>

Continue ==
  /\ Dispatching
  /\ "cont" \in Msgs
  /\ SendToAll
  /\ dataWatcher' = [c \in Conns |-> dataWatcher[c] \/ c \in Open]
  /\ UNCHANGED <<status, worker, workerLock, recv, queueVars, workerVars, loopVars, peerVars>>

(* The length of the data read is compared with the size of the header:    *)
(* a wall of any other length is logged as invalid and goes to nobody.     *)
Wall ==
  /\ Dispatching
  /\ "wall" \in Msgs
  /\ SizeofSignal \in WallSizes
  /\ SendToAll
  /\ UNCHANGED <<status, worker, workerLock, recv, dataWatcher, queueVars, workerVars,
                 loopVars, peerVars>>

(* ev_unloop: the loop is left after the callbacks already collected.      *)
Term ==
  /\ Dispatching
  /\ "term" \in Msgs
  /\ phase' = "breaking"
  /\ UNCHANGED <<connVars, queueVars, workerVars, loopPc, loopConn, peerVars, byLoop>>

-----------------------------------------------------------------------------
(* The end of server_main, after ev_run.                                   *)

LeaveLoop ==
  /\ loopPc = "poll"
  /\ phase = "breaking"
  /\ phase' = "closing"
  /\ UNCHANGED <<connVars, queueVars, workerVars, loopPc, loopConn, peerVars, byLoop>>

(* disconnect_peers, one peer: the farewell may fail, conn->terminate is   *)
(* not set otherwise, and disconnect_peer begins.                          *)
DisconnectNext(c) ==
  /\ loopPc = "poll"
  /\ phase = "closing"
  /\ status[c] = "open"
  /\ terminate' \in {terminate, [terminate EXCEPT ![c] = terminate[c] \/ c \in Flaky]}
  /\ byLoop' = byLoop \union {c}
  /\ loopPc' = "dequeue"
  /\ loopConn' = c
  /\ dataWatcher' = [dataWatcher EXCEPT ![c] = FALSE]
  /\ killWatcher' = [killWatcher EXCEPT ![c] = "off"]
  /\ UNCHANGED <<status, worker, workerLock, recv, queueVars, workerVars, phase, peerVars>>

(* Bug: the workers are told to terminate but not woken.                   *)
ShutdownWithoutBroadcast ==
  /\ loopPc = "poll"
  /\ phase = "closing"
  /\ Open = {}
  /\ workersLock = None
  /\ wterminate' = [w \in Workers |-> TRUE]
  /\ loopPc' = "join"
  /\ UNCHANGED <<connVars, queueVars, pc, conn, loopConn, phase, peerVars, byLoop>>

(* conn_shutdown under workers_lock: every worker is told to terminate and *)
(* those that wait are woken.                                              *)
Shutdown ==
  /\ loopPc = "poll"
  /\ phase = "closing"
  /\ Open = {}
  /\ workersLock = None
  /\ wterminate' = [w \in Workers |-> TRUE]
  /\ pc' = [w \in Workers |-> IF pc[w] = "waiting" THEN "lock" ELSE pc[w]]
  /\ loopPc' = "join"
  /\ UNCHANGED <<connVars, queueVars, conn, loopConn, phase, peerVars, byLoop>>

(* pthread_join of every worker, then conn_destroy and the thread's end.   *)
Join ==
  /\ loopPc = "join"
  /\ \A w \in Workers : pc[w] = "exited"
  /\ loopPc' = "poll"
  /\ phase' = "down"
  /\ UNCHANGED <<connVars, queueVars, workerVars, loopConn, peerVars, byLoop>>

LoopStep == \/ DoWork
            \/ Dequeue
            \/ Spin
            \/ Free
            \/ LeaveLoop
            \/ \E c \in Conns : DisconnectNext(c)
            \/ Shutdown
            \/ Join

-----------------------------------------------------------------------------
(* A peer sends a line: a polite one only after a prompt came in.          *)
ClientSend(c) ==
  /\ status[c] = "open"
  /\ inbox[c] = NoLine
  /\ client[c] = "prompted" \/ c \in Impatient
  /\ \E line \in Lines : inbox' = [inbox EXCEPT ![c] = line]
  /\ client' = [client EXCEPT ![c] = "sent"]
  /\ UNCHANGED <<connVars, queueVars, workerVars, loopVars, byLoop>>

Next == \/ \E w \in Workers : WorkerStep(w) \/ SpuriousWake(w)
        \/ \E c \in Conns : \/ Accept(c)
                            \/ Refuse(c)
                            \/ Receive(c)
                            \/ Disconnect(c)
                            \/ ClientSend(c)
        \/ LoopStep
        \/ Pause
        \/ Continue
        \/ Wall
        \/ Term

Spec == Init /\ [][Next]_vars

(* Every thread is scheduled.  Between two of its callbacks the loop may   *)
(* run others, so that "ready" comes and goes: the strong fairness is that *)
(* of libev, where one iteration invokes every watcher that is pending and *)
(* ev_unloop ends the loop after that iteration.  Nothing is assumed of    *)
(* the peers, of the console or of spurious wakeups.                       *)
Fairness == /\ \A w \in Workers : WF_vars(WorkerStep(w))
            /\ WF_vars(LoopStep)
            /\ \A c \in Conns : SF_vars(Disconnect(c))
            /\ SF_vars(LeaveLoop)

FairSpec == Spec /\ Fairness

-----------------------------------------------------------------------------
(* A worker that executes a line has conn->worker set, and is the only one *)
(* that executes a line of this connection.                                *)
RunnersMarked ==
  \A w1, w2 \in Workers :
     Running(w1) => /\ worker[conn[w1]]
                    /\ Running(w2) /\ conn[w1] = conn[w2] => w1 = w2

(* A flag that is set belongs to a worker that will clear it.              *)
MarksHeld == \A c \in Conns : worker[c] => \E w \in Workers : Running(w) /\ conn[w] = c

(* Two workers never execute lines of one connection at the same time, and *)
(* conn->worker is set exactly while one does: a flag not set would let    *)
(* connection_worker begin a second line, one left set would drop every    *)
(* later line as too fast and keep disconnect_peer spinning for ever.      *)
OneRunner == RunnersMarked /\ MarksHeld

(* A worker's connection is not freed under it: the race that the comments *)
(* in disconnect_peer and connection_worker say their locking avoids.      *)
NoUseAfterFree == \A w \in Workers : Holds(w) => status[conn[w]] = "open"

(* The same of every connection that the event loop does not condemn by a  *)
(* failed send of its own, nor closes unasked at shutdown.                 *)
NoUseAfterQuit ==
  \A w \in Workers : Holds(w) /\ conn[w] \notin byLoop => status[conn[w]] = "open"

(* Why it holds: the inductive invariant of the locking, in parts.         *)

(* The locks are held where the code holds them.                           *)
LockInv ==
  \A w \in Workers :
     /\ pc[w] = "claim" <=> workersLock = w
     /\ pc[w] \in {"check", "mark"} => workerLock[conn[w]] = w

(* A worker that has read conn->terminate as unset, and whose connection   *)
(* is condemned since, will find conn->worker set: only the command that   *)
(* is running condemned it, and cannot clear the flag without the lock.    *)
DoomInv ==
  /\ \A w \in Workers :
        pc[w] = "mark" /\ terminate[conn[w]] /\ conn[w] \notin byLoop => worker[conn[w]]
  /\ \A c \in Conns : killWatcher[c] = "sent" => terminate[c]

(* What is queued or about to be claimed is not freed, is linked once, and *)
(* is not what the loop is disconnecting.                                  *)
QueueInv ==
  /\ \A i, j \in DOMAIN workItems : workItems[i] = workItems[j] => i = j
  /\ \A c \in Range(workItems) : status[c] = "open"
  /\ \A w \in Workers : pc[w] = "claim" => status[conn[w]] = "open"
  /\ loopPc \in {"spin", "free"} =>
        /\ loopConn \notin Range(workItems)
        /\ \A w \in Workers : pc[w] = "claim" => conn[w] # loopConn

(* What the loop knows of the connection it is disconnecting.              *)
LoopInv ==
  /\ loopPc \in {"enqueue", "dequeue", "spin", "free"} => status[loopConn] = "open"
  /\ loopPc \in {"dequeue", "spin", "free"} /\ loopConn \notin byLoop => terminate[loopConn]
  /\ loopPc = "free" /\ loopConn \notin byLoop => ~worker[loopConn]

(* The locks, the flags and the work list together keep freed connections  *)
(* away from the workers.                                                  *)
LockingInv == /\ LockInv
              /\ OneRunner
              /\ DoomInv
              /\ QueueInv
              /\ LoopInv
              /\ NoUseAfterQuit

(* work_items holds a connection at most once, and none that is freed: the *)
(* list node is embedded in struct connection and conn_do_work does not    *)
(* look whether it is linked.  The line of a polite client is in one place *)
(* at a time: no worker has yet to answer the line before.                 *)
QueuedOnce ==
  /\ \A i, j \in DOMAIN workItems : workItems[i] = workItems[j] => i = j
  /\ \A c \in Range(workItems) : status[c] = "open"
  /\ \A c \in Range(workItems) \ Impatient :
        /\ client[c] = "sent"
        /\ \A w \in Workers : conn[w] = c => pc[w] = "done"
  /\ loopPc = "enqueue" /\ loopConn \notin Impatient => loopConn \notin Range(workItems)

(* A line is never left on the list with every worker asleep: the signal   *)
(* of conn_do_work is not lost.                                            *)
NoLostWakeup == workItems # <<>> => \E w \in Workers : pc[w] # "waiting"

(* Each queued line is taken off the list, by a worker or by the loop that *)
(* closes its connection.                                                  *)
QueueDrains == \A c \in Conns : (c \in Range(workItems)) ~> (c \notin Range(workItems))

(* MSG_TERM stops the server: every peer is disconnected and every worker  *)
(* joined, unless a worker is left with a freed connection or a connection *)
(* is queued twice on the way.                                             *)
ShutdownCompletes ==
  (phase = "breaking") ~> \/ phase = "down"
                          \/ ~NoUseAfterFree
                          \/ loopPc = "enqueue" /\ loopConn \in Range(workItems)

(* The abstract view of a connection: condemned once conn->terminate is    *)
(* set, served while a worker is between setting and clearing              *)
(* conn->worker.                                                           *)
SessionPhase == [c \in Conns |->
   IF status[c] = "freed" THEN "gone"
   ELSE IF status[c] = "absent" THEN "absent"
   ELSE IF terminate[c] THEN "closing" ELSE "open"]

Served == {c \in Conns : \E w \in Workers : Running(w) /\ conn[w] = c}

S == INSTANCE Sessions WITH phase <- SessionPhase, serving <- Served

(* Without messages to the loop, the service implements Sessions: commands *)
(* one at a time, none begun on a condemned connection, which is closed    *)
(* once the command running on it has ended.                               *)
AsSessions == S!FairSpec
=============================================================================
