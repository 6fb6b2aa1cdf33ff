----------------------------- MODULE PeerLines ------------------------------
(***************************************************************************)
(* What happens to the bytes of one connection: the lines its client types *)
(* go through conn->recv to a worker, the answers go through conn->send to *)
(* the client's screen.  The event loop reads and the workers execute; the *)
(* loop sends too, when the console walls or pauses the players.  Who gets *)
(* a connection and how it is freed is the subject of Connections; here it *)
(* only matters that a line is taken by some worker, or dropped.           *)
(*                                                                         *)
(* A read returns any part of what is on the wire, and a write takes any   *)
(* part of what it is given.  A call of vsnprintf(), read() or write() is  *)
(* one step, with the arithmetic on idx that follows it.                   *)
(***************************************************************************)
EXTENDS Buffer

CONSTANTS Lines,       \* the texts a client may type
          Eols,        \* how it ends a line: NL, or CR NL
          MaxLines,    \* bound: lines typed
          Outputs,     \* what a command may print
          PromptChar,  \* PROMPT, as one byte
          Notice,      \* the text of a wall, or of being paused or resumed
          MaxNotices,  \* bound: walls and pauses
          Flaky,       \* whether a write may fail
          Workers,
          Loop

ASSUME TextsAssumption == /\ Lines \subseteq Seq(Chars)
                          /\ Eols \subseteq {<<NL>>, <<CR, NL>>}
                          /\ PromptChar \in Chars
                          /\ Outputs \union {Notice} \subseteq Seq(Chars \ {PromptChar})
                          /\ <<>> # Notice
ASSUME BoundsAssumption == MaxLines \in Nat /\ MaxNotices \in Nat
ASSUME SendersAssumption == Loop \notin Workers

Senders == Workers \union {Loop}
Prompt == <<PromptChar>>

VARIABLES
  \* the client
  lines,       \* how many lines it has typed
  line,        \* the last of them, with its end
  mayType,     \* a prompt has appeared since
  wire,        \* bytes it has sent and the loop has not read
  screen,      \* bytes it has got since then
  \* struct connection
  recv,
  send,
  queued,      \* conn->work is on the work list
  busy,        \* conn->worker
  terminate,   \* conn->terminate
  paused,      \* conn->data_watcher is stopped
  \* the threads
  pc,          \* where each of them is
  text,        \* what it is sending
  sb,          \* the bytes of it that write() has taken
  notices,     \* walls and pauses so far
  \* what has happened to the connection
  answered,    \* what was handed to conn_send(), fitted, and was not on the
               \* screen when the client last typed
  log          \* "too_fast", "no_room", "write_failed", "crossed"

clientVars == <<lines, line, mayType, wire>>
recvVars == <<recv, queued, busy, paused>>
sendVars == <<screen, send, terminate, sb, answered>>
vars == <<clientVars, recvVars, sendVars, pc, text, notices, log>>

WorkerPcs == {"idle", "run", "says", "flushes", "reset", "prompts", "flushes_prompt", "clear"}
LoopPcs == {"poll", "queue", "reset", "says", "flushes"}

TypeOK ==
  /\ lines \in 0..MaxLines
  /\ line \in Seq(Bytes) /\ wire \in Seq(Bytes) /\ screen \in Seq(Bytes)
  /\ answered \in Seq(Bytes)
  /\ IsBuffer(recv) /\ IsBuffer(send)
  /\ mayType \in BOOLEAN /\ queued \in BOOLEAN /\ busy \in BOOLEAN
  /\ terminate \in BOOLEAN /\ paused \in BOOLEAN
  /\ pc \in [Senders -> WorkerPcs \union LoopPcs]
  /\ text \in [Senders -> Seq(Chars)]
  /\ sb \in [Senders -> 0..MaxSize]
  /\ notices \in 0..MaxNotices
  /\ log \subseteq {"too_fast", "no_room", "write_failed", "crossed"}

(* conn_fulfixinit() has sent the first prompt; recv has no buffer yet.    *)
Init ==
  /\ lines = 0 /\ line = <<>> /\ mayType = TRUE /\ wire = <<>>
  /\ screen = Prompt /\ answered = Prompt
  /\ recv = EmptyBuffer /\ send = Reset(Printed(EmptyBuffer, Prompt))
  /\ queued = FALSE /\ busy = FALSE /\ terminate = FALSE /\ paused = FALSE
  /\ pc = [s \in Senders |-> IF s = Loop THEN "poll" ELSE "idle"]
  /\ text = [s \in Senders |-> <<>>] /\ sb = [s \in Senders |-> 0]
  /\ notices = 0 /\ log = {}

Goto(s, label) == pc' = [pc EXCEPT ![s] = label]

-----------------------------------------------------------------------------
(* The client answers a prompt with a line.                                *)
Type ==
  /\ lines < MaxLines
  /\ mayType
  /\ \E l \in Lines, eol \in Eols : /\ line' = l \o eol
                                    /\ wire' = wire \o line'
  /\ lines' = lines + 1
  /\ mayType' = FALSE
  /\ screen' = <<>>
  /\ answered' = SubSeq(answered, Len(screen) + 1, Len(answered))
  /\ UNCHANGED <<recvVars, send, terminate, sb, pc, text, notices, log>>

(***************************************************************************)
(* got_new_peer_data() and receive_peer_data(): read once; when the buffer *)
(* ends with a newline, queue it as one line and start it afresh.  A full  *)
(* buffer leaves read() no room: it returns nothing, and will again.       *)
(***************************************************************************)
Read ==
  /\ pc[Loop] = "poll" /\ ~paused /\ wire # <<>>
  /\ LET room == Room(Allocated(recv))
     IN \E r \in 0..AtMost(room, Len(wire)) :
          /\ r = 0 => room = 0
          /\ LET b == AfterRead(Allocated(recv), SubSeq(wire, 1, r))
             IN IF EndsLine(b)
                THEN recv' = Terminated(b) /\ Goto(Loop, "queue")
                ELSE recv' = b /\ UNCHANGED pc
          /\ wire' = SubSeq(wire, r + 1, Len(wire))
  /\ UNCHANGED <<lines, line, mayType, queued, busy, paused, sendVars, text, notices, log>>

(* conn_do_work().                                                         *)
Queue ==
  /\ pc[Loop] = "queue"
  /\ queued' = TRUE
  /\ Goto(Loop, "reset")
  /\ UNCHANGED <<clientVars, recv, busy, paused, sendVars, text, notices, log>>

(* buffer_reset(&data->recv), at the end of the callback.                  *)
ResetByLoop ==
  /\ pc[Loop] = "reset"
  /\ recv' = Reset(recv)
  /\ Goto(Loop, "poll")
  /\ UNCHANGED <<clientVars, queued, busy, paused, sendVars, text, notices, log>>

-----------------------------------------------------------------------------
(* conn_send() up to vbufprintf(), whose failure it does not look at.      *)
Say(s, flushing, done) ==
  /\ text' = [text EXCEPT ![s] = <<>>]
  /\ \/ /\ terminate
        /\ Goto(s, done)
        /\ UNCHANGED <<send, sb, answered, log>>
     \/ /\ ~terminate
        /\ send' = Printed(send, text[s])
        /\ sb' = [sb EXCEPT ![s] = 0]
        /\ answered' = IF CanPrint(send, text[s]) THEN answered \o text[s] ELSE answered
        /\ log' = log
                  \union (IF CanPrint(send, text[s]) THEN {} ELSE {"no_room"})
                  \union (IF \E o \in Senders \ {s} : pc[o] \in {"flushes", "flushes_prompt"}
                          THEN {"crossed"} ELSE {})
        /\ Goto(s, flushing)
  /\ UNCHANGED <<clientVars, recvVars, screen, terminate, notices>>

(***************************************************************************)
(* write_buffer_into_fd() under conn_send_buffer(): nothing in the buffer, *)
(* or a write that fails, is a send error and ends the connection.         *)
(***************************************************************************)
GiveUp(s, done) ==
  /\ terminate' = TRUE
  /\ Goto(s, done)
  /\ UNCHANGED <<mayType, screen, send, sb>>

(* Mutant: what is left is written from the beginning of the buffer.       *)
FlushAgain(s, done) ==
  /\ \/ sb[s] = 0 /\ send.idx = 0 /\ GiveUp(s, done) /\ UNCHANGED log
     \/ \E r \in 1..(send.idx - sb[s]) :
          /\ sb[s] < send.idx
          /\ screen' = screen \o SubSeq(send.buf, 1, r)
          /\ mayType' = (mayType \/ \E i \in 1..r : send.buf[i] = PromptChar)
          /\ IF sb[s] + r < send.idx
             THEN sb' = [sb EXCEPT ![s] = @ + r] /\ UNCHANGED <<send, pc>>
             ELSE /\ send' = Reset(send)
                  /\ sb' = [sb EXCEPT ![s] = 0]
                  /\ Goto(s, done)
          /\ UNCHANGED <<terminate, log>>
  /\ UNCHANGED <<lines, line, wire, recvVars, answered, text, notices>>

(* Mutant: a short write counts as a send error.                           *)
FlushOnce(s, done) ==
  /\ \/ sb[s] < send.idx /\ GiveUp(s, done) /\ UNCHANGED log
     \/ /\ screen' = screen \o SubSeq(send.buf, 1, send.idx)
        /\ mayType' = (mayType \/ \E i \in 1..send.idx : send.buf[i] = PromptChar)
        /\ send' = Reset(send)
        /\ Goto(s, done)
        /\ UNCHANGED <<terminate, sb, log>>
  /\ UNCHANGED <<lines, line, wire, recvVars, answered, text, notices>>

Flush(s, done) ==
  /\ \/ sb[s] = 0 /\ send.idx = 0 /\ GiveUp(s, done) /\ UNCHANGED log
     \/ Flaky /\ sb[s] < send.idx /\ GiveUp(s, done) /\ log' = log \union {"write_failed"}
     \/ \E r \in 1..(send.idx - sb[s]) :
          LET bytes == SubSeq(send.buf, sb[s] + 1, sb[s] + r)
          IN /\ sb[s] < send.idx
             /\ screen' = screen \o bytes
             /\ mayType' = (mayType \/ \E i \in 1..r : bytes[i] = PromptChar)
             /\ IF sb[s] + r < send.idx
                THEN sb' = [sb EXCEPT ![s] = @ + r] /\ UNCHANGED <<send, pc>>
                ELSE /\ send' = Reset(send)
                     /\ sb' = [sb EXCEPT ![s] = 0]
                     /\ Goto(s, done)
             /\ UNCHANGED <<terminate, log>>
     \/ /\ sb[s] > 0 /\ sb[s] >= send.idx
        /\ send' = Reset(send)
        /\ sb' = [sb EXCEPT ![s] = 0]
        /\ Goto(s, done)
        /\ UNCHANGED <<mayType, screen, terminate, log>>
  /\ UNCHANGED <<lines, line, wire, recvVars, answered, text, notices>>

-----------------------------------------------------------------------------
(* connection_worker() up to conn->worker = 1.                             *)
Take(w) ==
  /\ pc[w] = "idle" /\ queued
  /\ queued' = FALSE
  /\ \/ /\ terminate
        /\ UNCHANGED <<busy, pc, log>>
     \/ /\ ~terminate /\ busy
        /\ log' = log \union {"too_fast"}
        /\ UNCHANGED <<busy, pc>>
     \/ /\ ~terminate /\ ~busy
        /\ busy' = TRUE
        /\ Goto(w, "run")
        /\ UNCHANGED log
  /\ UNCHANGED <<clientVars, recv, paused, sendVars, text, notices>>

(* An empty line does nothing; a command prints nothing, or something.     *)
Run(w) ==
  /\ pc[w] = "run"
  /\ \E o \in (IF Text(recv) = <<>> THEN {<<>>} ELSE Outputs) :
       /\ text' = [text EXCEPT ![w] = o]
       /\ Goto(w, IF o = <<>> THEN "reset" ELSE "says")
  /\ UNCHANGED <<clientVars, recvVars, sendVars, notices, log>>

ResetByWorker(w) ==
  /\ pc[w] = "reset"
  /\ recv' = Reset(recv)
  /\ text' = [text EXCEPT ![w] = Prompt]
  /\ Goto(w, "prompts")
  /\ UNCHANGED <<clientVars, queued, busy, paused, sendVars, notices, log>>

Clear(w) ==
  /\ pc[w] = "clear"
  /\ busy' = FALSE
  /\ Goto(w, "idle")
  /\ UNCHANGED <<clientVars, recv, queued, paused, sendVars, text, notices, log>>

WorkerPrints(w) == \/ pc[w] = "says" /\ Say(w, "flushes", "reset")
                   \/ pc[w] = "prompts" /\ Say(w, "flushes_prompt", "clear")
WorkerFlushes(w) == \/ pc[w] = "flushes" /\ Flush(w, "reset")
                    \/ pc[w] = "flushes_prompt" /\ Flush(w, "clear")

-----------------------------------------------------------------------------
(***************************************************************************)
(* server_handlesignal(): the wall only sends; a pause stops the watcher   *)
(* before it sends, and a resumption starts it.                            *)
(***************************************************************************)
Notify(stop) ==
  /\ pc[Loop] = "poll"
  /\ paused' = stop
  /\ text' = [text EXCEPT ![Loop] = Notice]
  /\ Goto(Loop, "says")
  /\ UNCHANGED <<clientVars, recv, queued, busy, sendVars, log>>

Wall == notices < MaxNotices /\ notices' = notices + 1 /\ Notify(paused)
Pause == notices < MaxNotices /\ notices' = notices + 1 /\ ~paused /\ Notify(TRUE)
Resume == paused /\ Notify(FALSE) /\ UNCHANGED notices

LoopReads == Read \/ Queue \/ ResetByLoop
LoopSends == \/ pc[Loop] = "says" /\ Say(Loop, "flushes", "poll")
             \/ pc[Loop] = "flushes" /\ Flush(Loop, "poll")
WorkerStep(w) == \/ Take(w) \/ Run(w) \/ WorkerPrints(w) \/ WorkerFlushes(w)
                 \/ ResetByWorker(w) \/ Clear(w)

Next == \/ Type \/ LoopReads \/ LoopSends \/ Wall \/ Pause \/ Resume
        \/ \E w \in Workers : WorkerStep(w)

Spec == Init /\ [][Next]_vars

(* The threads run, and a paused player is resumed some day.               *)
FairSpec == /\ Spec
            /\ WF_vars(LoopReads) /\ WF_vars(LoopSends) /\ WF_vars(Resume)
            /\ \A w \in Workers : WF_vars(WorkerStep(w))

-----------------------------------------------------------------------------
(***************************************************************************)
(* The command a worker executes is the last line its client typed: not a  *)
(* part of it, nothing of another one, and without the end of the line,    *)
(* however the reads cut it up and whenever loop and worker reset the      *)
(* buffer (connection.c:133, server.c:291), as long as loop and workers    *)
(* never send at once: a prompt that is sent twice has the client type     *)
(* twice, and two lines at once are not kept apart.                        *)
(***************************************************************************)
LineIntact ==
  "crossed" \notin log =>
    \A w \in Workers :
      pc[w] = "run" => /\ Text(recv) \in Lines
                       /\ \E eol \in Eols : line = Text(recv) \o eol

(***************************************************************************)
(* A line that fits the largest buffer, its end included, is executed, or  *)
(* dropped because the worker of the line before is not done, or the       *)
(* connection ends, or loop and worker were sending at once (see           *)
(* LineIntact).                                                            *)
(***************************************************************************)
LineRuns ==
  (wire # <<>> /\ Len(line) <= MaxSize) ~> \/ \E w \in Workers : pc[w] = "run"
                                           \/ "too_fast" \in log \/ terminate
                                           \/ "crossed" \in log

(***************************************************************************)
(* conn_send_buffer() ends a connection for a write that failed, a text    *)
(* that does not fit, or because the loop and a worker were sending at     *)
(* once; never otherwise.                                                  *)
(***************************************************************************)
SendErrorsReal == terminate => log \intersect {"write_failed", "no_room", "crossed"} # {}

(***************************************************************************)
(* As long as they never send at once, what the client sees is what was    *)
(* sent, in that order and without a gap, and all of it when nobody sends. *)
(***************************************************************************)
OutputWhole ==
  "crossed" \notin log =>
    /\ Len(screen) <= Len(answered)
    /\ screen = SubSeq(answered, 1, Len(screen))
    /\ \/ terminate \/ screen = answered
       \/ \E s \in Senders : pc[s] \in {"flushes", "flushes_prompt"}
=============================================================================
