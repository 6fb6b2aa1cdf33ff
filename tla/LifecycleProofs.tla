-------------------------- MODULE LifecycleProofs --------------------------
(***************************************************************************)
(* Theorems about Lifecycle, for walls of any length and any number of     *)
(* messages, and, where nothing else is said, for signals at any time.     *)
(***************************************************************************)
EXTENDS Lifecycle, TLAPS, SequenceTheorems

-----------------------------------------------------------------------------
(* A header is six bytes: its fields fit them.                             *)
LEMMA HeaderBytes ==
  ASSUME NEW cnt \in Nat, cnt <= 65535, NEW type \in Bytes
  PROVE  Header(cnt, type) \in Seq(Bytes)
<1>1. cnt % 256 \in Bytes
  BY DEF Bytes
<1>2. cnt \div 256 \in Bytes
  BY DEF Bytes
<1>3. 0 \in Bytes
  BY DEF Bytes
<1> QED
  BY <1>1, <1>2, <1>3 DEF Header

(* What read() takes is no more than there is, and what it leaves are      *)
(* bytes as before.                                                        *)
LEMMA ReadBytes ==
  ASSUME NEW n \in Nat, pipe \in Seq(Bytes)
  PROVE  /\ Available(n) \in Nat /\ Available(n) <= Len(pipe)
         /\ After(n) \in Seq(Bytes)
<1>1. Len(pipe) \in Nat
  OBVIOUS
<1>2. Available(n) \in Nat /\ Available(n) <= Len(pipe)
  BY <1>1 DEF Available
<1> QED
  BY <1>2 DEF After

(* Little-endian numbers are natural numbers.                              *)
LEMMA Sums ==
  ASSUME NEW a \in Nat, NEW b \in Nat
  PROVE  a + 256 * b \in Nat
  OBVIOUS

(* Six bytes make a header.                                                *)
LEMMA DecodedType ==
  ASSUME pipe \in Seq(Bytes), Available(SizeofSignal) = SizeofSignal
  PROVE  Decoded(pipe) \in [cnt : Nat, type : Nat]
<1>1. Len(pipe) \in Nat /\ 6 <= Len(pipe)
  BY ReadBytes DEF SizeofSignal
<1>2. Bytes \subseteq Nat
  BY DEF Bytes
<1>3. \A i \in 1..6 : pipe[i] \in Nat
  <2>1. \A i \in 1..6 : pipe[i] \in Bytes
    BY <1>1
  <2> QED
    BY <1>2, <2>1
<1> DEFINE high == pipe[5] + 256 * pipe[6]
           mid  == pipe[4] + 256 * high
           low  == pipe[3] + 256 * mid
<1>4. high \in Nat
  BY <1>3, Sums
<1> HIDE DEF high
<1>5. mid \in Nat
  BY <1>3, <1>4, Sums
<1> HIDE DEF mid
<1>6. low \in Nat
  BY <1>3, <1>5, Sums
<1>7. pipe[1] + 256 * pipe[2] \in Nat
  BY <1>3, Sums
<1>8. Decoded(pipe) = [cnt |-> pipe[1] + 256 * pipe[2], type |-> low]
  BY DEF Decoded, high, mid
<1> HIDE DEF low
<1> QED
  BY <1>6, <1>7, <1>8

-----------------------------------------------------------------------------
(* No step takes a thread out of the places it can be at.                  *)
LEMMA ThreadsStep == ThreadsOK /\ [Next]_vars => ThreadsOK'
<1>1. ThreadsOK /\ MainStep => ThreadsOK'
  <2>1. ThreadsOK /\ (StartServer \/ StartConsole \/ MaskSignals) => ThreadsOK'
    BY DEF StartServer, StartConsole, MaskSignals, ThreadsOK, consoleVars, serverVars, portsVars
  <2>2. ThreadsOK /\ (StopConsole \/ StopServer) => ThreadsOK'
    BY DEF StopConsole, StopServer, ThreadsOK, consoleVars, serverVars, portsVars
  <2>3. ThreadsOK /\ (JoinServer \/ JoinConsole \/ Cleanup) => ThreadsOK'
    BY DEF JoinServer, JoinConsole, Cleanup, ThreadsOK, consoleVars, serverVars, portsVars
  <2> QED
    BY <2>1, <2>2, <2>3 DEF MainStep
<1>2. ThreadsOK /\ OutsideSignal => ThreadsOK'
  BY DEF OutsideSignal, Signal, ThreadsOK, consoleVars, serverVars, portsVars
<1>3. ThreadsOK /\ ConsoleStep => ThreadsOK'
  BY DEF ConsoleStep, MakeLoop, StartWatchers, SendText, Write, BreakLoop, EndConsole, ThreadsOK,
     serverVars, portsVars
<1>4. ThreadsOK /\ (SendPlain \/ SendWall \/ Quit) => ThreadsOK'
  BY DEF SendPlain, SendWall, Quit, Command, Write, Signal, ThreadsOK, serverVars, portsVars
<1>5. ThreadsOK /\ ServerStep => ThreadsOK'
  BY DEF ServerStep, StartServing, ReadHeader, ReadData, Handle, ClosePeers, StopPorts,
     JoinPorts, StopWorkers, ThreadsOK, consoleVars, portsVars
<1>6. ThreadsOK /\ FailToServe => ThreadsOK'
  BY DEF FailToServe, ThreadsOK, consoleVars, serverVars, portsVars
<1>7. ThreadsOK /\ PortsStep => ThreadsOK'
  BY DEF PortsStep, UpdateAllPorts, Sleep, Timeout, CheckClock, Decide, ThreadsOK, consoleVars,
     serverVars
<1>8. ThreadsOK /\ UNCHANGED vars => ThreadsOK'
  BY DEF vars, ThreadsOK, consoleVars, serverVars, portsVars
<1> QED
  BY <1>1, <1>2, <1>3, <1>4, <1>5, <1>6, <1>7, <1>8 DEF Next

(* What the console writes are bytes.                                      *)
LEMMA WriteBytes ==
  ASSUME pipe \in Seq(Bytes), NEW bytes \in Seq(Bytes), Write(bytes)
  PROVE  pipe' \in Seq(Bytes)
<1>1. pipe \o bytes \in Seq(Bytes)
  OBVIOUS
<1>2. pipe' = pipe \/ pipe' = pipe \o bytes
  BY DEF Write
<1> QED
  BY <1>1, <1>2

(* One more message is within the bound.                                   *)
LEMMA OneMoreMessage ==
  ASSUME messages \in 0..MaxMessages, messages < MaxMessages
  PROVE  messages + 1 \in 0..MaxMessages
  BY BoundAssumption

(* Headers and texts are written, and headers and data read, as bytes; the *)
(* other steps touch neither the pipe nor the message in hand.             *)
LEMMA MessagesStep == MessagesOK /\ [Next]_vars => MessagesOK'
<1> SUFFICES ASSUME MessagesOK, [Next]_vars
             PROVE  MessagesOK'
  OBVIOUS
<1> DEFINE Idle == UNCHANGED <<wall, messages, pipe, msg>> /\ server' \in {server} \union
                     {"init", "poll", "stopPorts", "joinPorts", "stopWorkers", "ended"}
<1>1. CASE Idle
  BY <1>1 DEF MessagesOK
<1>2. CASE StopServer
  <2>1. Header(0, MSG_TERM) \in Seq(Bytes)
    BY HeaderBytes DEF MSG_TERM, Bytes
  <2>2. pipe' \in Seq(Bytes)
    BY <1>2, <2>1 DEF StopServer, MessagesOK
  <2> QED
    BY <1>2, <2>2 DEF StopServer, MessagesOK, consoleVars, serverVars
<1>3. CASE SendText
  <2>1. wall \in Nat
    BY SizesAssumption DEF MessagesOK
  <2>2. Text(wall) \in Seq(Bytes)
    <3>1. 0 \in Bytes /\ 97 \in Bytes
      BY DEF Bytes
    <3> QED
      BY <2>1, <3>1 DEF Text
  <2>3. pipe' \in Seq(Bytes)
    BY <1>3, <2>2, WriteBytes DEF SendText, MessagesOK
  <2> QED
    BY <1>3, <2>3 DEF SendText, MessagesOK, serverVars
<1>4. CASE SendPlain
  <2>1. Header(0, MSG_PAUSE) \in Seq(Bytes) /\ Header(0, MSG_CONT) \in Seq(Bytes)
    <3>1. MSG_PAUSE \in Bytes /\ MSG_CONT \in Bytes
      BY DEF MSG_PAUSE, MSG_CONT, Bytes
    <3> QED
      BY <3>1, HeaderBytes
  <2>2. pipe' \in Seq(Bytes)
    BY <1>4, <2>1, WriteBytes DEF SendPlain, MessagesOK
  <2>3. messages' \in 0..MaxMessages
    BY <1>4, OneMoreMessage DEF SendPlain, MessagesOK
  <2> QED
    BY <1>4, <2>2, <2>3 DEF SendPlain, MessagesOK, serverVars
<1>5. CASE SendWall
  <2>1. PICK n \in WallSizes : Write(Header(n, MSG_WALL)) /\ wall' = n
    BY <1>5 DEF SendWall
  <2>2. n \in Nat /\ n <= 65535
    BY SizesAssumption
  <2>3. Header(n, MSG_WALL) \in Seq(Bytes)
    <3>1. MSG_WALL \in Bytes
      BY DEF MSG_WALL, Bytes
    <3> QED
      BY <2>2, <3>1, HeaderBytes
  <2>4. pipe' \in Seq(Bytes)
    BY <2>1, <2>3, WriteBytes DEF MessagesOK
  <2>5. messages' \in 0..MaxMessages
    BY <1>5, OneMoreMessage DEF SendWall, MessagesOK
  <2> QED
    BY <1>5, <2>1, <2>4, <2>5 DEF SendWall, MessagesOK, serverVars
<1>6. CASE ReadHeader
  <2>1. After(SizeofSignal) \in Seq(Bytes)
    BY ReadBytes DEF MessagesOK, SizeofSignal
  <2>2. Available(SizeofSignal) = SizeofSignal => Decoded(pipe) \in [cnt : Nat, type : Nat]
    BY DecodedType DEF MessagesOK
  <2> QED
    BY <1>6, <2>1, <2>2 DEF ReadHeader, Handle, MessagesOK, consoleVars
<1>7. CASE ReadData
  <2>1. After(msg.cnt) \in Seq(Bytes)
    BY ReadBytes DEF MessagesOK
  <2>2. server' # "data"
    BY <1>7 DEF ReadData, Handle
  <2> QED
    BY <1>7, <2>1, <2>2 DEF ReadData, NoMsg, MessagesOK, consoleVars
<1>8. Idle \/ StopServer \/ SendText \/ SendPlain \/ SendWall \/ ReadHeader \/ ReadData
  <2>1. MainStep => Idle \/ StopServer
    BY DEF MainStep, StartServer, StartConsole, MaskSignals, StopConsole, JoinServer,
       JoinConsole, Cleanup, consoleVars, serverVars
  <2>2. ConsoleStep => Idle \/ SendText
    BY DEF ConsoleStep, MakeLoop, StartWatchers, BreakLoop, EndConsole, serverVars
  <2>3. ServerStep => Idle \/ ReadHeader \/ ReadData
    BY DEF ServerStep, StartServing, ClosePeers, StopPorts, JoinPorts, StopWorkers, consoleVars
  <2>4. OutsideSignal \/ Quit \/ FailToServe => Idle
    BY DEF OutsideSignal, Quit, FailToServe, consoleVars, serverVars
  <2>5. PortsStep => Idle
    BY DEF PortsStep, UpdateAllPorts, Sleep, Timeout, CheckClock, Decide, consoleVars,
       serverVars
  <2>6. UNCHANGED vars => Idle
    BY DEF vars, consoleVars, serverVars
  <2> HIDE DEF Idle
  <2> QED
    BY <2>1, <2>2, <2>3, <2>4, <2>5, <2>6 DEF Next
<1> HIDE DEF Idle
<1> QED
  BY <1>1, <1>2, <1>3, <1>4, <1>5, <1>6, <1>7, <1>8

(* The types of Lifecycle hold for every bound and every wall.             *)
THEOREM TypeCorrect == Spec => []TypeOK
<1>1. Init => TypeOK
  <2>1. 0 \in 0..MaxMessages
    BY BoundAssumption
  <2>2. Init => ThreadsOK
    BY DEF Init, ThreadsOK
  <2>3. Init => MessagesOK
    BY <2>1 DEF Init, MessagesOK, NoMsg
  <2> QED
    BY <2>2, <2>3 DEF TypeOK
<1>2. TypeOK /\ [Next]_vars => TypeOK'
  BY ThreadsStep, MessagesStep DEF TypeOK
<1> QED
  BY <1>1, <1>2, PTL DEF Spec

-----------------------------------------------------------------------------
(* The order in which the threads are stopped: the server's last steps     *)
(* come after the port update thread's end, main()'s after the server's.   *)
StopOrder ==
  /\ server \in {"stopWorkers", "ended"} => ports = "ended"
  /\ main \in {"joinConsole", "cleanup"} => server = "ended"
  /\ main = "cleanup" => console = "ended"

(* No thread leaves the place where it has ended, and each join waits.     *)
LEMMA StopOrderStep == StopOrder /\ [Next]_vars => StopOrder'
<1> SUFFICES ASSUME StopOrder, [Next]_vars
             PROVE  StopOrder'
  OBVIOUS
<1> USE DEF StopOrder
<1>1. CASE MainStep
  BY <1>1 DEF MainStep, StartServer, StartConsole, MaskSignals, StopConsole, StopServer,
     JoinServer, JoinConsole, Cleanup, consoleVars, serverVars, portsVars
<1>2. CASE OutsideSignal
  BY <1>2 DEF OutsideSignal, Signal, consoleVars, serverVars, portsVars
<1>3. CASE ConsoleStep
  BY <1>3 DEF ConsoleStep, MakeLoop, StartWatchers, SendText, BreakLoop, EndConsole,
     serverVars, portsVars
<1>4. CASE SendPlain \/ SendWall \/ Quit
  BY <1>4 DEF SendPlain, SendWall, Quit, Command, Signal, serverVars, portsVars
<1>5. CASE ServerStep
  BY <1>5 DEF ServerStep, StartServing, ReadHeader, ReadData, Handle, ClosePeers, StopPorts,
     JoinPorts, StopWorkers, consoleVars, portsVars
<1>6. CASE FailToServe
  BY <1>6 DEF FailToServe, consoleVars, serverVars, portsVars
<1>7. CASE PortsStep
  BY <1>7 DEF PortsStep, UpdateAllPorts, Sleep, Timeout, CheckClock, Decide, consoleVars,
     serverVars
<1>8. CASE UNCHANGED vars
  BY <1>8 DEF vars, consoleVars, serverVars, portsVars
<1> QED
  BY <1>1, <1>2, <1>3, <1>4, <1>5, <1>6, <1>7, <1>8 DEF Next

(* main() frees the universe when every other thread has ended.            *)
THEOREM CleanupAloneAlways == Spec => []CleanupAlone
<1>1. Init => StopOrder
  BY DEF Init, StopOrder
<1>2. StopOrder => CleanupAlone
  BY DEF StopOrder, CleanupAlone
<1> QED
  BY <1>1, <1>2, StopOrderStep, PTL DEF Spec

-----------------------------------------------------------------------------
(* The port update thread never sleeps with the flag set: it looks at the  *)
(* flag under the lock under which stop_updating_ports sets it and signals.*)
THEOREM SleepAfterStopNever == Spec => []NoSleepAfterStop
<1>1. Init => NoSleepAfterStop
  BY DEF Init, NoSleepAfterStop
<1>2. NoSleepAfterStop /\ [Next]_vars => NoSleepAfterStop'
  <2> SUFFICES ASSUME NoSleepAfterStop, [Next]_vars
               PROVE  NoSleepAfterStop'
    OBVIOUS
  <2> USE DEF NoSleepAfterStop
  <2>1. CASE StartServing
    BY <2>1 DEF StartServing
  <2>2. CASE StopPorts
    BY <2>2 DEF StopPorts
  <2>3. CASE PortsStep
    BY <2>3, Zenon DEF PortsStep, UpdateAllPorts, Sleep, Timeout, CheckClock, Decide
  <2>4. CASE UNCHANGED portsVars
    BY <2>4 DEF portsVars
  <2>5. UNCHANGED portsVars \/ StartServing \/ StopPorts \/ PortsStep
    BY DEF Next, MainStep, StartServer, StartConsole, MaskSignals, StopConsole, StopServer,
       JoinServer, JoinConsole, Cleanup, OutsideSignal, ConsoleStep, MakeLoop, StartWatchers,
       SendText, BreakLoop, EndConsole, SendPlain, SendWall, Quit, ServerStep, ReadHeader,
       ReadData, ClosePeers, JoinPorts, StopWorkers, FailToServe, vars, portsVars
  <2> QED
    BY <2>1, <2>2, <2>3, <2>4, <2>5
<1> QED
  BY <1>1, <1>2, PTL DEF Spec

-----------------------------------------------------------------------------
(* When "quit" is the only way to stop main(), the console reads nothing   *)
(* more from the moment main() stops waiting.                              *)
Silent ==
  /\ main \in {"stopConsole", "stopServer", "joinServer", "joinConsole", "cleanup"}
       => sleep /\ console \in {"poll", "ended"}
  /\ process # "bug"

(* No step gives the console anything more to read then.                   *)
LEMMA SilentStep ==
  ASSUME "waiting" \notin Signals
  PROVE  Silent /\ [Next]_vars => Silent'
<1> SUFFICES ASSUME Silent, [Next]_vars
             PROVE  Silent'
  OBVIOUS
<1> USE DEF Silent
<1>1. CASE MainStep
  BY <1>1 DEF MainStep, StartServer, StartConsole, MaskSignals, StopConsole, StopServer,
     JoinServer, JoinConsole, Cleanup, consoleVars, serverVars, portsVars
<1>2. CASE OutsideSignal
  BY <1>2 DEF OutsideSignal, Signal, consoleVars, serverVars, portsVars
<1>3. CASE ConsoleStep
  BY <1>3 DEF ConsoleStep, MakeLoop, StartWatchers, SendText, Write, BreakLoop, EndConsole,
     serverVars, portsVars
<1>4. CASE SendPlain \/ SendWall
  BY <1>4 DEF SendPlain, SendWall, Command, Write, serverVars, portsVars
<1>5. CASE Quit
  BY <1>5 DEF Quit, Command, Signal, serverVars, portsVars
<1>6. CASE ServerStep
  BY <1>6 DEF ServerStep, StartServing, ReadHeader, ReadData, ClosePeers, StopPorts,
     JoinPorts, StopWorkers, consoleVars, portsVars
<1>7. CASE FailToServe
  BY <1>7 DEF FailToServe, consoleVars, serverVars, portsVars
<1>8. CASE PortsStep
  BY <1>8 DEF PortsStep, UpdateAllPorts, Sleep, Timeout, CheckClock, Decide, consoleVars,
     serverVars
<1>9. CASE UNCHANGED vars
  BY <1>9 DEF vars, consoleVars, serverVars, portsVars
<1> QED
  BY <1>1, <1>2, <1>3, <1>4, <1>5, <1>6, <1>7, <1>8, <1>9 DEF Next

(* If the signal main() waits for comes from "quit", nobody writes to the  *)
(* pipe after its reader has gone.                                         *)
THEOREM LateWriteNever ==
  ASSUME "waiting" \notin Signals
  PROVE  Spec => []NoLateWrite
<1>1. Init => Silent
  BY DEF Init, Silent
<1>2. Silent /\ [Next]_vars => Silent'
  BY SilentStep
<1>3. Silent => NoLateWrite
  BY DEF Silent, NoLateWrite
<1> QED
  BY <1>1, <1>2, <1>3, PTL DEF Spec

-----------------------------------------------------------------------------
(* The header of a message at an offset of the pipe.                       *)
HeaderAt(bytes, i, cnt, type) ==
  /\ i + SizeofSignal <= Len(bytes)
  /\ SubSeq(bytes, i + 1, i + SizeofSignal) = Header(cnt, type)

(* A message at an offset: another one follows it, unless it is a wall     *)
(* whose text has still to be written, or MSG_TERM.                        *)
MessageAt(starts, i) ==
  \/ \E type \in {MSG_PAUSE, MSG_CONT} : HeaderAt(pipe, i, 0, type) /\ i + SizeofSignal \in starts
  \/ \E n \in WallSizes :
       /\ HeaderAt(pipe, i, n, MSG_WALL)
       /\ \/ i + SizeofSignal + n \in starts
          \/ i + SizeofSignal = Len(pipe) /\ console = "text" /\ wall = n
  \/ HeaderAt(pipe, i, 0, MSG_TERM) /\ i + SizeofSignal = Len(pipe) /\ main = "joinServer"

(* Messages start at these offsets of the pipe, and the server is at one   *)
(* of them, or about to read the text of a wall that ends at one.          *)
Framed(starts) ==
  /\ starts \subseteq 0..Len(pipe)
  /\ \A i \in starts : i < Len(pipe) => MessageAt(starts, i)
  /\ console = "text" \/ main = "joinServer" => Len(pipe) \notin starts
  /\ server \in {"absent", "init", "poll"} => 0 \in starts
  /\ server = "data" =>
       /\ msg.cnt \in WallSizes /\ msg.type = MSG_WALL
       /\ \/ msg.cnt \in starts
          \/ pipe = <<>> /\ console = "text" /\ wall = msg.cnt

Reading == {"absent", "init", "poll", "data"}

Framing == server \in Reading => \E starts \in SUBSET Nat : Framed(starts)

(* A header stays where it is when more is written.                        *)
LEMMA HeaderKept ==
  ASSUME NEW bytes \in Seq(Bytes), NEW more \in Seq(Bytes), NEW i \in Nat, NEW cnt, NEW type,
         HeaderAt(bytes, i, cnt, type)
  PROVE  HeaderAt(bytes \o more, i, cnt, type)
<1>1. Len(bytes \o more) = Len(bytes) + Len(more) /\ Len(bytes) \in Nat /\ Len(more) \in Nat
  OBVIOUS
<1>2. i + 6 <= Len(bytes)
  BY DEF HeaderAt, SizeofSignal
<1>3. i + 1 \in 1..Len(bytes) /\ i + 6 \in 1..Len(bytes) /\ i + 6 <= Len(bytes \o more)
  BY <1>1, <1>2
<1>4. SubSeq(bytes \o more, i + 1, i + 6) = SubSeq(bytes, i + 1, i + 6)
  BY <1>3, SubSeqOfConcat1
<1> QED
  BY <1>3, <1>4 DEF HeaderAt, SizeofSignal

(* A header that is written is at the end of what was there.               *)
LEMMA HeaderWritten ==
  ASSUME NEW bytes \in Seq(Bytes), NEW cnt, NEW type, Header(cnt, type) \in Seq(Bytes)
  PROVE  /\ HeaderAt(bytes \o Header(cnt, type), Len(bytes), cnt, type)
         /\ Len(bytes \o Header(cnt, type)) = Len(bytes) + SizeofSignal
<1> DEFINE h == Header(cnt, type)
           n == Len(bytes)
<1>1. Len(h) = 6
  BY DEF Header
<1> HIDE DEF h
<1>2. h \in Seq(Bytes)
  BY DEF h
<1>3. n \in Nat
  OBVIOUS
<1>4. Len(bytes \o h) = n + Len(h)
  BY <1>2
<1> HIDE DEF n
<1>5. Len(bytes \o h) = n + 6
  BY <1>1, <1>4
<1>6. n + 1 \in n + 1..n + 6 /\ n + 6 \in n + 1..n + 6
  BY <1>3
<1>7. SubSeq(bytes \o h, n + 1, n + 6) = SubSeq(h, (n + 1) - n, (n + 6) - n)
  <2>1. n + 1 \in Len(bytes) + 1..Len(bytes) + Len(h) /\ n + 6 \in Len(bytes) + 1..Len(bytes) + Len(h)
    BY <1>1, <1>6 DEF n
  <2>2. SubSeq(bytes \o h, n + 1, n + 6) = SubSeq(h, (n + 1) - Len(bytes), (n + 6) - Len(bytes))
    BY <1>2, <2>1, SubSeqOfConcat2
  <2> QED
    BY <2>2 DEF n
<1>8. (n + 1) - n = 1 /\ (n + 6) - n = 6
  BY <1>3
<1>9. SubSeq(h, 1, 6) = h
  BY <1>1, <1>2, SubSeqFull
<1>10. SubSeq(bytes \o h, n + 1, n + 6) = h
  BY <1>7, <1>8, <1>9
<1>11. n + 6 <= Len(bytes \o h)
  BY <1>3, <1>5
<1>12. HeaderAt(bytes \o h, n, cnt, type)
  BY <1>10, <1>11 DEF HeaderAt, SizeofSignal, h
<1> QED
  BY <1>5, <1>12 DEF h, n, SizeofSignal

(* A header moves to the front when what is before it is read.             *)
LEMMA HeaderMoved ==
  ASSUME NEW bytes \in Seq(Bytes), NEW n \in Nat, NEW i \in Nat, n <= i,
         NEW cnt, NEW type, HeaderAt(bytes, i, cnt, type)
  PROVE  HeaderAt(SubSeq(bytes, n + 1, Len(bytes)), i - n, cnt, type)
<1> DEFINE rest == SubSeq(bytes, n + 1, Len(bytes))
<1>1. i + 6 <= Len(bytes) /\ Len(bytes) \in Nat
  BY DEF HeaderAt, SizeofSignal
<1>2. Len(rest) = Len(bytes) - n
  BY <1>1
<1>3. /\ n + 1 \in 1..Len(bytes) /\ Len(bytes) \in 1..Len(bytes)
      /\ (i - n) + 1 \in 1..Len(bytes) - (n + 1) + 1
      /\ (i - n) + 6 \in 1..Len(bytes) - (n + 1) + 1
  BY <1>1
<1>4. SubSeq(rest, (i - n) + 1, (i - n) + 6)
        = SubSeq(bytes, (n + 1) + ((i - n) + 1) - 1, (n + 1) + ((i - n) + 6) - 1)
  BY <1>3, SubSeqOfSubSeq
<1>5. (n + 1) + ((i - n) + 1) - 1 = i + 1 /\ (n + 1) + ((i - n) + 6) - 1 = i + 6
  OBVIOUS
<1>6. (i - n) + 6 <= Len(rest)
  BY <1>1, <1>2
<1> HIDE DEF rest
<1>7. HeaderAt(rest, i - n, cnt, type)
  BY <1>4, <1>5, <1>6 DEF HeaderAt, SizeofSignal
<1> QED
  BY <1>7 DEF rest

(* The server understands the header that is first in the pipe.            *)
LEMMA HeaderUnderstood ==
  ASSUME pipe \in Seq(Bytes), NEW cnt \in Nat, NEW type \in Nat,
         HeaderAt(pipe, 0, cnt, type)
  PROVE  /\ Available(SizeofSignal) = SizeofSignal
         /\ Decoded(pipe).cnt = cnt /\ Decoded(pipe).type = type
<1>1. 6 <= Len(pipe) /\ Len(pipe) \in Nat
  BY DEF HeaderAt, SizeofSignal
<1>2. Available(SizeofSignal) = SizeofSignal
  <2> DEFINE n == Len(pipe)
  <2>1. Available(6) = IF 6 < n THEN 6 ELSE n
    BY DEF Available
  <2> HIDE DEF n
  <2>2. 6 <= n /\ n \in Nat
    BY <1>1 DEF n
  <2> QED
    BY <2>1, <2>2 DEF SizeofSignal
<1>3. SubSeq(pipe, 1, 6) = Header(cnt, type)
  BY DEF HeaderAt, SizeofSignal
<1>4. \A k \in 1..6 : SubSeq(pipe, 1, 6)[k] = pipe[k]
  BY <1>1
<1> DEFINE h == Header(cnt, type)
<1>5. /\ h[1] = cnt % 256 /\ h[2] = cnt \div 256 /\ h[3] = type
      /\ h[4] = 0 /\ h[5] = 0 /\ h[6] = 0
  BY DEF Header
<1> HIDE DEF h
<1>6. \A k \in 1..6 : h[k] = pipe[k]
  BY <1>3, <1>4 DEF h
<1>7. /\ pipe[1] = cnt % 256 /\ pipe[2] = cnt \div 256 /\ pipe[3] = type
      /\ pipe[4] = 0 /\ pipe[5] = 0 /\ pipe[6] = 0
  BY <1>5, <1>6
<1>8. (cnt % 256) + 256 * (cnt \div 256) = cnt
  OBVIOUS
<1> QED
  BY <1>2, <1>7, <1>8 DEF Decoded

(* A message is still one when another is written after it, and a wall is  *)
(* complete with its text.                                                 *)
LEMMA MessageKept ==
  ASSUME pipe \in Seq(Bytes), NEW more \in Seq(Bytes), pipe' = pipe \o more,
         NEW starts \in SUBSET Nat, NEW all \in SUBSET Nat, starts \subseteq all,
         main # "joinServer", console = "text" => Len(pipe) + wall \in all,
         NEW i \in Nat, MessageAt(starts, i)
  PROVE  MessageAt(all, i)'
<1>1. CASE \E type \in {MSG_PAUSE, MSG_CONT} :
             HeaderAt(pipe, i, 0, type) /\ i + SizeofSignal \in starts
  <2>1. PICK type \in {MSG_PAUSE, MSG_CONT} :
               HeaderAt(pipe, i, 0, type) /\ i + SizeofSignal \in starts
    BY <1>1
  <2>2. HeaderAt(pipe', i, 0, type)
    BY <2>1, HeaderKept
  <2> QED
    BY <2>1, <2>2 DEF MessageAt
<1>2. CASE \E n \in WallSizes :
             /\ HeaderAt(pipe, i, n, MSG_WALL)
             /\ \/ i + SizeofSignal + n \in starts
                \/ i + SizeofSignal = Len(pipe) /\ console = "text" /\ wall = n
  <2>1. PICK n \in WallSizes :
               /\ HeaderAt(pipe, i, n, MSG_WALL)
               /\ \/ i + SizeofSignal + n \in starts
                  \/ i + SizeofSignal = Len(pipe) /\ console = "text" /\ wall = n
    BY <1>2
  <2>2. HeaderAt(pipe', i, n, MSG_WALL)
    BY <2>1, HeaderKept
  <2>3. i + SizeofSignal + n \in all
    BY <2>1
  <2> QED
    BY <2>2, <2>3 DEF MessageAt
<1> QED
  BY <1>1, <1>2 DEF MessageAt

(* What read() leaves when it takes as much as it asked for.               *)
LEMMA ReadAll ==
  ASSUME pipe \in Seq(Bytes), NEW n \in Nat, Available(n) = n
  PROVE  /\ n <= Len(pipe)
         /\ After(n) = SubSeq(pipe, n + 1, Len(pipe))
         /\ Len(After(n)) = Len(pipe) - n
<1>1. Len(pipe) \in Nat /\ Available(n) <= Len(pipe)
  BY ReadBytes
<1>2. n <= Len(pipe)
  BY <1>1
<1>3. After(n) = SubSeq(pipe, n + 1, Len(pipe))
  BY DEF After
<1>4. Len(SubSeq(pipe, n + 1, Len(pipe))) = Len(pipe) - n
  BY <1>1, <1>2
<1> QED
  BY <1>2, <1>3, <1>4

(* The starts of the messages that are left when so much has been read.    *)
Left(starts, n) == {i \in Nat : i + n \in starts}

(* A message moves with what is in front of it.                            *)
LEMMA MessageMoved ==
  ASSUME pipe \in Seq(Bytes), NEW n \in Nat, Available(n) = n, pipe' = After(n),
         UNCHANGED <<main, console, wall>>,
         NEW starts \in SUBSET Nat, NEW i \in Nat, MessageAt(starts, i + n)
  PROVE  MessageAt(Left(starts, n), i)'
<1>1. /\ pipe' = SubSeq(pipe, n + 1, Len(pipe)) /\ n <= Len(pipe)
      /\ Len(pipe') = Len(pipe) - n /\ Len(pipe) \in Nat
  BY ReadAll
<1>2. \A cnt, type : HeaderAt(pipe, i + n, cnt, type) => HeaderAt(pipe', i, cnt, type)
  <2> SUFFICES ASSUME NEW cnt, NEW type, HeaderAt(pipe, i + n, cnt, type)
               PROVE  HeaderAt(pipe', i, cnt, type)
    OBVIOUS
  <2>1. i + n \in Nat /\ n <= i + n /\ (i + n) - n = i
    OBVIOUS
  <2>2. HeaderAt(SubSeq(pipe, n + 1, Len(pipe)), (i + n) - n, cnt, type)
    BY <2>1, HeaderMoved
  <2> QED
    BY <1>1, <2>1, <2>2
<1>3. \A k \in Nat : (i + n) + k \in starts => i + k \in Left(starts, n)
  <2> SUFFICES ASSUME NEW k \in Nat, (i + n) + k \in starts
               PROVE  i + k \in Left(starts, n)
    OBVIOUS
  <2>1. (i + k) + n = (i + n) + k /\ i + k \in Nat
    OBVIOUS
  <2> QED
    BY <2>1 DEF Left
<1>4. (i + n) + SizeofSignal = Len(pipe) => i + SizeofSignal = Len(pipe')
  <2> DEFINE l == Len(pipe)
  <2>1. l \in Nat /\ Len(pipe') = l - n
    BY <1>1
  <2> HIDE DEF l
  <2>2. (i + n) + SizeofSignal = l => i + SizeofSignal = l - n
    BY <2>1 DEF SizeofSignal
  <2> QED
    BY <2>1, <2>2 DEF l
<1>5. CASE \E type \in {MSG_PAUSE, MSG_CONT} :
             HeaderAt(pipe, i + n, 0, type) /\ (i + n) + SizeofSignal \in starts
  <2>1. PICK type \in {MSG_PAUSE, MSG_CONT} :
               HeaderAt(pipe, i + n, 0, type) /\ (i + n) + SizeofSignal \in starts
    BY <1>5
  <2>2. SizeofSignal \in Nat
    BY DEF SizeofSignal
  <2>3. i + SizeofSignal \in Left(starts, n)
    BY <1>3, <2>1, <2>2
  <2> QED
    BY <1>2, <2>1, <2>3 DEF MessageAt
<1>6. CASE \E m \in WallSizes :
             /\ HeaderAt(pipe, i + n, m, MSG_WALL)
             /\ \/ (i + n) + SizeofSignal + m \in starts
                \/ (i + n) + SizeofSignal = Len(pipe) /\ console = "text" /\ wall = m
  <2>1. PICK m \in WallSizes :
               /\ HeaderAt(pipe, i + n, m, MSG_WALL)
               /\ \/ (i + n) + SizeofSignal + m \in starts
                  \/ (i + n) + SizeofSignal = Len(pipe) /\ console = "text" /\ wall = m
    BY <1>6
  <2>2. m \in Nat /\ SizeofSignal \in Nat /\ SizeofSignal + m \in Nat
    BY SizesAssumption DEF SizeofSignal
  <2>3. (i + n) + SizeofSignal + m = (i + n) + (SizeofSignal + m)
        /\ i + SizeofSignal + m = i + (SizeofSignal + m)
    BY <2>2
  <2>4. (i + n) + SizeofSignal + m \in starts => i + SizeofSignal + m \in Left(starts, n)
    BY <1>3, <2>2, <2>3
  <2> QED
    BY <1>2, <1>4, <2>1, <2>4 DEF MessageAt
<1>7. CASE HeaderAt(pipe, i + n, 0, MSG_TERM) /\ (i + n) + SizeofSignal = Len(pipe) /\ main = "joinServer"
  BY <1>2, <1>4, <1>7 DEF MessageAt
<1> QED
  BY <1>5, <1>6, <1>7 DEF MessageAt

(* The starts that are left frame what is left of the pipe.                *)
LEMMA LeftFramed ==
  ASSUME pipe \in Seq(Bytes), NEW n \in Nat, Available(n) = n, pipe' = After(n),
         UNCHANGED <<main, console, wall>>, NEW starts \in SUBSET Nat, Framed(starts)
  PROVE  /\ Left(starts, n) \subseteq 0..Len(pipe')
         /\ \A i \in Left(starts, n) : i < Len(pipe') => MessageAt(Left(starts, n), i)'
         /\ console' = "text" \/ main' = "joinServer" => Len(pipe') \notin Left(starts, n)
<1> DEFINE l == Len(pipe)
<1>1. n <= l /\ Len(pipe') = l - n /\ l \in Nat
  BY ReadAll
<1>2. /\ starts \subseteq 0..l
      /\ \A i \in starts : i < l => MessageAt(starts, i)
      /\ console = "text" \/ main = "joinServer" => l \notin starts
  BY DEF Framed
<1> HIDE DEF l
<1>3. Left(starts, n) \subseteq 0..l - n
  BY <1>1, <1>2 DEF Left
<1>4. ASSUME NEW i \in Left(starts, n), i < Len(pipe')
      PROVE  MessageAt(Left(starts, n), i)'
  <2>1. i \in Nat /\ i + n \in starts /\ i + n < l
    BY <1>1, <1>4 DEF Left
  <2>2. MessageAt(starts, i + n)
    BY <1>2, <2>1
  <2> QED
    BY <2>1, <2>2, MessageMoved
<1>5. l - n \in Left(starts, n) => l \in starts
  <2>1. (l - n) + n = l
    BY <1>1
  <2> QED
    BY <2>1 DEF Left
<1> QED
  BY <1>1, <1>2, <1>3, <1>4, <1>5

(* The server thread and the console thread are started by main().         *)
Started ==
  /\ main = "startServer" => server = "absent"
  /\ main \in {"startServer", "startConsole"} => console = "absent"

FramingInv == TypeOK /\ StopOrder /\ Silent /\ Started /\ Framing

(* Steps that touch neither the pipe nor what has been read from it.       *)
Still ==
  /\ UNCHANGED <<pipe, msg, wall>>
  /\ console' = "text" <=> console = "text"
  /\ server' \in Reading =>
       /\ main' = "joinServer" <=> main = "joinServer"
       /\ server' = server \/ {server, server'} \subseteq {"absent", "init", "poll"}

(* They change no message and no start.                                    *)
LEMMA FramingStill == Framing /\ Still => Framing'
<1> SUFFICES ASSUME Framing, Still, server' \in Reading
             PROVE  \E starts \in SUBSET Nat : Framed(starts)'
  BY DEF Framing
<1>1. PICK starts \in SUBSET Nat : Framed(starts)
  BY DEF Framing, Still, Reading
<1>2. /\ UNCHANGED <<pipe, msg, wall>> /\ (console' = "text" <=> console = "text")
      /\ main' = "joinServer" <=> main = "joinServer"
      /\ server' = server \/ {server, server'} \subseteq {"absent", "init", "poll"}
  BY DEF Still
<1>3. \A i : MessageAt(starts, i) => MessageAt(starts, i)'
  BY <1>2 DEF MessageAt
<1>4. /\ server' \in {"absent", "init", "poll"} => server \in {"absent", "init", "poll"}
      /\ server' = "data" => server = "data"
  BY <1>2
<1>5. Framed(starts)'
  BY <1>1, <1>2, <1>3, <1>4 DEF Framed
<1> QED
  BY <1>5

(* No step but the reading of MSG_TERM loses its place in the pipe.        *)
LEMMA FramingStep ==
  ASSUME "waiting" \notin Signals
  PROVE  FramingInv /\ [Next]_vars => Framing'
<1> SUFFICES ASSUME FramingInv, [Next]_vars
             PROVE  Framing'
  OBVIOUS
<1>1. pipe \in Seq(Bytes) /\ Len(pipe) \in Nat
  BY DEF FramingInv, TypeOK, MessagesOK
<1>0. Framing /\ Silent /\ Started
  BY DEF FramingInv
<1>2. CASE Still
  BY <1>0, <1>2, FramingStill
<1>3. CASE StopServer
  <2> SUFFICES ASSUME server' \in Reading
               PROVE  \E starts \in SUBSET Nat : Framed(starts)'
    BY DEF Framing
  <2>1. server = server' /\ UNCHANGED <<msg, console, wall>> /\ pipe' = pipe \o Header(0, MSG_TERM)
        /\ main # "joinServer" /\ main' = "joinServer" /\ console # "text"
    BY <1>3, <1>0 DEF StopServer, Silent, consoleVars, serverVars
  <2>2. PICK starts \in SUBSET Nat : Framed(starts)
    BY <1>0, <2>1 DEF Framing
  <2>3. Header(0, MSG_TERM) \in Seq(Bytes)
    BY HeaderBytes DEF MSG_TERM, Bytes
  <2>4. /\ HeaderAt(pipe', Len(pipe), 0, MSG_TERM) /\ Len(pipe') = Len(pipe) + SizeofSignal
    BY <1>1, <2>1, <2>3, HeaderWritten
  <2>5. Len(pipe') \in Nat /\ Len(pipe) < Len(pipe')
    BY <1>1, <2>4 DEF SizeofSignal
  <2>6. starts \subseteq 0..Len(pipe)
    BY <2>2 DEF Framed
  <2>7. starts \subseteq 0..Len(pipe') /\ Len(pipe') \notin starts
    BY <1>1, <2>5, <2>6
  <2>8. ASSUME NEW i \in starts, i < Len(pipe')
        PROVE  MessageAt(starts, i)'
    <3>1. CASE i = Len(pipe)
      BY <2>1, <2>4, <3>1 DEF MessageAt
    <3>2. CASE i < Len(pipe)
      <4>1. MessageAt(starts, i)
        BY <2>2, <3>2 DEF Framed
      <4> QED
        BY <1>1, <2>1, <2>3, <4>1, MessageKept
    <3>3. i = Len(pipe) \/ i < Len(pipe)
      BY <1>1, <2>6
    <3> QED
      BY <3>1, <3>2, <3>3
  <2>9. server' = "data" =>
          /\ msg'.cnt \in WallSizes /\ msg'.type = MSG_WALL
          /\ msg'.cnt \in starts
    BY <2>1, <2>2 DEF Framed
  <2>10. server' \in {"absent", "init", "poll"} => 0 \in starts
    BY <2>1, <2>2 DEF Framed
  <2>11. Framed(starts)'
    BY <2>7, <2>8, <2>9, <2>10 DEF Framed
  <2> QED
    BY <2>11
<1>4. CASE SendPlain
  <2> SUFFICES ASSUME server' \in Reading
               PROVE  \E starts \in SUBSET Nat : Framed(starts)'
    BY DEF Framing
  <2>1. main \notin {"joinServer", "joinConsole", "cleanup"} /\ console = "poll"
    BY <1>0, <1>4 DEF SendPlain, Command, Silent
  <2>2. PICK type \in {MSG_PAUSE, MSG_CONT} : Write(Header(0, type))
    BY <1>4 DEF SendPlain
  <2>3. /\ pipe' = pipe \o Header(0, type)
        /\ UNCHANGED <<main, console, wall, msg, server>>
    BY <1>4, <2>1, <2>2 DEF SendPlain, Write, serverVars
  <2>4. PICK starts \in SUBSET Nat : Framed(starts)
    BY <1>0, <2>3 DEF Framing
  <2>5. Header(0, type) \in Seq(Bytes)
    <3>1. type \in Bytes
      BY DEF MSG_PAUSE, MSG_CONT, Bytes
    <3> QED
      BY <3>1, HeaderBytes
  <2>6. HeaderAt(pipe', Len(pipe), 0, type) /\ Len(pipe') = Len(pipe) + SizeofSignal
    BY <1>1, <2>3, <2>5, HeaderWritten
  <2>7. Len(pipe') \in Nat /\ Len(pipe) < Len(pipe')
    BY <1>1, <2>6 DEF SizeofSignal
  <2>8. starts \subseteq 0..Len(pipe)
    BY <2>4 DEF Framed
  <2>a. PICK all \in SUBSET Nat : all = starts \union {Len(pipe')}
    BY <2>7
  <2>9. all \subseteq 0..Len(pipe')
    BY <1>1, <2>7, <2>8, <2>a
  <2>10. ASSUME NEW i \in all, i < Len(pipe')
         PROVE  MessageAt(all, i)'
    <3>1. CASE i = Len(pipe)
      BY <2>6, <2>a, <3>1 DEF MessageAt
    <3>2. CASE i < Len(pipe)
      <4>1. MessageAt(starts, i)
        BY <1>1, <2>4, <2>7, <2>a, <3>2 DEF Framed
      <4> QED
        BY <1>1, <2>1, <2>3, <2>5, <2>a, <4>1, MessageKept
    <3>3. i = Len(pipe) \/ i < Len(pipe)
      BY <1>1, <2>7, <2>8, <2>10, <2>a
    <3> QED
      BY <3>1, <3>2, <3>3
  <2>11. server' = "data" =>
          /\ msg'.cnt \in WallSizes /\ msg'.type = MSG_WALL
          /\ msg'.cnt \in all
    BY <2>1, <2>3, <2>4, <2>a DEF Framed
  <2>12. server' \in {"absent", "init", "poll"} => 0 \in all
    BY <2>3, <2>4, <2>a DEF Framed
  <2>13. Framed(all)'
    BY <2>1, <2>3, <2>9, <2>10, <2>11, <2>12 DEF Framed
  <2> QED
    BY <2>13
<1>5. CASE SendWall
  <2> SUFFICES ASSUME server' \in Reading
               PROVE  \E starts \in SUBSET Nat : Framed(starts)'
    BY DEF Framing
  <2>1. main \notin {"joinServer", "joinConsole", "cleanup"} /\ console = "poll"
    BY <1>0, <1>5 DEF SendWall, Command, Silent
  <2>2. PICK n \in WallSizes : Write(Header(n, MSG_WALL)) /\ wall' = n
    BY <1>5 DEF SendWall
  <2>3. /\ pipe' = pipe \o Header(n, MSG_WALL)
        /\ UNCHANGED <<main, msg, server>> /\ console' = "text"
    BY <1>5, <2>1, <2>2 DEF SendWall, Write, serverVars
  <2>4. PICK starts \in SUBSET Nat : Framed(starts)
    BY <1>0, <2>3 DEF Framing
  <2>5. Header(n, MSG_WALL) \in Seq(Bytes)
    <3>1. MSG_WALL \in Bytes
      BY DEF MSG_WALL, Bytes
    <3>2. n \in Nat /\ n <= 65535
      BY SizesAssumption
    <3> QED
      BY <3>1, <3>2, HeaderBytes
  <2>6. HeaderAt(pipe', Len(pipe), n, MSG_WALL) /\ Len(pipe') = Len(pipe) + SizeofSignal
    BY <1>1, <2>3, <2>5, HeaderWritten
  <2>7. Len(pipe') \in Nat /\ Len(pipe) < Len(pipe')
    BY <1>1, <2>6 DEF SizeofSignal
  <2>8. starts \subseteq 0..Len(pipe)
    BY <2>4 DEF Framed
  <2>9. starts \subseteq 0..Len(pipe') /\ Len(pipe') \notin starts
    BY <1>1, <2>7, <2>8
  <2>10. ASSUME NEW i \in starts, i < Len(pipe')
         PROVE  MessageAt(starts, i)'
    <3>1. CASE i = Len(pipe)
      BY <2>2, <2>3, <2>6, <3>1 DEF MessageAt
    <3>2. CASE i < Len(pipe)
      <4>1. MessageAt(starts, i)
        BY <2>4, <3>2 DEF Framed
      <4> QED
        BY <1>1, <2>1, <2>3, <2>5, <4>1, MessageKept
    <3>3. i = Len(pipe) \/ i < Len(pipe)
      BY <1>1, <2>8
    <3> QED
      BY <3>1, <3>2, <3>3
  <2>11. server' = "data" =>
          /\ msg'.cnt \in WallSizes /\ msg'.type = MSG_WALL
          /\ msg'.cnt \in starts
    BY <2>1, <2>3, <2>4 DEF Framed
  <2>12. server' \in {"absent", "init", "poll"} => 0 \in starts
    BY <2>3, <2>4 DEF Framed
  <2>13. Framed(starts)'
    BY <2>1, <2>3, <2>9, <2>10, <2>11, <2>12 DEF Framed
  <2> QED
    BY <2>13
<1>6. CASE SendText
  <2> SUFFICES ASSUME server' \in Reading
               PROVE  \E starts \in SUBSET Nat : Framed(starts)'
    BY DEF Framing
  <2>1. main \notin {"joinServer", "joinConsole", "cleanup"} /\ console = "text"
    BY <1>0, <1>6 DEF SendText, Silent
  <2>2. /\ pipe' = pipe \o Text(wall)
        /\ UNCHANGED <<main, msg, server>> /\ console' = "poll"
    BY <1>6, <2>1 DEF SendText, Write, serverVars
  <2>3. PICK starts \in SUBSET Nat : Framed(starts)
    BY <1>0, <2>2 DEF Framing
  <2>4. wall \in Nat
    BY SizesAssumption DEF FramingInv, TypeOK, MessagesOK
  <2>5. Text(wall) \in Seq(Bytes) /\ Len(Text(wall)) = wall
    <3>1. 0 \in Bytes /\ 97 \in Bytes
      BY DEF Bytes
    <3> QED
      BY <2>4, <3>1 DEF Text
  <2>6. Len(pipe') = Len(pipe) + wall
    <3> DEFINE t == Text(wall)
    <3>1. pipe' = pipe \o t /\ t \in Seq(Bytes) /\ Len(t) = wall
      BY <2>2, <2>5
    <3> HIDE DEF t
    <3>2. Len(pipe \o t) = Len(pipe) + Len(t)
      BY <1>1, <3>1, ConcatProperties
    <3> QED
      BY <3>1, <3>2
  <2>7. Len(pipe') \in Nat /\ Len(pipe) <= Len(pipe')
    BY <1>1, <2>4, <2>6
  <2>8. starts \subseteq 0..Len(pipe) /\ Len(pipe) \notin starts
    BY <2>1, <2>3 DEF Framed
  <2>a. PICK all \in SUBSET Nat : all = starts \union {Len(pipe')}
    BY <2>7
  <2>9. all \subseteq 0..Len(pipe')
    BY <1>1, <2>7, <2>8, <2>a
  <2>10. ASSUME NEW i \in all, i < Len(pipe')
         PROVE  MessageAt(all, i)'
    <3>1. i \in starts /\ i < Len(pipe) /\ i \in Nat
      BY <1>1, <2>7, <2>8, <2>10, <2>a
    <3>2. MessageAt(starts, i)
      BY <2>3, <3>1 DEF Framed
    <3> QED
      BY <1>1, <2>1, <2>2, <2>5, <2>6, <2>8, <2>a, <3>1, <3>2, MessageKept
  <2>11. server' = "data" =>
          /\ msg'.cnt \in WallSizes /\ msg'.type = MSG_WALL
          /\ msg'.cnt \in all
    <3>1. pipe = <<>> => Len(pipe') = wall
      BY <1>1, <2>4, <2>6
    <3> QED
      BY <2>1, <2>2, <2>3, <2>a, <3>1 DEF Framed
  <2>12. server' \in {"absent", "init", "poll"} => 0 \in all
    BY <2>2, <2>3, <2>a DEF Framed
  <2>13. Framed(all)'
    BY <2>1, <2>2, <2>9, <2>10, <2>11, <2>12 DEF Framed
  <2> QED
    BY <2>13
<1>7. CASE ReadHeader
  <2> SUFFICES ASSUME server' \in Reading
               PROVE  \E starts \in SUBSET Nat : Framed(starts)'
    BY DEF Framing
  <2>1. /\ server = "poll" /\ pipe # <<>> /\ pipe' = After(SizeofSignal)
        /\ UNCHANGED <<main, console, wall>>
    BY <1>7 DEF ReadHeader, consoleVars
  <2>2. PICK starts \in SUBSET Nat : Framed(starts)
    BY <1>0, <2>1 DEF Framing, Reading
  <2>3. 0 < Len(pipe)
    BY <1>1, <2>1
  <2>4. 0 \in starts /\ MessageAt(starts, 0)
    BY <2>1, <2>2, <2>3 DEF Framed
  <2> DEFINE left == Left(starts, SizeofSignal)
  <2>5. left \in SUBSET Nat
    BY DEF Left
  <2>6. SizeofSignal \in Nat /\ 0 + SizeofSignal = SizeofSignal
    BY DEF SizeofSignal
  <2>7. Available(SizeofSignal) = SizeofSignal =>
          /\ left \subseteq 0..Len(pipe')
          /\ \A i \in left : i < Len(pipe') => MessageAt(left, i)'
          /\ console' = "text" \/ main' = "joinServer" => Len(pipe') \notin left
    BY <1>1, <2>1, <2>2, <2>6, LeftFramed
  <2> HIDE DEF left
  <2>0. ASSUME Available(SizeofSignal) = SizeofSignal, Decoded(pipe).cnt \in Nat
        PROVE  \/ Decoded(pipe).cnt > 0 /\ server' = "data" /\ msg' = Decoded(pipe)
               \/ Decoded(pipe).cnt = 0 /\ Handle(Decoded(pipe).type)
    <3>1. ~(Available(SizeofSignal) < SizeofSignal)
      BY <2>6, <2>0
    <3> QED
      BY <1>7, <3>1 DEF ReadHeader
  <2>8. CASE \E type \in {MSG_PAUSE, MSG_CONT} : HeaderAt(pipe, 0, 0, type) /\ 0 + SizeofSignal \in starts
    <3>1. PICK type \in {MSG_PAUSE, MSG_CONT} : HeaderAt(pipe, 0, 0, type) /\ SizeofSignal \in starts
      BY <2>6, <2>8
    <3>2. type \in Nat /\ type # MSG_TERM
      BY DEF MSG_PAUSE, MSG_CONT, MSG_TERM
    <3>3. Available(SizeofSignal) = SizeofSignal /\ Decoded(pipe).cnt = 0 /\ Decoded(pipe).type = type
      BY <1>1, <3>1, <3>2, HeaderUnderstood
    <3>4. server' = "poll"
      BY <2>0, <3>2, <3>3 DEF Handle
    <3>5. 0 \in left
      BY <2>6, <3>1 DEF left, Left
    <3>6. Framed(left)'
      BY <2>7, <3>3, <3>4, <3>5 DEF Framed
    <3> QED
      BY <2>5, <3>6
  <2>9. CASE \E n \in WallSizes :
               /\ HeaderAt(pipe, 0, n, MSG_WALL)
               /\ \/ 0 + SizeofSignal + n \in starts
                  \/ 0 + SizeofSignal = Len(pipe) /\ console = "text" /\ wall = n
    <3>1. PICK n \in WallSizes :
                 /\ HeaderAt(pipe, 0, n, MSG_WALL)
                 /\ \/ SizeofSignal + n \in starts
                    \/ SizeofSignal = Len(pipe) /\ console = "text" /\ wall = n
      BY <2>6, <2>9
    <3>2. n \in Nat /\ n > 0 /\ MSG_WALL \in Nat
      BY SizesAssumption DEF MSG_WALL
    <3>3. Available(SizeofSignal) = SizeofSignal /\ Decoded(pipe).cnt = n /\ Decoded(pipe).type = MSG_WALL
      BY <1>1, <3>1, <3>2, HeaderUnderstood
    <3>4. server' = "data" /\ msg' = Decoded(pipe)
      BY <2>0, <3>2, <3>3
    <3>5. n \in left \/ (pipe' = <<>> /\ console' = "text" /\ wall' = n)
      <4>1. CASE SizeofSignal + n \in starts
        <5>1. n + SizeofSignal = SizeofSignal + n
          BY <2>6, <3>2
        <5> QED
          BY <3>2, <4>1, <5>1 DEF left, Left
      <4>2. CASE SizeofSignal = Len(pipe) /\ console = "text" /\ wall = n
        <5>1. Len(pipe') = Len(pipe) - SizeofSignal
          BY <1>1, <2>1, <2>6, <3>3, ReadAll
        <5>2. Len(pipe') = 0
          BY <2>6, <4>2, <5>1
        <5>3. pipe' \in Seq(Bytes)
          BY <1>1, <2>1, <2>6, ReadBytes
        <5> QED
          BY <2>1, <4>2, <5>2, <5>3
      <4> QED
        BY <3>1, <4>1, <4>2
    <3>6. Framed(left)'
      BY <2>7, <3>3, <3>4, <3>5 DEF Framed
    <3> QED
      BY <2>5, <3>6
  <2>10. CASE HeaderAt(pipe, 0, 0, MSG_TERM)
    <3>1. MSG_TERM \in Nat
      BY DEF MSG_TERM
    <3>2. Available(SizeofSignal) = SizeofSignal /\ Decoded(pipe).cnt = 0 /\ Decoded(pipe).type = MSG_TERM
      BY <1>1, <2>10, <3>1, HeaderUnderstood
    <3>3. server' = "closing"
      BY <2>0, <3>2 DEF Handle
    <3> QED
      BY <3>3 DEF Reading
  <2> QED
    BY <2>4, <2>8, <2>9, <2>10 DEF MessageAt
<1>8. CASE ReadData
  <2> SUFFICES ASSUME server' \in Reading
               PROVE  \E starts \in SUBSET Nat : Framed(starts)'
    BY DEF Framing
  <2>1. /\ server = "data" /\ pipe # <<>> /\ pipe' = After(msg.cnt)
        /\ UNCHANGED <<main, console, wall>>
    BY <1>8 DEF ReadData, consoleVars
  <2>2. PICK starts \in SUBSET Nat : Framed(starts)
    BY <1>0, <2>1 DEF Framing, Reading
  <2>3. msg.cnt \in starts /\ msg.type = MSG_WALL
    BY <2>1, <2>2 DEF Framed
  <2>n. PICK n \in Nat : n = msg.cnt
    BY DEF FramingInv, TypeOK, MessagesOK
  <2> DEFINE left == Left(starts, n)
  <2>4. n \in starts /\ n <= Len(pipe)
    <3>1. starts \subseteq 0..Len(pipe)
      BY <2>2 DEF Framed
    <3> QED
      BY <1>1, <2>3, <2>n, <3>1
  <2>5. Available(n) = n
    BY <1>1, <2>4 DEF Available
  <2>6. /\ left \subseteq 0..Len(pipe')
        /\ \A i \in left : i < Len(pipe') => MessageAt(left, i)'
        /\ console' = "text" \/ main' = "joinServer" => Len(pipe') \notin left
    BY <1>1, <2>1, <2>2, <2>5, <2>n, LeftFramed
  <2>7. 0 \in left /\ left \in SUBSET Nat
    BY <2>4 DEF Left
  <2>8. server' = "poll"
    BY <1>8, <2>3 DEF ReadData, Handle, MSG_WALL, MSG_TERM
  <2> HIDE DEF left
  <2>9. Framed(left)'
    BY <2>6, <2>7, <2>8 DEF Framed
  <2> QED
    BY <2>7, <2>9
<1>9. Still \/ StopServer \/ SendPlain \/ SendWall \/ SendText \/ ReadHeader \/ ReadData
  <2>1. MainStep => Still \/ StopServer
    <3>1. StartServer => Still
      BY <1>0 DEF StartServer, Started, Still, Reading, consoleVars
    <3>2. JoinServer => Still
      BY DEF JoinServer, Still, Reading, consoleVars, serverVars
    <3>3. StartConsole \/ MaskSignals \/ StopConsole => Still
      BY <1>0 DEF StartConsole, MaskSignals, StopConsole, Started, Still, consoleVars, serverVars
    <3>4. JoinConsole \/ Cleanup => Still
      BY DEF JoinConsole, Cleanup, Still, consoleVars, serverVars
    <3> QED
      BY <3>1, <3>2, <3>3, <3>4 DEF MainStep
  <2>2. ConsoleStep => Still \/ SendText
    BY DEF ConsoleStep, MakeLoop, StartWatchers, BreakLoop, EndConsole, Still, serverVars
  <2>3. ServerStep => Still \/ ReadHeader \/ ReadData
    BY DEF ServerStep, StartServing, ClosePeers, StopPorts, JoinPorts, StopWorkers, Still,
       Reading, consoleVars
  <2>4. OutsideSignal \/ Quit \/ FailToServe => Still
    BY DEF OutsideSignal, Quit, FailToServe, Signal, Still, consoleVars, serverVars
  <2>5. PortsStep => Still
    BY DEF PortsStep, UpdateAllPorts, Sleep, Timeout, CheckClock, Decide, Still, consoleVars,
       serverVars
  <2>6. UNCHANGED vars => Still
    BY DEF vars, Still, consoleVars, serverVars
  <2> HIDE DEF Still
  <2> QED
    BY <2>1, <2>2, <2>3, <2>4, <2>5, <2>6 DEF Next
<1> HIDE DEF Still
<1> QED
  BY <1>2, <1>3, <1>4, <1>5, <1>6, <1>7, <1>8, <1>9

(* main() starts each thread once.                                         *)
LEMMA StartedStep == Started /\ [Next]_vars => Started'
<1> SUFFICES ASSUME Started, [Next]_vars
             PROVE  Started'
  OBVIOUS
<1>1. CASE MainStep
  BY <1>1 DEF MainStep, StartServer, StartConsole, MaskSignals, StopConsole, StopServer,
     JoinServer, JoinConsole, Cleanup, Started, serverVars, consoleVars
<1>2. CASE ServerStep \/ FailToServe
  BY <1>2 DEF ServerStep, StartServing, ReadHeader, ReadData, ClosePeers, StopPorts, JoinPorts,
     StopWorkers, FailToServe, Started, consoleVars
<1>3. CASE OutsideSignal
  BY <1>3 DEF OutsideSignal, Signal, Started, serverVars, consoleVars
<1>4. CASE Quit
  BY <1>4 DEF Quit, Command, Signal, Started, serverVars
<1>5. CASE ConsoleStep \/ SendPlain \/ SendWall
  <2>1. UNCHANGED <<main, server>> /\ console # "absent"
    BY <1>5 DEF ConsoleStep, MakeLoop, StartWatchers, SendText, BreakLoop, EndConsole,
       SendPlain, SendWall, Command, serverVars
  <2> QED
    BY <2>1 DEF Started
<1>6. CASE PortsStep \/ UNCHANGED vars
  <2>1. UNCHANGED <<main, server, console>>
    BY <1>6 DEF PortsStep, UpdateAllPorts, Sleep, Timeout, CheckClock, Decide,
       vars, serverVars, consoleVars
  <2> QED
    BY <2>1 DEF Started
<1> QED
  BY <1>1, <1>2, <1>3, <1>4, <1>5, <1>6 DEF Next

(* If the signal main() waits for comes from "quit", the server has        *)
(* understood MSG_TERM when it has left the pipe: no message before it was *)
(* read short or its text taken for a header.                              *)
THEOREM TermHonouredAlways ==
  ASSUME "waiting" \notin Signals
  PROVE  Spec => []TermHonoured
<1>1. Init => FramingInv
  <2> SUFFICES ASSUME Init
               PROVE  FramingInv
    OBVIOUS
  <2>1. 0 \in 0..MaxMessages
    BY BoundAssumption
  <2>2. ThreadsOK
    BY DEF Init, ThreadsOK
  <2>6. MessagesOK
    BY <2>1 DEF Init, MessagesOK, NoMsg
  <2>3. StopOrder /\ Silent /\ Started
    BY DEF Init, StopOrder, Silent, Started
  <2>4. Framed({0})
    BY DEF Init, Framed
  <2>5. Framing
    BY <2>4 DEF Framing
  <2> QED
    BY <2>2, <2>6, <2>3, <2>5 DEF FramingInv, TypeOK
<1>2. FramingInv /\ [Next]_vars => FramingInv'
  <2>1. FramingInv /\ [Next]_vars => Framing'
    BY FramingStep
  <2>2. TypeOK /\ [Next]_vars => TypeOK'
    BY ThreadsStep, MessagesStep DEF TypeOK
  <2>3. Silent /\ [Next]_vars => Silent'
    BY SilentStep
  <2> QED
    BY <2>1, <2>2, <2>3, StopOrderStep, StartedStep DEF FramingInv
<1>3. FramingInv => TermHonoured
  <2> SUFFICES ASSUME FramingInv, main = "joinServer", pipe = <<>>, server \in Reading
               PROVE  FALSE
    BY DEF TermHonoured, FramingInv, TypeOK, ThreadsOK, Reading
  <2>1. PICK starts \in SUBSET Nat : Framed(starts)
    BY DEF FramingInv, Framing
  <2>2. Len(pipe) = 0 /\ 0 \notin starts /\ console # "text"
    BY <2>1 DEF Framed, FramingInv, Silent
  <2>3. server = "data"
    BY <2>1, <2>2 DEF Framed, Reading
  <2>4. msg.cnt \in WallSizes /\ msg.cnt \in 0..0
    BY <2>1, <2>2, <2>3 DEF Framed
  <2> QED
    BY <2>4, SizesAssumption
<1> QED
  BY <1>1, <1>2, <1>3, PTL DEF Spec
=============================================================================
