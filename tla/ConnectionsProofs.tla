------------------------- MODULE ConnectionsProofs -------------------------
(***************************************************************************)
(* Proofs about Connections for any number of connections and workers.     *)
(***************************************************************************)
EXTENDS Connections, SequenceTheorems, TLAPS

-----------------------------------------------------------------------------
(* Removing an entry from the work list leaves a list of connections.      *)
LEMMA UnlinkType ==
  ASSUME NEW T, NEW s \in Seq(T), NEW c
  PROVE  Unlink(s, c) \in Seq(T)
<1>1. CASE c \notin Range(s)
  BY <1>1 DEF Unlink
<1>2. CASE c \in Range(s)
  <2>. DEFINE i == CHOOSE j \in DOMAIN s : s[j] = c
  <2>1. i \in 1 .. Len(s)
    BY <1>2 DEF Range
  <2>2. \A j \in 1 .. Len(s) : s[j] \in T
    BY ElementOfSeq
  <2>3. Unlink(s, c) = SubSeq(s, 1, i - 1) \o SubSeq(s, i + 1, Len(s))
    BY <1>2 DEF Unlink
  <2>. HIDE DEF i
  <2>4. SubSeq(s, 1, i - 1) \in Seq(T)
    BY <2>1, <2>2, SubSeqProperties
  <2>5. SubSeq(s, i + 1, Len(s)) \in Seq(T)
    BY <2>1, <2>2, SubSeqProperties
  <2>. QED  BY <2>3, <2>4, <2>5, ConcatProperties
<1>. QED  BY <1>1, <1>2

(* Everything has its type at first.                                       *)
LEMMA InitType == Init => TypeOK
  BY DEF Init, TypeOK, Holds, None, Lines, NoLine

(* Each step of a thread, of the loop or of a peer keeps the types.        *)
LEMMA NextType == TypeOK /\ [Next]_vars => TypeOK'
<1>. SUFFICES ASSUME TypeOK, [Next]_vars PROVE TypeOK'
  OBVIOUS
<1>. USE ConnsAssumption DEF TypeOK, None, Lines, NoLine, Holds
<1>1. ASSUME NEW w \in Workers, Wait(w) PROVE TypeOK'
  BY <1>1 DEF Wait, vars, connVars, queueVars, workerVars, loopVars, peerVars
<1>2. ASSUME NEW w \in Workers, SpuriousWake(w) PROVE TypeOK'
  BY <1>2 DEF SpuriousWake, vars, connVars, queueVars, workerVars, loopVars, peerVars
<1>3. ASSUME NEW w \in Workers, Exit(w) PROVE TypeOK'
  BY <1>3 DEF Exit, vars, connVars, queueVars, workerVars, loopVars, peerVars
<1>4. ASSUME NEW w \in Workers, Take(w) PROVE TypeOK'
  BY <1>4 DEF Take, vars, connVars, queueVars, workerVars, loopVars, peerVars
<1>5. ASSUME NEW w \in Workers, Claim(w) PROVE TypeOK'
  BY <1>5 DEF Claim, vars, connVars, queueVars, workerVars, loopVars, peerVars
<1>6. ASSUME NEW w \in Workers, CheckTerminate(w) PROVE TypeOK'
  <2>. DEFINE c == conn[w]
  <2>. c \in Conns
    BY <1>6 DEF CheckTerminate
  <2>1. CASE terminate[c]
    <3>1. Abandon(w)
      BY <1>6, <2>1 DEF CheckTerminate
    <3>2. /\ workerLock' \in [Conns -> Workers \union {Server, None}]
          /\ pc' = [pc EXCEPT ![w] = "lock"]
          /\ conn' = [conn EXCEPT ![w] = NoConn]
          /\ UNCHANGED worker
      BY <3>1 DEF Abandon
    <3>. QED  BY <1>6, <3>2 DEF CheckTerminate, vars, connVars, queueVars, workerVars, loopVars, peerVars
  <2>2. CASE ~terminate[c]
    BY <1>6, <2>2 DEF CheckTerminate, Abandon, vars, connVars, queueVars, workerVars, loopVars, peerVars
  <2>. QED  BY <2>1, <2>2
<1>7. ASSUME NEW w \in Workers, Mark(w) PROVE TypeOK'
  <2>. DEFINE c == conn[w]
  <2>. c \in Conns
    BY <1>7 DEF Mark
  <2>1. CASE worker[c]
    <3>1. Abandon(w)
      BY <1>7, <2>1 DEF Mark
    <3>2. /\ workerLock' \in [Conns -> Workers \union {Server, None}]
          /\ pc' = [pc EXCEPT ![w] = "lock"]
          /\ conn' = [conn EXCEPT ![w] = NoConn]
          /\ UNCHANGED worker
      BY <3>1 DEF Abandon
    <3>. QED  BY <1>7, <3>2 DEF Mark, vars, connVars, queueVars, workerVars, loopVars, peerVars
  <2>2. CASE ~worker[c]
    <3>1. /\ worker' = [worker EXCEPT ![c] = TRUE]
          /\ workerLock' = [workerLock EXCEPT ![c] = None]
          /\ pc' = [pc EXCEPT ![w] = "run"]
          /\ UNCHANGED conn
      BY <1>7, <2>2 DEF Mark
    <3>. QED  BY <1>7, <3>1 DEF Mark, vars, connVars, queueVars, workerVars, loopVars, peerVars
  <2>. QED  BY <2>1, <2>2
<1>8. ASSUME NEW w \in Workers, Run(w) PROVE TypeOK'
  <2>1. PICK C : DisconnectNicely(C)
    BY <1>8 DEF Run, SendTo
  <2>2. /\ terminate' \in [Conns -> BOOLEAN]
        /\ killWatcher' \in [Conns -> {"off", "on", "sent"}]
    BY <2>1 DEF DisconnectNicely
  <2>. QED  BY <1>8, <2>2 DEF Run, vars, connVars, queueVars, workerVars, loopVars, peerVars
<1>9. ASSUME NEW w \in Workers, Prompt(w) PROVE TypeOK'
  BY <1>9 DEF Prompt, DisconnectNicely, SendTo, MayFail, vars, connVars, queueVars, workerVars, loopVars, peerVars
<1>10. ASSUME NEW w \in Workers, Done(w) PROVE TypeOK'
  BY <1>10 DEF Done, vars, connVars, queueVars, workerVars, loopVars, peerVars
<1>11. ASSUME NEW c \in Conns, Accept(c) PROVE TypeOK'
  BY <1>11 DEF Accept, Dispatching, vars, connVars, queueVars, workerVars, loopVars, peerVars
<1>12. ASSUME NEW c \in Conns, Refuse(c) PROVE TypeOK'
  BY <1>12 DEF Refuse, Dispatching, vars, connVars, queueVars, workerVars, loopVars, peerVars
<1>13. ASSUME NEW c \in Conns, Receive(c) PROVE TypeOK'
  BY <1>13 DEF Receive, Dispatching, vars, connVars, queueVars, workerVars, loopVars, peerVars
<1>14. ASSUME NEW c \in Conns, Disconnect(c) PROVE TypeOK'
  BY <1>14 DEF Disconnect, Dispatching, vars, connVars, queueVars, workerVars, loopVars, peerVars
<1>15. ASSUME NEW c \in Conns, DisconnectNext(c) PROVE TypeOK'
  BY <1>15 DEF DisconnectNext, vars, connVars, queueVars, workerVars, loopVars, peerVars
<1>16. ASSUME NEW c \in Conns, ClientSend(c) PROVE TypeOK'
  BY <1>16 DEF ClientSend, vars, connVars, queueVars, workerVars, loopVars, peerVars
<1>17. CASE DoWork
  BY <1>17 DEF DoWork, vars, connVars, queueVars, workerVars, loopVars, peerVars
<1>18. CASE Dequeue
  BY <1>18, UnlinkType DEF Dequeue, vars, connVars, queueVars, workerVars, loopVars, peerVars
<1>19. CASE Spin
  BY <1>19 DEF Spin, vars, connVars, queueVars, workerVars, loopVars, peerVars
<1>20. CASE Free
  BY <1>20 DEF Free, vars, connVars, queueVars, workerVars, loopVars, peerVars
<1>21. CASE LeaveLoop
  BY <1>21 DEF LeaveLoop, vars, connVars, queueVars, workerVars, loopVars, peerVars
<1>22. CASE Shutdown
  BY <1>22 DEF Shutdown, Open, vars, connVars, queueVars, workerVars, loopVars, peerVars
<1>23. CASE Join
  BY <1>23 DEF Join, vars, connVars, queueVars, workerVars, loopVars, peerVars
<1>24. CASE Pause
  BY <1>24 DEF Pause, Dispatching, SendToAll, SendTo, MayFail, DisconnectNicely, Open, vars, connVars, queueVars, workerVars, loopVars, peerVars
<1>25. CASE Continue
  BY <1>25 DEF Continue, Dispatching, SendToAll, SendTo, MayFail, DisconnectNicely, Open, vars, connVars, queueVars, workerVars, loopVars, peerVars
<1>26. CASE Wall
  BY <1>26 DEF Wall, Dispatching, SendToAll, SendTo, MayFail, DisconnectNicely, Open, vars, connVars, queueVars, workerVars, loopVars, peerVars
<1>27. CASE Term
  BY <1>27 DEF Term, Dispatching, vars, connVars, queueVars, workerVars, loopVars, peerVars
<1>28. CASE UNCHANGED vars
  BY <1>28 DEF vars, connVars, queueVars, workerVars, loopVars, peerVars
<1>. QED
  BY <1>1, <1>2, <1>3, <1>4, <1>5, <1>6, <1>7, <1>8, <1>9, <1>10, <1>11, <1>12, <1>13, <1>14, <1>15, <1>16, <1>17, <1>18, <1>19, <1>20, <1>21, <1>22, <1>23, <1>24, <1>25, <1>26, <1>27, <1>28 DEF Next, WorkerStep, LoopStep

(* Every variable has its type in every reachable state, and a thread that *)
(* is about to use a connection has one.                                   *)
THEOREM TypeCorrect == Spec => []TypeOK
  BY InitType, NextType, PTL DEF Spec





-----------------------------------------------------------------------------
(* Removing an entry from a list without duplicates removes it for good    *)
(* and leaves no duplicates.                                               *)
LEMMA UnlinkRange ==
  ASSUME NEW T, NEW s \in Seq(T), NEW c,
         \A i, j \in DOMAIN s : s[i] = s[j] => i = j
  PROVE  /\ Range(Unlink(s, c)) \subseteq Range(s) \ {c}
         /\ \A i, j \in DOMAIN Unlink(s, c) :
               Unlink(s, c)[i] = Unlink(s, c)[j] => i = j
<1>1. CASE c \notin Range(s)
  BY <1>1 DEF Unlink
<1>2. CASE c \in Range(s)
  <2>. DEFINE k == CHOOSE j \in DOMAIN s : s[j] = c
              u == Unlink(s, c)
              before == SubSeq(s, 1, k - 1)
              after == SubSeq(s, k + 1, Len(s))
  <2>1. k \in 1 .. Len(s) /\ s[k] = c
    BY <1>2 DEF Range
  <2>2. \A j \in 1 .. Len(s) : s[j] \in T
    BY ElementOfSeq
  <2>3. u = before \o after
    BY <1>2 DEF Unlink
  <2>. HIDE DEF k, u
  <2>4. /\ before \in Seq(T)
        /\ Len(before) = k - 1
        /\ \A i \in 1 .. k - 1 : before[i] = s[i]
    BY <2>1, <2>2, SubSeqProperties
  <2>5. /\ after \in Seq(T)
        /\ Len(after) = Len(s) - k
        /\ \A i \in 1 .. Len(s) - k : after[i] = s[i + k]
    BY <2>1, <2>2, SubSeqProperties
  <2>. HIDE DEF before, after
  <2>6. /\ u \in Seq(T)
        /\ Len(u) = Len(before) + Len(after)
        /\ \A i \in 1 .. Len(before) + Len(after) :
              u[i] = IF i <= Len(before) THEN before[i] ELSE after[i - Len(before)]
    BY <2>3, <2>4, <2>5, ConcatProperties, Zenon
  <2>7. /\ Len(s) \in Nat
        /\ DOMAIN u = 1 .. Len(s) - 1
        /\ DOMAIN s = 1 .. Len(s)
    BY <2>1, <2>4, <2>5, <2>6
  <2>8. \A i \in 1 .. Len(s) - 1 : u[i] = IF i < k THEN s[i] ELSE s[i + 1]
    <3>. SUFFICES ASSUME NEW i \in 1 .. Len(s) - 1
                  PROVE  u[i] = IF i < k THEN s[i] ELSE s[i + 1]
      OBVIOUS
    <3>1. Len(before) = k - 1 /\ Len(after) = Len(s) - k
      BY <2>4, <2>5
    <3>2. k - 1 + (Len(s) - k) = Len(s) - 1
      BY <2>1, <2>7
    <3>3. i \in 1 .. Len(before) + Len(after)
      BY <3>1, <3>2
    <3>4. u[i] = IF i <= Len(before) THEN before[i] ELSE after[i - Len(before)]
      BY <2>6, <3>3, Zenon
    <3>5. u[i] = IF i <= k - 1 THEN before[i] ELSE after[i - (k - 1)]
      BY <3>1, <3>4, Zenon
    <3>6. CASE i < k
      BY <2>1, <2>4, <2>7, <3>5, <3>6
    <3>7. CASE i >= k
      <4>1. i - (k - 1) \in 1 .. Len(s) - k
        BY <2>1, <2>7, <3>7
      <4>2. after[i - (k - 1)] = s[i - (k - 1) + k]
        BY <2>5, <4>1
      <4>3. i - (k - 1) + k = i + 1
        BY <2>1, <2>7
      <4>. QED  BY <2>1, <2>7, <3>5, <3>7, <4>2, <4>3
    <3>. QED  BY <2>1, <2>7, <3>6, <3>7
  <2>9. \A i \in DOMAIN u : u[i] \in Range(s) \ {c}
    BY <2>1, <2>7, <2>8 DEF Range
  <2>10. Range(u) \subseteq Range(s) \ {c}
    BY <2>9 DEF Range
  <2>11. \A i, j \in DOMAIN u : u[i] = u[j] => i = j
    BY <2>1, <2>7, <2>8
  <2>. QED  BY <2>10, <2>11 DEF u
<1>. QED  BY <1>1, <1>2

(* The locks: each step takes and releases them for its own thread.        *)
LEMMA LockStep ==
  ASSUME TypeOK, TypeOK', LockInv, [Next]_vars
  PROVE  LockInv'
<1>. USE ConnsAssumption, WorkersAssumption
     DEF TypeOK, None, Holds, Running, LockInv,
         vars, connVars, queueVars, workerVars, loopVars, peerVars
<1>1. ASSUME NEW w \in Workers, Wait(w) PROVE LockInv'
  BY <1>1 DEF Wait
<1>2. ASSUME NEW w \in Workers, SpuriousWake(w) PROVE LockInv'
  BY <1>2 DEF SpuriousWake
<1>3. ASSUME NEW w \in Workers, Exit(w) PROVE LockInv'
  BY <1>3 DEF Exit
<1>4. ASSUME NEW w \in Workers, Take(w) PROVE LockInv'
  BY <1>4 DEF Take
<1>5. ASSUME NEW w \in Workers, Claim(w) PROVE LockInv'
  BY <1>5 DEF Claim
<1>6. ASSUME NEW w \in Workers, CheckTerminate(w) PROVE LockInv'
  BY <1>6 DEF CheckTerminate, Abandon
<1>7. ASSUME NEW w \in Workers, Mark(w) PROVE LockInv'
  BY <1>7 DEF Mark, Abandon
<1>8. ASSUME NEW w \in Workers, Run(w) PROVE LockInv'
  BY <1>8 DEF Run, DisconnectNicely, SendTo, MayFail
<1>9. ASSUME NEW w \in Workers, Prompt(w) PROVE LockInv'
  BY <1>9 DEF Prompt, DisconnectNicely, SendTo, MayFail
<1>10. ASSUME NEW w \in Workers, Done(w) PROVE LockInv'
  BY <1>10 DEF Done
<1>11. ASSUME NEW c \in Conns, Accept(c) PROVE LockInv'
  BY <1>11 DEF Accept, Dispatching
<1>12. ASSUME NEW c \in Conns, Refuse(c) PROVE LockInv'
  BY <1>12 DEF Refuse, Dispatching
<1>13. ASSUME NEW c \in Conns, Receive(c) PROVE LockInv'
  BY <1>13 DEF Receive, Dispatching
<1>14. ASSUME NEW c \in Conns, Disconnect(c) PROVE LockInv'
  BY <1>14 DEF Disconnect, Dispatching
<1>15. ASSUME NEW c \in Conns, DisconnectNext(c) PROVE LockInv'
  BY <1>15 DEF DisconnectNext
<1>16. ASSUME NEW c \in Conns, ClientSend(c) PROVE LockInv'
  BY <1>16 DEF ClientSend
<1>17. CASE DoWork
  BY <1>17 DEF DoWork
<1>18. CASE Dequeue
  BY <1>18 DEF Dequeue
<1>19. CASE Spin
  BY <1>19 DEF Spin
<1>20. CASE Free
  BY <1>20 DEF Free
<1>21. CASE LeaveLoop
  BY <1>21 DEF LeaveLoop
<1>22. CASE Shutdown
  BY <1>22 DEF Shutdown, Open
<1>23. CASE Join
  BY <1>23 DEF Join
<1>24. CASE Pause
  BY <1>24 DEF Pause, SendToAll, SendTo, DisconnectNicely
<1>25. CASE Continue
  BY <1>25 DEF Continue, SendToAll, SendTo, DisconnectNicely
<1>26. CASE Wall
  BY <1>26 DEF Wall, SendToAll, SendTo, DisconnectNicely
<1>27. CASE Term
  BY <1>27 DEF Term, Dispatching
<1>28. CASE UNCHANGED vars
  BY <1>28
<1>. QED
  BY <1>1, <1>2, <1>3, <1>4, <1>5, <1>6, <1>7, <1>8, <1>9, <1>10,
     <1>11, <1>12, <1>13, <1>14, <1>15, <1>16, <1>17, <1>18, <1>19, <1>20, <1>21, <1>22, <1>23, <1>24, <1>25, <1>26, <1>27, <1>28
  DEF Next, WorkerStep, LoopStep

(* One command at a time: Mark begins one only where conn->worker is clear.*)
LEMMA MarkedStep ==
  ASSUME TypeOK, TypeOK', RunnersMarked, [Next]_vars
  PROVE  RunnersMarked'
<1>. USE ConnsAssumption, WorkersAssumption
     DEF TypeOK, None, Holds, Running, RunnersMarked,
         vars, connVars, queueVars, workerVars, loopVars, peerVars
<1>1. ASSUME NEW w \in Workers, Wait(w) PROVE RunnersMarked'
  BY <1>1 DEF Wait
<1>2. ASSUME NEW w \in Workers, SpuriousWake(w) PROVE RunnersMarked'
  BY <1>2 DEF SpuriousWake
<1>3. ASSUME NEW w \in Workers, Exit(w) PROVE RunnersMarked'
  BY <1>3 DEF Exit
<1>4. ASSUME NEW w \in Workers, Take(w) PROVE RunnersMarked'
  BY <1>4 DEF Take
<1>5. ASSUME NEW w \in Workers, Claim(w) PROVE RunnersMarked'
  BY <1>5 DEF Claim
<1>6. ASSUME NEW w \in Workers, CheckTerminate(w) PROVE RunnersMarked'
  BY <1>6 DEF CheckTerminate, Abandon
<1>7. ASSUME NEW w \in Workers, Mark(w) PROVE RunnersMarked'
  BY <1>7 DEF Mark, Abandon
<1>8. ASSUME NEW w \in Workers, Run(w) PROVE RunnersMarked'
  BY <1>8 DEF Run, DisconnectNicely, SendTo, MayFail
<1>9. ASSUME NEW w \in Workers, Prompt(w) PROVE RunnersMarked'
  BY <1>9 DEF Prompt, DisconnectNicely, SendTo, MayFail
<1>10. ASSUME NEW w \in Workers, Done(w) PROVE RunnersMarked'
  BY <1>10 DEF Done
<1>11. ASSUME NEW c \in Conns, Accept(c) PROVE RunnersMarked'
  BY <1>11 DEF Accept, Dispatching
<1>12. ASSUME NEW c \in Conns, Refuse(c) PROVE RunnersMarked'
  BY <1>12 DEF Refuse, Dispatching
<1>13. ASSUME NEW c \in Conns, Receive(c) PROVE RunnersMarked'
  BY <1>13 DEF Receive, Dispatching
<1>14. ASSUME NEW c \in Conns, Disconnect(c) PROVE RunnersMarked'
  BY <1>14 DEF Disconnect, Dispatching
<1>15. ASSUME NEW c \in Conns, DisconnectNext(c) PROVE RunnersMarked'
  BY <1>15 DEF DisconnectNext
<1>16. ASSUME NEW c \in Conns, ClientSend(c) PROVE RunnersMarked'
  BY <1>16 DEF ClientSend
<1>17. CASE DoWork
  BY <1>17 DEF DoWork
<1>18. CASE Dequeue
  BY <1>18 DEF Dequeue
<1>19. CASE Spin
  BY <1>19 DEF Spin
<1>20. CASE Free
  BY <1>20 DEF Free
<1>21. CASE LeaveLoop
  BY <1>21 DEF LeaveLoop
<1>22. CASE Shutdown
  BY <1>22 DEF Shutdown, Open
<1>23. CASE Join
  BY <1>23 DEF Join
<1>24. CASE Pause
  BY <1>24 DEF Pause, SendToAll, SendTo, DisconnectNicely
<1>25. CASE Continue
  BY <1>25 DEF Continue, SendToAll, SendTo, DisconnectNicely
<1>26. CASE Wall
  BY <1>26 DEF Wall, SendToAll, SendTo, DisconnectNicely
<1>27. CASE Term
  BY <1>27 DEF Term, Dispatching
<1>28. CASE UNCHANGED vars
  BY <1>28
<1>. QED
  BY <1>1, <1>2, <1>3, <1>4, <1>5, <1>6, <1>7, <1>8, <1>9, <1>10,
     <1>11, <1>12, <1>13, <1>14, <1>15, <1>16, <1>17, <1>18, <1>19, <1>20, <1>21, <1>22, <1>23, <1>24, <1>25, <1>26, <1>27, <1>28
  DEF Next, WorkerStep, LoopStep

(* Mark sets a flag for itself; Done clears the flag of its connection, on *)
(* which nobody else is running.                                           *)
LEMMA HeldStep ==
  ASSUME TypeOK, TypeOK', RunnersMarked, MarksHeld, [Next]_vars
  PROVE  MarksHeld'
<1>. USE ConnsAssumption, WorkersAssumption
     DEF TypeOK, None, Holds, Running, MarksHeld,
         vars, connVars, queueVars, workerVars, loopVars, peerVars
<1>1. ASSUME NEW w \in Workers, Wait(w) PROVE MarksHeld'
  BY <1>1 DEF Wait
<1>2. ASSUME NEW w \in Workers, SpuriousWake(w) PROVE MarksHeld'
  BY <1>2 DEF SpuriousWake
<1>3. ASSUME NEW w \in Workers, Exit(w) PROVE MarksHeld'
  BY <1>3 DEF Exit
<1>4. ASSUME NEW w \in Workers, Take(w) PROVE MarksHeld'
  BY <1>4 DEF Take
<1>5. ASSUME NEW w \in Workers, Claim(w) PROVE MarksHeld'
  BY <1>5 DEF Claim
<1>6. ASSUME NEW w \in Workers, CheckTerminate(w) PROVE MarksHeld'
  BY <1>6 DEF CheckTerminate, Abandon
<1>7. ASSUME NEW w \in Workers, Mark(w) PROVE MarksHeld'
  BY <1>7 DEF Mark, Abandon
<1>8. ASSUME NEW w \in Workers, Run(w) PROVE MarksHeld'
  BY <1>8 DEF Run, DisconnectNicely, SendTo, MayFail
<1>9. ASSUME NEW w \in Workers, Prompt(w) PROVE MarksHeld'
  BY <1>9 DEF Prompt, DisconnectNicely, SendTo, MayFail
<1>10. ASSUME NEW w \in Workers, Done(w) PROVE MarksHeld'
  BY <1>10 DEF Done, RunnersMarked
<1>11. ASSUME NEW c \in Conns, Accept(c) PROVE MarksHeld'
  BY <1>11 DEF Accept, Dispatching
<1>12. ASSUME NEW c \in Conns, Refuse(c) PROVE MarksHeld'
  BY <1>12 DEF Refuse, Dispatching
<1>13. ASSUME NEW c \in Conns, Receive(c) PROVE MarksHeld'
  BY <1>13 DEF Receive, Dispatching
<1>14. ASSUME NEW c \in Conns, Disconnect(c) PROVE MarksHeld'
  BY <1>14 DEF Disconnect, Dispatching
<1>15. ASSUME NEW c \in Conns, DisconnectNext(c) PROVE MarksHeld'
  BY <1>15 DEF DisconnectNext
<1>16. ASSUME NEW c \in Conns, ClientSend(c) PROVE MarksHeld'
  BY <1>16 DEF ClientSend
<1>17. CASE DoWork
  BY <1>17 DEF DoWork
<1>18. CASE Dequeue
  BY <1>18 DEF Dequeue
<1>19. CASE Spin
  BY <1>19 DEF Spin
<1>20. CASE Free
  BY <1>20 DEF Free
<1>21. CASE LeaveLoop
  BY <1>21 DEF LeaveLoop
<1>22. CASE Shutdown
  BY <1>22 DEF Shutdown, Open
<1>23. CASE Join
  BY <1>23 DEF Join
<1>24. CASE Pause
  BY <1>24 DEF Pause, SendToAll, SendTo, DisconnectNicely
<1>25. CASE Continue
  BY <1>25 DEF Continue, SendToAll, SendTo, DisconnectNicely
<1>26. CASE Wall
  BY <1>26 DEF Wall, SendToAll, SendTo, DisconnectNicely
<1>27. CASE Term
  BY <1>27 DEF Term, Dispatching
<1>28. CASE UNCHANGED vars
  BY <1>28
<1>. QED
  BY <1>1, <1>2, <1>3, <1>4, <1>5, <1>6, <1>7, <1>8, <1>9, <1>10,
     <1>11, <1>12, <1>13, <1>14, <1>15, <1>16, <1>17, <1>18, <1>19, <1>20, <1>21, <1>22, <1>23, <1>24, <1>25, <1>26, <1>27, <1>28
  DEF Next, WorkerStep, LoopStep

(* Together: one command at a time, and a flag for as long as it lasts.    *)
LEMMA RunnerStep ==
  ASSUME TypeOK, TypeOK', OneRunner, [Next]_vars
  PROVE  OneRunner'
BY MarkedStep, HeldStep DEF OneRunner

(* A command condemns its connection while conn->worker is set, and Done   *)
(* waits for the lock that a worker between Claim and Mark holds.          *)
LEMMA DoomStep ==
  ASSUME TypeOK, TypeOK', LockInv, OneRunner, DoomInv, NoUseAfterQuit, [Next]_vars
  PROVE  DoomInv'
<1>. USE ConnsAssumption, WorkersAssumption
     DEF TypeOK, None, Holds, Running, LockInv, OneRunner, RunnersMarked, DoomInv, NoUseAfterQuit,
         vars, connVars, queueVars, workerVars, loopVars, peerVars
<1>1. ASSUME NEW w \in Workers, Wait(w) PROVE DoomInv'
  BY <1>1 DEF Wait
<1>2. ASSUME NEW w \in Workers, SpuriousWake(w) PROVE DoomInv'
  BY <1>2 DEF SpuriousWake
<1>3. ASSUME NEW w \in Workers, Exit(w) PROVE DoomInv'
  BY <1>3 DEF Exit
<1>4. ASSUME NEW w \in Workers, Take(w) PROVE DoomInv'
  BY <1>4 DEF Take
<1>5. ASSUME NEW w \in Workers, Claim(w) PROVE DoomInv'
  BY <1>5 DEF Claim
<1>6. ASSUME NEW w \in Workers, CheckTerminate(w) PROVE DoomInv'
  BY <1>6 DEF CheckTerminate, Abandon
<1>7. ASSUME NEW w \in Workers, Mark(w) PROVE DoomInv'
  BY <1>7 DEF Mark, Abandon
<1>8. ASSUME NEW w \in Workers, Run(w) PROVE DoomInv'
  BY <1>8 DEF Run, DisconnectNicely, SendTo, MayFail
<1>9. ASSUME NEW w \in Workers, Prompt(w) PROVE DoomInv'
  BY <1>9 DEF Prompt, DisconnectNicely, SendTo, MayFail
<1>10. ASSUME NEW w \in Workers, Done(w) PROVE DoomInv'
  BY <1>10 DEF Done
<1>11. ASSUME NEW c \in Conns, Accept(c) PROVE DoomInv'
  BY <1>11 DEF Accept, Dispatching
<1>12. ASSUME NEW c \in Conns, Refuse(c) PROVE DoomInv'
  BY <1>12 DEF Refuse, Dispatching
<1>13. ASSUME NEW c \in Conns, Receive(c) PROVE DoomInv'
  BY <1>13 DEF Receive, Dispatching
<1>14. ASSUME NEW c \in Conns, Disconnect(c) PROVE DoomInv'
  BY <1>14 DEF Disconnect, Dispatching
<1>15. ASSUME NEW c \in Conns, DisconnectNext(c) PROVE DoomInv'
  BY <1>15 DEF DisconnectNext
<1>16. ASSUME NEW c \in Conns, ClientSend(c) PROVE DoomInv'
  BY <1>16 DEF ClientSend
<1>17. CASE DoWork
  BY <1>17 DEF DoWork
<1>18. CASE Dequeue
  BY <1>18 DEF Dequeue
<1>19. CASE Spin
  BY <1>19 DEF Spin
<1>20. CASE Free
  BY <1>20 DEF Free
<1>21. CASE LeaveLoop
  BY <1>21 DEF LeaveLoop
<1>22. CASE Shutdown
  BY <1>22 DEF Shutdown, Open
<1>23. CASE Join
  BY <1>23 DEF Join
<1>24. CASE Pause
  <2>1. PICK failed \in SUBSET MayFail(Open) :
           DisconnectNicely(failed) /\ byLoop' = byLoop \union failed
    BY <1>24 DEF Pause, SendToAll, SendTo
  <2>2. \A d \in Conns : terminate'[d] => terminate[d] \/ d \in failed
    BY <2>1 DEF DisconnectNicely
  <2>3. \A d \in Conns : killWatcher'[d] = "sent" => killWatcher[d] = "sent" \/ terminate'[d]
    BY <2>1 DEF DisconnectNicely
  <2>4. \A d \in Conns : terminate[d] => terminate'[d]
    BY <2>1 DEF DisconnectNicely
  <2>5. UNCHANGED <<pc, conn, worker>>
    BY <1>24 DEF Pause
  <2>. QED  BY <2>1, <2>2, <2>3, <2>4, <2>5
<1>25. CASE Continue
  <2>1. PICK failed \in SUBSET MayFail(Open) :
           DisconnectNicely(failed) /\ byLoop' = byLoop \union failed
    BY <1>25 DEF Continue, SendToAll, SendTo
  <2>2. \A d \in Conns : terminate'[d] => terminate[d] \/ d \in failed
    BY <2>1 DEF DisconnectNicely
  <2>3. \A d \in Conns : killWatcher'[d] = "sent" => killWatcher[d] = "sent" \/ terminate'[d]
    BY <2>1 DEF DisconnectNicely
  <2>4. \A d \in Conns : terminate[d] => terminate'[d]
    BY <2>1 DEF DisconnectNicely
  <2>5. UNCHANGED <<pc, conn, worker>>
    BY <1>25 DEF Continue
  <2>. QED  BY <2>1, <2>2, <2>3, <2>4, <2>5
<1>26. CASE Wall
  <2>1. PICK failed \in SUBSET MayFail(Open) :
           DisconnectNicely(failed) /\ byLoop' = byLoop \union failed
    BY <1>26 DEF Wall, SendToAll, SendTo
  <2>2. \A d \in Conns : terminate'[d] => terminate[d] \/ d \in failed
    BY <2>1 DEF DisconnectNicely
  <2>3. \A d \in Conns : killWatcher'[d] = "sent" => killWatcher[d] = "sent" \/ terminate'[d]
    BY <2>1 DEF DisconnectNicely
  <2>4. \A d \in Conns : terminate[d] => terminate'[d]
    BY <2>1 DEF DisconnectNicely
  <2>5. UNCHANGED <<pc, conn, worker>>
    BY <1>26 DEF Wall
  <2>. QED  BY <2>1, <2>2, <2>3, <2>4, <2>5
<1>27. CASE Term
  BY <1>27 DEF Term, Dispatching
<1>28. CASE UNCHANGED vars
  BY <1>28
<1>. QED
  BY <1>1, <1>2, <1>3, <1>4, <1>5, <1>6, <1>7, <1>8, <1>9, <1>10,
     <1>11, <1>12, <1>13, <1>14, <1>15, <1>16, <1>17, <1>18, <1>19, <1>20, <1>21, <1>22, <1>23, <1>24, <1>25, <1>26, <1>27, <1>28
  DEF Next, WorkerStep, LoopStep

(* The work list holds open connections, each once; the loop takes the one *)
(* it disconnects off the list while no worker is claiming any.            *)
LEMMA QueueStep ==
  ASSUME TypeOK, TypeOK', QueueInv, LockInv, LoopInv, [Next]_vars
  PROVE  QueueInv'
<1>. USE ConnsAssumption, WorkersAssumption
     DEF TypeOK, None, Holds, Running, QueueInv, LockInv, LoopInv, Range,
         vars, connVars, queueVars, workerVars, loopVars, peerVars
<1>1. ASSUME NEW w \in Workers, Wait(w) PROVE QueueInv'
  BY <1>1 DEF Wait
<1>2. ASSUME NEW w \in Workers, SpuriousWake(w) PROVE QueueInv'
  BY <1>2 DEF SpuriousWake
<1>3. ASSUME NEW w \in Workers, Exit(w) PROVE QueueInv'
  BY <1>3 DEF Exit
<1>4. ASSUME NEW w \in Workers, Take(w) PROVE QueueInv'
  BY <1>4 DEF Take
<1>5. ASSUME NEW w \in Workers, Claim(w) PROVE QueueInv'
  BY <1>5 DEF Claim
<1>6. ASSUME NEW w \in Workers, CheckTerminate(w) PROVE QueueInv'
  <2>1. UNCHANGED <<status, workItems, loopPc, loopConn>>
    BY <1>6 DEF CheckTerminate
  <2>2. \A v \in Workers : pc'[v] = "claim" => pc[v] = "claim" /\ conn'[v] = conn[v]
    BY <1>6 DEF CheckTerminate, Abandon
  <2>. HIDE DEF Range
  <2>. QED  BY <2>1, <2>2
<1>7. ASSUME NEW w \in Workers, Mark(w) PROVE QueueInv'
  <2>1. UNCHANGED <<status, workItems, loopPc, loopConn>>
    BY <1>7 DEF Mark
  <2>2. \A v \in Workers : pc'[v] = "claim" => pc[v] = "claim" /\ conn'[v] = conn[v]
    BY <1>7 DEF Mark, Abandon
  <2>. HIDE DEF Range
  <2>. QED  BY <2>1, <2>2
<1>8. ASSUME NEW w \in Workers, Run(w) PROVE QueueInv'
  BY <1>8 DEF Run, DisconnectNicely, SendTo, MayFail
<1>9. ASSUME NEW w \in Workers, Prompt(w) PROVE QueueInv'
  BY <1>9 DEF Prompt, DisconnectNicely, SendTo, MayFail
<1>10. ASSUME NEW w \in Workers, Done(w) PROVE QueueInv'
  BY <1>10 DEF Done
<1>11. ASSUME NEW c \in Conns, Accept(c) PROVE QueueInv'
  BY <1>11 DEF Accept, Dispatching
<1>12. ASSUME NEW c \in Conns, Refuse(c) PROVE QueueInv'
  BY <1>12 DEF Refuse, Dispatching
<1>13. ASSUME NEW c \in Conns, Receive(c) PROVE QueueInv'
  BY <1>13 DEF Receive, Dispatching
<1>14. ASSUME NEW c \in Conns, Disconnect(c) PROVE QueueInv'
  BY <1>14 DEF Disconnect, Dispatching
<1>15. ASSUME NEW c \in Conns, DisconnectNext(c) PROVE QueueInv'
  BY <1>15 DEF DisconnectNext
<1>16. ASSUME NEW c \in Conns, ClientSend(c) PROVE QueueInv'
  BY <1>16 DEF ClientSend
<1>17. CASE DoWork
  BY <1>17 DEF DoWork
<1>18. CASE Dequeue
  <2>1. /\ Range(workItems') \subseteq Range(workItems) \ {loopConn}
        /\ \A i, j \in DOMAIN workItems' : workItems'[i] = workItems'[j] => i = j
    <3>. HIDE DEF Range
    <3>1. workItems' = Unlink(workItems, loopConn)
      BY <1>18 DEF Dequeue
    <3>2. workItems \in Seq(Conns) /\ \A i, j \in DOMAIN workItems : workItems[i] = workItems[j] => i = j
      OBVIOUS
    <3>. QED  BY <3>1, <3>2, UnlinkRange
  <2>2. \A w \in Workers : pc'[w] # "claim"
    BY <1>18 DEF Dequeue
  <2>3. UNCHANGED <<status, conn>>
    BY <1>18 DEF Dequeue
  <2>. HIDE DEF Range
  <2>. QED  BY <1>18, <2>1, <2>2, <2>3 DEF Dequeue
<1>19. CASE Spin
  BY <1>19 DEF Spin
<1>20. CASE Free
  BY <1>20 DEF Free
<1>21. CASE LeaveLoop
  BY <1>21 DEF LeaveLoop
<1>22. CASE Shutdown
  BY <1>22 DEF Shutdown, Open
<1>23. CASE Join
  BY <1>23 DEF Join
<1>24. CASE Pause
  BY <1>24 DEF Pause, SendToAll, SendTo, DisconnectNicely
<1>25. CASE Continue
  BY <1>25 DEF Continue, SendToAll, SendTo, DisconnectNicely
<1>26. CASE Wall
  BY <1>26 DEF Wall, SendToAll, SendTo, DisconnectNicely
<1>27. CASE Term
  BY <1>27 DEF Term, Dispatching
<1>28. CASE UNCHANGED vars
  BY <1>28
<1>. QED
  BY <1>1, <1>2, <1>3, <1>4, <1>5, <1>6, <1>7, <1>8, <1>9, <1>10,
     <1>11, <1>12, <1>13, <1>14, <1>15, <1>16, <1>17, <1>18, <1>19, <1>20, <1>21, <1>22, <1>23, <1>24, <1>25, <1>26, <1>27, <1>28
  DEF Next, WorkerStep, LoopStep

(* Once the loop has seen conn->worker clear, a condemned connection stays *)
(* idle: whoever is about to mark it would find the flag set (DoomInv).    *)
LEMMA LoopInvStep ==
  ASSUME TypeOK, TypeOK', LockInv, OneRunner, DoomInv, LoopInv, [Next]_vars
  PROVE  LoopInv'
<1>. USE ConnsAssumption, WorkersAssumption
     DEF TypeOK, None, Holds, Running, LockInv, OneRunner, RunnersMarked, DoomInv, LoopInv,
         vars, connVars, queueVars, workerVars, loopVars, peerVars
<1>1. ASSUME NEW w \in Workers, Wait(w) PROVE LoopInv'
  BY <1>1 DEF Wait
<1>2. ASSUME NEW w \in Workers, SpuriousWake(w) PROVE LoopInv'
  BY <1>2 DEF SpuriousWake
<1>3. ASSUME NEW w \in Workers, Exit(w) PROVE LoopInv'
  BY <1>3 DEF Exit
<1>4. ASSUME NEW w \in Workers, Take(w) PROVE LoopInv'
  BY <1>4 DEF Take
<1>5. ASSUME NEW w \in Workers, Claim(w) PROVE LoopInv'
  BY <1>5 DEF Claim
<1>6. ASSUME NEW w \in Workers, CheckTerminate(w) PROVE LoopInv'
  BY <1>6 DEF CheckTerminate, Abandon
<1>7. ASSUME NEW w \in Workers, Mark(w) PROVE LoopInv'
  BY <1>7 DEF Mark, Abandon
<1>8. ASSUME NEW w \in Workers, Run(w) PROVE LoopInv'
  BY <1>8 DEF Run, DisconnectNicely, SendTo, MayFail
<1>9. ASSUME NEW w \in Workers, Prompt(w) PROVE LoopInv'
  BY <1>9 DEF Prompt, DisconnectNicely, SendTo, MayFail
<1>10. ASSUME NEW w \in Workers, Done(w) PROVE LoopInv'
  BY <1>10 DEF Done
<1>11. ASSUME NEW c \in Conns, Accept(c) PROVE LoopInv'
  BY <1>11 DEF Accept, Dispatching
<1>12. ASSUME NEW c \in Conns, Refuse(c) PROVE LoopInv'
  BY <1>12 DEF Refuse, Dispatching
<1>13. ASSUME NEW c \in Conns, Receive(c) PROVE LoopInv'
  BY <1>13 DEF Receive, Dispatching
<1>14. ASSUME NEW c \in Conns, Disconnect(c) PROVE LoopInv'
  BY <1>14 DEF Disconnect, Dispatching
<1>15. ASSUME NEW c \in Conns, DisconnectNext(c) PROVE LoopInv'
  BY <1>15 DEF DisconnectNext
<1>16. ASSUME NEW c \in Conns, ClientSend(c) PROVE LoopInv'
  BY <1>16 DEF ClientSend
<1>17. CASE DoWork
  BY <1>17 DEF DoWork
<1>18. CASE Dequeue
  BY <1>18 DEF Dequeue
<1>19. CASE Spin
  BY <1>19 DEF Spin
<1>20. CASE Free
  BY <1>20 DEF Free
<1>21. CASE LeaveLoop
  BY <1>21 DEF LeaveLoop
<1>22. CASE Shutdown
  BY <1>22 DEF Shutdown, Open
<1>23. CASE Join
  BY <1>23 DEF Join
<1>24. CASE Pause
  BY <1>24 DEF Pause, SendToAll, SendTo, DisconnectNicely
<1>25. CASE Continue
  BY <1>25 DEF Continue, SendToAll, SendTo, DisconnectNicely
<1>26. CASE Wall
  BY <1>26 DEF Wall, SendToAll, SendTo, DisconnectNicely
<1>27. CASE Term
  BY <1>27 DEF Term, Dispatching
<1>28. CASE UNCHANGED vars
  BY <1>28
<1>. QED
  BY <1>1, <1>2, <1>3, <1>4, <1>5, <1>6, <1>7, <1>8, <1>9, <1>10,
     <1>11, <1>12, <1>13, <1>14, <1>15, <1>16, <1>17, <1>18, <1>19, <1>20, <1>21, <1>22, <1>23, <1>24, <1>25, <1>26, <1>27, <1>28
  DEF Next, WorkerStep, LoopStep

(* Free finds no worker on the connection: none claims it (QueueInv), none *)
(* checks or marks it (LockInv), none runs on it (LoopInv, OneRunner).     *)
LEMMA SafeStep ==
  ASSUME TypeOK, TypeOK', LockInv, OneRunner, QueueInv, LoopInv, NoUseAfterQuit, [Next]_vars
  PROVE  NoUseAfterQuit'
<1>. USE ConnsAssumption, WorkersAssumption
     DEF TypeOK, None, Holds, Running, LockInv, OneRunner, RunnersMarked, LoopInv, NoUseAfterQuit,
         vars, connVars, queueVars, workerVars, loopVars, peerVars
<1>1. ASSUME NEW w \in Workers, Wait(w) PROVE NoUseAfterQuit'
  BY <1>1 DEF Wait
<1>2. ASSUME NEW w \in Workers, SpuriousWake(w) PROVE NoUseAfterQuit'
  BY <1>2 DEF SpuriousWake
<1>3. ASSUME NEW w \in Workers, Exit(w) PROVE NoUseAfterQuit'
  BY <1>3 DEF Exit
<1>4. ASSUME NEW w \in Workers, Take(w) PROVE NoUseAfterQuit'
  <2>1. Head(workItems) \in Range(workItems)
    BY <1>4 DEF Take, Range
  <2>2. status[Head(workItems)] = "open"
    BY <2>1 DEF QueueInv
  <2>. QED  BY <1>4, <2>2 DEF Take
<1>5. ASSUME NEW w \in Workers, Claim(w) PROVE NoUseAfterQuit'
  BY <1>5 DEF Claim
<1>6. ASSUME NEW w \in Workers, CheckTerminate(w) PROVE NoUseAfterQuit'
  BY <1>6 DEF CheckTerminate, Abandon
<1>7. ASSUME NEW w \in Workers, Mark(w) PROVE NoUseAfterQuit'
  BY <1>7 DEF Mark, Abandon
<1>8. ASSUME NEW w \in Workers, Run(w) PROVE NoUseAfterQuit'
  BY <1>8 DEF Run, DisconnectNicely, SendTo, MayFail
<1>9. ASSUME NEW w \in Workers, Prompt(w) PROVE NoUseAfterQuit'
  BY <1>9 DEF Prompt, DisconnectNicely, SendTo, MayFail
<1>10. ASSUME NEW w \in Workers, Done(w) PROVE NoUseAfterQuit'
  BY <1>10 DEF Done
<1>11. ASSUME NEW c \in Conns, Accept(c) PROVE NoUseAfterQuit'
  BY <1>11 DEF Accept, Dispatching
<1>12. ASSUME NEW c \in Conns, Refuse(c) PROVE NoUseAfterQuit'
  BY <1>12 DEF Refuse, Dispatching
<1>13. ASSUME NEW c \in Conns, Receive(c) PROVE NoUseAfterQuit'
  BY <1>13 DEF Receive, Dispatching
<1>14. ASSUME NEW c \in Conns, Disconnect(c) PROVE NoUseAfterQuit'
  BY <1>14 DEF Disconnect, Dispatching
<1>15. ASSUME NEW c \in Conns, DisconnectNext(c) PROVE NoUseAfterQuit'
  BY <1>15 DEF DisconnectNext
<1>16. ASSUME NEW c \in Conns, ClientSend(c) PROVE NoUseAfterQuit'
  BY <1>16 DEF ClientSend
<1>17. CASE DoWork
  BY <1>17 DEF DoWork
<1>18. CASE Dequeue
  BY <1>18 DEF Dequeue
<1>19. CASE Spin
  BY <1>19 DEF Spin
<1>20. CASE Free
  <2>1. \A w \in Workers : pc[w] = "claim" => conn[w] # loopConn
    BY <1>20 DEF Free, QueueInv
  <2>2. \A w \in Workers : pc[w] \in {"check", "mark"} => conn[w] # loopConn
    BY <1>20 DEF Free
  <2>3. \A w \in Workers : Running(w) /\ loopConn \notin byLoop => conn[w] # loopConn
    BY <1>20 DEF Free
  <2>. QED  BY <1>20, <2>1, <2>2, <2>3 DEF Free
<1>21. CASE LeaveLoop
  BY <1>21 DEF LeaveLoop
<1>22. CASE Shutdown
  BY <1>22 DEF Shutdown, Open
<1>23. CASE Join
  BY <1>23 DEF Join
<1>24. CASE Pause
  BY <1>24 DEF Pause, SendToAll, SendTo, DisconnectNicely
<1>25. CASE Continue
  BY <1>25 DEF Continue, SendToAll, SendTo, DisconnectNicely
<1>26. CASE Wall
  BY <1>26 DEF Wall, SendToAll, SendTo, DisconnectNicely
<1>27. CASE Term
  BY <1>27 DEF Term, Dispatching
<1>28. CASE UNCHANGED vars
  BY <1>28
<1>. QED
  BY <1>1, <1>2, <1>3, <1>4, <1>5, <1>6, <1>7, <1>8, <1>9, <1>10,
     <1>11, <1>12, <1>13, <1>14, <1>15, <1>16, <1>17, <1>18, <1>19, <1>20, <1>21, <1>22, <1>23, <1>24, <1>25, <1>26, <1>27, <1>28
  DEF Next, WorkerStep, LoopStep

(* At first no lock is held, no flag set and nothing queued.               *)
LEMMA InitLocking == Init => LockingInv
<1>. SUFFICES ASSUME Init PROVE LockingInv
  OBVIOUS
<1>. USE WorkersAssumption DEF Init, None, Holds, Running
<1>1. LockInv
  BY DEF LockInv
<1>2. OneRunner
  BY DEF OneRunner, RunnersMarked, MarksHeld
<1>3. DoomInv
  BY DEF DoomInv
<1>4. QueueInv
  BY DEF QueueInv, Range
<1>5. LoopInv
  BY DEF LoopInv
<1>6. NoUseAfterQuit
  BY DEF NoUseAfterQuit
<1>. QED  BY <1>1, <1>2, <1>3, <1>4, <1>5, <1>6 DEF LockingInv

(* The parts of the invariant, together, survive each step.                *)
LEMMA NextLocking == TypeOK /\ TypeOK' /\ LockingInv /\ [Next]_vars => LockingInv'
  BY LockStep, RunnerStep, DoomStep, QueueStep, LoopInvStep, SafeStep DEF LockingInv

(* The locking discipline is an inductive invariant of the service, for    *)
(* any number of connections and workers, polite or impatient clients and  *)
(* any console messages.                                                   *)
THEOREM LockingCorrect == Spec => []LockingInv
  BY InitLocking, NextLocking, TypeCorrect, PTL DEF Spec

(* Two workers never execute lines of one connection at the same time.     *)
THEOREM OneRunnerAlways == Spec => []OneRunner
<1>1. LockingInv => OneRunner
  BY DEF LockingInv
<1>. QED  BY <1>1, LockingCorrect, PTL

(* No worker is left with a freed connection, unless the event loop itself *)
(* condemned or closed that connection.                                    *)
THEOREM UseAfterQuitNever == Spec => []NoUseAfterQuit
<1>1. LockingInv => NoUseAfterQuit
  BY DEF LockingInv
<1>. QED  BY <1>1, LockingCorrect, PTL

(* A worker goes to sleep only with an empty list under workers_lock, and  *)
(* an append wakes one.                                                    *)
LEMMA NextWakeup == TypeOK /\ NoLostWakeup /\ [Next]_vars => NoLostWakeup'
<1>. SUFFICES ASSUME TypeOK, NoLostWakeup, [Next]_vars PROVE NoLostWakeup'
  OBVIOUS
<1>. USE WorkersAssumption DEF TypeOK, NoLostWakeup, vars, connVars, queueVars, workerVars,
                              loopVars, peerVars
<1>1. ASSUME NEW w \in Workers, Wait(w) PROVE NoLostWakeup'
  BY <1>1 DEF Wait
<1>2. ASSUME NEW w \in Workers, SpuriousWake(w) PROVE NoLostWakeup'
  BY <1>2 DEF SpuriousWake
<1>3. ASSUME NEW w \in Workers, WorkerStep(w), ~Wait(w) PROVE NoLostWakeup'
  <2>1. pc'[w] # "waiting"
    BY <1>3 DEF WorkerStep, Exit, Take, Claim, CheckTerminate, Mark, Abandon, Run, Prompt, Done
  <2>. QED  BY <2>1
<1>4. ASSUME NEW c \in Conns,
             \/ Accept(c) \/ Refuse(c) \/ Receive(c) \/ Disconnect(c) \/ ClientSend(c)
             \/ DisconnectNext(c)
      PROVE  NoLostWakeup'
  BY <1>4 DEF Accept, Refuse, Receive, Disconnect, ClientSend, DisconnectNext
<1>5. CASE DoWork
  <2>1. CASE \A w \in Workers : pc[w] # "waiting"
    BY <1>5, <2>1 DEF DoWork
  <2>2. CASE \E w \in Workers : pc[w] = "waiting" /\ pc' = [pc EXCEPT ![w] = "lock"]
    BY <2>2
  <2>. QED  BY <1>5, <2>1, <2>2 DEF DoWork
<1>6. CASE Dequeue
  <2>1. CASE workItems = <<>>
    <3>1. workItems' = <<>>
      BY <1>6, <2>1 DEF Dequeue, Unlink, Range
    <3>. QED  BY <3>1
  <2>2. CASE workItems # <<>>
    BY <1>6, <2>2 DEF Dequeue
  <2>. QED  BY <2>1, <2>2
<1>7. CASE Shutdown
  <2>1. \A w \in Workers : pc'[w] # "waiting"
    BY <1>7 DEF Shutdown
  <2>. QED  BY <2>1
<1>8. CASE Spin \/ Free \/ LeaveLoop \/ Join
  BY <1>8 DEF Spin, Free, LeaveLoop, Join
<1>9. CASE Pause \/ Continue \/ Wall \/ Term
  BY <1>9 DEF Pause, Continue, Wall, Term
<1>10. CASE UNCHANGED vars
  BY <1>10
<1>. QED  BY <1>1, <1>2, <1>3, <1>4, <1>5, <1>6, <1>7, <1>8, <1>9, <1>10 DEF Next, LoopStep

(* The signal of conn_do_work is not lost: while a line is queued, some    *)
(* worker is awake.                                                        *)
THEOREM WakeupNeverLost == Spec => []NoLostWakeup
<1>1. Init => NoLostWakeup
  BY DEF Init, NoLostWakeup
<1>. QED  BY <1>1, NextWakeup, TypeCorrect, PTL DEF Spec

-----------------------------------------------------------------------------
(* Without messages the loop condemns nothing and never shuts down.        *)
Undisturbed == byLoop = {} /\ phase = "serving" /\ loopPc # "join"

(* Without messages the loop condemns nobody and is never left.            *)
LEMMA NextUndisturbed ==
  ASSUME Msgs = {}
  PROVE  Undisturbed /\ [Next]_vars => Undisturbed'
<1>. SUFFICES ASSUME Undisturbed, [Next]_vars PROVE Undisturbed'
  OBVIOUS
<1>. USE DEF Undisturbed, vars, connVars, queueVars, workerVars, loopVars, peerVars
<1>1. ASSUME NEW w \in Workers, WorkerStep(w) \/ SpuriousWake(w) PROVE Undisturbed'
  BY <1>1 DEF WorkerStep, SpuriousWake, Wait, Exit, Take, Claim, CheckTerminate, Mark,
              Run, Prompt, Done
<1>2. ASSUME NEW c \in Conns,
             \/ Accept(c) \/ Refuse(c) \/ Receive(c) \/ Disconnect(c) \/ ClientSend(c)
      PROVE  Undisturbed'
  BY <1>2 DEF Accept, Refuse, Receive, Disconnect, ClientSend
<1>3. CASE LoopStep
  <2>1. ASSUME NEW c \in Conns, DisconnectNext(c) PROVE FALSE
    BY <2>1 DEF DisconnectNext
  <2>2. ~Join /\ ~LeaveLoop /\ ~Shutdown
    BY DEF Join, LeaveLoop, Shutdown
  <2>. QED  BY <1>3, <2>1, <2>2 DEF LoopStep, DoWork, Dequeue, Spin, Free
<1>4. ~(Pause \/ Continue \/ Wall \/ Term)
  BY DEF Pause, Continue, Wall, Term
<1>5. CASE UNCHANGED vars
  BY <1>5
<1>. QED  BY <1>1, <1>2, <1>3, <1>4, <1>5 DEF Next

(* As long as nobody uses the console's messages or stops the server, no   *)
(* worker ever touches a freed connection, whatever the clients do.        *)
THEOREM UseAfterFreeNever ==
  ASSUME Msgs = {}
  PROVE  Spec => []NoUseAfterFree
<1>1. Init => Undisturbed
  BY DEF Init, Undisturbed
<1>2. Undisturbed /\ NoUseAfterQuit => NoUseAfterFree
  BY DEF Undisturbed, NoUseAfterQuit, NoUseAfterFree
<1>. QED  BY <1>1, <1>2, NextUndisturbed, UseAfterQuitNever, PTL DEF Spec

-----------------------------------------------------------------------------
(* Where the line of a client that waits for its prompt may be: it is in   *)
(* the socket, in the hands of the loop, on the work list or with a worker *)
(* that has yet to send the prompt, and in one of these places only.       *)
Enqueuing(c) == loopPc = "enqueue" /\ loopConn = c
Answering(w, c) == conn[w] = c /\ pc[w] # "done"

OneLine(c) ==
  /\ client[c] # "sent" \/ inbox[c] # NoLine =>
       ~Enqueuing(c) /\ c \notin Range(workItems) /\ \A w \in Workers : ~Answering(w, c)
  /\ client[c] # "sent" => inbox[c] = NoLine
  /\ Enqueuing(c) => c \notin Range(workItems) /\ \A w \in Workers : ~Answering(w, c)
  /\ c \in Range(workItems) => \A w \in Workers : ~Answering(w, c)
  /\ \A v, w \in Workers : Answering(v, c) /\ Answering(w, c) => v = w

LineInv ==
  /\ \A w \in Workers : ~Holds(w) => conn[w] = NoConn
  /\ \A c \in Conns : status[c] = "absent" => client[c] = "absent"
  /\ \A c \in Conns \ Impatient : OneLine(c)

(* What taking from the list and appending to it do to what is on it.      *)
LEMMA TailRange ==
  ASSUME NEW T, NEW s \in Seq(T), s # <<>>,
         \A i, j \in DOMAIN s : s[i] = s[j] => i = j
  PROVE  Head(s) \in Range(s) /\ Range(Tail(s)) = Range(s) \ {Head(s)}
<1>1. /\ Tail(s) \in Seq(T) /\ Len(Tail(s)) = Len(s) - 1
      /\ \A i \in 1..Len(Tail(s)) : Tail(s)[i] = s[i + 1]
  BY HeadTailProperties
<1>2. Len(s) \in Nat \ {0} /\ Head(s) = s[1] /\ DOMAIN s = 1..Len(s)
      /\ DOMAIN Tail(s) = 1..Len(s) - 1
  BY <1>1, EmptySeq, LenProperties
<1>3. ASSUME NEW x \in Range(s), x # Head(s) PROVE x \in Range(Tail(s))
  <2>1. PICK i \in 1..Len(s) : s[i] = x
    BY <1>2 DEF Range
  <2>2. i - 1 \in DOMAIN Tail(s) /\ Tail(s)[i - 1] = x
    BY <1>1, <1>2, <1>3, <2>1
  <2>. QED  BY <2>2 DEF Range
<1>4. ASSUME NEW x \in Range(Tail(s)) PROVE x \in Range(s) /\ x # Head(s)
  <2>1. PICK i \in 1..Len(s) - 1 : Tail(s)[i] = x
    BY <1>2 DEF Range
  <2>2. i + 1 \in DOMAIN s /\ s[i + 1] = x /\ i + 1 # 1
    BY <1>1, <1>2, <2>1
  <2>. QED  BY <1>2, <2>2 DEF Range
<1>5. Head(s) \in Range(s)
  BY <1>2 DEF Range
<1>. QED  BY <1>3, <1>4, <1>5

(* Appending adds what is appended.                                        *)
LEMMA AppendRange ==
  ASSUME NEW T, NEW s \in Seq(T), NEW e \in T
  PROVE  Range(Append(s, e)) = Range(s) \union {e}
<1>1. /\ Append(s, e) \in Seq(T) /\ Len(Append(s, e)) = Len(s) + 1
      /\ \A i \in 1..Len(s) : Append(s, e)[i] = s[i]
      /\ Append(s, e)[Len(s) + 1] = e
      /\ Len(s) \in Nat
  BY AppendProperties
<1>2. DOMAIN s = 1..Len(s) /\ DOMAIN Append(s, e) = 1..Len(s) + 1
  BY <1>1, LenProperties
<1>. QED  BY <1>1, <1>2 DEF Range

(* A worker that goes on with its connection, or drops it before the       *)
(* prompt, takes no line with it that is anybody else's.                   *)
LEMMA WorkerKeepsLines ==
  ASSUME LineInv, NEW w \in Workers, Holds(w), pc[w] # "done",
         conn'[w] = NoConn \/ (conn'[w] = conn[w] /\ Holds(w)'),
         \A v \in Workers \ {w} : conn'[v] = conn[v] /\ pc'[v] = pc[v],
         UNCHANGED <<status, client, inbox, loopPc, loopConn, workItems>>
  PROVE  LineInv'
<1>1. \A v \in Workers, c \in Conns : Answering(v, c)' => Answering(v, c)
  BY ConnsAssumption DEF Answering
<1>2. \A c \in Conns : Enqueuing(c)' <=> Enqueuing(c)
  BY DEF Enqueuing
<1>3. ASSUME NEW c \in Conns \ Impatient PROVE OneLine(c)'
  <2>1. OneLine(c)
    BY DEF LineInv
  <2>. QED  BY <1>1, <1>2, <2>1 DEF OneLine
<1>4. ASSUME NEW v \in Workers, ~Holds(v)' PROVE conn'[v] = NoConn
  BY <1>4 DEF LineInv, Holds
<1>. QED  BY <1>3, <1>4 DEF LineInv

(* The line moves from one place to the next.                              *)
LEMMA LineStep ==
  ASSUME TypeOK, QueueInv, LoopInv, LineInv, [Next]_vars
  PROVE  LineInv'
<1>. USE ConnsAssumption, WorkersAssumption
     DEF TypeOK, None, Holds, LineInv, OneLine, Enqueuing, Answering,
         vars, connVars, queueVars, workerVars, loopVars, peerVars
<1>1. ASSUME NEW w \in Workers, Wait(w) PROVE LineInv'
  BY <1>1 DEF Wait
<1>2. ASSUME NEW w \in Workers, SpuriousWake(w) PROVE LineInv'
  BY <1>2 DEF SpuriousWake
<1>3. ASSUME NEW w \in Workers, Exit(w) PROVE LineInv'
  BY <1>3 DEF Exit
<1>4. ASSUME NEW w \in Workers, Take(w) PROVE LineInv'
  <2>1. /\ Head(workItems) \in Range(workItems) /\ Head(workItems) \in Conns
        /\ Range(workItems') = Range(workItems) \ {Head(workItems)}
    BY <1>4, TailRange, HeadTailProperties DEF Take, QueueInv
  <2>2. conn'[w] = Head(workItems) /\ pc'[w] = "claim"
        /\ \A v \in Workers \ {w} : conn'[v] = conn[v] /\ pc'[v] = pc[v]
    BY <1>4 DEF Take
  <2>3. UNCHANGED <<status, client, inbox, loopPc, loopConn>>
    BY <1>4 DEF Take
  <2>. QED  BY <2>1, <2>2, <2>3
<1>5. ASSUME NEW w \in Workers, Claim(w) PROVE LineInv'
  BY <1>5 DEF Claim
<1>6. ASSUME NEW w \in Workers, CheckTerminate(w) PROVE LineInv'
  <2>1. pc[w] = "check" /\ (conn'[w] = NoConn \/ (conn'[w] = conn[w] /\ pc'[w] = "mark"))
    BY <1>6 DEF CheckTerminate, Abandon
  <2>2. \A v \in Workers \ {w} : conn'[v] = conn[v] /\ pc'[v] = pc[v]
    BY <1>6 DEF CheckTerminate, Abandon
  <2>3. UNCHANGED <<status, client, inbox, loopPc, loopConn, workItems>>
    BY <1>6 DEF CheckTerminate
  <2>4. LineInv
    OBVIOUS
  <2>. HIDE DEF LineInv
  <2>. QED  BY <2>1, <2>2, <2>3, <2>4, WorkerKeepsLines
<1>7. ASSUME NEW w \in Workers, Mark(w) PROVE LineInv'
  <2>1. pc[w] = "mark" /\ (conn'[w] = NoConn \/ (conn'[w] = conn[w] /\ pc'[w] = "run"))
    BY <1>7 DEF Mark, Abandon
  <2>2. \A v \in Workers \ {w} : conn'[v] = conn[v] /\ pc'[v] = pc[v]
    BY <1>7 DEF Mark, Abandon
  <2>3. UNCHANGED <<status, client, inbox, loopPc, loopConn, workItems>>
    BY <1>7 DEF Mark
  <2>4. LineInv
    OBVIOUS
  <2>. HIDE DEF LineInv
  <2>. QED  BY <2>1, <2>2, <2>3, <2>4, WorkerKeepsLines
<1>8. ASSUME NEW w \in Workers, Run(w) PROVE LineInv'
  BY <1>8 DEF Run
<1>9. ASSUME NEW w \in Workers, Prompt(w) PROVE LineInv'
  BY <1>9 DEF Prompt
<1>10. ASSUME NEW w \in Workers, Done(w) PROVE LineInv'
  BY <1>10 DEF Done
<1>11. ASSUME NEW c \in Conns, Accept(c) PROVE LineInv'
  BY <1>11 DEF Accept, Dispatching, QueueInv
<1>12. ASSUME NEW c \in Conns, Refuse(c) PROVE LineInv'
  BY <1>12 DEF Refuse
<1>13. ASSUME NEW c \in Conns, Receive(c) PROVE LineInv'
  BY <1>13 DEF Receive, Dispatching, NoLine
<1>14. ASSUME NEW c \in Conns, Disconnect(c) PROVE LineInv'
  BY <1>14 DEF Disconnect
<1>15. ASSUME NEW c \in Conns, DisconnectNext(c) PROVE LineInv'
  BY <1>15 DEF DisconnectNext
<1>16. ASSUME NEW c \in Conns, ClientSend(c) PROVE LineInv'
  BY <1>16 DEF ClientSend, Lines, NoLine
<1>17. CASE DoWork
  <2>1. loopConn \in Conns /\ Range(workItems') = Range(workItems) \union {loopConn}
    BY <1>17, AppendRange DEF DoWork
  <2>2. \A w \in Workers : pc'[w] = pc[w] \/ (pc[w] = "waiting" /\ pc'[w] = "lock")
    BY <1>17 DEF DoWork
  <2>3. UNCHANGED <<conn, status, client, inbox>> /\ loopPc = "enqueue" /\ loopPc' = "poll"
    BY <1>17 DEF DoWork
  <2>. QED  BY <2>1, <2>2, <2>3
<1>18. CASE Dequeue
  <2>1. Range(workItems') \subseteq Range(workItems)
    <3>1. workItems' = Unlink(workItems, loopConn)
      BY <1>18 DEF Dequeue
    <3>. QED  BY <3>1, UnlinkRange DEF QueueInv
  <2>. QED  BY <1>18, <2>1 DEF Dequeue
<1>19. CASE Spin
  BY <1>19 DEF Spin
<1>20. CASE Free
  BY <1>20 DEF Free, LoopInv
<1>21. CASE LeaveLoop
  BY <1>21 DEF LeaveLoop
<1>22. CASE Shutdown
  BY <1>22 DEF Shutdown
<1>23. CASE Join
  BY <1>23 DEF Join
<1>24. CASE Pause
  BY <1>24 DEF Pause
<1>25. CASE Continue
  BY <1>25 DEF Continue
<1>26. CASE Wall
  BY <1>26 DEF Wall
<1>27. CASE Term
  BY <1>27 DEF Term
<1>28. CASE UNCHANGED vars
  BY <1>28
<1>. QED
  BY <1>1, <1>2, <1>3, <1>4, <1>5, <1>6, <1>7, <1>8, <1>9, <1>10,
     <1>11, <1>12, <1>13, <1>14, <1>15, <1>16, <1>17, <1>18, <1>19, <1>20,
     <1>21, <1>22, <1>23, <1>24, <1>25, <1>26, <1>27, <1>28
  DEF Next, WorkerStep, LoopStep

(* conn_do_work never appends a connection that still is on the list,      *)
(* unless its client sends a line before it was prompted: that is where    *)
(* the model would end.                                                    *)
THEOREM QueuedOnceAlways == Spec => []QueuedOnce
<1>1. Init => LineInv
  <2>1. Range(<<>>) = {}
    BY DEF Range
  <2>. QED  BY <2>1, ConnsAssumption
         DEF Init, LineInv, OneLine, Enqueuing, Answering, Holds, NoLine
<1>2. TypeOK /\ LockingInv /\ LineInv /\ [Next]_vars => LineInv'
  BY LineStep DEF LockingInv
<1>3. TypeOK /\ LockingInv /\ LineInv => QueuedOnce
  <2>1. TypeOK /\ QueueInv => \A c \in Range(workItems) : c \in Conns
    BY ElementOfSeq DEF Range, TypeOK
  <2>. QED  BY <2>1 DEF LockingInv, QueueInv, LineInv, OneLine, Enqueuing, Answering, QueuedOnce,
                       TypeOK
<1>. QED  BY <1>1, <1>2, <1>3, TypeCorrect, LockingCorrect, PTL DEF Spec

-----------------------------------------------------------------------------
(***************************************************************************)
(* Connections implements Sessions when the console is silent: the initial *)
(* states map to initial states and every step to a step or a stutter.     *)
(***************************************************************************)

(* A step that changes neither what a connection is nor who is served.     *)
LEMMA Stutter ==
  ASSUME UNCHANGED <<status, terminate>>,
         \A w \in Workers : Running(w)' <=> Running(w),
         \A w \in Workers : Running(w) => conn'[w] = conn[w]
  PROVE  UNCHANGED <<SessionPhase, Served>>
<1>1. SessionPhase' = SessionPhase
  BY DEF SessionPhase
<1>2. Served' = Served
  BY DEF Served
<1>. QED  BY <1>1, <1>2

(* A step about one connection changes the phase of no other.              *)
LEMMA OnePhase ==
  ASSUME NEW c \in Conns, NEW p,
         \A d \in Conns \ {c} : status'[d] = status[d] /\ terminate'[d] = terminate[d],
         p = IF status'[c] = "freed" THEN "gone"
             ELSE IF status'[c] = "absent" THEN "absent"
             ELSE IF terminate'[c] THEN "closing" ELSE "open"
  PROVE  SessionPhase' = [SessionPhase EXCEPT ![c] = p]
  BY DEF SessionPhase

(* Sending to one connection, or disconnecting it, condemns it at most.    *)
LEMMA CondemnOne ==
  ASSUME NEW c \in Conns, NEW C \in SUBSET {c}, DisconnectNicely(C),
         terminate \in [Conns -> BOOLEAN]
  PROVE  \/ UNCHANGED terminate
         \/ /\ ~terminate[c] /\ terminate'[c]
            /\ \A d \in Conns \ {c} : terminate'[d] = terminate[d]
<1>1. CASE C = {}
  BY <1>1 DEF DisconnectNicely
<1>2. CASE C = {c} /\ terminate[c]
  BY <1>2 DEF DisconnectNicely
<1>3. CASE C = {c} /\ ~terminate[c]
  BY <1>3 DEF DisconnectNicely
<1>. QED  BY <1>1, <1>2, <1>3

(* Every step of the service is one of Sessions, or changes nothing there. *)
LEMMA NextRefines ==
  ASSUME Msgs = {}, TypeOK, TypeOK', LockingInv, Undisturbed, [Next]_vars
  PROVE  [S!Next]_(S!vars)
<1>. USE ConnsAssumption, WorkersAssumption
     DEF TypeOK, None, Holds, Running, connVars, queueVars, workerVars, loopVars, peerVars
<1>1. ASSUME NEW w \in Workers, Wait(w) PROVE UNCHANGED S!vars
  BY <1>1, Stutter DEF Wait, S!vars
<1>2. ASSUME NEW w \in Workers, SpuriousWake(w) PROVE UNCHANGED S!vars
  BY <1>2, Stutter DEF SpuriousWake, S!vars
<1>3. ASSUME NEW w \in Workers, Exit(w) PROVE UNCHANGED S!vars
  BY <1>3, Stutter DEF Exit, S!vars
<1>4. ASSUME NEW w \in Workers, Take(w) PROVE UNCHANGED S!vars
  BY <1>4, Stutter DEF Take, S!vars
<1>5. ASSUME NEW w \in Workers, Claim(w) PROVE UNCHANGED S!vars
  BY <1>5, Stutter DEF Claim, S!vars
<1>6. ASSUME NEW w \in Workers, CheckTerminate(w) PROVE UNCHANGED S!vars
  BY <1>6, Stutter DEF CheckTerminate, Abandon, S!vars
<1>7. ASSUME NEW c \in Conns, Receive(c) PROVE UNCHANGED S!vars
  BY <1>7, Stutter DEF Receive, S!vars
<1>8. ASSUME NEW c \in Conns, Disconnect(c) PROVE UNCHANGED S!vars
  BY <1>8, Stutter DEF Disconnect, S!vars
<1>9. ASSUME NEW c \in Conns, ClientSend(c) PROVE UNCHANGED S!vars
  BY <1>9, Stutter DEF ClientSend, S!vars
<1>10. ASSUME DoWork PROVE UNCHANGED S!vars
  BY <1>10, Stutter DEF DoWork, S!vars
<1>11. ASSUME Dequeue PROVE UNCHANGED S!vars
  BY <1>11, Stutter DEF Dequeue, S!vars
<1>12. ASSUME Spin PROVE UNCHANGED S!vars
  BY <1>12, Stutter DEF Spin, S!vars
<1>13. ASSUME NEW w \in Workers, Mark(w) PROVE [S!Next]_(S!vars)
  <2>. DEFINE c == conn[w]
  <2>1. c \in Conns
    BY <1>13 DEF Mark
  <2>2. CASE worker[c]
    <3>1. Abandon(w) /\ UNCHANGED <<status, terminate>>
      BY <1>13, <2>2 DEF Mark
    <3>. QED  BY <1>13, <3>1, Stutter DEF Mark, Abandon, S!vars
  <2>3. CASE ~worker[c]
    <3>1. /\ status[c] = "open"
          /\ pc[w] = "mark"
          /\ pc' = [pc EXCEPT ![w] = "run"]
          /\ UNCHANGED <<status, terminate, conn>>
      BY <1>13, <2>3 DEF Mark, Abandon
    <3>2. ~terminate[c]
      BY <2>3, <3>1 DEF LockingInv, DoomInv, Undisturbed
    <3>3. c \notin Served
      BY <2>3 DEF LockingInv, OneRunner, RunnersMarked, Served
    <3>4. SessionPhase[c] = "open" /\ SessionPhase' = SessionPhase
      BY <2>1, <3>1, <3>2 DEF SessionPhase
    <3>5. Served' = Served \union {c}
      BY <2>1, <3>1 DEF Served
    <3>6. S!Begin(c)
      BY <3>3, <3>4, <3>5 DEF S!Begin
    <3>. QED  BY <2>1, <3>6 DEF S!Next
  <2>. QED  BY <2>2, <2>3
<1>14. ASSUME NEW w \in Workers, Run(w) \/ Prompt(w) PROVE [S!Next]_(S!vars)
  <2>. DEFINE c == conn[w]
  <2>1. /\ c \in Conns
        /\ c \in Served
        /\ status[c] = "open"
        /\ UNCHANGED <<status, conn>>
        /\ \A v \in Workers : Running(v)' <=> Running(v)
    BY <1>14 DEF Run, Prompt, Served
  <2>2. Served' = Served
    BY <2>1 DEF Served
  <2>3. \E C \in SUBSET {c} : DisconnectNicely(C)
    <3>1. CASE Run(w)
      BY <3>1, {c} \in SUBSET {c}, Zenon DEF Run, SendTo
    <3>2. CASE Prompt(w)
      BY <3>2, Zenon DEF Prompt, SendTo
    <3>. QED  BY <1>14, <3>1, <3>2
  <2>4. \/ UNCHANGED terminate
        \/ /\ ~terminate[c] /\ terminate'[c]
           /\ \A d \in Conns \ {c} : terminate'[d] = terminate[d]
    BY <2>1, <2>3, CondemnOne
  <2>5. CASE UNCHANGED terminate
    BY <2>1, <2>2, <2>5 DEF SessionPhase, S!vars
  <2>6. CASE /\ ~terminate[c] /\ terminate'[c]
             /\ \A d \in Conns \ {c} : terminate'[d] = terminate[d]
    <3>1. SessionPhase' = [SessionPhase EXCEPT ![c] = "closing"]
      BY <2>1, <2>6, OnePhase
    <3>2. SessionPhase[c] = "open"
      BY <2>1, <2>6 DEF SessionPhase
    <3>3. S!Condemn(c)
      BY <2>1, <2>2, <3>1, <3>2 DEF S!Condemn
    <3>. QED  BY <2>1, <3>3 DEF S!Next
  <2>. QED  BY <2>4, <2>5, <2>6
<1>15. ASSUME NEW w \in Workers, Done(w) PROVE [S!Next]_(S!vars)
  <2>. DEFINE c == conn[w]
  <2>1. /\ c \in Conns
        /\ pc[w] = "done"
        /\ pc' = [pc EXCEPT ![w] = "lock"]
        /\ conn' = [conn EXCEPT ![w] = NoConn]
        /\ UNCHANGED <<status, terminate>>
    BY <1>15 DEF Done
  <2>2. \A v \in Workers : Running(v) /\ conn[v] = c => v = w
    BY <2>1 DEF LockingInv, OneRunner, RunnersMarked
  <2>3. c \in Served
    BY <2>1 DEF Served
  <2>4. Served' = Served \ {c}
    BY <2>1, <2>2 DEF Served
  <2>5. SessionPhase' = SessionPhase
    BY <2>1 DEF SessionPhase
  <2>6. S!Finish(c)
    BY <2>3, <2>4, <2>5 DEF S!Finish
  <2>. QED  BY <2>1, <2>6 DEF S!Next
<1>16. ASSUME NEW c \in Conns, Accept(c) PROVE [S!Next]_(S!vars)
  <2>1. /\ status[c] = "absent"
        /\ status' = [status EXCEPT ![c] = "open"]
        /\ \/ UNCHANGED terminate
           \/ terminate' = [terminate EXCEPT ![c] = TRUE]
        /\ UNCHANGED <<pc, conn>>
    BY <1>16 DEF Accept
  <2>2. Served' = Served
    BY <2>1 DEF Served
  <2>3. /\ SessionPhase[c] = "absent"
        /\ \E p \in {"open", "closing"} : SessionPhase' = [SessionPhase EXCEPT ![c] = p]
    <3>1. SessionPhase' = [SessionPhase EXCEPT ![c] = IF terminate'[c] THEN "closing" ELSE "open"]
      BY <2>1, OnePhase
    <3>. QED  BY <2>1, <3>1 DEF SessionPhase
  <2>4. S!Open(c)
    BY <2>2, <2>3 DEF S!Open
  <2>. QED  BY <2>4 DEF S!Next
<1>17. ASSUME NEW c \in Conns, Refuse(c) PROVE [S!Next]_(S!vars)
  <2>1. /\ status[c] = "absent"
        /\ status' = [status EXCEPT ![c] = "freed"]
        /\ UNCHANGED <<terminate, pc, conn>>
    BY <1>17 DEF Refuse
  <2>2. Served' = Served
    BY <2>1 DEF Served
  <2>3. SessionPhase[c] = "absent" /\ SessionPhase' = [SessionPhase EXCEPT ![c] = "gone"]
    <3>1. SessionPhase' = [SessionPhase EXCEPT ![c] = "gone"]
      BY <2>1, OnePhase
    <3>. QED  BY <2>1, <3>1 DEF SessionPhase
  <2>4. S!Refuse(c)
    BY <2>2, <2>3 DEF S!Refuse
  <2>. QED  BY <2>4 DEF S!Next
<1>18. ASSUME Free PROVE [S!Next]_(S!vars)
  <2>. DEFINE c == loopConn
  <2>1. /\ c \in Conns
        /\ loopPc = "free"
        /\ status' = [status EXCEPT ![c] = "freed"]
        /\ UNCHANGED <<terminate, pc, conn>>
    BY <1>18 DEF Free
  <2>2. status[c] = "open" /\ terminate[c] /\ ~worker[c]
    BY <2>1 DEF LockingInv, LoopInv, Undisturbed
  <2>3. c \notin Served
    BY <2>2 DEF LockingInv, OneRunner, RunnersMarked, Served
  <2>4. Served' = Served
    BY <2>1 DEF Served
  <2>5. SessionPhase[c] = "closing" /\ SessionPhase' = [SessionPhase EXCEPT ![c] = "gone"]
    <3>1. SessionPhase' = [SessionPhase EXCEPT ![c] = "gone"]
      BY <2>1, OnePhase
    <3>. QED  BY <2>1, <2>2, <3>1 DEF SessionPhase
  <2>6. S!Close(c)
    BY <2>3, <2>4, <2>5 DEF S!Close
  <2>. QED  BY <2>1, <2>6 DEF S!Next
<1>19. /\ ~LeaveLoop /\ ~Shutdown /\ ~Join /\ \A c \in Conns : ~DisconnectNext(c)
       /\ ~Pause /\ ~Continue /\ ~Wall /\ ~Term
  BY DEF Undisturbed, LeaveLoop, Shutdown, Join, DisconnectNext, Pause, Continue, Wall, Term
<1>20. CASE UNCHANGED vars
  BY <1>20, Stutter DEF vars, S!vars
<1>. QED
  BY <1>1, <1>2, <1>3, <1>4, <1>5, <1>6, <1>7, <1>8, <1>9, <1>10, <1>11, <1>12, <1>13,
     <1>14, <1>15, <1>16, <1>17, <1>18, <1>19, <1>20
  DEF Next, WorkerStep, LoopStep

(* With no message from the console or main(), every behaviour of the      *)
(* service is one of Sessions: a connection executes one command at a      *)
(* time, begins none once it is condemned, and is freed only when none is  *)
(* running on it.                                                          *)
THEOREM ImplementsSessions ==
  ASSUME Msgs = {}
  PROVE  Spec => S!Spec
<1>1. Init => S!Init
  BY DEF Init, S!Init, SessionPhase, Served, Running
<1>2. Init => Undisturbed
  BY DEF Init, Undisturbed
<1>. QED
  BY <1>1, <1>2, NextUndisturbed, NextRefines, TypeCorrect, LockingCorrect, PTL
  DEF Spec, S!Spec
=============================================================================
