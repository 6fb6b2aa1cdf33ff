------------------------------ MODULE Sessions ------------------------------
(***************************************************************************)
(* What the connection service promises to one player, with the threads,   *)
(* locks and queues taken away: a connection is opened, executes commands  *)
(* one at a time, is at some point condemned, starts nothing more from     *)
(* then on, and is closed only when no command is running on it.           *)
(*                                                                         *)
(* Connections.tla implements this specification as long as the event loop *)
(* condemns no connection itself (see AsSessions there).                   *)
(***************************************************************************)
CONSTANT Conns

VARIABLES phase,     \* phase[c]: the life of the connection
          serving    \* the connections on which a command is running

vars == <<phase, serving>>

TypeOK == /\ phase \in [Conns -> {"absent", "open", "closing", "gone"}]
          /\ serving \subseteq Conns

Init == /\ phase = [c \in Conns |-> "absent"]
        /\ serving = {}

(* A peer is let in; sending the first prompt may already condemn it.      *)
Open(c) == /\ phase[c] = "absent"
           /\ \E p \in {"open", "closing"} : phase' = [phase EXCEPT ![c] = p]
           /\ UNCHANGED serving

(* The connection could not be initialised and is dropped at once.         *)
Refuse(c) == /\ phase[c] = "absent"
             /\ phase' = [phase EXCEPT ![c] = "gone"]
             /\ UNCHANGED serving

Begin(c) == /\ phase[c] = "open"
            /\ c \notin serving
            /\ serving' = serving \union {c}
            /\ UNCHANGED phase

(* Only the command itself condemns its connection: it was "quit", or what *)
(* it sent could not be written.                                           *)
Condemn(c) == /\ phase[c] = "open"
              /\ c \in serving
              /\ phase' = [phase EXCEPT ![c] = "closing"]
              /\ UNCHANGED serving

Finish(c) == /\ c \in serving
             /\ serving' = serving \ {c}
             /\ UNCHANGED phase

Close(c) == /\ phase[c] = "closing"
            /\ c \notin serving
            /\ phase' = [phase EXCEPT ![c] = "gone"]
            /\ UNCHANGED serving

Next == \E c \in Conns : \/ Open(c)
                         \/ Refuse(c)
                         \/ Begin(c)
                         \/ Condemn(c)
                         \/ Finish(c)
                         \/ Close(c)

(* A running command ends and a condemned connection is closed.            *)
Fairness == \A c \in Conns : WF_vars(Finish(c)) /\ WF_vars(Close(c))

Spec == Init /\ [][Next]_vars

FairSpec == Spec /\ Fairness
=============================================================================
