------------------------- MODULE WebSocketsContract -------------------------
(* The WebSocket layer against what a connection promises.                 *)
EXTENDS WebSockets

Client(c) ==
  CASE conn[c].ws = "new" -> "new"
    [] conn[c].ws = "open" -> "here"
    [] OTHER -> "away"
ListenerOf(c) ==
  CASE conn[c].pubsub \in {"off", "subscribe"} -> "none"
    [] conn[c].pubsub \in {"listen", "popping"} -> "attached"
    [] OTHER -> "ended"

Contract == INSTANCE StreamContract WITH
  client <- [c \in Conn |-> Client(c)],
  listener <- [c \in Conn |-> ListenerOf(c)],
  next <- [c \in Conn |-> conn[c].cursor]

(* While no user has two connections on one worker, every connection keeps *)
(* the contract, whatever Redis commands fail and whichever workers die.   *)
ContractHolds == Contract!Spec

(* Across workers it is kept whatever overlaps: as long as no worker has   *)
(* had two connections of a user, each of them is sent all it was promised.*)
Apart ==
  \A c, d \in Conn :
    Owner[c] = Owner[d] /\ conn[c].on = conn[d].on /\ c # d => conn[c].on = None
ContractAcrossWorkers ==
  Contract!Init /\ [][Apart' => Contract!Next]_(Contract!vars)

=============================================================================
