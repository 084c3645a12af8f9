--------------------------- MODULE StreamContract ---------------------------
(***************************************************************************)
(* What a user's connection promises, without Redis, workers or tasks: a   *)
(* websocket is sent the answers published for its user from the moment    *)
(* its listener attached, each once, in order and without gaps, for as     *)
(* long as its client is there.                                            *)
(***************************************************************************)
EXTENDS Integers, Sequences

CONSTANTS User, Conn, Owner

VARIABLES
  published,   \* length of every user's stream
  client,      \* "new", "here" or "away"
  listener,    \* "none", "attached" or "ended"
  next,        \* the next position of the stream to forward
  sent         \* the positions every websocket was sent

vars == <<published, client, listener, next, sent>>

Init ==
  /\ published = [u \in User |-> 0]
  /\ client = [c \in Conn |-> "new"]
  /\ listener = [c \in Conn |-> "none"]
  /\ next = [c \in Conn |-> 1]
  /\ sent = [c \in Conn |-> <<>>]

Publish(u) ==
  /\ published' = [published EXCEPT ![u] = @ + 1]
  /\ UNCHANGED <<client, listener, next, sent>>

Open(c) ==
  /\ client[c] = "new"
  /\ client' = [client EXCEPT ![c] = "here"]
  /\ UNCHANGED <<published, listener, next, sent>>

Attach(c) ==
  /\ listener[c] = "none"
  /\ listener' = [listener EXCEPT ![c] = "attached"]
  /\ next' = [next EXCEPT ![c] = published[Owner[c]] + 1]
  /\ UNCHANGED <<published, client, sent>>

Deliver(c) ==
  /\ listener[c] = "attached" /\ next[c] <= published[Owner[c]]
  /\ next' = [next EXCEPT ![c] = @ + 1]
  /\ sent' = IF client[c] = "here"
             THEN [sent EXCEPT ![c] = Append(@, next[c])] ELSE sent
  /\ UNCHANGED <<published, client, listener>>

(* Clients leave, listeners end: one, or all those of a worker.            *)
Leave(C) ==
  /\ client' = [c \in Conn |-> IF c \in C THEN "away" ELSE client[c]]
  /\ \/ UNCHANGED listener
     \/ listener' = [c \in Conn |-> IF c \in C THEN "ended" ELSE listener[c]]
  /\ UNCHANGED <<published, next, sent>>

Detach(c) ==
  /\ listener' = [listener EXCEPT ![c] = "ended"]
  /\ UNCHANGED <<published, client, next, sent>>

Next ==
  \/ \E u \in User : Publish(u)
  \/ \E c \in Conn : Open(c) \/ Attach(c) \/ Deliver(c) \/ Detach(c)
  \/ \E C \in SUBSET Conn : Leave(C)

Spec == Init /\ [][Next]_vars

=============================================================================
