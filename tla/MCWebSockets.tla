---------------------------- MODULE MCWebSockets ----------------------------
(* Instances of the WebSocket layer for TLC.                               *)
EXTENDS WebSocketsContract

CONSTANTS c1, c2, u1, w1, w2

\* The connections of a configuration are all opened by u1.
OneUser == [c \in Conn |-> u1]

=============================================================================
