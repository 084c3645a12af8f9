----------------------------- MODULE WebSockets -----------------------------
(***************************************************************************)
(* The WebSocket layer of the Prepwise backend: the life of a connection   *)
(* (handler.py), the per-worker ConnectionManager, Redis pub/sub and       *)
(* presence (pubsub.py), and the dispatch of a client's messages.          *)
(*                                                                         *)
(* A connection is one run of handle_websocket_connection, from accept to  *)
(* its end, with the three tasks it starts.  An action is what a task does *)
(* between two awaits.  The answers published for a user form one stream,  *)
(* numbered in publication order: Redis hands every subscriber the part of *)
(* it that follows its SUBSCRIBE, in order.                                *)
(***************************************************************************)
EXTENDS Integers, Sequences

CONSTANTS
  User, Worker,
  Conn,            \* runs of the WebSocket handler
  Message,         \* messages clients send
  None,            \* no connection, no worker
  Owner,           \* Owner[c]: the user who opens c
  MayOverlap,      \* may a user open a second connection on a worker?
  RedisMayFail,    \* may a Redis command raise?
  MayCrash,        \* may a worker die?
  MaxPublished,    \* bound: answers published for one user
  PresenceTicks    \* heartbeat intervals in the TTL of a presence key

ASSUME BoundsAssumption == MaxPublished \in Nat /\ PresenceTicks \in Nat \ {0}
ASSUME OwnerAssumption == Owner \in [Conn -> User]
ASSUME NoneAssumption == None \notin Conn \cup Worker
ASSUME FlagsAssumption == {MayOverlap, RedisMayFail, MayCrash} \subseteq BOOLEAN

VARIABLES
  conn,        \* the handler of every connection and its three tasks
  registered,  \* ConnectionManager._active, of every worker
  presence,    \* ticks to live of presence:{user_id}, 0 when absent
  published,   \* length of every user's stream
  sent,        \* the stream positions every websocket was sent
  task,        \* dispatch(), one task per message
  chats        \* messages that created a chat_sessions row

vars == <<conn, registered, presence, published, sent, task, chats>>
channel == <<published, sent>>
dispatching == <<task, chats>>

Part == {"client", "pubsub", "heartbeat"}

(* on: the worker that serves it.                                         *)
(* ws: open; left, the client is gone but the worker has not read it; gone,*)
(* the disconnect was read (client_state); closed by the worker.           *)
Connection ==
  [on : Worker \cup {None},
   pc : {"new", "presence", "running", "stopping", "clearing", "ended"},
   ws : {"new", "open", "left", "gone", "closed"},
   client : {"off", "run", "done"},
   pubsub : {"off", "subscribe", "listen", "popping", "unsubscribe",
             "cancelled", "done", "raised"},
   heartbeat : {"off", "run", "done"},
   pending : SUBSET Part,
   cursor : Nat]
NewConnection ==
  [on |-> None, pc |-> "new", ws |-> "new", client |-> "off", pubsub |-> "off",
   heartbeat |-> "off", pending |-> {}, cursor |-> 1]

Task ==
  [pc : {"idle", "resolve", "create", "answer", "fallback", "done", "lost"},
   conn : Conn \cup {None}, answer : Nat]
IdleTask == [pc |-> "idle", conn |-> None, answer |-> 0]

TypeOK ==
  /\ conn \in [Conn -> Connection]
  /\ registered \in [Worker \X User -> Conn \cup {None}]
  /\ presence \in [User -> 0..PresenceTicks]
  /\ published \in [User -> Nat]
  /\ sent \in [Conn -> Seq(Nat)]
  /\ task \in [Message -> Task]
  /\ chats \subseteq Message

Init ==
  /\ conn = [c \in Conn |-> NewConnection]
  /\ registered = [k \in Worker \X User |-> None]
  /\ presence = [u \in User |-> 0]
  /\ published = [u \in User |-> 0]
  /\ sent = [c \in Conn |-> <<>>]
  /\ task = [m \in Message |-> IdleTask]
  /\ chats = {}

\* Mutant: one manager for all workers.
OneEntry(w, u) == <<CHOOSE v \in Worker : TRUE, u>>

(* Each worker's manager holds one websocket for a user.                   *)
Entry(w, u) == <<w, u>>
Key(c) == Entry(conn[c].on, Owner[c])

Running(c) == conn[c].pc = "running"
TaskDone(x, k) == x[k] \in {"done", "raised"}
Over(c) == conn[c].pc \in {"new", "ended"}

-----------------------------------------------------------------------------
(* The handler.                                                            *)

(* The token was accepted: accept, connect, on whichever worker.           *)
Accept(c, w) ==
  /\ conn[c].pc = "new"
  /\ MayOverlap \/ \A d \in Conn : Over(d) \/ Key(d) # Entry(w, Owner[c])
  /\ registered' = [registered EXCEPT ![Entry(w, Owner[c])] = c]
  /\ conn' = [conn EXCEPT ![c].on = w, ![c].pc = "presence", ![c].ws = "open"]
  /\ UNCHANGED <<presence, channel, dispatching>>

(* The end of the ASGI call closes the websocket.                          *)
Closed(x) == IF x.ws = "gone" THEN "gone" ELSE "closed"
End(x) == [x EXCEPT !.pc = "ended", !.ws = Closed(x)]

\* Mutant: the key is set without its expiry.
SetPresenceForEver(c) ==
  /\ conn[c].pc = "presence"
  /\ presence' = [presence EXCEPT ![Owner[c]] = PresenceTicks + 1]
  /\ conn' = [conn EXCEPT ![c].pc = "running", ![c].client = "run",
                          ![c].pubsub = "subscribe", ![c].heartbeat = "run"]
  /\ UNCHANGED <<registered, channel, dispatching>>

(* set_presence, then the three tasks start.  It runs before the try: when *)
(* it raises the handler ends there.                                       *)
SetPresence(c) ==
  /\ conn[c].pc = "presence"
  /\ \/ /\ presence' = [presence EXCEPT ![Owner[c]] = PresenceTicks]
        /\ conn' = [conn EXCEPT ![c].pc = "running", ![c].client = "run",
                                ![c].pubsub = "subscribe",
                                ![c].heartbeat = "run"]
     \/ /\ RedisMayFail
        /\ conn' = [conn EXCEPT ![c] = End(@)]
        /\ UNCHANGED presence
  /\ UNCHANGED <<registered, channel, dispatching>>

\* Mutant: wait for all three tasks.
StopWhenAll(c) ==
  /\ Running(c)
  /\ \A k \in Part : TaskDone(conn[c], k)
  /\ conn' = [conn EXCEPT ![c].pc = "stopping"]
  /\ UNCHANGED <<registered, presence, channel, dispatching>>

(* asyncio.wait(FIRST_COMPLETED) returns.                                  *)
Stop(c) ==
  /\ Running(c)
  /\ \E k \in Part : TaskDone(conn[c], k)
  /\ conn' = [conn EXCEPT ![c].pc = "stopping",
       ![c].pending = {k \in Part : ~TaskDone(conn[c], k)}]
  /\ UNCHANGED <<registered, presence, channel, dispatching>>

(* A pending task is cancelled and awaited.  Cancelled in its loop the     *)
(* listener unsubscribes first; cancelled while it subscribes or already   *)
(* unsubscribes it just drops its connection to Redis.                     *)
Cancel(c, k) ==
  /\ conn[c].pc = "stopping" /\ k \in conn[c].pending
  /\ conn[c].pubsub # "cancelled" /\ conn[c][k] # "raised"
  /\ conn' = [conn EXCEPT ![c] =
       IF conn[c][k] \in {"listen", "popping"}
       THEN [@ EXCEPT !.pubsub = "cancelled"]
       ELSE [@ EXCEPT ![k] = "done", !.pending = conn[c].pending \ {k}]]
  /\ UNCHANGED <<registered, presence, channel, dispatching>>

\* Mutant: pending tasks are cancelled but not awaited.
AwaitedNot(c) ==
  conn[c].pc = "stopping" /\ \A k \in conn[c].pending : conn[c][k] = "cancelled"

(* Every pending task was awaited, or awaiting the listener raised.        *)
Awaited(c) ==
  /\ conn[c].pc = "stopping" /\ conn[c].pubsub # "cancelled"
  /\ \/ conn[c].pending = {}
     \/ "pubsub" \in conn[c].pending /\ conn[c].pubsub = "raised"

\* Mutant: the finally block does not disconnect.
FinallyStaysRegistered(c) ==
  /\ Awaited(c)
  /\ conn' = [conn EXCEPT ![c].pc = "clearing"]
  /\ UNCHANGED <<registered, presence, channel, dispatching>>

(* disconnect(user_id) pops the user's websocket, whichever it is.         *)
Finally(c) ==
  /\ Awaited(c)
  /\ registered' = [registered EXCEPT ![Key(c)] = None]
  /\ conn' = [conn EXCEPT ![c].pc = "clearing"]
  /\ UNCHANGED <<presence, channel, dispatching>>

\* Mutant: presence is cleared only for a user who is still registered.
ClearPresenceIfRegistered(c) ==
  /\ conn[c].pc = "clearing"
  /\ presence' = [presence EXCEPT ![Owner[c]] =
       IF registered[Key(c)] # None THEN 0 ELSE @]
  /\ conn' = [conn EXCEPT ![c] = End(@)]
  /\ UNCHANGED <<registered, channel, dispatching>>

ClearPresence(c) ==
  /\ conn[c].pc = "clearing"
  /\ \/ presence' = [presence EXCEPT ![Owner[c]] = 0]
     \/ RedisMayFail /\ UNCHANGED presence
  /\ conn' = [conn EXCEPT ![c] = End(@)]
  /\ UNCHANGED <<registered, channel, dispatching>>

-----------------------------------------------------------------------------
(* The listener of the user's channel.                                     *)

\* Mutant: the listener is handed the stream from its beginning.
SubscribeFromStart(c) ==
  /\ conn[c].pubsub = "subscribe"
  /\ conn' = [conn EXCEPT ![c].pubsub = "listen"]
  /\ UNCHANGED <<registered, presence, channel, dispatching>>

(* subscribe is outside the try: a Redis error ends the task.              *)
Subscribe(c) ==
  /\ conn[c].pubsub = "subscribe"
  /\ \/ conn' = [conn EXCEPT ![c].pubsub = "listen",
                             ![c].cursor = published[Owner[c]] + 1]
     \/ RedisMayFail /\ conn' = [conn EXCEPT ![c].pubsub = "raised"]
  /\ UNCHANGED <<registered, presence, channel, dispatching>>

HasNext(c) ==
  conn[c].pubsub = "listen" /\ conn[c].cursor <= published[Owner[c]]

(* The next answer goes to the websocket the manager holds for the user.   *)
(* A departed client may or may not make the send raise; a closed          *)
(* websocket does.                                                         *)
Forward(c) ==
  /\ HasNext(c) /\ conn[c].ws # "gone"
  /\ LET d == registered[Key(c)]
         next == [conn[c] EXCEPT !.cursor = @ + 1]
         ws == IF d = None THEN "none" ELSE conn[d].ws
     IN  \/ /\ ws = "open"
            /\ sent' = [sent EXCEPT ![d] = Append(@, conn[c].cursor)]
            /\ conn' = [conn EXCEPT ![c] = next]
         \/ /\ ws \in {"none", "left"}
            /\ conn' = [conn EXCEPT ![c] = next]
            /\ UNCHANGED sent
         \/ /\ ws \in {"left", "gone", "closed"}
            /\ conn' = [conn EXCEPT ![c] = [next EXCEPT !.pubsub = "popping"]]
            /\ UNCHANGED sent
  /\ UNCHANGED <<registered, presence, published, dispatching>>

(* After a failed send the user's websocket is forgotten, whichever it is  *)
(* by now.                                                                 *)
PopFailed(c) ==
  /\ conn[c].pubsub = "popping"
  /\ registered' = [registered EXCEPT ![Key(c)] = None]
  /\ conn' = [conn EXCEPT ![c].pubsub = "listen"]
  /\ UNCHANGED <<presence, channel, dispatching>>

(* The loop is left: at the first message after the disconnect was read,   *)
(* or when Redis drops the subscription.                                   *)
StopListening(c) ==
  /\ \/ HasNext(c) /\ conn[c].ws = "gone"
     \/ conn[c].pubsub = "listen" /\ RedisMayFail
  /\ conn' = [conn EXCEPT ![c].pubsub = "unsubscribe"]
  /\ UNCHANGED <<registered, presence, channel, dispatching>>

(* The finally block; when Redis fails it raises, and if the handler is    *)
(* awaiting the cancelled listener it awaits no other task.                *)
Unsubscribe(c) ==
  /\ conn[c].pubsub \in {"unsubscribe", "cancelled"}
  /\ LET cancelled == conn[c].pubsub = "cancelled"
     IN  conn' \in
           {[conn EXCEPT ![c].pubsub = "done",
                         ![c].pending = IF cancelled THEN @ \ {"pubsub"} ELSE @]}
           \cup
           IF RedisMayFail
           THEN {[conn EXCEPT ![c].pubsub = "raised",
                    ![c].pending = IF cancelled THEN {"pubsub"} ELSE @]}
           ELSE {}
  /\ UNCHANGED <<registered, presence, channel, dispatching>>

-----------------------------------------------------------------------------
(* The other two tasks.                                                    *)

(* The heartbeat ends when the disconnect was read or the ping raises, and *)
(* closes a websocket whose peer does not take the ping in time.  A ping   *)
(* that is taken changes nothing, presence included.                       *)
HeartbeatEnds(c) ==
  /\ conn[c].heartbeat = "run"
  /\ \E ws \in {Closed(conn[c])} \cup ({conn[c].ws} \ {"open"}) :
       conn' = [conn EXCEPT ![c].heartbeat = "done", ![c].ws = ws]
  /\ UNCHANGED <<registered, presence, channel, dispatching>>

(* receive_json raises WebSocketDisconnect.                                *)
ReadDisconnect(c) ==
  /\ conn[c].client = "run" /\ conn[c].ws \in {"left", "closed"}
  /\ conn' = [conn EXCEPT ![c].client = "done", ![c].ws = "gone"]
  /\ UNCHANGED <<registered, presence, channel, dispatching>>

(* A frame that is not JSON raises out of the loop.  JSON that is not an   *)
(* InboundMessage is answered on the websocket and changes nothing here.   *)
ReadMalformed(c) ==
  /\ conn[c].client = "run" /\ conn[c].ws \in {"open", "left"}
  /\ conn' = [conn EXCEPT ![c].client = "done"]
  /\ UNCHANGED <<registered, presence, channel, dispatching>>

(* A message is dispatched in a task of its own.  Only a message without a *)
(* chat_id needs the classifier.                                           *)
ReadMessage(c, m, fresh) ==
  /\ conn[c].client = "run" /\ conn[c].ws \in {"open", "left"}
  /\ task[m].pc = "idle"
  /\ task' = [task EXCEPT ![m].conn = c,
                          ![m].pc = IF fresh THEN "resolve" ELSE "answer"]
  /\ UNCHANGED <<conn, registered, presence, channel, chats>>

-----------------------------------------------------------------------------
(* dispatch: it outlives the connection the message came by.               *)

MoveTask(m, pc) == task' = [task EXCEPT ![m].pc = pc]

\* Mutant: an error of the classifier is not caught.
ResolveUncaught(m) ==
  /\ task[m].pc = "resolve"
  /\ \E pc \in {"create", "answer", "done"} : MoveTask(m, pc)
  /\ UNCHANGED <<conn, registered, presence, channel, chats>>

(* Where a dispatch goes on after the classifier's reply.  A reply that    *)
(* cannot be parsed counts as unsupported; only the call itself may raise. *)
ClassifyMessage == [engine |-> "create", unsupported |-> "answer",
                    unparsable |-> "answer", raises |-> "fallback"]
Resolve(m) ==
  /\ task[m].pc = "resolve"
  /\ \E reply \in DOMAIN ClassifyMessage : MoveTask(m, ClassifyMessage[reply])
  /\ UNCHANGED <<conn, registered, presence, channel, chats>>

CreateChat(m) ==
  /\ task[m].pc = "create"
  /\ \/ MoveTask(m, "answer") /\ chats' = chats \cup {m}
     \/ MoveTask(m, "fallback") /\ chats' \in {chats, chats \cup {m}}
  /\ UNCHANGED <<conn, registered, presence, channel>>

(* The answer - "Thinking...", the refusal, or the error of the except     *)
(* clause - is published.  A publish that raises may have reached Redis.   *)
Publish(m) ==
  /\ task[m].pc \in {"answer", "fallback"}
  /\ LET u == Owner[task[m].conn]
         failed == IF task[m].pc = "answer" THEN "fallback" ELSE "lost"
     IN  \/ /\ published[u] < MaxPublished
            /\ published' = [published EXCEPT ![u] = @ + 1]
            /\ \E pc \in {"done"} \cup (IF RedisMayFail THEN {failed} ELSE {}) :
                 task' = [task EXCEPT ![m].pc = pc,
                                      ![m].answer = published[u] + 1]
         \/ /\ RedisMayFail
            /\ MoveTask(m, failed)
            /\ UNCHANGED published
  /\ UNCHANGED <<conn, registered, presence, sent, chats>>

-----------------------------------------------------------------------------
(* The environment.                                                        *)

ClientLeaves(c) ==
  /\ conn[c].ws = "open"
  /\ conn' = [conn EXCEPT ![c].ws = "left"]
  /\ UNCHANGED <<registered, presence, channel, dispatching>>

(* A heartbeat interval passes, and every presence key is older.           *)
Tick ==
  /\ \E u \in User : presence[u] \in 1..PresenceTicks
  /\ presence' = [u \in User |->
       IF presence[u] \in 1..PresenceTicks THEN presence[u] - 1
       ELSE presence[u]]
  /\ UNCHANGED <<conn, registered, channel, dispatching>>

(* A worker dies: its manager, handlers and dispatches are lost.           *)
Crash(w) ==
  /\ MayCrash
  /\ \E c \in Conn : conn[c].on = w /\ ~Over(c)
  /\ conn' = [c \in Conn |-> IF conn[c].on = w
       THEN [End(conn[c]) EXCEPT !.client = "done", !.pubsub = "done",
                                 !.heartbeat = "done", !.pending = {}]
       ELSE conn[c]]
  /\ registered' = [k \in Worker \X User |->
       IF k[1] = w THEN None ELSE registered[k]]
  /\ task' = [m \in Message |->
       IF task[m].conn # None /\ conn[task[m].conn].on = w
            /\ task[m].pc # "done"
       THEN [task[m] EXCEPT !.pc = "lost"] ELSE task[m]]
  /\ UNCHANGED <<presence, channel, chats>>

-----------------------------------------------------------------------------
Handler(c) ==
  \/ SetPresence(c) \/ Stop(c) \/ (\E k \in Part : Cancel(c, k))
  \/ Finally(c) \/ ClearPresence(c)
Listener(c) == Subscribe(c) \/ Forward(c) \/ PopFailed(c) \/ Unsubscribe(c)
Dispatch(m) == Resolve(m) \/ CreateChat(m) \/ Publish(m)

Next ==
  \/ \E c \in Conn :
       \/ \E w \in Worker : Accept(c, w)
       \/ Handler(c) \/ Listener(c) \/ StopListening(c)
       \/ HeartbeatEnds(c) \/ ReadDisconnect(c) \/ ReadMalformed(c)
       \/ \E m \in Message, fresh \in BOOLEAN : ReadMessage(c, m, fresh)
       \/ ClientLeaves(c)
  \/ \E m \in Message : Dispatch(m)
  \/ Tick
  \/ \E w \in Worker : Crash(w)

Spec == Init /\ [][Next]_vars

(* The event loop runs what is ready, Redis, PostgreSQL and the classifier *)
(* answer or raise, the server reports a departed client, time passes.     *)
(* Nothing makes a client connect, write or leave, or a task fail.         *)
FairSpec ==
  /\ Spec
  /\ \A c \in Conn : WF_vars(Handler(c)) /\ WF_vars(Listener(c))
                     /\ WF_vars(ReadDisconnect(c))
  /\ \A m \in Message : WF_vars(Dispatch(m))
  /\ WF_vars(Tick)

-----------------------------------------------------------------------------
(* What holds however the connections of a user overlap, when Redis        *)
(* answers and no worker dies.                                             *)

(* The manager never holds the websocket of a handler that has ended,      *)
(* although every cleanup pops whatever the user has registered: nothing   *)
(* is ever sent to a socket that is gone for good.                         *)
RegisteredIsServed ==
  \A c \in Conn, w \in Worker : registered[Entry(w, Owner[c])] = c =>
    conn[c].on = w /\ conn[c].pc \in {"presence", "running", "stopping"}

(* A user is present only while one of their handlers runs, so the key     *)
(* does not survive the last disconnect by its TTL.                        *)
PresenceIsHeld ==
  \A u \in User : presence[u] > 0 =>
    \E c \in Conn : Owner[c] = u
                    /\ conn[c].pc \in {"running", "stopping", "clearing"}

(* A handler that is past its finally block left no task behind that would *)
(* go on reading or writing the websocket.                                 *)
NoTaskOutlivesHandler ==
  \A c \in Conn : conn[c].pc \in {"clearing", "ended"} =>
    \A k \in Part : conn[c][k] \in {"off", "done", "raised"}

-----------------------------------------------------------------------------
(* What the documentation says of any connection: the listener forwards    *)
(* every answer of its channel to its own websocket while the client is    *)
(* there.                                                                  *)
ForwardsEveryMessage ==
  [][\A c \in Conn :
       conn[c].ws = "open" /\ conn'[c].cursor = conn[c].cursor + 1
         /\ conn[c].pubsub = "listen" /\ conn'[c].pubsub # "popping" =>
       sent'[c] = Append(sent[c], conn[c].cursor)]_vars

-----------------------------------------------------------------------------
(* What must eventually happen.                                            *)

(* However Redis commands and workers fail, a connection that was set up   *)
(* and whose client is gone is closed and forgotten.                       *)
CleanedUp ==
  \A c \in Conn : conn[c].ws = "left" /\ Running(c) ~>
    conn[c].pc = "ended" /\ registered[Key(c)] # c

(* Whatever the classifier, PostgreSQL or Redis raise in dispatch, the     *)
(* user's channel gets an answer to every message that was read, unless    *)
(* the publish of the last-resort error raises too or the worker dies.     *)
EveryMessageAnswered ==
  \A m \in Message :
    task[m].pc # "idle" ~> task[m].answer # 0 \/ task[m].pc = "lost"

(* The TTL is the backstop of clear_presence: Redis errors and dead        *)
(* workers leave a user without connections present for a while only.      *)
PresenceFades ==
  \A u \in User :
    (\A c \in Conn : Owner[c] = u => Over(c)) ~>
      \/ presence[u] = 0
      \/ \E c \in Conn : Owner[c] = u /\ ~Over(c)

=============================================================================
