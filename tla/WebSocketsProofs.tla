-------------------------- MODULE WebSocketsProofs --------------------------
(***************************************************************************)
(* Proofs about WebSockets, for any users, workers, connections, messages  *)
(* and bounds.                                                             *)
(***************************************************************************)
EXTENDS WebSocketsContract, TLAPS

Served == {"presence", "running", "stopping"}
Holding == {"running", "stopping", "clearing"}
Expecting == {"off", "subscribe", "listen"}

(* What the record of a connection is at each place of its handler.        *)
Shape(x) ==
  /\ x.pc = "new" => x = NewConnection
  /\ x.pc # "new" => x.on \in Worker
  /\ x.pc = "presence" => x.client = "off" /\ x.pubsub = "off" /\ x.heartbeat = "off"
  /\ x.pc = "stopping" /\ x.pubsub \notin {"done", "raised"} => "pubsub" \in x.pending
  /\ x.pc \in {"clearing", "ended"} => x.pubsub \in {"off", "done", "raised"}
(* When Redis answers no task is lost: each is pending until it is done.   *)
Tidy(x) ==
  /\ x.pubsub # "raised"
  /\ x.pc = "stopping" => /\ "client" \in x.pending \/ x.client = "done"
                          /\ "heartbeat" \in x.pending \/ x.heartbeat = "done"
  /\ x.pc \in {"clearing", "ended"} => /\ x.client \in {"off", "done"}
                                       /\ x.heartbeat \in {"off", "done"}

(* A manager holds connections of its own under their user.                *)
RegisteredAt(w, u, c) ==
  registered[Entry(w, u)] = c =>
    /\ Owner[c] = u /\ conn[c].on = w
    /\ conn[c].pc # "new"
    /\ ~RedisMayFail => conn[c].pc \in Served

(* A connection that no other has shared its entry with is registered as   *)
(* long as its listener may have something to forward to it.               *)
Sole(c) ==
  ~Over(c) =>
    /\ \A d \in Conn : d # c /\ Owner[d] = Owner[c] /\ conn[d].on = conn[c].on => Over(d)
    /\ registered[Key(c)] \in {c, None}
    /\ conn[c].pubsub \in Expecting /\ conn[c].ws = "open" => registered[Key(c)] = c
    /\ conn[c].pubsub = "popping" => conn[c].ws # "open"
Single == ~MayOverlap \/ Apart

Inv ==
  /\ TypeOK
  /\ \A c \in Conn : Shape(conn[c]) /\ (~RedisMayFail => Tidy(conn[c]))
  /\ \A m \in Message : task[m].pc # "idle" => task[m].conn \in Conn
  /\ \A w \in Worker, u \in User, c \in Conn : RegisteredAt(w, u, c)
  /\ ~RedisMayFail /\ ~MayCrash => PresenceIsHeld
  /\ Single => \A c \in Conn : Sole(c)

-----------------------------------------------------------------------------
LEMMA InitInv == Init => Inv
<1> SUFFICES ASSUME Init PROVE Inv
  OBVIOUS
<1>1. TypeOK
  BY BoundsAssumption, NoneAssumption
  DEF Init, TypeOK, Connection, NewConnection, Task, IdleTask
<1>2. \A c \in Conn : Shape(conn[c]) /\ Tidy(conn[c]) /\ Sole(c)
  BY DEF Init, Shape, Tidy, Sole, Over, NewConnection
<1>3. \A w \in Worker, u \in User, c \in Conn : RegisteredAt(w, u, c)
  BY NoneAssumption DEF Init, RegisteredAt, Entry
<1>4. \A m \in Message : task[m].pc = "idle"
  BY DEF Init, IdleTask
<1>5. PresenceIsHeld
  BY DEF Init, PresenceIsHeld
<1> QED
  BY <1>1, <1>2, <1>3, <1>4, <1>5 DEF Inv

(* A connection, once placed on a worker, stays there.                     *)
LEMMA ApartBefore ==
  ASSUME \A c \in Conn : conn'[c].on = conn[c].on \/ conn[c].on = None,
         Single'
  PROVE  Single
  BY DEF Single, Apart

(***************************************************************************)
(* A step of connection c that is not its beginning.  It may pop the entry *)
(* of c, and set the presence key of its user.                             *)
(***************************************************************************)
Moves(c) ==
  /\ conn' = [conn EXCEPT ![c] = conn'[c]]
  /\ conn'[c] \in Connection
  /\ conn'[c].on = conn[c].on
  /\ conn[c].pc # "new" /\ conn'[c].pc # "new"
  /\ Over(c) => Over(c)'
  /\ Shape(conn'[c]) /\ (~RedisMayFail => Tidy(conn'[c]))
Keeps(c) ==
  /\ registered' = registered
  /\ ~RedisMayFail /\ conn[c].pc \in Served => conn'[c].pc \in Served
  /\ conn'[c].pubsub \in Expecting /\ conn'[c].ws = "open"
       => conn[c].pubsub \in Expecting /\ conn[c].ws = "open"
Pops(c) ==
  /\ ~Over(c)
  /\ registered' = [registered EXCEPT ![Key(c)] = None]
  /\ Single => ~(conn'[c].pubsub \in Expecting /\ conn'[c].ws = "open")
Stays(c) ==
  /\ presence' = presence
  /\ conn[c].pc \in Holding => conn'[c].pc \in Holding
Sets(c) ==
  \E p \in 0..PresenceTicks :
    /\ presence' = [presence EXCEPT ![Owner[c]] = p]
    /\ p > 0 => conn'[c].pc \in Holding

LEMMA ConnMoves ==
  ASSUME Inv, NEW c \in Conn, Moves(c), Keeps(c) \/ Pops(c),
         Stays(c) \/ Sets(c) \/ (RedisMayFail /\ presence' = presence),
         Single => (conn'[c].pubsub = "popping" => conn'[c].ws # "open"),
         published' = published, sent' \in [Conn -> Seq(Nat)],
         task' \in [Message -> Task], chats' = chats,
         \A m \in Message : task'[m].pc # "idle" => task'[m].conn \in Conn
  PROVE  Inv'
<1> USE OwnerAssumption, NoneAssumption, BoundsAssumption
<1>1. /\ conn \in [Conn -> Connection] /\ conn' \in [Conn -> Connection]
      /\ \A d \in Conn : d # c => conn'[d] = conn[d]
      /\ \A d \in Conn : conn'[d].on = conn[d].on
  BY DEF Inv, TypeOK, Moves
<1>2. /\ registered \in [Worker \X User -> Conn \cup {None}]
      /\ registered' \in [Worker \X User -> Conn \cup {None}]
      /\ \A k \in Worker \X User : registered'[k] = registered[k] \/ registered'[k] = None
  BY DEF Inv, TypeOK, Keeps, Pops
<1>3. /\ presence' \in [User -> 0..PresenceTicks]
      /\ \A u \in User : u # Owner[c] => presence'[u] = presence[u]
  <2>1. presence \in [User -> 0..PresenceTicks]
    BY DEF Inv, TypeOK
  <2>2. CASE presence' = presence
    BY <2>1, <2>2
  <2>3. CASE Sets(c)
    <3>1. PICK p \in 0..PresenceTicks : presence' = [presence EXCEPT ![Owner[c]] = p]
      BY <2>3 DEF Sets
    <3> QED
      BY <2>1, <3>1
  <2> QED
    BY <2>2, <2>3 DEF Stays
<1>4. TypeOK'
  BY <1>1, <1>2, <1>3 DEF Inv, TypeOK
<1>5. \A d \in Conn : Shape(conn'[d]) /\ (~RedisMayFail => Tidy(conn'[d]))
  BY <1>1 DEF Inv, Moves
<1>6. ASSUME NEW w \in Worker, NEW u \in User, NEW d \in Conn
      PROVE  RegisteredAt(w, u, d)'
  <2> SUFFICES ASSUME registered'[<<w, u>>] = d
               PROVE  /\ Owner[d] = u /\ conn'[d].on = w
                      /\ conn'[d].pc # "new"
                      /\ ~RedisMayFail => conn'[d].pc \in Served
    BY DEF RegisteredAt, Entry
  <2>1. registered[<<w, u>>] = d
    BY <1>2
  <2>2. /\ Owner[d] = u /\ conn[d].on = w /\ conn[d].pc # "new"
        /\ ~RedisMayFail => conn[d].pc \in Served
    BY <2>1 DEF Inv, RegisteredAt, Entry
  <2>3. CASE d # c
    BY <1>1, <2>2, <2>3
  <2>4. CASE d = c
    <3>1. Keeps(c)
      <4>1. Key(c) = <<w, u>> /\ <<w, u>> \in Worker \X User
        BY <2>2, <2>4 DEF Key, Entry
      <4>2. registered'[<<w, u>>] # None
        BY <2>4
      <4> QED
        BY <1>2, <4>1, <4>2 DEF Pops
    <3> QED
      BY <1>1, <2>2, <2>4, <3>1 DEF Keeps, Moves
  <2> QED
    BY <2>3, <2>4
<1>7. ~RedisMayFail /\ ~MayCrash => PresenceIsHeld'
  <2> SUFFICES ASSUME ~RedisMayFail, ~MayCrash, NEW u \in User, presence'[u] > 0
               PROVE  \E d \in Conn : Owner[d] = u /\ conn'[d].pc \in Holding
    BY DEF PresenceIsHeld, Holding
  <2>1. CASE u # Owner[c] \/ Stays(c)
    <3>1. presence[u] > 0
      BY <1>3, <2>1 DEF Stays
    <3>2. PICK d \in Conn : Owner[d] = u /\ conn[d].pc \in Holding
      BY <3>1 DEF Inv, PresenceIsHeld, Holding
    <3> QED
      BY <1>1, <2>1, <3>2 DEF Stays
  <2>2. CASE u = Owner[c] /\ Sets(c)
    BY <2>2 DEF Inv, TypeOK, Sets
  <2> QED
    BY <2>1, <2>2
<1>8. Single' => \A d \in Conn : Sole(d)'
  <2> SUFFICES ASSUME Single', NEW d \in Conn, ~Over(d)'
               PROVE  Sole(d)'
    BY DEF Sole
  <2>1. Single
    BY <1>1, ApartBefore
  <2>2. Sole(c) /\ Sole(d)
    BY <2>1 DEF Inv
  <2>3. ~Over(d) /\ \A e \in Conn : Over(e) => Over(e)'
    BY <1>1 DEF Moves, Over
  <2>4. \A e \in Conn : e # d /\ Owner[e] = Owner[d] /\ conn'[e].on = conn'[d].on => Over(e)'
    BY <1>1, <2>2, <2>3 DEF Sole
  <2>5. Key(d)' = Key(d) /\ Key(d) \in Worker \X User
    BY <1>1, <2>3 DEF Key, Entry, Over, Inv, Shape
  <2>6. registered'[Key(d)] \in {d, None}
    BY <1>2, <2>2, <2>3, <2>5 DEF Sole
  <2>7. conn'[d].pubsub \in Expecting /\ conn'[d].ws = "open" => registered'[Key(d)] = d
    <3>1. CASE Keeps(c)
      BY <1>1, <2>2, <2>3, <3>1 DEF Sole, Keeps
    <3>2. CASE Pops(c) /\ d # c
      <4>1. Key(d) # Key(c)
        BY <2>2, <2>3, <3>2 DEF Sole, Pops, Key, Entry
      <4> QED
        BY <1>1, <2>2, <2>3, <3>2, <4>1 DEF Sole, Pops
    <3>3. CASE Pops(c) /\ d = c
      BY <2>1, <3>3 DEF Pops
    <3> QED
      BY <3>1, <3>2, <3>3
  <2>8. conn'[d].pubsub = "popping" => conn'[d].ws # "open"
    BY <1>1, <2>1, <2>2, <2>3 DEF Sole
  <2> QED
    BY <2>4, <2>5, <2>6, <2>7, <2>8 DEF Sole
<1> QED
  BY <1>4, <1>5, <1>6, <1>7, <1>8 DEF Inv

-----------------------------------------------------------------------------
(* The steps of a connection.                                              *)

(* What is known of connection c, whose record is x.                       *)
Known(c, x) ==
  /\ x = conn[c] /\ x \in Connection /\ conn \in [Conn -> Connection]
  /\ Shape(x) /\ (~RedisMayFail => Tidy(x)) /\ (Single => Sole(c))
  /\ x.pc = "new" => /\ x.client = "off" /\ x.pubsub = "off"
                     /\ x.heartbeat = "off" /\ x.ws = "new"
  /\ Owner[c] \in User /\ presence \in [User -> 0..PresenceTicks]
  /\ published \in [User -> Nat] /\ sent \in [Conn -> Seq(Nat)]

LEMMA Fields ==
  ASSUME Inv, NEW c \in Conn
  PROVE  Known(c, conn[c])
  BY OwnerAssumption DEF Known, Inv, TypeOK, Shape, NewConnection

LEMMA SetsTo ==
  ASSUME NEW c, NEW p \in 0..PresenceTicks, presence' = [presence EXCEPT ![Owner[c]] = p],
         NEW y, conn'[c] = y, p > 0 => y.pc \in Holding
  PROVE  Sets(c)
  BY DEF Sets

(* A connection becomes y, and the dispatches stay.                        *)
LEMMA Becomes ==
  ASSUME Inv, NEW c \in Conn, NEW y \in Connection, conn' = [conn EXCEPT ![c] = y],
         y.on = conn[c].on, conn[c].pc # "new", y.pc # "new",
         conn[c].pc = "ended" => y.pc = "ended",
         Shape(y), ~RedisMayFail => Tidy(y),
         Keeps(c) \/ Pops(c),
         Stays(c) \/ Sets(c) \/ (RedisMayFail /\ presence' = presence),
         Single => (y.pubsub = "popping" => y.ws # "open"),
         published' = published, sent' \in [Conn -> Seq(Nat)], task' = task, chats' = chats
  PROVE  Inv'
<1>1. conn'[c] = y
  BY Fields DEF Known
<1>2. Moves(c)
  BY <1>1 DEF Moves, Over
<1>3. /\ task' \in [Message -> Task]
      /\ \A m \in Message : task'[m].pc # "idle" => task'[m].conn \in Conn
  BY DEF Inv, TypeOK
<1> QED
  BY <1>1, <1>2, <1>3, ConnMoves

LEMMA SetPresenceKeeps ==
  ASSUME Inv, NEW c \in Conn, SetPresence(c)
  PROVE  Inv'
<1> DEFINE x == conn[c]
<1>1. Known(c, x)
  BY Fields
<1>2. UNCHANGED <<published, sent, task, chats>>
  BY DEF SetPresence, channel, dispatching
<1>3. /\ x.pc = "presence"
      /\ registered' = registered
  BY <1>1 DEF Known, SetPresence
<1>4. x \in Connection
  BY <1>1 DEF Known
<1> HIDE DEF x
<1>5. CASE /\ conn' = [conn EXCEPT ![c] =
                    [x EXCEPT !.pc = "running", !.client = "run", !.pubsub = "subscribe", !.heartbeat = "run"]]
            /\ presence' = [presence EXCEPT ![Owner[c]] = PresenceTicks]
  <2> DEFINE y ==
                [x EXCEPT !.pc = "running", !.client = "run", !.pubsub = "subscribe", !.heartbeat = "run"]
  <2>1. presence' = [presence EXCEPT ![Owner[c]] = PresenceTicks]
    BY <1>5
  <2>2. /\ y \in Connection
        /\ y.on = x.on /\ y.pc = "running" /\ y.ws = x.ws /\ y.client = "run"
        /\ y.pubsub = "subscribe" /\ y.heartbeat = "run"
        /\ y.pending = x.pending /\ y.cursor = x.cursor
    BY <1>4, BoundsAssumption DEF Connection, Part
  <2>3. conn' = [conn EXCEPT ![c] = y] /\ conn'[c] = y
    BY <1>1, <1>5 DEF Known
  <2> HIDE DEF y
  <2>4. /\ Shape(y) /\ (~RedisMayFail => Tidy(y))
        /\ x.pc # "new" /\ y.pc # "new" /\ (x.pc = "ended" => y.pc = "ended")
        /\ Single => (y.pubsub = "popping" => y.ws # "open")
    BY <1>1, <1>3, <2>2 DEF Known, Shape, Tidy, Sole, Over
  <2>5. Keeps(c)
    BY <1>1, <1>3, <2>2, <2>3 DEF Known, Keeps, Served, Expecting, Shape
  <2>6. PresenceTicks \in 0..PresenceTicks /\ (PresenceTicks > 0 => y.pc \in Holding)
    BY <2>2, BoundsAssumption DEF Holding
  <2>7. Sets(c)
    BY <2>1, <2>3, <2>6, SetsTo
  <2> QED
    BY <1>1, <1>2, <2>2, <2>3, <2>4, <2>5, <2>7, Becomes DEF Known
<1>6. CASE /\ conn' = [conn EXCEPT ![c] =
                    [x EXCEPT !.pc = "ended", !.ws = Closed(x)]]
            /\ RedisMayFail
            /\ presence' = presence
  <2> DEFINE y == [x EXCEPT !.pc = "ended", !.ws = Closed(x)]
  <2>1. RedisMayFail
    BY <1>6
  <2>2. presence' = presence
    BY <1>6
  <2>3. Closed(x) \in {"gone", "closed"}
    BY DEF Closed
  <2>4. /\ y \in Connection
        /\ y.on = x.on /\ y.pc = "ended" /\ y.ws = Closed(x) /\ y.client = x.client
        /\ y.pubsub = x.pubsub /\ y.heartbeat = x.heartbeat
        /\ y.pending = x.pending /\ y.cursor = x.cursor
    BY <1>4, <2>1, <2>3, BoundsAssumption DEF Connection, Part
  <2>5. conn' = [conn EXCEPT ![c] = y] /\ conn'[c] = y
    BY <1>1, <1>6 DEF Known
  <2> HIDE DEF y
  <2>6. /\ Shape(y) /\ (~RedisMayFail => Tidy(y))
        /\ x.pc # "new" /\ y.pc # "new" /\ (x.pc = "ended" => y.pc = "ended")
        /\ Single => (y.pubsub = "popping" => y.ws # "open")
    BY <1>1, <1>3, <2>1, <2>3, <2>4 DEF Known, Shape, Tidy, Sole, Over
  <2>7. Keeps(c)
    BY <1>1, <1>3, <2>1, <2>3, <2>4, <2>5 DEF Known, Keeps, Served, Expecting,
       Shape
  <2>8. RedisMayFail /\ presence' = presence
    BY <2>1, <2>2
  <2> QED
    BY <1>1, <1>2, <2>4, <2>5, <2>6, <2>7, <2>8, Becomes DEF Known
<1> QED
  BY <1>1, <1>5, <1>6 DEF Known, SetPresence, End

LEMMA StopKeeps ==
  ASSUME Inv, NEW c \in Conn, Stop(c)
  PROVE  Inv'
<1> DEFINE x == conn[c]
<1>1. Known(c, x)
  BY Fields
<1>2. UNCHANGED <<published, sent, task, chats>>
  BY DEF Stop, channel, dispatching
<1>3. /\ x.pc = "running"
      /\ registered' = registered /\ presence' = presence
  BY <1>1 DEF Known, Stop, Running
<1>4. x \in Connection
  BY <1>1 DEF Known
<1> HIDE DEF x
<1>5. CASE /\ conn' = [conn EXCEPT ![c] =
                    [x EXCEPT !.pc = "stopping", !.pending = {k \in Part : ~TaskDone(x, k)}]]
  <2> DEFINE y ==
                [x EXCEPT !.pc = "stopping", !.pending = {k \in Part : ~TaskDone(x, k)}]
  <2>1. /\ y \in Connection
        /\ y.on = x.on /\ y.pc = "stopping" /\ y.ws = x.ws /\ y.client = x.client
        /\ y.pubsub = x.pubsub /\ y.heartbeat = x.heartbeat
        /\ y.pending = {k \in Part : ~TaskDone(x, k)} /\ y.cursor = x.cursor
    BY <1>4, BoundsAssumption DEF Connection, Part
  <2>2. conn' = [conn EXCEPT ![c] = y] /\ conn'[c] = y
    BY <1>1, <1>5 DEF Known
  <2>3. /\ "pubsub" \in y.pending \/ y.pubsub \in {"done", "raised"}
        /\ "client" \in y.pending \/ y.client = "done"
        /\ "heartbeat" \in y.pending \/ y.heartbeat = "done"
    BY <1>1, <2>1 DEF Known, TaskDone, Part, Connection
  <2> HIDE DEF y
  <2>4. /\ Shape(y) /\ (~RedisMayFail => Tidy(y))
        /\ x.pc # "new" /\ y.pc # "new" /\ (x.pc = "ended" => y.pc = "ended")
        /\ Single => (y.pubsub = "popping" => y.ws # "open")
    BY <1>1, <1>3, <2>1, <2>3 DEF Known, Shape, Tidy, Sole, Over
  <2>5. Keeps(c)
    BY <1>1, <1>3, <2>1, <2>3, <2>2 DEF Known, Keeps, Served, Expecting, Shape
  <2>6. Stays(c)
    BY <1>1, <1>3, <2>1, <2>2 DEF Known, Stays, Holding
  <2> QED
    BY <1>1, <1>2, <2>1, <2>2, <2>4, <2>5, <2>6, Becomes DEF Known
<1> QED
  BY <1>1, <1>5 DEF Known, Stop

LEMMA CancelKeeps ==
  ASSUME Inv, NEW c \in Conn, NEW k \in Part, Cancel(c, k)
  PROVE  Inv'
<1> DEFINE x == conn[c]
<1>1. Known(c, x)
  BY Fields
<1>2. UNCHANGED <<published, sent, task, chats>>
  BY DEF Cancel, channel, dispatching
<1>3. /\ x.pc = "stopping" /\ k \in x.pending
      /\ registered' = registered /\ presence' = presence
  BY <1>1 DEF Known, Cancel
<1>4. x \in Connection
  BY <1>1 DEF Known
<1> HIDE DEF x
<1>5. CASE /\ conn' = [conn EXCEPT ![c] = [x EXCEPT !.pubsub = "cancelled"]]
            /\ k = "pubsub"
  <2> DEFINE y == [x EXCEPT !.pubsub = "cancelled"]
  <2>1. k = "pubsub"
    BY <1>5
  <2>2. /\ y \in Connection
        /\ y.on = x.on /\ y.pc = x.pc /\ y.ws = x.ws /\ y.client = x.client
        /\ y.pubsub = "cancelled" /\ y.heartbeat = x.heartbeat
        /\ y.pending = x.pending /\ y.cursor = x.cursor
    BY <1>4, <2>1, BoundsAssumption DEF Connection, Part
  <2>3. conn' = [conn EXCEPT ![c] = y] /\ conn'[c] = y
    BY <1>1, <1>5 DEF Known
  <2> HIDE DEF y
  <2>4. /\ Shape(y) /\ (~RedisMayFail => Tidy(y))
        /\ x.pc # "new" /\ y.pc # "new" /\ (x.pc = "ended" => y.pc = "ended")
        /\ Single => (y.pubsub = "popping" => y.ws # "open")
    BY <1>1, <1>3, <2>1, <2>2 DEF Known, Shape, Tidy, Sole, Over
  <2>5. Keeps(c)
    BY <1>1, <1>3, <2>1, <2>2, <2>3 DEF Known, Keeps, Served, Expecting, Shape
  <2>6. Stays(c)
    BY <1>1, <1>3, <2>2, <2>3 DEF Known, Stays, Holding
  <2> QED
    BY <1>1, <1>2, <2>2, <2>3, <2>4, <2>5, <2>6, Becomes DEF Known
<1>6. CASE /\ conn' = [conn EXCEPT ![c] =
                    [x EXCEPT ![k] = "done", !.pending = x.pending \ {k}]]
            /\ x[k] \notin {"listen", "popping"}
  <2> DEFINE y == [x EXCEPT ![k] = "done", !.pending = x.pending \ {k}]
  <2>1. x[k] \notin {"listen", "popping"}
    BY <1>6
  <2>2. /\ y \in Connection
        /\ y.on = x.on /\ y.pc = x.pc /\ y.ws = x.ws
        /\ y.pending = x.pending \ {k} /\ y.cursor = x.cursor
        /\ \A j \in Part : y[j] = IF j = k THEN "done" ELSE x[j]
    <3>1. CASE k = "client"
      BY <1>4, <3>1 DEF Connection, Part
    <3>2. CASE k = "pubsub"
      BY <1>4, <3>2 DEF Connection, Part
    <3>3. CASE k = "heartbeat"
      BY <1>4, <3>3 DEF Connection, Part
    <3> QED
      BY <3>1, <3>2, <3>3 DEF Part
  <2>3. conn' = [conn EXCEPT ![c] = y] /\ conn'[c] = y
    BY <1>1, <1>6 DEF Known
  <2>4. /\ "client" \in Part /\ "pubsub" \in Part /\ "heartbeat" \in Part
        /\ y.client = IF k = "client" THEN "done" ELSE x.client
        /\ y.pubsub = IF k = "pubsub" THEN "done" ELSE x.pubsub
        /\ y.heartbeat = IF k = "heartbeat" THEN "done" ELSE x.heartbeat
    BY <1>1, <2>2 DEF Known, Part
  <2> HIDE DEF y
  <2>5. /\ Shape(y) /\ (~RedisMayFail => Tidy(y))
        /\ x.pc # "new" /\ y.pc # "new" /\ (x.pc = "ended" => y.pc = "ended")
        /\ Single => (y.pubsub = "popping" => y.ws # "open")
    BY <1>1, <1>3, <2>1, <2>2, <2>4 DEF Known, Shape, Tidy, Sole, Over
  <2>6. Keeps(c)
    BY <1>1, <1>3, <2>1, <2>2, <2>4, <2>3 DEF Known, Keeps, Served, Expecting,
       Shape
  <2>7. Stays(c)
    BY <1>1, <1>3, <2>2, <2>3 DEF Known, Stays, Holding
  <2> QED
    BY <1>1, <1>2, <2>2, <2>3, <2>5, <2>6, <2>7, Becomes DEF Known
<1>7. CASE x[k] \in {"listen", "popping"}
  <2>1. k = "pubsub"
    BY <1>1, <1>7 DEF Known, Connection, Part
  <2> QED
    BY <1>1, <1>5, <1>7, <2>1 DEF Known, Cancel
<1>8. CASE x[k] \notin {"listen", "popping"}
  BY <1>1, <1>6, <1>8 DEF Known, Cancel
<1> QED
  BY <1>7, <1>8

LEMMA FinallyKeeps ==
  ASSUME Inv, NEW c \in Conn, Finally(c)
  PROVE  Inv'
<1> DEFINE x == conn[c]
<1>1. Known(c, x)
  BY Fields
<1>2. UNCHANGED <<published, sent, task, chats>>
  BY DEF Finally, channel, dispatching
<1>3. /\ x.pc = "stopping" /\ x.pubsub # "cancelled"
      /\ x.pending = {} \/ ("pubsub" \in x.pending /\ x.pubsub = "raised")
      /\ registered' = [registered EXCEPT ![Key(c)] = None] /\ presence' = presence
  BY <1>1 DEF Known, Finally, Awaited
<1>4. x \in Connection
  BY <1>1 DEF Known
<1> HIDE DEF x
<1>5. CASE /\ conn' = [conn EXCEPT ![c] = [x EXCEPT !.pc = "clearing"]]
  <2> DEFINE y == [x EXCEPT !.pc = "clearing"]
  <2>1. /\ y \in Connection
        /\ y.on = x.on /\ y.pc = "clearing" /\ y.ws = x.ws /\ y.client = x.client
        /\ y.pubsub = x.pubsub /\ y.heartbeat = x.heartbeat
        /\ y.pending = x.pending /\ y.cursor = x.cursor
    BY <1>4, BoundsAssumption DEF Connection, Part
  <2>2. conn' = [conn EXCEPT ![c] = y] /\ conn'[c] = y
    BY <1>1, <1>5 DEF Known
  <2> HIDE DEF y
  <2>3. /\ Shape(y) /\ (~RedisMayFail => Tidy(y))
        /\ x.pc # "new" /\ y.pc # "new" /\ (x.pc = "ended" => y.pc = "ended")
        /\ Single => (y.pubsub = "popping" => y.ws # "open")
    BY <1>1, <1>3, <2>1 DEF Known, Shape, Tidy, Sole, Over
  <2>4. Pops(c)
    BY <1>1, <1>3, <2>1, <2>2 DEF Known, Pops, Served, Expecting, Shape, Over,
       Sole
  <2>5. Stays(c)
    BY <1>1, <1>3, <2>1, <2>2 DEF Known, Stays, Holding
  <2> QED
    BY <1>1, <1>2, <2>1, <2>2, <2>3, <2>4, <2>5, Becomes DEF Known
<1> QED
  BY <1>1, <1>5 DEF Known, Finally

LEMMA ClearPresenceKeeps ==
  ASSUME Inv, NEW c \in Conn, ClearPresence(c)
  PROVE  Inv'
<1> DEFINE x == conn[c]
<1>1. Known(c, x)
  BY Fields
<1>2. UNCHANGED <<published, sent, task, chats>>
  BY DEF ClearPresence, channel, dispatching
<1>3. /\ x.pc = "clearing"
      /\ registered' = registered
  BY <1>1 DEF Known, ClearPresence
<1>4. x \in Connection
  BY <1>1 DEF Known
<1> HIDE DEF x
<1>5. CASE /\ conn' = [conn EXCEPT ![c] =
                    [x EXCEPT !.pc = "ended", !.ws = Closed(x)]]
            /\ presence' = [presence EXCEPT ![Owner[c]] = 0]
  <2> DEFINE y == [x EXCEPT !.pc = "ended", !.ws = Closed(x)]
  <2>1. presence' = [presence EXCEPT ![Owner[c]] = 0]
    BY <1>5
  <2>2. Closed(x) \in {"gone", "closed"}
    BY DEF Closed
  <2>3. /\ y \in Connection
        /\ y.on = x.on /\ y.pc = "ended" /\ y.ws = Closed(x) /\ y.client = x.client
        /\ y.pubsub = x.pubsub /\ y.heartbeat = x.heartbeat
        /\ y.pending = x.pending /\ y.cursor = x.cursor
    BY <1>4, <2>2, BoundsAssumption DEF Connection, Part
  <2>4. conn' = [conn EXCEPT ![c] = y] /\ conn'[c] = y
    BY <1>1, <1>5 DEF Known
  <2> HIDE DEF y
  <2>5. /\ Shape(y) /\ (~RedisMayFail => Tidy(y))
        /\ x.pc # "new" /\ y.pc # "new" /\ (x.pc = "ended" => y.pc = "ended")
        /\ Single => (y.pubsub = "popping" => y.ws # "open")
    BY <1>1, <1>3, <2>2, <2>3 DEF Known, Shape, Tidy, Sole, Over
  <2>6. Keeps(c)
    BY <1>1, <1>3, <2>2, <2>3, <2>4 DEF Known, Keeps, Served, Expecting, Shape
  <2>7. 0 \in 0..PresenceTicks /\ (0 > 0 => y.pc \in Holding)
    BY <2>3, BoundsAssumption DEF Holding
  <2>8. Sets(c)
    BY <2>1, <2>4, <2>7, SetsTo
  <2> QED
    BY <1>1, <1>2, <2>3, <2>4, <2>5, <2>6, <2>8, Becomes DEF Known
<1>6. CASE /\ conn' = [conn EXCEPT ![c] =
                    [x EXCEPT !.pc = "ended", !.ws = Closed(x)]]
            /\ RedisMayFail
            /\ presence' = presence
  <2> DEFINE y == [x EXCEPT !.pc = "ended", !.ws = Closed(x)]
  <2>1. RedisMayFail
    BY <1>6
  <2>2. presence' = presence
    BY <1>6
  <2>3. Closed(x) \in {"gone", "closed"}
    BY DEF Closed
  <2>4. /\ y \in Connection
        /\ y.on = x.on /\ y.pc = "ended" /\ y.ws = Closed(x) /\ y.client = x.client
        /\ y.pubsub = x.pubsub /\ y.heartbeat = x.heartbeat
        /\ y.pending = x.pending /\ y.cursor = x.cursor
    BY <1>4, <2>1, <2>3, BoundsAssumption DEF Connection, Part
  <2>5. conn' = [conn EXCEPT ![c] = y] /\ conn'[c] = y
    BY <1>1, <1>6 DEF Known
  <2> HIDE DEF y
  <2>6. /\ Shape(y) /\ (~RedisMayFail => Tidy(y))
        /\ x.pc # "new" /\ y.pc # "new" /\ (x.pc = "ended" => y.pc = "ended")
        /\ Single => (y.pubsub = "popping" => y.ws # "open")
    BY <1>1, <1>3, <2>1, <2>3, <2>4 DEF Known, Shape, Tidy, Sole, Over
  <2>7. Keeps(c)
    BY <1>1, <1>3, <2>1, <2>3, <2>4, <2>5 DEF Known, Keeps, Served, Expecting,
       Shape
  <2>8. RedisMayFail /\ presence' = presence
    BY <2>1, <2>2
  <2> QED
    BY <1>1, <1>2, <2>4, <2>5, <2>6, <2>7, <2>8, Becomes DEF Known
<1> QED
  BY <1>1, <1>5, <1>6 DEF Known, ClearPresence, End

LEMMA SubscribeKeeps ==
  ASSUME Inv, NEW c \in Conn, Subscribe(c)
  PROVE  Inv'
<1> DEFINE x == conn[c]
<1>1. Known(c, x)
  BY Fields
<1>2. UNCHANGED <<published, sent, task, chats>>
  BY DEF Subscribe, channel, dispatching
<1>3. /\ x.pubsub = "subscribe"
      /\ registered' = registered /\ presence' = presence
  BY <1>1 DEF Known, Subscribe
<1>4. x \in Connection
  BY <1>1 DEF Known
<1> HIDE DEF x
<1>5. CASE /\ conn' = [conn EXCEPT ![c] =
                    [x EXCEPT !.pubsub = "listen", !.cursor = published[Owner[c]] + 1]]
  <2> DEFINE y ==
                [x EXCEPT !.pubsub = "listen", !.cursor = published[Owner[c]] + 1]
  <2>1. published[Owner[c]] + 1 \in Nat
    BY <1>1, <1>3 DEF Known, Connection
  <2>2. /\ y \in Connection
        /\ y.on = x.on /\ y.pc = x.pc /\ y.ws = x.ws /\ y.client = x.client
        /\ y.pubsub = "listen" /\ y.heartbeat = x.heartbeat
        /\ y.pending = x.pending /\ y.cursor = published[Owner[c]] + 1
    BY <1>4, <2>1, BoundsAssumption DEF Connection, Part
  <2>3. conn' = [conn EXCEPT ![c] = y] /\ conn'[c] = y
    BY <1>1, <1>5 DEF Known
  <2> HIDE DEF y
  <2>4. /\ Shape(y) /\ (~RedisMayFail => Tidy(y))
        /\ x.pc # "new" /\ y.pc # "new" /\ (x.pc = "ended" => y.pc = "ended")
        /\ Single => (y.pubsub = "popping" => y.ws # "open")
    BY <1>1, <1>3, <2>1, <2>2 DEF Known, Shape, Tidy, Sole, Over
  <2>5. Keeps(c)
    BY <1>1, <1>3, <2>1, <2>2, <2>3 DEF Known, Keeps, Served, Expecting, Shape
  <2>6. Stays(c)
    BY <1>1, <1>3, <2>2, <2>3 DEF Known, Stays, Holding
  <2> QED
    BY <1>1, <1>2, <2>2, <2>3, <2>4, <2>5, <2>6, Becomes DEF Known
<1>6. CASE /\ conn' = [conn EXCEPT ![c] = [x EXCEPT !.pubsub = "raised"]]
            /\ RedisMayFail
  <2> DEFINE y == [x EXCEPT !.pubsub = "raised"]
  <2>1. RedisMayFail
    BY <1>6
  <2>2. /\ y \in Connection
        /\ y.on = x.on /\ y.pc = x.pc /\ y.ws = x.ws /\ y.client = x.client
        /\ y.pubsub = "raised" /\ y.heartbeat = x.heartbeat
        /\ y.pending = x.pending /\ y.cursor = x.cursor
    BY <1>4, <2>1, BoundsAssumption DEF Connection, Part
  <2>3. conn' = [conn EXCEPT ![c] = y] /\ conn'[c] = y
    BY <1>1, <1>6 DEF Known
  <2> HIDE DEF y
  <2>4. /\ Shape(y) /\ (~RedisMayFail => Tidy(y))
        /\ x.pc # "new" /\ y.pc # "new" /\ (x.pc = "ended" => y.pc = "ended")
        /\ Single => (y.pubsub = "popping" => y.ws # "open")
    BY <1>1, <1>3, <2>1, <2>2 DEF Known, Shape, Tidy, Sole, Over
  <2>5. Keeps(c)
    BY <1>1, <1>3, <2>1, <2>2, <2>3 DEF Known, Keeps, Served, Expecting, Shape
  <2>6. Stays(c)
    BY <1>1, <1>3, <2>2, <2>3 DEF Known, Stays, Holding
  <2> QED
    BY <1>1, <1>2, <2>2, <2>3, <2>4, <2>5, <2>6, Becomes DEF Known
<1> QED
  BY <1>1, <1>5, <1>6 DEF Known, Subscribe

LEMMA ForwardKeeps ==
  ASSUME Inv, NEW c \in Conn, Forward(c)
  PROVE  Inv'
<1> DEFINE x == conn[c]
<1>1. Known(c, x)
  BY Fields
<1>2. UNCHANGED <<published, task, chats>> /\ sent' \in [Conn -> Seq(Nat)]
  <2>1. conn[c].cursor \in Nat
    BY <1>1 DEF Known, Connection
  <2>2. UNCHANGED <<published, task, chats>>
    BY DEF Forward, dispatching
  <2>3. sent' = sent \/ \E d : sent' = [sent EXCEPT ![d] = Append(@, conn[c].cursor)]
    BY DEF Forward
  <2>4. ASSUME NEW d, sent' = [sent EXCEPT ![d] = Append(@, conn[c].cursor)]
        PROVE  sent' \in [Conn -> Seq(Nat)]
    <3>1. d \in Conn => Append(sent[d], conn[c].cursor) \in Seq(Nat)
      BY <1>1, <2>1 DEF Known
    <3> QED
      BY <1>1, <2>4, <3>1 DEF Known
  <2> QED
    BY <1>1, <2>2, <2>3, <2>4 DEF Known
<1>3. /\ x.pubsub = "listen"
      /\ registered' = registered /\ presence' = presence
  BY <1>1 DEF Known, Forward, HasNext
<1>4. x \in Connection
  BY <1>1 DEF Known
<1> HIDE DEF x
<1>5. CASE /\ conn' = [conn EXCEPT ![c] = [x EXCEPT !.cursor = x.cursor + 1]]
  <2> DEFINE y == [x EXCEPT !.cursor = x.cursor + 1]
  <2>1. x.cursor + 1 \in Nat
    BY <1>1, <1>3 DEF Known, Connection
  <2>2. /\ y \in Connection
        /\ y.on = x.on /\ y.pc = x.pc /\ y.ws = x.ws /\ y.client = x.client
        /\ y.pubsub = x.pubsub /\ y.heartbeat = x.heartbeat
        /\ y.pending = x.pending /\ y.cursor = x.cursor + 1
    BY <1>4, <2>1, BoundsAssumption DEF Connection, Part
  <2>3. conn' = [conn EXCEPT ![c] = y] /\ conn'[c] = y
    BY <1>1, <1>5 DEF Known
  <2> HIDE DEF y
  <2>4. /\ Shape(y) /\ (~RedisMayFail => Tidy(y))
        /\ x.pc # "new" /\ y.pc # "new" /\ (x.pc = "ended" => y.pc = "ended")
        /\ Single => (y.pubsub = "popping" => y.ws # "open")
    BY <1>1, <1>3, <2>1, <2>2 DEF Known, Shape, Tidy, Sole, Over
  <2>5. Keeps(c)
    BY <1>1, <1>3, <2>1, <2>2, <2>3 DEF Known, Keeps, Served, Expecting, Shape
  <2>6. Stays(c)
    BY <1>1, <1>3, <2>2, <2>3 DEF Known, Stays, Holding
  <2> QED
    BY <1>1, <1>2, <2>2, <2>3, <2>4, <2>5, <2>6, Becomes DEF Known
<1>6. CASE /\ conn' = [conn EXCEPT ![c] =
                    [x EXCEPT !.cursor = x.cursor + 1, !.pubsub = "popping"]]
            /\ registered[Key(c)] # None
            /\ conn[registered[Key(c)]].ws # "open"
  <2> DEFINE y == [x EXCEPT !.cursor = x.cursor + 1, !.pubsub = "popping"]
  <2>1. registered[Key(c)] # None /\ conn[registered[Key(c)]].ws # "open"
    BY <1>6
  <2>2. x.cursor + 1 \in Nat
    BY <1>1, <1>3 DEF Known, Connection
  <2>3. /\ y \in Connection
        /\ y.on = x.on /\ y.pc = x.pc /\ y.ws = x.ws /\ y.client = x.client
        /\ y.pubsub = "popping" /\ y.heartbeat = x.heartbeat
        /\ y.pending = x.pending /\ y.cursor = x.cursor + 1
    BY <1>4, <2>1, <2>2, BoundsAssumption DEF Connection, Part
  <2>4. conn' = [conn EXCEPT ![c] = y] /\ conn'[c] = y
    BY <1>1, <1>6 DEF Known
  <2> HIDE DEF y
  <2>5. /\ Shape(y) /\ (~RedisMayFail => Tidy(y))
        /\ x.pc # "new" /\ y.pc # "new" /\ (x.pc = "ended" => y.pc = "ended")
        /\ Single => (y.pubsub = "popping" => y.ws # "open")
    BY <1>1, <1>3, <2>1, <2>2, <2>3 DEF Known, Shape, Tidy, Sole, Over
  <2>6. Keeps(c)
    BY <1>1, <1>3, <2>1, <2>2, <2>3, <2>4 DEF Known, Keeps, Served, Expecting,
       Shape
  <2>7. Stays(c)
    BY <1>1, <1>3, <2>3, <2>4 DEF Known, Stays, Holding
  <2> QED
    BY <1>1, <1>2, <2>3, <2>4, <2>5, <2>6, <2>7, Becomes DEF Known
<1> QED
  BY <1>1, <1>5, <1>6 DEF Known, Forward, HasNext

LEMMA PopFailedKeeps ==
  ASSUME Inv, NEW c \in Conn, PopFailed(c)
  PROVE  Inv'
<1> DEFINE x == conn[c]
<1>1. Known(c, x)
  BY Fields
<1>2. UNCHANGED <<published, sent, task, chats>>
  BY DEF PopFailed, channel, dispatching
<1>3. /\ x.pubsub = "popping"
      /\ registered' = [registered EXCEPT ![Key(c)] = None] /\ presence' = presence
  BY <1>1 DEF Known, PopFailed
<1>4. x \in Connection
  BY <1>1 DEF Known
<1> HIDE DEF x
<1>5. CASE /\ conn' = [conn EXCEPT ![c] = [x EXCEPT !.pubsub = "listen"]]
  <2> DEFINE y == [x EXCEPT !.pubsub = "listen"]
  <2>1. /\ y \in Connection
        /\ y.on = x.on /\ y.pc = x.pc /\ y.ws = x.ws /\ y.client = x.client
        /\ y.pubsub = "listen" /\ y.heartbeat = x.heartbeat
        /\ y.pending = x.pending /\ y.cursor = x.cursor
    BY <1>4, BoundsAssumption DEF Connection, Part
  <2>2. conn' = [conn EXCEPT ![c] = y] /\ conn'[c] = y
    BY <1>1, <1>5 DEF Known
  <2> HIDE DEF y
  <2>3. /\ Shape(y) /\ (~RedisMayFail => Tidy(y))
        /\ x.pc # "new" /\ y.pc # "new" /\ (x.pc = "ended" => y.pc = "ended")
        /\ Single => (y.pubsub = "popping" => y.ws # "open")
    BY <1>1, <1>3, <2>1 DEF Known, Shape, Tidy, Sole, Over
  <2>4. Pops(c)
    BY <1>1, <1>3, <2>1, <2>2 DEF Known, Pops, Served, Expecting, Shape, Over,
       Sole
  <2>5. Stays(c)
    BY <1>1, <1>3, <2>1, <2>2 DEF Known, Stays, Holding
  <2> QED
    BY <1>1, <1>2, <2>1, <2>2, <2>3, <2>4, <2>5, Becomes DEF Known
<1> QED
  BY <1>1, <1>5 DEF Known, PopFailed

LEMMA StopListeningKeeps ==
  ASSUME Inv, NEW c \in Conn, StopListening(c)
  PROVE  Inv'
<1> DEFINE x == conn[c]
<1>1. Known(c, x)
  BY Fields
<1>2. UNCHANGED <<published, sent, task, chats>>
  BY DEF StopListening, channel, dispatching
<1>3. /\ x.pubsub = "listen"
      /\ registered' = registered /\ presence' = presence
  BY <1>1 DEF Known, StopListening, HasNext
<1>4. x \in Connection
  BY <1>1 DEF Known
<1> HIDE DEF x
<1>5. CASE /\ conn' = [conn EXCEPT ![c] = [x EXCEPT !.pubsub = "unsubscribe"]]
  <2> DEFINE y == [x EXCEPT !.pubsub = "unsubscribe"]
  <2>1. /\ y \in Connection
        /\ y.on = x.on /\ y.pc = x.pc /\ y.ws = x.ws /\ y.client = x.client
        /\ y.pubsub = "unsubscribe" /\ y.heartbeat = x.heartbeat
        /\ y.pending = x.pending /\ y.cursor = x.cursor
    BY <1>4, BoundsAssumption DEF Connection, Part
  <2>2. conn' = [conn EXCEPT ![c] = y] /\ conn'[c] = y
    BY <1>1, <1>5 DEF Known
  <2> HIDE DEF y
  <2>3. /\ Shape(y) /\ (~RedisMayFail => Tidy(y))
        /\ x.pc # "new" /\ y.pc # "new" /\ (x.pc = "ended" => y.pc = "ended")
        /\ Single => (y.pubsub = "popping" => y.ws # "open")
    BY <1>1, <1>3, <2>1 DEF Known, Shape, Tidy, Sole, Over
  <2>4. Keeps(c)
    BY <1>1, <1>3, <2>1, <2>2 DEF Known, Keeps, Served, Expecting, Shape
  <2>5. Stays(c)
    BY <1>1, <1>3, <2>1, <2>2 DEF Known, Stays, Holding
  <2> QED
    BY <1>1, <1>2, <2>1, <2>2, <2>3, <2>4, <2>5, Becomes DEF Known
<1> QED
  BY <1>1, <1>5 DEF Known, StopListening

LEMMA UnsubscribeKeeps ==
  ASSUME Inv, NEW c \in Conn, Unsubscribe(c)
  PROVE  Inv'
<1> DEFINE x == conn[c]
<1>1. Known(c, x)
  BY Fields
<1>2. UNCHANGED <<published, sent, task, chats>>
  BY DEF Unsubscribe, channel, dispatching
<1>3. /\ x.pubsub \in {"unsubscribe", "cancelled"}
      /\ registered' = registered /\ presence' = presence
  BY <1>1 DEF Known, Unsubscribe
<1>4. x \in Connection
  BY <1>1 DEF Known
<1> HIDE DEF x
<1>5. CASE /\ conn' = [conn EXCEPT ![c] =
                    [x EXCEPT !.pubsub = "done", !.pending = x.pending \ {"pubsub"}]]
            /\ x.pubsub = "cancelled"
  <2> DEFINE y ==
                [x EXCEPT !.pubsub = "done", !.pending = x.pending \ {"pubsub"}]
  <2>1. x.pubsub = "cancelled"
    BY <1>5
  <2>2. /\ y \in Connection
        /\ y.on = x.on /\ y.pc = x.pc /\ y.ws = x.ws /\ y.client = x.client
        /\ y.pubsub = "done" /\ y.heartbeat = x.heartbeat
        /\ y.pending = x.pending \ {"pubsub"} /\ y.cursor = x.cursor
    BY <1>4, <2>1, BoundsAssumption DEF Connection, Part
  <2>3. conn' = [conn EXCEPT ![c] = y] /\ conn'[c] = y
    BY <1>1, <1>5 DEF Known
  <2> HIDE DEF y
  <2>4. /\ Shape(y) /\ (~RedisMayFail => Tidy(y))
        /\ x.pc # "new" /\ y.pc # "new" /\ (x.pc = "ended" => y.pc = "ended")
        /\ Single => (y.pubsub = "popping" => y.ws # "open")
    BY <1>1, <1>3, <2>1, <2>2 DEF Known, Shape, Tidy, Sole, Over
  <2>5. Keeps(c)
    BY <1>1, <1>3, <2>1, <2>2, <2>3 DEF Known, Keeps, Served, Expecting, Shape
  <2>6. Stays(c)
    BY <1>1, <1>3, <2>2, <2>3 DEF Known, Stays, Holding
  <2> QED
    BY <1>1, <1>2, <2>2, <2>3, <2>4, <2>5, <2>6, Becomes DEF Known
<1>6. CASE /\ conn' = [conn EXCEPT ![c] = [x EXCEPT !.pubsub = "done"]]
            /\ x.pubsub = "unsubscribe"
  <2> DEFINE y == [x EXCEPT !.pubsub = "done"]
  <2>1. x.pubsub = "unsubscribe"
    BY <1>6
  <2>2. /\ y \in Connection
        /\ y.on = x.on /\ y.pc = x.pc /\ y.ws = x.ws /\ y.client = x.client
        /\ y.pubsub = "done" /\ y.heartbeat = x.heartbeat
        /\ y.pending = x.pending /\ y.cursor = x.cursor
    BY <1>4, <2>1, BoundsAssumption DEF Connection, Part
  <2>3. conn' = [conn EXCEPT ![c] = y] /\ conn'[c] = y
    BY <1>1, <1>6 DEF Known
  <2> HIDE DEF y
  <2>4. /\ Shape(y) /\ (~RedisMayFail => Tidy(y))
        /\ x.pc # "new" /\ y.pc # "new" /\ (x.pc = "ended" => y.pc = "ended")
        /\ Single => (y.pubsub = "popping" => y.ws # "open")
    BY <1>1, <1>3, <2>1, <2>2 DEF Known, Shape, Tidy, Sole, Over
  <2>5. Keeps(c)
    BY <1>1, <1>3, <2>1, <2>2, <2>3 DEF Known, Keeps, Served, Expecting, Shape
  <2>6. Stays(c)
    BY <1>1, <1>3, <2>2, <2>3 DEF Known, Stays, Holding
  <2> QED
    BY <1>1, <1>2, <2>2, <2>3, <2>4, <2>5, <2>6, Becomes DEF Known
<1>7. CASE /\ conn' = [conn EXCEPT ![c] =
                    [x EXCEPT !.pubsub = "raised", !.pending = {"pubsub"}]]
            /\ RedisMayFail /\ x.pubsub = "cancelled"
  <2> DEFINE y == [x EXCEPT !.pubsub = "raised", !.pending = {"pubsub"}]
  <2>1. RedisMayFail /\ x.pubsub = "cancelled"
    BY <1>7
  <2>2. /\ y \in Connection
        /\ y.on = x.on /\ y.pc = x.pc /\ y.ws = x.ws /\ y.client = x.client
        /\ y.pubsub = "raised" /\ y.heartbeat = x.heartbeat
        /\ y.pending = {"pubsub"} /\ y.cursor = x.cursor
    BY <1>4, <2>1, BoundsAssumption DEF Connection, Part
  <2>3. conn' = [conn EXCEPT ![c] = y] /\ conn'[c] = y
    BY <1>1, <1>7 DEF Known
  <2> HIDE DEF y
  <2>4. /\ Shape(y) /\ (~RedisMayFail => Tidy(y))
        /\ x.pc # "new" /\ y.pc # "new" /\ (x.pc = "ended" => y.pc = "ended")
        /\ Single => (y.pubsub = "popping" => y.ws # "open")
    BY <1>1, <1>3, <2>1, <2>2 DEF Known, Shape, Tidy, Sole, Over
  <2>5. Keeps(c)
    BY <1>1, <1>3, <2>1, <2>2, <2>3 DEF Known, Keeps, Served, Expecting, Shape
  <2>6. Stays(c)
    BY <1>1, <1>3, <2>2, <2>3 DEF Known, Stays, Holding
  <2> QED
    BY <1>1, <1>2, <2>2, <2>3, <2>4, <2>5, <2>6, Becomes DEF Known
<1>8. CASE /\ conn' = [conn EXCEPT ![c] = [x EXCEPT !.pubsub = "raised"]]
            /\ RedisMayFail /\ x.pubsub = "unsubscribe"
  <2> DEFINE y == [x EXCEPT !.pubsub = "raised"]
  <2>1. RedisMayFail /\ x.pubsub = "unsubscribe"
    BY <1>8
  <2>2. /\ y \in Connection
        /\ y.on = x.on /\ y.pc = x.pc /\ y.ws = x.ws /\ y.client = x.client
        /\ y.pubsub = "raised" /\ y.heartbeat = x.heartbeat
        /\ y.pending = x.pending /\ y.cursor = x.cursor
    BY <1>4, <2>1, BoundsAssumption DEF Connection, Part
  <2>3. conn' = [conn EXCEPT ![c] = y] /\ conn'[c] = y
    BY <1>1, <1>8 DEF Known
  <2> HIDE DEF y
  <2>4. /\ Shape(y) /\ (~RedisMayFail => Tidy(y))
        /\ x.pc # "new" /\ y.pc # "new" /\ (x.pc = "ended" => y.pc = "ended")
        /\ Single => (y.pubsub = "popping" => y.ws # "open")
    BY <1>1, <1>3, <2>1, <2>2 DEF Known, Shape, Tidy, Sole, Over
  <2>5. Keeps(c)
    BY <1>1, <1>3, <2>1, <2>2, <2>3 DEF Known, Keeps, Served, Expecting, Shape
  <2>6. Stays(c)
    BY <1>1, <1>3, <2>2, <2>3 DEF Known, Stays, Holding
  <2> QED
    BY <1>1, <1>2, <2>2, <2>3, <2>4, <2>5, <2>6, Becomes DEF Known
<1> QED
  BY <1>1, <1>5, <1>6, <1>7, <1>8 DEF Known, Unsubscribe

LEMMA HeartbeatEndsKeeps ==
  ASSUME Inv, NEW c \in Conn, HeartbeatEnds(c)
  PROVE  Inv'
<1> DEFINE x == conn[c]
<1>1. Known(c, x)
  BY Fields
<1>2. UNCHANGED <<published, sent, task, chats>>
  BY DEF HeartbeatEnds, channel, dispatching
<1>3. /\ x.heartbeat = "run"
      /\ registered' = registered /\ presence' = presence
  BY <1>1 DEF Known, HeartbeatEnds
<1>4. x \in Connection
  BY <1>1 DEF Known
<1> HIDE DEF x
<1>5. CASE /\ conn' = [conn EXCEPT ![c] =
                    [x EXCEPT !.heartbeat = "done", !.ws = Closed(x)]]
  <2> DEFINE y == [x EXCEPT !.heartbeat = "done", !.ws = Closed(x)]
  <2>1. Closed(x) \in {"gone", "closed"}
    BY DEF Closed
  <2>2. /\ y \in Connection
        /\ y.on = x.on /\ y.pc = x.pc /\ y.ws = Closed(x) /\ y.client = x.client
        /\ y.pubsub = x.pubsub /\ y.heartbeat = "done"
        /\ y.pending = x.pending /\ y.cursor = x.cursor
    BY <1>4, <2>1, BoundsAssumption DEF Connection, Part
  <2>3. conn' = [conn EXCEPT ![c] = y] /\ conn'[c] = y
    BY <1>1, <1>5 DEF Known
  <2> HIDE DEF y
  <2>4. /\ Shape(y) /\ (~RedisMayFail => Tidy(y))
        /\ x.pc # "new" /\ y.pc # "new" /\ (x.pc = "ended" => y.pc = "ended")
        /\ Single => (y.pubsub = "popping" => y.ws # "open")
    BY <1>1, <1>3, <2>1, <2>2 DEF Known, Shape, Tidy, Sole, Over
  <2>5. Keeps(c)
    BY <1>1, <1>3, <2>1, <2>2, <2>3 DEF Known, Keeps, Served, Expecting, Shape
  <2>6. Stays(c)
    BY <1>1, <1>3, <2>2, <2>3 DEF Known, Stays, Holding
  <2> QED
    BY <1>1, <1>2, <2>2, <2>3, <2>4, <2>5, <2>6, Becomes DEF Known
<1>6. CASE /\ conn' = [conn EXCEPT ![c] =
                    [x EXCEPT !.heartbeat = "done", !.ws = x.ws]]
            /\ x.ws # "open"
  <2> DEFINE y == [x EXCEPT !.heartbeat = "done", !.ws = x.ws]
  <2>1. x.ws # "open"
    BY <1>6
  <2>2. /\ y \in Connection
        /\ y.on = x.on /\ y.pc = x.pc /\ y.ws = x.ws /\ y.client = x.client
        /\ y.pubsub = x.pubsub /\ y.heartbeat = "done"
        /\ y.pending = x.pending /\ y.cursor = x.cursor
    BY <1>4, <2>1, BoundsAssumption DEF Connection, Part
  <2>3. conn' = [conn EXCEPT ![c] = y] /\ conn'[c] = y
    BY <1>1, <1>6 DEF Known
  <2> HIDE DEF y
  <2>4. /\ Shape(y) /\ (~RedisMayFail => Tidy(y))
        /\ x.pc # "new" /\ y.pc # "new" /\ (x.pc = "ended" => y.pc = "ended")
        /\ Single => (y.pubsub = "popping" => y.ws # "open")
    BY <1>1, <1>3, <2>1, <2>2 DEF Known, Shape, Tidy, Sole, Over
  <2>5. Keeps(c)
    BY <1>1, <1>3, <2>1, <2>2, <2>3 DEF Known, Keeps, Served, Expecting, Shape
  <2>6. Stays(c)
    BY <1>1, <1>3, <2>2, <2>3 DEF Known, Stays, Holding
  <2> QED
    BY <1>1, <1>2, <2>2, <2>3, <2>4, <2>5, <2>6, Becomes DEF Known
<1>7. PICK ws \in {Closed(x)} \cup ({x.ws} \ {"open"}) :
            conn' = [conn EXCEPT ![c].heartbeat = "done", ![c].ws = ws]
  BY <1>1 DEF Known, HeartbeatEnds
<1>8. conn' = [conn EXCEPT ![c] = [x EXCEPT !.heartbeat = "done", !.ws = ws]]
  BY <1>1, <1>7 DEF Known
<1>9. CASE ws = Closed(x)
  BY <1>5, <1>8, <1>9
<1>10. CASE ws = x.ws /\ x.ws # "open"
  BY <1>1, <1>6, <1>8, <1>10 DEF Known
<1> QED
  BY <1>7, <1>9, <1>10

LEMMA ReadDisconnectKeeps ==
  ASSUME Inv, NEW c \in Conn, ReadDisconnect(c)
  PROVE  Inv'
<1> DEFINE x == conn[c]
<1>1. Known(c, x)
  BY Fields
<1>2. UNCHANGED <<published, sent, task, chats>>
  BY DEF ReadDisconnect, channel, dispatching
<1>3. /\ x.client = "run"
      /\ registered' = registered /\ presence' = presence
  BY <1>1 DEF Known, ReadDisconnect
<1>4. x \in Connection
  BY <1>1 DEF Known
<1> HIDE DEF x
<1>5. CASE /\ conn' = [conn EXCEPT ![c] =
                    [x EXCEPT !.client = "done", !.ws = "gone"]]
  <2> DEFINE y == [x EXCEPT !.client = "done", !.ws = "gone"]
  <2>1. /\ y \in Connection
        /\ y.on = x.on /\ y.pc = x.pc /\ y.ws = "gone" /\ y.client = "done"
        /\ y.pubsub = x.pubsub /\ y.heartbeat = x.heartbeat
        /\ y.pending = x.pending /\ y.cursor = x.cursor
    BY <1>4, BoundsAssumption DEF Connection, Part
  <2>2. conn' = [conn EXCEPT ![c] = y] /\ conn'[c] = y
    BY <1>1, <1>5 DEF Known
  <2> HIDE DEF y
  <2>3. /\ Shape(y) /\ (~RedisMayFail => Tidy(y))
        /\ x.pc # "new" /\ y.pc # "new" /\ (x.pc = "ended" => y.pc = "ended")
        /\ Single => (y.pubsub = "popping" => y.ws # "open")
    BY <1>1, <1>3, <2>1 DEF Known, Shape, Tidy, Sole, Over
  <2>4. Keeps(c)
    BY <1>1, <1>3, <2>1, <2>2 DEF Known, Keeps, Served, Expecting, Shape
  <2>5. Stays(c)
    BY <1>1, <1>3, <2>1, <2>2 DEF Known, Stays, Holding
  <2> QED
    BY <1>1, <1>2, <2>1, <2>2, <2>3, <2>4, <2>5, Becomes DEF Known
<1> QED
  BY <1>1, <1>5 DEF Known, ReadDisconnect

LEMMA ReadMalformedKeeps ==
  ASSUME Inv, NEW c \in Conn, ReadMalformed(c)
  PROVE  Inv'
<1> DEFINE x == conn[c]
<1>1. Known(c, x)
  BY Fields
<1>2. UNCHANGED <<published, sent, task, chats>>
  BY DEF ReadMalformed, channel, dispatching
<1>3. /\ x.client = "run"
      /\ registered' = registered /\ presence' = presence
  BY <1>1 DEF Known, ReadMalformed
<1>4. x \in Connection
  BY <1>1 DEF Known
<1> HIDE DEF x
<1>5. CASE /\ conn' = [conn EXCEPT ![c] = [x EXCEPT !.client = "done"]]
  <2> DEFINE y == [x EXCEPT !.client = "done"]
  <2>1. /\ y \in Connection
        /\ y.on = x.on /\ y.pc = x.pc /\ y.ws = x.ws /\ y.client = "done"
        /\ y.pubsub = x.pubsub /\ y.heartbeat = x.heartbeat
        /\ y.pending = x.pending /\ y.cursor = x.cursor
    BY <1>4, BoundsAssumption DEF Connection, Part
  <2>2. conn' = [conn EXCEPT ![c] = y] /\ conn'[c] = y
    BY <1>1, <1>5 DEF Known
  <2> HIDE DEF y
  <2>3. /\ Shape(y) /\ (~RedisMayFail => Tidy(y))
        /\ x.pc # "new" /\ y.pc # "new" /\ (x.pc = "ended" => y.pc = "ended")
        /\ Single => (y.pubsub = "popping" => y.ws # "open")
    BY <1>1, <1>3, <2>1 DEF Known, Shape, Tidy, Sole, Over
  <2>4. Keeps(c)
    BY <1>1, <1>3, <2>1, <2>2 DEF Known, Keeps, Served, Expecting, Shape
  <2>5. Stays(c)
    BY <1>1, <1>3, <2>1, <2>2 DEF Known, Stays, Holding
  <2> QED
    BY <1>1, <1>2, <2>1, <2>2, <2>3, <2>4, <2>5, Becomes DEF Known
<1> QED
  BY <1>1, <1>5 DEF Known, ReadMalformed

LEMMA ClientLeavesKeeps ==
  ASSUME Inv, NEW c \in Conn, ClientLeaves(c)
  PROVE  Inv'
<1> DEFINE x == conn[c]
<1>1. Known(c, x)
  BY Fields
<1>2. UNCHANGED <<published, sent, task, chats>>
  BY DEF ClientLeaves, channel, dispatching
<1>3. /\ x.ws = "open"
      /\ registered' = registered /\ presence' = presence
  BY <1>1 DEF Known, ClientLeaves
<1>4. x \in Connection
  BY <1>1 DEF Known
<1> HIDE DEF x
<1>5. CASE /\ conn' = [conn EXCEPT ![c] = [x EXCEPT !.ws = "left"]]
  <2> DEFINE y == [x EXCEPT !.ws = "left"]
  <2>1. /\ y \in Connection
        /\ y.on = x.on /\ y.pc = x.pc /\ y.ws = "left" /\ y.client = x.client
        /\ y.pubsub = x.pubsub /\ y.heartbeat = x.heartbeat
        /\ y.pending = x.pending /\ y.cursor = x.cursor
    BY <1>4, BoundsAssumption DEF Connection, Part
  <2>2. conn' = [conn EXCEPT ![c] = y] /\ conn'[c] = y
    BY <1>1, <1>5 DEF Known
  <2> HIDE DEF y
  <2>3. /\ Shape(y) /\ (~RedisMayFail => Tidy(y))
        /\ x.pc # "new" /\ y.pc # "new" /\ (x.pc = "ended" => y.pc = "ended")
        /\ Single => (y.pubsub = "popping" => y.ws # "open")
    BY <1>1, <1>3, <2>1 DEF Known, Shape, Tidy, Sole, Over
  <2>4. Keeps(c)
    BY <1>1, <1>3, <2>1, <2>2 DEF Known, Keeps, Served, Expecting, Shape
  <2>5. Stays(c)
    BY <1>1, <1>3, <2>1, <2>2 DEF Known, Stays, Holding
  <2> QED
    BY <1>1, <1>2, <2>1, <2>2, <2>3, <2>4, <2>5, Becomes DEF Known
<1> QED
  BY <1>1, <1>5 DEF Known, ClientLeaves

(* A step of a dispatch or of time leaves every connection as it is.       *)
LEMMA ConnsStay ==
  ASSUME Inv, UNCHANGED <<conn, registered, sent>>,
         presence' \in [User -> 0..PresenceTicks],
         \A u \in User : presence'[u] > 0 => presence[u] > 0,
         published' \in [User -> Nat], task' \in [Message -> Task], chats' \subseteq Message,
         \A m \in Message : task'[m].pc # "idle" => task'[m].conn \in Conn
  PROVE  Inv'
<1>1. TypeOK'
  BY DEF Inv, TypeOK
<1>2. \A c \in Conn : Shape(conn'[c]) /\ (~RedisMayFail => Tidy(conn'[c]))
  BY DEF Inv
<1>3. \A w \in Worker, u \in User, c \in Conn : RegisteredAt(w, u, c)'
  BY DEF Inv, RegisteredAt
<1>4. ~RedisMayFail /\ ~MayCrash => PresenceIsHeld'
  BY DEF Inv, PresenceIsHeld
<1>5. Single' => \A c \in Conn : Sole(c)'
  BY DEF Inv, Single, Apart, Sole, Over, Key
<1> QED
  BY <1>1, <1>2, <1>3, <1>4, <1>5 DEF Inv

LEMMA TaskTypes ==
  ASSUME Inv, NEW m \in Message
  PROVE  /\ task \in [Message -> Task] /\ task[m].conn \in Conn \cup {None}
         /\ task[m].answer \in Nat
         /\ presence \in [User -> 0..PresenceTicks] /\ published \in [User -> Nat]
         /\ chats \subseteq Message
         /\ \A n \in Message : task[n].pc # "idle" => task[n].conn \in Conn
  BY DEF Inv, TypeOK, Task

LEMMA ReadMessageKeeps ==
  ASSUME Inv, NEW c \in Conn, NEW m \in Message, NEW fresh \in BOOLEAN,
         ReadMessage(c, m, fresh)
  PROVE  Inv'
<1>1. /\ task \in [Message -> Task] /\ task[m].conn \in Conn \cup {None}
      /\ task[m].answer \in Nat
      /\ \A n \in Message : task[n].pc # "idle" => task[n].conn \in Conn
      /\ presence \in [User -> 0..PresenceTicks] /\ published \in [User -> Nat]
      /\ chats \subseteq Message
  BY TaskTypes
<1>2. task' = [task EXCEPT ![m].conn = c, ![m].pc = IF fresh THEN "resolve" ELSE "answer"]
  BY DEF ReadMessage
<1>3. /\ task' \in [Message -> Task]
      /\ \A n \in Message : task'[n].pc # "idle" => task'[n].conn \in Conn
  BY <1>1, <1>2 DEF Task
<1> QED
  BY <1>1, <1>3, ConnsStay DEF ReadMessage, channel

(* A dispatch that was begun moves on.                                     *)
LEMMA TaskMoves ==
  ASSUME Inv, NEW m \in Message, task[m].pc # "idle",
         NEW pc \in {"create", "answer", "fallback", "done", "lost"}, NEW n \in Nat,
         \/ MoveTask(m, pc)
         \/ task' = [task EXCEPT ![m].pc = pc, ![m].answer = n]
  PROVE  /\ task' \in [Message -> Task]
         /\ \A k \in Message : task'[k].pc # "idle" => task'[k].conn \in Conn
<1>1. /\ task \in [Message -> Task] /\ task[m].conn \in Conn \cup {None}
      /\ task[m].answer \in Nat
      /\ \A k \in Message : task[k].pc # "idle" => task[k].conn \in Conn
  BY TaskTypes
<1> QED
  BY <1>1 DEF MoveTask, Task

LEMMA DispatchKeeps ==
  ASSUME Inv, NEW m \in Message, Dispatch(m)
  PROVE  Inv'
<1>1. /\ task \in [Message -> Task] /\ task[m].conn \in Conn \cup {None}
      /\ task[m].answer \in Nat
      /\ \A n \in Message : task[n].pc # "idle" => task[n].conn \in Conn
      /\ presence \in [User -> 0..PresenceTicks] /\ published \in [User -> Nat]
      /\ chats \subseteq Message
  BY TaskTypes
<1>2. CASE Resolve(m)
  <2>1. PICK pc \in {"create", "answer", "fallback"} : MoveTask(m, pc)
    BY <1>2 DEF Resolve, ClassifyMessage
  <2>2. task[m].pc # "idle" /\ UNCHANGED <<conn, registered, presence, channel, chats>>
    BY <1>2 DEF Resolve
  <2>3. /\ task' \in [Message -> Task]
        /\ \A n \in Message : task'[n].pc # "idle" => task'[n].conn \in Conn
    BY <2>1, <2>2, TaskMoves
  <2> QED
    BY <1>1, <2>2, <2>3, ConnsStay DEF channel
<1>3. CASE CreateChat(m)
  <2>1. PICK pc \in {"answer", "fallback"} : MoveTask(m, pc)
    BY <1>3 DEF CreateChat
  <2>2. /\ task[m].pc # "idle" /\ UNCHANGED <<conn, registered, presence, channel>>
        /\ chats' \subseteq Message
    BY <1>1, <1>3 DEF CreateChat
  <2>3. /\ task' \in [Message -> Task]
        /\ \A n \in Message : task'[n].pc # "idle" => task'[n].conn \in Conn
    BY <2>1, <2>2, TaskMoves
  <2> QED
    BY <1>1, <2>2, <2>3, ConnsStay DEF channel
<1>4. CASE Publish(m)
  <2> DEFINE u == Owner[task[m].conn]
             pcs == {"done", "fallback", "lost"}
  <2>1. task[m].pc # "idle" /\ UNCHANGED <<conn, registered, presence, sent, chats>>
    BY <1>4 DEF Publish
  <2>2. u \in User /\ published[u] + 1 \in Nat
    BY <1>1, <2>1, OwnerAssumption
  <2>3. /\ published' = published \/ published' = [published EXCEPT ![u] = @ + 1]
        /\ \E pc \in pcs :
             \/ MoveTask(m, pc)
             \/ task' = [task EXCEPT ![m].pc = pc, ![m].answer = published[u] + 1]
    BY <1>4 DEF Publish
  <2>4. published' \in [User -> Nat]
    BY <1>1, <2>2, <2>3
  <2>5. /\ task' \in [Message -> Task]
        /\ \A n \in Message : task'[n].pc # "idle" => task'[n].conn \in Conn
    BY <2>1, <2>2, <2>3, TaskMoves
  <2> QED
    BY <1>1, <2>1, <2>4, <2>5, ConnsStay
<1> QED
  BY <1>2, <1>3, <1>4 DEF Dispatch

LEMMA TickKeeps ==
  ASSUME Inv, Tick
  PROVE  Inv'
<1>1. /\ presence \in [User -> 0..PresenceTicks] /\ published \in [User -> Nat]
      /\ task \in [Message -> Task] /\ chats \subseteq Message
      /\ \A n \in Message : task[n].pc # "idle" => task[n].conn \in Conn
  BY DEF Inv, TypeOK
<1>2. /\ presence' \in [User -> 0..PresenceTicks]
      /\ \A u \in User : presence'[u] > 0 => presence[u] > 0
  BY <1>1, BoundsAssumption DEF Tick
<1> QED
  BY <1>1, <1>2, ConnsStay DEF Tick, channel, dispatching

-----------------------------------------------------------------------------
LEMMA AcceptKeeps ==
  ASSUME Inv, NEW c \in Conn, NEW w \in Worker, Accept(c, w)
  PROVE  Inv'
<1> DEFINE y == [conn[c] EXCEPT !.on = w, !.pc = "presence", !.ws = "open"]
<1>1. /\ conn[c] = NewConnection /\ conn[c] \in Connection
      /\ conn \in [Conn -> Connection] /\ Owner[c] \in User
      /\ registered \in [Worker \X User -> Conn \cup {None}]
  BY OwnerAssumption DEF Inv, TypeOK, Accept, Shape
<1>2. conn' = [conn EXCEPT ![c] = y]
  BY <1>1 DEF Accept
<1>3. /\ y \in Connection /\ y.on = w /\ y.pc = "presence" /\ y.ws = "open"
      /\ y.client = "off" /\ y.pubsub = "off" /\ y.heartbeat = "off"
  <2>1. conn[c].client = "off" /\ conn[c].pubsub = "off" /\ conn[c].heartbeat = "off"
    BY <1>1 DEF NewConnection
  <2> QED
    BY <1>1, <2>1 DEF Connection
<1> HIDE DEF y
<1>4. /\ conn'[c] = y /\ conn[c].on = None /\ conn[c].pc = "new"
      /\ conn' \in [Conn -> Connection]
      /\ \A d \in Conn : d # c => conn'[d] = conn[d]
  BY <1>1, <1>2, <1>3 DEF NewConnection
<1>5. /\ Entry(w, Owner[c]) \in Worker \X User
      /\ registered' = [registered EXCEPT ![Entry(w, Owner[c])] = c]
      /\ registered' \in [Worker \X User -> Conn \cup {None}]
  BY <1>1 DEF Accept, Entry
<1>6. UNCHANGED <<presence, published, sent, task, chats>>
  BY DEF Accept, channel, dispatching
<1>7. TypeOK'
  BY <1>4, <1>5, <1>6 DEF Inv, TypeOK
<1>8. \A d \in Conn : Shape(conn'[d]) /\ (~RedisMayFail => Tidy(conn'[d]))
  BY <1>3, <1>4 DEF Inv, Shape, Tidy
<1>9. ASSUME NEW v \in Worker, NEW u \in User, NEW d \in Conn
      PROVE  RegisteredAt(v, u, d)'
  <2>1. CASE v = w /\ u = Owner[c]
    <3>1. registered'[Entry(v, u)] = c
      BY <1>1, <1>5, <2>1
    <3> QED
      BY <1>3, <1>4, <2>1, <3>1 DEF RegisteredAt, Served
  <2>2. CASE ~(v = w /\ u = Owner[c])
    <3>1. registered'[Entry(v, u)] = registered[Entry(v, u)]
      BY <1>1, <1>5, <2>2 DEF Entry
    <3>2. RegisteredAt(v, u, d)
      BY DEF Inv
    <3> QED
      BY <1>4, <3>1, <3>2 DEF RegisteredAt
  <2> QED
    BY <2>1, <2>2
<1>10. ~RedisMayFail /\ ~MayCrash => PresenceIsHeld'
  BY <1>4, <1>6 DEF Inv, PresenceIsHeld
<1>11. ASSUME Single', NEW d \in Conn, ~Over(d)'
       PROVE  Sole(d)'
  <2>1. /\ Single
        /\ Sole(d)
    BY <1>4, <1>11, ApartBefore DEF Inv
  <2>2. \A e \in Conn : e # c /\ Owner[e] = Owner[c] /\ conn[e].on = w => Over(e)
    <3>1. CASE ~MayOverlap
      BY <3>1 DEF Accept, Key, Entry
    <3>2. CASE Apart'
      BY <1>3, <1>4, <3>2, NoneAssumption DEF Apart
    <3> QED
      BY <1>11, <3>1, <3>2 DEF Single
  <2>3. \A e \in Conn : e # c => Over(e)' = Over(e)
    BY <1>4 DEF Over
  <2>4. CASE d = c
    <3>1. Key(d)' = Entry(w, Owner[c])
      BY <1>3, <1>4, <2>4 DEF Key
    <3>2. registered'[Key(d)'] = c
      BY <1>1, <1>5, <3>1
    <3> QED
      BY <1>3, <1>4, <2>2, <2>3, <2>4, <3>2 DEF Sole
  <2>5. CASE d # c
    <3>1. ~Over(d) /\ conn'[d] = conn[d]
      BY <1>4, <1>11, <2>3, <2>5
    <3>2. ~(Owner[d] = Owner[c] /\ conn[d].on = w)
      BY <2>2, <2>5, <3>1
    <3>3. Key(d)' = Key(d) /\ registered'[Key(d)] = registered[Key(d)]
      <4>1. Key(d) \in Worker \X User /\ Key(d) # Entry(w, Owner[c])
        BY <3>1, <3>2, OwnerAssumption DEF Key, Entry, Inv, Shape, Over
      <4> QED
        BY <1>1, <1>5, <3>1, <4>1 DEF Key, Entry
    <3>4. \A e \in Conn : e # d /\ Owner[e] = Owner[d] /\ conn'[e].on = conn'[d].on => Over(e)'
      BY <1>3, <1>4, <2>1, <2>3, <3>1, <3>2 DEF Sole
    <3> QED
      BY <2>1, <3>1, <3>3, <3>4 DEF Sole
  <2> QED
    BY <2>4, <2>5
<1>12. Single' => \A d \in Conn : Sole(d)'
  BY <1>11 DEF Sole
<1>13. \A m \in Message : task'[m].pc # "idle" => task'[m].conn \in Conn
  BY <1>6 DEF Inv
<1> QED
  BY <1>7, <1>8, <1>9, <1>10, <1>12, <1>13 DEF Inv

LEMMA CrashKeeps ==
  ASSUME Inv, NEW w \in Worker, Crash(w)
  PROVE  Inv'
<1>1. /\ conn \in [Conn -> Connection] /\ task \in [Message -> Task]
      /\ registered \in [Worker \X User -> Conn \cup {None}]
  BY DEF Inv, TypeOK
<1>2. UNCHANGED <<presence, published, sent, chats>> /\ MayCrash
  BY DEF Crash, channel
<1>3. ASSUME NEW c \in Conn
      PROVE  /\ conn[c].on # w => conn'[c] = conn[c]
             /\ conn[c].on = w =>
                  /\ conn'[c].on = w /\ conn'[c].pc = "ended" /\ conn'[c].pubsub = "done"
                  /\ conn'[c].client = "done" /\ conn'[c].heartbeat = "done"
             /\ conn'[c] \in Connection
  <2>1. conn[c] \in Connection /\ Closed(conn[c]) \in {"gone", "closed"}
    BY <1>1 DEF Closed
  <2>2. conn'[c] = IF conn[c].on = w
                   THEN [End(conn[c]) EXCEPT !.client = "done", !.pubsub = "done",
                                             !.heartbeat = "done", !.pending = {}]
                   ELSE conn[c]
    BY DEF Crash
  <2> QED
    BY <2>1, <2>2, ZenonT(60) DEF End, Connection
<1>4. conn' \in [Conn -> Connection]
  <2>1. conn' = [c \in Conn |-> conn'[c]]
    BY DEF Crash
  <2> QED
    BY <1>3, <2>1
<1>5. /\ registered' \in [Worker \X User -> Conn \cup {None}]
      /\ \A k \in Worker \X User :
           registered'[k] = IF k[1] = w THEN None ELSE registered[k]
  BY <1>1 DEF Crash
<1>6. /\ task' \in [Message -> Task]
      /\ \A m \in Message : task'[m].pc # "idle" => task'[m].conn \in Conn
  <2>1. ASSUME NEW m \in Message
        PROVE  task'[m] \in Task /\ (task'[m].pc # "idle" => task'[m].conn \in Conn)
    <3>1. task[m] \in Task /\ (task[m].pc # "idle" => task[m].conn \in Conn)
      BY <1>1 DEF Inv
    <3>2. \/ task'[m] = task[m]
          \/ task'[m] = [task[m] EXCEPT !.pc = "lost"] /\ task[m].conn # None
      BY DEF Crash
    <3> QED
      BY <3>1, <3>2 DEF Task
  <2>2. task' = [m \in Message |-> task'[m]]
    BY DEF Crash
  <2> QED
    BY <2>1, <2>2
<1>7. TypeOK'
  BY <1>2, <1>4, <1>5, <1>6 DEF Inv, TypeOK
<1>8. \A c \in Conn : conn[c].pc = "new" => conn[c].on # w
  BY NoneAssumption DEF Inv, Shape, NewConnection
<1>9. \A c \in Conn : Shape(conn'[c]) /\ (~RedisMayFail => Tidy(conn'[c]))
  BY <1>3 DEF Inv, Shape, Tidy
<1>10. ASSUME NEW v \in Worker, NEW u \in User, NEW c \in Conn
       PROVE  RegisteredAt(v, u, c)'
  <2>1. RegisteredAt(v, u, c)
    BY DEF Inv
  <2>2. registered'[Entry(v, u)] = c => v # w /\ registered[Entry(v, u)] = c
    BY <1>5, NoneAssumption DEF Entry
  <2> QED
    BY <1>3, <2>1, <2>2 DEF RegisteredAt
<1>11. ASSUME Single', NEW c \in Conn, ~Over(c)'
       PROVE  Sole(c)'
  <2>1. \A d \in Conn : conn'[d].on = conn[d].on
    BY <1>3
  <2>2. Single /\ Sole(c)
    BY <1>11, <2>1, ApartBefore DEF Inv
  <2>3. conn[c].on # w /\ conn'[c] = conn[c] /\ ~Over(c)
    BY <1>3, <1>11 DEF Over
  <2>4. \A d \in Conn : Over(d) => Over(d)'
    BY <1>3 DEF Over
  <2>5. Key(c)' = Key(c) /\ registered'[Key(c)] = registered[Key(c)]
    <3>1. Key(c) \in Worker \X User /\ Key(c)[1] # w
      BY <2>3, OwnerAssumption DEF Key, Entry, Inv, Shape, Over
    <3> QED
      BY <1>5, <2>3, <3>1 DEF Key, Entry
  <2> QED
    BY <2>1, <2>2, <2>3, <2>4, <2>5 DEF Sole
<1>12. Single' => \A c \in Conn : Sole(c)'
  BY <1>11 DEF Sole
<1> QED
  BY <1>2, <1>6, <1>7, <1>9, <1>10, <1>12 DEF Inv

-----------------------------------------------------------------------------
LEMMA NextInv == Inv /\ [Next]_vars => Inv'
<1> SUFFICES ASSUME Inv, [Next]_vars PROVE Inv'
  OBVIOUS
<1>1. ASSUME UNCHANGED vars PROVE Inv'
  <2>1. UNCHANGED <<conn, registered, presence, published, sent, task, chats>>
    BY <1>1 DEF vars
  <2> QED
    BY <2>1, ConnsStay DEF Inv, TypeOK
<1>2. ASSUME NEW c \in Conn, Handler(c) PROVE Inv'
  BY <1>2, SetPresenceKeeps, StopKeeps, CancelKeeps, FinallyKeeps,
     ClearPresenceKeeps
  DEF Handler
<1>3. ASSUME NEW c \in Conn, Listener(c) \/ StopListening(c) PROVE Inv'
  BY <1>3, SubscribeKeeps, ForwardKeeps, PopFailedKeeps, UnsubscribeKeeps,
     StopListeningKeeps
  DEF Listener
<1>4. ASSUME NEW c \in Conn,
             HeartbeatEnds(c) \/ ReadDisconnect(c) \/ ReadMalformed(c) \/ ClientLeaves(c)
      PROVE  Inv'
  BY <1>4, HeartbeatEndsKeeps, ReadDisconnectKeeps, ReadMalformedKeeps,
     ClientLeavesKeeps
<1> QED
  BY <1>1, <1>2, <1>3, <1>4, AcceptKeeps, CrashKeeps, ReadMessageKeeps,
     DispatchKeeps,
     TickKeeps DEF Next

(* The invariant the theorems rest on: at each place of its handler what a *)
(* connection's tasks are; who is registered; whose presence is set; and,  *)
(* as long as no worker had two connections of a user, that every one of   *)
(* them is the registered one while it listens.                            *)
THEOREM Invariant == Spec => []Inv
  BY InitInv, NextInv, PTL DEF Spec

(* The variables keep their types, whatever fails and whatever overlaps.   *)
THEOREM TypeCorrect == Spec => []TypeOK
<1>1. Inv => TypeOK
  BY DEF Inv
<1> QED
  BY <1>1, Invariant, PTL

(* When Redis answers, a manager never holds the websocket of a handler    *)
(* that has ended, however connections overlap and workers die.            *)
THEOREM RegisteredServed ==
  ASSUME ~RedisMayFail
  PROVE  Spec => []RegisteredIsServed
<1>1. Inv => RegisteredIsServed
  BY OwnerAssumption DEF Inv, RegisteredIsServed, RegisteredAt, Served
<1> QED
  BY <1>1, Invariant, PTL

(* When Redis answers and no worker dies, a present user has a handler     *)
(* that will clear the presence key.                                       *)
THEOREM PresenceHeld ==
  ASSUME ~RedisMayFail, ~MayCrash
  PROVE  Spec => []PresenceIsHeld
<1>1. Inv => PresenceIsHeld
  BY DEF Inv
<1> QED
  BY <1>1, Invariant, PTL

(* When Redis answers, no task of a handler is left behind by its finally  *)
(* block.                                                                  *)
THEOREM NoTaskOutlives ==
  ASSUME ~RedisMayFail
  PROVE  Spec => []NoTaskOutlivesHandler
<1>1. Inv => NoTaskOutlivesHandler
  <2> SUFFICES ASSUME Inv, NEW c \in Conn, conn[c].pc \in {"clearing", "ended"}
               PROVE  /\ conn[c].client \in {"off", "done", "raised"}
                      /\ conn[c].pubsub \in {"off", "done", "raised"}
                      /\ conn[c].heartbeat \in {"off", "done", "raised"}
    BY DEF NoTaskOutlivesHandler, Part
  <2> QED
    BY DEF Inv, Shape, Tidy
<1> QED
  BY <1>1, Invariant, PTL

-----------------------------------------------------------------------------
(* The steps of the handlers as steps of the contract.                     *)

LEMMA Mapped ==
  ASSUME Inv, NEW c \in Conn, NEW y, conn' = [conn EXCEPT ![c] = y]
  PROVE  /\ conn'[c] = y /\ conn \in [Conn -> Connection]
         /\ \A d \in Conn : d # c =>
              Client(d)' = Client(d) /\ ListenerOf(d)' = ListenerOf(d)
              /\ conn'[d].cursor = conn[d].cursor
<1>1. conn \in [Conn -> Connection]
  BY DEF Inv, TypeOK
<1> QED
  BY <1>1 DEF Client, ListenerOf

(* A client may go and a listener may end at any time.                     *)
LEMMA Recedes ==
  ASSUME Inv, NEW c \in Conn, NEW y, conn' = [conn EXCEPT ![c] = y],
         y.ws # conn[c].ws => y.ws \notin {"new", "open"},
         \/ y.pubsub = conn[c].pubsub
         \/ {y.pubsub, conn[c].pubsub} \subseteq {"off", "subscribe"}
         \/ {y.pubsub, conn[c].pubsub} \subseteq {"listen", "popping"}
         \/ y.pubsub \notin {"off", "subscribe", "listen", "popping"},
         y.cursor = conn[c].cursor, UNCHANGED channel
  PROVE  Contract!Next \/ UNCHANGED Contract!vars
<1>1. /\ \A d \in Conn : d # c => Client(d)' = Client(d) /\ ListenerOf(d)' = ListenerOf(d)
      /\ \A d \in Conn : conn'[d].cursor = conn[d].cursor
      /\ Client(c)' \in {Client(c), "away"}
      /\ ListenerOf(c)' \in {ListenerOf(c), "ended"}
  <2>1. conn'[c] = y
    BY Mapped
  <2>2. Client(c)' \in {Client(c), "away"}
    BY <2>1 DEF Client
  <2>3. ListenerOf(c)' \in {ListenerOf(c), "ended"}
    BY <2>1 DEF ListenerOf
  <2> QED
    BY <2>1, <2>2, <2>3, Mapped
<1>2. UNCHANGED <<published, sent>>
  BY DEF channel
<1>3. CASE Client(c)' = Client(c) /\ ListenerOf(c)' = ListenerOf(c)
  <2>1. UNCHANGED Contract!vars
    BY <1>1, <1>2, <1>3 DEF Contract!vars
  <2> QED
    BY <2>1
<1>4. CASE Client(c)' = Client(c) /\ ListenerOf(c)' = "ended"
  <2>1. Contract!Detach(c)
    BY <1>1, <1>2, <1>4 DEF Contract!Detach
  <2> QED
    BY <2>1 DEF Contract!Next
<1>5. CASE Client(c)' = "away"
  <2>1. Contract!Leave({c})
    BY <1>1, <1>2, <1>5 DEF Contract!Leave
  <2>2. {c} \in SUBSET Conn
    OBVIOUS
  <2> QED
    BY <2>1, <2>2 DEF Contract!Next
<1> QED
  BY <1>1, <1>3, <1>4, <1>5

LEMMA AcceptMaps ==
  ASSUME Inv, NEW c \in Conn, NEW w \in Worker, Accept(c, w)
  PROVE  Contract!Next
<1>1. /\ conn \in [Conn -> Connection] /\ conn[c] \in Connection
      /\ conn[c].ws = "new" /\ conn[c].pubsub = "off"
  BY DEF Inv, TypeOK, Shape, NewConnection, Accept
<1>2. conn' = [conn EXCEPT ![c] = [conn[c] EXCEPT !.on = w, !.pc = "presence", !.ws = "open"]]
  BY <1>1 DEF Accept
<1>3. conn'[c] = [conn[c] EXCEPT !.on = w, !.pc = "presence", !.ws = "open"]
  BY <1>2, Mapped
<1>4. conn'[c].ws = "open" /\ conn'[c].pubsub = "off" /\ conn'[c].cursor = conn[c].cursor
  BY <1>1, <1>3 DEF Connection
<1>5. /\ \A d \in Conn : d # c => Client(d)' = Client(d)
      /\ \A d \in Conn : ListenerOf(d)' = ListenerOf(d) /\ conn'[d].cursor = conn[d].cursor
      /\ Client(c) = "new" /\ Client(c)' = "here"
  BY <1>1, <1>2, <1>4, Mapped DEF Client, ListenerOf
<1>6. UNCHANGED <<published, sent>>
  BY DEF Accept, channel
<1>7. Contract!Open(c)
  BY <1>5, <1>6 DEF Contract!Open
<1> QED
  BY <1>7 DEF Contract!Next

LEMMA HandlerMaps ==
  ASSUME Inv, NEW c \in Conn, Handler(c)
  PROVE  Contract!Next \/ UNCHANGED Contract!vars
<1> DEFINE x == conn[c]
<1>1. conn \in [Conn -> Connection] /\ x \in Connection /\ x.pubsub \in
        {"off", "subscribe", "listen", "popping", "unsubscribe", "cancelled", "done", "raised"}
  BY DEF Inv, TypeOK, Connection
<1>2. CASE SetPresence(c)
  <2>1. x.pubsub = "off"
    BY <1>2 DEF Inv, Shape, SetPresence
  <2>2. PICK y : /\ conn' = [conn EXCEPT ![c] = y]
                 /\ \/ y = [x EXCEPT !.pc = "running", !.client = "run",
                                     !.pubsub = "subscribe", !.heartbeat = "run"]
                    \/ y = End(x)
    BY <1>1, <1>2 DEF SetPresence
  <2>3. /\ y.ws = x.ws \/ y.ws \in {"gone", "closed"}
        /\ y.pubsub \in {"off", "subscribe"} /\ y.cursor = x.cursor
    BY <1>1, <2>1, <2>2 DEF End, Closed, Connection
  <2> QED
    BY <1>2, <2>1, <2>2, <2>3, Recedes DEF SetPresence
<1>3. CASE Stop(c)
  <2>1. PICK P : conn' = [conn EXCEPT ![c] = [x EXCEPT !.pc = "stopping", !.pending = P]]
    BY <1>1, <1>3 DEF Stop
  <2> DEFINE y == [x EXCEPT !.pc = "stopping", !.pending = P]
  <2>2. y.ws = x.ws /\ y.pubsub = x.pubsub /\ y.cursor = x.cursor
    BY <1>1 DEF Connection
  <2> QED
    BY <1>3, <2>1, <2>2, Recedes DEF Stop
<1>4. ASSUME NEW k \in Part, Cancel(c, k) PROVE Contract!Next \/ UNCHANGED Contract!vars
  <2>1. PICK y : /\ conn' = [conn EXCEPT ![c] = y]
                 /\ \/ y = [x EXCEPT !.pubsub = "cancelled"]
                    \/ y = [x EXCEPT ![k] = "done", !.pending = x.pending \ {k}]
    BY <1>1, <1>4 DEF Cancel
  <2>2. y.ws = x.ws /\ y.pubsub \in {x.pubsub, "cancelled", "done"} /\ y.cursor = x.cursor
    <3>1. CASE k = "client"
      BY <1>1, <2>1, <3>1 DEF Connection
    <3>2. CASE k = "pubsub"
      BY <1>1, <2>1, <3>2 DEF Connection
    <3>3. CASE k = "heartbeat"
      BY <1>1, <2>1, <3>3 DEF Connection
    <3> QED
      BY <3>1, <3>2, <3>3 DEF Part
  <2> QED
    BY <1>4, <2>1, <2>2, Recedes DEF Cancel
<1>5. CASE Finally(c)
  <2> DEFINE y == [x EXCEPT !.pc = "clearing"]
  <2>1. conn' = [conn EXCEPT ![c] = y] /\ UNCHANGED channel
    BY <1>1, <1>5 DEF Finally
  <2>2. y.ws = x.ws /\ y.pubsub = x.pubsub /\ y.cursor = x.cursor
    BY <1>1 DEF Connection
  <2> QED
    BY <2>1, <2>2, Recedes
<1>6. CASE ClearPresence(c)
  <2>1. conn' = [conn EXCEPT ![c] = End(x)] /\ UNCHANGED channel
    BY <1>1, <1>6 DEF ClearPresence
  <2>2. End(x).ws \in {"gone", "closed"} /\ End(x).pubsub = x.pubsub /\ End(x).cursor = x.cursor
    BY <1>1 DEF End, Closed, Connection
  <2> QED
    BY <2>1, <2>2, Recedes
<1> QED
  BY <1>2, <1>3, <1>4, <1>5, <1>6 DEF Handler

LEMMA SubscribeMaps ==
  ASSUME Inv, NEW c \in Conn, Subscribe(c)
  PROVE  Contract!Next \/ UNCHANGED Contract!vars
<1> DEFINE x == conn[c]
           n == published[Owner[c]] + 1
<1>1. conn \in [Conn -> Connection] /\ x \in Connection
  BY DEF Inv, TypeOK
<1>2. x.pubsub = "subscribe" /\ UNCHANGED channel
  BY DEF Subscribe
<1>3. CASE conn' = [conn EXCEPT ![c].pubsub = "listen", ![c].cursor = n]
  <2>1. conn' = [conn EXCEPT ![c] = [x EXCEPT !.pubsub = "listen", !.cursor = n]]
    BY <1>1, <1>3
  <2>2. conn'[c] = [x EXCEPT !.pubsub = "listen", !.cursor = n]
    BY <2>1, Mapped
  <2>3. conn'[c].ws = x.ws /\ conn'[c].pubsub = "listen" /\ conn'[c].cursor = n
    BY <1>1, <2>2 DEF Connection
  <2>4. /\ \A d \in Conn : d # c => ListenerOf(d)' = ListenerOf(d)
                                    /\ conn'[d].cursor = conn[d].cursor
        /\ \A d \in Conn : Client(d)' = Client(d)
        /\ ListenerOf(c) = "none" /\ ListenerOf(c)' = "attached"
    BY <1>2, <2>1, <2>3, Mapped DEF Client, ListenerOf
  <2>5. Contract!Attach(c)
    BY <1>2, <2>3, <2>4 DEF Contract!Attach, channel
  <2> QED
    BY <2>5 DEF Contract!Next
<1>4. CASE conn' = [conn EXCEPT ![c].pubsub = "raised"]
  <2> DEFINE y == [x EXCEPT !.pubsub = "raised"]
  <2>1. conn' = [conn EXCEPT ![c] = y]
    BY <1>1, <1>4
  <2>2. y.ws = x.ws /\ y.pubsub = "raised" /\ y.cursor = x.cursor
    BY <1>1 DEF Connection
  <2> QED
    BY <1>2, <2>1, <2>2, Recedes
<1> QED
  BY <1>3, <1>4 DEF Subscribe

(* While no worker has had two connections of a user, the websocket the    *)
(* manager holds is the listener's own, as long as its client is there.    *)
LEMMA ForwardMaps ==
  ASSUME Inv, Single, NEW c \in Conn, Forward(c)
  PROVE  Contract!Next
<1> DEFINE x == conn[c]
           d == registered[Key(c)]
           next == [x EXCEPT !.cursor = x.cursor + 1]
<1>1. /\ conn \in [Conn -> Connection] /\ x \in Connection
      /\ sent \in [Conn -> Seq(Nat)] /\ x.cursor \in Nat
  BY DEF Inv, TypeOK, Connection
<1>2. /\ x.pubsub = "listen" /\ x.cursor <= published[Owner[c]]
      /\ published' = published
  BY DEF Forward, HasNext
<1>3. d \in {c, None} /\ (x.ws = "open" => d = c)
  <2>1. ~Over(c)
    BY <1>2 DEF Over, Inv, Shape, NewConnection
  <2> QED
    BY <1>2, <2>1 DEF Inv, Sole, Expecting
<1>4. PICK y : /\ conn' = [conn EXCEPT ![c] = y]
               /\ y = next \/ y = [next EXCEPT !.pubsub = "popping"]
               /\ sent' = IF x.ws = "open" THEN [sent EXCEPT ![c] = Append(@, x.cursor)]
                          ELSE sent
  <2>1. CASE d # None /\ conn[d].ws = "open" /\ sent' = [sent EXCEPT ![d] = Append(@, x.cursor)]
             /\ conn' = [conn EXCEPT ![c] = next]
    <3>1. d = c
      BY <1>3, <2>1
    <3> QED
      BY <2>1, <3>1
  <2>2. CASE (d = None \/ conn[d].ws # "open") /\ sent' = sent
             /\ \E y \in {next, [next EXCEPT !.pubsub = "popping"]} :
                  conn' = [conn EXCEPT ![c] = y]
    <3>1. x.ws # "open"
      BY <1>3, <2>2, NoneAssumption
    <3> QED
      BY <2>2, <3>1
  <2> QED
    BY <2>1, <2>2 DEF Forward
<1>5. y.ws = x.ws /\ y.pubsub \in {"listen", "popping"} /\ y.cursor = x.cursor + 1
  BY <1>1, <1>2, <1>4 DEF Connection
<1>6. /\ conn'[c] = y
      /\ \A e \in Conn : e # c => conn'[e].cursor = conn[e].cursor
      /\ \A e \in Conn : Client(e)' = Client(e) /\ ListenerOf(e)' = ListenerOf(e)
      /\ ListenerOf(c) = "attached"
      /\ (Client(c) = "here") <=> (x.ws = "open")
  BY <1>2, <1>4, <1>5, Mapped DEF Client, ListenerOf
<1>7. Contract!Deliver(c)
  BY <1>1, <1>2, <1>4, <1>5, <1>6 DEF Contract!Deliver
<1> QED
  BY <1>7 DEF Contract!Next

LEMMA ListenerMaps ==
  ASSUME Inv, Single, NEW c \in Conn, Listener(c) \/ StopListening(c)
  PROVE  Contract!Next \/ UNCHANGED Contract!vars
<1> DEFINE x == conn[c]
<1>1. conn \in [Conn -> Connection] /\ x \in Connection
  BY DEF Inv, TypeOK
<1>2. ASSUME NEW q \in {"listen", "unsubscribe"}, NEW y, y =
                [x EXCEPT !.pubsub = q],
             conn' = [conn EXCEPT ![c] = y], UNCHANGED channel,
             q = "listen" => x.pubsub = "popping"
      PROVE  Contract!Next \/ UNCHANGED Contract!vars
  <2>1. y.ws = x.ws /\ y.pubsub = q /\ y.cursor = x.cursor
    BY <1>1, <1>2 DEF Connection
  <2> QED
    BY <1>2, <2>1, Recedes
<1>3. CASE PopFailed(c)
  <2>1. /\ x.pubsub = "popping" /\ UNCHANGED channel
        /\ conn' = [conn EXCEPT ![c] = [x EXCEPT !.pubsub = "listen"]]
    BY <1>1, <1>3 DEF PopFailed
  <2> QED
    BY <1>2, <2>1
<1>4. CASE StopListening(c)
  <2>1. /\ UNCHANGED channel
        /\ conn' = [conn EXCEPT ![c] = [x EXCEPT !.pubsub = "unsubscribe"]]
    BY <1>1, <1>4 DEF StopListening
  <2> QED
    BY <1>2, <2>1
<1>5. CASE Unsubscribe(c)
  <2>0. PICK q \in {"done", "raised"} :
          \E P : conn' = [conn EXCEPT ![c] = [x EXCEPT !.pubsub = q, !.pending = P]]
    BY <1>1, <1>5 DEF Unsubscribe
  <2>1. PICK P :
          conn' = [conn EXCEPT ![c] = [x EXCEPT !.pubsub = q, !.pending = P]]
    BY <2>0
  <2> DEFINE y == [x EXCEPT !.pubsub = q, !.pending = P]
  <2>2. y.ws = x.ws /\ y.pubsub = q /\ y.cursor = x.cursor
    BY <1>1 DEF Connection
  <2> QED
    BY <1>5, <2>1, <2>2, Recedes DEF Unsubscribe
<1> QED
  BY <1>3, <1>4, <1>5, SubscribeMaps, ForwardMaps DEF Listener

LEMMA TaskMaps ==
  ASSUME Inv, NEW c \in Conn,
         HeartbeatEnds(c) \/ ReadDisconnect(c) \/ ReadMalformed(c) \/ ClientLeaves(c)
  PROVE  Contract!Next \/ UNCHANGED Contract!vars
<1> DEFINE x == conn[c]
<1>1. conn \in [Conn -> Connection] /\ x \in Connection
  BY DEF Inv, TypeOK
<1>2. ASSUME NEW ws, ws = x.ws \/ ws \notin {"new", "open"}, UNCHANGED channel,
             NEW y, conn' = [conn EXCEPT ![c] = y],
             \/ y = [x EXCEPT !.heartbeat = "done", !.ws = ws]
             \/ y = [x EXCEPT !.client = "done", !.ws = ws]
             \/ y = [x EXCEPT !.ws = ws]
      PROVE  Contract!Next \/ UNCHANGED Contract!vars
  <2>1. y.ws = ws /\ y.pubsub = x.pubsub /\ y.cursor = x.cursor
    BY <1>1, <1>2 DEF Connection
  <2> QED
    BY <1>2, <2>1, Recedes
<1>3. CASE HeartbeatEnds(c)
  <2>1. PICK ws \in {Closed(x)} \cup ({x.ws} \ {"open"}) :
          conn' = [conn EXCEPT ![c].heartbeat = "done", ![c].ws = ws]
    BY <1>3 DEF HeartbeatEnds
  <2>2. conn' = [conn EXCEPT ![c] = [x EXCEPT !.heartbeat = "done", !.ws = ws]]
    BY <1>1, <2>1
  <2>3. (ws = x.ws \/ ws \notin {"new", "open"}) /\ UNCHANGED channel
    BY <1>3, <2>1 DEF Closed, HeartbeatEnds
  <2> QED
    BY <1>2, <2>2, <2>3
<1>4. CASE ReadDisconnect(c)
  <2>1. /\ conn' = [conn EXCEPT ![c] = [x EXCEPT !.client = "done", !.ws = "gone"]]
        /\ UNCHANGED channel
    BY <1>1, <1>4 DEF ReadDisconnect
  <2> QED
    BY <1>2, <2>1
<1>5. CASE ReadMalformed(c)
  <2> DEFINE y == [x EXCEPT !.client = "done"]
  <2>1. conn' = [conn EXCEPT ![c] = y] /\ UNCHANGED channel
    BY <1>1, <1>5 DEF ReadMalformed
  <2>2. y.ws = x.ws /\ y.pubsub = x.pubsub /\ y.cursor = x.cursor
    BY <1>1 DEF Connection
  <2> QED
    BY <2>1, <2>2, Recedes
<1>6. CASE ClientLeaves(c)
  <2>1. conn' = [conn EXCEPT ![c] = [x EXCEPT !.ws = "left"]] /\ UNCHANGED channel
    BY <1>1, <1>6 DEF ClientLeaves
  <2> QED
    BY <1>2, <2>1
<1> QED
  BY <1>3, <1>4, <1>5, <1>6

LEMMA CrashMaps ==
  ASSUME Inv, NEW w \in Worker, Crash(w)
  PROVE  Contract!Next
<1> DEFINE C == {c \in Conn : conn[c].on = w}
<1>1. ASSUME NEW c \in Conn
      PROVE  /\ Client(c)' = IF c \in C THEN "away" ELSE Client(c)
             /\ ListenerOf(c)' = IF c \in C THEN "ended" ELSE ListenerOf(c)
             /\ conn'[c].cursor = conn[c].cursor
  <2>1. conn'[c] = IF conn[c].on = w
                   THEN [End(conn[c]) EXCEPT !.client = "done", !.pubsub = "done",
                                             !.heartbeat = "done", !.pending = {}]
                   ELSE conn[c]
    BY DEF Crash
  <2>2. conn[c] \in Connection
    BY DEF Inv, TypeOK
  <2>3. CASE conn[c].on = w
    <3>1. /\ conn'[c].ws \in {"gone", "closed"} /\ conn'[c].pubsub = "done"
          /\ conn'[c].cursor = conn[c].cursor
      BY <2>1, <2>2, <2>3 DEF End, Closed, Connection
    <3> QED
      BY <2>3, <3>1 DEF Client, ListenerOf
  <2>4. CASE conn[c].on # w
    BY <2>1, <2>4 DEF Client, ListenerOf
  <2> QED
    BY <2>3, <2>4
<1>2. UNCHANGED <<published, sent>>
  BY DEF Crash, channel
<1>3. Contract!Leave(C)
  BY <1>1, <1>2 DEF Contract!Leave
<1>4. C \in SUBSET Conn
  OBVIOUS
<1> HIDE DEF C
<1> QED
  BY <1>3, <1>4 DEF Contract!Next

LEMMA NextMaps ==
  ASSUME Inv, Single, [Next]_vars
  PROVE  Contract!Next \/ UNCHANGED Contract!vars
<1>1. ASSUME UNCHANGED <<conn, channel>> PROVE UNCHANGED Contract!vars
  BY <1>1 DEF Contract!vars, Client, ListenerOf, channel
<1>2. ASSUME NEW m \in Message, Publish(m) PROVE Contract!Next \/ UNCHANGED Contract!vars
  <2>1. CASE published' = published
    BY <1>1, <1>2, <2>1 DEF Publish, channel
  <2>2. CASE published' = [published EXCEPT ![Owner[task[m].conn]] = @ + 1]
    <3>1. Owner[task[m].conn] \in User
      BY <1>2, OwnerAssumption DEF Inv, Publish
    <3>2. Contract!Publish(Owner[task[m].conn])
      BY <1>2, <2>2 DEF Contract!Publish, Publish, Client, ListenerOf
    <3> QED
      BY <3>1, <3>2 DEF Contract!Next
  <2> QED
    BY <1>2, <2>1, <2>2 DEF Publish
<1>3. ASSUME NEW m \in Message, Dispatch(m) PROVE Contract!Next \/ UNCHANGED Contract!vars
  BY <1>1, <1>2, <1>3 DEF Dispatch, Resolve, CreateChat
<1>4. ASSUME NEW c \in Conn, NEW m \in Message, NEW fresh \in BOOLEAN,
             ReadMessage(c, m, fresh)
      PROVE  UNCHANGED Contract!vars
  BY <1>1, <1>4 DEF ReadMessage
<1>5. Tick \/ UNCHANGED vars => UNCHANGED Contract!vars
  BY <1>1 DEF Tick, vars, channel
<1> QED
  BY <1>3, <1>4, <1>5, AcceptMaps, HandlerMaps, ListenerMaps, TaskMaps,
     CrashMaps DEF Next

LEMMA InitMaps == Init => Contract!Init
  BY DEF Init, Contract!Init, NewConnection, Client, ListenerOf

(* A connection never moves to another worker.                             *)
LEMMA PlaceKept ==
  ASSUME Inv, [Next]_vars, NEW c \in Conn
  PROVE  conn'[c].on = conn[c].on \/ conn[c].on = None
<1>1. conn \in [Conn -> Connection] /\ \A d \in Conn : conn[d] \in Connection
  BY DEF Inv, TypeOK
<1>2. ASSUME UNCHANGED conn PROVE conn'[c].on = conn[c].on
  BY <1>2
<1>3. ASSUME NEW d \in Conn, NEW y, conn' = [conn EXCEPT ![d] = y], y.on = conn[d].on
      PROVE  conn'[c].on = conn[c].on
  BY <1>1, <1>3
<1>4. ASSUME NEW d \in Conn, NEW w \in Worker, Accept(d, w)
      PROVE  conn'[c].on = conn[c].on \/ conn[c].on = None
  <2>1. CASE c = d
    BY <1>4, <2>1 DEF Accept, Inv, Shape, NewConnection
  <2>2. CASE c # d
    BY <1>1, <1>4, <2>2 DEF Accept
  <2> QED
    BY <2>1, <2>2
<1>5. ASSUME NEW d \in Conn, Handler(d) PROVE conn'[c].on = conn[c].on
  <2>1. CASE SetPresence(d)
    <3>1. PICK y : /\ conn' = [conn EXCEPT ![d] = y]
                   /\ \/ y = [conn[d] EXCEPT !.pc = "running", !.client = "run",
                                            !.pubsub = "subscribe", !.heartbeat = "run"]
                      \/ y = End(conn[d])
      BY <1>1, <2>1 DEF SetPresence
    <3>2. y.on = conn[d].on
      BY <1>1, <3>1 DEF End, Connection
    <3> QED
      BY <1>3, <3>1, <3>2
  <2>2. CASE Stop(d)
    BY <1>1, <2>2 DEF Stop, Connection
  <2>3. ASSUME NEW k \in Part, Cancel(d, k) PROVE conn'[c].on = conn[c].on
    <3>1. PICK y : /\ conn' = [conn EXCEPT ![d] = y]
                   /\ \/ y = [conn[d] EXCEPT !.pubsub = "cancelled"]
                      \/ y = [conn[d] EXCEPT ![k] = "done", !.pending = conn[d].pending \ {k}]
      BY <1>1, <2>3 DEF Cancel
    <3>2. y.on = conn[d].on
      <4>1. k # "on"
        BY DEF Part
      <4> QED
        BY <1>1, <3>1, <4>1 DEF Connection
    <3> QED
      BY <1>3, <3>1, <3>2
  <2>4. CASE Finally(d)
    BY <1>1, <2>4 DEF Finally, Connection
  <2>5. CASE ClearPresence(d)
    BY <1>1, <2>5 DEF ClearPresence, End, Connection
  <2> QED
    BY <1>5, <2>1, <2>2, <2>3, <2>4, <2>5 DEF Handler
<1>6. ASSUME NEW d \in Conn, Listener(d) \/ StopListening(d) PROVE conn'[c].on = conn[c].on
  <2>1. CASE Subscribe(d)
    BY <1>1, <2>1 DEF Subscribe, Connection
  <2>2. CASE Forward(d)
    <3>1. PICK y : /\ conn' = [conn EXCEPT ![d] = y]
                   /\ \/ y = [conn[d] EXCEPT !.cursor = @ + 1]
                      \/ y = [[conn[d] EXCEPT !.cursor = @ + 1] EXCEPT !.pubsub = "popping"]
      BY <2>2 DEF Forward
    <3>2. y.on = conn[d].on
      BY <1>1, <3>1 DEF Connection
    <3> QED
      BY <1>3, <3>1, <3>2
  <2>3. CASE PopFailed(d) \/ StopListening(d)
    BY <1>1, <2>3 DEF PopFailed, StopListening, Connection
  <2>4. CASE Unsubscribe(d)
    BY <1>1, <2>4 DEF Unsubscribe, Connection
  <2> QED
    BY <1>6, <2>1, <2>2, <2>3, <2>4 DEF Listener
<1>7. ASSUME NEW d \in Conn,
             HeartbeatEnds(d) \/ ReadDisconnect(d) \/ ReadMalformed(d) \/ ClientLeaves(d)
      PROVE  conn'[c].on = conn[c].on
  BY <1>1, <1>7 DEF HeartbeatEnds, ReadDisconnect, ReadMalformed,
     ClientLeaves, Connection
<1>8. ASSUME NEW w \in Worker, Crash(w) PROVE conn'[c].on = conn[c].on
  BY <1>1, <1>8 DEF Crash, End, Connection
<1>9. \/ UNCHANGED vars \/ Tick \/ \E m \in Message : Dispatch(m)
      \/ \E d \in Conn, m \in Message, fresh \in BOOLEAN : ReadMessage(d, m, fresh)
      => UNCHANGED conn
  BY DEF vars, Tick, Dispatch, Resolve, CreateChat, Publish, ReadMessage
<1> QED
  BY <1>2, <1>4, <1>5, <1>6, <1>7, <1>8, <1>9 DEF Next

(* Without overlapping connections every connection keeps the contract,    *)
(* whatever Redis commands fail and whichever workers die.                 *)
THEOREM ContractImplemented ==
  ASSUME ~MayOverlap
  PROVE  Spec => ContractHolds
<1>1. Single
  BY DEF Single
<1>2. Inv /\ [Next]_vars => [Contract!Next]_(Contract!vars)
  BY <1>1, NextMaps
<1> QED
  BY <1>2, Invariant, InitMaps, PTL DEF Spec, ContractHolds, Contract!Spec

(* However connections overlap, fail and die, the contract is kept until a *)
(* worker has had two connections of one user.                             *)
THEOREM AcrossWorkers == Spec => ContractAcrossWorkers
<1>1. ASSUME Inv, [Next]_vars, Apart'
      PROVE  Contract!Next \/ UNCHANGED Contract!vars
  <2>1. Single
    BY <1>1, PlaceKept, ApartBefore DEF Single
  <2> QED
    BY <1>1, <2>1, NextMaps
<1>2. Inv /\ [Next]_vars => [Apart' => Contract!Next]_(Contract!vars)
  BY <1>1
<1> QED
  BY <1>2, Invariant, InitMaps, PTL DEF Spec, ContractAcrossWorkers
=============================================================================
