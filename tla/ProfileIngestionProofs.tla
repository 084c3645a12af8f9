----------------------- MODULE ProfileIngestionProofs -----------------------
(* Proofs about ProfileIngestion, for any users, uploads, documents, batch *)
(* size and any overlapping and failing of requests.                       *)
EXTENDS ProfileIngestion, TLAPS

Types ==
  /\ profile \in [User -> Row]
  /\ points \in [User -> SUBSET Point]
  /\ up \in [Upload -> Request]
  /\ lone \subseteq Upload /\ overlapped \subseteq User

(* A request has a user and a document once it has arrived.                *)
Arrived ==
  \A p \in Upload :
    /\ up[p].pc = "idle" => up[p] = Idle
    /\ up[p].pc # "idle" => up[p].user \in User /\ up[p].doc \in Doc

Owned(x, u, r) == r.user = u /\ x[2] \in 1..Chunks[r.doc]
PointsOwned ==
  \A u \in User : \A x \in points[u] : Owned(x, u, up[x[1]])

(* How far upload p in state r has come, alone, with the user's row and    *)
(* the user's points: what it has read still holds, what it has written is *)
(* all there is.                                                           *)
Progress(p, r, row, P) ==
  /\ r.pc \in {"normalise", "lookup", "insert", "overwrite", "delete", "embed"}
       => r.next = 1
  /\ r.pc = "insert" => row = NoRow
  /\ r.pc = "overwrite" => row = r.seen
  /\ r.pc \in {"delete", "embed", "upsert", "mark"} =>
       row = [doc |-> r.doc, indexed |-> FALSE]
  /\ r.pc = "done" => row = [doc |-> r.doc, indexed |-> TRUE]
  /\ r.pc = "embed" => Chunks[r.doc] # 0 /\ P = {}
  /\ r.pc = "upsert" =>
       r.next \in 1..Chunks[r.doc] /\ P = {p} \X (1..(r.next - 1))
  /\ r.pc \in {"mark", "done"} => P = {p} \X (1..Chunks[r.doc])

Alone(p) ==
  /\ up[p].pc # "idle"
  /\ \A q \in Upload \ {p} : Served(q) => up[q].user # up[p].user
  /\ Progress(p, up[p], profile[up[p].user], points[up[p].user])
LoneProgress == \A p \in lone : Alone(p)

(* Row and points P of user u fit, as far as the row claims to be indexed. *)
Filled(u, row, P) ==
  row.indexed =>
    \E q \in OfUser(u) :
      up[q].doc = row.doc /\ P = {q} \X (1..Chunks[up[q].doc])

(* As long as a user's uploads have not overlapped, the one that is served *)
(* is alone.                                                               *)
Undisturbed ==
  \A u \in User \ overlapped :
    /\ \A q \in OfUser(u) : Served(q) => q \in lone
    /\ Filled(u, profile[u], points[u])

Inv == Types /\ Arrived /\ PointsOwned /\ LoneProgress /\ Undisturbed

-----------------------------------------------------------------------------
LEMMA InvTypeOK == Inv => TypeOK
BY DEF Inv, Types, PointsOwned, Owned, TypeOK

LEMMA InvComplete == Inv => IndexedIsComplete
BY DEF Inv, Undisturbed, Filled, IndexedIsComplete, Sound, CompleteBy,
       ChunksOf, OfUser

LEMMA InvRepairs == Inv => LoneUploadRepairs
BY DEF Inv, LoneProgress, Alone, Progress, LoneUploadRepairs, At, CompleteBy,
       ChunksOf

LEMMA InitInv == Init => Inv
<1> SUFFICES ASSUME Init PROVE Inv
  OBVIOUS
<1>1. Idle \in Request /\ NoRow \in Row /\ ~NoRow.indexed
  BY DEF Idle, Request, Step, NoRow, Row
<1>2. Types /\ LoneProgress /\ PointsOwned
  BY <1>1 DEF Init, Types, LoneProgress, PointsOwned
<1>3. \A p \in Upload : up[p] = Idle /\ up[p].pc = "idle"
  BY DEF Init, Idle
<1>4. Arrived /\ Undisturbed
  BY <1>1, <1>3 DEF Init, Arrived, Undisturbed, Filled, Served, OfUser
<1> QED
  BY <1>2, <1>4 DEF Inv

LEMMA ServedAlone ==
  ASSUME Inv, NEW p \in Upload, Served(p), up[p].user \notin overlapped
  PROVE  p \in lone
<1>1. up[p].user \in User \ overlapped
  BY DEF Served, Inv, Arrived
<1>2. p \in OfUser(up[p].user)
  BY DEF OfUser
<1>3. \A q \in OfUser(up[p].user) : Served(q) => q \in lone
  BY <1>1 DEF Inv, Undisturbed
<1> QED
  BY <1>2, <1>3

LEMMA Marked ==
  ASSUME NEW old \in Row
  PROVE  [old EXCEPT !.indexed = TRUE] = [doc |-> old.doc, indexed |-> TRUE]
<1>1. ASSUME NEW a \in Row, NEW b \in Row, a.doc = b.doc, a.indexed = b.indexed
      PROVE  a = b
  BY <1>1 DEF Row
<1>2. PICK a \in Row : a = [old EXCEPT !.indexed = TRUE]
  BY DEF Row
<1>3. a.doc = old.doc /\ a.indexed = TRUE
  BY <1>2 DEF Row
<1>4. PICK b \in Row : b = [doc |-> old.doc, indexed |-> TRUE]
  BY DEF Row
<1> QED
  BY <1>1, <1>2, <1>3, <1>4

LEMMA LoneFacts ==
  ASSUME Inv, NEW p \in lone
  PROVE  Progress(p, up[p], profile[up[p].user], points[up[p].user])
BY DEF Inv, LoneProgress, Alone

(* A step of the served upload p leaves r, row and P of its user behind.   *)
LEMMA ServedStep ==
  ASSUME Inv, NEW p \in Upload, Served(p),
         NEW r \in Request, NEW row \in Row, NEW P \in SUBSET Point,
         up' = [up EXCEPT ![p] = r],
         profile' = [profile EXCEPT ![up[p].user] = row],
         points' = [points EXCEPT ![up[p].user] = P],
         UNCHANGED history,
         r.user = up[p].user, r.doc = up[p].doc, r.pc # "idle",
         \A x \in P \ points[up[p].user] :
           x[1] = p /\ x[2] \in 1..Chunks[r.doc],
         p \in lone => Progress(p, r, row, P),
         up[p].user \notin overlapped => Filled(up[p].user, row, P)
  PROVE  Inv'
<1>1. up[p].user \in User /\ up[p].doc \in Doc /\ up[p].pc # "idle"
  BY DEF Served, Inv, Arrived
<1> lone' = lone /\ overlapped' = overlapped
  BY DEF history
<1>2. Types'
  BY <1>1 DEF Inv, Types
<1>3. Arrived'
  BY <1>1 DEF Inv, Types, Arrived
<1>4. PointsOwned'
  <2> SUFFICES ASSUME NEW u \in User, NEW x \in points'[u]
               PROVE  Owned(x, u, up'[x[1]])
    BY DEF PointsOwned, Owned
  <2>1. x[1] \in Upload
    BY <1>2 DEF Types, Point
  <2>2. CASE x \in points[u]
    BY <2>1, <2>2 DEF Inv, Types, PointsOwned, Owned
  <2>3. CASE x \notin points[u]
    <3>1. u = up[p].user /\ x \in P
      BY <1>1, <2>3 DEF Inv, Types
    <3> QED
      BY <3>1, <2>1, <2>3 DEF Inv, Types, Owned
  <2> QED
    BY <2>2, <2>3
<1>5. LoneProgress'
  <2> SUFFICES ASSUME NEW q \in lone PROVE Alone(q)'
    BY DEF LoneProgress
  <2>1. q \in Upload /\ Alone(q) /\ up[q].user \in User
    BY DEF Inv, Types, LoneProgress, Alone, Arrived
  <2>2. up'[q].user = up[q].user
        /\ \A s \in Upload \ {q} : Served(s)' => up'[s].user # up[q].user
    BY <2>1 DEF Inv, Types, Alone, Served
  <2>3. CASE q = p
    BY <1>1, <2>2, <2>3 DEF Inv, Types, Alone
  <2>4. CASE q # p
    <3>1. up[q].user # up[p].user
      BY <2>1, <2>4 DEF Alone
    <3>2. up'[q] = up[q] /\ profile'[up[q].user] = profile[up[q].user]
          /\ points'[up[q].user] = points[up[q].user]
      BY <1>1, <2>1, <2>4, <3>1 DEF Inv, Types
    <3> QED
      BY <2>1, <2>2, <3>2 DEF Alone
  <2> QED
    BY <2>3, <2>4
<1>6. Undisturbed'
  <2> SUFFICES ASSUME NEW u \in User \ overlapped
               PROVE  (/\ \A q \in OfUser(u) : Served(q) => q \in lone
                       /\ Filled(u, profile[u], points[u]))'
    BY DEF Undisturbed
  <2>1. OfUser(u)' = OfUser(u) /\ \A q \in OfUser(u) : up'[q].doc = up[q].doc
    BY DEF Inv, Types, OfUser
  <2>2. \A q \in OfUser(u) : Served(q)' => q \in lone
    BY DEF Inv, Types, Undisturbed, OfUser, Served
  <2>3. Filled(u, profile'[u], points'[u])
    BY <1>1 DEF Inv, Types, Undisturbed
  <2> QED
    BY <2>1, <2>2, <2>3 DEF Filled
<1> QED
  BY <1>2, <1>3, <1>4, <1>5, <1>6 DEF Inv

(* A step that only moves the request on, to label l.                      *)
LEMMA MoveStep ==
  ASSUME Inv, NEW p \in Upload, Served(p), NEW r \in Request,
         up' = [up EXCEPT ![p] = r], UNCHANGED <<profile, points, history>>,
         r.user = up[p].user, r.doc = up[p].doc, r.pc # "idle",
         p \in lone =>
           Progress(p, r, profile[up[p].user], points[up[p].user])
  PROVE  Inv'
<1>1. up[p].user \in User
  BY DEF Served, Inv, Arrived
<1>2. PICK row \in Row, P \in SUBSET Point :
        row = profile[up[p].user] /\ P = points[up[p].user]
  BY <1>1 DEF Inv, Types
<1>3. profile' = [profile EXCEPT ![up[p].user] = row]
      /\ points' = [points EXCEPT ![up[p].user] = P]
  BY <1>2 DEF Inv, Types
<1>4. /\ UNCHANGED history
      /\ \A x \in P \ points[up[p].user] :
           x[1] = p /\ x[2] \in 1..Chunks[r.doc]
      /\ p \in lone => Progress(p, r, row, P)
      /\ up[p].user \notin overlapped => Filled(up[p].user, row, P)
  BY <1>1, <1>2 DEF Inv, Undisturbed
<1> QED
  BY <1>3, <1>4, ServedStep

LEMMA StartInv ==
  ASSUME Inv, NEW p \in Upload, NEW u \in User, NEW d \in Doc, Start(p, u, d)
  PROVE  Inv'
<1> DEFINE r == [Idle EXCEPT !.pc = "normalise", !.user = u, !.doc = d]
<1>1. r \in Request /\ r.pc = "normalise" /\ r.user = u /\ r.doc = d
      /\ r.next = 1
  <2>1. Idle \in Request /\ Idle.next = 1
    BY DEF Idle, Request, Step, NoRow, Row
  <2> QED
    BY <2>1 DEF Request, Step
<1>2. up[p] = Idle /\ up[p].user \notin User
  BY NoneAssumption DEF Start, At, Inv, Arrived, Idle
<1>3. up' = [up EXCEPT ![p] = r] /\ UNCHANGED <<profile, points>>
  BY DEF Start
<1> HIDE DEF r
<1>4. Types'
  BY <1>1, <1>3 DEF Inv, Types, Start
<1>5. Arrived'
  BY <1>1, <1>3 DEF Inv, Types, Arrived
<1>6. PointsOwned'
  BY <1>2, <1>3 DEF Inv, Types, PointsOwned, Owned
<1>7. LoneProgress'
  <2> SUFFICES ASSUME NEW q \in lone' PROVE Alone(q)'
    BY DEF LoneProgress
  <2>1. CASE q = p
    <3>1. up'[q] = r
      BY <1>3, <2>1 DEF Inv, Types
    <3>2. p \notin lone
      BY <1>2 DEF Inv, LoneProgress, Alone, Idle
    <3>3. \A s \in OfUser(u) : ~Served(s)
      BY <2>1, <3>2 DEF Start
    <3>4. \A s \in Upload \ {q} : Served(s)' => up'[s].user # u
      BY <1>1, <1>3, <2>1, <3>3 DEF Inv, Types, OfUser, Served
    <3> QED
      BY <1>1, <3>1, <3>4 DEF Alone, Progress
  <2>2. CASE q # p
    <3>1. q \in lone /\ q \notin OfUser(u) /\ q \in Upload
      BY <2>2 DEF Start, Inv, Types
    <3>2. up'[q] = up[q] /\ up[q].user # u /\ Alone(q)
      BY <1>3, <2>2, <3>1 DEF Inv, Types, OfUser, LoneProgress
    <3>3. \A s \in Upload \ {q} : Served(s)' => up'[s].user # up[q].user
      BY <1>1, <1>3, <3>1, <3>2 DEF Inv, Types, Alone, Served
    <3> QED
      BY <1>3, <3>1, <3>2, <3>3 DEF Alone
  <2> QED
    BY <2>1, <2>2
<1>8. Undisturbed'
  <2> SUFFICES ASSUME NEW v \in User, v \notin overlapped'
               PROVE  (/\ \A q \in OfUser(v) : Served(q) => q \in lone
                       /\ Filled(v, profile[v], points[v]))'
    BY DEF Undisturbed
  <2>0. PICK alone \in BOOLEAN :
          /\ alone => \A q \in OfUser(u) : ~Served(q)
          /\ overlapped' = overlapped \cup (IF alone THEN {} ELSE {u})
          /\ lone' = (lone \ OfUser(u)) \cup (IF alone THEN {p} ELSE {})
    BY Zenon DEF Start
  <2>1. /\ v \notin overlapped
        /\ v = u => alone
        /\ v = u => p \in lone'
        /\ v # u => \A q \in lone : q \notin OfUser(u) => q \in lone'
    BY <2>0
  <2>2. OfUser(v)' = OfUser(v) \cup (IF v = u THEN {p} ELSE {})
        /\ p \notin OfUser(v)
        /\ \A q \in OfUser(v) : up'[q] = up[q]
    BY <1>1, <1>2, <1>3 DEF Inv, Types, OfUser
  <2>3. Filled(v, profile[v], points[v])
        /\ \A q \in OfUser(v) : Served(q) => q \in lone
    BY <2>1 DEF Inv, Undisturbed
  <2>4. \A q \in OfUser(v)' : Served(q)' => q \in lone'
    BY <2>0, <2>1, <2>2, <2>3 DEF Served, OfUser
  <2>5. Filled(v, profile[v], points[v])'
    BY <1>3, <2>2, <2>3 DEF Filled
  <2> QED
    BY <2>4, <2>5
<1> QED
  BY <1>4, <1>5, <1>6, <1>7, <1>8 DEF Inv

-----------------------------------------------------------------------------
(* The awaits that only move a request on.                                 *)

LEMMA NormaliseInv ==
  ASSUME Inv, NEW p \in Upload, Normalise(p) PROVE Inv'
<1> DEFINE r == [up[p] EXCEPT !.pc = "lookup"]
<1>1. r \in Request /\ r.pc = "lookup"
      /\ r.user = up[p].user /\ r.doc = up[p].doc
      /\ r.next = up[p].next
  BY DEF Inv, Types, Request, Step
<1>2. Served(p) /\ up' = [up EXCEPT ![p] = r]
      /\ UNCHANGED <<profile, points, history>>
  BY DEF Normalise, At, Go, Served
<1> HIDE DEF r
<1>3. p \in lone => Progress(p, r, profile[up[p].user], points[up[p].user])
  BY <1>1 DEF Inv, LoneProgress, Alone, Progress, Normalise, At
<1> QED
  BY <1>1, <1>2, <1>3, MoveStep

LEMMA LookupInv ==
  ASSUME Inv, NEW p \in Upload, Lookup(p) PROVE Inv'
<1> DEFINE row == profile[up[p].user]
           r == [up[p] EXCEPT !.seen = row,
                              !.pc = IF row = NoRow THEN "insert" ELSE "overwrite"]
<1>1. Served(p) /\ up' = [up EXCEPT ![p] = r]
      /\ UNCHANGED <<profile, points, history>>
  BY DEF Lookup, At, Go, Served
<1>2. row \in Row
  BY <1>1 DEF Inv, Types, Arrived, Served
<1>3. r \in Request
      /\ r.user = up[p].user /\ r.doc = up[p].doc
      /\ r.next = up[p].next /\ r.seen = row
      /\ r.pc = IF row = NoRow THEN "insert" ELSE "overwrite"
  BY <1>2 DEF Inv, Types, Request, Step
<1> HIDE DEF r
<1>4. p \in lone => Progress(p, r, row, points[up[p].user])
  BY <1>3 DEF Inv, LoneProgress, Alone, Progress, Lookup, At
<1> QED
  BY <1>1, <1>3, <1>4, MoveStep

LEMMA EmbedInv ==
  ASSUME Inv, NEW p \in Upload, Embed(p) PROVE Inv'
<1> DEFINE r == [up[p] EXCEPT !.pc = "upsert"]
<1>1. r \in Request /\ r.pc = "upsert"
      /\ r.user = up[p].user /\ r.doc = up[p].doc
      /\ r.next = up[p].next
  BY DEF Inv, Types, Request, Step
<1>2. Served(p) /\ up' = [up EXCEPT ![p] = r]
      /\ UNCHANGED <<profile, points, history>>
  BY DEF Embed, At, Go, Served
<1>3. r.doc \in Doc
  BY <1>1, <1>2 DEF Inv, Arrived, Served
<1> HIDE DEF r
<1>4. ASSUME p \in lone
      PROVE  Progress(p, r, profile[up[p].user], points[up[p].user])
  <2>1. /\ up[p].next = 1 /\ points[up[p].user] = {} /\ Chunks[up[p].doc] # 0
        /\ profile[up[p].user] = [doc |-> up[p].doc, indexed |-> FALSE]
    BY <1>4 DEF Inv, LoneProgress, Alone, Progress, Embed, At
  <2>2. Chunks[r.doc] \in Nat /\ 1..(r.next - 1) = {}
    BY <1>1, <1>3, <2>1, SizesAssumption
  <2> QED
    BY <1>1, <2>1, <2>2 DEF Progress
<1> QED
  BY <1>1, <1>2, <1>4, MoveStep

LEMMA AbortInv ==
  ASSUME Inv, NEW p \in Upload, Abort(p) PROVE Inv'
<1> DEFINE r == [up[p] EXCEPT !.pc = "failed"]
<1>1. r \in Request /\ r.pc = "failed"
      /\ r.user = up[p].user /\ r.doc = up[p].doc
  BY DEF Inv, Types, Request, Step
<1>2. Served(p) /\ up' = [up EXCEPT ![p] = r]
      /\ UNCHANGED <<profile, points, history>>
  BY DEF Abort, At, Go, Served
<1> HIDE DEF r
<1>3. Progress(p, r, profile[up[p].user], points[up[p].user])
  BY <1>1 DEF Progress
<1> QED
  BY <1>1, <1>2, <1>3, MoveStep

-----------------------------------------------------------------------------
(* The awaits that write the row.                                          *)

LEMMA InsertInv ==
  ASSUME Inv, NEW p \in Upload, Insert(p) PROVE Inv'
<1> DEFINE old == profile[up[p].user]
           row == IF old = NoRow THEN [doc |-> up[p].doc, indexed |-> FALSE]
                  ELSE old
           r == [up[p] EXCEPT !.pc = IF old = NoRow THEN "delete" ELSE "conflict"]
<1>1. Served(p) /\ up[p].pc = "insert"
  BY DEF Insert, At, Served
<1>2. up[p].user \in User /\ up[p].doc \in Doc
  BY <1>1 DEF Inv, Arrived
<1>3. /\ up' = [up EXCEPT ![p] = r]
      /\ profile' = [profile EXCEPT ![up[p].user] = row]
      /\ UNCHANGED <<points, history>>
  BY <1>2 DEF Insert, Go, Inv, Types
<1>4. r \in Request
      /\ r.user = up[p].user /\ r.doc = up[p].doc
      /\ r.next = up[p].next
      /\ r.pc = IF old = NoRow THEN "delete" ELSE "conflict"
  BY DEF Inv, Types, Request, Step
<1>5. row \in Row /\ old \in Row
  BY <1>2 DEF Inv, Types, Row
<1> HIDE DEF r
<1>6. p \in lone => Progress(p, r, row, points[up[p].user])
  BY <1>1, <1>4 DEF Inv, LoneProgress, Alone, Progress
<1>7. up[p].user \notin overlapped =>
        Filled(up[p].user, row, points[up[p].user])
  BY <1>2 DEF Inv, Undisturbed, Filled
<1> HIDE DEF row
<1>8. PICK P \in SUBSET Point : P = points[up[p].user]
  BY <1>2 DEF Inv, Types
<1>9. points' = [points EXCEPT ![up[p].user] = P]
  BY <1>3, <1>8 DEF Inv, Types
<1>10. p \in lone => Progress(p, r, row, P)
  BY <1>6, <1>8
<1>11. up[p].user \notin overlapped => Filled(up[p].user, row, P)
  BY <1>7, <1>8
<1>12. r.pc # "idle" /\ UNCHANGED history /\ P \ points[up[p].user] = {}
  BY <1>3, <1>4, <1>8
<1> QED
  BY <1>1, <1>3, <1>4, <1>5, <1>9, <1>10, <1>11, <1>12, ServedStep

LEMMA OverwriteInv ==
  ASSUME Inv, NEW p \in Upload, Overwrite(p) PROVE Inv'
<1> DEFINE old == profile[up[p].user]
           seen == up[p].seen
           row == [doc |-> IF up[p].doc # seen.doc THEN up[p].doc ELSE old.doc,
                   indexed |-> IF seen.indexed THEN FALSE ELSE old.indexed]
           r == [up[p] EXCEPT !.pc = "delete"]
<1>1. Served(p) /\ up[p].pc = "overwrite"
  BY DEF Overwrite, At, Served
<1>2. up[p].user \in User /\ up[p].doc \in Doc
  BY <1>1 DEF Inv, Arrived
<1>3. old \in Row /\ seen \in Row
  BY <1>2 DEF Inv, Types, Request
<1>4. [old EXCEPT !.doc = row.doc, !.indexed = row.indexed] = row
  BY <1>3 DEF Row
<1>5. /\ up' = [up EXCEPT ![p] = r]
      /\ profile' = [profile EXCEPT ![up[p].user] = row]
      /\ UNCHANGED <<points, history>>
  BY <1>2, <1>3, <1>4 DEF Overwrite, Go, Inv, Types
<1>6. r \in Request
      /\ r.user = up[p].user /\ r.doc = up[p].doc
      /\ r.next = up[p].next /\ r.pc = "delete"
  BY DEF Inv, Types, Request, Step
<1>7. row \in Row
  BY <1>2, <1>3 DEF Row
<1> HIDE DEF r
<1>8. p \in lone => row = [doc |-> up[p].doc, indexed |-> FALSE]
  BY <1>1, <1>3 DEF Inv, LoneProgress, Alone, Progress, Row
<1>9. p \in lone => Progress(p, r, row, points[up[p].user])
  BY <1>1, <1>6, <1>8 DEF Inv, LoneProgress, Alone, Progress
<1>10. up[p].user \notin overlapped => p \in lone
  BY <1>1, ServedAlone
<1>11. up[p].user \notin overlapped =>
        Filled(up[p].user, row, points[up[p].user])
  BY <1>8, <1>10 DEF Filled
<1> HIDE DEF row
<1>12. PICK P \in SUBSET Point : P = points[up[p].user]
  BY <1>2 DEF Inv, Types
<1>13. points' = [points EXCEPT ![up[p].user] = P]
  BY <1>5, <1>12 DEF Inv, Types
<1>14. p \in lone => Progress(p, r, row, P)
  BY <1>9, <1>12
<1>15. up[p].user \notin overlapped => Filled(up[p].user, row, P)
  BY <1>11, <1>12
<1>16. r.pc # "idle" /\ UNCHANGED history /\ P \ points[up[p].user] = {}
  BY <1>5, <1>6, <1>12
<1> QED
  BY <1>1, <1>5, <1>6, <1>7, <1>13, <1>14, <1>15, <1>16, ServedStep

LEMMA MarkIndexedInv ==
  ASSUME Inv, NEW p \in Upload, MarkIndexed(p) PROVE Inv'
<1> DEFINE old == profile[up[p].user]
           row == [old EXCEPT !.indexed = TRUE]
           r == [up[p] EXCEPT !.pc = "done"]
<1>1. Served(p) /\ up[p].pc = "mark"
  BY DEF MarkIndexed, At, Served
<1>2. up[p].user \in User /\ up[p].doc \in Doc
  BY <1>1 DEF Inv, Arrived
<1>3. /\ up' = [up EXCEPT ![p] = r]
      /\ profile' = [profile EXCEPT ![up[p].user] = row]
      /\ UNCHANGED <<points, history>>
  BY <1>2 DEF MarkIndexed, Go, Inv, Types
<1>4. r \in Request /\ r.user = up[p].user /\ r.doc = up[p].doc /\ r.pc = "done"
  BY DEF Inv, Types, Request, Step
<1>5. old \in Row /\ row \in Row
  BY <1>2 DEF Inv, Types, Row
<1> HIDE DEF r
<1>6. p \in lone =>
        /\ row = [doc |-> up[p].doc, indexed |-> TRUE]
        /\ points[up[p].user] = {p} \X (1..Chunks[up[p].doc])
  <2> SUFFICES ASSUME p \in lone
               PROVE  /\ row = [doc |-> up[p].doc, indexed |-> TRUE]
                      /\ points[up[p].user] = {p} \X (1..Chunks[up[p].doc])
    OBVIOUS
  <2>1. row = [doc |-> old.doc, indexed |-> TRUE]
    BY <1>5, Marked
  <2>2. /\ old = [doc |-> up[p].doc, indexed |-> FALSE]
        /\ points[up[p].user] = {p} \X (1..Chunks[up[p].doc])
    BY <1>1, LoneFacts DEF Progress
  <2> QED
    BY <2>1, <2>2
<1>7. p \in lone => Progress(p, r, row, points[up[p].user])
  BY <1>4, <1>6 DEF Progress
<1>8. up[p].user \notin overlapped => p \in lone
  BY <1>1, ServedAlone
<1>9. up[p].user \notin overlapped =>
        Filled(up[p].user, row, points[up[p].user])
  BY <1>2, <1>6, <1>8 DEF Filled, OfUser
<1> HIDE DEF row
<1>10. PICK P \in SUBSET Point : P = points[up[p].user]
  BY <1>2 DEF Inv, Types
<1>11. points' = [points EXCEPT ![up[p].user] = P]
  BY <1>3, <1>10 DEF Inv, Types
<1>12. p \in lone => Progress(p, r, row, P)
  BY <1>7, <1>10
<1>13. up[p].user \notin overlapped => Filled(up[p].user, row, P)
  BY <1>9, <1>10
<1>14. r.pc # "idle" /\ UNCHANGED history /\ P \ points[up[p].user] = {}
  BY <1>3, <1>4, <1>10
<1> QED
  BY <1>1, <1>3, <1>4, <1>5, <1>11, <1>12, <1>13, <1>14, ServedStep

-----------------------------------------------------------------------------
(* The awaits that write points.                                           *)

LEMMA DeleteVectorsInv ==
  ASSUME Inv, NEW p \in Upload, DeleteVectors(p) PROVE Inv'
<1> DEFINE r == [up[p] EXCEPT !.pc = IF Chunks[up[p].doc] = 0 THEN "failed"
                                     ELSE "embed"]
<1>1. Served(p) /\ up[p].pc = "delete"
  BY DEF DeleteVectors, At, Served
<1>2. up[p].user \in User
  BY <1>1 DEF Inv, Arrived
<1>3. PICK row \in Row : row = profile[up[p].user]
  BY <1>2 DEF Inv, Types
<1>4. /\ up' = [up EXCEPT ![p] = r]
      /\ profile' = [profile EXCEPT ![up[p].user] = row]
      /\ points' = [points EXCEPT ![up[p].user] = {}]
      /\ UNCHANGED history
  BY <1>2, <1>3 DEF DeleteVectors, Go, ChunksOf, Inv, Types
<1>5. r \in Request
      /\ r.user = up[p].user /\ r.doc = up[p].doc
      /\ r.next = up[p].next
      /\ r.pc = IF Chunks[up[p].doc] = 0 THEN "failed" ELSE "embed"
  BY DEF Inv, Types, Request, Step
<1> HIDE DEF r
<1>6. p \in lone => row = [doc |-> up[p].doc, indexed |-> FALSE]
  BY <1>1, <1>3, LoneFacts DEF Progress
<1>7. p \in lone => Progress(p, r, row, {})
  BY <1>1, <1>5, <1>6, LoneFacts DEF Progress
<1>8. up[p].user \notin overlapped => p \in lone
  BY <1>1, ServedAlone
<1>9. up[p].user \notin overlapped => Filled(up[p].user, row, {})
  BY <1>6, <1>8 DEF Filled
<1>10. r.pc # "idle" /\ {} \ points[up[p].user] = {} /\ {} \in SUBSET Point
  BY <1>5
<1> QED
  BY <1>1, <1>4, <1>5, <1>7, <1>9, <1>10, ServedStep

(* The last batch ends with the document, any other leaves chunks behind.  *)
LEMMA LastBatch ==
  ASSUME NEW n \in Nat, NEW k \in 1..n, NEW b \in Nat \ {0}, k + b > n
  PROVE  (1..(k - 1)) \cup (k..Least(k + b - 1, n)) = 1..n
BY DEF Least

LEMMA InnerBatch ==
  ASSUME NEW n \in Nat, NEW k \in 1..n, NEW b \in Nat \ {0}, ~(k + b > n)
  PROVE  /\ k + b \in 1..n
         /\ (1..(k - 1)) \cup (k..Least(k + b - 1, n)) = 1..(k + b - 1)
BY DEF Least

LEMMA UpsertBatchInv ==
  ASSUME Inv, NEW p \in Upload, UpsertBatch(p) PROVE Inv'
<1> DEFINE n == Chunks[up[p].doc]
           k == up[p].next
           P == points[up[p].user] \cup ({p} \X Batch(p))
           r == [up[p] EXCEPT !.next = k + BatchSize,
                              !.pc = IF k + BatchSize > n THEN "mark" ELSE "upsert"]
<1>1. Served(p) /\ up[p].pc = "upsert"
  BY DEF UpsertBatch, At, Served
<1>2. up[p].user \in User /\ up[p].doc \in Doc
  BY <1>1 DEF Inv, Arrived
<1>3. PICK row \in Row : row = profile[up[p].user]
  BY <1>2 DEF Inv, Types
<1>4. /\ up' = [up EXCEPT ![p] = r]
      /\ profile' = [profile EXCEPT ![up[p].user] = row]
      /\ points' = [points EXCEPT ![up[p].user] = P]
      /\ UNCHANGED history
  BY <1>2, <1>3 DEF UpsertBatch, ChunksOf, Inv, Types
<1>5. n \in Nat /\ k \in Nat \ {0} /\ BatchSize \in Nat \ {0}
  BY <1>2, SizesAssumption DEF Inv, Types, Request
<1>6. k + BatchSize \in Nat \ {0}
  BY <1>5
<1>7. r \in Request
      /\ r.user = up[p].user /\ r.doc = up[p].doc
      /\ r.next = k + BatchSize
      /\ r.pc = IF k + BatchSize > n THEN "mark" ELSE "upsert"
  BY <1>6 DEF Inv, Types, Request, Step
<1>8. Batch(p) = k..Least(k + BatchSize - 1, n)
  BY DEF Batch, ChunksOf
<1> HIDE DEF r
<1>9. Batch(p) \subseteq 1..n
  BY <1>5, <1>8 DEF Least
<1>10. P \in SUBSET Point /\ points[up[p].user] \in SUBSET Point
  BY <1>2, <1>9 DEF Inv, Types, Point
<1>11. \A x \in P \ points[up[p].user] : x[1] = p /\ x[2] \in 1..Chunks[r.doc]
  BY <1>7, <1>9
<1>12. p \in lone =>
         /\ row = [doc |-> up[p].doc, indexed |-> FALSE]
         /\ k \in 1..n
         /\ points[up[p].user] = {p} \X (1..(k - 1))
  BY <1>1, <1>3, LoneFacts DEF Progress
<1>13. p \in lone => P = {p} \X ((1..(k - 1)) \cup Batch(p))
  BY <1>12
<1>14. ASSUME p \in lone PROVE Progress(p, r, row, P)
  <2> k \in 1..n
    BY <1>12, <1>14
  <2>1. CASE k + BatchSize > n
    <3>1. (1..(k - 1)) \cup Batch(p) = 1..n
      BY <1>5, <1>8, <2>1, LastBatch
    <3>2. P = {p} \X (1..n)
      BY <1>13, <1>14, <3>1
    <3> HIDE DEF P
    <3> QED
      BY <1>7, <1>12, <1>14, <2>1, <3>2 DEF Progress
  <2>2. CASE ~(k + BatchSize > n)
    <3>1. /\ k + BatchSize \in 1..n
          /\ (1..(k - 1)) \cup Batch(p) = 1..(k + BatchSize - 1)
      BY <1>5, <1>8, <2>2, InnerBatch, ZenonT(40)
    <3>2. P = {p} \X (1..(k + BatchSize - 1))
      BY <1>13, <1>14, <3>1
    <3> HIDE DEF P
    <3>3. r.pc = "upsert" /\ r.next = k + BatchSize /\ Chunks[r.doc] = n
          /\ row = [doc |-> r.doc, indexed |-> FALSE]
      BY <1>7, <1>12, <1>14, <2>2
    <3>4. r.next \in 1..Chunks[r.doc]
      BY <3>1, <3>3
    <3>5. r.next - 1 = k + BatchSize - 1
      BY <1>5, <3>3
    <3>6. P = {p} \X (1..(r.next - 1))
      BY Zenon, <3>2, <3>5
    <3> QED
      BY <3>3, <3>4, <3>6 DEF Progress
  <2> QED
    BY <2>1, <2>2
<1>15. up[p].user \notin overlapped => Filled(up[p].user, row, P)
  BY <1>1, <1>12, ServedAlone DEF Filled
<1>16. r.pc # "idle"
  BY <1>7
<1> HIDE DEF P
<1> QED
  BY <1>1, <1>4, <1>7, <1>10, <1>11, <1>14, <1>15, <1>16, ServedStep

-----------------------------------------------------------------------------
LEMMA NextInv == Inv /\ [Next]_vars => Inv'
<1> SUFFICES ASSUME Inv, [Next]_vars PROVE Inv'
  OBVIOUS
<1>1. ASSUME NEW p \in Upload, NEW u \in User, NEW d \in Doc, Start(p, u, d)
      PROVE  Inv'
  BY <1>1, StartInv
<1>2. ASSUME NEW p \in Upload, Serve(p) PROVE Inv'
  BY <1>2, NormaliseInv, LookupInv, InsertInv, OverwriteInv, DeleteVectorsInv,
     EmbedInv, UpsertBatchInv, MarkIndexedInv DEF Serve
<1>3. ASSUME NEW p \in Upload, Abort(p) PROVE Inv'
  BY <1>3, AbortInv
<1>4. CASE UNCHANGED vars
  BY <1>4 DEF vars, history, Inv, Types, Arrived, PointsOwned, Owned,
       LoneProgress, Alone, Progress, Undisturbed, Filled, OfUser, Served
<1> QED
  BY <1>1, <1>2, <1>3, <1>4 DEF Next

THEOREM Invariance == Spec => []Inv
<1>1. Init => Inv
  BY InitInv
<1>2. Inv /\ [Next]_vars => Inv'
  BY NextInv
<1> QED
  BY <1>1, <1>2, PTL DEF Spec

(* Every variable keeps its type and a user's points are of chunks of the  *)
(* user's own documents.                                                   *)
THEOREM TypeCorrect == Spec => []TypeOK
BY Invariance, InvTypeOK, PTL

(* Whatever overlapping and aborted uploads left behind in the row and in  *)
(* Qdrant, an upload that completes alone repairs both.                    *)
THEOREM LoneUploadsRepair == Spec => []LoneUploadRepairs
BY Invariance, InvRepairs, PTL

(* As long as no two uploads of a user have overlapped, a row marked as    *)
(* indexed has exactly the points of its document, whatever fails.         *)
THEOREM IndexedComplete == Spec => []IndexedIsComplete
BY Invariance, InvComplete, PTL
=============================================================================
