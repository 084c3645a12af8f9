-------------------------- MODULE ProfileIngestion --------------------------
(***************************************************************************)
(* POST /profile: a document is extracted, normalised by the LLM, stored   *)
(* in the user's row of user_profiles, cut into chunks, embedded, written  *)
(* to Qdrant in batches and the row marked as indexed.                     *)
(*                                                                         *)
(* An upload is one such request, an action what it does at one await: a   *)
(* query, a commit, a call of Qdrant.  PostgreSQL and Qdrant share no      *)
(* transaction and nothing keeps a user's uploads apart.  A document is    *)
(* its normalised text; all that matters of it is its number of chunks.    *)
(***************************************************************************)
EXTENDS Integers

CONSTANTS
  User, Upload, Doc,
  None,           \* no user, no document
  Chunks,         \* Chunks[d]: how many chunks the parser finds in d
  BatchSize       \* points in one call of Qdrant

ASSUME SizesAssumption == Chunks \in [Doc -> Nat] /\ BatchSize \in Nat \ {0}
ASSUME NoneAssumption == None \notin User /\ None \notin Doc

VARIABLES
  profile,   \* the row of every user in user_profiles
  points,    \* every user's points in Qdrant: <<upload, number of the chunk>>
  up,        \* the uploads
  lone,      \* history: uploads no other of their user overlapped or followed
  overlapped \* history: users two of whose uploads have overlapped

history == <<lone, overlapped>>
vars == <<profile, points, up, history>>

Row == [doc : Doc \cup {None}, indexed : BOOLEAN]
NoRow == [doc |-> None, indexed |-> FALSE]

Step == {"idle", "normalise", "lookup", "insert", "overwrite", "delete",
         "embed", "upsert", "mark", "done", "conflict", "failed"}
Request ==
  [pc : Step, user : User \cup {None}, doc : Doc \cup {None}, seen : Row,
   next : Nat \ {0}]
Idle == [pc |-> "idle", user |-> None, doc |-> None, seen |-> NoRow, next |-> 1]

Point == Upload \X Nat

(* Types, and that a user's points are of chunks of their own documents.   *)
TypeOK ==
  /\ profile \in [User -> Row]
  /\ points \in [User -> SUBSET Point]
  /\ up \in [Upload -> Request]
  /\ lone \subseteq Upload /\ overlapped \subseteq User
  /\ \A u \in User : \A x \in points[u] :
       /\ up[x[1]].user = u
       /\ x[2] \in 1..Chunks[up[x[1]].doc]

Init ==
  /\ profile = [u \in User |-> NoRow]
  /\ points = [u \in User |-> {}]
  /\ up = [p \in Upload |-> Idle]
  /\ lone = {} /\ overlapped = {}

At(p, l) == up[p].pc = l
Go(p, l) == up' = [up EXCEPT ![p].pc = l]
Served(p) == up[p].pc \notin {"idle", "done", "conflict", "failed"}
OfUser(u) == {p \in Upload : up[p].user = u}
ChunksOf(p) == Chunks[up[p].doc]

-----------------------------------------------------------------------------
(* The request arrives, the text is extracted: the LLM is asked.           *)
Start(p, u, d) ==
  /\ At(p, "idle")
  /\ up' = [up EXCEPT ![p] = [Idle EXCEPT !.pc = "normalise", !.user = u,
                                          !.doc = d]]
  /\ LET alone == \A q \in OfUser(u) : ~Served(q)
     IN  /\ lone' = (lone \ OfUser(u)) \cup (IF alone THEN {p} ELSE {})
         /\ overlapped' = overlapped \cup (IF alone THEN {} ELSE {u})
  /\ UNCHANGED <<profile, points>>

Normalise(p) ==
  /\ At(p, "normalise")
  /\ Go(p, "lookup")
  /\ UNCHANGED <<profile, points, history>>

(* upsert reads the user's row.                                            *)
Lookup(p) ==
  /\ At(p, "lookup")
  /\ LET row == profile[up[p].user]
     IN  up' = [up EXCEPT ![p].seen = row,
           ![p].pc = IF row = NoRow THEN "insert" ELSE "overwrite"]
  /\ UNCHANGED <<profile, points, history>>

(* There was no row: a new one, unless another upload was faster, whose    *)
(* row the unique constraint on user_id protects.                          *)
Insert(p) ==
  /\ At(p, "insert")
  /\ IF profile[up[p].user] = NoRow
     THEN /\ profile' = [profile EXCEPT ![up[p].user] =
               [doc |-> up[p].doc, indexed |-> FALSE]]
          /\ Go(p, "delete")
     ELSE Go(p, "conflict") /\ UNCHANGED profile
  /\ UNCHANGED <<points, history>>

\* Mutant: indexed_at is left as it was.
OverwriteKeepsMark(p) ==
  /\ At(p, "overwrite")
  /\ LET seen == up[p].seen IN
     profile' = [profile EXCEPT ![up[p].user].doc =
       IF up[p].doc # seen.doc THEN up[p].doc ELSE @]
  /\ Go(p, "delete")
  /\ UNCHANGED <<points, history>>

(* There was a row: the ORM updates the columns whose value differs from   *)
(* the one it read, and only those; indexed_at becomes NULL.               *)
Overwrite(p) ==
  /\ At(p, "overwrite")
  /\ LET seen == up[p].seen IN
     profile' = [profile EXCEPT
       ![up[p].user].doc = IF up[p].doc # seen.doc THEN up[p].doc ELSE @,
       ![up[p].user].indexed = IF seen.indexed THEN FALSE ELSE @]
  /\ Go(p, "delete")
  /\ UNCHANGED <<points, history>>

\* Mutant: vectors are deleted only where the row was marked as indexed.
DeleteIfIndexed(p) ==
  /\ At(p, "delete")
  /\ points' = [points EXCEPT ![up[p].user] =
       IF up[p].seen.indexed THEN {} ELSE @]
  /\ Go(p, IF ChunksOf(p) = 0 THEN "failed" ELSE "embed")
  /\ UNCHANGED <<profile, history>>

(* Every point of the user is deleted; then the text is parsed, and with   *)
(* no chunk in it the request fails.                                       *)
DeleteVectors(p) ==
  /\ At(p, "delete")
  /\ points' = [points EXCEPT ![up[p].user] = {}]
  /\ Go(p, IF ChunksOf(p) = 0 THEN "failed" ELSE "embed")
  /\ UNCHANGED <<profile, history>>

Embed(p) ==
  /\ At(p, "embed")
  /\ Go(p, "upsert")
  /\ UNCHANGED <<profile, points, history>>

\* Mutant: the last batch is not cut at the end of the chunks.
BatchUncut(p) == up[p].next .. up[p].next + BatchSize - 1

Least(a, b) == IF a < b THEN a ELSE b
Batch(p) == up[p].next .. Least(up[p].next + BatchSize - 1, ChunksOf(p))

(* Qdrant confirms one batch of new points.                                *)
UpsertBatch(p) ==
  /\ At(p, "upsert")
  /\ points' = [points EXCEPT ![up[p].user] = @ \cup ({p} \X Batch(p))]
  /\ up' = [up EXCEPT ![p].next = @ + BatchSize,
       ![p].pc = IF up[p].next + BatchSize > ChunksOf(p)
                 THEN "mark" ELSE "upsert"]
  /\ UNCHANGED <<profile, history>>

\* Mutant: only a row that is new is marked.
MarkNewRow(p) ==
  /\ At(p, "mark")
  /\ profile' = [profile EXCEPT ![up[p].user].indexed =
       IF up[p].seen = NoRow THEN TRUE ELSE @]
  /\ Go(p, "done")
  /\ UNCHANGED <<points, history>>

(* mark_indexed: a new time is written to whatever row the user has.       *)
MarkIndexed(p) ==
  /\ At(p, "mark")
  /\ profile' = [profile EXCEPT ![up[p].user].indexed = TRUE]
  /\ Go(p, "done")
  /\ UNCHANGED <<points, history>>

(* An error of the LLM, PostgreSQL, the embeddings or Qdrant, before or    *)
(* after the last call took effect, or the death of the worker.            *)
Abort(p) ==
  /\ Served(p)
  /\ Go(p, "failed")
  /\ UNCHANGED <<profile, points, history>>

-----------------------------------------------------------------------------
Serve(p) ==
  \/ Normalise(p) \/ Lookup(p) \/ Insert(p) \/ Overwrite(p)
  \/ DeleteVectors(p) \/ Embed(p) \/ UpsertBatch(p) \/ MarkIndexed(p)

Next ==
  \E p \in Upload :
    \/ \E u \in User, d \in Doc : Start(p, u, d)
    \/ Serve(p)
    \/ Abort(p)

Spec == Init /\ [][Next]_vars

(* Every service a request awaits answers or raises.                       *)
FairSpec == Spec /\ \A p \in Upload : WF_vars(Serve(p))

-----------------------------------------------------------------------------
(* The points of upload p's document, each once, and nothing else.         *)
CompleteBy(p, u) == points[u] = {p} \X (1..ChunksOf(p))

(* A row marked as indexed has exactly the points of its document.         *)
Sound(u) ==
  profile[u].indexed =>
    \E p \in Upload : up[p].doc = profile[u].doc /\ CompleteBy(p, u)

(* As long as no two uploads of a user have overlapped, has_profile means  *)
(* what it says: a row marked as indexed has exactly the points of its own *)
(* document in Qdrant, although the two stores share no transaction and a  *)
(* request may end at any await.                                           *)
IndexedIsComplete == \A u \in User \ overlapped : Sound(u)

(* Whatever overlapping and aborted uploads have left behind, an upload    *)
(* that completes alone leaves the row and the points of its document.     *)
LoneUploadRepairs ==
  \A p \in lone : At(p, "done") =>
    LET u == up[p].user
    IN  profile[u] = [doc |-> up[p].doc, indexed |-> TRUE] /\ CompleteBy(p, u)

(* A user who uploads ends up with a profile that is marked as indexed,    *)
(* however uploads overlap and although one of them may lose the race for  *)
(* the row - unless a service failed one or a document had no chunks.      *)
EventuallyIndexed ==
  \A u \in User :
    (OfUser(u) # {}) ~> \/ []profile[u].indexed
                        \/ \E p \in OfUser(u) : At(p, "failed")

=============================================================================
