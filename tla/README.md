# Prepwise backend: a TLA+ verification project

Prepwise is a FastAPI backend (`src/backend/app`) behind a career-coaching chat:
users log in, upload a profile document, open a WebSocket and write messages that
a classifier routes to an engine. State lives in PostgreSQL, Redis (a token cache
on one database, pub/sub and presence on another), Qdrant (vectors of the
profile) and the memory of each Uvicorn worker. The code is single-threaded
`asyncio`: what is hard about it is what happens *between two awaits*.

This directory models the parts that carry the program's own logic, checks them
with TLC and proves the safety properties that matter most with TLAPS.

## 1. Inventory

| Component | Source (`app/`) | State | Operations | Status |
|---|---|---|---|---|
| Authentication, sessions | `services/auth_service.py`, `repositories/session_repository.py`, `core/dependencies.py`, `core/security.py`, `routes/auth.py` | `sessions` table; Redis `access:{jti}`, `refresh:{hash}`; the tokens clients hold | login, refresh, logout, logout_all, revoke_session, authenticate | `AuthSessions` |
| Registration | `auth_service.register`, `repositories/auth_repository.py` | `users` table | check, hash, insert, commit | `Registration` |
| WebSocket connections | `websocket/handler.py`, `manager.py`, `pubsub.py` | per-worker manager, presence keys, subscriptions, three tasks per connection | accept, listen (client, pub/sub), heartbeat, cancel, clean up | `WebSockets` |
| Message dispatch | `websocket/dispatch.py`, `classification/classifier.py` | `chat_sessions`, detached tasks, the user's stream | classify, create chat, publish, fall back | `WebSockets` |
| Profile ingestion | `services/profile_service.py`, `repositories/profile_repository.py`, `profile/indexer.py`, `profile/normaliser.py`, `routes/profile.py` | `user_profiles` row, Qdrant points | normalise, upsert row, delete, embed, upsert batches, mark | `ProfileIngestion` |
| Chunk parser | `vector/chunks.py` | none (pure) | sections, blocks, tags, depths, periods | `ChunkParser` |
| Long-term memory | `agents/shared/memory/store.py`, `tools/memory_tool.py` | one store item per user | get, save, delete, clear | `LongTermMemory` |
| Conversation compression | `agents/shared/memory/compression.py` | none (pure, no caller) | estimate, split, summarise | `Compression`: the split |
| Lifespan, collection set-up | `main.py`, `db/redis.py`, `db/session.py`, `vector/qdrant_client.py` | the clients a worker holds, the keepalive task; Qdrant collections and indexes | start, set up, check, serve, stop | `Lifespan`, with the requests it serves `Backend` |
| Agent read tools, text extraction, LLM clients, prompt cache, embeddings, error mapping, engine tables | the rest | none of their own, or I/O through libraries | | not modelled, see section 8 |
| Engines (prep, document, tracker, job) | only in `docs/` | | | no source: the calls in `dispatch.py` are commented out |

How they interact. Every HTTP endpoint and the WebSocket handshake authenticate
through the session layer. A connection reads messages and starts a detached
`dispatch` task for each; a dispatch task publishes to the Redis channel of the
user; the listener of every connection of the user, on any worker, reads the
channel and sends through its worker's `ConnectionManager`. Profile ingestion
is a request of its own; its only link to the rest is the authenticated user. The
chunk parser cuts the profile for the indexer. Every request runs between the
`yield` of its worker's lifespan and the closing of the clients behind it. The
agents' tools (memory, compression) have no caller among the routes: the engines
that would call them are not in the source.

Which behaviours are hard. PostgreSQL, Redis and Qdrant share no transaction, so
every multi-store write can stop in the middle and interleave with another.
Redis errors are swallowed in the session layer and propagate in the WebSocket
layer. The connection manager is keyed by user, not by connection. Cleanups run
under cancellation. Uploads rewrite the same row and the same points without a
lock. A memory tool writes back the whole list it read. Workers that start at
the same time create the same collections, and whatever raises in a lifespan
skips the code behind its `yield`. `PROJECT.json` lists each hazard at its line
with the properties that cover it.

What makes each component correct. *Sessions*: a cached token resolves as the table
would; revocation is for ever; one session, one pair of good tokens. *Connections*:
the websocket is sent its user's stream in order, without gaps or duplicates;
nothing is left behind when the handler ends; presence means a live handler.
*Dispatch*: every message read is answered. *Ingestion*: a row marked as indexed has
exactly the points of its document, and an upload repairs what earlier failed ones
left. *Registration*: of the requests for one email one owns the account, and every
other is told the truth. *Memory*: no fact doubles or strays to another user, and an
overlapping write undoes no more than what changed behind its back. *Parser*: what
is between two headings, all of it and nothing twice, with the fields its own text
states first. *Compression*: the cut loses no message and splits no turn.
*Lifespan*: a worker serves only when all its handlers use is there, stops when
told, and leaves no store open.

## 2. Modules

| Module | What it is |
|---|---|
| `AuthSessions` | sessions over PostgreSQL and the Redis caches, one action per await |
| `SessionContract` | what sessions promise, with no cache and no awaits |
| `AuthSessionsContract` | the refinement mapping |
| `AuthSessionsProofs` | inductive invariants, theorems, the refinement proved |
| `WebSockets` | connections, managers, presence, pub/sub and dispatch |
| `StreamContract` | what a connection promises: a gapless piece of the user's stream |
| `WebSocketsContract` | the refinement mapping |
| `WebSocketsProofs` | inductive invariant, theorems, the refinement proved |
| `ProfileIngestion` | the upload pipeline over PostgreSQL and Qdrant |
| `ProfileIngestionProofs` | inductive invariant and theorems |
| `LongTermMemory` | the facts about a user in the store, and the tools that change them |
| `LongTermMemoryProofs` | inductive invariant and theorems |
| `ChunkParser` | `parse_profile_chunks` as functions on a sequence of lines |
| `ChunkParserProofs` | lemmas about the search, the bodies, the fields and the reference; theorems |
| `Compression` | `_extract_tail`: where a conversation is cut |
| `CompressionProofs` | theorems |
| `Positions` | the list comprehension: what stands at the positions that satisfy a condition, in order |
| `PositionsProofs` | lemmas about `Positions`, for the proofs that use it |
| `MCAgents` | memory, parser and compression side by side, one moving at a time |
| `Lifespan` | what a worker opens, sets up, checks and closes |
| `Registration` | `register` over the unique email column |
| `Backend` | `Lifespan` and `Registration` composed: the requests a worker serves |
| `BackendProofs` | inductive invariant and theorems |
| `MC...` | instances for TLC: small sets, functions over them, symmetry |

Operators marked `\* Mutant:` are not part of a specification. Each is a
plausible bug in the definition that follows it; substituting it must make the
property it is paired with in `PROJECT.json` fail.

## 3. State and actions against the code

### AuthSessions

A request is a process that runs alone between two awaits, so an action is one
await: a Redis command, a query, or a write with the commit that follows it
(`flush` and `commit` are one step because the row lock lets nobody in between).
`req[p].pc` is the await the request is at. A *grant* is the access and the
refresh token that `create_access_token` and `create_refresh_token` mint
together; grants are numbered in minting order, which is also the order in which
they expire. `sessions[s]` is the row: its user, the grant whose hash, jti and
expiry it holds, `revoked_at`. `accessCache` and `refreshCache` are the two
families of Redis keys. `subject` is the `sub` claim; `lineage` is history (the
session a grant was minted for) and drives nothing. `SessionRepository` swallows
every Redis error, so with `RedisMayFail` a get may miss and a set or delete may
not happen. `MayCrash` ends a request at any await. Keys may vanish at any time
(TTL, eviction, flush): `EvictAccess`, `EvictRefresh`.

### WebSockets

A connection is one run of `handle_websocket_connection` after its token was
accepted. `conn[c]` has the handler's position (`pc`), the state of the
websocket (`ws`), the three tasks, the tasks the handler is still to cancel and
await (`pending`), and the next stream position its subscription will be handed
(`cursor`), and the worker it was accepted on (`on`). `registered[<<worker,
user>>]` is `ConnectionManager._active`, `presence[u]` the ticks left of
`presence:{user_id}`, `published[u]` the length of the stream published for the
user, `sent[c]` the positions websocket `c` was sent. `task[m]` is one
`dispatch` task. A heartbeat ping changes nothing; `HeartbeatEnds` is its three
ways out. `Cancel` is cancellation *and* the wait for the task, because the
cancelled listener runs its `finally` and awaits Redis in between. `Resolve`
takes each outcome of the classifier to where `dispatch` goes on after it.

### ProfileIngestion

`up[p]` is a request at one of its awaits with its user, its document, the row
it read (`seen`) and the next chunk to write. A document is its normalised text;
only its number of chunks matters. `Overwrite` writes the columns that differ
from what the ORM read, which is how SQLAlchemy emits the UPDATE. `points[u]`
are the user's Qdrant points by upload and chunk number. `lone` and `overlapped`
are history and drive nothing: the uploads that no other upload of their user
has overlapped or followed, and the users two of whose uploads have overlapped.
An `Abort` at any await stands for an error of any service, before or after its
last call took effect, and for the death of the worker.

### LongTermMemory, ChunkParser, Compression

A call of the memory functions is a process with at most two awaits, `aget` and
`aput` or `adelete`; `op`, `user`, `fact` are its arguments, `read` the list it
read, `reply` what it returned. `FirstStep` has `get_long_term_memories` raise at
once, because it passes `useR_id`, a keyword `get_memories` does not have. `missed`
is history: what other calls changed in the user's item since the call's
read. `StoreRaises` is the `except` clause of every function: it returns as if
nothing had happened.

`document` is a profile that grows line by line; a line is a mark (`## `, `### ` or
none) and a value. `Headings` is the search of the regular expression, which for a
bare `##` takes the next line that is not empty as the name; `HeadingsFrom` is the
search as it goes on from each line. The searches for `Stack:`, `Depth:` and
`Period:` are not anchored: `Mentions` gives, for each value, the fields that stand
anywhere in it, from left to right, with the rest of the line behind each. `Field`
is the first match in a block's text, its name in front, as the code joins them; a
mention with nothing behind it takes the next line that is not empty, and of a depth
only `LeadingDigit` is read, without one the search goes on.
`ParsedAsWritten` compares the chunks with a reading of the schema line by line:
`Expected` gives every line to the nearest heading above it, `Found` shows the
chunks in the same form, and `NothingLost` says that each filled line under a
section's heading is in the body or the name of a chunk. `FirstSaid` reads a field
from a block's name and lines, line by line. `messages` is a conversation that
grows, a message its role and its text.

The three parts share no state. `MCAgents` moves one of them and leaves the
others initial, so that one run checks all three and their states add up.

### Lifespan, Registration, Backend

`at[w]` is the await worker `w`'s lifespan is at and `step[w]` the position in the
loop there. `open[w]` are its clients, `collections` and `indexed` what Qdrant has.
`Raise` is an exception at any await: it leaves the `async with` block, which closes
both stores, and skips the code behind the `yield`; the rest stays open until the
process exits. `found` and `cause` are history.

A registration is at `find`, `insert`, `commit` or `respond`. `Create` waits
while another request holds an uncommitted row of the email, as PostgreSQL does,
and raises when a committed one is there; nothing maps the `IntegrityError`, so the
client is told 500. A request stands for its password.

`Backend` puts requests on workers. That is the server's doing, and an assumption
about Uvicorn, not something the source shows: `Take` hands requests to a serving
worker, `Resume` lets the lifespan go on behind its `yield` (`LeaveBlock`) once none
of the worker's requests is in flight, `Die` takes them along.

## 4. Runs

Passing runs.

| Run | Question | Bounds |
|---|---|---|
| `auth_disjoint` | Is the cache invisible when requests that overlap work on different sessions? `ContractHolds` is the refinement to `SessionContract`; `RevokedIsUncached`, `OneRefreshTokenPerSession` | 1 user, 2 sessions, 2 requests, 3 grants, 1 expiry, every endpoint, aborts anywhere, deactivation, evictions, Redis answering; the constraint `Disjoint` |
| `auth_interleaved` | Can anything undo a revocation, or mix up whose token it is? `TypeOK`, `LookupsAgree`, `RevokedStaysRevoked`, `RevocationIsFinal` | 2 requests, 2 users, 2 sessions, 3 grants; login, refresh, logout_all; Redis failing, aborts |
| `auth_refresh_live` | Does a refresh end with a token? `RefreshSucceeds` | 2 requests, 1 session, 3 grants, Redis failing |
| `sockets_sequential` | Does a connection keep `StreamContract`? `ContractHolds`, `TypeOK` | 2 connections of a user on a worker, one after the other; Redis failing, crashes |
| `sockets_overlap` | What is left behind when cleanups of overlapping connections pop each other's entries, and does the contract hold across workers? `RegisteredIsServed`, `PresenceIsHeld`, `NoTaskOutlivesHandler`, `ContractAcrossWorkers` | 2 connections of a user on 2 workers in any placement, Redis answering |
| `sockets_live` | What must happen in the end? `CleanedUp`, `EveryMessageAnswered`, `PresenceFades` | 1 connection, 1 message, room for two publishes, TTL of 3 ticks, Redis failing, crashes |
| `profile_ingestion` | Is "indexed" true, does a lone upload repair, does a user end up indexed? `TypeOK`, `IndexedIsComplete`, `LoneUploadRepairs`, `EventuallyIndexed` | 2 users, 3 uploads that may overlap, documents of 0 and 3 chunks, batches of 2, aborts |
| `agents` | What do overlapping memory calls leave? `MemoryTypeOK`, `NoDuplicateFacts`, `OnlyToldFacts`, `StaleWritesUndoOnlyTheirRivals`, `AnswersAreTrue`. Is a profile cut as it was written? `ParsedAsWritten`, `NoLineTwice`, `OnlyTheLastSectionChanges`. And a conversation? `TailIsTheLastTurns` | 3 calls, 2 users, 2 facts, the store raising; profiles of up to 4 lines, fields in headings, in sentences and with nothing behind them; conversations of up to 6 messages, engines that keep 0, 1 or 2 turns |
| `backend` | Does a worker serve only when it is ready, stop when told, and leave nothing open? `TypeOK`, `ServingIsReady`, `NothingStaysOpen`, `OnlyFirstStartsConflict`, `EveryStopEnds`. Who owns the account? `CreatedOwnsTheAccount`, `RefusalsAreTrue`, `EveryRequestEnds` | 2 workers, 2 requests, 1 email, every service raising, workers killed and started again |

Violation runs (section 5): `auth_logout_race`, `auth_refresh_race`,
`sockets_reconnect`.

Why the bounds are enough. `auth_disjoint` cuts off a behaviour where two requests
work on one session (`Disjoint`): that is where the two `auth_*_race` runs find the
cache out, and where `auth_interleaved` checks what still holds. Two requests,
connections or uploads are what an overlap needs; a third grant is one that outlives
a rotation and the logout that follows, a third upload one that follows two that
overlapped. A document of no chunk ends before the batch loop, one of three chunks
takes a full batch and a last one that is not full. The second room in
`MaxPublished` is for the error that follows an answer whose publish raised. A stale
write needs two calls and a third shows what it undid. Four lines hold a section
that is written twice, a bare heading that swallows the line behind it, a block that
ends at a heading, and a block whose name mentions a field its body states too; six
messages hold three turns, one more than an engine keeps. Two workers race for the
collections, and their two requests for an email. `MaxGrants`, `MaxLapses`,
`MaxPublished`, `MaxLines`, `MaxMessages` and the sizes of the sets are the only
bounds; behaviours end when they are used up, which is why deadlock is not checked.

## 5. Disagreements with the documentation

Each of these is a run that checks one documented claim and finds it violated;
the `findings` of `PROJECT.json` quote the lines.

| Run | Claim that fails | Why |
|---|---|---|
| `auth_logout_race` | after a logout no access token of the session is cached | a request that read the session before the logout writes the key after it was deleted |
| `auth_refresh_race` | one refresh token per session | two refreshes with one token both pass before either rotates the row |
| `sockets_reconnect` | the listener forwards to its own client | the manager is keyed by user: another connection of the user takes, or pops, the entry |

Others can be read off the model and have no run of their own.

- `docs/auth.md:163`: a replayed refresh token revokes the session. The rotation
  overwrites the hash in the row, so `RefreshByHash` finds nothing and refuses.
- `docs/auth.md:165-170`: logout sets `revoked_at`. `LogoutSession` looks the
  session up by the access token's jti; one older than the last refresh finds
  none.
- `handler.py:160-161`, cleans up regardless of how the connection ends:
  `SetPresence` runs before the `try`, and when it raises the registration
  stays.
- `docs/shared-infrastructure.md:168`, when any task exits the others are
  cancelled: `Awaited` leaves the loop when the cancelled listener raised.
- A message may be read and answered before the listener's `Subscribe`; the
  client never sees that answer. `StreamContract` promises the stream from the
  subscription on.
- `profile_service.py:47-48`, a re-upload replaces the row and the vectors: two
  overlapping uploads of a user leave points of both, and the row of one marked
  with the points of the other. `IndexedIsComplete` therefore speaks of users
  whose uploads have not overlapped.
- `compression.py:102` reads `tokens_threshold`, which `CompressionConfig` does
  not have (`token_threshold` is its field): every call of `maybe_compress` raises,
  although its docstring (`:92`) promises the original list below the threshold.
  Behind it, `:116` returns `None` where a list is promised and `:134` adds
  `list[tail]` (a generic alias, not a list). No state and no interleaving decides
  this, so it has no property.
- `compression.py:68-69`, the tail is the last `tail_turns` turns: for 0 the index
  `-tail_turns` is 0, the first turn, and all turns are kept. `TailIsTheLastTurns`
  therefore claims the number of turns for more than 0 only. The settings
  (`core/config.py:52-55`) default to 4 and 6, but nothing refuses a 0.
- The schema of `agents/prompts/normalisation.py` states stack, depth and period
  of a block on lines of their own. `chunks.py:21`, `:28` and `:34` search the block's
  whole text, its name included: a name or a sentence with `stack:` in it
  (`### Full Stack: Acme`) supplies the tags and hides the block's own line, and the
  one digit read makes 1 of `Depth: 10`. `ParsedAsWritten` therefore says that a
  field is what the block's text says of it *first*.
- `memory_tool.py:17` passes `useR_id`: the tool always raises. `remember_fact`
  answers "Remembered" also when `save_memory` swallowed an error.
- `docs/database.md:258`, presence is renewed by the heartbeat: nothing renews
  it.

## 6. Fairness

Only what the scheduler and the services guarantee. `AuthSessions!FairSpec`:
every request that has arrived is served (the event loop runs ready tasks, and a
store answers or raises). `WebSockets!FairSpec`: the handler's and the
listener's own steps, the dispatch tasks, the server's report of a departed
client, and time. `ProfileIngestion!FairSpec`: every upload. `Backend!FairSpec`:
a lifespan that has been started and a request that has been taken go on. Weak
fairness suffices: a ready step stays ready until it is taken. Nothing is
assumed of clients (they may never call, write or leave), of whoever starts,
stops or kills a worker, of the clock of tokens, of evictions, or that a failure
or a crash ever happens.

## 7. Proofs

`AuthSessionsProofs` proves for every set of users, sessions and requests, every
bound and every choice of the failure flags: `TypeOK`, `LookupsAgree` (theorems
`TypeCorrect`, `LookupsAlwaysAgree`), `RevokedStaysRevoked` (`RevokedForEver`) and
`RevocationIsFinal` (`RevocationFinal`). It proves further, as long as Redis answers
and requests that overlap work on different sessions, that the cache is invisible:
the refinement of `SessionContract`, `ContractHolds` (`ContractImplemented`),
`RevokedIsUncached` (`RevokedUncached`), `OneRefreshTokenPerSession`
(`OneRefreshToken`), and that a token once withdrawn is never accepted again
(`TokensStayWithdrawn`). Assumed are only the named assumptions on the constants in
`AuthSessions`, and in the second group `~RedisMayFail` and `[]Disjoint`. Both are
needed: a delete that Redis did not carry out leaves a key behind, and the runs of
section 5 violate these properties when two requests race for one session.

The argument for the first group. `LookupsAgree` is not inductive: a request writes
into the caches and the table what it learnt several awaits earlier. `Inv` therefore
adds what every request *knows* at each await (`Knows`: for instance at `rotate`,
that the grant it minted belongs to the user and the session it is about to write),
that the rows of opened sessions are never blank and hold minted grants in order,
and that two logins never insert the same grant. One lemma per action proves that
the stores still agree and that the acting request knows what its next await needs;
`KnowsKept` carries what the others know over the step, because no step takes back a
`lineage`, a `subject` or an opened session. `RevocationIsFinal` follows from the
invariant: a request that could still write the row or an access key of a revoked
session is in flight for it, by `Knows`, and a new one is turned away by the
`revoked` test on every path.

The argument for the second. `Disjoint` says that no session is in the `Scope` of
two requests: the session a request goes on with, those its tokens were minted for,
and for `logout_all` all of its user's. `DisjointInv` adds to `Inv` two things.
`StoresCurrent`: an access key is always of a grant that an active session holds, a
refresh key names a session that holds its grant, and a session not yet opened holds
none. `Prepared`: what each request has read still is as it read it, await by await,
up to the one that writes. A step of one request changes only sessions in its scope,
so the others stay `Prepared`; the step itself is proved action by action. From
`DisjointInv` it follows that the tokens the code accepts, by cache or by table, are
exactly the grants that live sessions hold (`HeldAccepted`). Seen through the
mapping, a step therefore opens a session, moves one to a grant never taken before,
revokes some, or changes nothing (`ContractStep`), and those are the contract's
actions. `WithdrawnForEver` follows from the contract alone: no action of it takes
back what is `spent`.

`ProfileIngestionProofs` proves, for every set of users, uploads and documents and
every batch size: `IndexedIsComplete` (theorem `IndexedComplete`),
`LoneUploadRepairs` (`LoneUploadsRepair`) and `TypeOK` (`TypeCorrect`), from the
assumptions on `Chunks`, `BatchSize` and `None`. `LoneUploadRepairs` says something
of completed uploads only, so `Inv` says for each await how far a lone upload has
come (`Progress`): from `overwrite` to `delete` the row it read is still there, from
`delete` on the row is its own and unmarked, at `upsert` the points are exactly
those of the batches written so far. `Undisturbed` adds that where uploads have not
overlapped the one being served is lone and the row is `Filled`. A step of the
served upload is proved once (`ServedStep`): whatever it leaves of the request, the
row and the points, `Inv` holds if these fit `Progress`. Each action then
instantiates it; `LastBatch` and `InnerBatch` are the arithmetic of the batch loop.

`WebSocketsProofs` proves for every set of users, workers, connections and messages,
every bound and every owner of the connections: `TypeOK` (`TypeCorrect`); the
refinement of `StreamContract`, `ContractHolds` when connections do not overlap on a
worker (`ContractImplemented`) and `ContractAcrossWorkers` without that condition
(`AcrossWorkers`), with Redis failing and workers dying at will; when Redis answers,
`RegisteredIsServed` (`RegisteredServed`) and `NoTaskOutlivesHandler`
(`NoTaskOutlives`); and when no worker dies either, `PresenceIsHeld`
(`PresenceHeld`). None of these is inductive. `Shape` says what a connection's tasks
are at each place of its handler, `Tidy` that, when Redis answers, a task that is
not done is still to be awaited; `RegisteredAt` that a manager holds only
connections of its own under their user, none of them past its `finally`; `Sole`
that a connection no other has shared its entry with is the registered one as long
as its listener could have something to forward. `Sole` is what makes `Forward` a
`Deliver` of the contract: the websocket in the manager is the listener's own.
`ConnMoves` proves once what a step of one connection has to respect; each action
instantiates it. `Recedes` does the same for the refinement: all that the other
steps do to a connection is to let its client go or its listener end.

`LongTermMemoryProofs` proves all five properties of `LongTermMemory`
(`TypeCorrect`, `NoDuplicates`, `OnlyTold`, `StaleWrites`, `TrueAnswers`), for any
users, facts and calls. A call writes what it computed from an old list, so `Inv`
says what it *knows* at its write: the list it read has no duplicates and only facts
told about its user, and differs from the item as it is now by no more than
`missed`. What a deletion computes, the list comprehension, is `Without`: what is
`Picked` at the kept positions, in `Ascending` order, where number `j` is the position
whose `Rank` is `j`.
`RankNumbers` (in `PositionsProofs`) shows that ranks number a finite set without
gaps, from which `WithoutElems` derives that exactly the fact is gone and that no
duplicate appears.

`ChunkParserProofs` proves, for documents of any length over any lines:
`NoLineTwice` (theorem `NothingIndexedTwice`), `OnlyTheLastSectionChanges`
(`EarlierSectionsStay`) and `ParsedAsWritten` (`ProfilesParsedAsWritten`). Assumed
is only that a line is a mark and a value, and what mentions and digits are. The
parser is recursive functions on sequences, and the library's induction theorems
cannot be used; `Induction` states induction for a set of numbers instead and is
derived from the well-foundedness of `<`. With it `SearchIsDefined` and
`FlatIsDefined` show that the recursive functions satisfy their equations,
`HeadingsAreInOrder` that each heading ends before the next one begins, hence
`BodiesAreApart`: what stands `Between` two headings is disjoint from what stands
between two others. A body is a stretch of it (`BodiesLieBetween`), a block's body a
stretch of its section's, and a chunk is drawn from one of them (`ChunksAreDrawn`):
every line indexed has a position of its own in the document, so no line has more
`Occurrences` in the chunks than in the document. For the second theorem
`OneMoreHeading` shows that a line written at the end leaves all the headings found
so far and adds at most one behind them (a bare `##` becomes one when the line with
its name is written), so no section but the last can change (`OtherSectionsStay`).

The third theorem equates the parser, recursion over the document and then over
each section, with `Expected`, which has no recursion: sets of positions, listed by
`Ascending`. The two are not unfolded side by side. Each is shown to be *the*
increasing list of the same positions, and there is one (`AscendingIsTheList`).
- Where every mark has a value the matches are the marked lines, all of them and in
  order (`HeadingsAreMarked`), and a line stands between a heading and the next if
  and only if that heading is the `Nearest` above it (`NearestIsBetween`).
- Stripping takes no filled line from a body (`BodyKeepsFilled`), so what is filled
  of a body is what is picked between the headings (`FilledOfAStretch`).
- A section is a stretch of the document at an offset. Positions shifted by it list
  the same lines (`ListsShift`, `PickedShift`), and within the section the nearest
  `###` is, shifted, the nearest of `##` and `###` in the document
  (`NearestInASection`). So a block's body is what `Expected` reads under its
  heading (`BlockIsUnderItsHeading`). That no heading is named twice gives the one
  line a section is written under (`TheSection`).
- In a block with something behind every mention (`Complete`) a match ends on the
  line it starts on, so it reads what the line `Says` (`ReadingSays`), and the first
  match in the text of a block is what is first said in its name and its filled
  lines (`FirstFound`): leaving out the empty lines keeps the order of the others.
- In the flattened result each section's chunks stand in one piece
  (`FlattenLaysOut`), and their types are told apart, so `Found` picks them back out
  in order (`FoundIsShown`).
- `NoLineIsLost` follows: a filled line has a heading above it, that heading is a
  row of `Expected`, and the row is a chunk. This is where a split section must have
  nothing in front of its first block, as the code would drop it.

`CompressionProofs` proves `TailIsTheLastTurns` (`CutKeepsTheLastTurns`), for any
conversation and any number of turns to keep. `TurnsCounted` identifies the number
of turn boundaries with the cardinality of the set of human positions; `CutAtATurn`
shows that behind the position the code picks from the end there are exactly the
turns to keep.

`BackendProofs` proves every invariant of `Backend` for any workers, requests and
emails (`TypeCorrect`, `ServingReady`, `NothingLeftOpen`, `OnlyFirstStarts`,
`CreatedOwns`, `RefusalsTrue`). `Upright` says of a worker at each
place of its lifespan which clients are open, which collections and indexes exist,
which services have answered; nothing takes a collection or an index back, so the
steps of one worker leave the others `Upright` (`WorkerMoves`). Of registrations the
invariant says that an uncommitted insert is the only one of its email and that its
email is free. The two parts share no variable, so a step of one leaves the
invariant of the other (`LifespanMoves`, `ServeKeeps`); only `Die` moves both.

Only model-checked. Liveness (`RefreshSucceeds`, `CleanedUp`,
`EveryMessageAnswered`, `PresenceFades`, `EventuallyIndexed`, `EveryStopEnds`,
`EveryRequestEnds`): it rests on fairness and ENABLED, which the provers do not
handle. Every safety invariant and action property of a passing run has a theorem.

## 8. Not modelled

JWT encoding, password hashing, HTTP status codes and the formatting of answers:
the models keep only what they decide. The WebSocket handshake's token check is
in `AuthSessions` (kind `websocket`); `WebSockets` starts where it succeeded. A
request of Qdrant that is applied after its client gave up. Replies of the
embeddings service with fewer vectors than texts. The agents' read tools, text
extraction, LLM clients, the prompt cache's ping and the embeddings client (no
state of their own, or I/O through a library). Error mapping, except where a
model needs what the client is told (`Registration`). The schema of tables no
code in the source uses. The engines (no source). What `maybe_compress` does but
for the cut: its token estimate, and the briefing a language model would write
behind the line that raises (section 5).

## 9. Plan

Done: `AuthSessions`, `WebSockets`, `ProfileIngestion`, `LongTermMemory`,
`ChunkParser`, `Compression`, `Lifespan` with `Registration` in `Backend`, each with
proofs of its safety properties, the two refinements included.

Left: `Backend` with the WebSocket handler and uploads as requests, to check that a
stop waits for a connection only as long as its client stays.
