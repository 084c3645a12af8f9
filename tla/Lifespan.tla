------------------------------ MODULE Lifespan ------------------------------
(***************************************************************************)
(* The lifespan of the application in main.py, run by every worker process *)
(* when it starts and when it stops: the clients it opens and closes, the  *)
(* Qdrant collections and indexes it sets up together with the workers     *)
(* that start at the same time, and the services it asks before it serves. *)
(*                                                                         *)
(* A step ends at an await; every await may raise.  A worker process that  *)
(* dies, or whose lifespan raised, is started again or not.                *)
(***************************************************************************)
EXTENDS Integers, Sequences, FiniteSets, SequencesExt

CONSTANTS Worker,
          ServicesMayFail   \* PostgreSQL, Redis and Qdrant may raise

ASSUME ServicesMayFailAssumption == ServicesMayFail \in BOOLEAN

VARIABLES
  at,           \* where each worker's lifespan is
  step,         \* the place in the loop it is in
  open,         \* the clients it holds open
  answered,     \* the services that answered its check
  keepalive,    \* its prompt cache task runs
  collections,  \* the Qdrant collections that exist
  indexed,      \* those with an index on user_id
  found,        \* history: the collections that existed when it started
  cause         \* history: why its lifespan raised

workerVars == <<at, step, open, answered, keepalive, found, cause>>
lifespanVars == <<at, step, open, answered, keepalive, collections, indexed,
                  found, cause>>

Collections == <<"profile_chunks", "prep_chunks">>
Services == <<"postgresql", "redis", "qdrant">>
Stores == {"checkpointer", "store"}
Clients == {"redis", "pubsub", "qdrant"} \cup Stores

StartingUp == {"exists", "create", "index", "checkpointer", "store", "setup", "check"}
Serving == {"serving", "draining"}
ShuttingDown == {"pubsub", "redis", "qdrant"}
Over == {"raised", "ended"}

LifespanTypeOK ==
  /\ at \in [Worker -> {"down"} \cup StartingUp \cup Serving \cup ShuttingDown \cup Over]
  /\ step \in [Worker -> 1 .. 3]
  /\ open \in [Worker -> SUBSET Clients]
  /\ answered \in [Worker -> SUBSET ToSet(Services)]
  /\ keepalive \in [Worker -> BOOLEAN]
  /\ collections \subseteq ToSet(Collections)
  /\ indexed \subseteq ToSet(Collections)
  /\ found \in [Worker -> SUBSET ToSet(Collections)]
  /\ cause \in [Worker -> {"none", "service", "conflict"}]

LifespanInit ==
  /\ at = [w \in Worker |-> "down"]
  /\ step = [w \in Worker |-> 1]
  /\ open = [w \in Worker |-> {}]
  /\ answered = [w \in Worker |-> {}]
  /\ keepalive = [w \in Worker |-> FALSE]
  /\ collections = {}
  /\ indexed = {}
  /\ found = [w \in Worker |-> {}]
  /\ cause = [w \in Worker |-> "none"]

GoTo(w, place, n) ==
  /\ at' = [at EXCEPT ![w] = place]
  /\ step' = [step EXCEPT ![w] = n]

\* Mutant: the place in the loop is not reset behind it.
AdvanceOn(w, n, behind) ==
  GoTo(w, IF step[w] < n THEN at[w] ELSE behind, step[w] + 1)

\* On to the next element of a loop of n elements, or to the place behind it.
Advance(w, n, behind) ==
  IF step[w] < n THEN GoTo(w, at[w], step[w] + 1) ELSE GoTo(w, behind, 1)

----------------------------------------------------------------------------
\* The clients are built up to the first await; building opens no connection.
Boot(w) ==
  /\ at[w] = "down"
  /\ GoTo(w, "exists", 1)
  /\ open' = [open EXCEPT ![w] = {"redis", "pubsub", "qdrant"}]
  /\ found' = [found EXCEPT ![w] = collections]
  /\ cause' = [cause EXCEPT ![w] = "none"]
  /\ UNCHANGED <<answered, keepalive, collections, indexed>>

(***************************************************************************)
(* An exception leaves the async with block, which closes both stores, and *)
(* then the lifespan: the code behind the yield does not run.              *)
(***************************************************************************)
\* Mutant: the stores are opened without the block that closes them.
RaiseWithoutBlock(w, why) ==
  /\ GoTo(w, "raised", 1)
  /\ cause' = [cause EXCEPT ![w] = why]
  /\ UNCHANGED <<open, answered, keepalive, indexed, found>>
Raise(w, why) ==
  /\ GoTo(w, "raised", 1)
  /\ open' = [open EXCEPT ![w] = @ \ Stores]
  /\ cause' = [cause EXCEPT ![w] = why]
  /\ UNCHANGED <<answered, keepalive, indexed, found>>

\* setup_collections: each collection is created unless it is found, ...
AfterCollection(w) ==
  /\ IF step[w] < Len(Collections) THEN GoTo(w, "exists", step[w] + 1)
                                   ELSE GoTo(w, "index", 1)
  /\ UNCHANGED <<open, answered, keepalive, indexed, found, cause>>
\* Mutant: each start creates the collections.
CollectionExistsUnasked(w) ==
  /\ at[w] = "exists"
  /\ GoTo(w, "create", step[w])
  /\ UNCHANGED <<open, answered, keepalive, collections, indexed, found, cause>>
CollectionExists(w) ==
  /\ at[w] = "exists"
  /\ UNCHANGED collections
  /\ IF Collections[step[w]] \in collections THEN AfterCollection(w)
     ELSE /\ GoTo(w, "create", step[w])
          /\ UNCHANGED <<open, answered, keepalive, indexed, found, cause>>

\* ... which Qdrant refuses when another worker was faster, ...
CreateCollection(w) ==
  /\ at[w] = "create"
  /\ collections' = collections \cup {Collections[step[w]]}
  /\ IF Collections[step[w]] \in collections THEN Raise(w, "conflict")
                                             ELSE AfterCollection(w)

\* ... and each gets its index, again and again.
CreatePayloadIndex(w) ==
  /\ at[w] = "index"
  /\ indexed' = indexed \cup {Collections[step[w]]}
  /\ Advance(w, Len(Collections), "checkpointer")
  /\ UNCHANGED <<open, answered, keepalive, collections, found, cause>>

\* The async with block is entered, the checkpointer before the store.
OpenStore(w) ==
  /\ at[w] \in Stores
  /\ open' = [open EXCEPT ![w] = @ \cup {at[w]}]
  /\ GoTo(w, IF at[w] = "checkpointer" THEN "store" ELSE "setup", 1)
  /\ UNCHANGED <<answered, keepalive, collections, indexed, found, cause>>

\* The tables of both; then the prompts are registered and the task started.
SetUpTables(w) ==
  /\ at[w] = "setup"
  /\ Advance(w, 2, "check")
  /\ keepalive' = IF step[w] = 2 THEN [keepalive EXCEPT ![w] = TRUE]
                               ELSE keepalive
  /\ UNCHANGED <<open, answered, collections, indexed, found, cause>>

\* _check_dependencies: every service has to answer before the yield.
\* Mutant: a service that does not answer is only logged.
CheckDependencyLogged(w) ==
  /\ at[w] = "check"
  /\ \/ answered' = [answered EXCEPT ![w] = @ \cup {Services[step[w]]}]
     \/ ServicesMayFail /\ UNCHANGED answered
  /\ Advance(w, Len(Services), "serving")
  /\ UNCHANGED <<open, keepalive, collections, indexed, found, cause>>
CheckDependency(w) ==
  /\ at[w] = "check"
  /\ answered' = [answered EXCEPT ![w] = @ \cup {Services[step[w]]}]
  /\ Advance(w, Len(Services), "serving")
  /\ UNCHANGED <<open, keepalive, collections, indexed, found, cause>>

\* A service raises or is unreachable; a creation may still have been applied.
StartupRaises(w) ==
  /\ ServicesMayFail
  /\ at[w] \in StartingUp
  /\ \/ UNCHANGED collections
     \/ at[w] = "create" /\ collections' = collections \cup {Collections[step[w]]}
  /\ Raise(w, "service")

----------------------------------------------------------------------------
\* The server is told to stop; it takes no new request.
Stop(w) ==
  /\ at[w] = "serving"
  /\ GoTo(w, "draining", 1)
  /\ UNCHANGED <<open, answered, keepalive, collections, indexed, found, cause>>

\* The lifespan goes on behind the yield: the stores are closed, ...
LeaveBlock(w) ==
  /\ at[w] = "draining"
  /\ UNCHANGED collections
  /\ \/ /\ GoTo(w, "pubsub", 1)
        /\ open' = [open EXCEPT ![w] = @ \ Stores]
        /\ UNCHANGED <<answered, keepalive, indexed, found, cause>>
     \/ ServicesMayFail /\ Raise(w, "service")

\* ... then the pub/sub clients, the Redis pools and Qdrant; not the task.
CloseClient(w) ==
  /\ at[w] \in ShuttingDown
  /\ open' = [open EXCEPT ![w] = @ \ {at[w]}]
  /\ GoTo(w, CASE at[w] = "pubsub" -> "redis" [] at[w] = "redis" -> "qdrant"
               [] OTHER -> "ended", 1)
  /\ UNCHANGED <<answered, keepalive, collections, indexed, found, cause>>

ShutdownRaises(w) ==
  /\ ServicesMayFail
  /\ at[w] \in ShuttingDown
  /\ Raise(w, "service")
  /\ UNCHANGED collections

\* The process ends, at once when it is killed; what it held is released.
ProcessEnds(w) ==
  /\ GoTo(w, "down", 1)
  /\ open' = [open EXCEPT ![w] = {}]
  /\ answered' = [answered EXCEPT ![w] = {}]
  /\ keepalive' = [keepalive EXCEPT ![w] = FALSE]
  /\ found' = [found EXCEPT ![w] = {}]
  /\ UNCHANGED <<collections, indexed, cause>>
Exit(w) == at[w] \in Over /\ ProcessEnds(w)
Kill(w) == at[w] # "down" /\ ProcessEnds(w)

LifespanStep(w) ==       \* what goes on by itself, once booted
  \/ CollectionExists(w) \/ CreateCollection(w) \/ CreatePayloadIndex(w)
  \/ OpenStore(w) \/ SetUpTables(w) \/ CheckDependency(w)
  \/ CloseClient(w) \/ Exit(w)
LifespanFails(w) == StartupRaises(w) \/ ShutdownRaises(w)

----------------------------------------------------------------------------
(***************************************************************************)
(* A worker serves only with everything its handlers use: all clients      *)
(* open, both collections and their indexes in Qdrant, whoever created     *)
(* them, each service asked since this start, and the prompt cache task.   *)
(***************************************************************************)
ServingIsReady ==
  \A w \in Worker : at[w] \in Serving =>
    /\ open[w] = Clients
    /\ answered[w] = ToSet(Services)
    /\ collections = ToSet(Collections) /\ indexed = ToSet(Collections)
    /\ keepalive[w]

(***************************************************************************)
(* Where a lifespan may end: after a shutdown no client is open; after an  *)
(* exception, at whatever step, no store is, and nothing is left open once *)
(* the process has exited.                                                 *)
(***************************************************************************)
NothingStaysOpen ==
  \A w \in Worker :
    /\ at[w] \in {"ended", "down"} => open[w] = {}
    /\ at[w] \in ShuttingDown \cup {"raised"} => open[w] \cap Stores = {}
    /\ at[w] \in {"redis", "qdrant"} => "pubsub" \notin open[w]

(***************************************************************************)
(* Workers that start together race to create the collections, and the     *)
(* loser's start fails.  That ends with the first start that gets through: *)
(* a worker that starts when both exist never fails for this reason.       *)
(***************************************************************************)
OnlyFirstStartsConflict ==
  \A w \in Worker : cause[w] = "conflict" /\ at[w] # "down"
    => found[w] # ToSet(Collections)
============================================================================
