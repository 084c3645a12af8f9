--------------------------- MODULE BackendProofs ---------------------------
(* Proofs about Backend, for any workers, requests and emails, whichever   *)
(* services fail and whenever workers stop, die and start again.           *)
EXTENDS Backend, TLAPS

Base == {"redis", "pubsub", "qdrant"}
CheckedIn == {"check"} \cup Serving
StoresOpen == {"setup"} \cup CheckedIn
IndexesUp == {"checkpointer", "store"} \cup StoresOpen
CollectionsUp == {"index"} \cup IndexesUp

(* What a worker has done by the time its lifespan is at place a, step n.  *)
Steps(a, n) ==
  /\ a \in {"exists", "create", "index", "setup"} => n \in 1..2
  /\ a \notin {"exists", "create", "index", "setup", "check"} => n = 1
SetUp(a, n, C, I) ==
  /\ a \in {"exists", "create"} => \A i \in 1..2 : i < n => Collections[i] \in C
  /\ a \in CollectionsUp => \A i \in 1..2 : Collections[i] \in C
  /\ a = "index" => \A i \in 1..2 : i < n => Collections[i] \in I
  /\ a \in IndexesUp => \A i \in 1..2 : Collections[i] \in I
Checked(a, n, s, k) ==
  /\ a = "check" => \A i \in 1..3 : i < n => Services[i] \in s
  /\ a \in Serving => \A i \in 1..3 : Services[i] \in s
  /\ a \in CheckedIn => k
Holds(a, o) ==
  /\ a \in {"exists", "create", "index", "checkpointer"} => o = Base
  /\ a = "store" => o = Base \cup {"checkpointer"}
  /\ a \in StoresOpen => o = Clients
  /\ a = "pubsub" => o = Base
  /\ a = "redis" => o = {"redis", "qdrant"}
  /\ a = "qdrant" => o = {"qdrant"}
  /\ a \in {"ended", "down"} => o = {}
  /\ a = "raised" => o \cap Stores = {}
Raced(a, n, C, f, c) ==
  /\ f \subseteq C
  /\ a = "create" => Collections[n] \notin f
  /\ c = "conflict" /\ a # "down" => \E i \in 1..2 : Collections[i] \notin f

Upright(w) ==
  /\ Steps(at[w], step[w])
  /\ SetUp(at[w], step[w], collections, indexed)
  /\ Checked(at[w], step[w], answered[w], keepalive[w])
  /\ Holds(at[w], open[w])
  /\ Raced(at[w], step[w], collections, found[w], cause[w])
LifespanInv == LifespanTypeOK /\ \A w \in Worker : Upright(w)

-----------------------------------------------------------------------------
LEMMA Names ==
  /\ Len(Collections) = 2 /\ ToSet(Collections) = {"profile_chunks", "prep_chunks"}
  /\ Collections[1] = "profile_chunks" /\ Collections[2] = "prep_chunks"
  /\ Len(Services) = 3 /\ ToSet(Services) = {"postgresql", "redis", "qdrant"}
  /\ Services[1] = "postgresql" /\ Services[2] = "redis" /\ Services[3] = "qdrant"
BY DEF Collections, Services, ToSet

LEMMA InitLifespan == LifespanInit => LifespanInv
BY Names DEF LifespanInit, LifespanInv, LifespanTypeOK, Upright, Steps, SetUp, Checked,
  Holds, Raced, CollectionsUp, IndexesUp, StoresOpen, CheckedIn, Serving, Clients, Base

(* A step of worker w leaves the others as they are, and takes back no     *)
(* collection and no index.                                                *)
Others(w) ==
  \A v \in Worker \ {w} :
    /\ at'[v] = at[v] /\ step'[v] = step[v] /\ open'[v] = open[v]
    /\ answered'[v] = answered[v] /\ keepalive'[v] = keepalive[v]
    /\ found'[v] = found[v] /\ cause'[v] = cause[v]
Grows == collections \subseteq collections' /\ indexed \subseteq indexed'

LEMMA WorkerMoves ==
  ASSUME LifespanInv, NEW w \in Worker, LifespanTypeOK', Others(w), Grows, Upright(w)'
  PROVE  LifespanInv'
<1> SUFFICES ASSUME NEW v \in Worker, v # w PROVE Upright(v)'
  BY DEF LifespanInv
<1>1. Upright(v)
  BY DEF LifespanInv
<1>2. /\ at'[v] = at[v] /\ step'[v] = step[v] /\ open'[v] = open[v]
      /\ answered'[v] = answered[v] /\ keepalive'[v] = keepalive[v]
      /\ found'[v] = found[v] /\ cause'[v] = cause[v]
  BY DEF Others
<1>3. SetUp(at[v], step[v], collections', indexed')
  BY <1>1 DEF Upright, SetUp, Grows
<1>4. Raced(at[v], step[v], collections', found[v], cause[v])
  BY <1>1 DEF Upright, Raced, Grows
<1> QED
  BY <1>1, <1>2, <1>3, <1>4 DEF Upright

(* One lemma for each thing a lifespan may do.                             *)
USE DEF CollectionsUp, IndexesUp, StoresOpen, CheckedIn, StartingUp, Serving,
        ShuttingDown, Over, Clients, Stores, Base

LEMMA BootKeeps ==
  ASSUME LifespanInv, NEW w \in Worker, Boot(w) PROVE LifespanInv'
<1>1. Upright(w)
  BY DEF LifespanInv
<1>2. LifespanTypeOK' /\ Others(w) /\ Grows
  BY Names, <1>1 DEF LifespanInv, LifespanTypeOK, Boot, GoTo,
    Upright, Steps, Others, Grows
<1>3. Upright(w)'
  BY Names, <1>1 DEF LifespanInv, LifespanTypeOK, Boot, GoTo,
    Upright, Steps, SetUp, Checked, Holds, Raced
<1> QED
  BY <1>2, <1>3, WorkerMoves

LEMMA CollectionExistsKeeps ==
  ASSUME LifespanInv, NEW w \in Worker, CollectionExists(w) PROVE LifespanInv'
<1>1. Upright(w)
  BY DEF LifespanInv
<1>2. LifespanTypeOK' /\ Others(w) /\ Grows
  BY Names, <1>1 DEF LifespanInv, LifespanTypeOK, CollectionExists, AfterCollection, GoTo,
    Upright, Steps, Others, Grows
<1>3. Upright(w)'
  BY Names, <1>1 DEF LifespanInv, LifespanTypeOK, CollectionExists, AfterCollection, GoTo,
    Upright, Steps, SetUp, Checked, Holds, Raced
<1> QED
  BY <1>2, <1>3, WorkerMoves

LEMMA CreateCollectionKeeps ==
  ASSUME LifespanInv, NEW w \in Worker, CreateCollection(w) PROVE LifespanInv'
<1>1. Upright(w)
  BY DEF LifespanInv
<1>2. LifespanTypeOK' /\ Others(w) /\ Grows
  BY Names, <1>1 DEF LifespanInv, LifespanTypeOK, CreateCollection, AfterCollection, Raise, GoTo,
    Upright, Steps, Others, Grows
<1>3. Upright(w)'
  BY Names, <1>1 DEF LifespanInv, LifespanTypeOK, CreateCollection, AfterCollection, Raise, GoTo,
    Upright, Steps, SetUp, Checked, Holds, Raced
<1> QED
  BY <1>2, <1>3, WorkerMoves

LEMMA CreatePayloadIndexKeeps ==
  ASSUME LifespanInv, NEW w \in Worker, CreatePayloadIndex(w) PROVE LifespanInv'
<1>1. Upright(w)
  BY DEF LifespanInv
<1>2. LifespanTypeOK' /\ Others(w) /\ Grows
  BY Names, <1>1 DEF LifespanInv, LifespanTypeOK, CreatePayloadIndex, Advance, GoTo,
    Upright, Steps, Others, Grows
<1>3. Upright(w)'
  BY Names, <1>1 DEF LifespanInv, LifespanTypeOK, CreatePayloadIndex, Advance, GoTo,
    Upright, Steps, SetUp, Checked, Holds, Raced
<1> QED
  BY <1>2, <1>3, WorkerMoves

LEMMA OpenStoreKeeps ==
  ASSUME LifespanInv, NEW w \in Worker, OpenStore(w) PROVE LifespanInv'
<1>1. Upright(w)
  BY DEF LifespanInv
<1>2. LifespanTypeOK' /\ Others(w) /\ Grows
  BY Names, <1>1 DEF LifespanInv, LifespanTypeOK, OpenStore, GoTo,
    Upright, Steps, Others, Grows
<1>3. Upright(w)'
  BY Names, <1>1 DEF LifespanInv, LifespanTypeOK, OpenStore, GoTo,
    Upright, Steps, SetUp, Checked, Holds, Raced
<1> QED
  BY <1>2, <1>3, WorkerMoves

LEMMA SetUpTablesKeeps ==
  ASSUME LifespanInv, NEW w \in Worker, SetUpTables(w) PROVE LifespanInv'
<1>1. Upright(w)
  BY DEF LifespanInv
<1>2. LifespanTypeOK' /\ Others(w) /\ Grows
  BY Names, <1>1 DEF LifespanInv, LifespanTypeOK, SetUpTables, Advance, GoTo,
    Upright, Steps, Others, Grows
<1>3. Upright(w)'
  BY Names, <1>1 DEF LifespanInv, LifespanTypeOK, SetUpTables, Advance, GoTo,
    Upright, Steps, SetUp, Checked, Holds, Raced
<1> QED
  BY <1>2, <1>3, WorkerMoves

LEMMA CheckDependencyKeeps ==
  ASSUME LifespanInv, NEW w \in Worker, CheckDependency(w) PROVE LifespanInv'
<1>1. Upright(w)
  BY DEF LifespanInv
<1>2. LifespanTypeOK' /\ Others(w) /\ Grows
  BY Names, <1>1 DEF LifespanInv, LifespanTypeOK, CheckDependency, Advance, GoTo,
    Upright, Steps, Others, Grows
<1>3. Upright(w)'
  BY Names, <1>1 DEF LifespanInv, LifespanTypeOK, CheckDependency, Advance, GoTo,
    Upright, Steps, SetUp, Checked, Holds, Raced
<1> QED
  BY <1>2, <1>3, WorkerMoves

LEMMA StartupRaisesKeeps ==
  ASSUME LifespanInv, NEW w \in Worker, StartupRaises(w) PROVE LifespanInv'
<1>1. Upright(w)
  BY DEF LifespanInv
<1>2. LifespanTypeOK' /\ Others(w) /\ Grows
  BY Names, <1>1 DEF LifespanInv, LifespanTypeOK, StartupRaises, Raise, GoTo,
    Upright, Steps, Others, Grows
<1>3. Upright(w)'
  BY Names, <1>1 DEF LifespanInv, LifespanTypeOK, StartupRaises, Raise, GoTo,
    Upright, Steps, SetUp, Checked, Holds, Raced
<1> QED
  BY <1>2, <1>3, WorkerMoves

LEMMA StopKeeps ==
  ASSUME LifespanInv, NEW w \in Worker, Stop(w) PROVE LifespanInv'
<1>1. Upright(w)
  BY DEF LifespanInv
<1>2. LifespanTypeOK' /\ Others(w) /\ Grows
  BY Names, <1>1 DEF LifespanInv, LifespanTypeOK, Stop, GoTo,
    Upright, Steps, Others, Grows
<1>3. Upright(w)'
  BY Names, <1>1 DEF LifespanInv, LifespanTypeOK, Stop, GoTo,
    Upright, Steps, SetUp, Checked, Holds, Raced
<1> QED
  BY <1>2, <1>3, WorkerMoves

LEMMA LeaveBlockKeeps ==
  ASSUME LifespanInv, NEW w \in Worker, LeaveBlock(w) PROVE LifespanInv'
<1>1. Upright(w)
  BY DEF LifespanInv
<1>2. LifespanTypeOK' /\ Others(w) /\ Grows
  BY Names, <1>1 DEF LifespanInv, LifespanTypeOK, LeaveBlock, Raise, GoTo,
    Upright, Steps, Others, Grows
<1>3. Upright(w)'
  BY Names, <1>1 DEF LifespanInv, LifespanTypeOK, LeaveBlock, Raise, GoTo,
    Upright, Steps, SetUp, Checked, Holds, Raced
<1> QED
  BY <1>2, <1>3, WorkerMoves

LEMMA CloseClientKeeps ==
  ASSUME LifespanInv, NEW w \in Worker, CloseClient(w) PROVE LifespanInv'
<1>1. Upright(w)
  BY DEF LifespanInv
<1>2. LifespanTypeOK' /\ Others(w) /\ Grows
  BY Names, <1>1 DEF LifespanInv, LifespanTypeOK, CloseClient, GoTo,
    Upright, Steps, Others, Grows
<1>3. Upright(w)'
  BY Names, <1>1 DEF LifespanInv, LifespanTypeOK, CloseClient, GoTo,
    Upright, Steps, SetUp, Checked, Holds, Raced
<1> QED
  BY <1>2, <1>3, WorkerMoves

LEMMA ShutdownRaisesKeeps ==
  ASSUME LifespanInv, NEW w \in Worker, ShutdownRaises(w) PROVE LifespanInv'
<1>1. Upright(w)
  BY DEF LifespanInv
<1>2. LifespanTypeOK' /\ Others(w) /\ Grows
  BY Names, <1>1 DEF LifespanInv, LifespanTypeOK, ShutdownRaises, Raise, GoTo,
    Upright, Steps, Others, Grows
<1>3. Upright(w)'
  BY Names, <1>1 DEF LifespanInv, LifespanTypeOK, ShutdownRaises, Raise, GoTo,
    Upright, Steps, SetUp, Checked, Holds, Raced
<1> QED
  BY <1>2, <1>3, WorkerMoves

LEMMA ProcessEndsKeeps ==
  ASSUME LifespanInv, NEW w \in Worker, ProcessEnds(w) PROVE LifespanInv'
<1>1. Upright(w)
  BY DEF LifespanInv
<1>2. LifespanTypeOK' /\ Others(w) /\ Grows
  BY Names, <1>1 DEF LifespanInv, LifespanTypeOK, ProcessEnds, GoTo,
    Upright, Steps, Others, Grows
<1>3. Upright(w)'
  BY Names, <1>1 DEF LifespanInv, LifespanTypeOK, ProcessEnds, GoTo,
    Upright, Steps, SetUp, Checked, Holds, Raced
<1> QED
  BY <1>2, <1>3, WorkerMoves

-----------------------------------------------------------------------------
(* Registrations.  An account is its request's own, and only requests that *)
(* have committed have one; of the requests of an email at most one has an *)
(* uncommitted row, and only while there is no account.                    *)
Untold ==
  \A r \in Request : where[r] # "answered" => answer[r] = None /\ ~broken[r]
OwnAccounts ==
  \A r \in Request, e \in Email : accounts[e] = r =>
    email[r] = e /\ where[r] \in {"respond"} \cup Finished
OneRow ==
  \A r \in Request : where[r] = "commit" =>
    /\ accounts[email[r]] = None
    /\ \A q \in Request \ {r} : where[q] = "commit" => email[q] # email[r]
Committed ==
  \A r \in Request : where[r] = "respond" => accounts[email[r]] = r
HasEmail == \A r \in Request : where[r] # "new" => email[r] \in Email

RegistrationInv ==
  /\ RegistrationTypeOK /\ HasEmail /\ Untold /\ OwnAccounts /\ OneRow /\ Committed
  /\ CreatedOwnsTheAccount /\ RefusalsAreTrue

USE DEF InFlight, Finished

LEMMA InitRegistration == RegistrationInit => RegistrationInv
BY NoneAssumption DEF RegistrationInit, RegistrationInv, RegistrationTypeOK, HasEmail,
  Untold, OwnAccounts, OneRow, Committed, CreatedOwnsTheAccount, RefusalsAreTrue

LEMMA ReceiveKeeps ==
  ASSUME RegistrationInv, NEW r \in Request, NEW e \in Email, Receive(r, e) PROVE RegistrationInv'
<1>1. RegistrationTypeOK' /\ HasEmail' /\ Untold' /\ Committed'
  BY NoneAssumption DEF RegistrationInv, RegistrationTypeOK, HasEmail, Untold, Committed,
    OneRow, Receive
<1>2. OwnAccounts' /\ OneRow'
  BY NoneAssumption DEF RegistrationInv, RegistrationTypeOK, HasEmail, OwnAccounts, OneRow,
    Receive
<1>3. CreatedOwnsTheAccount' /\ RefusalsAreTrue'
  BY NoneAssumption DEF RegistrationInv, RegistrationTypeOK, HasEmail, Untold, OwnAccounts,
    OneRow, Committed, CreatedOwnsTheAccount, RefusalsAreTrue, Receive
<1> QED
  BY <1>1, <1>2, <1>3 DEF RegistrationInv

LEMMA GetByEmailKeeps ==
  ASSUME RegistrationInv, NEW r \in Request, GetByEmail(r) PROVE RegistrationInv'
<1>1. RegistrationTypeOK' /\ HasEmail' /\ Untold' /\ Committed'
  BY NoneAssumption DEF RegistrationInv, RegistrationTypeOK, HasEmail, Untold, Committed,
    OneRow, GetByEmail, Tell, GoOn
<1>2. OwnAccounts' /\ OneRow'
  BY NoneAssumption DEF RegistrationInv, RegistrationTypeOK, HasEmail, OwnAccounts, OneRow,
    GetByEmail, Tell, GoOn
<1>3. CreatedOwnsTheAccount' /\ RefusalsAreTrue'
  BY NoneAssumption DEF RegistrationInv, RegistrationTypeOK, HasEmail, Untold, OwnAccounts,
    OneRow, Committed, CreatedOwnsTheAccount, RefusalsAreTrue, GetByEmail, Tell, GoOn
<1> QED
  BY <1>1, <1>2, <1>3 DEF RegistrationInv

LEMMA CreateKeeps ==
  ASSUME RegistrationInv, NEW r \in Request, Create(r) PROVE RegistrationInv'
<1>1. RegistrationTypeOK' /\ HasEmail' /\ Untold' /\ Committed'
  BY NoneAssumption DEF RegistrationInv, RegistrationTypeOK, HasEmail, Untold, Committed,
    OneRow, Create, Inserted, Tell, GoOn
<1>2. OwnAccounts' /\ OneRow'
  BY NoneAssumption DEF RegistrationInv, RegistrationTypeOK, HasEmail, OwnAccounts, OneRow,
    Create, Inserted, Tell, GoOn
<1>3. CreatedOwnsTheAccount' /\ RefusalsAreTrue'
  BY NoneAssumption DEF RegistrationInv, RegistrationTypeOK, HasEmail, Untold, OwnAccounts,
    OneRow, Committed, CreatedOwnsTheAccount, RefusalsAreTrue, Create, Inserted, Tell, GoOn
<1> QED
  BY <1>1, <1>2, <1>3 DEF RegistrationInv

LEMMA CommitKeeps ==
  ASSUME RegistrationInv, NEW r \in Request, Commit(r) PROVE RegistrationInv'
<1>1. RegistrationTypeOK' /\ HasEmail' /\ Untold' /\ Committed'
  BY NoneAssumption DEF RegistrationInv, RegistrationTypeOK, HasEmail, Untold, Committed,
    OneRow, Commit, GoOn
<1>2. OwnAccounts' /\ OneRow'
  BY NoneAssumption DEF RegistrationInv, RegistrationTypeOK, HasEmail, OwnAccounts, OneRow,
    Commit, GoOn
<1>3. CreatedOwnsTheAccount' /\ RefusalsAreTrue'
  BY NoneAssumption DEF RegistrationInv, RegistrationTypeOK, HasEmail, Untold, OwnAccounts,
    OneRow, Committed, CreatedOwnsTheAccount, RefusalsAreTrue, Commit, GoOn
<1> QED
  BY <1>1, <1>2, <1>3 DEF RegistrationInv

LEMMA RespondKeeps ==
  ASSUME RegistrationInv, NEW r \in Request, Respond(r) PROVE RegistrationInv'
<1>1. RegistrationTypeOK' /\ HasEmail' /\ Untold' /\ Committed'
  BY NoneAssumption DEF RegistrationInv, RegistrationTypeOK, HasEmail, Untold, Committed,
    OneRow, Respond, Tell
<1>2. OwnAccounts' /\ OneRow'
  BY NoneAssumption DEF RegistrationInv, RegistrationTypeOK, HasEmail, OwnAccounts, OneRow,
    Respond, Tell
<1>3. CreatedOwnsTheAccount' /\ RefusalsAreTrue'
  BY NoneAssumption DEF RegistrationInv, RegistrationTypeOK, HasEmail, Untold, OwnAccounts,
    OneRow, Committed, CreatedOwnsTheAccount, RefusalsAreTrue, Respond, Tell
<1> QED
  BY <1>1, <1>2, <1>3 DEF RegistrationInv

LEMMA DatabaseRaisesKeeps ==
  ASSUME RegistrationInv, NEW r \in Request, DatabaseRaises(r) PROVE RegistrationInv'
<1>1. RegistrationTypeOK' /\ HasEmail' /\ Untold' /\ Committed'
  BY NoneAssumption DEF RegistrationInv, RegistrationTypeOK, HasEmail, Untold, Committed,
    OneRow, DatabaseRaises, Tell
<1>2. OwnAccounts' /\ OneRow'
  BY NoneAssumption DEF RegistrationInv, RegistrationTypeOK, HasEmail, OwnAccounts, OneRow,
    DatabaseRaises, Tell
<1>3. CreatedOwnsTheAccount' /\ RefusalsAreTrue'
  BY NoneAssumption DEF RegistrationInv, RegistrationTypeOK, HasEmail, Untold, OwnAccounts,
    OneRow, Committed, CreatedOwnsTheAccount, RefusalsAreTrue, DatabaseRaises, Tell
<1> QED
  BY <1>1, <1>2, <1>3 DEF RegistrationInv

LEMMA AbortRequestsKeeps ==
  ASSUME RegistrationInv, NEW S \in SUBSET Request, AbortRequests(S) PROVE RegistrationInv'
<1>1. RegistrationTypeOK' /\ HasEmail' /\ Untold' /\ Committed'
  BY NoneAssumption DEF RegistrationInv, RegistrationTypeOK, HasEmail, Untold, Committed,
    OneRow, AbortRequests
<1>2. OwnAccounts' /\ OneRow'
  BY NoneAssumption DEF RegistrationInv, RegistrationTypeOK, HasEmail, OwnAccounts, OneRow,
    AbortRequests
<1>3. CreatedOwnsTheAccount' /\ RefusalsAreTrue'
  BY NoneAssumption DEF RegistrationInv, RegistrationTypeOK, HasEmail, Untold, OwnAccounts,
    OneRow, Committed, CreatedOwnsTheAccount, RefusalsAreTrue, AbortRequests
<1> QED
  BY <1>1, <1>2, <1>3 DEF RegistrationInv

-----------------------------------------------------------------------------
(* The composition.                                                        *)
Inv == LifespanInv /\ RegistrationInv /\ worker \in [Request -> Worker \cup {None}]

LEMMA InitInv == Init => Inv
<1> SUFFICES ASSUME Init PROVE Inv
  OBVIOUS
<1>1. LifespanInv /\ RegistrationInv
  BY InitLifespan, InitRegistration DEF Init
<1>2. worker \in [Request -> Worker \cup {None}]
  BY DEF Init
<1> QED
  BY <1>1, <1>2 DEF Inv

LEMMA LifespanUnchanged ==
  ASSUME LifespanInv, UNCHANGED lifespanVars PROVE LifespanInv'
BY DEF LifespanInv, LifespanTypeOK, lifespanVars, Upright, Steps, SetUp, Checked, Holds, Raced

LEMMA RegistrationUnchanged ==
  ASSUME RegistrationInv, UNCHANGED registrationVars PROVE RegistrationInv'
BY DEF RegistrationInv, RegistrationTypeOK, HasEmail, Untold, OwnAccounts, OneRow,
  Committed, CreatedOwnsTheAccount, RefusalsAreTrue, registrationVars

(* A step of a lifespan leaves the requests as they are.                   *)
LEMMA LifespanMoves ==
  ASSUME Inv, UNCHANGED <<registrationVars, worker>>, LifespanInv'
  PROVE  Inv'
BY RegistrationUnchanged DEF Inv

(* The steps of a lifespan that goes on by itself, or that fails.          *)
LEMMA StepKeeps ==
  ASSUME LifespanInv, NEW w \in Worker,
         LifespanStep(w) \/ LifespanFails(w) \/ Boot(w) \/ Stop(w)
  PROVE  LifespanInv'
BY BootKeeps, CollectionExistsKeeps, CreateCollectionKeeps, CreatePayloadIndexKeeps,
  OpenStoreKeeps, SetUpTablesKeeps, CheckDependencyKeeps, StartupRaisesKeeps, StopKeeps,
  CloseClientKeeps, ShutdownRaisesKeeps, ProcessEndsKeeps
  DEF LifespanStep, LifespanFails, Exit

LEMMA ServeKeeps ==
  ASSUME Inv, NEW r \in Request, RequestStep(r) \/ DatabaseRaises(r),
         UNCHANGED <<lifespanVars, worker>>
  PROVE  Inv'
<1>1. LifespanInv'
  BY LifespanUnchanged DEF Inv
<1>2. RegistrationInv'
  BY GetByEmailKeeps, CreateKeeps, CommitKeeps, RespondKeeps, DatabaseRaisesKeeps
    DEF Inv, RequestStep
<1> QED
  BY <1>1, <1>2 DEF Inv

LEMMA NextInv == Inv /\ [Next]_vars => Inv'
<1> SUFFICES ASSUME Inv, [Next]_vars PROVE Inv'
  OBVIOUS
<1>1. ASSUME NEW w \in Worker, Boot(w) \/ Stop(w) \/ LifespanStep(w) \/ LifespanFails(w),
             UNCHANGED <<registrationVars, worker>>
      PROVE  Inv'
  BY <1>1, StepKeeps, LifespanMoves DEF Inv
<1>2. ASSUME NEW w \in Worker, Resume(w) PROVE Inv'
  <2>1. LifespanInv'
    BY <1>2, LeaveBlockKeeps DEF Inv, Resume
  <2> QED
    BY <1>2, <2>1, LifespanMoves DEF Resume
<1>3. ASSUME NEW w \in Worker, Die(w) PROVE Inv'
  <2>1. LifespanInv'
    BY <1>3, ProcessEndsKeeps DEF Inv, Die, Kill
  <2>2. RegistrationInv'
    BY <1>3, AbortRequestsKeeps DEF Inv, Die, On
  <2> QED
    BY <1>3, <2>1, <2>2 DEF Inv, Die
<1>4. ASSUME NEW w \in Worker, NEW r \in Request, NEW e \in Email, Take(w, r, e) PROVE Inv'
  <2>1. LifespanInv' /\ RegistrationInv'
    BY <1>4, LifespanUnchanged, ReceiveKeeps DEF Inv, Take
  <2>2. worker' \in [Request -> Worker \cup {None}]
    BY <1>4 DEF Inv, Take
  <2> QED
    BY <2>1, <2>2 DEF Inv
<1>5. ASSUME NEW r \in Request, Serve(r) \/ (DatabaseRaises(r) /\ UNCHANGED <<lifespanVars, worker>>)
      PROVE  Inv'
  BY <1>5, ServeKeeps DEF Serve
<1>6. CASE UNCHANGED vars
  BY <1>6, LifespanUnchanged, RegistrationUnchanged
    DEF Inv, vars
<1> QED
  BY <1>1, <1>2, <1>3, <1>4, <1>5, <1>6 DEF Next, WorkerStep

(* The invariant of the composition.                                       *)
THEOREM Invariant == Spec => []Inv
<1> QED
  BY InitInv, NextInv, PTL DEF Spec

(* Every variable keeps its type.                                          *)
THEOREM TypeCorrect == Spec => []TypeOK
<1>1. Inv => TypeOK
  BY DEF Inv, TypeOK, LifespanInv, RegistrationInv
<1> QED
  BY <1>1, Invariant, PTL

(* _check_dependencies and setup_collections: a worker serves only with    *)
(* its clients open, both collections indexed and every service answered.  *)
THEOREM ServingReady == Spec => []ServingIsReady
<1>1. Inv => ServingIsReady
  <2> SUFFICES ASSUME Inv, NEW w \in Worker, at[w] \in Serving
               PROVE  /\ open[w] = Clients /\ answered[w] = ToSet(Services)
                      /\ collections = ToSet(Collections) /\ indexed = ToSet(Collections)
                      /\ keepalive[w]
    BY DEF ServingIsReady
  <2>1. Upright(w)
    BY DEF Inv, LifespanInv
  <2>2. open[w] = Clients /\ keepalive[w]
    BY <2>1 DEF Upright, Holds, Checked
  <2>3. {"postgresql", "redis", "qdrant"} \subseteq answered[w]
    BY <2>1, Names DEF Upright, Checked
  <2>4. answered[w] \subseteq ToSet(Services)
    BY DEF Inv, LifespanInv, LifespanTypeOK
  <2>5. {"profile_chunks", "prep_chunks"} \subseteq collections \cap indexed
    BY <2>1, Names DEF Upright, SetUp
  <2>6. collections \subseteq ToSet(Collections) /\ indexed \subseteq ToSet(Collections)
    BY DEF Inv, LifespanInv, LifespanTypeOK
  <2> QED
    BY <2>2, <2>3, <2>4, <2>5, <2>6, Names
<1> QED
  BY <1>1, Invariant, PTL

(* The lifespan of main.py, however it ends: no store is left open, and no *)
(* client after a shutdown or once the process has exited.                 *)
THEOREM NothingLeftOpen == Spec => []NothingStaysOpen
<1>1. Inv => NothingStaysOpen
  BY DEF Inv, LifespanInv, Upright, Holds, NothingStaysOpen
<1> QED
  BY <1>1, Invariant, PTL

(* setup_collections: a start that found both collections does not lose    *)
(* the race for them.                                                      *)
THEOREM OnlyFirstStarts == Spec => []OnlyFirstStartsConflict
<1>1. Inv => OnlyFirstStartsConflict
  BY Names DEF Inv, LifespanInv, Upright, Raced, OnlyFirstStartsConflict
<1> QED
  BY <1>1, Invariant, PTL

(* AuthService.register: who is told that the account was created owns it, *)
(* however registrations of an email interleave, fail and are cut off.     *)
THEOREM CreatedOwns == Spec => []CreatedOwnsTheAccount
<1>1. Inv => CreatedOwnsTheAccount
  BY DEF Inv, RegistrationInv
<1> QED
  BY <1>1, Invariant, PTL

(* AuthService.register: a refusal names an account of another request.    *)
THEOREM RefusalsTrue == Spec => []RefusalsAreTrue
<1>1. Inv => RefusalsAreTrue
  BY DEF Inv, RegistrationInv
<1> QED
  BY <1>1, Invariant, PTL

=============================================================================
