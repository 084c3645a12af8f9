---------------------------- MODULE Registration ----------------------------
(***************************************************************************)
(* POST /auth/register: AuthService.register over the users table, whose   *)
(* email column is unique.  A request looks for the email, inserts a row   *)
(* and commits; each is an await, and requests of one email overlap.  A    *)
(* request is its own password: an account belongs to the request that     *)
(* created it.                                                             *)
(***************************************************************************)
EXTENDS Integers, FiniteSets

CONSTANTS Request, Email,
          None,
          DatabaseMayFail   \* statements and commits may raise

ASSUME NoneAssumption == None \notin Request \cup {"created", "exists", "error"}
ASSUME DatabaseMayFailAssumption == DatabaseMayFail \in BOOLEAN

VARIABLES
  accounts,   \* the committed account of each email
  where,      \* where each request is
  email,      \* the email it registers
  answer,     \* what its client was told
  broken      \* history: the database raised in it

registrationVars == <<accounts, where, email, answer, broken>>

InFlight == {"find", "insert", "commit", "respond"}
Finished == {"answered", "aborted"}

RegistrationTypeOK ==
  /\ accounts \in [Email -> Request \cup {None}]
  /\ where \in [Request -> {"new"} \cup InFlight \cup Finished]
  /\ email \in [Request -> Email \cup {None}]
  /\ answer \in [Request -> {"created", "exists", "error", None}]
  /\ broken \in [Request -> BOOLEAN]

RegistrationInit ==
  /\ accounts = [e \in Email |-> None]
  /\ where = [r \in Request |-> "new"]
  /\ email = [r \in Request |-> None]
  /\ answer = [r \in Request |-> None]
  /\ broken = [r \in Request |-> FALSE]

Receive(r, e) ==
  /\ where[r] = "new"
  /\ where' = [where EXCEPT ![r] = "find"]
  /\ email' = [email EXCEPT ![r] = e]
  /\ UNCHANGED <<accounts, answer, broken>>

GoOn(r, place) ==
  /\ where' = [where EXCEPT ![r] = place]
  /\ UNCHANGED answer
Tell(r, a) ==
  /\ where' = [where EXCEPT ![r] = "answered"]
  /\ answer' = [answer EXCEPT ![r] = a]

Inserted(e) == \E r \in Request : where[r] = "commit" /\ email[r] = e

\* Mutant: rows that are not committed are read.
GetByEmailDirty(r) ==
  /\ where[r] = "find"
  /\ IF accounts[email[r]] # None \/ Inserted(email[r])
     THEN Tell(r, "exists") ELSE GoOn(r, "insert")
  /\ UNCHANGED <<accounts, email, broken>>
\* UserAlreadyExistsError is a 409; otherwise the password is hashed.
GetByEmail(r) ==
  /\ where[r] = "find"
  /\ IF accounts[email[r]] # None THEN Tell(r, "exists") ELSE GoOn(r, "insert")
  /\ UNCHANGED <<accounts, email, broken>>

(***************************************************************************)
(* The flush inserts the row.  The unique index makes it wait for another  *)
(* transaction that inserted the email and is not over; when the email is  *)
(* taken the IntegrityError is handled nowhere and becomes a 500.          *)
(***************************************************************************)
\* Mutant: the email has an index that is not unique.
CreateNotUnique(r) ==
  /\ where[r] = "insert"
  /\ GoOn(r, "commit")
  /\ UNCHANGED <<accounts, email, broken>>
\* Mutant: an insert waits until the email is free.
CreateWhenFree(r) ==
  /\ where[r] = "insert"
  /\ ~Inserted(email[r]) /\ accounts[email[r]] = None
  /\ GoOn(r, "commit")
  /\ UNCHANGED <<accounts, email, broken>>
Create(r) ==
  /\ where[r] = "insert"
  /\ ~Inserted(email[r])
  /\ IF accounts[email[r]] # None THEN Tell(r, "error") ELSE GoOn(r, "commit")
  /\ UNCHANGED <<accounts, email, broken>>

Commit(r) ==
  /\ where[r] = "commit"
  /\ accounts' = [accounts EXCEPT ![email[r]] = r]
  /\ GoOn(r, "respond")
  /\ UNCHANGED <<email, broken>>

Respond(r) ==
  /\ where[r] = "respond"
  /\ Tell(r, "created")
  /\ UNCHANGED <<accounts, email, broken>>

\* The database raises: a 500 and a rollback, though a commit may have held.
DatabaseRaises(r) ==
  /\ DatabaseMayFail
  /\ where[r] \in {"find", "insert", "commit"}
  /\ \/ UNCHANGED accounts
     \/ where[r] = "commit" /\ accounts' = [accounts EXCEPT ![email[r]] = r]
  /\ broken' = [broken EXCEPT ![r] = TRUE]
  /\ Tell(r, "error")
  /\ UNCHANGED email

\* The worker dies: its transactions are rolled back, its clients hear nothing.
AbortRequests(requests) ==
  /\ where' = [r \in Request |-> IF r \in requests /\ where[r] \in InFlight
                                 THEN "aborted" ELSE where[r]]
  /\ UNCHANGED <<accounts, email, answer, broken>>

RequestStep(r) == GetByEmail(r) \/ Create(r) \/ Commit(r) \/ Respond(r)

----------------------------------------------------------------------------
(***************************************************************************)
(* Who is told that the account was created owns it: of the requests that  *)
(* register an email at the same time at most one is told so, and the      *)
(* account has the password of that one.                                   *)
(***************************************************************************)
CreatedOwnsTheAccount ==
  \A r \in Request : answer[r] = "created" => accounts[email[r]] = r

(***************************************************************************)
(* A refusal is true: a request is told that the account exists only when  *)
(* another one's does, and a database that does not raise answers 500 only *)
(* to the loser of a race for the email.                                   *)
(***************************************************************************)
RefusalsAreTrue ==
  \A r \in Request :
    answer[r] = "exists" \/ (answer[r] = "error" /\ ~broken[r])
      => accounts[email[r]] \notin {None, r}
============================================================================
