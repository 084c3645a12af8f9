------------------------------ MODULE Backend ------------------------------
(***************************************************************************)
(* The workers and the requests they serve: the lifespan of main.py around *)
(* the registrations of services/auth_service.py.  What joins them is the  *)
(* server's doing, an assumption about Uvicorn: it hands requests to a     *)
(* worker between the yield of its lifespan and the order to stop, and it  *)
(* resumes the lifespan when no request is in flight.  A killed worker     *)
(* takes its requests with it.                                             *)
(***************************************************************************)
EXTENDS Lifespan, Registration

VARIABLE worker          \* the worker each request is on

vars == <<lifespanVars, registrationVars, worker>>

TypeOK ==
  /\ LifespanTypeOK /\ RegistrationTypeOK
  /\ worker \in [Request -> Worker \cup {None}]

On(w) == {r \in Request : worker[r] = w /\ where[r] \in InFlight}

Init ==
  /\ LifespanInit
  /\ RegistrationInit
  /\ worker = [r \in Request |-> None]

Take(w, r, e) ==
  /\ at[w] = "serving"
  /\ Receive(r, e)
  /\ worker' = [worker EXCEPT ![r] = w]
  /\ UNCHANGED lifespanVars
Resume(w) ==
  /\ On(w) = {}
  /\ LeaveBlock(w)
  /\ UNCHANGED <<registrationVars, worker>>
Die(w) ==
  /\ Kill(w)
  /\ AbortRequests(On(w))
  /\ UNCHANGED worker

WorkerStep(w) ==
  \/ LifespanStep(w) /\ UNCHANGED <<registrationVars, worker>>
  \/ Resume(w)
Serve(r) == RequestStep(r) /\ UNCHANGED <<lifespanVars, worker>>

Next ==
  \/ \E w \in Worker :
       \/ Boot(w) /\ UNCHANGED <<registrationVars, worker>>
       \/ Stop(w) /\ UNCHANGED <<registrationVars, worker>>
       \/ Die(w)
       \/ WorkerStep(w)
       \/ \E r \in Request, e \in Email : Take(w, r, e)
       \/ LifespanFails(w) /\ UNCHANGED <<registrationVars, worker>>
  \/ \E r \in Request :
       \/ Serve(r)
       \/ DatabaseRaises(r) /\ UNCHANGED <<lifespanVars, worker>>

Spec == Init /\ [][Next]_vars

\* Event loops run what can go on and a client that is awaited answers, unless
\* it raises; nobody has to start, stop or kill a worker, and nothing has to fail.
Fairness == /\ \A w \in Worker : WF_vars(WorkerStep(w))
            /\ \A r \in Request : WF_vars(Serve(r))
FairSpec == Spec /\ Fairness

----------------------------------------------------------------------------
(***************************************************************************)
(* A worker told to stop does stop: the requests it waits for end, though  *)
(* their inserts wait for each other, and a shutdown that raises does not  *)
(* keep it.                                                                *)
(***************************************************************************)
EveryStopEnds == \A w \in Worker : at[w] = "draining" ~> at[w] = "down"

(***************************************************************************)
(* Every request ends: its client is answered or its worker died.          *)
(***************************************************************************)
EveryRequestEnds == \A r \in Request : where[r] = "find" ~> where[r] \in Finished
============================================================================
