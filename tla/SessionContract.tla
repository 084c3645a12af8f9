-------------------------- MODULE SessionContract --------------------------
(***************************************************************************)
(* What the session layer promises, with no cache and no awaits: a session *)
(* holds one grant, the tokens of that grant are good as long as the       *)
(* session is live, and no other token is.  A rotation swaps both tokens   *)
(* in one step, a revocation withdraws both for ever in one step.  A grant *)
(* is spent once a session holds it, and no session ever takes a spent one *)
(* again.                                                                  *)
(* (Expiry and account deactivation only make tokens good for less long.)  *)
(***************************************************************************)
EXTENDS Integers

CONSTANTS SessionId, MaxGrants

VARIABLES
  grant,        \* the grant every session holds, 0 before it is opened
  live,         \* the sessions opened and not revoked
  accepted,     \* the grants whose access token authenticates a request
  redeemable,   \* the grants whose refresh token buys a new grant
  spent         \* the grants that sessions have taken, or passed over

contractVars == <<grant, live, accepted, redeemable, spent>>

ContractTypeOK ==
  /\ grant \in [SessionId -> 0..MaxGrants]
  /\ live \subseteq SessionId
  /\ accepted \subseteq 1..MaxGrants
  /\ redeemable \subseteq 1..MaxGrants
  /\ spent \subseteq 1..MaxGrants

Init ==
  /\ grant = [s \in SessionId |-> 0]
  /\ live = {}
  /\ accepted = {} /\ redeemable = {} /\ spent = {}

TokensFollow ==
  /\ accepted' = {grant'[s] : s \in live'}
  /\ redeemable' = {grant'[s] : s \in live'}

(* Grants that were minted for the session and never taken are spent too   *)
(* when it takes a later one.                                              *)
Take(s, g) ==
  /\ g \notin spent
  /\ grant' = [grant EXCEPT ![s] = g]
  /\ spent \cup {g} \subseteq spent' /\ spent' \subseteq 1..MaxGrants
  /\ TokensFollow

Open(s, g) ==
  /\ grant[s] = 0
  /\ Take(s, g)
  /\ live' = live \cup {s}

Rotate(s, g) ==
  /\ s \in live
  /\ Take(s, g)
  /\ UNCHANGED live

Revoke(S) ==
  /\ S \subseteq live /\ S # {}
  /\ live' = live \ S
  /\ UNCHANGED <<grant, spent>>
  /\ TokensFollow

Next ==
  \/ \E s \in SessionId, g \in 1..MaxGrants : Open(s, g) \/ Rotate(s, g)
  \/ \E S \in SUBSET live : Revoke(S)

Spec == Init /\ [][Next]_contractVars

=============================================================================
