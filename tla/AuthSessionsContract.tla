------------------------ MODULE AuthSessionsContract ------------------------
(* What the documentation promises of sessions, against AuthSessions.      *)
EXTENDS AuthSessions

Contract == INSTANCE SessionContract WITH
  grant <- [s \in SessionId |-> sessions[s].grant],
  live <- {s \in SessionId : Live(s)},
  accepted <- {g \in Grant : AcceptsAccess(g)},
  redeemable <- {g \in Grant : AcceptsRefresh(g)},
  spent <- {g \in Grant :
              lineage[g] # None /\ g <= sessions[lineage[g]].grant}

(* The sessions request p works on: the one it goes on with, those of the  *)
(* tokens it came with, and for logout_all every session of its user.      *)
Names(r, s) ==
  \/ r.sid = s
  \/ r.jti \in Grant /\ lineage[r.jti] = s
  \/ r.hash \in Grant /\ lineage[r.hash] = s
  \/ /\ r.kind = "logout_all" /\ r.jti \in Grant
     /\ Opened(s) /\ sessions[s].user = subject[r.jti]
Scope(p) == {s \in SessionId : Names(req[p], s)}

(* Requests may overlap as long as no two of them work on one session.     *)
Disjoint == \A p, q \in Proc : p # q => Scope(p) \cap Scope(q) = {}

(* The cache in front of the table is invisible: while Redis answers and   *)
(* overlapping requests are disjoint, every await of login, refresh,       *)
(* logout, logout_all and revoke_session, every eviction and every abort   *)
(* either leaves each token as good as it was or is the one step at which  *)
(* both tokens of a session change hands.                                  *)
ContractHolds == Contract!Spec

=============================================================================
