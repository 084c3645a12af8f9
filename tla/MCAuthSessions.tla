--------------------------- MODULE MCAuthSessions ---------------------------
(* AuthSessions and its contract on the instances of the configurations.   *)
EXTENDS AuthSessionsContract, TLC

\* Users, sessions and requests are interchangeable in a safety run.
Symmetry == Permutations(User) \cup Permutations(SessionId)
              \cup Permutations(Proc)

\* What the clients of a run call.
EveryKind == AllKinds
TokenKinds == {"login", "refresh", "logout_all"}
LogoutKinds == {"login", "read", "logout"}
RotateKinds == {"login", "refresh", "logout"}
=============================================================================
