---------------------------- MODULE AuthSessions ----------------------------
(***************************************************************************)
(* Sessions of the Prepwise backend: login, token refresh, logout and the  *)
(* authentication of requests, over a PostgreSQL table and a Redis cache.  *)
(*                                                                         *)
(* An HTTP request is a process.  It runs alone between two awaits, so an  *)
(* action is one await: one Redis command, one query, or one write with    *)
(* the commit that follows it (the row lock lets nothing in between).      *)
(*                                                                         *)
(* A grant is the pair (access token, refresh token) that login and        *)
(* refresh mint together.  A row of the sessions table holds the refresh   *)
(* hash, the jti and the expiry of one grant, always written together, so  *)
(* here it holds the grant.  Grants are numbered in the order they are     *)
(* minted, which is also the order in which their tokens expire.           *)
(***************************************************************************)
EXTENDS Integers, FiniteSets

CONSTANTS
  User, SessionId, Proc,
  None,            \* no user, no session, no cache entry
  Kinds,           \* the endpoints that clients call
  RedisMayFail,    \* may a Redis command raise (and be swallowed)?
  MayCrash,        \* may a request be aborted at an await?
  MayDeactivate,   \* may an account be deactivated?
  MaxGrants,       \* bound: grants minted in a behaviour
  MaxLapses        \* bound: grants whose tokens expire in a behaviour

ReadKinds == {"read", "websocket"}
AuthenticatedKinds == ReadKinds \cup {"logout_all", "revoke_session"}
AllKinds == AuthenticatedKinds \cup {"login", "refresh", "logout"}

ASSUME BoundsAssumption == MaxGrants \in Nat /\ MaxLapses \in Nat
ASSUME KindsAssumption == Kinds \subseteq AllKinds
ASSUME NoneAssumption == None \notin User /\ None \notin SessionId
ASSUME FlagsAssumption ==
  {RedisMayFail, MayCrash, MayDeactivate} \subseteq BOOLEAN

Grant == 1..MaxGrants
NoGrant == 0

VARIABLES
  active,          \* users.is_active
  sessions,        \* the sessions table: the row of every session id
  minted,          \* how many grants have been minted
  subject,         \* the user a grant's tokens name (their "sub" claim)
  lineage,         \* history: the session a grant was minted for
  issued,          \* the grants whose tokens a client received
  accessLapsed,    \* the access tokens of grants 1..accessLapsed expired
  refreshLapsed,   \* the refresh tokens of grants 1..refreshLapsed expired
  accessCache,     \* Redis access:{jti} -> user_id
  refreshCache,    \* Redis refresh:{token_hash} -> session_id
  req              \* the requests being served

tokens == <<minted, subject, lineage, issued>>
clock == <<accessLapsed, refreshLapsed>>
caches == <<accessCache, refreshCache>>
vars == <<active, sessions, tokens, clock, caches, req>>

Label ==
  {"idle", "insert", "findCached", "byId", "byHash", "loadUser", "rotate",
   "dropAccess", "dropRefresh", "byJti", "revoke",
   "auth", "authDb", "authFill", "authUser",
   "list", "dropAll", "revokeAll", "target",
   "cacheAccess", "cacheRefresh", "respond"}

Row == [user : User \cup {None}, grant : 0..MaxGrants, revoked : BOOLEAN]
NoRow == [user |-> None, grant |-> NoGrant, revoked |-> FALSE]

(* What a request carries from one await to the next: jti and hash are the *)
(* grants of the access and the refresh token it works on, new the grant   *)
(* it minted, listed the grants logout_all found.                          *)
Request ==
  [kind : AllKinds \cup {"none"}, pc : Label, user : User \cup {None},
   sid : SessionId \cup {None}, jti : 0..MaxGrants, hash : 0..MaxGrants,
   new : 0..MaxGrants, listed : SUBSET (0..MaxGrants)]
Idle ==
  [kind |-> "none", pc |-> "idle", user |-> None, sid |-> None,
   jti |-> NoGrant, hash |-> NoGrant, new |-> NoGrant, listed |-> {}]

TypeOK ==
  /\ active \in [User -> BOOLEAN]
  /\ sessions \in [SessionId -> Row]
  /\ minted \in 0..MaxGrants
  /\ subject \in [Grant -> User \cup {None}]
  /\ lineage \in [Grant -> SessionId \cup {None}]
  /\ issued \subseteq Grant
  /\ accessLapsed \in 0..MaxGrants /\ refreshLapsed \in 0..MaxGrants
  /\ accessCache \in [Grant -> User \cup {None}]
  /\ refreshCache \in [Grant -> SessionId \cup {None}]
  /\ req \in [Proc -> Request]

Init ==
  /\ active = [u \in User |-> TRUE]
  /\ sessions = [s \in SessionId |-> NoRow]
  /\ minted = 0
  /\ subject = [g \in Grant |-> None]
  /\ lineage = [g \in Grant |-> None]
  /\ issued = {}
  /\ accessLapsed = 0 /\ refreshLapsed = 0
  /\ accessCache = [g \in Grant |-> None]
  /\ refreshCache = [g \in Grant |-> None]
  /\ req = [p \in Proc |-> Idle]

-----------------------------------------------------------------------------
(* The stores.                                                             *)

(* A Redis command that raises is swallowed: a get misses, a set or a      *)
(* delete (a set to None) leaves the cache as it was.                      *)
RedisGet(cache, g) ==
  {cache[g]} \cup (IF RedisMayFail THEN {None} ELSE {})
RedisSet(cache, g, v) ==
  {[cache EXCEPT ![g] = v]} \cup (IF RedisMayFail THEN {cache} ELSE {})
RedisDeleteAll(cache, G) ==
  [g \in Grant |-> IF g \in G THEN None ELSE cache[g]]

Opened(s) == sessions[s].user # None
Live(s) == Opened(s) /\ ~sessions[s].revoked

(* get_by_jti and get_by_refresh_token_hash: active rows that hold g.      *)
ActiveWithGrant(g) == {s \in SessionId : Live(s) /\ sessions[s].grant = g}

ActiveOfUser(u) == {s \in SessionId : Live(s) /\ sessions[s].user = u}

Accessible(g) == g \in issued /\ g > accessLapsed
Refreshable(g) == g \in issued /\ g > refreshLapsed

Mint(u, s) ==
  /\ minted < MaxGrants
  /\ minted' = minted + 1
  /\ subject' = [subject EXCEPT ![minted + 1] = u]
  /\ lineage' = [lineage EXCEPT ![minted + 1] = s]
  /\ UNCHANGED issued

Become(p, r) == req' = [req EXCEPT ![p] = r]
Finish(p) == Become(p, Idle)
At(p, l) == req[p].pc = l
Arrive(p, k) == At(p, "idle") /\ k \in Kinds

-----------------------------------------------------------------------------
(* Authentication of a request: get_current_user, and the same steps but   *)
(* the last in the WebSocket handshake.                                    *)

(* The access JWT is decoded (signature, expiry) before the first await.   *)
AuthArrive(p, k, g, s) ==
  /\ Arrive(p, k) /\ k \in AuthenticatedKinds
  /\ Accessible(g)
  /\ (s = None) <=> (k # "revoke_session")
  /\ Become(p, [Idle EXCEPT !.kind = k, !.pc = "auth", !.jti = g, !.sid = s])
  /\ UNCHANGED <<active, sessions, tokens, clock, caches>>

(* The token is accepted: the handshake is done, an endpoint goes on.      *)
Authenticated(p) ==
  IF req[p].kind = "websocket" THEN Finish(p)
  ELSE Become(p, [req[p] EXCEPT !.pc = "authUser"])

AuthCached(p) ==
  /\ At(p, "auth")
  /\ \E u \in RedisGet(accessCache, req[p].jti) :
       \/ u = None /\ Become(p, [req[p] EXCEPT !.pc = "authDb"])
       \/ /\ u # None
          /\ IF u = subject[req[p].jti] THEN Authenticated(p) ELSE Finish(p)
  /\ UNCHANGED <<active, sessions, tokens, clock, caches>>

\* Mutant: get_by_jti finds revoked rows too.
AuthDbAnyRow(p) ==
  /\ At(p, "authDb")
  /\ LET S == {s \in SessionId : sessions[s].grant = req[p].jti}
     IN  \/ S = {} /\ Finish(p)
         \/ \E s \in S :
              Become(p, [req[p] EXCEPT !.pc = "authFill",
                                       !.user = sessions[s].user])
  /\ UNCHANGED <<active, sessions, tokens, clock, caches>>

AuthDb(p) ==
  /\ At(p, "authDb")
  /\ \/ /\ ActiveWithGrant(req[p].jti) = {}
        /\ Finish(p)
     \/ \E s \in ActiveWithGrant(req[p].jti) :
          Become(p, [req[p] EXCEPT !.pc = "authFill",
                                   !.user = sessions[s].user])
  /\ UNCHANGED <<active, sessions, tokens, clock, caches>>

AuthFill(p) ==
  /\ At(p, "authFill")
  /\ accessCache' \in RedisSet(accessCache, req[p].jti, req[p].user)
  /\ Authenticated(p)
  /\ UNCHANGED <<active, sessions, tokens, clock, refreshCache>>

(* The user row is read by the token's sub, not by the session found.  An  *)
(* endpoint that only reads ends here.                                     *)
AuthUser(p) ==
  /\ At(p, "authUser")
  /\ LET u == subject[req[p].jti]
         next == IF req[p].kind = "logout_all" THEN "list" ELSE "target"
     IN  IF active[u] /\ req[p].kind \notin ReadKinds
         THEN Become(p, [req[p] EXCEPT !.pc = next, !.user = u])
         ELSE Finish(p)
  /\ UNCHANGED <<active, sessions, tokens, clock, caches>>

-----------------------------------------------------------------------------
(* login                                                                   *)

LoginUser(p, u) ==
  /\ Arrive(p, "login")
  /\ active[u]
  /\ Mint(u, None)
  /\ Become(p, [Idle EXCEPT !.kind = "login", !.pc = "insert", !.user = u,
                            !.new = minted + 1])
  /\ UNCHANGED <<active, sessions, clock, caches>>

LoginInsert(p, s) ==
  /\ At(p, "insert")
  /\ ~Opened(s)
  /\ sessions' = [sessions EXCEPT ![s] =
       [user |-> req[p].user, grant |-> req[p].new, revoked |-> FALSE]]
  /\ lineage' = [lineage EXCEPT ![req[p].new] = s]
  /\ Become(p, [req[p] EXCEPT !.pc = "cacheAccess", !.sid = s])
  /\ UNCHANGED <<active, minted, subject, issued, clock, caches>>

(* The last awaits of login and of refresh.                                *)
CacheAccess(p) ==
  /\ At(p, "cacheAccess")
  /\ accessCache' \in RedisSet(accessCache, req[p].new, req[p].user)
  /\ Become(p, [req[p] EXCEPT !.pc = "cacheRefresh"])
  /\ UNCHANGED <<active, sessions, tokens, clock, refreshCache>>

CacheRefresh(p) ==
  /\ At(p, "cacheRefresh")
  /\ refreshCache' \in RedisSet(refreshCache, req[p].new, req[p].sid)
  /\ Become(p, [req[p] EXCEPT !.pc = "respond"])
  /\ UNCHANGED <<active, sessions, tokens, clock, accessCache>>

\* Mutant: the client is sent back the refresh token it came with.
RespondWithPresented(p) ==
  /\ At(p, "respond")
  /\ issued' = issued \cup {req[p].hash}
  /\ Finish(p)
  /\ UNCHANGED <<active, sessions, minted, subject, lineage, clock, caches>>

Respond(p) ==
  /\ At(p, "respond")
  /\ issued' = issued \cup {req[p].new}
  /\ Finish(p)
  /\ UNCHANGED <<active, sessions, minted, subject, lineage, clock, caches>>

-----------------------------------------------------------------------------
(* refresh                                                                 *)

RefreshArrive(p, h) ==
  /\ Arrive(p, "refresh")
  /\ Refreshable(h)
  /\ Become(p, [Idle EXCEPT !.kind = "refresh", !.pc = "findCached",
                            !.hash = h])
  /\ UNCHANGED <<active, sessions, tokens, clock, caches>>

\* Mutant: a token that Redis does not know is refused.
RefreshCachedOnly(p) ==
  /\ At(p, "findCached")
  /\ \E s \in RedisGet(refreshCache, req[p].hash) :
       \/ s # None /\ Become(p, [req[p] EXCEPT !.pc = "byId", !.sid = s])
       \/ s = None /\ Finish(p)
  /\ UNCHANGED <<active, sessions, tokens, clock, caches>>

RefreshCached(p) ==
  /\ At(p, "findCached")
  /\ \E s \in RedisGet(refreshCache, req[p].hash) :
       \/ s # None /\ Become(p, [req[p] EXCEPT !.pc = "byId", !.sid = s])
       \/ s = None /\ Become(p, [req[p] EXCEPT !.pc = "byHash"])
  /\ UNCHANGED <<active, sessions, tokens, clock, caches>>

(* The session a refresh goes on with, and its access token to forget.     *)
Found(p, s) ==
  Become(p, [req[p] EXCEPT !.pc = "loadUser", !.sid = s,
                           !.user = sessions[s].user,
                           !.jti = sessions[s].grant])

\* Mutant: the row of a cached id is taken without its revoked_at.
RefreshByIdRevoked(p) ==
  /\ At(p, "byId")
  /\ LET s == req[p].sid
     IN  IF Opened(s) /\ sessions[s].grant > refreshLapsed
         THEN Found(p, s) ELSE Finish(p)
  /\ UNCHANGED <<active, sessions, tokens, clock, caches>>

(* get_by_id filters nothing, and the hash in the row is not compared.     *)
RefreshById(p) ==
  /\ At(p, "byId")
  /\ LET s == req[p].sid
     IN  IF Live(s) /\ sessions[s].grant > refreshLapsed
         THEN Found(p, s) ELSE Finish(p)
  /\ UNCHANGED <<active, sessions, tokens, clock, caches>>

RefreshByHash(p) ==
  /\ At(p, "byHash")
  /\ LET S == {s \in ActiveWithGrant(req[p].hash) :
                 sessions[s].grant > refreshLapsed}
     IN  \/ S = {} /\ Finish(p)
         \/ \E s \in S : Found(p, s)
  /\ UNCHANGED <<active, sessions, tokens, clock, caches>>

RefreshUser(p) ==
  /\ At(p, "loadUser")
  /\ \/ /\ active[req[p].user]
        /\ Mint(req[p].user, req[p].sid)
        /\ Become(p, [req[p] EXCEPT !.pc = "dropAccess", !.new = minted + 1])
     \/ /\ ~active[req[p].user]
        /\ Finish(p)
        /\ UNCHANGED tokens
  /\ UNCHANGED <<active, sessions, clock, caches>>

\* Mutant: the row is found by its user, not by its id.
RotateByUser(p) ==
  /\ At(p, "rotate")
  /\ \E s \in SessionId :
       /\ Opened(s) /\ sessions[s].user = req[p].user
       /\ sessions' = [sessions EXCEPT ![s].grant = req[p].new]
  /\ Become(p, [req[p] EXCEPT !.pc = "cacheAccess"])
  /\ UNCHANGED <<active, tokens, clock, caches>>

\* Mutant: the UPDATE writes every column of the row as it was read.
RotateWholeRow(p) ==
  /\ At(p, "rotate")
  /\ sessions' = [sessions EXCEPT ![req[p].sid] =
       [user |-> req[p].user, grant |-> req[p].new, revoked |-> FALSE]]
  /\ Become(p, [req[p] EXCEPT !.pc = "cacheAccess"])
  /\ UNCHANGED <<active, tokens, clock, caches>>

Rotate(p) ==
  /\ At(p, "rotate")
  /\ sessions' = [sessions EXCEPT ![req[p].sid].grant = req[p].new]
  /\ Become(p, [req[p] EXCEPT !.pc = "cacheAccess"])
  /\ UNCHANGED <<active, tokens, clock, caches>>

-----------------------------------------------------------------------------
(* The cache deletes that refresh, logout and revoke_session begin with.   *)

DropAccess(p) ==
  /\ At(p, "dropAccess")
  /\ accessCache' \in RedisSet(accessCache, req[p].jti, None)
  /\ Become(p, [req[p] EXCEPT !.pc = "dropRefresh"])
  /\ UNCHANGED <<active, sessions, tokens, clock, refreshCache>>

\* Mutant: the replaced refresh token stays in Redis.
DropRefreshForgotten(p) ==
  /\ At(p, "dropRefresh")
  /\ Become(p, [req[p] EXCEPT !.pc =
       CASE req[p].kind = "refresh" -> "rotate"
         [] req[p].kind = "logout" -> "byJti"
         [] OTHER -> "revoke"])
  /\ UNCHANGED <<active, sessions, tokens, clock, caches>>

DropRefresh(p) ==
  /\ At(p, "dropRefresh")
  /\ refreshCache' \in RedisSet(refreshCache, req[p].hash, None)
  /\ Become(p, [req[p] EXCEPT !.pc =
       CASE req[p].kind = "refresh" -> "rotate"
         [] req[p].kind = "logout" -> "byJti"
         [] OTHER -> "revoke"])
  /\ UNCHANGED <<active, sessions, tokens, clock, accessCache>>

Revoke(p) ==
  /\ At(p, "revoke")
  /\ sessions' = [sessions EXCEPT ![req[p].sid].revoked = TRUE]
  /\ Finish(p)
  /\ UNCHANGED <<active, tokens, clock, caches>>

-----------------------------------------------------------------------------
(* logout: the cookie and the Authorization header are decoded, no user is *)
(* authenticated, and the two tokens need not be of the same grant.        *)

LogoutArrive(p, g, h) ==
  /\ Arrive(p, "logout")
  /\ Accessible(g) /\ Refreshable(h)
  /\ Become(p, [Idle EXCEPT !.kind = "logout", !.pc = "dropAccess",
                            !.jti = g, !.hash = h])
  /\ UNCHANGED <<active, sessions, tokens, clock, caches>>

LogoutSession(p) ==
  /\ At(p, "byJti")
  /\ \/ /\ ActiveWithGrant(req[p].jti) = {}
        /\ Finish(p)
     \/ \E s \in ActiveWithGrant(req[p].jti) :
          Become(p, [req[p] EXCEPT !.pc = "revoke", !.sid = s])
  /\ UNCHANGED <<active, sessions, tokens, clock, caches>>

-----------------------------------------------------------------------------
(* revoke_session and logout_all, once the request is authenticated.       *)

\* Mutant: the row is revoked first, the keys are deleted after.
RevokeTargetFirst(p) ==
  /\ At(p, "target")
  /\ LET s == req[p].sid
     IN  IF Live(s) /\ sessions[s].user = req[p].user
         THEN /\ sessions' = [sessions EXCEPT ![s].revoked = TRUE]
              /\ Become(p, [req[p] EXCEPT !.pc = "dropAccess",
                                          !.jti = sessions[s].grant,
                                          !.hash = sessions[s].grant])
         ELSE Finish(p) /\ UNCHANGED sessions
  /\ UNCHANGED <<active, tokens, clock, caches>>

RevokeTarget(p) ==
  /\ At(p, "target")
  /\ LET s == req[p].sid
     IN  IF Live(s) /\ sessions[s].user = req[p].user
         THEN Become(p, [req[p] EXCEPT !.pc = "dropAccess",
                                       !.jti = sessions[s].grant,
                                       !.hash = sessions[s].grant])
         ELSE Finish(p)
  /\ UNCHANGED <<active, sessions, tokens, clock, caches>>

LogoutAllList(p) ==
  /\ At(p, "list")
  /\ Become(p, [req[p] EXCEPT !.pc = "dropAll",
       !.listed = {sessions[s].grant : s \in ActiveOfUser(req[p].user)}])
  /\ UNCHANGED <<active, sessions, tokens, clock, caches>>

(* One MULTI/EXEC pipeline deletes every key, or raises.                   *)
LogoutAllDrop(p) ==
  /\ At(p, "dropAll")
  /\ \/ /\ accessCache' = RedisDeleteAll(accessCache, req[p].listed)
        /\ refreshCache' = RedisDeleteAll(refreshCache, req[p].listed)
     \/ RedisMayFail /\ UNCHANGED caches
  /\ Become(p, [req[p] EXCEPT !.pc = "revokeAll"])
  /\ UNCHANGED <<active, sessions, tokens, clock>>

(* The UPDATE reaches the rows that are active now, not those listed.      *)
LogoutAllRevoke(p) ==
  /\ At(p, "revokeAll")
  /\ sessions' = [s \in SessionId |->
       IF s \in ActiveOfUser(req[p].user)
       THEN [sessions[s] EXCEPT !.revoked = TRUE] ELSE sessions[s]]
  /\ Finish(p)
  /\ UNCHANGED <<active, tokens, clock, caches>>

-----------------------------------------------------------------------------
(* The environment.                                                        *)

(* A raised database error, or the death of the worker, ends a request.    *)
Crash(p) ==
  /\ MayCrash
  /\ ~At(p, "idle")
  /\ Finish(p)
  /\ UNCHANGED <<active, sessions, tokens, clock, caches>>

(* A key leaves Redis: its TTL, an eviction, a flush, a restart.           *)
EvictAccess(g) ==
  /\ accessCache[g] # None
  /\ accessCache' = [accessCache EXCEPT ![g] = None]
  /\ UNCHANGED <<active, sessions, tokens, clock, refreshCache, req>>
EvictRefresh(g) ==
  /\ refreshCache[g] # None
  /\ refreshCache' = [refreshCache EXCEPT ![g] = None]
  /\ UNCHANGED <<active, sessions, tokens, clock, accessCache, req>>

(* Time passes: 15 minutes for an access token, 30 days for a refresh one. *)
LapseAccess ==
  /\ accessLapsed < minted /\ accessLapsed < MaxLapses
  /\ accessLapsed' = accessLapsed + 1
  /\ UNCHANGED <<active, sessions, tokens, refreshLapsed, caches, req>>
LapseRefresh ==
  /\ refreshLapsed < accessLapsed
  /\ refreshLapsed' = refreshLapsed + 1
  /\ UNCHANGED <<active, sessions, tokens, accessLapsed, caches, req>>

(* Nothing in the backend writes is_active: an operator does.              *)
Deactivate(u) ==
  /\ MayDeactivate /\ active[u]
  /\ active' = [active EXCEPT ![u] = FALSE]
  /\ UNCHANGED <<sessions, tokens, clock, caches, req>>

-----------------------------------------------------------------------------
Authenticate(p) ==
  \/ AuthCached(p) \/ AuthDb(p) \/ AuthFill(p) \/ AuthUser(p)
Serve(p) ==
  \/ Authenticate(p)
  \/ \E s \in SessionId : LoginInsert(p, s)
  \/ CacheAccess(p) \/ CacheRefresh(p) \/ Respond(p)
  \/ RefreshCached(p) \/ RefreshById(p) \/ RefreshByHash(p) \/ RefreshUser(p)
  \/ Rotate(p) \/ DropAccess(p) \/ DropRefresh(p) \/ Revoke(p)
  \/ LogoutSession(p) \/ RevokeTarget(p)
  \/ LogoutAllList(p) \/ LogoutAllDrop(p) \/ LogoutAllRevoke(p)

ArriveAny(p) ==
  \/ \E k \in AuthenticatedKinds, g \in Grant, s \in SessionId \cup {None} :
       AuthArrive(p, k, g, s)
  \/ \E u \in User : LoginUser(p, u)
  \/ \E h \in Grant : RefreshArrive(p, h)
  \/ \E g, h \in Grant : LogoutArrive(p, g, h)

Environment ==
  \/ \E g \in Grant : EvictAccess(g) \/ EvictRefresh(g)
  \/ LapseAccess \/ LapseRefresh
  \/ \E u \in User : Deactivate(u)

Next ==
  \/ \E p \in Proc : Serve(p) \/ ArriveAny(p) \/ Crash(p)
  \/ Environment

Spec == Init /\ [][Next]_vars

(* The event loop and the stores serve a request that has arrived; nothing *)
(* makes a client call, a key expire or a worker crash.                    *)
FairSpec == Spec /\ \A p \in Proc : WF_vars(Serve(p))

-----------------------------------------------------------------------------
(* What holds however requests interleave, Redis fails and workers crash.  *)

(* A key of either cache only ever names the user, and the session, its    *)
(* grant was minted for, and so does a row of the table: a lookup gives    *)
(* the same answer from Redis and from PostgreSQL.  Refresh relies on it:  *)
(* it takes the session a cached id names without comparing hashes.        *)
LookupsAgree ==
  /\ \A g \in Grant :
       /\ accessCache[g] # None => accessCache[g] = subject[g]
       /\ refreshCache[g] # None => refreshCache[g] = lineage[g]
  /\ \A s \in SessionId : Opened(s) =>
       /\ sessions[s].grant \in Grant
       /\ lineage[sessions[s].grant] = s
       /\ subject[sessions[s].grant] = sessions[s].user

(* A rotation already under way when its session is revoked writes the     *)
(* row after the revocation: it must not bring the session back.           *)
RevokedStaysRevoked ==
  [][\A s \in SessionId : sessions[s].revoked => sessions'[s].revoked]_vars

(* Requests that have passed the check that s is live: their later writes  *)
(* can still reach the row or the caches.                                  *)
InFlight(p, s) ==
  \/ /\ req[p].kind \in {"login", "refresh"} /\ req[p].sid = s
     /\ req[p].pc \in {"loadUser", "dropAccess", "dropRefresh", "rotate",
                       "cacheAccess", "cacheRefresh"}
  \/ At(p, "authFill") /\ lineage[req[p].jti] = s

(* s is revoked, none of its access tokens is cached, and the requests     *)
(* that were under way at the revocation have ended.                       *)
Settled(s) ==
  /\ Opened(s) /\ sessions[s].revoked
  /\ \A g \in Grant : lineage[g] = s => accessCache[g] = None
  /\ \A p \in Proc : ~InFlight(p, s)

(* Once a revocation has settled nothing undoes it: whatever keys Redis    *)
(* still holds, no later request mints a grant for the session, writes its *)
(* row or caches one of its access tokens.                                 *)
RevocationIsFinal ==
  [][\A s \in SessionId :
       Settled(s) => Settled(s)' /\ sessions'[s] = sessions[s]]_vars

-----------------------------------------------------------------------------
(* What holds while Redis answers and no two requests work on one session; *)
(* requests may be aborted anywhere.                                       *)

(* get_current_user would accept the access token, its expiry aside.       *)
AcceptsAccess(g) == accessCache[g] # None \/ ActiveWithGrant(g) # {}
(* refresh would accept the refresh token, its expiry aside.               *)
AcceptsRefresh(g) ==
  \/ refreshCache[g] # None /\ Live(refreshCache[g])
  \/ ActiveWithGrant(g) # {}

(* A logout deletes its keys before it revokes the row, so an abort in     *)
(* between leaves a usable session, never a revoked one with a cached      *)
(* access token.                                                           *)
RevokedIsUncached ==
  \A s \in SessionId, g \in Grant :
    sessions[s].revoked /\ lineage[g] = s => accessCache[g] = None

(* A session is never refreshed by two tokens: a rotation forgets the      *)
(* replaced token in Redis before PostgreSQL forgets it.                   *)
OneRefreshTokenPerSession ==
  \A g, h \in Grant :
    /\ g # h /\ lineage[g] # None /\ lineage[g] = lineage[h]
    => ~(AcceptsRefresh(g) /\ AcceptsRefresh(h))

(* With requests that are not aborted, a refresh that presents the current *)
(* token of a live session ends with a fresh grant in the client's hands,  *)
(* even when Redis answers nothing - unless meanwhile the session is       *)
(* revoked, the account deactivated, or the token expired.                 *)
RefreshSucceeds ==
  \A s \in SessionId, g \in Grant :
    (/\ Live(s) /\ sessions[s].grant = g
     /\ \E p \in Proc : At(p, "findCached") /\ req[p].hash = g)
    ~> \/ sessions[s].grant # g /\ sessions[s].grant \in issued
       \/ ~Live(s) \/ ~active[sessions[s].user]
       \/ sessions[s].grant <= refreshLapsed \/ minted = MaxGrants

=============================================================================
