------------------------- MODULE AuthSessionsProofs -------------------------
(* Proofs about AuthSessions, for any users, sessions, requests and bounds.*)
EXTENDS AuthSessionsContract, TLAPS

(* Grants are handed out in order, and each names its user at once; the    *)
(* session of a login's grant is known when its row is inserted.           *)
GrantsInOrder ==
  \A g \in Grant :
    /\ subject[g] = None <=> g > minted
    /\ g > minted => lineage[g] = None

NoRowIsBlank == \A s \in SessionId : ~Opened(s) => ~sessions[s].revoked

StoresOK ==
  /\ active \in [User -> BOOLEAN]
  /\ sessions \in [SessionId -> Row]
  /\ minted \in 0..MaxGrants
  /\ subject \in [Grant -> User \cup {None}]
  /\ lineage \in [Grant -> SessionId \cup {None}]
  /\ issued \subseteq Grant
  /\ accessLapsed \in 0..MaxGrants /\ refreshLapsed \in 0..MaxGrants
  /\ accessCache \in [Grant -> User \cup {None}]
  /\ refreshCache \in [Grant -> SessionId \cup {None}]
  /\ LookupsAgree /\ GrantsInOrder /\ NoRowIsBlank

(* The fresh grant of request r belongs to its user and to session s.      *)
OwnsNew(r, s) ==
  /\ r.new \in Grant
  /\ r.user \in User /\ subject[r.new] = r.user
  /\ lineage[r.new] = s

OwnsSession(r) ==
  /\ r.sid \in SessionId /\ Opened(r.sid)
  /\ r.user = sessions[r.sid].user

(* What a request in state r knows at each await.                          *)
Knows(r) ==
  /\ r.pc \in {"auth", "authDb", "authFill", "authUser"} =>
       /\ r.jti \in Grant
       /\ r.kind \in AuthenticatedKinds
       /\ r.kind = "revoke_session" => r.sid \in SessionId
  /\ r.pc = "authFill" => r.user \in User /\ r.user = subject[r.jti]
  /\ r.pc = "target" => r.kind = "revoke_session" /\ r.sid \in SessionId
  /\ r.pc \in {"findCached", "byId", "byHash", "loadUser", "rotate"} =>
       r.kind = "refresh" /\ r.hash \in Grant
  /\ r.pc = "byId" => r.sid \in SessionId
  /\ r.pc = "loadUser" => OwnsSession(r) /\ r.jti \in Grant
  /\ r.pc \in {"dropAccess", "dropRefresh"} =>
       /\ r.kind \in {"refresh", "logout", "revoke_session"}
       /\ r.jti \in Grant /\ r.hash \in Grant
  /\ r.pc \in {"dropAccess", "dropRefresh", "rotate"} /\ r.kind = "refresh"
       => OwnsSession(r) /\ OwnsNew(r, r.sid)
  /\ r.pc \in {"dropAccess", "dropRefresh"} /\ r.kind = "revoke_session"
       => r.sid \in SessionId /\ Opened(r.sid)
  /\ r.pc = "byJti" => r.jti \in Grant
  /\ r.pc = "revoke" => r.sid \in SessionId /\ Opened(r.sid)
  /\ r.pc = "insert" => r.kind = "login" /\ OwnsNew(r, None)
  /\ r.pc \in {"cacheAccess", "cacheRefresh"} =>
       /\ r.kind \in {"login", "refresh"}
       /\ r.sid \in SessionId /\ OwnsNew(r, r.sid)
  /\ r.pc = "respond" => r.new \in Grant

InsertsDiffer ==
  \A p, q \in Proc :
    p # q /\ At(p, "insert") /\ At(q, "insert") => req[p].new # req[q].new

Inv ==
  /\ StoresOK
  /\ req \in [Proc -> Request]
  /\ \A p \in Proc : Knows(req[p])
  /\ InsertsDiffer

-----------------------------------------------------------------------------
(* What no step takes back from a request that waits.                      *)
Grows ==
  /\ \A g \in Grant : subject[g] # None => subject'[g] = subject[g]
  /\ \A g \in Grant : lineage[g] # None => lineage'[g] = lineage[g]
  /\ \A s \in SessionId : Opened(s) => sessions'[s].user = sessions[s].user

LEMMA InvTypeOK == Inv => TypeOK
BY DEF Inv, StoresOK, TypeOK

LEMMA IdleKnows == Idle \in Request /\ Knows(Idle) /\ Idle.pc = "idle"
BY BoundsAssumption DEF Idle, Request, Label, NoGrant, Knows

(* A request keeps what it knows while the others take a step.             *)
LEMMA KnowsKept ==
  ASSUME NEW r \in Request, Knows(r), Grows,
         r.pc = "insert" => lineage'[r.new] = None
  PROVE  Knows(r)'
<1>1. OwnsSession(r) => OwnsSession(r)'
  BY NoneAssumption DEF OwnsSession, Grows, Opened
<1>2. ASSUME NEW s \in SessionId, OwnsNew(r, s) PROVE OwnsNew(r, s)'
  BY <1>2, NoneAssumption DEF OwnsNew, Grows
<1>3. r.pc = "insert" => OwnsNew(r, None)'
  BY NoneAssumption DEF Knows, OwnsNew, Grows
<1>4. r.sid \in SessionId /\ Opened(r.sid) => Opened(r.sid)'
  BY DEF Grows, Opened
<1>5. r.pc = "authFill" => r.user = subject'[r.jti]
  BY NoneAssumption DEF Knows, Grows
<1>6. OwnsSession(r) => r.sid \in SessionId
  BY DEF OwnsSession
<1> QED
  BY <1>1, <1>2, <1>3, <1>4, <1>5, <1>6 DEF Knows

(* Every step of a request: its new state r, and stores that still agree.  *)
LEMMA ServedStep ==
  ASSUME Inv, NEW p \in Proc, NEW r \in Request, Become(p, r), Knows(r)',
         StoresOK', Grows,
         \A q \in Proc \ {p} : At(q, "insert") =>
           /\ lineage'[req[q].new] = None
           /\ r.pc = "insert" => req[q].new # r.new
  PROVE  Inv'
<1>1. req' \in [Proc -> Request] /\ req'[p] = r
      /\ \A q \in Proc \ {p} : req'[q] = req[q]
  BY DEF Inv, Become
<1>2. ASSUME NEW q \in Proc PROVE Knows(req[q])'
  <2>1. CASE q = p
    BY <1>1, <2>1 DEF Knows, OwnsNew, OwnsSession, Opened
  <2>2. CASE q # p
    <3>1. PICK x \in Request : x = req[q]
      BY DEF Inv
    <3>2. Knows(x) /\ (x.pc = "insert" => lineage'[x.new] = None)
      BY <2>2, <3>1 DEF Inv, At
    <3>3. Knows(x)'
      BY <3>1, <3>2, KnowsKept
    <3>4. req'[q] = x
      BY <1>1, <2>2, <3>1
    <3> QED
      BY <3>3, <3>4 DEF Knows, OwnsNew, OwnsSession, Opened
  <2> QED
    BY <2>1, <2>2
<1>3. InsertsDiffer'
  BY <1>1 DEF Inv, InsertsDiffer, At
<1> QED
  BY <1>1, <1>2, <1>3 DEF Inv

(* A step that only moves a request on.                                    *)
LEMMA LocalStep ==
  ASSUME Inv, NEW p \in Proc, NEW r \in Request, Become(p, r), Knows(r),
         UNCHANGED <<active, sessions, tokens, clock, caches>>,
         r.pc # "insert"
  PROVE  Inv'
<1>1. StoresOK'
  BY DEF Inv, StoresOK, LookupsAgree, GrantsInOrder, NoRowIsBlank, Opened,
         tokens, clock, caches
<1>2. Grows
  BY DEF Grows, tokens
<1>3. Knows(r)'
  BY <1>2, KnowsKept
<1>4. \A q \in Proc \ {p} : At(q, "insert") => lineage'[req[q].new] = None
  BY DEF Inv, Knows, OwnsNew, At, tokens
<1> QED
  BY <1>1, <1>2, <1>3, <1>4, ServedStep

(* A step that writes one key of the caches and moves a request on.        *)
LEMMA CacheStep ==
  ASSUME Inv, NEW p \in Proc, NEW r \in Request, Become(p, r), Knows(r),
         UNCHANGED <<active, sessions, tokens, clock>>,
         accessCache' \in [Grant -> User \cup {None}],
         refreshCache' \in [Grant -> SessionId \cup {None}],
         \A g \in Grant :
           /\ accessCache'[g] \in {None, accessCache[g], subject[g]}
           /\ refreshCache'[g] \in {None, refreshCache[g], lineage[g]},
         r.pc # "insert"
  PROVE  Inv'
<1>1. LookupsAgree'
  BY DEF Inv, StoresOK, LookupsAgree, Opened, tokens
<1>2. StoresOK'
  BY <1>1 DEF Inv, StoresOK, GrantsInOrder, NoRowIsBlank, Opened, tokens, clock
<1>3. Grows
  BY DEF Grows, tokens
<1>4. Knows(r)'
  BY <1>3, KnowsKept
<1>5. \A q \in Proc \ {p} : At(q, "insert") => lineage'[req[q].new] = None
  BY DEF Inv, Knows, OwnsNew, At, tokens
<1> QED
  BY <1>2, <1>3, <1>4, <1>5, ServedStep

(* A request that ends.                                                    *)
LEMMA FinishStep ==
  ASSUME Inv, NEW p \in Proc, Finish(p),
         UNCHANGED <<active, sessions, tokens, clock, caches>>
  PROVE  Inv'
BY IdleKnows, LocalStep DEF Finish

LEMMA ReqType == ASSUME Inv, NEW p \in Proc PROVE req[p] \in Request
BY DEF Inv

(* Request r has gone on to label l and learnt nothing.                    *)
Moved(n, r, l) ==
  /\ n = [r EXCEPT !.pc = l] /\ n.pc = l
  /\ n.kind = r.kind /\ n.user = r.user /\ n.sid = r.sid
  /\ n.jti = r.jti /\ n.hash = r.hash /\ n.new = r.new

LEMMA MovedExists ==
  ASSUME NEW r \in Request, NEW l \in Label
  PROVE  \E n \in Request : Moved(n, r, l)
<1>1. [r EXCEPT !.pc = l] \in Request
  BY DEF Request
<1>2. Moved([r EXCEPT !.pc = l], r, l)
  BY DEF Moved, Request
<1> QED
  BY <1>1, <1>2

LEMMA InitInv == Init => Inv
<1> SUFFICES ASSUME Init PROVE Inv
  OBVIOUS
<1>1. StoresOK
  BY NoneAssumption, BoundsAssumption
  DEF Init, StoresOK, LookupsAgree, GrantsInOrder, NoRowIsBlank, Opened, NoRow, Row,
      NoGrant, Grant
<1>2. \A p \in Proc : req[p] = Idle
  BY DEF Init
<1> QED
  BY <1>1, <1>2, IdleKnows DEF Inv, Init, InsertsDiffer, At

LEMMA AuthArriveInv ==
  ASSUME Inv, NEW p \in Proc, NEW k \in AuthenticatedKinds, NEW g \in Grant,
         NEW s \in SessionId \cup {None}, AuthArrive(p, k, g, s)
  PROVE  Inv'
<1> DEFINE n == [Idle EXCEPT !.kind = k, !.pc = "auth", !.jti = g, !.sid = s]
<1>1. n \in Request
  <2>1. Idle \in Request /\ k \in AllKinds /\ "auth" \in Label
    BY IdleKnows DEF AllKinds, Label
  <2>2. g \in 0..MaxGrants
    BY BoundsAssumption DEF Grant
  <2> QED
    BY <2>1, <2>2 DEF Request
<1>2. n.kind = k /\ n.pc = "auth" /\ n.jti = g /\ n.sid = s
  BY DEF Idle
<1>3. Knows(n)
  <2> HIDE DEF n
  <2> QED BY <1>2 DEF Knows, AuthArrive
<1> QED
  BY <1>1, <1>2, <1>3, LocalStep DEF AuthArrive

LEMMA AuthCachedInv ==
  ASSUME Inv, NEW p \in Proc, AuthCached(p) PROVE Inv'
<1>1. CASE Finish(p)
  BY <1>1, FinishStep DEF AuthCached
<1>2. ASSUME NEW l \in {"authDb", "authUser"},
             Become(p, [req[p] EXCEPT !.pc = l])
      PROVE  Inv'
  <2>0. req[p] \in Request /\ l \in Label
    BY DEF Inv, Label
  <2>1. PICK r \in Request : Moved(r, req[p], l)
    BY <2>0, MovedExists
  <2>2. Knows(req[p]) /\ req[p].pc = "auth"
    BY DEF Inv, AuthCached, At
  <2>3. Knows(r)
    BY <2>1, <2>2 DEF Knows, Moved
  <2> QED
    BY <1>2, <2>1, <2>3, LocalStep DEF AuthCached, Moved
<1> QED
  BY <1>1, <1>2 DEF AuthCached, Authenticated

LEMMA AuthDbInv ==
  ASSUME Inv, NEW p \in Proc, AuthDb(p) PROVE Inv'
<1>1. CASE Finish(p)
  BY <1>1, FinishStep DEF AuthDb
<1>2. ASSUME NEW s \in ActiveWithGrant(req[p].jti),
             Become(p, [req[p] EXCEPT !.pc = "authFill",
                                      !.user = sessions[s].user])
      PROVE  Inv'
  <2>1. /\ s \in SessionId /\ sessions[s].user \in User
        /\ sessions[s].user = subject[req[p].jti]
    BY DEF ActiveWithGrant, Live, Opened, Inv, StoresOK, LookupsAgree, Row
  <2> DEFINE n == [req[p] EXCEPT !.pc = "authFill",
                                 !.user = sessions[s].user]
  <2>2. n \in Request
    BY <2>1, ReqType, ZenonT(40) DEF Request, Label
  <2>3. /\ n.pc = "authFill" /\ n.user = sessions[s].user
        /\ n.kind = req[p].kind /\ n.sid = req[p].sid /\ n.jti = req[p].jti
    BY ReqType DEF Request
  <2>4. Knows(req[p]) /\ req[p].pc = "authDb"
    BY DEF Inv, AuthDb, At
  <2>5. Knows(n)
    <3> HIDE DEF n
    <3> QED BY <2>1, <2>3, <2>4 DEF Knows
  <2> QED
    BY <1>2, <2>2, <2>3, <2>5, LocalStep DEF AuthDb
<1> QED
  BY <1>1, <1>2 DEF AuthDb

LEMMA AuthFillInv ==
  ASSUME Inv, NEW p \in Proc, AuthFill(p) PROVE Inv'
<1>1. /\ Knows(req[p]) /\ req[p].pc = "authFill" /\ req[p].jti \in Grant
      /\ req[p].user \in User /\ req[p].user = subject[req[p].jti]
  BY DEF Inv, AuthFill, At, Knows
<1>2. /\ accessCache' \in [Grant -> User \cup {None}]
      /\ \A g \in Grant :
           accessCache'[g] \in {None, accessCache[g], subject[g]}
  BY <1>1 DEF AuthFill, RedisSet, Inv, StoresOK
<1>3. /\ refreshCache' \in [Grant -> SessionId \cup {None}]
      /\ \A g \in Grant : refreshCache'[g] = refreshCache[g]
  BY DEF AuthFill, Inv, StoresOK
<1>4. CASE Finish(p)
  BY <1>2, <1>3, <1>4, IdleKnows, CacheStep DEF AuthFill, Finish
<1>5. CASE Become(p, [req[p] EXCEPT !.pc = "authUser"])
  <2>1. PICK r \in Request : Moved(r, req[p], "authUser")
    BY MovedExists DEF Inv, Label
  <2>2. Knows(r)
    BY <1>1, <2>1 DEF Knows, Moved
  <2> QED
    BY <1>2, <1>3, <1>5, <2>1, <2>2, CacheStep DEF AuthFill, Moved
<1> QED
  BY <1>4, <1>5 DEF AuthFill, Authenticated

LEMMA AuthUserInv ==
  ASSUME Inv, NEW p \in Proc, AuthUser(p) PROVE Inv'
<1> DEFINE u == subject[req[p].jti]
<1>1. CASE Finish(p)
  BY <1>1, FinishStep DEF AuthUser
<1>2. ASSUME NEW l \in {"list", "target"},
             Become(p, [req[p] EXCEPT !.pc = l, !.user = u]),
             l = "target" => req[p].kind = "revoke_session"
      PROVE  Inv'
  <2>1. /\ Knows(req[p]) /\ req[p].pc = "authUser"
        /\ u \in User \cup {None}
    BY DEF Inv, AuthUser, At, Knows, StoresOK
  <2> DEFINE n == [req[p] EXCEPT !.pc = l, !.user = u]
  <2>2. n \in Request
    BY <2>1, ReqType, ZenonT(40) DEF Request, Label
  <2>3. n.pc = l /\ n.kind = req[p].kind /\ n.sid = req[p].sid
    BY ReqType DEF Request
  <2>4. Knows(n)
    <3> HIDE DEF n
    <3> QED BY <1>2, <2>1, <2>3 DEF Knows
  <2> QED
    BY <1>2, <2>2, <2>3, <2>4, LocalStep DEF AuthUser
<1>3. req[p].kind \in AuthenticatedKinds
  BY DEF Inv, AuthUser, At, Knows
<1> QED
  BY <1>1, <1>2, <1>3 DEF AuthUser, AuthenticatedKinds, ReadKinds

-----------------------------------------------------------------------------
(* Minting leaves the stores in agreement and every waiting request right. *)
LEMMA MintStores ==
  ASSUME Inv, NEW u \in User, NEW s \in SessionId \cup {None}, Mint(u, s),
         UNCHANGED <<active, sessions, clock, caches>>
  PROVE  /\ minted + 1 \in Grant /\ StoresOK' /\ Grows
         /\ subject'[minted + 1] = u /\ lineage'[minted + 1] = s
         /\ \A q \in Proc : At(q, "insert") =>
              req[q].new # minted + 1 /\ lineage'[req[q].new] = None
<1>1. /\ minted \in Nat /\ minted + 1 \in Grant /\ minted' = minted + 1
      /\ subject' = [subject EXCEPT ![minted + 1] = u]
      /\ lineage' = [lineage EXCEPT ![minted + 1] = s]
      /\ minted' \in 0..MaxGrants
  BY BoundsAssumption DEF Mint, Grant, Inv, StoresOK
<1>2. /\ subject \in [Grant -> User \cup {None}]
      /\ lineage \in [Grant -> SessionId \cup {None}]
      /\ LookupsAgree /\ GrantsInOrder /\ NoRowIsBlank
  BY DEF Inv, StoresOK
<1>3. subject[minted + 1] = None /\ lineage[minted + 1] = None
  BY <1>1, <1>2 DEF GrantsInOrder
<1>4. Grows
  BY <1>1, <1>2, <1>3 DEF Grows
<1>5. LookupsAgree'
  BY <1>1, <1>2, <1>3, <1>4, NoneAssumption
  DEF LookupsAgree, Grows, Opened, caches
<1>6. GrantsInOrder'
  BY <1>1, <1>2, NoneAssumption, BoundsAssumption DEF GrantsInOrder, Grant
<1>7. StoresOK'
  BY <1>1, <1>2, <1>5, <1>6
  DEF Inv, StoresOK, NoRowIsBlank, Opened, clock, caches, Mint
<1>8. ASSUME NEW q \in Proc, At(q, "insert")
      PROVE  req[q].new # minted + 1 /\ lineage'[req[q].new] = None
  <2>1. OwnsNew(req[q], None)
    BY <1>8 DEF Inv, Knows, At
  <2> QED
    BY <1>1, <1>2, <1>3, <2>1, NoneAssumption DEF OwnsNew
<1> QED
  BY <1>1, <1>2, <1>4, <1>7, <1>8

LEMMA LoginUserInv ==
  ASSUME Inv, NEW p \in Proc, NEW u \in User, LoginUser(p, u) PROVE Inv'
<1> DEFINE n(m) == [Idle EXCEPT !.kind = "login", !.pc = "insert",
                                !.user = u, !.new = m]
<1>1. PICK m \in Grant : m = minted + 1 /\ m \in 0..MaxGrants
  BY MintStores, BoundsAssumption DEF LoginUser, Grant
<1>2. n(m) \in Request
  <2>1. Idle \in Request /\ "login" \in AllKinds /\ "insert" \in Label
    BY IdleKnows DEF AllKinds, Label
  <2> QED
    BY <1>1, <2>1 DEF Request
<1>3. n(m).kind = "login" /\ n(m).pc = "insert" /\ n(m).user = u
      /\ n(m).new = m
  BY DEF Idle
<1>4. PICK r \in Request : r = n(m)
  BY <1>2
<1>5. StoresOK' /\ Grows /\ subject'[m] = u /\ lineage'[m] = None
      /\ \A q \in Proc : At(q, "insert") =>
           req[q].new # m /\ lineage'[req[q].new] = None
  BY <1>1, MintStores DEF LoginUser
<1>6. r.kind = "login" /\ r.pc = "insert" /\ r.user = u /\ r.new = m
  BY <1>3, <1>4
<1>7. Knows(r)'
  BY <1>5, <1>6 DEF Knows, OwnsNew
<1>8. Become(p, r)
  BY <1>1, <1>4 DEF LoginUser
<1> QED
  BY <1>5, <1>6, <1>7, <1>8, ServedStep

LEMMA RefreshUserInv ==
  ASSUME Inv, NEW p \in Proc, RefreshUser(p) PROVE Inv'
<1>1. CASE Finish(p) /\ UNCHANGED tokens
  BY <1>1, FinishStep DEF RefreshUser
<1>2. CASE /\ Mint(req[p].user, req[p].sid)
           /\ Become(p, [req[p] EXCEPT !.pc = "dropAccess",
                                       !.new = minted + 1])
  <2>1. /\ Knows(req[p]) /\ req[p].pc = "loadUser"
        /\ OwnsSession(req[p]) /\ req[p].kind = "refresh"
        /\ req[p].hash \in Grant
    BY DEF Inv, RefreshUser, At, Knows
  <2>2. /\ req[p].sid \in SessionId /\ Opened(req[p].sid)
        /\ req[p].user = sessions[req[p].sid].user /\ req[p].user \in User
        /\ req[p].jti \in Grant
    BY <2>1, ReqType DEF OwnsSession, Opened, Inv, StoresOK, Row, Knows
  <2> DEFINE n(m) == [req[p] EXCEPT !.pc = "dropAccess", !.new = m]
  <2>3. PICK m \in Grant : m = minted + 1 /\ m \in 0..MaxGrants
    BY <1>2, <2>2, MintStores, BoundsAssumption DEF RefreshUser, Grant
  <2>4. n(m) \in Request
    BY <2>3, ReqType, ZenonT(40) DEF Request, Label
  <2>5. PICK r \in Request : r = n(m)
    BY <2>4
  <2>6. /\ r.pc = "dropAccess" /\ r.new = m /\ r.kind = req[p].kind
        /\ r.user = req[p].user /\ r.sid = req[p].sid
        /\ r.jti = req[p].jti /\ r.hash = req[p].hash
    BY <2>5, ReqType DEF Request
  <2>7. /\ StoresOK' /\ Grows
        /\ subject'[m] = req[p].user /\ lineage'[m] = req[p].sid
        /\ \A q \in Proc : At(q, "insert") =>
             req[q].new # m /\ lineage'[req[q].new] = None
    BY <1>2, <2>2, <2>3, MintStores DEF RefreshUser
  <2>8. Knows(r)'
    <3>1. OwnsSession(r)'
      BY <2>2, <2>6, <2>7 DEF OwnsSession, Grows, Opened
    <3>2. OwnsNew(r, r.sid)'
      BY <2>2, <2>6, <2>7 DEF OwnsNew
    <3> QED
      BY <2>1, <2>2, <2>6, <3>1, <3>2 DEF Knows
  <2>9. Become(p, r)
    BY <1>2, <2>3, <2>5
  <2> QED
    BY <2>6, <2>7, <2>8, <2>9, ServedStep
<1> QED
  BY <1>1, <1>2 DEF RefreshUser

-----------------------------------------------------------------------------
(* Writing rows: what they say of grants stays true.                       *)
LEMMA RowStores ==
  ASSUME Inv, sessions' \in [SessionId -> Row],
         \A s \in SessionId :
           /\ sessions'[s].user = sessions[s].user
           /\ Opened(s) =>
                /\ sessions'[s].grant \in Grant
                /\ lineage[sessions'[s].grant] = s
                /\ subject[sessions'[s].grant] = sessions[s].user
           /\ ~Opened(s) => sessions'[s].revoked = sessions[s].revoked,
         UNCHANGED <<active, tokens, clock, caches>>
  PROVE  /\ StoresOK' /\ Grows
         /\ \A q \in Proc : At(q, "insert") => lineage'[req[q].new] = None
<1>1. LookupsAgree'
  BY DEF Inv, StoresOK, LookupsAgree, Opened, tokens, caches
<1>2. NoRowIsBlank'
  BY DEF Inv, StoresOK, NoRowIsBlank, Opened
<1>3. StoresOK'
  BY <1>1, <1>2 DEF Inv, StoresOK, GrantsInOrder, tokens, clock, caches
<1>4. Grows
  BY DEF Grows, tokens
<1>5. \A q \in Proc : At(q, "insert") => lineage'[req[q].new] = None
  BY DEF Inv, Knows, OwnsNew, At, tokens
<1> QED
  BY <1>3, <1>4, <1>5

LEMMA RotateInv ==
  ASSUME Inv, NEW p \in Proc, Rotate(p) PROVE Inv'
<1>1. /\ Knows(req[p]) /\ req[p].pc = "rotate" /\ req[p].kind = "refresh"
      /\ OwnsSession(req[p]) /\ OwnsNew(req[p], req[p].sid)
  BY DEF Inv, Rotate, At, Knows
<1>2. /\ sessions \in [SessionId -> Row] /\ LookupsAgree
      /\ sessions' = [sessions EXCEPT ![req[p].sid].grant = req[p].new]
      /\ req[p].sid \in SessionId /\ req[p].new \in Grant
      /\ req[p].new \in 0..MaxGrants
  BY <1>1, BoundsAssumption
  DEF Inv, StoresOK, Rotate, OwnsSession, OwnsNew, Grant
<1>3. /\ sessions' \in [SessionId -> Row]
      /\ \A s \in SessionId \ {req[p].sid} : sessions'[s] = sessions[s]
      /\ sessions'[req[p].sid].user = sessions[req[p].sid].user
      /\ sessions'[req[p].sid].grant = req[p].new
  BY <1>2 DEF Row
<1>4. /\ StoresOK' /\ Grows
      /\ \A q \in Proc : At(q, "insert") => lineage'[req[q].new] = None
  BY <1>1, <1>2, <1>3, RowStores
  DEF Rotate, OwnsSession, OwnsNew, LookupsAgree
<1>5. PICK r \in Request : Moved(r, req[p], "cacheAccess")
  BY ReqType, MovedExists DEF Label
<1>6. Knows(r)
  BY <1>1, <1>2, <1>5 DEF Knows, Moved, OwnsNew
<1>7. Knows(r)'
  BY <1>4, <1>5, <1>6, KnowsKept DEF Moved
<1> QED
  BY <1>4, <1>5, <1>7, ServedStep DEF Rotate, Moved

LEMMA RevokeInv ==
  ASSUME Inv, NEW p \in Proc, Revoke(p) PROVE Inv'
<1>1. /\ req[p].sid \in SessionId /\ Opened(req[p].sid)
      /\ sessions \in [SessionId -> Row] /\ LookupsAgree
      /\ sessions' = [sessions EXCEPT ![req[p].sid].revoked = TRUE]
  BY DEF Inv, StoresOK, Revoke, At, Knows
<1>2. /\ sessions' \in [SessionId -> Row]
      /\ \A s \in SessionId :
           /\ sessions'[s].user = sessions[s].user
           /\ sessions'[s].grant = sessions[s].grant
           /\ s # req[p].sid => sessions'[s] = sessions[s]
  BY <1>1 DEF Row
<1>3. /\ StoresOK' /\ Grows
      /\ \A q \in Proc : At(q, "insert") => lineage'[req[q].new] = None
  BY <1>1, <1>2, RowStores, ZenonT(40) DEF Revoke, LookupsAgree
<1> QED
  BY <1>3, IdleKnows, KnowsKept, ServedStep DEF Revoke, Finish

LEMMA LogoutAllRevokeInv ==
  ASSUME Inv, NEW p \in Proc, LogoutAllRevoke(p) PROVE Inv'
<1>1. sessions \in [SessionId -> Row] /\ LookupsAgree
  BY DEF Inv, StoresOK
<1>2. /\ sessions' \in [SessionId -> Row]
      /\ \A s \in SessionId :
           /\ sessions'[s].user = sessions[s].user
           /\ sessions'[s].grant = sessions[s].grant
           /\ ~Opened(s) => sessions'[s] = sessions[s]
  BY <1>1 DEF Row, LogoutAllRevoke, ActiveOfUser, Live
<1>3. /\ StoresOK' /\ Grows
      /\ \A q \in Proc : At(q, "insert") => lineage'[req[q].new] = None
  BY <1>1, <1>2, RowStores, ZenonT(40) DEF LogoutAllRevoke, LookupsAgree
<1> QED
  BY <1>3, IdleKnows, KnowsKept, ServedStep DEF LogoutAllRevoke, Finish

LEMMA LoginInsertInv ==
  ASSUME Inv, NEW p \in Proc, NEW s \in SessionId, LoginInsert(p, s)
  PROVE  Inv'
<1> DEFINE g == req[p].new
           n == [req[p] EXCEPT !.pc = "cacheAccess", !.sid = s]
<1>1. /\ Knows(req[p]) /\ req[p].pc = "insert" /\ req[p].kind = "login"
      /\ g \in Grant /\ g \in 0..MaxGrants /\ lineage[g] = None
      /\ req[p].user \in User /\ subject[g] = req[p].user
  BY BoundsAssumption DEF Inv, LoginInsert, At, Knows, OwnsNew, Grant
<1>2. /\ sessions \in [SessionId -> Row]
      /\ lineage \in [Grant -> SessionId \cup {None}]
      /\ LookupsAgree /\ GrantsInOrder /\ NoRowIsBlank
  BY DEF Inv, StoresOK
<1>3. /\ sessions' \in [SessionId -> Row]
      /\ \A t \in SessionId \ {s} : sessions'[t] = sessions[t]
      /\ sessions'[s].user = req[p].user /\ sessions'[s].grant = g
      /\ sessions'[s].revoked = FALSE
  BY <1>1, <1>2 DEF LoginInsert, Row
<1>4. /\ lineage' \in [Grant -> SessionId \cup {None}]
      /\ \A h \in Grant \ {g} : lineage'[h] = lineage[h]
      /\ lineage'[g] = s
  BY <1>1, <1>2 DEF LoginInsert
<1>5. Grows
  BY <1>1, <1>3, <1>4 DEF Grows, LoginInsert
<1>6. LookupsAgree'
  BY <1>1, <1>2, <1>3, <1>4, NoneAssumption
  DEF LookupsAgree, Opened, LoginInsert, caches
<1>7. GrantsInOrder'
  BY <1>1, <1>2, <1>4, NoneAssumption DEF GrantsInOrder, LoginInsert
<1>8. StoresOK'
  BY <1>2, <1>3, <1>4, <1>6, <1>7
  DEF Inv, StoresOK, NoRowIsBlank, Opened, LoginInsert, clock, caches
<1>9. n \in Request
  BY ReqType, ZenonT(40) DEF Request, Label
<1>10. /\ n.pc = "cacheAccess" /\ n.sid = s /\ n.user = req[p].user
       /\ n.new = g /\ n.kind = req[p].kind
  BY ReqType DEF Request
<1>11. PICK r \in Request : r = n
  BY <1>9
<1>12. Knows(r)'
  <2>1. /\ r.pc = "cacheAccess" /\ r.kind = "login" /\ r.sid = s
        /\ OwnsNew(r, s)'
    BY <1>1, <1>4, <1>10, <1>11 DEF OwnsNew, LoginInsert
  <2> QED
    BY <2>1 DEF Knows
<1>13. \A q \in Proc \ {p} : At(q, "insert") => lineage'[req[q].new] = None
  BY <1>1, <1>4 DEF Inv, InsertsDiffer, At, Knows, OwnsNew
<1> QED
  BY <1>5, <1>8, <1>10, <1>11, <1>12, <1>13, ServedStep DEF LoginInsert

-----------------------------------------------------------------------------
(* Writing the caches.                                                     *)
LEMMA CacheAccessInv ==
  ASSUME Inv, NEW p \in Proc, CacheAccess(p) PROVE Inv'
<1>1. /\ Knows(req[p]) /\ req[p].pc = "cacheAccess"
      /\ OwnsNew(req[p], req[p].sid)
  BY DEF Inv, CacheAccess, At, Knows
<1>2. /\ accessCache' \in [Grant -> User \cup {None}]
      /\ \A g \in Grant :
           accessCache'[g] \in {None, accessCache[g], subject[g]}
  BY <1>1 DEF CacheAccess, RedisSet, Inv, StoresOK, OwnsNew
<1>3. /\ refreshCache' \in [Grant -> SessionId \cup {None}]
      /\ \A g \in Grant : refreshCache'[g] = refreshCache[g]
  BY DEF CacheAccess, Inv, StoresOK
<1>4. PICK r \in Request : Moved(r, req[p], "cacheRefresh")
  BY ReqType, MovedExists DEF Label
<1>5. Knows(r)
  BY <1>1, <1>4 DEF Knows, Moved, OwnsNew
<1> QED
  BY <1>2, <1>3, <1>4, <1>5, CacheStep DEF CacheAccess, Moved

LEMMA CacheRefreshInv ==
  ASSUME Inv, NEW p \in Proc, CacheRefresh(p) PROVE Inv'
<1>1. /\ Knows(req[p]) /\ req[p].pc = "cacheRefresh"
      /\ req[p].sid \in SessionId /\ OwnsNew(req[p], req[p].sid)
  BY DEF Inv, CacheRefresh, At, Knows
<1>2. /\ refreshCache' \in [Grant -> SessionId \cup {None}]
      /\ \A g \in Grant :
           refreshCache'[g] \in {None, refreshCache[g], lineage[g]}
  BY <1>1 DEF CacheRefresh, RedisSet, Inv, StoresOK, OwnsNew
<1>3. /\ accessCache' \in [Grant -> User \cup {None}]
      /\ \A g \in Grant : accessCache'[g] = accessCache[g]
  BY DEF CacheRefresh, Inv, StoresOK
<1>4. PICK r \in Request : Moved(r, req[p], "respond")
  BY ReqType, MovedExists DEF Label
<1>5. Knows(r)
  BY <1>1, <1>4 DEF Knows, Moved, OwnsNew
<1> QED
  BY <1>2, <1>3, <1>4, <1>5, CacheStep DEF CacheRefresh, Moved

LEMMA DropAccessInv ==
  ASSUME Inv, NEW p \in Proc, DropAccess(p) PROVE Inv'
<1>1. Knows(req[p]) /\ req[p].pc = "dropAccess"
  BY DEF Inv, DropAccess, At
<1>2. /\ accessCache' \in [Grant -> User \cup {None}]
      /\ \A g \in Grant : accessCache'[g] \in {None, accessCache[g]}
  BY DEF DropAccess, RedisSet, Inv, StoresOK
<1>3. /\ refreshCache' \in [Grant -> SessionId \cup {None}]
      /\ \A g \in Grant : refreshCache'[g] = refreshCache[g]
  BY DEF DropAccess, Inv, StoresOK
<1>4. PICK r \in Request : Moved(r, req[p], "dropRefresh")
  BY ReqType, MovedExists DEF Label
<1>5. Knows(r)
  BY <1>1, <1>4 DEF Knows, Moved, OwnsNew, OwnsSession
<1> QED
  BY <1>2, <1>3, <1>4, <1>5, CacheStep DEF DropAccess, Moved

LEMMA DropRefreshInv ==
  ASSUME Inv, NEW p \in Proc, DropRefresh(p) PROVE Inv'
<1>1. /\ Knows(req[p]) /\ req[p].pc = "dropRefresh"
      /\ req[p].kind \in {"refresh", "logout", "revoke_session"}
  BY DEF Inv, DropRefresh, At, Knows
<1>2. /\ refreshCache' \in [Grant -> SessionId \cup {None}]
      /\ \A g \in Grant : refreshCache'[g] \in {None, refreshCache[g]}
  BY DEF DropRefresh, RedisSet, Inv, StoresOK
<1>3. /\ accessCache' \in [Grant -> User \cup {None}]
      /\ \A g \in Grant : accessCache'[g] = accessCache[g]
  BY DEF DropRefresh, Inv, StoresOK
<1>4. PICK l \in {"rotate", "byJti", "revoke"} :
        /\ l = "rotate" => req[p].kind = "refresh"
        /\ l = "revoke" => req[p].kind = "revoke_session"
        /\ Become(p, [req[p] EXCEPT !.pc = l])
  BY <1>1 DEF DropRefresh
<1>5. PICK r \in Request : Moved(r, req[p], l)
  <2>1. l \in Label
    BY DEF Label
  <2> QED
    BY <2>1, ReqType, MovedExists
<1>6. Knows(r)
  BY <1>1, <1>4, <1>5 DEF Knows, Moved, OwnsNew, OwnsSession
<1> QED
  BY <1>2, <1>3, <1>4, <1>5, <1>6, CacheStep DEF DropRefresh, Moved

LEMMA LogoutAllDropInv ==
  ASSUME Inv, NEW p \in Proc, LogoutAllDrop(p) PROVE Inv'
<1>1. /\ accessCache' \in [Grant -> User \cup {None}]
      /\ refreshCache' \in [Grant -> SessionId \cup {None}]
      /\ \A g \in Grant : /\ accessCache'[g] \in {None, accessCache[g]}
                          /\ refreshCache'[g] \in {None, refreshCache[g]}
  BY DEF LogoutAllDrop, RedisDeleteAll, Inv, StoresOK, caches
<1>2. PICK r \in Request : Moved(r, req[p], "revokeAll")
  BY ReqType, MovedExists DEF Label
<1>3. Knows(r)
  BY <1>2 DEF Knows, Moved
<1> QED
  BY <1>1, <1>2, <1>3, CacheStep DEF LogoutAllDrop, Moved

-----------------------------------------------------------------------------
(* The other steps of requests.                                            *)
LEMMA RespondInv ==
  ASSUME Inv, NEW p \in Proc, Respond(p) PROVE Inv'
<1>1. issued' \subseteq Grant
  BY DEF Respond, Inv, StoresOK, At, Knows
<1>2. StoresOK' /\ Grows
  BY <1>1 DEF Respond, Inv, StoresOK, LookupsAgree, GrantsInOrder,
              NoRowIsBlank, Opened, Grows, clock, caches
<1>3. \A q \in Proc \ {p} : At(q, "insert") => lineage'[req[q].new] = None
  BY DEF Inv, Knows, OwnsNew, At, Respond
<1> QED
  BY <1>2, <1>3, IdleKnows, KnowsKept, ServedStep DEF Respond, Finish

LEMMA RefreshArriveInv ==
  ASSUME Inv, NEW p \in Proc, NEW h \in Grant, RefreshArrive(p, h)
  PROVE  Inv'
<1> DEFINE n == [Idle EXCEPT !.kind = "refresh", !.pc = "findCached",
                             !.hash = h]
<1>1. n \in Request
  <2>1. /\ Idle \in Request /\ "refresh" \in AllKinds
        /\ "findCached" \in Label /\ h \in 0..MaxGrants
    BY IdleKnows, BoundsAssumption DEF AllKinds, Label, Grant
  <2> QED
    BY <2>1 DEF Request
<1>2. n.kind = "refresh" /\ n.pc = "findCached" /\ n.hash = h
  BY DEF Idle
<1>3. Knows(n)
  <2> HIDE DEF n
  <2> QED BY <1>2 DEF Knows
<1> QED
  BY <1>1, <1>2, <1>3, LocalStep DEF RefreshArrive

LEMMA LogoutArriveInv ==
  ASSUME Inv, NEW p \in Proc, NEW g \in Grant, NEW h \in Grant,
         LogoutArrive(p, g, h)
  PROVE  Inv'
<1> DEFINE n == [Idle EXCEPT !.kind = "logout", !.pc = "dropAccess",
                             !.jti = g, !.hash = h]
<1>1. n \in Request
  <2>1. /\ Idle \in Request /\ "logout" \in AllKinds
        /\ "dropAccess" \in Label /\ g \in 0..MaxGrants /\ h \in 0..MaxGrants
    BY IdleKnows, BoundsAssumption DEF AllKinds, Label, Grant
  <2> QED
    BY <2>1 DEF Request
<1>2. n.kind = "logout" /\ n.pc = "dropAccess" /\ n.jti = g /\ n.hash = h
  BY DEF Idle
<1>3. Knows(n)
  <2> HIDE DEF n
  <2> QED BY <1>2 DEF Knows
<1> QED
  BY <1>1, <1>2, <1>3, LocalStep DEF LogoutArrive

LEMMA RefreshCachedInv ==
  ASSUME Inv, NEW p \in Proc, RefreshCached(p) PROVE Inv'
<1>1. Knows(req[p]) /\ req[p].pc = "findCached" /\ req[p].hash \in Grant
  BY DEF Inv, RefreshCached, At, Knows
<1>2. CASE Become(p, [req[p] EXCEPT !.pc = "byHash"])
  <2>1. PICK r \in Request : Moved(r, req[p], "byHash")
    BY ReqType, MovedExists DEF Label
  <2>2. Knows(r)
    BY <1>1, <2>1 DEF Knows, Moved
  <2> QED
    BY <1>2, <2>1, <2>2, LocalStep DEF RefreshCached, Moved
<1>3. ASSUME NEW s \in SessionId,
             Become(p, [req[p] EXCEPT !.pc = "byId", !.sid = s])
      PROVE  Inv'
  <2> DEFINE n == [req[p] EXCEPT !.pc = "byId", !.sid = s]
  <2>1. n \in Request
    BY ReqType, ZenonT(40) DEF Request, Label
  <2>2. n.pc = "byId" /\ n.sid = s /\ n.kind = req[p].kind
        /\ n.hash = req[p].hash
    BY ReqType DEF Request
  <2>3. Knows(n)
    <3> HIDE DEF n
    <3> QED BY <1>1, <2>2 DEF Knows
  <2> QED
    BY <1>3, <2>1, <2>2, <2>3, LocalStep DEF RefreshCached
<1> QED
  BY <1>1, <1>2, <1>3 DEF RefreshCached, RedisGet, Inv, StoresOK

LEMMA FoundInv ==
  ASSUME Inv, NEW p \in Proc, NEW s \in SessionId, Live(s), Found(p, s),
         req[p].pc \in {"byId", "byHash"},
         UNCHANGED <<active, sessions, tokens, clock, caches>>
  PROVE  Inv'
<1> DEFINE n == [req[p] EXCEPT !.pc = "loadUser", !.sid = s,
                               !.user = sessions[s].user,
                               !.jti = sessions[s].grant]
<1>1. /\ Knows(req[p]) /\ Opened(s) /\ sessions[s].user \in User \cup {None}
      /\ sessions[s].grant \in Grant /\ sessions[s].grant \in 0..MaxGrants
  BY BoundsAssumption
  DEF Inv, StoresOK, LookupsAgree, Row, Live, Grant
<1>2. n \in Request
  BY <1>1, ReqType, ZenonT(40) DEF Request, Label
<1>3. /\ n.pc = "loadUser" /\ n.sid = s /\ n.user = sessions[s].user
      /\ n.jti = sessions[s].grant
      /\ n.kind = req[p].kind /\ n.hash = req[p].hash
  BY ReqType DEF Request
<1>4. Knows(n)
  <2> HIDE DEF n
  <2> QED BY <1>1, <1>3 DEF Knows, OwnsSession
<1> QED
  BY <1>2, <1>3, <1>4, LocalStep DEF Found

LEMMA RefreshByIdInv ==
  ASSUME Inv, NEW p \in Proc, RefreshById(p) PROVE Inv'
<1>1. req[p].sid \in SessionId /\ req[p].pc = "byId"
  BY DEF Inv, RefreshById, At, Knows
<1> QED
  BY <1>1, FinishStep, FoundInv DEF RefreshById

LEMMA RefreshByHashInv ==
  ASSUME Inv, NEW p \in Proc, RefreshByHash(p) PROVE Inv'
BY FinishStep, FoundInv DEF RefreshByHash, ActiveWithGrant, At

LEMMA LogoutSessionInv ==
  ASSUME Inv, NEW p \in Proc, LogoutSession(p) PROVE Inv'
<1>1. CASE Finish(p)
  BY <1>1, FinishStep DEF LogoutSession
<1>2. ASSUME NEW s \in ActiveWithGrant(req[p].jti),
             Become(p, [req[p] EXCEPT !.pc = "revoke", !.sid = s])
      PROVE  Inv'
  <2> DEFINE n == [req[p] EXCEPT !.pc = "revoke", !.sid = s]
  <2>1. s \in SessionId /\ Opened(s)
    BY DEF ActiveWithGrant, Live
  <2>2. n \in Request
    BY <2>1, ReqType, ZenonT(40) DEF Request, Label
  <2>3. n.pc = "revoke" /\ n.sid = s
    BY ReqType DEF Request
  <2>4. Knows(n)
    <3> HIDE DEF n
    <3> QED BY <2>1, <2>3 DEF Knows
  <2> QED
    BY <1>2, <2>2, <2>3, <2>4, LocalStep DEF LogoutSession
<1> QED
  BY <1>1, <1>2 DEF LogoutSession

LEMMA RevokeTargetInv ==
  ASSUME Inv, NEW p \in Proc, RevokeTarget(p) PROVE Inv'
<1> DEFINE s == req[p].sid
           n == [req[p] EXCEPT !.pc = "dropAccess",
                               !.jti = sessions[s].grant,
                               !.hash = sessions[s].grant]
<1>1. CASE Finish(p)
  BY <1>1, FinishStep DEF RevokeTarget
<1>2. CASE Live(s) /\ Become(p, n)
  <2>1. /\ Knows(req[p]) /\ req[p].kind = "revoke_session"
        /\ s \in SessionId /\ Opened(s)
        /\ sessions[s].grant \in Grant /\ sessions[s].grant \in 0..MaxGrants
    BY <1>2, BoundsAssumption
    DEF Inv, StoresOK, LookupsAgree, RevokeTarget, At, Knows, Live, Grant
  <2>2. n \in Request
    BY <2>1, ReqType, ZenonT(40) DEF Request, Label
  <2>3. /\ n.pc = "dropAccess" /\ n.sid = s /\ n.kind = req[p].kind
        /\ n.jti = sessions[s].grant /\ n.hash = sessions[s].grant
    BY ReqType DEF Request
  <2>4. Knows(n)
    <3> HIDE DEF n
    <3> QED BY <2>1, <2>3 DEF Knows
  <2> QED
    BY <1>2, <2>2, <2>3, <2>4, LocalStep DEF RevokeTarget
<1> QED
  BY <1>1, <1>2 DEF RevokeTarget

LEMMA LogoutAllListInv ==
  ASSUME Inv, NEW p \in Proc, LogoutAllList(p) PROVE Inv'
<1> DEFINE G == {sessions[s].grant : s \in ActiveOfUser(req[p].user)}
           n == [req[p] EXCEPT !.pc = "dropAll", !.listed = G]
<1>1. G \subseteq 0..MaxGrants
  BY DEF ActiveOfUser, Inv, StoresOK, Row
<1>2. n \in Request
  <2> HIDE DEF G
  <2> QED BY <1>1, ReqType, ZenonT(40) DEF Request, Label
<1>3. n.pc = "dropAll"
  BY ReqType DEF Request
<1>4. Knows(n)
  <2> HIDE DEF n
  <2> QED BY <1>3 DEF Knows
<1> QED
  BY <1>2, <1>3, <1>4, LocalStep DEF LogoutAllList

-----------------------------------------------------------------------------
LEMMA ServeInv ==
  ASSUME Inv, NEW p \in Proc, Serve(p) PROVE Inv'
BY AuthCachedInv, AuthDbInv, AuthFillInv, AuthUserInv, LoginInsertInv,
   CacheAccessInv, CacheRefreshInv, RespondInv, RefreshCachedInv,
   RefreshByIdInv, RefreshByHashInv, RefreshUserInv, RotateInv,
   DropAccessInv, DropRefreshInv, RevokeInv, LogoutSessionInv,
   RevokeTargetInv, LogoutAllListInv, LogoutAllDropInv, LogoutAllRevokeInv
DEF Serve, Authenticate

LEMMA ArriveInv ==
  ASSUME Inv, NEW p \in Proc, ArriveAny(p) PROVE Inv'
BY AuthArriveInv, LoginUserInv, RefreshArriveInv, LogoutArriveInv
DEF ArriveAny

LEMMA EnvironmentInv ==
  ASSUME Inv, Environment PROVE Inv'
<1>1. StoresOK'
  <2>1. ASSUME NEW g \in Grant, EvictAccess(g) \/ EvictRefresh(g)
        PROVE  StoresOK'
    BY <2>1 DEF EvictAccess, EvictRefresh, Inv, StoresOK, LookupsAgree,
                GrantsInOrder, NoRowIsBlank, Opened, tokens, clock
  <2>2. ASSUME LapseAccess \/ LapseRefresh PROVE StoresOK'
    BY <2>2, BoundsAssumption
    DEF LapseAccess, LapseRefresh, Inv, StoresOK, LookupsAgree,
        GrantsInOrder, NoRowIsBlank, Opened, tokens, caches
  <2>3. ASSUME NEW u \in User, Deactivate(u) PROVE StoresOK'
    BY <2>3 DEF Deactivate, Inv, StoresOK, LookupsAgree,
                GrantsInOrder, NoRowIsBlank, Opened, tokens, clock, caches
  <2> QED
    BY <2>1, <2>2, <2>3 DEF Environment
<1>2. UNCHANGED <<sessions, tokens, req>>
  BY DEF Environment, EvictAccess, EvictRefresh, LapseAccess, LapseRefresh,
         Deactivate
<1>3. \A p \in Proc : Knows(req[p])'
  BY <1>2 DEF Inv, Knows, OwnsNew, OwnsSession, Opened, tokens
<1> QED
  BY <1>1, <1>2, <1>3 DEF Inv, InsertsDiffer, At

LEMMA NextInv == Inv /\ [Next]_vars => Inv'
<1> SUFFICES ASSUME Inv, [Next]_vars PROVE Inv'
  OBVIOUS
<1>1. ASSUME NEW p \in Proc, Crash(p) PROVE Inv'
  BY <1>1, FinishStep DEF Crash
<1>2. CASE UNCHANGED vars
  BY <1>2 DEF vars, tokens, clock, caches, Inv, StoresOK, LookupsAgree,
              GrantsInOrder, NoRowIsBlank, Opened, Knows, OwnsNew,
              OwnsSession, InsertsDiffer, At
<1> QED
  BY <1>1, <1>2, ServeInv, ArriveInv, EnvironmentInv DEF Next

(* Inv is an invariant of AuthSessions.                                    *)
THEOREM Invariance == Spec => []Inv
BY InitInv, NextInv, PTL DEF Spec

(* Every variable of AuthSessions keeps its type.                          *)
THEOREM TypeCorrect == Spec => []TypeOK
BY Invariance, InvTypeOK, PTL

(* Redis, PostgreSQL and the tokens always agree about whose a grant is,   *)
(* however login, refresh and get_current_user interleave, fail or crash.  *)
THEOREM LookupsAlwaysAgree == Spec => []LookupsAgree
<1>1. Inv => LookupsAgree
  BY DEF Inv, StoresOK
<1> QED
  BY <1>1, Invariance, PTL

-----------------------------------------------------------------------------
(* The steps that write the sessions table.                                *)
WritesRows(p) ==
  \/ Rotate(p) \/ Revoke(p) \/ LogoutAllRevoke(p)
  \/ \E s \in SessionId : LoginInsert(p, s)

LEMMA RowWriters ==
  ASSUME [Next]_vars
  PROVE  sessions' = sessions \/ \E p \in Proc : WritesRows(p)
<1>1. ASSUME NEW p \in Proc, Serve(p)
      PROVE  sessions' = sessions \/ WritesRows(p)
  BY <1>1 DEF Serve, Authenticate, WritesRows, AuthCached, AuthDb, AuthFill,
       AuthUser, CacheAccess, CacheRefresh, Respond, RefreshCached,
       RefreshById, RefreshByHash, RefreshUser, DropAccess, DropRefresh,
       LogoutSession, RevokeTarget, LogoutAllList, LogoutAllDrop
<1>2. ASSUME NEW p \in Proc, ArriveAny(p) \/ Crash(p)
      PROVE  sessions' = sessions
  BY <1>2 DEF ArriveAny, AuthArrive, LoginUser, RefreshArrive, LogoutArrive,
              Crash
<1>3. Environment \/ UNCHANGED vars => sessions' = sessions
  BY DEF Environment, EvictAccess, EvictRefresh, LapseAccess, LapseRefresh,
         Deactivate, vars
<1> QED
  BY <1>1, <1>2, <1>3 DEF Next

LEMMA RevokedKept ==
  ASSUME Inv, [Next]_vars, NEW s \in SessionId, sessions[s].revoked
  PROVE  sessions'[s].revoked
<1>1. sessions \in [SessionId -> Row] /\ Opened(s)
  BY DEF Inv, StoresOK, NoRowIsBlank
<1>2. ASSUME NEW p \in Proc, Rotate(p) PROVE sessions'[s].revoked
  BY <1>1, <1>2 DEF Rotate, Row
<1>3. ASSUME NEW p \in Proc, Revoke(p) PROVE sessions'[s].revoked
  BY <1>1, <1>3 DEF Revoke, Row
<1>4. ASSUME NEW p \in Proc, LogoutAllRevoke(p) PROVE sessions'[s].revoked
  BY <1>1, <1>4 DEF LogoutAllRevoke, Row
<1>5. ASSUME NEW p \in Proc, NEW t \in SessionId, LoginInsert(p, t)
      PROVE  sessions'[s].revoked
  BY <1>1, <1>5 DEF LoginInsert
<1> QED
  BY <1>2, <1>3, <1>4, <1>5, RowWriters DEF WritesRows

(* A revoked session stays revoked, whatever rotation was under way.       *)
THEOREM RevokedForEver == Spec => RevokedStaysRevoked
<1>1. Inv /\ [Next]_vars =>
        [\A s \in SessionId : sessions[s].revoked => sessions'[s].revoked]_vars
  BY RevokedKept
<1> QED
  BY <1>1, Invariance, PTL DEF Spec, RevokedStaysRevoked

-----------------------------------------------------------------------------
(* Nothing reaches a session whose revocation has settled.                 *)
LEMMA SettledRow ==
  ASSUME Inv, [Next]_vars, NEW s \in SessionId, Settled(s)
  PROVE  sessions'[s] = sessions[s]
<1>1. /\ sessions \in [SessionId -> Row] /\ Opened(s)
      /\ sessions[s].revoked = TRUE /\ ~Live(s)
  BY DEF Inv, StoresOK, Settled, Row, Live
<1>2. ASSUME NEW p \in Proc, Rotate(p) PROVE sessions'[s] = sessions[s]
  <2>1. req[p].sid # s
    BY <1>2 DEF Settled, InFlight, Rotate, At, Inv, Knows
  <2> QED
    BY <1>1, <1>2, <2>1 DEF Rotate
<1>3. ASSUME NEW p \in Proc, Revoke(p) PROVE sessions'[s] = sessions[s]
  BY <1>1, <1>3 DEF Revoke, Row
<1>4. ASSUME NEW p \in Proc, LogoutAllRevoke(p)
      PROVE  sessions'[s] = sessions[s]
  BY <1>1, <1>4 DEF LogoutAllRevoke, ActiveOfUser
<1>5. ASSUME NEW p \in Proc, NEW t \in SessionId, LoginInsert(p, t)
      PROVE  sessions'[s] = sessions[s]
  BY <1>1, <1>5 DEF LoginInsert
<1> QED
  BY <1>2, <1>3, <1>4, <1>5, RowWriters DEF WritesRows

LEMMA SettledLineage ==
  ASSUME Inv, [Next]_vars, NEW s \in SessionId, Settled(s),
         NEW g \in Grant, lineage'[g] = s
  PROVE  lineage[g] = s
<1>1. lineage \in [Grant -> SessionId \cup {None}] /\ minted \in Nat
  BY DEF Inv, StoresOK
<1>2. ASSUME NEW p \in Proc, NEW t \in SessionId, LoginInsert(p, t)
      PROVE  lineage[g] = s
  BY <1>1, <1>2 DEF LoginInsert, Settled
<1>3. ASSUME NEW p \in Proc, RefreshUser(p) PROVE lineage[g] = s
  <2>1. req[p].sid # s
    BY <1>3 DEF Settled, InFlight, RefreshUser, At, Inv, Knows
  <2> QED
    BY <1>1, <1>3, <2>1 DEF RefreshUser, Mint, tokens
<1>4. ASSUME NEW p \in Proc, NEW u \in User, LoginUser(p, u)
      PROVE  lineage[g] = s
  BY <1>1, <1>4, NoneAssumption DEF LoginUser, Mint
<1>5. ASSUME lineage' = lineage PROVE lineage[g] = s
  BY <1>5
<1>6. ASSUME NEW p \in Proc, Serve(p) PROVE lineage[g] = s
  BY <1>2, <1>3, <1>5, <1>6
  DEF Serve, Authenticate, AuthCached, AuthDb, AuthFill, AuthUser,
      CacheAccess, CacheRefresh, Respond, RefreshCached, RefreshById,
      RefreshByHash, DropAccess, DropRefresh, LogoutSession, RevokeTarget,
      LogoutAllList, LogoutAllDrop, LogoutAllRevoke, Rotate, Revoke, tokens
<1>7. ASSUME NEW p \in Proc, ArriveAny(p) \/ Crash(p) PROVE lineage[g] = s
  BY <1>4, <1>5, <1>7 DEF ArriveAny, AuthArrive, RefreshArrive, LogoutArrive,
                          Crash, tokens
<1>8. ASSUME Environment \/ UNCHANGED vars PROVE lineage[g] = s
  BY <1>5, <1>8 DEF Environment, EvictAccess, EvictRefresh, LapseAccess,
                    LapseRefresh, Deactivate, vars, tokens
<1> QED
  BY <1>6, <1>7, <1>8 DEF Next

LEMMA SettledUncached ==
  ASSUME Inv, [Next]_vars, NEW s \in SessionId, Settled(s),
         NEW g \in Grant, lineage[g] = s
  PROVE  accessCache'[g] = None
<1>1. accessCache \in [Grant -> User \cup {None}] /\ accessCache[g] = None
  BY DEF Inv, StoresOK, Settled
<1>2. ASSUME NEW p \in Proc, AuthFill(p) PROVE accessCache'[g] = None
  <2>1. req[p].jti # g
    BY <1>2 DEF Settled, InFlight, AuthFill, At
  <2> QED
    BY <1>1, <1>2, <2>1 DEF AuthFill, RedisSet
<1>3. ASSUME NEW p \in Proc, CacheAccess(p) PROVE accessCache'[g] = None
  <2>1. req[p].new # g
    BY <1>3 DEF Settled, InFlight, CacheAccess, At, Inv, Knows, OwnsNew
  <2> QED
    BY <1>1, <1>3, <2>1 DEF CacheAccess, RedisSet
<1>4. ASSUME NEW p \in Proc, DropAccess(p) \/ LogoutAllDrop(p)
      PROVE  accessCache'[g] = None
  BY <1>1, <1>4 DEF DropAccess, LogoutAllDrop, RedisSet, RedisDeleteAll,
                    caches
<1>5. ASSUME accessCache' = accessCache PROVE accessCache'[g] = None
  BY <1>1, <1>5
<1>6. ASSUME NEW p \in Proc, Serve(p) PROVE accessCache'[g] = None
  BY <1>2, <1>3, <1>4, <1>5, <1>6
  DEF Serve, Authenticate, AuthCached, AuthDb, AuthUser, LoginInsert,
      CacheRefresh, Respond, RefreshCached, RefreshById, RefreshByHash,
      RefreshUser, DropRefresh, LogoutSession, RevokeTarget, LogoutAllList,
      LogoutAllRevoke, Rotate, Revoke, caches
<1>7. ASSUME NEW p \in Proc, ArriveAny(p) \/ Crash(p)
      PROVE  accessCache'[g] = None
  BY <1>5, <1>7 DEF ArriveAny, AuthArrive, LoginUser, RefreshArrive,
                    LogoutArrive, Crash, caches
<1>8. ASSUME Environment \/ UNCHANGED vars PROVE accessCache'[g] = None
  BY <1>1, <1>5, <1>8 DEF Environment, EvictAccess, EvictRefresh, LapseAccess,
                          LapseRefresh, Deactivate, vars, caches
<1> QED
  BY <1>6, <1>7, <1>8 DEF Next

(* A request keeps what makes it in flight, or is not in flight for s.     *)
LEMMA SettledOthers ==
  ASSUME Inv, [Next]_vars, NEW s \in SessionId, Settled(s),
         NEW q \in Proc, req'[q] = req[q]
  PROVE  ~InFlight(q, s)'
<1>1. ~InFlight(q, s) /\ Knows(req[q])
  BY DEF Settled, Inv
<1>2. At(q, "authFill") => req[q].jti \in Grant
  BY <1>1 DEF Knows, At
<1>3. At(q, "authFill") /\ lineage'[req[q].jti] = s => lineage[req[q].jti] = s
  BY <1>2, SettledLineage
<1> QED
  BY <1>1, <1>3 DEF InFlight, At

(* Whoever takes a step does not come to be in flight for s.               *)
LEMMA SettledServed ==
  ASSUME Inv, [Next]_vars, NEW s \in SessionId, Settled(s),
         NEW p \in Proc, Serve(p)
  PROVE  ~InFlight(p, s)'
<1>1. /\ Opened(s) /\ ~Live(s) /\ ~InFlight(p, s)
      /\ Knows(req[p]) /\ req[p] \in Request /\ req \in [Proc -> Request]
  BY DEF Settled, Live, Inv
<1>2. ASSUME Finish(p) PROVE ~InFlight(p, s)'
  BY <1>1, <1>2 DEF Finish, Become, Idle, InFlight, At
<1>3. ASSUME NEW l \in Label, Become(p, [req[p] EXCEPT !.pc = l]),
             l \notin {"loadUser", "authFill"},
             l \in {"dropAccess", "dropRefresh", "rotate", "cacheAccess",
                    "cacheRefresh"} =>
               \/ req[p].pc \in {"loadUser", "dropAccess", "dropRefresh",
                                 "rotate", "cacheAccess", "cacheRefresh"}
               \/ req[p].kind \notin {"login", "refresh"}
      PROVE  ~InFlight(p, s)'
  <2>1. req'[p].pc = l /\ req'[p].kind = req[p].kind
        /\ req'[p].sid = req[p].sid
    BY <1>1, <1>3 DEF Become, Request
  <2> QED
    BY <1>1, <1>3, <2>1 DEF InFlight, At
<1>4. ASSUME AuthDb(p) PROVE ~InFlight(p, s)'
  <2>1. ASSUME NEW t \in ActiveWithGrant(req[p].jti),
               Become(p, [req[p] EXCEPT !.pc = "authFill",
                                        !.user = sessions[t].user])
        PROVE  ~InFlight(p, s)'
    <3>1. /\ t \in SessionId /\ t # s /\ lineage[req[p].jti] = t
          /\ lineage' = lineage
      BY <1>1, <1>4
      DEF ActiveWithGrant, Live, Inv, StoresOK, LookupsAgree, AuthDb, tokens
    <3>2. req'[p].pc = "authFill" /\ req'[p].jti = req[p].jti
      BY <1>1, <2>1 DEF Become, Request
    <3> QED
      BY <3>1, <3>2 DEF InFlight, At
  <2> QED
    BY <1>2, <1>4, <2>1 DEF AuthDb
<1>5. ASSUME NEW t \in SessionId, LoginInsert(p, t) PROVE ~InFlight(p, s)'
  <2>1. t # s
    BY <1>1, <1>5 DEF LoginInsert
  <2>2. req'[p].sid = t /\ req'[p].pc = "cacheAccess"
    BY <1>1, <1>5 DEF LoginInsert, Become, Request
  <2> QED
    BY <2>1, <2>2 DEF InFlight, At
<1>6. ASSUME NEW t \in SessionId, Live(t), Found(p, t)
      PROVE  ~InFlight(p, s)'
  <2>1. t # s
    BY <1>1, <1>6
  <2>2. req'[p].sid = t /\ req'[p].pc = "loadUser"
    BY <1>1, <1>6 DEF Found, Become, Request
  <2> QED
    BY <2>1, <2>2 DEF InFlight, At
<1>7. ASSUME RefreshById(p) PROVE ~InFlight(p, s)'
  <2>1. req[p].sid \in SessionId
    BY <1>1, <1>7 DEF Knows, RefreshById, At
  <2> QED
    BY <1>2, <1>6, <1>7, <2>1 DEF RefreshById
<1>8. ASSUME RefreshByHash(p) PROVE ~InFlight(p, s)'
  BY <1>2, <1>6, <1>8 DEF RefreshByHash, ActiveWithGrant
<1>9. ASSUME RefreshUser(p) PROVE ~InFlight(p, s)'
  <2>1. ASSUME Become(p, [req[p] EXCEPT !.pc = "dropAccess",
                                        !.new = minted + 1])
        PROVE  ~InFlight(p, s)'
    <3>1. /\ req'[p].pc = "dropAccess" /\ req'[p].kind = req[p].kind
          /\ req'[p].sid = req[p].sid
      BY <1>1, <2>1 DEF Become, Request
    <3>2. req[p].pc = "loadUser"
      BY <1>9 DEF RefreshUser, At
    <3> QED
      BY <1>1, <3>1, <3>2 DEF InFlight, At
  <2> QED
    BY <1>2, <1>9, <2>1 DEF RefreshUser
<1>10. ASSUME RevokeTarget(p) PROVE ~InFlight(p, s)'
  <2> DEFINE g == sessions[req[p].sid].grant
  <2>1. ASSUME Become(p, [req[p] EXCEPT !.pc = "dropAccess",
                                        !.jti = g, !.hash = g])
        PROVE  ~InFlight(p, s)'
    <3>1. req'[p].pc = "dropAccess" /\ req'[p].kind = req[p].kind
      BY <1>1, <2>1 DEF Become, Request
    <3>2. req[p].kind = "revoke_session"
      BY <1>1, <1>10 DEF Knows, RevokeTarget, At
    <3> QED
      BY <3>1, <3>2 DEF InFlight, At
  <2> QED
    BY <1>2, <1>10, <2>1 DEF RevokeTarget
<1>11. ASSUME NEW n, Become(p, n), n.pc \in {"byId", "list", "target",
                                             "revoke", "dropAll"}
       PROVE  ~InFlight(p, s)'
  BY <1>1, <1>11 DEF Become, InFlight, At
<1>12. ASSUME AuthUser(p) \/ LogoutSession(p) \/ LogoutAllList(p)
              \/ RefreshCached(p)
       PROVE  ~InFlight(p, s)'
  <2>1. ASSUME RefreshCached(p) PROVE ~InFlight(p, s)'
    <3>1. ASSUME NEW t, Become(p, [req[p] EXCEPT !.pc = "byId", !.sid = t])
          PROVE  ~InFlight(p, s)'
      BY <1>1, <1>11, <3>1 DEF Request
    <3>2. "byHash" \in Label
      BY DEF Label
    <3> QED
      BY <1>3, <2>1, <3>1, <3>2 DEF RefreshCached
  <2>2. ASSUME AuthUser(p) PROVE ~InFlight(p, s)'
    <3>1. ASSUME NEW l \in {"list", "target"}, NEW u,
                 Become(p, [req[p] EXCEPT !.pc = l, !.user = u])
          PROVE  ~InFlight(p, s)'
      BY <1>1, <1>11, <3>1 DEF Request
    <3> QED
      BY <1>2, <2>2, <3>1 DEF AuthUser
  <2>3. ASSUME LogoutSession(p) PROVE ~InFlight(p, s)'
    <3>1. ASSUME NEW t, Become(p, [req[p] EXCEPT !.pc = "revoke", !.sid = t])
          PROVE  ~InFlight(p, s)'
      BY <1>1, <1>11, <3>1 DEF Request
    <3> QED
      BY <1>2, <2>3, <3>1 DEF LogoutSession
  <2>4. ASSUME LogoutAllList(p) PROVE ~InFlight(p, s)'
    <3>1. ASSUME NEW G, Become(p, [req[p] EXCEPT !.pc = "dropAll",
                                                 !.listed = G])
          PROVE  ~InFlight(p, s)'
      BY <1>1, <1>11, <3>1 DEF Request
    <3> QED
      BY <2>4, <3>1 DEF LogoutAllList
  <2> QED
    BY <1>12, <2>1, <2>2, <2>3, <2>4
<1>13. ASSUME Rotate(p) \/ CacheAccess(p) \/ CacheRefresh(p) \/ DropAccess(p)
       PROVE  ~InFlight(p, s)'
  <2>1. {"cacheAccess", "cacheRefresh", "respond", "dropRefresh"}
          \subseteq Label
    BY DEF Label
  <2> QED
    BY <1>3, <1>13, <2>1
    DEF Rotate, CacheAccess, CacheRefresh, DropAccess, At
<1>14. ASSUME DropRefresh(p) PROVE ~InFlight(p, s)'
  <2>1. {"rotate", "byJti", "revoke"} \subseteq Label
    BY DEF Label
  <2>2. PICK l \in {"rotate", "byJti", "revoke"} :
          Become(p, [req[p] EXCEPT !.pc = l])
    BY <1>14 DEF DropRefresh
  <2> QED
    BY <1>3, <1>14, <2>1, <2>2 DEF DropRefresh, At
<1>15. ASSUME AuthCached(p) \/ AuthFill(p) \/ LogoutAllDrop(p)
       PROVE  ~InFlight(p, s)'
  <2>1. {"authDb", "authUser", "revokeAll"} \subseteq Label
    BY DEF Label
  <2> QED
    BY <1>2, <1>3, <1>15, <2>1
    DEF AuthCached, AuthFill, LogoutAllDrop, Authenticated
<1>16. ASSUME Respond(p) \/ Revoke(p) \/ LogoutAllRevoke(p)
       PROVE  ~InFlight(p, s)'
  BY <1>2, <1>16 DEF Respond, Revoke, LogoutAllRevoke
<1> QED
  BY <1>4, <1>5, <1>7, <1>8, <1>9, <1>10, <1>12, <1>13, <1>14, <1>15, <1>16
  DEF Serve, Authenticate

LEMMA SettledArrived ==
  ASSUME Inv, [Next]_vars, NEW s \in SessionId, Settled(s),
         NEW p \in Proc, ArriveAny(p) \/ Crash(p)
  PROVE  ~InFlight(p, s)'
<1>1. req \in [Proc -> Request] /\ Opened(s)
  BY DEF Inv, Settled
<1>2. ASSUME NEW n, Become(p, n),
             n.pc \in {"idle", "auth", "insert", "findCached"} \/ n.kind = "logout",
             n.pc # "authFill"
      PROVE  ~InFlight(p, s)'
  BY <1>1, <1>2 DEF Become, InFlight, At
<1>3. ASSUME NEW k, NEW g, NEW t, AuthArrive(p, k, g, t)
      PROVE  ~InFlight(p, s)'
  BY <1>2, <1>3 DEF AuthArrive, Idle
<1>4. ASSUME NEW u, LoginUser(p, u) PROVE ~InFlight(p, s)'
  BY <1>2, <1>4 DEF LoginUser, Idle
<1>5. ASSUME NEW h, RefreshArrive(p, h) PROVE ~InFlight(p, s)'
  BY <1>2, <1>5 DEF RefreshArrive, Idle
<1>6. ASSUME NEW g, NEW h, LogoutArrive(p, g, h) PROVE ~InFlight(p, s)'
  BY <1>2, <1>6 DEF LogoutArrive, Idle
<1>7. ASSUME Crash(p) PROVE ~InFlight(p, s)'
  BY <1>2, <1>7 DEF Crash, Finish, Idle
<1> QED
  BY <1>3, <1>4, <1>5, <1>6, <1>7 DEF ArriveAny

LEMMA OthersWait ==
  ASSUME Inv, NEW p \in Proc, Serve(p) \/ ArriveAny(p) \/ Crash(p),
         NEW q \in Proc, q # p
  PROVE  req'[q] = req[q]
<1>1. ASSUME NEW n, Become(p, n) PROVE req'[q] = req[q]
  <2>1. req \in [Proc -> Request]
    BY DEF Inv
  <2> QED
    BY <1>1, <2>1 DEF Become
<1>2. ASSUME Finish(p) PROVE req'[q] = req[q]
  BY <1>1, <1>2 DEF Finish
<1>3. Serve(p) => req'[q] = req[q]
  BY <1>1, <1>2
  DEF Serve, Authenticate, Authenticated, AuthCached, AuthDb, AuthFill,
      AuthUser, LoginInsert, CacheAccess, CacheRefresh, Respond,
      RefreshCached, RefreshById, RefreshByHash, RefreshUser, Found, Rotate,
      DropAccess, DropRefresh, Revoke, LogoutSession, RevokeTarget,
      LogoutAllList, LogoutAllDrop, LogoutAllRevoke
<1>4. ArriveAny(p) \/ Crash(p) => req'[q] = req[q]
  BY <1>1, <1>2 DEF ArriveAny, AuthArrive, LoginUser, RefreshArrive,
                    LogoutArrive, Crash
<1> QED
  BY <1>3, <1>4

LEMMA SettledNext ==
  ASSUME Inv, [Next]_vars, NEW s \in SessionId, Settled(s)
  PROVE  Settled(s)' /\ sessions'[s] = sessions[s]
<1>1. sessions'[s] = sessions[s]
  BY SettledRow
<1>2. \A g \in Grant : lineage'[g] = s => accessCache'[g] = None
  BY SettledLineage, SettledUncached
<1>3. ASSUME NEW q \in Proc PROVE ~InFlight(q, s)'
  <2>1. CASE req'[q] = req[q]
    BY <2>1, SettledOthers
  <2>2. ASSUME NEW p \in Proc, Serve(p) \/ ArriveAny(p) \/ Crash(p)
        PROVE  ~InFlight(q, s)'
    BY <2>1, <2>2, OthersWait, SettledServed, SettledArrived
  <2>3. Environment \/ UNCHANGED vars => req'[q] = req[q]
    BY DEF Environment, EvictAccess, EvictRefresh, LapseAccess,
           LapseRefresh, Deactivate, vars
  <2> QED
    BY <2>1, <2>2, <2>3 DEF Next
<1> QED
  BY <1>1, <1>2, <1>3 DEF Settled, Opened

(* Once a revocation has settled no step of any request, however Redis     *)
(* answers, mints a grant for the session, writes its row or caches one of *)
(* its access tokens.                                                      *)
THEOREM RevocationFinal == Spec => RevocationIsFinal
<1>1. Inv /\ [Next]_vars =>
        [\A s \in SessionId :
           Settled(s) => Settled(s)' /\ sessions'[s] = sessions[s]]_vars
  BY SettledNext
<1> QED
  BY <1>1, Invariance, PTL DEF Spec, RevocationIsFinal

-----------------------------------------------------------------------------
(* What holds as long as Redis answers and no two requests work on one     *)
(* session: the cache in front of the table is invisible.                  *)

(* A live session holds g.                                                 *)
Current(g) == ActiveWithGrant(g) # {}

(* A cached access token is one its session holds, a cached refresh token  *)
(* one its session holds or held when it was revoked.                      *)
CachesCurrent ==
  \A g \in Grant :
    /\ accessCache[g] # None => Current(g)
    /\ refreshCache[g] # None => sessions[refreshCache[g]].grant = g

UnopenedBlank == \A s \in SessionId : ~Opened(s) => sessions[s].grant = NoGrant

Holds(r, g) == Live(r.sid) /\ sessions[r.sid].grant = g

(* What request r has found out, or has done, that still holds at the      *)
(* await it is at because no other request works on its sessions.          *)
Prepared(r) ==
  /\ r.pc = "authFill" => Current(r.jti)
  /\ r.pc = "authUser" => subject[r.jti] # None
  /\ r.pc = "byId" => sessions[r.sid].grant = r.hash
  /\ /\ r.pc \in {"loadUser", "dropAccess", "dropRefresh", "rotate"}
     /\ r.kind \in {"refresh", "revoke_session"}
     => r.jti = r.hash /\ Holds(r, r.jti)
  /\ r.pc \in {"dropAccess", "dropRefresh", "rotate"} /\ r.kind = "refresh"
       => r.new > r.hash
  /\ r.pc \in {"dropRefresh", "rotate", "byJti"} => accessCache[r.jti] = None
  /\ r.pc = "rotate" => refreshCache[r.hash] = None
  /\ r.pc \in {"cacheAccess", "cacheRefresh"} => Holds(r, r.new)
  /\ r.pc = "revoke" =>
       Live(r.sid) /\ accessCache[sessions[r.sid].grant] = None
  /\ r.pc \in {"list", "dropAll", "revokeAll"} =>
       /\ r.kind = "logout_all" /\ r.jti \in Grant
       /\ r.user \in User /\ r.user = subject[r.jti]
  /\ r.pc = "dropAll" =>
       r.listed = {sessions[s].grant : s \in ActiveOfUser(r.user)}
  /\ r.pc = "revokeAll" =>
       \A s \in ActiveOfUser(r.user) : accessCache[sessions[s].grant] = None

StoresCurrent == CachesCurrent /\ UnopenedBlank

DisjointInv ==
  /\ Inv
  /\ StoresCurrent
  /\ \A p \in Proc : Prepared(req[p])

-----------------------------------------------------------------------------
(* What any step leaves of the tokens' claims and the rows' users.         *)
LEMMA TokensGrow ==
  ASSUME Inv, [Next]_vars
  PROVE  /\ \A g \in Grant : subject[g] # None => subject'[g] = subject[g]
         /\ \A g \in Grant : lineage[g] # None => lineage'[g] = lineage[g]
<1> DEFINE Kept == /\ \A g \in Grant : subject[g] # None => subject'[g] = subject[g]
                   /\ \A g \in Grant : lineage[g] # None => lineage'[g] = lineage[g]
<1>1. ASSUME NEW u \in User, NEW s \in SessionId \cup {None}, Mint(u, s)
      PROVE  Kept
  <2>1. minted + 1 \in Grant /\ subject[minted + 1] = None
        /\ lineage[minted + 1] = None
    BY <1>1, BoundsAssumption DEF Mint, Grant, Inv, StoresOK, GrantsInOrder
  <2> QED
    BY <1>1, <2>1 DEF Mint, Inv, StoresOK
<1>2. ASSUME NEW p \in Proc, NEW s \in SessionId, LoginInsert(p, s) PROVE Kept
  <2>1. lineage[req[p].new] = None
    BY <1>2 DEF LoginInsert, At, Inv, Knows, OwnsNew
  <2> QED
    BY <1>2, <2>1 DEF LoginInsert, Inv, StoresOK
<1>3. ASSUME NEW p \in Proc, RefreshUser(p) PROVE Kept
  <2>1. req[p].user \in User /\ req[p].sid \in SessionId
    BY <1>3 DEF RefreshUser, At, Inv, Knows, OwnsSession, Opened, StoresOK, Row
  <2> QED
    BY <1>1, <1>3, <2>1 DEF RefreshUser, tokens
<1>4. ASSUME NEW p \in Proc, NEW u \in User, LoginUser(p, u) PROVE Kept
  BY <1>1, <1>4 DEF LoginUser
<1>5. ASSUME UNCHANGED <<subject, lineage>> PROVE Kept
  BY <1>5
<1>6. ASSUME NEW p \in Proc, Serve(p) PROVE Kept
  <2> HIDE DEF Kept
  <2> QED
    BY <1>2, <1>3, <1>5, <1>6
    DEF Serve, Authenticate, AuthCached, AuthDb, AuthFill, AuthUser,
        CacheAccess, CacheRefresh, Respond, RefreshCached, RefreshById,
        RefreshByHash, DropAccess, DropRefresh, LogoutSession, RevokeTarget,
        LogoutAllList, LogoutAllDrop, LogoutAllRevoke, Rotate, Revoke, tokens
<1>7. ASSUME NEW p \in Proc, ArriveAny(p) \/ Crash(p) PROVE Kept
  <2> HIDE DEF Kept
  <2> QED
    BY <1>4, <1>5, <1>7 DEF ArriveAny, AuthArrive, RefreshArrive, LogoutArrive,
                            Crash, tokens
<1>8. ASSUME Environment \/ UNCHANGED vars PROVE Kept
  BY <1>5, <1>8 DEF Environment, EvictAccess, EvictRefresh, LapseAccess,
                    LapseRefresh, Deactivate, vars, tokens
<1> QED
  BY <1>6, <1>7, <1>8 DEF Next

LEMMA NextGrows ==
  ASSUME Inv, [Next]_vars PROVE Grows
<1>1. sessions \in [SessionId -> Row]
  BY DEF Inv, StoresOK
<1>2. ASSUME NEW p \in Proc, WritesRows(p), NEW s \in SessionId, Opened(s)
      PROVE  sessions'[s].user = sessions[s].user
  <2>1. CASE Rotate(p)
    BY <1>1, <2>1 DEF Rotate, Row
  <2>2. CASE Revoke(p)
    BY <1>1, <2>2 DEF Revoke, Row
  <2>3. CASE LogoutAllRevoke(p)
    BY <1>1, <2>3 DEF LogoutAllRevoke, Row
  <2>4. ASSUME NEW t \in SessionId, LoginInsert(p, t)
        PROVE  sessions'[s].user = sessions[s].user
    BY <1>1, <1>2, <2>4 DEF LoginInsert
  <2> QED
    BY <1>2, <2>1, <2>2, <2>3, <2>4 DEF WritesRows
<1> QED
  BY <1>2, RowWriters, TokensGrow DEF Grows

(* A session a request works on stays one while the request waits.         *)
LEMMA NamesKept ==
  ASSUME Inv, Grows, NEW r \in Request, NEW s \in SessionId, Names(r, s)
  PROVE  Names(r, s)'
<1>1. r.jti \in Grant /\ lineage[r.jti] = s => lineage'[r.jti] = s
  BY NoneAssumption DEF Grows
<1>2. r.hash \in Grant /\ lineage[r.hash] = s => lineage'[r.hash] = s
  BY NoneAssumption DEF Grows
<1>3. r.jti \in Grant /\ Opened(s) /\ sessions[s].user = subject[r.jti] =>
        Opened(s)' /\ sessions'[s].user = subject'[r.jti]
  BY DEF Grows, Opened
<1> QED
  BY <1>1, <1>2, <1>3 DEF Names

(* A request that waits stays prepared when nobody touches its sessions.   *)
LEMMA PreparedKept ==
  ASSUME Inv, Grows, NEW r \in Request, Knows(r), Prepared(r),
         \A s \in SessionId : Names(r, s)' => sessions'[s] = sessions[s],
         \A g \in Grant :
           \/ accessCache'[g] \in {None, accessCache[g]}
           \/ \E s \in SessionId : lineage[g] = s /\ ~Names(r, s)',
         \A g \in Grant :
           \/ refreshCache'[g] \in {None, refreshCache[g]}
           \/ \E s \in SessionId : lineage[g] = s /\ ~Names(r, s)'
  PROVE  Prepared(r)'
<1>1. \A s \in SessionId : Names(r, s) => sessions'[s] = sessions[s]
  BY NamesKept
<1>2. \A s \in SessionId : r.sid = s => sessions'[s] = sessions[s]
  BY <1>1 DEF Names
<1>3. ASSUME NEW g \in Grant, g \in {r.jti, r.hash}
      PROVE  /\ accessCache[g] = None => accessCache'[g] = None
             /\ refreshCache[g] = None => refreshCache'[g] = None
  <2>1. \A s \in SessionId : lineage[g] = s => Names(r, s)'
    BY <1>3, NamesKept DEF Names
  <2> QED
    BY <2>1
<1>4. r.pc = "authFill" => Current(r.jti)'
  <2> SUFFICES ASSUME r.pc = "authFill" PROVE Current(r.jti)'
    OBVIOUS
  <2>1. PICK s \in SessionId : Live(s) /\ sessions[s].grant = r.jti
    BY DEF Prepared, Current, ActiveWithGrant
  <2>2. Names(r, s)
    BY <2>1 DEF Knows, Names, Live, Inv, StoresOK, LookupsAgree
  <2>3. sessions'[s] = sessions[s]
    BY <1>1, <2>2
  <2> QED
    BY <2>1, <2>3 DEF Current, ActiveWithGrant, Live, Opened
<1>5. r.pc = "authUser" => subject'[r.jti] # None
  BY DEF Prepared, Knows, Grows
<1>6. ASSUME r.sid \in SessionId, NEW g, Holds(r, g) PROVE Holds(r, g)'
  BY <1>2, <1>6 DEF Holds, Live, Opened
<1>7. r.pc = "byId" => sessions'[r.sid].grant = r.hash
  BY <1>2 DEF Prepared, Knows
<1>8. r.pc \in {"loadUser", "dropAccess", "dropRefresh", "rotate"}
      /\ r.kind \in {"refresh", "revoke_session"}
      => r.jti = r.hash /\ Holds(r, r.jti)'
  <2>1. r.pc \in {"loadUser", "dropAccess", "dropRefresh", "rotate"}
        /\ r.kind \in {"refresh", "revoke_session"} => r.sid \in SessionId
    BY DEF Knows, OwnsSession
  <2> QED
    BY <1>6, <2>1 DEF Prepared
<1>9. r.pc \in {"cacheAccess", "cacheRefresh"} => Holds(r, r.new)'
  BY <1>6 DEF Prepared, Knows
<1>10. r.pc \in {"dropRefresh", "rotate", "byJti"} => accessCache'[r.jti] = None
  <2>1. r.pc \in {"dropRefresh", "rotate", "byJti"} => r.jti \in Grant
    BY DEF Prepared, Knows
  <2> QED
    BY <1>3, <2>1 DEF Prepared
<1>11. r.pc = "rotate" => refreshCache'[r.hash] = None
  BY <1>3 DEF Prepared, Knows
<1>12. ASSUME NEW s \in SessionId, Live(s), Names(r, s),
              accessCache[sessions[s].grant] = None
       PROVE  Live(s)' /\ accessCache'[sessions'[s].grant] = None
  <2>1. sessions'[s] = sessions[s]
    BY <1>1, <1>12
  <2>2. sessions[s].grant \in Grant /\ lineage[sessions[s].grant] = s
    BY <1>12 DEF Live, Inv, StoresOK, LookupsAgree
  <2>3. Names(r, s)'
    BY <1>12, NamesKept
  <2>4. accessCache'[sessions[s].grant] = None
    BY <1>12, <2>2, <2>3
  <2> QED
    BY <1>12, <2>1, <2>4 DEF Live, Opened
<1>13. r.pc = "revoke" =>
         Live(r.sid)' /\ accessCache'[sessions'[r.sid].grant] = None
  BY <1>12 DEF Prepared, Knows, Names
<1>14. r.pc \in {"list", "dropAll", "revokeAll"} =>
         /\ r.kind = "logout_all" /\ r.jti \in Grant
         /\ r.user \in User /\ r.user = subject'[r.jti]
  BY NoneAssumption DEF Prepared, Grows
<1>15. ASSUME r.pc \in {"dropAll", "revokeAll"}
       PROVE  /\ ActiveOfUser(r.user)' = ActiveOfUser(r.user)
              /\ \A s \in ActiveOfUser(r.user) :
                   Names(r, s) /\ sessions'[s] = sessions[s]
  <2>1. \A s \in ActiveOfUser(r.user) : Names(r, s)
    BY <1>15 DEF Prepared, ActiveOfUser, Live, Names
  <2>2. \A s \in ActiveOfUser(r.user) : sessions'[s] = sessions[s]
    BY <1>1, <2>1 DEF ActiveOfUser
  <2>3. \A s \in ActiveOfUser(r.user)' : sessions'[s] = sessions[s]
    BY <1>14, <1>15 DEF ActiveOfUser, Live, Names
  <2> QED
    BY <2>1, <2>2, <2>3 DEF ActiveOfUser, Live, Opened
<1>16. r.pc = "dropAll" =>
         r.listed = {sessions'[s].grant : s \in ActiveOfUser(r.user)'}
  BY <1>15 DEF Prepared
<1>17. r.pc = "revokeAll" =>
         \A s \in ActiveOfUser(r.user)' : accessCache'[sessions'[s].grant] = None
  BY <1>12, <1>15 DEF Prepared, ActiveOfUser
<1>18. r.pc \in {"dropAccess", "dropRefresh", "rotate"} /\ r.kind = "refresh"
         => r.new > r.hash
  BY DEF Prepared
<1> QED
  BY <1>4, <1>5, <1>7, <1>8, <1>9, <1>10, <1>11, <1>13, <1>14, <1>16, <1>17,
     <1>18
  DEF Prepared

-----------------------------------------------------------------------------
(* What the step of a request does to the sessions it does not work on.    *)
LEMMA SameNames ==
  ASSUME NEW r, NEW s \in SessionId, UNCHANGED <<lineage, subject>>,
         sessions'[s].user = sessions[s].user, Names(r, s)'
  PROVE  Names(r, s)
BY DEF Names, Opened

LEMMA Apart ==
  ASSUME Disjoint, NEW p \in Proc, NEW q \in Proc, p # q,
         NEW s \in SessionId, Names(req[p], s)
  PROVE  ~Names(req[q], s)
BY DEF Disjoint, Scope

LEMMA RowsConfined ==
  ASSUME DisjointInv, Disjoint, Disjoint', NEW p \in Proc, WritesRows(p),
         NEW q \in Proc, q # p, req'[q] = req[q],
         NEW s \in SessionId, Names(req[q], s)'
  PROVE  sessions'[s] = sessions[s]
<1>1. sessions \in [SessionId -> Row] /\ req \in [Proc -> Request]
      /\ Knows(req[p]) /\ Prepared(req[p])
  BY DEF DisjointInv, Inv, StoresOK
<1> SUFFICES ASSUME sessions'[s] # sessions[s] PROVE FALSE
  OBVIOUS
<1>2. ASSUME UNCHANGED <<lineage, subject>>, Names(req[p], s),
             sessions'[s].user = sessions[s].user
      PROVE  FALSE
  BY <1>2, Apart, SameNames DEF Names
<1>3. CASE Rotate(p)
  <2>1. s = req[p].sid /\ sessions'[s].user = sessions[s].user
    BY <1>1, <1>3 DEF Rotate, Row
  <2> QED
    BY <1>2, <1>3, <2>1 DEF Rotate, tokens, Names
<1>4. CASE Revoke(p)
  <2>1. s = req[p].sid /\ sessions'[s].user = sessions[s].user
    BY <1>1, <1>4 DEF Revoke, Row
  <2> QED
    BY <1>2, <1>4, <2>1 DEF Revoke, tokens, Names
<1>5. CASE LogoutAllRevoke(p)
  <2>1. s \in ActiveOfUser(req[p].user) /\ sessions'[s].user = sessions[s].user
    BY <1>1, <1>5 DEF LogoutAllRevoke, Row
  <2>2. Names(req[p], s)
    BY <1>1, <1>5, <2>1 DEF LogoutAllRevoke, At, Prepared, ActiveOfUser, Live,
                            Names
  <2> QED
    BY <1>2, <1>5, <2>1, <2>2 DEF LogoutAllRevoke, tokens
<1>6. ASSUME NEW t \in SessionId, LoginInsert(p, t) PROVE FALSE
  <2>1. s = t
    BY <1>1, <1>6 DEF LoginInsert
  <2>2. req'[p].sid = t
    BY <1>1, <1>6, ReqType DEF LoginInsert, Become, Request
  <2>3. Names(req[p], s)'
    BY <2>1, <2>2 DEF Names
  <2>4. ~Names(req[q], s)'
    BY <2>3 DEF Disjoint, Scope
  <2> QED
    BY <2>4
<1> QED
  BY <1>3, <1>4, <1>5, <1>6 DEF WritesRows

(* The access keys a step writes are those of the request's own sessions.  *)
LEMMA AccessConfined ==
  ASSUME DisjointInv, NEW p \in Proc, Serve(p), NEW g \in Grant,
         accessCache'[g] \notin {None, accessCache[g]}
  PROVE  /\ UNCHANGED <<lineage, subject, sessions>>
         /\ \E s \in SessionId : lineage[g] = s /\ Names(req[p], s)
<1>1. /\ accessCache \in [Grant -> User \cup {None}]
      /\ Knows(req[p]) /\ Prepared(req[p]) /\ LookupsAgree
  BY DEF DisjointInv, Inv, StoresOK
<1>2. CASE AuthFill(p)
  <2>1. g = req[p].jti
    BY <1>1, <1>2 DEF AuthFill, RedisSet
  <2>2. PICK s \in SessionId : Live(s) /\ sessions[s].grant = g
    BY <1>1, <1>2, <2>1 DEF AuthFill, At, Prepared, Current, ActiveWithGrant
  <2>3. lineage[g] = s
    BY <1>1, <2>2 DEF LookupsAgree, Live
  <2> QED
    BY <1>2, <2>1, <2>3 DEF AuthFill, tokens, Names
<1>3. CASE CacheAccess(p)
  <2>1. g = req[p].new
    BY <1>1, <1>3 DEF CacheAccess, RedisSet
  <2> QED
    BY <1>1, <1>3, <2>1 DEF CacheAccess, At, Knows, OwnsNew, tokens, Names
<1>4. DropAccess(p) \/ LogoutAllDrop(p) => accessCache'[g] \in {None, accessCache[g]}
  BY <1>1 DEF DropAccess, LogoutAllDrop, RedisSet, RedisDeleteAll, caches
<1>5. accessCache' = accessCache => accessCache'[g] \in {None, accessCache[g]}
  OBVIOUS
<1> QED
  BY <1>2, <1>3, <1>4, <1>5
  DEF Serve, Authenticate, AuthCached, AuthDb, AuthUser, LoginInsert,
      CacheRefresh, Respond, RefreshCached, RefreshById, RefreshByHash,
      RefreshUser, DropRefresh, LogoutSession, RevokeTarget, LogoutAllList,
      LogoutAllRevoke, Rotate, Revoke, caches

(* So are the refresh keys.                                                *)
LEMMA RefreshConfined ==
  ASSUME DisjointInv, NEW p \in Proc, Serve(p), NEW g \in Grant,
         refreshCache'[g] \notin {None, refreshCache[g]}
  PROVE  /\ UNCHANGED <<lineage, subject, sessions>>
         /\ \E s \in SessionId : lineage[g] = s /\ Names(req[p], s)
<1>1. /\ refreshCache \in [Grant -> SessionId \cup {None}]
      /\ Knows(req[p])
  BY DEF DisjointInv, Inv, StoresOK
<1>2. CASE CacheRefresh(p)
  <2>1. g = req[p].new
    BY <1>1, <1>2 DEF CacheRefresh, RedisSet
  <2> QED
    BY <1>1, <1>2, <2>1 DEF CacheRefresh, At, Knows, OwnsNew, tokens, Names
<1>3. DropRefresh(p) \/ LogoutAllDrop(p) => refreshCache'[g] \in {None, refreshCache[g]}
  BY <1>1 DEF DropRefresh, LogoutAllDrop, RedisSet, RedisDeleteAll, caches
<1>4. refreshCache' = refreshCache => refreshCache'[g] \in {None, refreshCache[g]}
  OBVIOUS
<1> QED
  BY <1>2, <1>3, <1>4
  DEF Serve, Authenticate, AuthCached, AuthDb, AuthFill, AuthUser, LoginInsert,
      CacheAccess, Respond, RefreshCached, RefreshById, RefreshByHash,
      RefreshUser, DropAccess, LogoutSession, RevokeTarget, LogoutAllList,
      LogoutAllRevoke, Rotate, Revoke, caches

LEMMA OthersPrepared ==
  ASSUME DisjointInv, [Next]_vars, Disjoint, Disjoint',
         NEW p \in Proc, Serve(p), NEW q \in Proc, q # p
  PROVE  Prepared(req[q])'
<1>1. req'[q] = req[q] /\ req[q] \in Request /\ Inv /\ Grows
  BY OthersWait, NextGrows DEF DisjointInv, Inv
<1>2. PICK r \in Request : r = req[q]
  BY <1>1
<1>3. Knows(r) /\ Prepared(r)
  BY <1>2 DEF DisjointInv, Inv
<1>4. ASSUME NEW s \in SessionId, Names(r, s)' PROVE sessions'[s] = sessions[s]
  <2>1. Names(req[q], s)'
    BY <1>1, <1>2, <1>4 DEF Names
  <2>2. CASE WritesRows(p)
    BY <1>1, <2>1, <2>2, RowsConfined
  <2>3. CASE ~WritesRows(p)
    BY <2>3 DEF Serve, Authenticate, WritesRows, AuthCached, AuthDb, AuthFill,
         AuthUser, CacheAccess, CacheRefresh, Respond, RefreshCached,
         RefreshById, RefreshByHash, RefreshUser, DropAccess, DropRefresh,
         LogoutSession, RevokeTarget, LogoutAllList, LogoutAllDrop
  <2> QED
    BY <2>2, <2>3
<1>5. ASSUME NEW s \in SessionId, Names(req[p], s),
             UNCHANGED <<lineage, subject, sessions>>
      PROVE  ~Names(r, s)'
  <2>1. ~Names(r, s)
    BY <1>2, <1>5, Apart
  <2> QED
    BY <1>5, <2>1, SameNames
<1>6. \A g \in Grant :
        \/ accessCache'[g] \in {None, accessCache[g]}
        \/ \E s \in SessionId : lineage[g] = s /\ ~Names(r, s)'
  BY <1>5, AccessConfined
<1>7. \A g \in Grant :
        \/ refreshCache'[g] \in {None, refreshCache[g]}
        \/ \E s \in SessionId : lineage[g] = s /\ ~Names(r, s)'
  BY <1>5, RefreshConfined
<1>8. Prepared(r)'
  BY <1>1, <1>3, <1>4, <1>6, <1>7, PreparedKept
<1>9. r = req'[q]
  BY <1>1, <1>2
<1> QED
  BY <1>8, <1>9 DEF Prepared, Holds

-----------------------------------------------------------------------------
(* Steps that write no row and no key but those of current grants.         *)
LEMMA StoresKept ==
  ASSUME StoresCurrent, UNCHANGED sessions,
         \A g \in Grant : accessCache'[g] \in {None, accessCache[g]} \/ Current(g),
         \A g \in Grant : \/ refreshCache'[g] \in {None, refreshCache[g]}
                          \/ sessions[refreshCache'[g]].grant = g
  PROVE  StoresCurrent'
<1>1. \A g : Current(g)' <=> Current(g)
  BY DEF Current, ActiveWithGrant, Live, Opened
<1>2. CachesCurrent'
  BY <1>1 DEF StoresCurrent, CachesCurrent
<1>3. UnopenedBlank'
  BY DEF StoresCurrent, UnopenedBlank, Opened
<1> QED
  BY <1>2, <1>3 DEF StoresCurrent

(* Before these awaits a request needs nothing that another could spoil.   *)
LEMMA NothingToSpoil ==
  ASSUME NEW r, r.pc \in {"idle", "auth", "authDb", "insert", "findCached",
                          "byHash", "target", "respond"}
  PROVE  Prepared(r) /\ Prepared(r)'
BY DEF Prepared

LEMMA IdlePrepared == Prepared(Idle) /\ Prepared(Idle)'
BY IdleKnows, NothingToSpoil

LEMMA BecomePrepared ==
  ASSUME Inv, NEW p \in Proc, NEW r, Become(p, r), Prepared(r)'
  PROVE  Prepared(req[p])'
<1>1. req'[p] = r
  BY DEF Inv, Become
<1> QED
  BY <1>1 DEF Prepared, Holds

LEMMA LocalPrepared ==
  ASSUME DisjointInv, NEW p \in Proc, NEW r, Become(p, r), Prepared(r),
         UNCHANGED <<sessions, tokens, caches>>
  PROVE  StoresCurrent' /\ Prepared(req[p])'
<1>1. StoresCurrent'
  BY StoresKept DEF DisjointInv, caches
<1>2. Prepared(r)'
  BY DEF Prepared, Current, ActiveWithGrant, Live, Opened, Holds, ActiveOfUser,
         tokens, caches
<1> QED
  BY <1>1, <1>2, BecomePrepared DEF DisjointInv

LEMMA FinishPrepared ==
  ASSUME DisjointInv, NEW p \in Proc, Finish(p),
         UNCHANGED <<sessions, tokens, caches>>
  PROVE  StoresCurrent' /\ Prepared(req[p])'
BY IdlePrepared, LocalPrepared DEF Finish

LEMMA AuthCachedPrepared ==
  ASSUME DisjointInv, NEW p \in Proc, AuthCached(p)
  PROVE  StoresCurrent' /\ Prepared(req[p])'
<1>1. CASE Finish(p)
  BY <1>1, FinishPrepared DEF AuthCached
<1>2. ASSUME Become(p, [req[p] EXCEPT !.pc = "authDb"])
      PROVE  StoresCurrent' /\ Prepared(req[p])'
  <2>1. PICK r \in Request : Moved(r, req[p], "authDb")
    BY MovedExists DEF DisjointInv, Inv, Label
  <2>2. Prepared(r)
    BY <2>1 DEF Moved, Prepared
  <2> QED
    BY <1>2, <2>1, <2>2, LocalPrepared DEF AuthCached, Moved
<1>3. ASSUME Become(p, [req[p] EXCEPT !.pc = "authUser"]),
             subject[req[p].jti] # None
      PROVE  StoresCurrent' /\ Prepared(req[p])'
  <2>1. PICK r \in Request : Moved(r, req[p], "authUser")
    BY MovedExists DEF DisjointInv, Inv, Label
  <2>2. Prepared(r)
    BY <1>3, <2>1 DEF Moved, Prepared
  <2> QED
    BY <1>3, <2>1, <2>2, LocalPrepared DEF AuthCached, Moved
<1> QED
  BY <1>1, <1>2, <1>3 DEF AuthCached, Authenticated

LEMMA AuthDbPrepared ==
  ASSUME DisjointInv, NEW p \in Proc, AuthDb(p)
  PROVE  StoresCurrent' /\ Prepared(req[p])'
<1>1. CASE Finish(p)
  BY <1>1, FinishPrepared DEF AuthDb
<1>2. ASSUME NEW u, Become(p, [req[p] EXCEPT !.pc = "authFill", !.user = u]),
             ActiveWithGrant(req[p].jti) # {}
      PROVE  StoresCurrent' /\ Prepared(req[p])'
  <2> DEFINE n == [req[p] EXCEPT !.pc = "authFill", !.user = u]
  <2>1. n.pc = "authFill" /\ n.jti = req[p].jti
    BY ReqType DEF DisjointInv, Request
  <2>2. Prepared(n)
    <3> HIDE DEF n
    <3> QED BY <1>2, <2>1 DEF Prepared, Current
  <2> QED
    BY <1>2, <2>2, LocalPrepared DEF AuthDb
<1> QED
  BY <1>1, <1>2 DEF AuthDb

LEMMA AuthUserPrepared ==
  ASSUME DisjointInv, NEW p \in Proc, AuthUser(p)
  PROVE  StoresCurrent' /\ Prepared(req[p])'
<1> DEFINE u == subject[req[p].jti]
<1>1. CASE Finish(p)
  BY <1>1, FinishPrepared DEF AuthUser
<1>2. ASSUME NEW l \in {"list", "target"},
             Become(p, [req[p] EXCEPT !.pc = l, !.user = u]),
             l = "list" => req[p].kind = "logout_all"
      PROVE  StoresCurrent' /\ Prepared(req[p])'
  <2> DEFINE n == [req[p] EXCEPT !.pc = l, !.user = u]
  <2>1. n.pc = l /\ n.user = u /\ n.jti = req[p].jti /\ n.kind = req[p].kind
    BY ReqType DEF DisjointInv, Request
  <2>2. req[p].jti \in Grant /\ u \in User
    BY DEF DisjointInv, Inv, StoresOK, Knows, Prepared, AuthUser, At
  <2>3. Prepared(n)
    <3> HIDE DEF n
    <3> QED BY <1>2, <2>1, <2>2 DEF Prepared
  <2> QED
    BY <1>2, <2>3, LocalPrepared DEF AuthUser
<1> QED
  BY <1>1, <1>2 DEF AuthUser

LEMMA RefreshCachedPrepared ==
  ASSUME DisjointInv, ~RedisMayFail, NEW p \in Proc, RefreshCached(p)
  PROVE  StoresCurrent' /\ Prepared(req[p])'
<1>1. ASSUME NEW s, s # None, s = refreshCache[req[p].hash],
             Become(p, [req[p] EXCEPT !.pc = "byId", !.sid = s])
      PROVE  StoresCurrent' /\ Prepared(req[p])'
  <2> DEFINE n == [req[p] EXCEPT !.pc = "byId", !.sid = s]
  <2>1. n.pc = "byId" /\ n.sid = s /\ n.hash = req[p].hash
    BY ReqType DEF DisjointInv, Request
  <2>2. req[p].hash \in Grant
    BY DEF DisjointInv, Inv, Knows, RefreshCached, At
  <2>3. sessions[s].grant = req[p].hash
    BY <1>1, <2>2 DEF DisjointInv, StoresCurrent, CachesCurrent
  <2>4. Prepared(n)
    <3> HIDE DEF n
    <3> QED BY <2>1, <2>3 DEF Prepared
  <2> QED
    BY <1>1, <2>4, LocalPrepared DEF RefreshCached
<1>2. ASSUME Become(p, [req[p] EXCEPT !.pc = "byHash"])
      PROVE  StoresCurrent' /\ Prepared(req[p])'
  <2>1. PICK r \in Request : Moved(r, req[p], "byHash")
    BY MovedExists DEF DisjointInv, Inv, Label
  <2>2. Prepared(r)
    BY <2>1 DEF Moved, Prepared
  <2> QED
    BY <1>2, <2>1, <2>2, LocalPrepared DEF RefreshCached, Moved
<1> QED
  BY <1>1, <1>2 DEF RefreshCached, RedisGet

LEMMA FoundPrepared ==
  ASSUME DisjointInv, NEW p \in Proc, NEW s, Found(p, s), Live(s),
         sessions[s].grant = req[p].hash,
         UNCHANGED <<sessions, tokens, caches>>
  PROVE  StoresCurrent' /\ Prepared(req[p])'
<1> DEFINE n == [req[p] EXCEPT !.pc = "loadUser", !.sid = s,
                               !.user = sessions[s].user,
                               !.jti = sessions[s].grant]
<1>1. /\ n.pc = "loadUser" /\ n.sid = s /\ n.jti = sessions[s].grant
      /\ n.hash = req[p].hash
  BY ReqType DEF DisjointInv, Request
<1>2. Prepared(n)
  <2> HIDE DEF n
  <2> QED BY <1>1 DEF Prepared, Holds
<1> QED
  BY <1>2, LocalPrepared DEF Found

LEMMA RefreshFoundPrepared ==
  ASSUME DisjointInv, NEW p \in Proc, RefreshById(p) \/ RefreshByHash(p)
  PROVE  StoresCurrent' /\ Prepared(req[p])'
<1>1. CASE RefreshById(p)
  <2>1. sessions[req[p].sid].grant = req[p].hash
    BY <1>1 DEF DisjointInv, Prepared, RefreshById, At
  <2> QED
    BY <1>1, <2>1, FinishPrepared, FoundPrepared DEF RefreshById
<1>2. CASE RefreshByHash(p)
  BY <1>2, FinishPrepared, FoundPrepared DEF RefreshByHash, ActiveWithGrant
<1> QED
  BY <1>1, <1>2

LEMMA LogoutSessionPrepared ==
  ASSUME DisjointInv, NEW p \in Proc, LogoutSession(p)
  PROVE  StoresCurrent' /\ Prepared(req[p])'
<1>1. CASE Finish(p)
  BY <1>1, FinishPrepared DEF LogoutSession
<1>2. ASSUME NEW s \in ActiveWithGrant(req[p].jti),
             Become(p, [req[p] EXCEPT !.pc = "revoke", !.sid = s])
      PROVE  StoresCurrent' /\ Prepared(req[p])'
  <2> DEFINE n == [req[p] EXCEPT !.pc = "revoke", !.sid = s]
  <2>1. n.pc = "revoke" /\ n.sid = s
    BY ReqType DEF DisjointInv, Request
  <2>2. Live(s) /\ accessCache[sessions[s].grant] = None
    BY DEF ActiveWithGrant, DisjointInv, Prepared, LogoutSession, At
  <2>3. Prepared(n)
    <3> HIDE DEF n
    <3> QED BY <2>1, <2>2 DEF Prepared
  <2> QED
    BY <1>2, <2>3, LocalPrepared DEF LogoutSession
<1> QED
  BY <1>1, <1>2 DEF LogoutSession

LEMMA RevokeTargetPrepared ==
  ASSUME DisjointInv, NEW p \in Proc, RevokeTarget(p)
  PROVE  StoresCurrent' /\ Prepared(req[p])'
<1> DEFINE s == req[p].sid
           n == [req[p] EXCEPT !.pc = "dropAccess", !.jti = sessions[s].grant,
                               !.hash = sessions[s].grant]
<1>1. CASE Finish(p)
  BY <1>1, FinishPrepared DEF RevokeTarget
<1>2. ASSUME Live(s), Become(p, n) PROVE StoresCurrent' /\ Prepared(req[p])'
  <2>1. /\ n.pc = "dropAccess" /\ n.sid = s /\ n.jti = sessions[s].grant
        /\ n.hash = sessions[s].grant /\ n.kind = req[p].kind
    BY ReqType DEF DisjointInv, Request
  <2>2. req[p].kind # "refresh"
    BY DEF DisjointInv, Inv, Knows, RevokeTarget, At
  <2>3. Prepared(n)
    <3> HIDE DEF n
    <3> QED BY <1>2, <2>1, <2>2 DEF Prepared, Holds
  <2> QED
    BY <1>2, <2>3, LocalPrepared DEF RevokeTarget
<1> QED
  BY <1>1, <1>2 DEF RevokeTarget

LEMMA LogoutAllListPrepared ==
  ASSUME DisjointInv, NEW p \in Proc, LogoutAllList(p)
  PROVE  StoresCurrent' /\ Prepared(req[p])'
<1> DEFINE G == {sessions[s].grant : s \in ActiveOfUser(req[p].user)}
           n == [req[p] EXCEPT !.pc = "dropAll", !.listed = G]
<1>1. /\ n.pc = "dropAll" /\ n.listed = G /\ n.user = req[p].user
      /\ n.kind = req[p].kind /\ n.jti = req[p].jti
  BY ReqType DEF DisjointInv, Request
<1>2. Prepared(req[p]) /\ req[p].pc = "list"
  BY DEF DisjointInv, LogoutAllList, At
<1>3. n.listed = {sessions[s].grant : s \in ActiveOfUser(n.user)}
  BY <1>1
<1>4. Prepared(n)
  <2> HIDE DEF n, G
  <2> QED BY <1>1, <1>2, <1>3 DEF Prepared
<1> QED
  BY <1>4, LocalPrepared DEF LogoutAllList

-----------------------------------------------------------------------------
(* Steps that mint a grant.                                                *)
LEMMA LoginUserPrepared ==
  ASSUME DisjointInv, NEW p \in Proc, NEW u \in User, LoginUser(p, u)
  PROVE  StoresCurrent' /\ Prepared(req[p])'
<1> DEFINE n(m) == [Idle EXCEPT !.kind = "login", !.pc = "insert",
                                !.user = u, !.new = m]
<1>1. StoresCurrent'
  BY StoresKept DEF DisjointInv, LoginUser, caches
<1>2. PICK m : m = minted + 1
  OBVIOUS
<1>3. Become(p, n(m)) /\ n(m).pc = "insert"
  BY <1>2 DEF LoginUser, Idle
<1>4. Prepared(n(m))'
  <2> HIDE DEF n
  <2> QED BY <1>3 DEF Prepared
<1> QED
  BY <1>1, <1>3, <1>4, BecomePrepared DEF DisjointInv

(* The fresh grant is newer than the one the session holds.                *)
LEMMA RefreshUserPrepared ==
  ASSUME DisjointInv, NEW p \in Proc, RefreshUser(p)
  PROVE  StoresCurrent' /\ Prepared(req[p])'
<1>1. /\ Prepared(req[p]) /\ Knows(req[p]) /\ req[p] \in Request
      /\ req[p].pc = "loadUser" /\ StoresOK
  BY DEF DisjointInv, Inv, RefreshUser, At
<1>2. CASE Finish(p) /\ UNCHANGED tokens
  BY <1>2, FinishPrepared DEF RefreshUser
<1>3. CASE Become(p, [req[p] EXCEPT !.pc = "dropAccess", !.new = minted + 1])
  <2>1. PICK n : n = [req[p] EXCEPT !.pc = "dropAccess", !.new = minted + 1]
    OBVIOUS
  <2>2. /\ n.pc = "dropAccess" /\ n.new = minted + 1 /\ n.jti = req[p].jti
        /\ n.hash = req[p].hash /\ n.sid = req[p].sid /\ n.kind = "refresh"
    BY <1>1, <2>1 DEF Request, Knows
  <2>3. req[p].jti = req[p].hash /\ Holds(req[p], req[p].jti)
    BY <1>1 DEF Prepared, Knows
  <2>4. req[p].hash \in Grant /\ subject[req[p].hash] # None
    BY <1>1, <2>3 DEF Knows, OwnsSession, Opened, Holds, StoresOK, LookupsAgree
  <2>5. n.new > n.hash
    BY <1>1, <2>2, <2>4, BoundsAssumption DEF StoresOK, GrantsInOrder, Grant
  <2>6. Holds(n, n.jti)'
    BY <2>2, <2>3 DEF Holds, Live, Opened, RefreshUser
  <2>7. Prepared(n)'
    BY <2>2, <2>3, <2>5, <2>6 DEF Prepared
  <2>8. StoresCurrent'
    BY StoresKept DEF DisjointInv, RefreshUser, caches
  <2> QED
    BY <1>3, <2>1, <2>7, <2>8, BecomePrepared DEF DisjointInv
<1> QED
  BY <1>2, <1>3 DEF RefreshUser

-----------------------------------------------------------------------------
(* Steps that write the caches.                                            *)
LEMMA AuthFillPrepared ==
  ASSUME DisjointInv, NEW p \in Proc, AuthFill(p)
  PROVE  StoresCurrent' /\ Prepared(req[p])'
<1>1. /\ Prepared(req[p]) /\ Knows(req[p]) /\ req[p] \in Request
      /\ req[p].pc = "authFill" /\ StoresOK
  BY DEF DisjointInv, Inv, AuthFill, At
<1>2. StoresCurrent'
  <2>1. Current(req[p].jti)
    BY <1>1 DEF Prepared
  <2>2. \A g \in Grant : accessCache'[g] \in {None, accessCache[g]} \/ Current(g)
    BY <1>1, <2>1 DEF AuthFill, RedisSet, StoresOK
  <2> QED
    BY <2>2, StoresKept DEF DisjointInv, AuthFill
<1>3. CASE Finish(p)
  BY <1>2, <1>3, IdlePrepared, BecomePrepared DEF Finish, DisjointInv
<1>4. CASE Become(p, [req[p] EXCEPT !.pc = "authUser"])
  <2>1. PICK r \in Request : Moved(r, req[p], "authUser")
    BY <1>1, MovedExists DEF Label
  <2>2. subject[r.jti] # None
    BY <1>1, <2>1, NoneAssumption DEF Moved, Knows
  <2>3. Prepared(r)'
    BY <2>1, <2>2 DEF Moved, Prepared, AuthFill, tokens
  <2> QED
    BY <1>2, <1>4, <2>1, <2>3, BecomePrepared DEF Moved, DisjointInv
<1> QED
  BY <1>3, <1>4 DEF AuthFill, Authenticated

LEMMA CacheAccessPrepared ==
  ASSUME DisjointInv, NEW p \in Proc, CacheAccess(p)
  PROVE  StoresCurrent' /\ Prepared(req[p])'
<1>1. /\ Prepared(req[p]) /\ Knows(req[p]) /\ req[p] \in Request
      /\ req[p].pc = "cacheAccess" /\ StoresOK
  BY DEF DisjointInv, Inv, CacheAccess, At
<1>2. req[p].sid \in SessionId /\ Holds(req[p], req[p].new)
  BY <1>1 DEF Prepared, Knows
<1>3. Current(req[p].new)
  BY <1>2 DEF Current, ActiveWithGrant, Holds
<1>4. \A g \in Grant : accessCache'[g] \in {None, accessCache[g]} \/ Current(g)
  BY <1>1, <1>3 DEF CacheAccess, RedisSet, StoresOK
<1>5. StoresCurrent'
  BY <1>4, StoresKept DEF DisjointInv, CacheAccess
<1>6. PICK r \in Request : Moved(r, req[p], "cacheRefresh")
  BY <1>1, MovedExists DEF Label
<1>7. Prepared(r)'
  BY <1>2, <1>6 DEF Moved, Prepared, Holds, Live, Opened, CacheAccess
<1> QED
  BY <1>5, <1>6, <1>7, BecomePrepared DEF Moved, DisjointInv, CacheAccess

LEMMA CacheRefreshPrepared ==
  ASSUME DisjointInv, NEW p \in Proc, CacheRefresh(p)
  PROVE  StoresCurrent' /\ Prepared(req[p])'
<1>1. /\ Prepared(req[p]) /\ Knows(req[p]) /\ req[p] \in Request
      /\ req[p].pc = "cacheRefresh" /\ StoresOK
  BY DEF DisjointInv, Inv, CacheRefresh, At
<1>2. sessions[req[p].sid].grant = req[p].new
  BY <1>1 DEF Prepared, Holds
<1>3. \A g \in Grant : \/ refreshCache'[g] \in {None, refreshCache[g]}
                       \/ sessions[refreshCache'[g]].grant = g
  BY <1>1, <1>2 DEF CacheRefresh, RedisSet, StoresOK
<1>4. StoresCurrent'
  BY <1>3, StoresKept DEF DisjointInv, CacheRefresh
<1>5. PICK r \in Request : Moved(r, req[p], "respond")
  BY <1>1, MovedExists DEF Label
<1>6. Prepared(r)'
  BY <1>5 DEF Moved, Prepared
<1> QED
  BY <1>4, <1>5, <1>6, BecomePrepared DEF Moved, DisjointInv, CacheRefresh

LEMMA DropAccessPrepared ==
  ASSUME DisjointInv, ~RedisMayFail, NEW p \in Proc, DropAccess(p)
  PROVE  StoresCurrent' /\ Prepared(req[p])'
<1>1. /\ Prepared(req[p]) /\ Knows(req[p]) /\ req[p] \in Request
      /\ req[p].pc = "dropAccess" /\ StoresOK
  BY DEF DisjointInv, Inv, DropAccess, At
<1>2. /\ \A g \in Grant : accessCache'[g] \in {None, accessCache[g]}
      /\ accessCache'[req[p].jti] = None
  BY <1>1 DEF DropAccess, RedisSet, StoresOK, Knows
<1>3. StoresCurrent'
  BY <1>2, StoresKept DEF DisjointInv, DropAccess
<1>4. PICK r \in Request : Moved(r, req[p], "dropRefresh")
  BY <1>1, MovedExists DEF Label
<1>5. r.kind \in {"refresh", "revoke_session"} =>
        r.jti = r.hash /\ Holds(r, r.jti)'
  BY <1>1, <1>4 DEF Moved, Prepared, Holds, Live, Opened, DropAccess
<1>6. Prepared(r)'
  BY <1>1, <1>2, <1>4, <1>5 DEF Moved, Prepared
<1> QED
  BY <1>3, <1>4, <1>6, BecomePrepared DEF Moved, DisjointInv, DropAccess

LEMMA DropRefreshPrepared ==
  ASSUME DisjointInv, ~RedisMayFail, NEW p \in Proc, DropRefresh(p)
  PROVE  StoresCurrent' /\ Prepared(req[p])'
<1>1. /\ Prepared(req[p]) /\ Knows(req[p]) /\ req[p] \in Request
      /\ req[p].pc = "dropRefresh" /\ StoresOK
  BY DEF DisjointInv, Inv, DropRefresh, At
<1>2. /\ \A g \in Grant : refreshCache'[g] \in {None, refreshCache[g]}
      /\ refreshCache'[req[p].hash] = None
  BY <1>1 DEF DropRefresh, RedisSet, StoresOK, Knows
<1>3. StoresCurrent'
  BY <1>2, StoresKept DEF DisjointInv, DropRefresh
<1>4. PICK l \in {"rotate", "byJti", "revoke"} :
        /\ Become(p, [req[p] EXCEPT !.pc = l])
        /\ l = "rotate" => req[p].kind = "refresh"
        /\ l = "revoke" => req[p].kind = "revoke_session"
  BY <1>1 DEF DropRefresh, Knows
<1>5. PICK r \in Request : Moved(r, req[p], l)
  <2>1. l \in Label /\ req[p] \in Request
    BY <1>1 DEF Label
  <2> QED
    BY <2>1, MovedExists
<1>6. /\ accessCache'[r.jti] = None /\ refreshCache'[r.hash] = None
      /\ r.kind \in {"refresh", "revoke_session"} =>
           r.jti = r.hash /\ Holds(r, r.jti)'
      /\ r.kind = "refresh" => r.new > r.hash
  BY <1>1, <1>2, <1>5 DEF Moved, Prepared, Holds, Live, Opened, DropRefresh
<1>7. l = "revoke" => Live(r.sid)' /\ accessCache'[sessions'[r.sid].grant] = None
  BY <1>4, <1>5, <1>6 DEF Moved, Holds
<1>8. Prepared(r)'
  BY <1>4, <1>5, <1>6, <1>7 DEF Moved, Prepared
<1> QED
  BY <1>3, <1>4, <1>5, <1>8, BecomePrepared DEF Moved, DisjointInv

LEMMA LogoutAllDropPrepared ==
  ASSUME DisjointInv, ~RedisMayFail, NEW p \in Proc, LogoutAllDrop(p)
  PROVE  StoresCurrent' /\ Prepared(req[p])'
<1>1. /\ Prepared(req[p]) /\ req[p] \in Request
      /\ req[p].pc = "dropAll" /\ StoresOK
  BY DEF DisjointInv, Inv, LogoutAllDrop, At
<1>2. /\ \A g \in Grant : accessCache'[g] =
           IF g \in req[p].listed THEN None ELSE accessCache[g]
      /\ \A g \in Grant : refreshCache'[g] \in {None, refreshCache[g]}
  BY DEF LogoutAllDrop, RedisDeleteAll
<1>3. StoresCurrent'
  BY <1>2, StoresKept DEF DisjointInv, LogoutAllDrop
<1>4. PICK r \in Request : Moved(r, req[p], "revokeAll")
  BY <1>1, MovedExists DEF Label
<1>5. \A s \in ActiveOfUser(r.user)' : accessCache'[sessions'[s].grant] = None
  <2>1. ActiveOfUser(r.user)' = ActiveOfUser(req[p].user)
    BY <1>4 DEF Moved, ActiveOfUser, Live, Opened, LogoutAllDrop
  <2>2. \A s \in ActiveOfUser(req[p].user) :
          sessions[s].grant \in req[p].listed /\ sessions[s].grant \in Grant
    BY <1>1 DEF Prepared, ActiveOfUser, Live, StoresOK, LookupsAgree
  <2> QED
    BY <1>2, <2>1, <2>2 DEF LogoutAllDrop
<1>6. Prepared(r)'
  BY <1>1, <1>4, <1>5 DEF Moved, Prepared, LogoutAllDrop, tokens
<1> QED
  BY <1>3, <1>4, <1>6, BecomePrepared DEF Moved, DisjointInv, LogoutAllDrop

-----------------------------------------------------------------------------
(* Steps that write rows.  Caches stay current when what they hold is in   *)
(* no row the step changes.                                                *)
LEMMA RowsReplaced ==
  ASSUME Inv, StoresCurrent, UNCHANGED caches,
         \A s \in SessionId :
           \/ sessions'[s] = sessions[s]
           \/ /\ Opened(s)'
              /\ \A g \in Grant : sessions[s].grant = g =>
                   /\ Live(s) => accessCache[g] = None
                   /\ refreshCache[g] = s => sessions'[s].grant = g
  PROVE  StoresCurrent'
<1>1. ASSUME NEW g \in Grant, accessCache[g] # None PROVE Current(g)'
  <2>1. PICK s \in SessionId : Live(s) /\ sessions[s].grant = g
    BY <1>1 DEF StoresCurrent, CachesCurrent, Current, ActiveWithGrant
  <2>2. sessions'[s] = sessions[s]
    BY <1>1, <2>1
  <2> QED
    BY <2>1, <2>2 DEF Current, ActiveWithGrant, Live, Opened
<1>2. ASSUME NEW g \in Grant, refreshCache[g] # None
      PROVE  sessions'[refreshCache[g]].grant = g
  <2>1. sessions[refreshCache[g]].grant = g /\ refreshCache[g] \in SessionId
    BY <1>2 DEF StoresCurrent, CachesCurrent, Inv, StoresOK
  <2> QED
    BY <1>2, <2>1
<1>3. UnopenedBlank'
  BY DEF StoresCurrent, UnopenedBlank, Opened
<1> QED
  BY <1>1, <1>2, <1>3 DEF StoresCurrent, CachesCurrent, caches

LEMMA LoginInsertPrepared ==
  ASSUME DisjointInv, NEW p \in Proc, NEW t \in SessionId, LoginInsert(p, t)
  PROVE  StoresCurrent' /\ Prepared(req[p])'
<1>1. /\ Knows(req[p]) /\ req[p] \in Request
      /\ req[p].pc = "insert" /\ sessions \in [SessionId -> Row]
  BY DEF DisjointInv, Inv, StoresOK, LoginInsert, At
<1>2. /\ sessions'[t] = [user |-> req[p].user, grant |-> req[p].new,
                         revoked |-> FALSE]
      /\ \A s \in SessionId : s # t => sessions'[s] = sessions[s]
  BY <1>1 DEF LoginInsert
<1>3. Live(t)' /\ sessions'[t].grant = req[p].new
  BY <1>1, <1>2, NoneAssumption DEF Live, Opened, Knows, OwnsNew
<1>4. \A g \in Grant : sessions[t].grant # g
  BY BoundsAssumption
  DEF DisjointInv, StoresCurrent, UnopenedBlank, LoginInsert, NoGrant, Grant
<1>5. StoresCurrent'
  <2>1. Opened(t)'
    BY <1>3 DEF Live
  <2>2. Inv /\ StoresCurrent /\ UNCHANGED caches
    BY DEF DisjointInv, LoginInsert
  <2> QED
    BY <1>2, <1>4, <2>1, <2>2, RowsReplaced
<1>6. PICK n : n = [req[p] EXCEPT !.pc = "cacheAccess", !.sid = t]
  OBVIOUS
<1>7. n.pc = "cacheAccess" /\ n.sid = t /\ n.new = req[p].new
  BY <1>1, <1>6 DEF Request
<1>8. Prepared(n)'
  BY <1>3, <1>7 DEF Prepared, Holds
<1> QED
  BY <1>5, <1>6, <1>8, BecomePrepared DEF DisjointInv, LoginInsert

LEMMA RotatePrepared ==
  ASSUME DisjointInv, NEW p \in Proc, Rotate(p)
  PROVE  StoresCurrent' /\ Prepared(req[p])'
<1>1. /\ Prepared(req[p]) /\ Knows(req[p]) /\ req[p] \in Request
      /\ req[p].pc = "rotate" /\ req[p].kind = "refresh"
      /\ sessions \in [SessionId -> Row]
  BY DEF DisjointInv, Inv, StoresOK, Rotate, At, Knows
<1>2. PICK t \in SessionId : t = req[p].sid
  BY <1>1 DEF Knows, OwnsSession
<1>3. /\ Live(t) /\ sessions[t].grant = req[p].hash /\ req[p].jti = req[p].hash
      /\ accessCache[req[p].hash] = None /\ refreshCache[req[p].hash] = None
  BY <1>1, <1>2 DEF Prepared, Holds
<1>4. /\ Live(t)' /\ sessions'[t].grant = req[p].new
      /\ \A s \in SessionId : s # t => sessions'[s] = sessions[s]
  BY <1>1, <1>2, <1>3 DEF Rotate, Row, Live, Opened
<1>5. StoresCurrent'
  <2>1. Opened(t)'
    BY <1>4 DEF Live
  <2>2. Inv /\ StoresCurrent /\ UNCHANGED caches
    BY DEF DisjointInv, Rotate
  <2> QED
    BY <1>3, <1>4, <2>1, <2>2, NoneAssumption, RowsReplaced
<1>6. PICK r \in Request : Moved(r, req[p], "cacheAccess")
  BY <1>1, MovedExists DEF Label
<1>7. Prepared(r)'
  BY <1>2, <1>4, <1>6 DEF Moved, Prepared, Holds
<1> QED
  BY <1>5, <1>6, <1>7, BecomePrepared DEF Moved, DisjointInv, Rotate

LEMMA RevokePrepared ==
  ASSUME DisjointInv, NEW p \in Proc, Revoke(p)
  PROVE  StoresCurrent' /\ Prepared(req[p])'
<1>1. /\ Prepared(req[p]) /\ Knows(req[p])
      /\ req[p].pc = "revoke" /\ sessions \in [SessionId -> Row]
  BY DEF DisjointInv, Inv, StoresOK, Revoke, At
<1>2. PICK t \in SessionId : t = req[p].sid
  BY <1>1 DEF Knows
<1>3. Live(t) /\ accessCache[sessions[t].grant] = None
  BY <1>1, <1>2 DEF Prepared
<1>4. /\ Opened(t)' /\ sessions'[t].grant = sessions[t].grant
      /\ \A s \in SessionId : s # t => sessions'[s] = sessions[s]
  BY <1>1, <1>2, <1>3 DEF Revoke, Row, Live, Opened
<1>5. StoresCurrent'
  <2>1. Inv /\ StoresCurrent /\ UNCHANGED caches
    BY DEF DisjointInv, Revoke
  <2> QED
    BY <1>3, <1>4, <2>1, RowsReplaced
<1> QED
  BY <1>5, IdlePrepared, BecomePrepared DEF Finish, DisjointInv, Revoke

LEMMA LogoutAllRevokePrepared ==
  ASSUME DisjointInv, NEW p \in Proc, LogoutAllRevoke(p)
  PROVE  StoresCurrent' /\ Prepared(req[p])'
<1>1. /\ Prepared(req[p])
      /\ req[p].pc = "revokeAll" /\ sessions \in [SessionId -> Row]
  BY DEF DisjointInv, Inv, StoresOK, LogoutAllRevoke, At
<1>2. \A s \in ActiveOfUser(req[p].user) :
        accessCache[sessions[s].grant] = None
  BY <1>1 DEF Prepared
<1>3. \A s \in SessionId :
        \/ sessions'[s] = sessions[s]
        \/ /\ s \in ActiveOfUser(req[p].user) /\ Opened(s)'
           /\ sessions'[s].grant = sessions[s].grant
  BY <1>1 DEF LogoutAllRevoke, Row, ActiveOfUser, Live, Opened
<1>4. StoresCurrent'
  <2>1. Inv /\ StoresCurrent /\ UNCHANGED caches
    BY DEF DisjointInv, LogoutAllRevoke
  <2> QED
    BY <1>2, <1>3, <2>1, RowsReplaced
<1> QED
  BY <1>4, IdlePrepared, BecomePrepared DEF Finish, DisjointInv, LogoutAllRevoke

-----------------------------------------------------------------------------
(* The other steps of a request.                                           *)
LEMMA RespondPrepared ==
  ASSUME DisjointInv, NEW p \in Proc, Respond(p)
  PROVE  StoresCurrent' /\ Prepared(req[p])'
<1>1. StoresCurrent'
  BY StoresKept DEF DisjointInv, Respond, caches
<1> QED
  BY <1>1, IdlePrepared, BecomePrepared DEF Finish, DisjointInv, Respond

LEMMA ServePrepared ==
  ASSUME DisjointInv, ~RedisMayFail, NEW p \in Proc, Serve(p)
  PROVE  StoresCurrent' /\ Prepared(req[p])'
BY AuthCachedPrepared, AuthDbPrepared, AuthFillPrepared, AuthUserPrepared,
   LoginInsertPrepared, CacheAccessPrepared, CacheRefreshPrepared,
   RespondPrepared, RefreshCachedPrepared, RefreshFoundPrepared,
   RefreshUserPrepared, RotatePrepared, DropAccessPrepared,
   DropRefreshPrepared, RevokePrepared, LogoutSessionPrepared,
   RevokeTargetPrepared, LogoutAllListPrepared, LogoutAllDropPrepared,
   LogoutAllRevokePrepared
DEF Serve, Authenticate

LEMMA ArrivePrepared ==
  ASSUME DisjointInv, NEW p \in Proc, ArriveAny(p) \/ Crash(p)
  PROVE  StoresCurrent' /\ Prepared(req[p])'
<1>1. ASSUME NEW k, NEW g, NEW s, AuthArrive(p, k, g, s)
      PROVE  StoresCurrent' /\ Prepared(req[p])'
  <2> DEFINE n == [Idle EXCEPT !.kind = k, !.pc = "auth", !.jti = g, !.sid = s]
  <2>1. n.pc = "auth"
    BY DEF Idle
  <2>2. Prepared(n)
    <3> HIDE DEF n
    <3> QED BY <2>1, NothingToSpoil
  <2> QED
    BY <1>1, <2>2, LocalPrepared DEF AuthArrive
<1>2. ASSUME NEW h, RefreshArrive(p, h)
      PROVE  StoresCurrent' /\ Prepared(req[p])'
  <2> DEFINE n == [Idle EXCEPT !.kind = "refresh", !.pc = "findCached",
                               !.hash = h]
  <2>1. n.pc = "findCached"
    BY DEF Idle
  <2>2. Prepared(n)
    <3> HIDE DEF n
    <3> QED BY <2>1, NothingToSpoil
  <2> QED
    BY <1>2, <2>2, LocalPrepared DEF RefreshArrive
<1>3. ASSUME NEW g, NEW h, LogoutArrive(p, g, h)
      PROVE  StoresCurrent' /\ Prepared(req[p])'
  <2> DEFINE n == [Idle EXCEPT !.kind = "logout", !.pc = "dropAccess",
                               !.jti = g, !.hash = h]
  <2>1. n.pc = "dropAccess" /\ n.kind = "logout"
    BY DEF Idle
  <2>2. Prepared(n)
    <3> HIDE DEF n
    <3> QED BY <2>1 DEF Prepared
  <2> QED
    BY <1>3, <2>2, LocalPrepared DEF LogoutArrive
<1>4. CASE Crash(p)
  BY <1>4, FinishPrepared DEF Crash
<1> QED
  BY <1>1, <1>2, <1>3, <1>4, LoginUserPrepared DEF ArriveAny

(* Every step whose rows stay and whose caches only lose keys.             *)
LEMMA WaitingPrepared ==
  ASSUME DisjointInv, [Next]_vars, NEW q \in Proc, req'[q] = req[q],
         UNCHANGED sessions,
         \A g \in Grant : /\ accessCache'[g] \in {None, accessCache[g]}
                          /\ refreshCache'[g] \in {None, refreshCache[g]}
  PROVE  Prepared(req[q])'
<1>1. req[q] \in Request /\ Knows(req[q]) /\ Prepared(req[q]) /\ Inv /\ Grows
  BY NextGrows DEF DisjointInv, Inv
<1>2. PICK r \in Request : r = req[q]
  BY <1>1
<1>3. Prepared(r)'
  BY <1>1, <1>2, PreparedKept
<1> QED
  BY <1>2, <1>3 DEF Prepared, Holds

LEMMA EnvironmentSpoilsNothing ==
  ASSUME DisjointInv, Environment \/ UNCHANGED vars
  PROVE  /\ UNCHANGED <<sessions, req>>
         /\ \A g \in Grant : /\ accessCache'[g] \in {None, accessCache[g]}
                             /\ refreshCache'[g] \in {None, refreshCache[g]}
BY DEF DisjointInv, Inv, StoresOK, Environment, EvictAccess, EvictRefresh,
       LapseAccess, LapseRefresh, Deactivate, vars, caches

(* Between two states in which no two requests work on one session, every  *)
(* step keeps the invariant.                                               *)
LEMMA NextDisjointInv ==
  ASSUME DisjointInv, [Next]_vars, Disjoint, Disjoint', ~RedisMayFail
  PROVE  DisjointInv'
<1>1. Inv'
  BY NextInv DEF DisjointInv
<1>2. ASSUME NEW p \in Proc, Serve(p) PROVE DisjointInv'
  BY <1>1, <1>2, ServePrepared, OthersPrepared DEF DisjointInv
<1>3. ASSUME NEW p \in Proc, ArriveAny(p) \/ Crash(p) PROVE DisjointInv'
  <2>1. /\ UNCHANGED <<sessions, caches>>
        /\ \A q \in Proc : q # p => req'[q] = req[q]
    BY <1>3 DEF DisjointInv, Inv, ArriveAny, AuthArrive, LoginUser,
                RefreshArrive, LogoutArrive, Crash, Become, Finish
  <2>2. \A q \in Proc : q # p => Prepared(req[q])'
    BY <2>1, WaitingPrepared DEF caches
  <2> QED
    BY <1>1, <1>3, <2>2, ArrivePrepared DEF DisjointInv
<1>4. CASE Environment \/ UNCHANGED vars
  <2>1. \A q \in Proc : Prepared(req[q])'
    BY <1>4, EnvironmentSpoilsNothing, WaitingPrepared
  <2>2. StoresCurrent'
    BY <1>4, EnvironmentSpoilsNothing, StoresKept DEF DisjointInv
  <2> QED
    BY <1>1, <2>1, <2>2 DEF DisjointInv
<1> QED
  BY <1>2, <1>3, <1>4 DEF Next

LEMMA InitDisjointInv == Init => DisjointInv
<1> SUFFICES ASSUME Init PROVE DisjointInv
  OBVIOUS
<1>1. StoresCurrent
  BY DEF Init, StoresCurrent, CachesCurrent, UnopenedBlank, NoRow
<1>2. \A p \in Proc : Prepared(req[p])
  BY IdlePrepared DEF Init
<1> QED
  BY <1>1, <1>2, InitInv DEF DisjointInv

(* The invariant holds as long as Redis answers and requests that overlap  *)
(* work on different sessions, whatever is evicted, aborted or expires.    *)
THEOREM DisjointInvariance ==
  ASSUME ~RedisMayFail PROVE Spec /\ []Disjoint => []DisjointInv
<1>1. DisjointInv /\ Disjoint /\ Disjoint' /\ [Next]_vars => DisjointInv'
  BY NextDisjointInv
<1> QED
  BY <1>1, InitDisjointInv, PTL DEF Spec

-----------------------------------------------------------------------------
(* A token is accepted exactly when a live session holds its grant.        *)
LEMMA AcceptedIsCurrent ==
  ASSUME DisjointInv, NEW g \in Grant
  PROVE  (AcceptsAccess(g) <=> Current(g)) /\ (AcceptsRefresh(g) <=> Current(g))
<1>1. AcceptsAccess(g) <=> Current(g)
  BY DEF DisjointInv, StoresCurrent, CachesCurrent, AcceptsAccess, Current
<1>2. ASSUME refreshCache[g] # None, Live(refreshCache[g]) PROVE Current(g)
  <2>1. refreshCache[g] \in SessionId /\ sessions[refreshCache[g]].grant = g
    BY <1>2 DEF DisjointInv, Inv, StoresOK, StoresCurrent, CachesCurrent
  <2> QED
    BY <1>2, <2>1 DEF Current, ActiveWithGrant
<1> QED
  BY <1>1, <1>2 DEF AcceptsRefresh, Current

LEMMA HeldByOne ==
  ASSUME DisjointInv, NEW g \in Grant, Current(g)
  PROVE  /\ lineage[g] \in SessionId /\ Live(lineage[g])
         /\ sessions[lineage[g]].grant = g
BY DEF DisjointInv, Inv, StoresOK, LookupsAgree, Current, ActiveWithGrant, Live

(* With such requests, an aborted logout, logout_all or revoke_session     *)
(* never leaves a revoked session with an access token in Redis.           *)
THEOREM RevokedUncached ==
  ASSUME ~RedisMayFail PROVE Spec /\ []Disjoint => []RevokedIsUncached
<1>1. DisjointInv => RevokedIsUncached
  BY HeldByOne DEF RevokedIsUncached, DisjointInv, StoresCurrent, CachesCurrent,
                   Live
<1> QED
  BY <1>1, DisjointInvariance, PTL

(* With such requests, the token that a rotation has replaced never        *)
(* refreshes the session next to its replacement.                          *)
THEOREM OneRefreshToken ==
  ASSUME ~RedisMayFail PROVE Spec /\ []Disjoint => []OneRefreshTokenPerSession
<1>1. DisjointInv => OneRefreshTokenPerSession
  BY AcceptedIsCurrent, HeldByOne DEF OneRefreshTokenPerSession
<1> QED
  BY <1>1, DisjointInvariance, PTL

-----------------------------------------------------------------------------
(* The refinement: what the contract sees of a state.                      *)
Held == {sessions[s].grant : s \in {t \in SessionId : Live(t)}}
Spent(g) == lineage[g] # None /\ g <= sessions[lineage[g]].grant

AcceptedAreHeld ==
  /\ {g \in Grant : AcceptsAccess(g)} = Held
  /\ {g \in Grant : AcceptsRefresh(g)} = Held

LEMMA HeldAccepted == DisjointInv => AcceptedAreHeld
<1> SUFFICES ASSUME DisjointInv PROVE AcceptedAreHeld
  OBVIOUS
<1>1. \A g \in Grant : Current(g) <=> g \in Held
  BY DEF Current, ActiveWithGrant, Held
<1>2. Held \subseteq Grant
  BY DEF Held, Live, DisjointInv, Inv, StoresOK, LookupsAgree
<1> QED
  BY <1>1, <1>2, AcceptedIsCurrent DEF AcceptedAreHeld

LEMMA HeldAcceptedNext == DisjointInv' => AcceptedAreHeld'
BY HeldAccepted, PTL

(* The tokens follow the sessions, whichever rows a step changed.          *)
LEMMA TokensFollowRows ==
  ASSUME DisjointInv, DisjointInv'
  PROVE  /\ Contract!TokensFollow
         /\ UNCHANGED sessions =>
              UNCHANGED <<{g \in Grant : AcceptsAccess(g)},
                          {g \in Grant : AcceptsRefresh(g)}>>
<1>1. /\ {g \in Grant : AcceptsAccess(g)} = Held
      /\ {g \in Grant : AcceptsRefresh(g)} = Held
      /\ {g \in Grant : AcceptsAccess(g)}' = Held'
      /\ {g \in Grant : AcceptsRefresh(g)}' = Held'
  BY HeldAccepted, HeldAcceptedNext DEF AcceptedAreHeld
<1>2. UNCHANGED sessions => UNCHANGED Held
  BY DEF Held, Live, Opened
<1>3. {[t \in SessionId |-> sessions[t].grant]'[s] : s \in {u \in SessionId : Live(u)}'}
        = Held'
  BY DEF Held
<1>4. Contract!TokensFollow
  BY <1>1, <1>3 DEF Contract!TokensFollow
<1> QED
  BY <1>1, <1>2, <1>4

LEMMA SpentKept ==
  ASSUME Inv, [Next]_vars, UNCHANGED sessions, NEW g \in Grant
  PROVE  Spent(g)' <=> Spent(g)
<1>1. lineage[g] # None => lineage'[g] = lineage[g]
  BY TokensGrow
<1>2. ASSUME lineage[g] = None, lineage'[g] # None PROVE ~Spent(g)'
  <2>1. PICK p \in Proc : RefreshUser(p) /\ g = minted + 1
                          /\ lineage'[g] = req[p].sid
    <3>1. ASSUME NEW p \in Proc, NEW t \in SessionId, LoginInsert(p, t)
          PROVE  FALSE
      <4>1. sessions'[t] # sessions[t]
        BY <3>1, NoneAssumption
        DEF LoginInsert, Opened, Inv, StoresOK, Knows, OwnsNew, At
      <4> QED
        BY <4>1
    <3>2. ASSUME NEW p \in Proc, NEW u, LoginUser(p, u) PROVE FALSE
      BY <1>2, <3>2, BoundsAssumption DEF LoginUser, Mint, Inv, StoresOK, Grant
    <3>3. ASSUME UNCHANGED lineage PROVE FALSE
      BY <1>2, <3>3
    <3>4. ASSUME NEW p \in Proc, RefreshUser(p)
          PROVE  g = minted + 1 /\ lineage'[g] = req[p].sid
      BY <1>2, <3>4, BoundsAssumption
      DEF RefreshUser, Mint, tokens, Inv, StoresOK, Grant
    <3>5. ASSUME NEW p \in Proc, Serve(p), ~RefreshUser(p) PROVE FALSE
      BY <3>1, <3>3, <3>5
      DEF Serve, Authenticate, AuthCached, AuthDb, AuthFill, AuthUser,
        CacheAccess, CacheRefresh, Respond, RefreshCached, RefreshById,
        RefreshByHash, DropAccess, DropRefresh, LogoutSession, RevokeTarget,
        LogoutAllList, LogoutAllDrop, LogoutAllRevoke, Rotate, Revoke, tokens
    <3>6. ASSUME NEW p \in Proc, ArriveAny(p) \/ Crash(p) PROVE FALSE
      BY <3>2, <3>3, <3>6 DEF ArriveAny, AuthArrive, RefreshArrive,
                              LogoutArrive, Crash, tokens
    <3>7. ~(Environment \/ UNCHANGED vars)
      BY <3>3 DEF Environment, EvictAccess, EvictRefresh, LapseAccess,
                  LapseRefresh, Deactivate, vars, tokens
    <3> QED
      BY <3>4, <3>5, <3>6, <3>7 DEF Next
  <2>2. PICK s \in SessionId : s = req[p].sid /\ Opened(s)
    BY <2>1 DEF RefreshUser, At, Inv, Knows, OwnsSession
  <2>3. sessions[s].grant \in Grant /\ sessions[s].grant <= minted
    BY <2>2, NoneAssumption, BoundsAssumption
    DEF Inv, StoresOK, LookupsAgree, GrantsInOrder, Opened, Row, Grant
  <2>4. minted \in Nat
    BY BoundsAssumption DEF Inv, StoresOK
  <2> QED
    BY <2>1, <2>2, <2>3, <2>4 DEF Spent, Grant
<1> QED
  BY <1>1, <1>2 DEF Spent

LEMMA StutterStep ==
  ASSUME DisjointInv, DisjointInv', [Next]_vars, UNCHANGED sessions
  PROVE  UNCHANGED Contract!contractVars
<1>1. UNCHANGED {g \in Grant : lineage[g] # None /\ g <= sessions[lineage[g]].grant}
  BY SpentKept DEF Spent, DisjointInv
<1>2. UNCHANGED {s \in SessionId : Live(s)}
  BY DEF Live, Opened
<1>3. UNCHANGED [s \in SessionId |-> sessions[s].grant]
  OBVIOUS
<1> QED
  BY <1>1, <1>2, <1>3, TokensFollowRows DEF Contract!contractVars

(* A row takes a grant that none has taken: the contract's Take.           *)
LEMMA RowTakes ==
  ASSUME DisjointInv, DisjointInv', NEW s \in SessionId, NEW g \in Grant,
         sessions'[s].grant = g, g > sessions[s].grant,
         \A t \in SessionId : t # s => sessions'[t] = sessions[t],
         lineage[g] \in {s, None}, lineage'[g] = s,
         \A h \in Grant : h # g => lineage'[h] = lineage[h]
  PROVE  Contract!Take(s, g)
<1>1. sessions \in [SessionId -> Row] /\ sessions' \in [SessionId -> Row]
      /\ lineage \in [Grant -> SessionId \cup {None}]
  BY DEF DisjointInv, Inv, StoresOK
<1>2. ~Spent(g) /\ Spent(g)'
  BY <1>1, NoneAssumption DEF Spent, Grant, Row
<1>3. ASSUME NEW h \in Grant, Spent(h) PROVE Spent(h)'
  <2>1. PICK t \in SessionId : t = lineage[h]
    BY <1>1, <1>3 DEF Spent
  <2>2. h # g /\ lineage'[h] = t /\ h <= sessions[t].grant
    BY <1>2, <1>3, <2>1 DEF Spent
  <2>3. sessions'[t].grant >= sessions[t].grant
    BY <1>1 DEF Row, Grant
  <2>4. sessions[t].grant \in Int /\ sessions'[t].grant \in Int /\ h \in Int
    BY <1>1 DEF Row, Grant
  <2> QED
    BY <2>1, <2>2, <2>3, <2>4, NoneAssumption DEF Spent
<1> DEFINE S == {h \in Grant : lineage[h] # None
                               /\ h <= sessions[lineage[h]].grant}
<1>4. g \notin S /\ S \cup {g} \subseteq S' /\ S' \subseteq 1..MaxGrants
  BY <1>2, <1>3 DEF Spent, Grant
<1>5. [t \in SessionId |-> sessions[t].grant]'
        = [[t \in SessionId |-> sessions[t].grant] EXCEPT ![s] = g]
  OBVIOUS
<1> QED
  BY <1>4, <1>5, TokensFollowRows DEF Contract!Take

LEMMA LoginOpens ==
  ASSUME DisjointInv, DisjointInv', NEW p \in Proc, NEW s \in SessionId,
         LoginInsert(p, s)
  PROVE  Contract!Next
<1>1. /\ Knows(req[p]) /\ req[p].pc = "insert" /\ ~Opened(s)
      /\ sessions \in [SessionId -> Row]
      /\ lineage \in [Grant -> SessionId \cup {None}]
  BY DEF DisjointInv, Inv, StoresOK, LoginInsert, At
<1>2. PICK g \in Grant : g = req[p].new
  BY <1>1 DEF Knows, OwnsNew
<1>3. sessions[s].grant = 0 /\ lineage[g] = None
  BY <1>1, <1>2
  DEF DisjointInv, StoresCurrent, UnopenedBlank, NoGrant, Knows, OwnsNew
<1>4. /\ sessions'[s].grant = g /\ Live(s)'
      /\ \A t \in SessionId : t # s => sessions'[t] = sessions[t]
      /\ lineage'[g] = s
      /\ \A h \in Grant : h # g => lineage'[h] = lineage[h]
  BY <1>1, <1>2, NoneAssumption
  DEF LoginInsert, Row, Live, Opened, Knows, OwnsNew
<1>5. g > sessions[s].grant
  BY <1>3 DEF Grant
<1>6. Contract!Take(s, g)
  BY <1>3, <1>4, <1>5, RowTakes
<1>7. {t \in SessionId : Live(t)}' = {t \in SessionId : Live(t)} \cup {s}
  BY <1>4 DEF Live, Opened
<1>8. Contract!Open(s, g)
  BY <1>3, <1>6, <1>7 DEF Contract!Open
<1> QED
  BY <1>8 DEF Contract!Next, Grant

LEMMA RotateRotates ==
  ASSUME DisjointInv, DisjointInv', NEW p \in Proc, Rotate(p)
  PROVE  Contract!Next
<1>1. /\ Knows(req[p]) /\ Prepared(req[p]) /\ req[p].pc = "rotate"
      /\ req[p].kind = "refresh" /\ sessions \in [SessionId -> Row]
      /\ lineage' = lineage
  BY DEF DisjointInv, Inv, StoresOK, Rotate, At, Knows, tokens
<1>2. PICK s \in SessionId : s = req[p].sid
  BY <1>1 DEF Knows, OwnsSession
<1>3. PICK g \in Grant : g = req[p].new
  BY <1>1 DEF Knows, OwnsNew
<1>4. /\ Live(s) /\ lineage[g] = s /\ g > sessions[s].grant
  BY <1>1, <1>2, <1>3 DEF Prepared, Holds, Knows, OwnsNew
<1>5. /\ sessions'[s].grant = g /\ Live(s)'
      /\ \A t \in SessionId : t # s => sessions'[t] = sessions[t]
  BY <1>1, <1>2, <1>3, <1>4 DEF Rotate, Row, Live, Opened
<1>6. Contract!Take(s, g)
  BY <1>1, <1>4, <1>5, RowTakes
<1>7. {t \in SessionId : Live(t)}' = {t \in SessionId : Live(t)}
  BY <1>4, <1>5 DEF Live, Opened
<1>8. Contract!Rotate(s, g)
  BY <1>4, <1>6, <1>7 DEF Contract!Rotate
<1> QED
  BY <1>8 DEF Contract!Next, Grant

LEMMA RowsRevoked ==
  ASSUME DisjointInv, DisjointInv', [Next]_vars, UNCHANGED lineage,
         NEW S \in SUBSET {s \in SessionId : Live(s)},
         \A s \in SessionId :
           sessions'[s] = IF s \in S THEN [sessions[s] EXCEPT !.revoked = TRUE]
                                     ELSE sessions[s]
  PROVE  Contract!Next \/ UNCHANGED Contract!contractVars
<1>1. sessions \in [SessionId -> Row] /\ sessions' \in [SessionId -> Row]
      /\ lineage \in [Grant -> SessionId \cup {None}]
  BY DEF DisjointInv, Inv, StoresOK
<1>2. CASE S = {}
  <2>1. UNCHANGED sessions
    BY <1>1, <1>2
  <2> QED
    BY <2>1, StutterStep
<1>3. CASE S # {}
  <2>1. \A s \in SessionId : /\ sessions'[s].grant = sessions[s].grant
                             /\ Live(s)' <=> Live(s) /\ s \notin S
    BY <1>1 DEF Live, Opened, Row
  <2>2. UNCHANGED [s \in SessionId |-> sessions[s].grant]
    BY <2>1
  <2>3. {s \in SessionId : Live(s)}' = {s \in SessionId : Live(s)} \ S
    BY <2>1
  <2>4. UNCHANGED {g \in Grant : lineage[g] # None
                                 /\ g <= sessions[lineage[g]].grant}
    BY <1>1, <2>1
  <2>5. Contract!Revoke(S)
    BY <1>3, <2>2, <2>3, <2>4, TokensFollowRows DEF Contract!Revoke
  <2> QED
    BY <2>5 DEF Contract!Next
<1> QED
  BY <1>2, <1>3

LEMMA ContractStep ==
  ASSUME DisjointInv, DisjointInv', [Next]_vars
  PROVE  Contract!Next \/ UNCHANGED Contract!contractVars
<1>1. sessions \in [SessionId -> Row]
  BY DEF DisjointInv, Inv, StoresOK
<1>2. ASSUME NEW p \in Proc, Revoke(p)
      PROVE  Contract!Next \/ UNCHANGED Contract!contractVars
  <2>1. req[p].sid \in SessionId /\ Live(req[p].sid)
    BY <1>2 DEF DisjointInv, Inv, Knows, Prepared, Revoke, At
  <2>2. \A s \in SessionId :
           sessions'[s] = IF s \in {req[p].sid}
                          THEN [sessions[s] EXCEPT !.revoked = TRUE]
                          ELSE sessions[s]
    BY <1>1, <1>2 DEF Revoke
  <2> QED
    BY <1>2, <2>1, <2>2, RowsRevoked DEF Revoke, tokens
<1>3. ASSUME NEW p \in Proc, LogoutAllRevoke(p)
      PROVE  Contract!Next \/ UNCHANGED Contract!contractVars
  <2>1. ActiveOfUser(req[p].user) \in SUBSET {s \in SessionId : Live(s)}
    BY DEF ActiveOfUser
  <2>2. \A s \in SessionId :
           sessions'[s] = IF s \in ActiveOfUser(req[p].user)
                          THEN [sessions[s] EXCEPT !.revoked = TRUE]
                          ELSE sessions[s]
    BY <1>3 DEF LogoutAllRevoke
  <2> QED
    BY <1>3, <2>1, <2>2, RowsRevoked DEF LogoutAllRevoke, tokens
<1> QED
  BY <1>2, <1>3, StutterStep, LoginOpens, RotateRotates, RowWriters
  DEF WritesRows

LEMMA ContractInit == Init => Contract!Init
<1> SUFFICES ASSUME Init PROVE Contract!Init
  OBVIOUS
<1>1. \A s \in SessionId : ~Live(s) /\ sessions[s].grant = 0
  BY DEF Init, Live, Opened, NoRow, NoGrant
<1>2. \A g \in Grant : ~AcceptsAccess(g) /\ ~AcceptsRefresh(g)
  BY <1>1 DEF Init, AcceptsAccess, AcceptsRefresh, ActiveWithGrant
<1>3. \A g \in Grant : lineage[g] = None
  BY DEF Init
<1> QED
  BY <1>1, <1>2, <1>3 DEF Contract!Init

(* As long as Redis answers and overlapping requests work on different     *)
(* sessions, the awaits of login, refresh, logout, logout_all and          *)
(* revoke_session implement the session contract, in which both tokens of  *)
(* a session change hands in one step.                                     *)
THEOREM ContractImplemented ==
  ASSUME ~RedisMayFail PROVE Spec /\ []Disjoint => ContractHolds
<1>1. DisjointInv /\ DisjointInv' /\ [Next]_vars
        => [Contract!Next]_(Contract!contractVars)
  BY ContractStep
<1>2. Spec => []([Next]_vars)
  BY PTL DEF Spec
<1> QED
  BY <1>1, <1>2, ContractInit, DisjointInvariance, PTL
  DEF Spec, ContractHolds, Contract!Spec

-----------------------------------------------------------------------------
(* The tokens of g have been a session's and are good for nothing now.     *)
Withdrawn(g) == Spent(g) /\ ~AcceptsAccess(g) /\ ~AcceptsRefresh(g)

(* Once both tokens of a grant have been withdrawn, by a rotation or a     *)
(* revocation, no key, row or request makes either of them good again.     *)
WithdrawnForEver ==
  [][\A g \in Grant : Withdrawn(g) => Withdrawn(g)']_vars

LEMMA WithdrawnStep ==
  ASSUME DisjointInv, DisjointInv', [Next]_vars, NEW g \in Grant, Withdrawn(g)
  PROVE  Withdrawn(g)'
<1> DEFINE S == {h \in Grant : lineage[h] # None
                               /\ h <= sessions[lineage[h]].grant}
           A == {h \in Grant : AcceptsAccess(h)}
           R == {h \in Grant : AcceptsRefresh(h)}
           G == [s \in SessionId |-> sessions[s].grant]
           L == {s \in SessionId : Live(s)}
<1>1. g \in S /\ g \notin Held
  BY HeldAccepted DEF Withdrawn, Spent, AcceptedAreHeld
<1>2. Held = {G[s] : s \in L}
  BY DEF Held
<1>3. ASSUME NEW s \in SessionId, NEW h, Contract!Take(s, h),
             L' \subseteq L \cup {s}
      PROVE  g \in S' /\ g \notin A' /\ g \notin R'
  <2>1. /\ h \notin S /\ S \subseteq S' /\ A' = R'
        /\ A' = {G'[t] : t \in L'} /\ G' = [G EXCEPT ![s] = h]
    BY <1>3 DEF Contract!Take, Contract!TokensFollow
  <2>2. h # g
    BY <1>1, <2>1
  <2>3. \A t \in SessionId : G'[t] = IF t = s THEN h ELSE G[t]
    BY <2>1
  <2> HIDE DEF S, A, R, G, L
  <2>4. \A t \in L' : t \in SessionId
    BY DEF L
  <2>5. \A t \in L' : G'[t] # g
    BY <1>1, <1>2, <1>3, <2>2, <2>3, <2>4
  <2> QED
    BY <1>1, <2>1, <2>5
<1>4. ASSUME NEW T \in SUBSET L, Contract!Revoke(T)
      PROVE  g \in S' /\ g \notin A' /\ g \notin R'
  <2>1. S' = S /\ A' = R' /\ A' = {G'[t] : t \in L'} /\ G' = G /\ L' = L \ T
    BY <1>4 DEF Contract!Revoke, Contract!TokensFollow
  <2> HIDE DEF S, A, R, G, L
  <2> QED
    BY <1>1, <1>2, <2>1
<1>5. ASSUME UNCHANGED Contract!contractVars
      PROVE  g \in S' /\ g \notin A' /\ g \notin R'
  <2>1. S' = S /\ A' = A /\ R' = R
    BY <1>5 DEF Contract!contractVars
  <2> HIDE DEF S, A, R
  <2>2. g \notin A /\ g \notin R
    BY DEF A, R, Withdrawn
  <2> QED
    BY <1>1, <2>1, <2>2
<1>6. g \in S' /\ g \notin A' /\ g \notin R'
  <2> HIDE DEF S, A, R
  <2>1. CASE Contract!Next
    <3>1. ASSUME NEW s \in SessionId, NEW h, Contract!Open(s, h)
          PROVE  g \in S' /\ g \notin A' /\ g \notin R'
      BY <1>3, <3>1 DEF Contract!Open
    <3>2. ASSUME NEW s \in SessionId, NEW h, Contract!Rotate(s, h)
          PROVE  g \in S' /\ g \notin A' /\ g \notin R'
      BY <1>3, <3>2 DEF Contract!Rotate
    <3> QED
      BY <1>4, <2>1, <3>1, <3>2 DEF Contract!Next
  <2> QED
    BY <1>5, <2>1, ContractStep
<1> QED
  BY <1>6 DEF Withdrawn, Spent

(* With such requests a replaced or revoked token is never good again.     *)
THEOREM TokensStayWithdrawn ==
  ASSUME ~RedisMayFail PROVE Spec /\ []Disjoint => WithdrawnForEver
<1>1. DisjointInv /\ DisjointInv' /\ [Next]_vars
        => [\A g \in Grant : Withdrawn(g) => Withdrawn(g)']_vars
  BY WithdrawnStep
<1> QED
  BY <1>1, DisjointInvariance, PTL DEF Spec, WithdrawnForEver

=============================================================================
