------------------------------ MODULE Sessions ------------------------------
(***************************************************************************)
(* Accounts, access tokens and refresh tokens.  Server processes share the *)
(* accounts, the refresh tokens and the revoked access tokens in the       *)
(* database; each also remembers in memory the tokens it revoked itself    *)
(* and counts the requests of every address.  API clients log in, refresh, *)
(* call and log out; browser tabs run the frontend, which keeps an access  *)
(* token in the storage of the tab, forgets the refresh token, and logs    *)
(* out by forgetting the access token.                                     *)
(*                                                                         *)
(* A JWT is its jti, an index of "tokens"; a signature that does not       *)
(* verify, a malformed body and the tenant header change nothing and are   *)
(* left out.  A password hash is the password it verifies.  Postgres and   *)
(* FTN_JWT_SECRET are configured.                                          *)
(***************************************************************************)
EXTENDS Integers, Sequences, FiniteSets

CONSTANTS
  Servers,        \* server processes
  Slots,          \* requests being answered
  Clients, Tabs,  \* who sends them
  Users, Passwords,
  EnvUser, EnvPassword, \* FTN_AUTH_LOGIN_USERNAME and its password
  DefaultPassword,      \* of the account made at start-up
  None,           \* nothing there
  AccessTTL, RefreshTTL, Window, \* in minutes of the clock
  MaxTime, MaxTokens,   \* bounds on the clock and on the tokens issued
  Scenarios       \* what a behaviour is about, see ScenariosAssumption

Senders == Clients \cup Tabs
Kinds == {"register", "login", "refresh", "logout", "call"}

-----------------------------------------------------------------------------
(* Routes and scopes: an area stands for the paths that begin with it. *)
Scopes == {"catalog:read", "designer:read", "designer:write", "credentials:read",
           "credentials:write", "workflows:read", "workflows:write", "payments:write"}
Route(method, area) == [method |-> method, area |-> area]

PublicRoutes ==
  {Route("GET", a) : a \in {"health", "auth/status", "oauth/callback", "metrics", "docs"}} \cup
  {Route("POST", a) : a \in {"stripe/webhook", "auth/login", "auth/register", "auth/refresh",
                             "pay/checkout"}}
Logout == Route("POST", "auth/logout")

(* the other routes the server has; dead letters, triggers, the state of   *)
(* integrations and anything unknown are "other" *)
ProtectedRoutes ==
  {Logout} \cup
  {Route("GET", a) : a \in {"activities", "catalog", "designer", "credentials", "oauth/start",
                            "workflows", "audit", "other"}} \cup
  {Route("POST", a) : a \in {"designer", "credentials", "workflows", "other"}} \cup
  {Route("PUT", "designer"), Route("DELETE", "credentials"), Route("DELETE", "oauth")}

(* the routes that change what is stored, or begin to *)
Changes(route) ==
  route \notin PublicRoutes \cup {Logout} /\ (route.method # "GET" \/ route.area = "oauth/start")

(* requiredScopesForRoute, in the order of its conditions *)
RequiredScopes(route) ==
  LET changes == route.method \in {"POST", "PUT", "PATCH", "DELETE"} IN
  CASE route.area \in {"activities", "catalog"} /\ route.method = "GET" -> {"catalog:read"}
    [] route.area = "designer" ->
         IF route.method \in {"POST", "PUT"} THEN {"designer:write"} ELSE {"designer:read"}
    [] route.area = "credentials" -> IF changes THEN {"credentials:write"} ELSE {"credentials:read"}
    [] route.area = "oauth/start" /\ route.method = "GET" -> {"credentials:write"}
    [] route.area = "oauth" /\ route.method = "DELETE" -> {"credentials:write"}
    [] route.area = "workflows" -> IF changes THEN {"workflows:write"} ELSE {"workflows:read"}
    [] route = Route("POST", "pay/checkout") -> {"payments:write"}
    [] route = Logout -> {}
    [] OTHER -> IF route.method \in {"GET", "HEAD"} THEN {"workflows:read"} ELSE {"workflows:write"}

ASSUME DurationsAssumption == {AccessTTL, RefreshTTL, Window} \subseteq Nat \ {0}
ASSUME BoundsAssumption == MaxTime \in Nat /\ MaxTokens \in Nat
ASSUME NamesAssumption ==
  /\ Clients \cap Tabs = {} /\ Users # {}
  /\ None \notin Senders \cup Servers \cup Passwords \cup Kinds \cup Nat \cup [count : Nat, resetAt : Nat]
ASSUME ScenariosAssumption ==
  Scenarios \subseteq
    [servers : SUBSET Servers,
     accounts : [Users -> Passwords \cup {None}],   \* at first
     default : Users \cup {None},                   \* FTN_DEFAULT_USER
     rbac : BOOLEAN,
     scopes : (SUBSET (Scopes \cup {"*"})) \ {{}},     \* FTN_AUTH_LOGIN_SCOPES
     limit : Nat,                                   \* per Window; 0 for none
     requests : [Kinds -> Nat],
     senders : SUBSET Senders,
     routes : SUBSET (ProtectedRoutes \ {Logout}),
     path : {"page", "login", "register"},          \* where tabs begin
     signedIn : [Senders -> 0 .. MaxTokens],        \* the token of each at first
     clock : BOOLEAN,
     faults : Nat]                                  \* crashes, errors, answers given up

VARIABLES
  scenario, \* the scenario, its requests and faults counted down
  db,       \* accounts, refresh tokens, revoked access tokens
  server,   \* the memory of each process
  tokens,   \* the access tokens issued; an index is a jti
  slot,     \* what each request does
  client,   \* what each API client has
  tab,      \* what each browser tab has and shows
  time,     \* the minute of the clock
  history   \* what was registered, revoked, ended, accepted; for the properties

vars == <<scenario, db, server, tokens, slot, client, tab, time, history>>
-----------------------------------------------------------------------------
(* A request; what it does not use is None.  "who" waits for its answer,   *)
(* "since" and "across" are for LogoutEndsSessions, "late" for             *)
(* RevokedStaysOut. *)
Idle == [pc |-> "idle", at |-> None, from |-> None, who |-> None, kind |-> None, status |-> 0,
         user |-> None, password |-> None, parent |-> None, issued |-> None, since |-> 0,
         across |-> FALSE, jti |-> None, route |-> None, late |-> FALSE]
Fresh == [stage |-> "down", revoked |-> {}, bucket |-> [c \in Senders |-> None]]
NothingAccepted == [c \in Senders |-> [t \in 0 .. MaxTime |-> 0]]

(* a page that has just been loaded: the token is in the storage of the tab *)
Loaded(path, token) ==
  [path |-> path, boot |-> TRUE, token |-> token, session |-> token # None,
   login |-> FALSE, asks |-> 0, failed |-> FALSE]

Init ==
  LET held(c) == IF scenario.signedIn[c] = 0 THEN None ELSE scenario.signedIn[c] IN
  /\ scenario \in Scenarios
  /\ db = [accounts |-> scenario.accounts, refresh |-> {}, revoked |-> {}]
  /\ server = [s \in Servers |-> Fresh]
  /\ tokens = [n \in {k \in 1 .. MaxTokens : \E c \in Senders : k <= scenario.signedIn[c]} |->
                 [user |-> CHOOSE u \in Users : TRUE, exp |-> AccessTTL, scopes |-> scenario.scopes]]
  /\ slot = [h \in Slots |-> Idle]
  /\ client = [c \in Clients |-> [access |-> held(c), refresh |-> None, lost |-> FALSE]]
  /\ tab = [t \in Tabs |-> Loaded(scenario.path, held(t))]
  /\ time = 0
  /\ history = [registered |-> {}, revoking |-> {}, loggedOut |-> {}, ended |-> {}, pairs |-> {},
                forgets |-> [u \in Users \cup {EnvUser} |-> 0],
                accepted |-> [s \in Servers |-> NothingAccepted]]

Up(s) == server[s].stage = "up"

-----------------------------------------------------------------------------
(* Start-up: the default account is looked up, then inserted. *)
StartUp(s) ==
  /\ server[s].stage = "down"
  /\ server' = [server EXCEPT ![s].stage =
       IF scenario.default = None \/ db.accounts[scenario.default] # None THEN "up" ELSE "inserting"]
  /\ UNCHANGED <<scenario, db, tokens, slot, client, tab, time, history>>

(* insertUser: the name is a primary key *)
Inserted(accounts, u, p) == [accounts EXCEPT ![u] = IF @ = None THEN p ELSE @]

InsertDefault(s) ==
  /\ server[s].stage = "inserting"
  /\ db' = [db EXCEPT !.accounts = Inserted(@, scenario.default, DefaultPassword)]
  /\ server' = [server EXCEPT ![s].stage = "up"]
  /\ UNCHANGED <<scenario, tokens, slot, client, tab, time, history>>

-----------------------------------------------------------------------------
(* The rate limiter: a window that begins with a request, by address, in   *)
(* the memory of one process. *)
(* the request after the last one is let through *)
AllowedOneMore(s, c) ==
  LET b == server[s].bucket[c] IN
  scenario.limit = 0 \/ b = None \/ b.resetAt <= time \/ b.count <= scenario.limit

Allowed(s, c) ==
  LET b == server[s].bucket[c] IN
  scenario.limit = 0 \/ b = None \/ b.resetAt <= time \/ b.count < scenario.limit

Counted(s, c) ==
  LET b == server[s].bucket[c] IN
  IF scenario.limit = 0 THEN b
  ELSE IF b = None \/ b.resetAt <= time THEN [count |-> 1, resetAt |-> time + Window]
  ELSE IF b.count < scenario.limit THEN [b EXCEPT !.count = @ + 1]
  ELSE b

Accepted(s, c) ==
  IF scenario.limit > 0 THEN [history EXCEPT !.accepted[s][c][time] = @ + 1] ELSE history

-----------------------------------------------------------------------------
(* Requests without a token reach the rate limiter at once. *)
Sends(h, s, kind) ==
  /\ slot[h].pc = "idle" /\ Up(s)
  /\ scenario.requests[kind] > 0
  /\ scenario' = [scenario EXCEPT !.requests[kind] = @ - 1]

(* c waits for the answer to a request *)
Waits(c, kinds) == \E h \in Slots : slot[h].who = c /\ slot[h].kind \in kinds
Request(pc, s, c, kind) == [Idle EXCEPT !.pc = pc, !.at = s, !.from = c, !.who = c, !.kind = kind]

Answer(q, status) == [q EXCEPT !.pc = "answer", !.status = status]
Answers(h, status) == slot' = [slot EXCEPT ![h] = Answer(@, status)]

Arrives(h, s, c, q) ==
  /\ slot' = [slot EXCEPT ![h] = IF Allowed(s, c) THEN q ELSE Answer(q, 429)]
  /\ server' = [server EXCEPT ![s].bucket[c] = Counted(s, c)]
  /\ history' = IF Allowed(s, c) THEN Accepted(s, c) ELSE history
  /\ UNCHANGED <<db, tokens, client, tab, time>>

(* POST /auth/login *)
Login(h, s, c) ==
  \E e \in (Users \X Passwords) \cup {<<EnvUser, EnvPassword>>} :
    /\ Sends(h, s, "login")
    /\ Arrives(h, s, c, [Request("verify", s, c, "login") EXCEPT
         !.user = e[1], !.password = e[2], !.since = history.forgets[e[1]]])

(* POST /auth/register *)
Register(h, s, c) ==
  \E u \in Users, p \in Passwords :
    /\ Sends(h, s, "register")
    /\ Arrives(h, s, c, [Request("insert", s, c, "register") EXCEPT
         !.user = u, !.password = p, !.since = history.forgets[u]])

(* POST /auth/refresh *)
Refresh(h, s, c) ==
  LET r == client[c].refresh IN
  /\ r # None
  /\ Sends(h, s, "refresh")
  /\ Arrives(h, s, c, [Request("consume", s, c, "refresh") EXCEPT
       !.user = tokens[r].user, !.parent = r, !.since = history.forgets[tokens[r].user]])

(* validateLoginCredentials; then the hash of the account *)
Authentic(u, p) == (u = EnvUser /\ p = EnvPassword) \/ (u \in Users /\ db.accounts[u] = p)

(* issueAccessTokenForSubject; no account has scopes of its own *)
Issues(h) ==
  /\ Len(tokens) < MaxTokens
  /\ tokens' = Append(tokens, [user |-> slot[h].user, exp |-> time + AccessTTL, scopes |-> scenario.scopes])
  /\ slot' = [slot EXCEPT ![h].pc = "store", ![h].issued = Len(tokens) + 1]

Verify(h) ==
  /\ slot[h].pc = "verify"
  /\ IF Authentic(slot[h].user, slot[h].password) THEN Issues(h)
     ELSE Answers(h, 401) /\ UNCHANGED tokens
  /\ UNCHANGED <<scenario, db, server, client, tab, time, history>>

Insert(h) ==
  LET q == slot[h] IN
  /\ q.pc = "insert"
  /\ db' = [db EXCEPT !.accounts = Inserted(@, q.user, q.password)]
  /\ IF db.accounts[q.user] = None THEN Issues(h)
     ELSE Answers(h, 409) /\ UNCHANGED tokens
  /\ UNCHANGED <<scenario, server, client, tab, time, history>>

(* the token is deleted when the new one is stored *)
ConsumedLater(q) == db.refresh

(* consumeRefreshToken: one DELETE ... RETURNING *)
Consumed(q) == {r \in db.refresh : r.id # q.parent}

Consume(h) ==
  LET q == slot[h] IN
  /\ q.pc = "consume"
  /\ IF \E r \in db.refresh : r.id = q.parent /\ time < r.exp
     THEN db' = [db EXCEPT !.refresh = Consumed(q)] /\ Issues(h)
     ELSE Answers(h, 401) /\ UNCHANGED <<db, tokens>>
  /\ UNCHANGED <<scenario, server, client, tab, time, history>>

(* storeRefreshToken; its identity is that of the access token beside it *)
Store(h) ==
  LET q == slot[h] IN
  /\ q.pc = "store"
  /\ db' = [db EXCEPT !.refresh = @ \cup {[id |-> q.issued, user |-> q.user, exp |-> time + RefreshTTL,
                                           since |-> q.since, across |-> q.across]}]
  /\ IF q.kind = "refresh" THEN Answers(h, 200) ELSE slot' = [slot EXCEPT ![h].pc = "audit"]
  /\ history' = IF q.kind = "refresh" THEN [history EXCEPT !.pairs = @ \cup {<<q.parent, q.issued>>}]
                ELSE history
  /\ UNCHANGED <<scenario, server, tokens, client, tab, time>>

-----------------------------------------------------------------------------
(* Requests with a token: verified, checked for revocation, counted.       *)

(* verifyJwtHs256 *)
Valid(j) == j # None /\ time < tokens[j].exp

(* checkProtectedAccess *)
Access(j, route) ==
  IF ~Valid(j) THEN 401
  ELSE IF scenario.rbac /\ "*" \notin tokens[j].scopes
            /\ ~(RequiredScopes(route) \subseteq tokens[j].scopes) THEN 403
  ELSE 200

(* The memory of the process is asked first, then the database.  "late"    *)
(* remembers that the token was logged out before the request arrived. *)
Receives(h, s, c, kind, j, route) ==
  LET q == [Request("check", s, c, kind) EXCEPT
              !.jti = j, !.route = route, !.late = j \in history.loggedOut]
      access == Access(j, route)
  IN /\ Sends(h, s, kind)
     /\ slot' = [slot EXCEPT ![h] = IF access # 200 THEN Answer(q, access)
                                    ELSE IF j \in server[s].revoked THEN Answer(q, 401) ELSE q]
     /\ UNCHANGED <<db, server, tokens, client, tab, time, history>>

ClientCall(h, s, c) == \E r \in scenario.routes : Receives(h, s, c, "call", client[c].access, r)

(* POST /auth/logout *)
ClientLogout(h, s, c) == client[c].access # None /\ Receives(h, s, c, "logout", client[c].access, Logout)

(* only the processes that revoked it remember *)
RevokedHere(j) == FALSE

(* isAccessTokenJtiRevoked, the database *)
Revoked(j) == j \in db.revoked

(* A logout verifies the token again and revokes it in memory. *)
Check(h) ==
  LET q == slot[h] IN
  /\ q.pc = "check"
  /\ IF Revoked(q.jti) THEN Answers(h, 401) /\ UNCHANGED <<server, history>>
     ELSE IF ~Allowed(q.at, q.from) THEN Answers(h, 429) /\ UNCHANGED <<server, history>>
     ELSE LET begins == q.kind = "logout" /\ Valid(q.jti) IN
          /\ server' = [server EXCEPT ![q.at].bucket[q.from] = Counted(q.at, q.from),
                                      ![q.at].revoked = IF begins THEN @ \cup {q.jti} ELSE @]
          /\ history' = IF begins THEN [Accepted(q.at, q.from) EXCEPT !.revoking = @ \cup {q.jti}]
                        ELSE Accepted(q.at, q.from)
          /\ IF begins THEN slot' = [slot EXCEPT ![h].pc = "revoke"]
             ELSE Answers(h, IF q.kind = "logout" THEN 400 ELSE 200)
  /\ UNCHANGED <<scenario, db, tokens, client, tab, time>>

(* revokeAccessTokenJti, the database *)
Revoke(h) ==
  /\ slot[h].pc = "revoke"
  /\ db' = [db EXCEPT !.revoked = @ \cup {slot[h].jti}]
  /\ slot' = [slot EXCEPT ![h].pc = "forget"]
  /\ UNCHANGED <<scenario, server, tokens, client, tab, time, history>>

(* the refresh token that came with the access token is deleted *)
LeftOthers(j) == {r \in db.refresh : r.id # j}

(* deleteRefreshTokensForUser *)
Left(j) == {r \in db.refresh : r.user # tokens[j].user}

(* the requests of the user that have not stored their token are "across"  *)
Forget(h) ==
  LET j == slot[h].jti
      u == tokens[j].user
      storing == {g \in Slots : slot[g].pc \in {"verify", "insert", "consume", "store"} /\ slot[g].user = u}
  IN /\ slot[h].pc = "forget"
     /\ db' = [db EXCEPT !.refresh = Left(j)]
     /\ slot' = [g \in Slots |-> IF g = h THEN [slot[g] EXCEPT !.pc = "audit"]
                                 ELSE IF g \in storing THEN [slot[g] EXCEPT !.across = TRUE]
                                 ELSE slot[g]]
     /\ history' = [history EXCEPT !.forgets[u] = @ + 1,
                                   !.ended = @ \cup {r.id : r \in db.refresh \ Left(j)}]
     /\ UNCHANGED <<scenario, server, tokens, client, tab, time>>

(* insertAuditLog, the last step before the answer *)
Audit(h) ==
  LET q == slot[h] IN
  /\ q.pc = "audit"
  /\ Answers(h, IF q.kind = "register" THEN 201 ELSE 200)
  /\ history' = CASE q.kind = "register" -> [history EXCEPT !.registered = @ \cup {<<q.user, q.password>>}]
                  [] q.kind = "logout"   -> [history EXCEPT !.loggedOut = @ \cup {q.jti}]
                  [] OTHER               -> history
  /\ UNCHANGED <<scenario, db, server, tokens, client, tab, time>>

-----------------------------------------------------------------------------
(* Answers.  An API client sends one request at a time. *)
ToClient(x, q) ==
  CASE q.status \in {200, 201} /\ q.kind \in {"login", "register", "refresh"} ->
         [access |-> q.issued, refresh |-> q.issued, lost |-> FALSE]
    [] q.status = 200 /\ q.kind = "logout" -> [x EXCEPT !.access = None, !.refresh = None]
    [] q.status = 401 /\ q.kind = "refresh" -> [x EXCEPT !.refresh = None]
    [] q.status = 500 /\ q.kind = "refresh" -> [x EXCEPT !.lost = TRUE]
    [] OTHER -> x

(* handleLoginSuccess: the login page of a path of its own leaves it by    *)
(* loading another page; any other 401 is an event *)
ToTab(x, q) ==
  CASE q.status \in {200, 201} /\ q.kind \in {"login", "register"} ->
         IF x.path = "login" THEN Loaded("page", q.issued)
         ELSE [x EXCEPT !.token = q.issued, !.path = "page", !.session = TRUE,
                        !.login = FALSE, !.failed = FALSE]
    [] q.status = 401 /\ q.kind = "call" -> [x EXCEPT !.token = None, !.asks = @ + 1]
    [] OTHER -> x

(* a page that is left waits for nothing *)
Abandoned(t) == [h \in Slots |-> IF slot[h].who = t THEN [slot[h] EXCEPT !.who = None] ELSE slot[h]]

Deliver(h) ==
  LET q == slot[h] IN
  /\ q.pc = "answer"
  /\ client' = IF q.who \in Clients THEN [client EXCEPT ![q.who] = ToClient(@, q)] ELSE client
  /\ tab' = IF q.who \in Tabs THEN [tab EXCEPT ![q.who] = ToTab(@, q)] ELSE tab
  /\ slot' = [(IF q.who \in Tabs /\ tab'[q.who].boot THEN Abandoned(q.who) ELSE slot)
              EXCEPT ![h] = Idle]
  /\ UNCHANGED <<scenario, db, server, tokens, time, history>>

-----------------------------------------------------------------------------
(* The frontend of a tab. *)
Shows(t, path) == ~tab[t].boot /\ tab[t].path = path
PageShown(t) == Shows(t, "page") /\ ~tab[t].login
LoginShown(t) == Shows(t, "login") \/ (Shows(t, "page") /\ tab[t].login)

(* GET /auth/status when the page is loaded *)
Booted(t) ==
  /\ tab[t].boot
  /\ tab' = [tab EXCEPT ![t].boot = FALSE, ![t].login = tab[t].token = None]
  /\ UNCHANGED <<scenario, db, server, tokens, slot, client, time, history>>

(* the toolbar stays *)
SignedOutLater(x) == [x EXCEPT !.login = TRUE, !.failed = FALSE]

SignedOut(x) == [x EXCEPT !.login = TRUE, !.session = FALSE, !.failed = FALSE]

(* GET /auth/status after a 401; whatever token the tab has by now *)
Unauthorized(t) ==
  /\ tab[t].asks > 0
  /\ tab' = [tab EXCEPT ![t] = [SignedOut(tab[t]) EXCEPT !.asks = @ - 1]]
  /\ UNCHANGED <<scenario, db, server, tokens, slot, client, time, history>>

(* the login page of a tab that has a token goes on to the page *)
Redirect(t) ==
  /\ Shows(t, "login") /\ tab[t].token # None
  /\ tab' = [tab EXCEPT ![t] = Loaded("page", @.token)]
  /\ slot' = Abandoned(t)
  /\ UNCHANGED <<scenario, db, server, tokens, client, time, history>>

(* the button of a form is disabled while it is submitted *)
Submit(h, s, t) ==
  /\ ~Waits(t, {"login", "register"})
  /\ \/ LoginShown(t) /\ Login(h, s, t)
     \/ Shows(t, "register") /\ Register(h, s, t)

TabCall(h, s, t) ==
  PageShown(t) /\ \E r \in scenario.routes : Receives(h, s, t, "call", tab[t].token, r)

(* logout and handleLogout: no server is told *)
TabLogout(t) ==
  /\ PageShown(t) /\ tab[t].session /\ tab[t].asks = 0
  /\ tab' = [tab EXCEPT ![t] = Loaded("login", None)]
  /\ slot' = Abandoned(t)
  /\ UNCHANGED <<scenario, db, server, tokens, client, time, history>>

-----------------------------------------------------------------------------
Fault == scenario.faults > 0 /\ scenario' = [scenario EXCEPT !.faults = @ - 1]

StatusFails(t) ==
  /\ tab[t].boot \/ tab[t].asks > 0
  /\ Fault
  /\ tab' = [tab EXCEPT ![t] = IF tab[t].boot THEN [tab[t] EXCEPT !.boot = FALSE, !.failed = TRUE]
                               ELSE [tab[t] EXCEPT !.asks = @ - 1, !.failed = TRUE]]
  /\ UNCHANGED <<db, server, tokens, slot, client, time, history>>

(* the database refuses what a handler asks: 500, with what was done kept  *)
HandlerFails(h) ==
  /\ slot[h].pc \in {"verify", "insert", "consume", "store", "revoke", "forget", "audit"}
  /\ Fault
  /\ Answers(h, 500)
  /\ UNCHANGED <<db, server, tokens, client, tab, time, history>>

(* an API client gives up waiting, and may send the request again *)
GiveUp(h) ==
  /\ slot[h].who \in Clients
  /\ Fault
  /\ slot' = [slot EXCEPT ![h].who = None]
  /\ client' = [client EXCEPT ![slot[h].who].lost = @ \/ slot[h].kind = "refresh"]
  /\ UNCHANGED <<db, server, tokens, tab, time, history>>

(* A process dies.  An error of the revocation check ends it too: nothing  *)
(* catches what is thrown before the routes. *)
Crash(s) ==
  LET hs == {h \in Slots : slot[h].at = s /\ slot[h].pc # "answer"} IN
  /\ server[s].stage # "down" /\ Fault
  /\ server' = [server EXCEPT ![s] = Fresh]
  /\ slot' = [h \in Slots |-> IF h \in hs THEN Idle ELSE slot[h]]
  /\ client' = [c \in Clients |-> [client[c] EXCEPT !.lost =
                  @ \/ \E h \in hs : slot[h].who = c /\ slot[h].kind = "refresh"]]
  /\ history' = [history EXCEPT !.accepted[s] = NothingAccepted]
  /\ UNCHANGED <<db, tokens, tab, time>>

Advance ==
  /\ scenario.clock /\ time < MaxTime
  /\ time' = time + 1
  /\ UNCHANGED <<scenario, db, server, tokens, slot, client, tab, history>>

-----------------------------------------------------------------------------
Handles(h) ==
  \/ Verify(h) \/ Insert(h) \/ Consume(h) \/ Store(h) \/ Check(h)
  \/ Revoke(h) \/ Forget(h) \/ Audit(h) \/ Deliver(h) \/ HandlerFails(h) \/ GiveUp(h)
Asks(h, s, c) ==
  /\ ~Waits(c, Kinds)
  /\ Login(h, s, c) \/ Register(h, s, c) \/ Refresh(h, s, c) \/ ClientCall(h, s, c) \/ ClientLogout(h, s, c)
Browses(t) == Booted(t) \/ Unauthorized(t) \/ Redirect(t) \/ TabLogout(t) \/ StatusFails(t)

Next ==
  \/ \E s \in scenario.servers : StartUp(s) \/ InsertDefault(s) \/ Crash(s)
  \/ \E h \in Slots :
       \/ Handles(h)
       \/ \E s \in scenario.servers :
            \/ \E c \in Clients \cap scenario.senders : Asks(h, s, c)
            \/ \E t \in Tabs \cap scenario.senders : Submit(h, s, t) \/ TabCall(h, s, t)
  \/ \E t \in Tabs \cap scenario.senders : Browses(t)
  \/ Advance

Spec == Init /\ [][Next]_vars
-----------------------------------------------------------------------------
(* The variables have their types: a refresh token has a user and an       *)
(* identity of its own, and no window counts more than its limit. *)
TypeOK ==
  /\ db.accounts \in [Users -> Passwords \cup {DefaultPassword, None}]
  /\ db.revoked \subseteq DOMAIN tokens
  /\ \A r, q \in db.refresh : r.id \in DOMAIN tokens /\ tokens[r.id].user = r.user
                               /\ (r.id = q.id => r = q)
  /\ \A s \in Servers :
       /\ server[s].stage \in {"down", "inserting", "up"} /\ server[s].revoked \subseteq DOMAIN tokens
       /\ \A c \in Senders : LET b == server[s].bucket[c] IN b # None => b.count \in 1 .. scenario.limit
  /\ \A c \in Clients : {client[c].access, client[c].refresh} \subseteq DOMAIN tokens \cup {None}
  /\ \A t \in Tabs : /\ tab[t].token \in DOMAIN tokens \cup {None} /\ tab[t].asks \in Nat
                      /\ tab[t].path \in {"page", "login", "register"}

(* A request that arrives after the logout of its token was answered is    *)
(* not served, by whichever process, restarted or not; one that was being  *)
(* checked may be (users.ts:17). *)
RevokedStaysOut ==
  \A h \in Slots : slot[h].pc = "answer" /\ slot[h].kind \in {"call", "logout"} /\ slot[h].late =>
    slot[h].status \in {401, 403}

(* A request is refused as unauthorized only when it had no token, or its  *)
(* token had expired, or its own logout had begun: logging out one session *)
(* leaves the access tokens of the others (http.ts:137). *)
LiveTokenServed ==
  \A h \in Slots : slot[h].pc = "answer" /\ slot[h].kind \in {"call", "logout"} /\ slot[h].status = 401 =>
    \/ slot[h].jti = None \/ tokens[slot[h].jti].exp <= time
    \/ slot[h].jti \in history.revoking

(* However often a refresh token is presented, on one process or several,  *)
(* one new pair of tokens comes of it (users.ts:48). *)
RefreshOnce == \A e, f \in history.pairs : e[1] = f[1] => e = f

(* A client that was answered keeps its session: the refresh token it got  *)
(* last stays until a logout of its user, whatever the other sessions do - *)
(* unless a refresh of its own was cut short between the deletion of the   *)
(* old token and the answer (routes/auth.ts:177). *)
SessionKept ==
  \A c \in Clients : LET r == client[c].refresh IN
    r # None /\ ~client[c].lost /\ ~Waits(c, Kinds) =>
      (\E e \in db.refresh : e.id = r) \/ r \in history.ended

(* A logout ends the refresh tokens of all sessions of its user; the ones  *)
(* that survive it were being stored by a login or a refresh in flight     *)
(* while they were deleted (routes/auth.ts:215). *)
LogoutEndsSessions ==
  \A r \in db.refresh : r.across \/ r.since = history.forgets[r.user]

(* A registration that was answered holds: whoever asks for the same name  *)
(* at the same time, and whichever process makes the default account, its  *)
(* password stays (users.ts:79). *)
PasswordKept == \A e \in history.registered : db.accounts[e[1]] = e[2]

(* the requests served from t until v, each a minute and a number in it *)
Served(accepted, t, v) ==
  {e \in (0 .. MaxTime) \X (1 .. 2 * scenario.limit) :
     t <= e[1] /\ e[1] < v /\ e[2] <= accepted[e[1]]}

(* In no stretch of one window's length does a process serve an address    *)
(* more than twice its limit less one; every process counts on its own and *)
(* forgets when it restarts (security.ts:133). *)
RateBounded ==
  scenario.limit > 0 =>
    \A s \in Servers, c \in Senders, t \in 0 .. MaxTime :
      Cardinality(Served(history.accepted[s][c], t, t + Window)) <= 2 * scenario.limit - 1

(* With scopes enforced, a token whose scopes only read is never served a  *)
(* route that changes what is stored (auth.ts:270). *)
ReadOnlyChangesNothing ==
  \A h \in Slots :
    /\ slot[h].pc = "answer" /\ slot[h].kind = "call" /\ slot[h].status = 200
    /\ scenario.rbac /\ Changes(slot[h].route)
    => tokens[slot[h].jti].scopes \cap {"*", "designer:write", "credentials:write", "workflows:write"} # {}

(* A tab that shows a page and its toolbar has a token, or is about to ask *)
(* for the login page, or could not learn whether one is needed.  The      *)
(* converse fails: a late 401 of an older request drops the new token, and *)
(* a late status hides the page of a tab that has one (app.tsx:45). *)
ScreenHonest ==
  \A t \in Tabs : Shows(t, "page") /\ (~tab[t].login \/ tab[t].session) =>
    tab[t].token # None \/ tab[t].asks > 0 \/ tab[t].failed

(* A token opens what it should, as long as it should: not after a logout, *)
(* not before its expiry refused, and no more than its scopes.             *)
AccessHonest == RevokedStaysOut /\ LiveTokenServed /\ ReadOnlyChangesNothing

(* What a user was told survives the races of the others: a session has    *)
(* one successor and is kept, and so is the password.                      *)
SessionsKept == TypeOK /\ RefreshOnce /\ SessionKept /\ PasswordKept
=============================================================================
