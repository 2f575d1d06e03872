---------------------------- MODULE SessionsProofs ----------------------------
(***************************************************************************)
(* What users are promised of their sessions, for any number of servers,   *)
(* requests, clients and tabs, any lifetimes and any limit.                *)
(***************************************************************************)
EXTENDS Sessions, FiniteSetTheorems, SequenceTheorems, WellFoundedInduction, TLAPS

-----------------------------------------------------------------------------
(* Types.  n is the number of access tokens issued. *)
AllUsers == Users \cup {EnvUser}
Jtis(n) == 1 .. n
Stages == {"idle", "verify", "insert", "consume", "store", "check", "revoke", "forget", "audit", "answer"}
ScenarioType ==
  [servers : SUBSET Servers, accounts : [Users -> Passwords \cup {None}],
   default : Users \cup {None}, rbac : BOOLEAN, scopes : (SUBSET (Scopes \cup {"*"})) \ {{}},
   limit : Nat, requests : [Kinds -> Nat], senders : SUBSET Senders,
   routes : SUBSET (ProtectedRoutes \ {Logout}), path : {"page", "login", "register"},
   signedIn : [Senders -> 0 .. MaxTokens], clock : BOOLEAN, faults : Nat]
RefreshType(n) == [id : Jtis(n), user : AllUsers, exp : Nat, since : Nat, across : BOOLEAN]
DbType(n) ==
  [accounts : [Users -> Passwords \cup {DefaultPassword, None}],
   refresh : SUBSET RefreshType(n), revoked : SUBSET Jtis(n)]
Bucket == [count : Nat, resetAt : Nat]
ServerType(n) ==
  [stage : {"down", "inserting", "up"}, revoked : SUBSET Jtis(n), bucket : [Senders -> Bucket \cup {None}]]
TokenType == [user : AllUsers, exp : Nat, scopes : SUBSET (Scopes \cup {"*"})]
RequestType(n) ==
  [pc : Stages, at : Servers \cup {None}, from : Senders \cup {None}, who : Senders \cup {None},
   kind : Kinds \cup {None}, status : Nat, user : AllUsers \cup {None},
   password : Passwords \cup {EnvPassword, None}, parent : Jtis(n) \cup {None},
   issued : Jtis(n) \cup {None}, since : Nat, across : BOOLEAN, jti : Jtis(n) \cup {None},
   route : ProtectedRoutes \cup {None}, late : BOOLEAN]
ClientType(n) == [access : Jtis(n) \cup {None}, refresh : Jtis(n) \cup {None}, lost : BOOLEAN]
TabType(n) ==
  [path : {"page", "login", "register"}, boot : BOOLEAN, token : Jtis(n) \cup {None},
   session : BOOLEAN, login : BOOLEAN, asks : Nat, failed : BOOLEAN]
AcceptedType == [Servers -> [Senders -> [0 .. MaxTime -> Nat]]]
HistoryType(n) ==
  [registered : SUBSET (Users \X Passwords), revoking : SUBSET Jtis(n), loggedOut : SUBSET Jtis(n),
   ended : SUBSET Jtis(n), pairs : SUBSET (Jtis(n) \X Jtis(n)), forgets : [AllUsers -> Nat],
   accepted : AcceptedType]

(* what a request may be doing, by its kind *)
Sensible(q) ==
  /\ q.pc = "idle" => q = Idle
  /\ q.pc # "idle" => q.at \in Servers /\ q.from \in Senders /\ q.kind \in Kinds
  /\ q.pc = "verify" => q.kind = "login"
  /\ q.pc = "insert" => q.kind = "register"
  /\ q.pc = "consume" => q.kind = "refresh"
  /\ q.pc = "store" => q.kind \in {"register", "login", "refresh"} /\ q.issued # None
  /\ q.pc = "check" => q.kind \in {"call", "logout"} /\ q.jti # None
  /\ q.pc \in {"revoke", "forget"} => q.kind = "logout" /\ q.jti # None
  /\ q.pc = "audit" => q.kind \in {"register", "login", "logout"}
  /\ q.pc = "audit" /\ q.kind = "logout" => q.jti # None
  /\ q.pc = "audit" /\ q.kind # "logout" => q.issued # None
  /\ q.kind \in {"register", "login", "refresh"} => q.user \in AllUsers
  /\ q.kind = "register" => q.user \in Users /\ q.password \in Passwords
  /\ q.kind = "refresh" => q.parent # None
  /\ q.kind # "refresh" => q.parent = None
  /\ q.kind \in {"call", "logout"} => q.route \in ProtectedRoutes
  /\ q.pc \in {"verify", "insert", "consume"} => q.issued = None

N == Len(tokens)
TypeInv ==
  /\ tokens \in Seq(TokenType)
  /\ scenario \in ScenarioType
  /\ db \in DbType(N)
  /\ server \in [Servers -> ServerType(N)]
  /\ slot \in [Slots -> RequestType(N)]
  /\ \A h \in Slots : Sensible(slot[h])
  /\ client \in [Clients -> ClientType(N)]
  /\ tab \in [Tabs -> TabType(N)]
  /\ time \in 0 .. MaxTime
  /\ history \in HistoryType(N)

-----------------------------------------------------------------------------
(* One request, changed. *)

(* what never changes while a request is answered *)
Alike(q, r) ==
  /\ r.at = q.at /\ r.from = q.from /\ r.kind = q.kind /\ r.user = q.user
  /\ r.password = q.password /\ r.parent = q.parent /\ r.since = q.since
  /\ r.jti = q.jti /\ r.route = q.route /\ r.late = q.late

Staged(q, pc) == [q EXCEPT !.pc = pc]
Storing(q, i) == [q EXCEPT !.pc = "store", !.issued = i]
Crossed(q) == [q EXCEPT !.across = TRUE]
Unawaited(q) == [q EXCEPT !.who = None]
WithAccount(q, u, p, k) == [q EXCEPT !.user = u, !.password = p, !.since = k]
WithParent(q, u, i, k) == [q EXCEPT !.user = u, !.parent = i, !.since = k]
WithRoute(q, j, route) == [q EXCEPT !.jti = j, !.route = route]
WithLate(q, late) == [q EXCEPT !.late = late]

LEMMA AnswerEffect ==
  ASSUME NEW n \in Nat, NEW q \in RequestType(n), NEW status \in Nat,
         NEW r, r = Answer(q, status)
  PROVE  /\ r \in RequestType(n) /\ Alike(q, r) /\ r.who = q.who /\ r.across = q.across
         /\ r.issued = q.issued /\ r.status = status /\ r.pc = "answer"
<1>1. r \in RequestType(n) BY ZenonT(40) DEF Answer, RequestType, Stages
<1>2. Alike(q, r) BY DEF Answer, RequestType, Alike
<1>3. r.who = q.who /\ r.across = q.across BY DEF Answer, RequestType
<1>4. r.issued = q.issued /\ r.status = status /\ r.pc = "answer" BY DEF Answer, RequestType
<1> QED BY <1>1, <1>2, <1>3, <1>4

LEMMA StageEffect ==
  ASSUME NEW n \in Nat, NEW q \in RequestType(n), NEW pc \in Stages,
         NEW r, r = Staged(q, pc)
  PROVE  /\ r \in RequestType(n) /\ Alike(q, r) /\ r.who = q.who /\ r.across = q.across
         /\ r.issued = q.issued /\ r.status = q.status /\ r.pc = pc
<1>1. r \in RequestType(n) BY ZenonT(40) DEF Staged, RequestType, Stages
<1>2. Alike(q, r) BY DEF Staged, RequestType, Alike
<1>3. r.who = q.who /\ r.across = q.across BY DEF Staged, RequestType
<1>4. r.issued = q.issued /\ r.status = q.status /\ r.pc = pc BY DEF Staged, RequestType
<1> QED BY <1>1, <1>2, <1>3, <1>4

LEMMA IssuedEffect ==
  ASSUME NEW n \in Nat, NEW q \in RequestType(n), NEW i \in Jtis(n),
         NEW r, r = Storing(q, i)
  PROVE  /\ r \in RequestType(n) /\ Alike(q, r) /\ r.who = q.who /\ r.across = q.across
         /\ r.issued = i /\ r.status = q.status /\ r.pc = "store"
<1>1. r \in RequestType(n) BY ZenonT(40) DEF Storing, RequestType, Stages
<1>2. Alike(q, r) BY DEF Storing, RequestType, Alike
<1>3. r.who = q.who /\ r.across = q.across BY DEF Storing, RequestType
<1>4. r.issued = i /\ r.status = q.status /\ r.pc = "store" BY DEF Storing, RequestType
<1> QED BY <1>1, <1>2, <1>3, <1>4

LEMMA AcrossEffect ==
  ASSUME NEW n \in Nat, NEW q \in RequestType(n),
         NEW r, r = Crossed(q)
  PROVE  /\ r \in RequestType(n) /\ Alike(q, r) /\ r.who = q.who /\ r.across
         /\ r.issued = q.issued /\ r.status = q.status /\ r.pc = q.pc
<1>1. r \in RequestType(n) BY ZenonT(40) DEF Crossed, RequestType, Stages
<1>2. Alike(q, r) BY DEF Crossed, RequestType, Alike
<1>3. r.who = q.who /\ r.across BY DEF Crossed, RequestType
<1>4. r.issued = q.issued /\ r.status = q.status /\ r.pc = q.pc BY DEF Crossed, RequestType
<1> QED BY <1>1, <1>2, <1>3, <1>4

LEMMA WhoEffect ==
  ASSUME NEW n \in Nat, NEW q \in RequestType(n),
         NEW r, r = Unawaited(q)
  PROVE  /\ r \in RequestType(n) /\ Alike(q, r) /\ r.who = None /\ r.across = q.across
         /\ r.issued = q.issued /\ r.status = q.status /\ r.pc = q.pc
<1>1. r \in RequestType(n) BY DEF Unawaited, RequestType, Stages
<1>2. Alike(q, r) BY DEF Unawaited, RequestType, Alike
<1>3. r.who = None /\ r.across = q.across BY DEF Unawaited, RequestType
<1>4. r.issued = q.issued /\ r.status = q.status /\ r.pc = q.pc BY DEF Unawaited, RequestType
<1> QED BY <1>1, <1>2, <1>3, <1>4

LEMMA IdleType == ASSUME NEW n \in Nat PROVE Idle \in RequestType(n) /\ Sensible(Idle)
<1>1. Idle \in RequestType(n) BY DEF RequestType, Idle, Stages
<1>2. Sensible(Idle) BY NamesAssumption DEF Idle, Sensible, Kinds
<1> QED BY <1>1, <1>2

LEMMA SentType ==
  ASSUME NEW n \in Nat, NEW pc \in Stages, NEW s \in Servers, NEW c \in Senders, NEW kind \in Kinds
  PROVE  Request(pc, s, c, kind) \in RequestType(n)
<1>1. Idle \in RequestType(n) BY IdleType
<1> QED BY <1>1 DEF Request, RequestType

LEMMA SentEffect ==
  ASSUME NEW pc, NEW s, NEW c, NEW kind, NEW r, r = Request(pc, s, c, kind)
  PROVE  /\ r.pc = pc /\ r.at = s /\ r.from = c /\ r.who = c
         /\ r.kind = kind /\ r.status = 0 /\ r.user = None /\ r.password = None
         /\ r.parent = None /\ r.issued = None /\ r.since = 0 /\ ~r.across
         /\ r.jti = None /\ r.route = None /\ ~r.late
<1>1. /\ r.pc = pc /\ r.at = s /\ r.from = c /\ r.who = c
      /\ r.kind = kind /\ r.status = 0 /\ r.user = None /\ r.password = None
  BY DEF Request, Idle
<1>2. /\ r.parent = None /\ r.issued = None /\ r.since = 0 /\ ~r.across
      /\ r.jti = None /\ r.route = None /\ ~r.late
  BY DEF Request, Idle
<1> QED BY <1>1, <1>2

LEMMA LoginEffect ==
  ASSUME NEW n \in Nat, NEW q \in RequestType(n), NEW u \in AllUsers,
         NEW p \in Passwords \cup {EnvPassword}, NEW k \in Nat,
         NEW r, r = WithAccount(q, u, p, k)
  PROVE  /\ r \in RequestType(n) /\ r.pc = q.pc /\ r.at = q.at /\ r.from = q.from /\ r.who = q.who
         /\ r.kind = q.kind /\ r.user = u /\ r.password = p /\ r.since = k /\ r.across = q.across
         /\ r.parent = q.parent /\ r.issued = q.issued /\ r.jti = q.jti /\ r.late = q.late
         /\ r.status = q.status
<1>1. r \in RequestType(n) BY DEF WithAccount, RequestType
<1>2. /\ r.pc = q.pc /\ r.at = q.at /\ r.from = q.from /\ r.who = q.who
      /\ r.kind = q.kind /\ r.user = u /\ r.password = p /\ r.since = k /\ r.across = q.across
  BY DEF WithAccount, RequestType
<1>3. /\ r.parent = q.parent /\ r.issued = q.issued /\ r.jti = q.jti /\ r.late = q.late
      /\ r.status = q.status
  BY DEF WithAccount, RequestType
<1> QED BY <1>1, <1>2, <1>3

(* Types grow with the tokens issued.                                      *)
LEMMA Grows ==
  ASSUME NEW n \in Nat, NEW m \in Nat, n <= m
  PROVE  /\ DbType(n) \subseteq DbType(m) /\ ServerType(n) \subseteq ServerType(m)
         /\ RequestType(n) \subseteq RequestType(m) /\ ClientType(n) \subseteq ClientType(m)
         /\ TabType(n) \subseteq TabType(m) /\ HistoryType(n) \subseteq HistoryType(m)
<1>0. Jtis(n) \subseteq Jtis(m) BY DEF Jtis
<1> HIDE DEF Jtis
<1>1. RefreshType(n) \subseteq RefreshType(m) BY <1>0 DEF RefreshType
<1>2. DbType(n) \subseteq DbType(m) BY <1>0, <1>1 DEF DbType
<1>3. ServerType(n) \subseteq ServerType(m) BY <1>0 DEF ServerType
<1>4. RequestType(n) \subseteq RequestType(m) BY <1>0 DEF RequestType
<1>5. ClientType(n) \subseteq ClientType(m) BY <1>0 DEF ClientType
<1>6. TabType(n) \subseteq TabType(m) BY <1>0 DEF TabType
<1>7. HistoryType(n) \subseteq HistoryType(m) BY <1>0 DEF HistoryType
<1> QED BY <1>2, <1>3, <1>4, <1>5, <1>6, <1>7

-----------------------------------------------------------------------------
(* One step of one request. *)
ChangedAt(h) == \A g \in Slots \ {h} : slot'[g] = slot[g]
Kept(q, r) == Alike(q, r) /\ r.who = q.who /\ r.across = q.across

LEMMA Counts == ASSUME TypeInv PROVE N \in Nat /\ DOMAIN tokens = Jtis(N) /\ \A j \in Jtis(N) : tokens[j] \in TokenType
<1>1. tokens \in Seq(TokenType) BY DEF TypeInv
<1> QED BY <1>1 DEF N, Jtis

LEMMA ScenarioParts ==
  ASSUME TypeInv
  PROVE  /\ scenario.servers \subseteq Servers /\ scenario.default \in Users \cup {None}
         /\ scenario.rbac \in BOOLEAN /\ scenario.scopes \subseteq Scopes \cup {"*"}
         /\ scenario.limit \in Nat /\ scenario.requests \in [Kinds -> Nat]
         /\ scenario.senders \subseteq Senders /\ scenario.routes \subseteq ProtectedRoutes
         /\ scenario.faults \in Nat
<1>1. scenario \in ScenarioType BY DEF TypeInv
<1> QED BY <1>1 DEF ScenarioType

LEMMA AnswersKeep ==
  ASSUME TypeInv, NEW h \in Slots, NEW status \in Nat, slot[h].pc # "idle", Answers(h, status)
  PROVE  /\ slot' \in [Slots -> RequestType(N)] /\ \A g \in Slots : Sensible(slot'[g])
         /\ ChangedAt(h) /\ Kept(slot[h], slot'[h]) /\ slot'[h].issued = slot[h].issued
         /\ slot'[h].status = status /\ slot'[h].pc = "answer"
<1>0. N \in Nat BY Counts
<1>1. slot \in [Slots -> RequestType(N)] BY DEF TypeInv
<1>2. slot' = [slot EXCEPT ![h] = Answer(slot[h], status)] BY DEF Answers
<1>3. slot'[h] = Answer(slot[h], status) /\ ChangedAt(h) BY <1>1, <1>2 DEF ChangedAt
<1>4. slot[h] \in RequestType(N) BY <1>1
<1>5. /\ slot'[h] \in RequestType(N) /\ Kept(slot[h], slot'[h]) /\ slot'[h].issued = slot[h].issued
      /\ slot'[h].status = status /\ slot'[h].pc = "answer"
  BY <1>0, <1>3, <1>4, AnswerEffect DEF Kept
<1>6. slot' \in [Slots -> RequestType(N)] BY <1>1, <1>2, <1>3, <1>5
<1>7. Sensible(slot[h]) BY DEF TypeInv
<1>8. Sensible(slot'[h]) BY <1>5, <1>7 DEF Sensible, Kept, Alike
<1>9. \A g \in Slots : Sensible(slot'[g]) BY <1>3, <1>8 DEF TypeInv, ChangedAt
<1> QED BY <1>3, <1>5, <1>6, <1>9

LEMMA IssuesKeep ==
  ASSUME TypeInv, NEW h \in Slots, slot[h].pc \in {"verify", "insert", "consume"}, Issues(h)
  PROVE  /\ tokens' \in Seq(TokenType) /\ N' = N + 1 /\ N' \in Nat
         /\ \A i \in Jtis(N) : tokens'[i] = tokens[i]
         /\ tokens'[N + 1] = [user |-> slot[h].user, exp |-> time + AccessTTL, scopes |-> scenario.scopes]
         /\ slot' \in [Slots -> RequestType(N + 1)] /\ \A g \in Slots : Sensible(slot'[g])
         /\ ChangedAt(h) /\ Kept(slot[h], slot'[h]) /\ slot'[h].issued = N + 1
         /\ slot'[h].status = slot[h].status /\ slot'[h].pc = "store"
<1> DEFINE tok == [user |-> slot[h].user, exp |-> time + AccessTTL, scopes |-> scenario.scopes]
<1>0. N \in Nat /\ N + 1 \in Nat /\ N <= N + 1 /\ N + 1 \in Jtis(N + 1) BY Counts DEF Jtis
<1>1. slot \in [Slots -> RequestType(N)] /\ tokens \in Seq(TokenType) BY DEF TypeInv
<1>7. Sensible(slot[h]) BY DEF TypeInv
<1>10. slot[h].user \in AllUsers BY <1>7 DEF Sensible
<1>11. time + AccessTTL \in Nat BY DurationsAssumption, BoundsAssumption DEF TypeInv
<1>12. tok \in TokenType BY <1>10, <1>11, ScenarioParts DEF TokenType
<1> HIDE DEF tok
<1>13. tokens' = Append(tokens, tok) BY DEF Issues, tok
<1>14. /\ tokens' \in Seq(TokenType) /\ N' = N + 1
       /\ \A i \in Jtis(N) : tokens'[i] = tokens[i]
       /\ tokens'[N + 1] = tok
  BY <1>1, <1>12, <1>13, AppendProperties DEF N, Jtis
<1>2. slot' = [slot EXCEPT ![h] = [slot[h] EXCEPT !.pc = "store", !.issued = N + 1]]
  <2>1. slot' = [slot EXCEPT ![h].pc = "store", ![h].issued = Len(tokens) + 1] BY DEF Issues
  <2> QED BY <1>1, <2>1 DEF N
<1>3. slot'[h] = [slot[h] EXCEPT !.pc = "store", !.issued = N + 1] /\ ChangedAt(h)
  BY <1>1, <1>2 DEF ChangedAt
<1>4. slot[h] \in RequestType(N + 1) /\ slot \in [Slots -> RequestType(N + 1)] BY <1>0, <1>1, Grows
<1>5. /\ slot'[h] \in RequestType(N + 1) /\ Kept(slot[h], slot'[h]) /\ slot'[h].issued = N + 1
      /\ slot'[h].status = slot[h].status /\ slot'[h].pc = "store"
  <2> DEFINE n == N + 1
             q == slot[h]
  <2>1. n \in Nat /\ n \in Jtis(n) /\ q \in RequestType(n) BY <1>0, <1>4
  <2> HIDE DEF n, q
  <2>2. slot'[h] = Storing(q, n) BY <1>3 DEF n, q, Storing
  <2>3. /\ slot'[h] \in RequestType(n) /\ Alike(q, slot'[h]) /\ slot'[h].who = q.who
        /\ slot'[h].across = q.across
        /\ slot'[h].issued = n /\ slot'[h].status = q.status /\ slot'[h].pc = "store"
    BY <2>1, <2>2, IssuedEffect
  <2> QED BY <2>3 DEF Kept, n, q
<1>6. slot' \in [Slots -> RequestType(N + 1)] BY <1>2, <1>3, <1>4, <1>5
<1>8. Sensible(slot'[h])
  <2>1. N + 1 # None BY <1>0, NamesAssumption
  <2> QED BY <1>5, <1>7, <2>1 DEF Sensible, Kept, Alike
<1>9. \A g \in Slots : Sensible(slot'[g]) BY <1>3, <1>8 DEF TypeInv, ChangedAt
<1> QED BY <1>0, <1>3, <1>5, <1>6, <1>9, <1>14 DEF tok

LEMMA StagedKeep ==
  ASSUME TypeInv, NEW h \in Slots, NEW pc \in Stages, slot' = [slot EXCEPT ![h].pc = pc]
  PROVE  /\ slot' \in [Slots -> RequestType(N)]
         /\ ChangedAt(h) /\ Kept(slot[h], slot'[h]) /\ slot'[h].issued = slot[h].issued
         /\ slot'[h].status = slot[h].status /\ slot'[h].pc = pc
<1>0. N \in Nat BY Counts
<1>1. slot \in [Slots -> RequestType(N)] BY DEF TypeInv
<1>2. slot' = [slot EXCEPT ![h] = Staged(slot[h], pc)] BY <1>1 DEF Staged
<1>3. slot'[h] = Staged(slot[h], pc) /\ ChangedAt(h) BY <1>1, <1>2 DEF ChangedAt
<1>4. slot[h] \in RequestType(N) BY <1>1
<1>5. /\ slot'[h] \in RequestType(N) /\ Kept(slot[h], slot'[h]) /\ slot'[h].issued = slot[h].issued
      /\ slot'[h].status = slot[h].status /\ slot'[h].pc = pc
  BY <1>0, <1>3, <1>4, StageEffect DEF Kept
<1>6. slot' \in [Slots -> RequestType(N)] BY <1>1, <1>2, <1>3, <1>5
<1> QED BY <1>3, <1>5, <1>6

(* what a request counted by the rate limiter leaves alone *)
HistoryRest(old, new) ==
  /\ new.registered = old.registered /\ new.revoking = old.revoking /\ new.loggedOut = old.loggedOut
  /\ new.ended = old.ended /\ new.pairs = old.pairs /\ new.forgets = old.forgets

LEMMA HistoryParts ==
  ASSUME TypeInv
  PROVE  /\ history \in HistoryType(N)
         /\ history.registered \subseteq Users \X Passwords /\ history.revoking \subseteq Jtis(N)
         /\ history.loggedOut \subseteq Jtis(N) /\ history.ended \subseteq Jtis(N)
         /\ history.pairs \subseteq Jtis(N) \X Jtis(N) /\ history.forgets \in [AllUsers -> Nat]
         /\ history.accepted \in AcceptedType
<1>1. history \in HistoryType(N) BY DEF TypeInv
<1> QED BY <1>1 DEF HistoryType

LEMMA AcceptedKeep ==
  ASSUME TypeInv, NEW s \in Servers, NEW c \in Senders
  PROVE  /\ Accepted(s, c) \in HistoryType(N) /\ HistoryRest(history, Accepted(s, c))
         /\ Accepted(s, c).accepted =
              IF scenario.limit > 0 THEN [history.accepted EXCEPT ![s][c][time] = @ + 1]
              ELSE history.accepted
<1>1. history \in HistoryType(N) /\ history.accepted \in AcceptedType BY HistoryParts
<1>2. CASE scenario.limit > 0
  <2> DEFINE a == [history.accepted EXCEPT ![s][c][time] = @ + 1]
  <2>1. Accepted(s, c) = [history EXCEPT !.accepted = a]
    BY <1>1, <1>2 DEF Accepted, HistoryType
  <2>2. a \in AcceptedType
    <3> DEFINE f == history.accepted
               k == f[s][c][time] + 1
    <3>1. time \in 0 .. MaxTime BY DEF TypeInv
    <3>2. f \in [Servers -> [Senders -> [0 .. MaxTime -> Nat]]] BY <1>1 DEF AcceptedType
    <3>a. f[s] \in [Senders -> [0 .. MaxTime -> Nat]] BY <3>2
    <3>b. f[s][c] \in [0 .. MaxTime -> Nat] BY <3>a
    <3> HIDE DEF f
    <3>3. f[s][c][time] \in Nat BY <3>1, <3>b
    <3>4. k \in Nat BY <3>3
    <3>5. a = [f EXCEPT ![s][c][time] = k] BY DEF f
    <3> HIDE DEF f, k, a
    <3>6. [f EXCEPT ![s][c][time] = k] \in [Servers -> [Senders -> [0 .. MaxTime -> Nat]]]
      BY <3>1, <3>2, <3>4
    <3> QED BY <3>5, <3>6 DEF AcceptedType
  <2> HIDE DEF a
  <2>3. [history EXCEPT !.accepted = a] \in HistoryType(N) BY <1>1, <2>2 DEF HistoryType
  <2>4. HistoryRest(history, [history EXCEPT !.accepted = a]) /\ [history EXCEPT !.accepted = a].accepted = a
    BY <1>1 DEF HistoryType, HistoryRest
  <2> QED BY <1>2, <2>1, <2>3, <2>4 DEF a
<1>3. CASE ~(scenario.limit > 0)
  BY <1>1, <1>3 DEF Accepted, HistoryRest
<1> QED BY <1>2, <1>3

LEMMA ServerParts ==
  ASSUME TypeInv, NEW s \in Servers
  PROVE  /\ server[s] \in ServerType(N) /\ server[s].stage \in {"down", "inserting", "up"}
         /\ server[s].revoked \subseteq Jtis(N) /\ server[s].bucket \in [Senders -> Bucket \cup {None}]
<1>1. server[s] \in ServerType(N) BY DEF TypeInv
<1> QED BY <1>1 DEF ServerType

LEMMA CountedType ==
  ASSUME TypeInv, NEW s \in Servers, NEW c \in Senders PROVE Counted(s, c) \in Bucket \cup {None}
<1> DEFINE b == server[s].bucket[c]
<1>1. b \in Bucket \cup {None} BY ServerParts
<1>2. time \in Nat /\ Window \in Nat /\ scenario.limit \in Nat
  BY DurationsAssumption, ScenarioParts, BoundsAssumption DEF TypeInv
<1> HIDE DEF b
<1>3. CASE scenario.limit = 0 \/ b = None
  <2>1. [count |-> 1, resetAt |-> time + Window] \in Bucket BY <1>2 DEF Bucket
  <2>2. Counted(s, c) \in {b, [count |-> 1, resetAt |-> time + Window]}
    BY <1>3 DEF Counted, b
  <2> QED BY <1>1, <2>1, <2>2
<1>4. CASE scenario.limit # 0 /\ b # None
  <2>1. b \in Bucket BY <1>1, <1>4
  <2>2. b.count \in Nat /\ b.resetAt \in Nat BY <2>1 DEF Bucket
  <2>3. [count |-> 1, resetAt |-> time + Window] \in Bucket BY <1>2 DEF Bucket
  <2>4. [b EXCEPT !.count = @ + 1] \in Bucket BY <2>1 DEF Bucket
  <2>5. Counted(s, c) \in {b, [count |-> 1, resetAt |-> time + Window], [b EXCEPT !.count = @ + 1]}
    BY <1>2, <2>2 DEF Counted, b
  <2> QED BY <1>1, <2>3, <2>4, <2>5
<1> QED BY <1>3, <1>4

(* the memory of a process but for its rate limiter *)
MemoryRest == \A s \in Servers : server'[s].revoked = server[s].revoked /\ server'[s].stage = server[s].stage

LEMMA ServerEffect ==
  ASSUME NEW n, NEW v \in ServerType(n), NEW b \in [Senders -> Bucket \cup {None}], NEW w, w = [v EXCEPT !.bucket = b]
  PROVE  w \in ServerType(n) /\ w.bucket = b /\ w.revoked = v.revoked /\ w.stage = v.stage
  BY DEF ServerType

LEMMA CountedKeep ==
  ASSUME TypeInv, NEW s \in Servers, NEW c \in Senders, server' = [server EXCEPT ![s].bucket[c] = Counted(s, c)]
  PROVE  /\ server' \in [Servers -> ServerType(N)] /\ MemoryRest
         /\ \A x \in Servers, d \in Senders :
              server'[x].bucket[d] = IF x = s /\ d = c THEN Counted(s, c) ELSE server[x].bucket[d]
<1> DEFINE b == [server[s].bucket EXCEPT ![c] = Counted(s, c)]
           w == [server[s] EXCEPT !.bucket = b]
<1>1. server \in [Servers -> ServerType(N)] /\ server[s] \in ServerType(N)
      /\ server[s].bucket \in [Senders -> Bucket \cup {None}]
  BY ServerParts DEF TypeInv
<1>2. b \in [Senders -> Bucket \cup {None}] BY <1>1, CountedType
<1>3. server' = [server EXCEPT ![s] = w] BY <1>1 DEF ServerType
<1>b. b[c] = Counted(s, c) /\ \A d \in Senders \ {c} : b[d] = server[s].bucket[d] BY <1>1
<1> HIDE DEF b
<1>4. w \in ServerType(N) /\ w.bucket = b /\ w.revoked = server[s].revoked /\ w.stage = server[s].stage
  BY <1>1, <1>2, ServerEffect
<1> HIDE DEF w
<1>5. server'[s] = w /\ \A x \in Servers \ {s} : server'[x] = server[x] BY <1>1, <1>3
<1>6. server' \in [Servers -> ServerType(N)] BY <1>1, <1>3, <1>4
<1>7. MemoryRest BY <1>4, <1>5 DEF MemoryRest
<1>8. ASSUME NEW x \in Servers, NEW d \in Senders
      PROVE  server'[x].bucket[d] = IF x = s /\ d = c THEN Counted(s, c) ELSE server[x].bucket[d]
  <2>1. CASE x = s BY <1>4, <1>5, <1>b, <2>1
  <2>2. CASE x # s BY <1>5, <2>2
  <2> QED BY <2>1, <2>2
<1> QED BY <1>6, <1>7, <1>8

(* The scenario but for its requests and faults.                           *)
ScenarioRest ==
  /\ scenario'.servers = scenario.servers /\ scenario'.default = scenario.default
  /\ scenario'.rbac = scenario.rbac /\ scenario'.scopes = scenario.scopes
  /\ scenario'.limit = scenario.limit /\ scenario'.senders = scenario.senders
  /\ scenario'.routes = scenario.routes

LEMMA ScenarioEffect ==
  ASSUME NEW v \in ScenarioType, NEW f \in [Kinds -> Nat], NEW k \in Nat, NEW w,
         w = [v EXCEPT !.requests = f] \/ w = [v EXCEPT !.faults = k]
  PROVE  /\ w \in ScenarioType /\ w.servers = v.servers /\ w.default = v.default /\ w.rbac = v.rbac
         /\ w.scopes = v.scopes /\ w.limit = v.limit /\ w.senders = v.senders /\ w.routes = v.routes
<1>1. CASE w = [v EXCEPT !.requests = f] BY <1>1 DEF ScenarioType
<1>2. CASE w = [v EXCEPT !.faults = k] BY <1>2 DEF ScenarioType
<1> QED BY <1>1, <1>2

LEMMA SendsKeep ==
  ASSUME TypeInv, NEW h \in Slots, NEW s \in Servers, NEW kind \in Kinds, Sends(h, s, kind)
  PROVE  scenario' \in ScenarioType /\ ScenarioRest /\ slot[h].pc = "idle"
<1> DEFINE f == [scenario.requests EXCEPT ![kind] = @ - 1]
<1>1. scenario \in ScenarioType /\ scenario.requests \in [Kinds -> Nat] BY ScenarioParts DEF TypeInv
<1>2. scenario.requests[kind] > 0 BY DEF Sends
<1>3. scenario.requests[kind] \in Nat BY <1>1
<1>4. f \in [Kinds -> Nat] BY <1>1, <1>2, <1>3
<1>5. scenario' = [scenario EXCEPT !.requests = f] BY <1>1 DEF Sends, ScenarioType
<1> HIDE DEF f
<1> QED BY <1>1, <1>4, <1>5, ScenarioEffect DEF ScenarioRest, Sends

LEMMA FaultKeep ==
  ASSUME TypeInv, Fault PROVE scenario' \in ScenarioType /\ ScenarioRest
<1>1. scenario \in ScenarioType /\ scenario.faults \in Nat /\ scenario.requests \in [Kinds -> Nat]
  BY ScenarioParts DEF TypeInv
<1>2. scenario.faults - 1 \in Nat /\ scenario' = [scenario EXCEPT !.faults = scenario.faults - 1]
  BY <1>1 DEF Fault
<1> QED BY <1>1, <1>2, ScenarioEffect DEF ScenarioRest

(* One request changes, the others do not: it is answered, goes on to the  *)
(* next stage, or has got its token. *)
Closed(h, status) ==
  /\ ChangedAt(h) /\ Kept(slot[h], slot'[h]) /\ slot'[h].issued = slot[h].issued
  /\ slot'[h].status = status /\ slot'[h].pc = "answer"
Moved(h, pc) ==
  /\ ChangedAt(h) /\ Kept(slot[h], slot'[h]) /\ slot'[h].issued = slot[h].issued
  /\ slot'[h].status = slot[h].status /\ slot'[h].pc = pc
Granted(h) ==
  /\ ChangedAt(h) /\ Kept(slot[h], slot'[h]) /\ slot'[h].issued = N + 1
  /\ slot'[h].status = slot[h].status /\ slot'[h].pc = "store"
TokensKept == N' \in Nat /\ N <= N' /\ \A i \in Jtis(N) : tokens'[i] = tokens[i]
TokenAdded == N' = N + 1

LEMMA TypesSame ==
  ASSUME TypeInv, tokens' = tokens
  PROVE  /\ N' = N /\ tokens' \in Seq(TokenType) /\ TokensKept
         /\ scenario' = scenario => scenario' \in ScenarioType
         /\ db' = db => db' \in DbType(N)
         /\ server' = server => server' \in [Servers -> ServerType(N)]
         /\ slot' = slot => slot' \in [Slots -> RequestType(N)] /\ \A h \in Slots : Sensible(slot'[h])
         /\ client' = client => client' \in [Clients -> ClientType(N)]
         /\ tab' = tab => tab' \in [Tabs -> TabType(N)]
         /\ time' = time => time' \in 0 .. MaxTime
         /\ history' = history => history' \in HistoryType(N)
<1>1. N' = N /\ N \in Nat BY Counts DEF N
<1> QED BY <1>1 DEF TypeInv, TokensKept

LEMMA TypesGrow ==
  ASSUME TypeInv, N' = N + 1
  PROVE  /\ scenario' = scenario => scenario' \in ScenarioType
         /\ db \in DbType(N')
         /\ server' = server => server' \in [Servers -> ServerType(N')]
         /\ client' = client => client' \in [Clients -> ClientType(N')]
         /\ tab' = tab => tab' \in [Tabs -> TabType(N')]
         /\ time' = time => time' \in 0 .. MaxTime
         /\ history' = history => history' \in HistoryType(N')
<1> DEFINE m == N'
<1>1. N \in Nat /\ m \in Nat /\ N <= m BY Counts
<1> HIDE DEF m
<1>2. /\ DbType(N) \subseteq DbType(m) /\ ServerType(N) \subseteq ServerType(m)
      /\ ClientType(N) \subseteq ClientType(m)
      /\ TabType(N) \subseteq TabType(m) /\ HistoryType(N) \subseteq HistoryType(m)
  BY <1>1, Grows
<1>3. /\ scenario' = scenario => scenario' \in ScenarioType
      /\ db \in DbType(m)
      /\ server' = server => server' \in [Servers -> ServerType(m)]
      /\ client' = client => client' \in [Clients -> ClientType(m)]
      /\ tab' = tab => tab' \in [Tabs -> TabType(m)]
      /\ time' = time => time' \in 0 .. MaxTime
      /\ history' = history => history' \in HistoryType(m)
  BY <1>2 DEF TypeInv
<1> QED BY <1>3 DEF m

LEMMA DbParts ==
  ASSUME TypeInv
  PROVE  /\ db \in DbType(N) /\ db.accounts \in [Users -> Passwords \cup {DefaultPassword, None}]
         /\ db.refresh \subseteq RefreshType(N) /\ db.revoked \subseteq Jtis(N)
         /\ \A r \in db.refresh : /\ r.id \in Jtis(N) /\ r.user \in AllUsers /\ r.exp \in Nat
                                  /\ r.since \in Nat /\ r.across \in BOOLEAN
<1>1. db \in DbType(N) BY DEF TypeInv
<1>2. db.refresh \subseteq RefreshType(N) BY <1>1 DEF DbType
<1> QED BY <1>1, <1>2 DEF DbType, RefreshType

LEMMA SlotParts ==
  ASSUME TypeInv, NEW h \in Slots
  PROVE  /\ slot[h] \in RequestType(N) /\ Sensible(slot[h])
         /\ slot[h].pc \in Stages /\ slot[h].at \in Servers \cup {None} /\ slot[h].from \in Senders \cup {None}
         /\ slot[h].who \in Senders \cup {None} /\ slot[h].kind \in Kinds \cup {None} /\ slot[h].status \in Nat
         /\ slot[h].parent \in Jtis(N) \cup {None} /\ slot[h].issued \in Jtis(N) \cup {None}
         /\ slot[h].since \in Nat /\ slot[h].across \in BOOLEAN /\ slot[h].jti \in Jtis(N) \cup {None}
         /\ slot[h].route \in ProtectedRoutes \cup {None} /\ slot[h].late \in BOOLEAN
         /\ slot[h].user \in AllUsers \cup {None}
<1>1. slot[h] \in RequestType(N) /\ Sensible(slot[h]) BY DEF TypeInv
<1> QED BY <1>1 DEF RequestType

LEMMA AccountsEffect ==
  ASSUME NEW n, NEW v \in DbType(n), NEW a \in [Users -> Passwords \cup {DefaultPassword, None}],
         NEW w, w = [v EXCEPT !.accounts = a]
  PROVE  w \in DbType(n) /\ w.accounts = a /\ w.refresh = v.refresh /\ w.revoked = v.revoked
  BY DEF DbType

WithRefresh(v, f) == [v EXCEPT !.refresh = f]

LEMMA TokensEffect ==
  ASSUME NEW n, NEW v \in DbType(n), NEW f \in SUBSET RefreshType(n), NEW w, w = WithRefresh(v, f)
  PROVE  w \in DbType(n) /\ w.accounts = v.accounts /\ w.refresh = f /\ w.revoked = v.revoked
  BY DEF DbType, WithRefresh

LEMMA RevokedEffect ==
  ASSUME NEW n, NEW v \in DbType(n), NEW k \in SUBSET Jtis(n), NEW w, w = [v EXCEPT !.revoked = k]
  PROVE  w \in DbType(n) /\ w.accounts = v.accounts /\ w.refresh = v.refresh /\ w.revoked = k
  BY DEF DbType

(* What each step does to its request and to the types.                    *)
LEMMA VerifyEffect ==
  ASSUME TypeInv, NEW h \in Slots, Verify(h)
  PROVE  /\ TypeInv' /\ TokensKept /\ slot[h].pc = "verify"
         /\ (Granted(h) /\ TokenAdded /\ tokens'[N + 1].user = slot[h].user) \/ (Closed(h, 401) /\ tokens' = tokens)
<1>1. CASE Authentic(slot[h].user, slot[h].password)
  <2>1. Issues(h) /\ slot[h].pc = "verify" BY <1>1 DEF Verify
  <2>2. /\ tokens' \in Seq(TokenType) /\ N' = N + 1 /\ N' \in Nat
        /\ \A i \in Jtis(N) : tokens'[i] = tokens[i]
        /\ tokens'[N + 1] = [user |-> slot[h].user, exp |-> time + AccessTTL, scopes |-> scenario.scopes]
        /\ slot' \in [Slots -> RequestType(N + 1)] /\ \A g \in Slots : Sensible(slot'[g])
        /\ ChangedAt(h) /\ Kept(slot[h], slot'[h]) /\ slot'[h].issued = N + 1
        /\ slot'[h].status = slot[h].status /\ slot'[h].pc = "store"
    BY <2>1, IssuesKeep
  <2>3. TypeInv' BY <2>2, TypesGrow DEF Verify, TypeInv
  <2>4. TokensKept BY <2>2, Counts DEF TokensKept
  <2> QED BY <2>1, <2>2, <2>3, <2>4 DEF Granted, TokenAdded
<1>2. CASE ~Authentic(slot[h].user, slot[h].password)
  <2>1. Answers(h, 401) /\ slot[h].pc = "verify" /\ tokens' = tokens BY <1>2 DEF Verify
  <2>2. /\ slot' \in [Slots -> RequestType(N)] /\ \A g \in Slots : Sensible(slot'[g]) /\ Closed(h, 401)
    BY <2>1, AnswersKeep DEF Closed
  <2>3. TypeInv' BY <2>1, <2>2, TypesSame DEF Verify, TypeInv
  <2> QED BY <2>1, <2>2, <2>3, TypesSame
<1> QED BY <1>1, <1>2

LEMMA InsertEffect ==
  ASSUME TypeInv, NEW h \in Slots, Insert(h)
  PROVE  /\ TypeInv' /\ TokensKept /\ slot[h].pc = "insert"
         /\ \/ /\ Granted(h) /\ TokenAdded /\ tokens'[N + 1].user = slot[h].user
               /\ db.accounts[slot[h].user] = None
            \/ Closed(h, 409) /\ tokens' = tokens
         /\ db'.refresh = db.refresh /\ db'.revoked = db.revoked
         /\ \A u \in Users : db'.accounts[u] =
              IF u = slot[h].user /\ db.accounts[u] = None THEN slot[h].password ELSE db.accounts[u]
<1> DEFINE u == slot[h].user
           a == Inserted(db.accounts, u, slot[h].password)
<1>1. slot[h].pc = "insert" BY DEF Insert
<1>2. u \in Users /\ slot[h].password \in Passwords
  <2>1. Sensible(slot[h]) BY SlotParts
  <2> QED BY <1>1, <2>1 DEF Sensible
<1>3. /\ a \in [Users -> Passwords \cup {DefaultPassword, None}]
      /\ \A x \in Users : a[x] = IF x = u /\ db.accounts[x] = None THEN slot[h].password ELSE db.accounts[x]
  BY <1>2, DbParts DEF Inserted
<1>4. db' = [db EXCEPT !.accounts = a]
  <2>1. db' = [db EXCEPT !.accounts = Inserted(@, u, slot[h].password)] BY DEF Insert
  <2> QED BY <2>1, DbParts DEF DbType
<1> HIDE DEF a
<1>5. db' \in DbType(N) /\ db'.accounts = a /\ db'.refresh = db.refresh /\ db'.revoked = db.revoked
  BY <1>3, <1>4, DbParts, AccountsEffect
<1>6. CASE db.accounts[u] = None
  <2>1. Issues(h) BY <1>6 DEF Insert
  <2>2. /\ tokens' \in Seq(TokenType) /\ N' = N + 1 /\ N' \in Nat
        /\ \A i \in Jtis(N) : tokens'[i] = tokens[i]
        /\ tokens'[N + 1] = [user |-> slot[h].user, exp |-> time + AccessTTL, scopes |-> scenario.scopes]
        /\ slot' \in [Slots -> RequestType(N + 1)] /\ \A g \in Slots : Sensible(slot'[g])
        /\ ChangedAt(h) /\ Kept(slot[h], slot'[h]) /\ slot'[h].issued = N + 1
        /\ slot'[h].status = slot[h].status /\ slot'[h].pc = "store"
    BY <1>1, <2>1, IssuesKeep
  <2>3. db' \in DbType(N')
    <3>1. N \in Nat /\ N <= N' BY <2>2, Counts
    <3> QED BY <1>5, <2>2, <3>1, Grows
  <2>4. TypeInv' BY <2>2, <2>3, TypesGrow DEF Insert, TypeInv
  <2>5. TokensKept BY <2>2, Counts DEF TokensKept
  <2> QED BY <1>1, <1>3, <1>5, <1>6, <2>2, <2>4, <2>5 DEF Granted, TokenAdded
<1>7. CASE db.accounts[u] # None
  <2>1. Answers(h, 409) /\ tokens' = tokens BY <1>7 DEF Insert
  <2>2. /\ slot' \in [Slots -> RequestType(N)] /\ \A g \in Slots : Sensible(slot'[g]) /\ Closed(h, 409)
    BY <1>1, <2>1, AnswersKeep DEF Closed
  <2>3. TypeInv' BY <1>5, <2>1, <2>2, TypesSame DEF Insert, TypeInv
  <2> QED BY <1>1, <1>3, <1>5, <2>1, <2>2, <2>3, TypesSame
<1> QED BY <1>6, <1>7

LEMMA ConsumeEffect ==
  ASSUME TypeInv, NEW h \in Slots, Consume(h)
  PROVE  /\ TypeInv' /\ TokensKept /\ slot[h].pc = "consume"
         /\ \/ /\ Granted(h) /\ TokenAdded /\ tokens'[N + 1].user = slot[h].user
               /\ \E r \in db.refresh : r.id = slot[h].parent
               /\ db'.refresh = {r \in db.refresh : r.id # slot[h].parent}
            \/ Closed(h, 401) /\ tokens' = tokens /\ db' = db
         /\ db'.accounts = db.accounts /\ db'.revoked = db.revoked
<1> DEFINE f == Consumed(slot[h])
<1>1. slot[h].pc = "consume" BY DEF Consume
<1>2. CASE \E r \in db.refresh : r.id = slot[h].parent /\ time < r.exp
  <2>1. Issues(h) /\ db' = WithRefresh(db, f) BY <1>2 DEF Consume, WithRefresh
  <2>2. /\ tokens' \in Seq(TokenType) /\ N' = N + 1 /\ N' \in Nat
        /\ \A i \in Jtis(N) : tokens'[i] = tokens[i]
        /\ tokens'[N + 1] = [user |-> slot[h].user, exp |-> time + AccessTTL, scopes |-> scenario.scopes]
        /\ slot' \in [Slots -> RequestType(N + 1)] /\ \A g \in Slots : Sensible(slot'[g])
        /\ ChangedAt(h) /\ Kept(slot[h], slot'[h]) /\ slot'[h].issued = N + 1
        /\ slot'[h].status = slot[h].status /\ slot'[h].pc = "store"
    BY <1>1, <2>1, IssuesKeep
  <2>3. f \in SUBSET RefreshType(N) BY DbParts DEF Consumed
  <2>4. db' \in DbType(N) /\ db'.accounts = db.accounts /\ db'.refresh = f /\ db'.revoked = db.revoked
    BY <2>1, <2>3, DbParts, TokensEffect
  <2>5. db' \in DbType(N')
    <3>1. N \in Nat /\ N <= N' BY <2>2, Counts
    <3> QED BY <2>2, <2>4, <3>1, Grows
  <2>6. TypeInv' BY <2>2, <2>5, TypesGrow DEF Consume, TypeInv
  <2>7. TokensKept BY <2>2, Counts DEF TokensKept
  <2> QED BY <1>1, <1>2, <2>2, <2>4, <2>6, <2>7 DEF Granted, TokenAdded, Consumed
<1>3. CASE ~(\E r \in db.refresh : r.id = slot[h].parent /\ time < r.exp)
  <2>1. Answers(h, 401) /\ tokens' = tokens /\ db' = db BY <1>3 DEF Consume
  <2>2. /\ slot' \in [Slots -> RequestType(N)] /\ \A g \in Slots : Sensible(slot'[g]) /\ Closed(h, 401)
    BY <1>1, <2>1, AnswersKeep DEF Closed
  <2>3. TypeInv' BY <2>1, <2>2, TypesSame DEF Consume, TypeInv
  <2> QED BY <1>1, <2>1, <2>2, <2>3, TypesSame
<1> QED BY <1>2, <1>3

LEMMA StoreEffect ==
  ASSUME TypeInv, NEW h \in Slots, Store(h)
  PROVE  /\ TypeInv' /\ TokensKept /\ N' = N /\ slot[h].pc = "store"
         /\ db'.accounts = db.accounts /\ db'.revoked = db.revoked
         /\ \E r : /\ db'.refresh = db.refresh \cup {r} /\ r.id = slot[h].issued /\ r.user = slot[h].user
                   /\ r.since = slot[h].since /\ r.across = slot[h].across
         /\ \/ /\ slot[h].kind = "refresh" /\ Closed(h, 200)
               /\ history'.pairs = history.pairs \cup {<<slot[h].parent, slot[h].issued>>}
            \/ slot[h].kind # "refresh" /\ Moved(h, "audit") /\ history'.pairs = history.pairs
         /\ history'.registered = history.registered /\ history'.revoking = history.revoking
         /\ history'.loggedOut = history.loggedOut /\ history'.ended = history.ended
         /\ history'.forgets = history.forgets /\ history'.accepted = history.accepted
<1> DEFINE r == [id |-> slot[h].issued, user |-> slot[h].user, exp |-> time + RefreshTTL,
                 since |-> slot[h].since, across |-> slot[h].across]
           f == db.refresh \cup {r}
<1>1. slot[h].pc = "store" /\ tokens' = tokens BY DEF Store
<1>2. slot[h].issued \in Jtis(N) /\ slot[h].kind \in {"register", "login", "refresh"} /\ slot[h].user \in AllUsers
      /\ (slot[h].kind = "refresh" => slot[h].parent \in Jtis(N))
  BY <1>1, SlotParts DEF Sensible
<1>3. r \in RefreshType(N)
  <2>1. time + RefreshTTL \in Nat BY DurationsAssumption, BoundsAssumption DEF TypeInv
  <2> QED BY <1>2, <2>1, SlotParts DEF RefreshType
<1>4. r.id = slot[h].issued /\ r.user = slot[h].user /\ r.since = slot[h].since /\ r.across = slot[h].across
  OBVIOUS
<1>5. db' = WithRefresh(db, f)
  <2>1. db' = [db EXCEPT !.refresh = @ \cup {r}] BY DEF Store
  <2> QED BY <2>1, DbParts DEF DbType, WithRefresh
<1> HIDE DEF r
<1>6. f \in SUBSET RefreshType(N) BY <1>3, DbParts
<1>a. f = db.refresh \cup {r} OBVIOUS
<1> HIDE DEF f
<1>b. db' \in DbType(N) /\ db'.accounts = db.accounts /\ db'.refresh = f /\ db'.revoked = db.revoked
  BY <1>5, <1>6, DbParts, TokensEffect
<1>7. db' \in DbType(N) /\ db'.accounts = db.accounts /\ db'.refresh = db.refresh \cup {r}
      /\ db'.revoked = db.revoked
  BY <1>a, <1>b
<1>8. CASE slot[h].kind = "refresh"
  <2> DEFINE p == history.pairs \cup {<<slot[h].parent, slot[h].issued>>}
  <2>1. Answers(h, 200) BY <1>8 DEF Store
  <2>2. /\ slot' \in [Slots -> RequestType(N)] /\ \A g \in Slots : Sensible(slot'[g]) /\ Closed(h, 200)
    BY <1>1, <2>1, AnswersKeep DEF Closed
  <2>3. history' = [history EXCEPT !.pairs = p] BY <1>8, HistoryParts DEF Store, HistoryType
  <2>4. p \in SUBSET (Jtis(N) \X Jtis(N)) BY <1>2, <1>8, HistoryParts
  <2> HIDE DEF p
  <2>5. history' \in HistoryType(N) /\ history'.pairs = p BY <2>3, <2>4, HistoryParts DEF HistoryType
  <2>6. /\ history'.registered = history.registered /\ history'.revoking = history.revoking
        /\ history'.loggedOut = history.loggedOut /\ history'.ended = history.ended
        /\ history'.forgets = history.forgets /\ history'.accepted = history.accepted
    BY <2>3, HistoryParts DEF HistoryType
  <2>7. TypeInv' BY <1>1, <1>7, <2>2, <2>5, TypesSame DEF Store, TypeInv
  <2> QED BY <1>1, <1>4, <1>7, <1>8, <2>2, <2>5, <2>6, <2>7, TypesSame DEF p
<1>9. CASE slot[h].kind # "refresh"
  <2>1. slot' = [slot EXCEPT ![h].pc = "audit"] /\ history' = history BY <1>9 DEF Store
  <2>2. slot' \in [Slots -> RequestType(N)] /\ Moved(h, "audit")
    BY <2>1, StagedKeep DEF Moved, Stages
  <2>3. \A g \in Slots : Sensible(slot'[g])
    <3>1. slot[h].issued # None BY <1>1, SlotParts DEF Sensible
    <3>a. Sensible(slot[h]) BY SlotParts
    <3>b. slot'[h].issued # None /\ slot'[h].kind \in {"register", "login"} /\ slot'[h].pc = "audit"
      BY <1>2, <1>9, <2>2, <3>1 DEF Moved, Kept, Alike
    <3>2. Sensible(slot'[h]) BY <1>1, <2>2, <3>a, <3>b DEF Sensible, Moved, Kept, Alike
    <3> QED BY <2>2, <3>2, SlotParts DEF Moved, ChangedAt
  <2>4. TypeInv' BY <1>1, <1>7, <2>1, <2>2, <2>3, TypesSame DEF Store, TypeInv
  <2> QED BY <1>1, <1>4, <1>7, <1>9, <2>1, <2>2, <2>4, TypesSame
<1> QED BY <1>8, <1>9

LEMMA RevokeEffect ==
  ASSUME TypeInv, NEW h \in Slots, Revoke(h)
  PROVE  /\ TypeInv' /\ TokensKept /\ N' = N /\ slot[h].pc = "revoke" /\ Moved(h, "forget")
         /\ db'.accounts = db.accounts /\ db'.refresh = db.refresh
         /\ db'.revoked = db.revoked \cup {slot[h].jti}
<1> DEFINE k == db.revoked \cup {slot[h].jti}
<1>1. slot[h].pc = "revoke" /\ tokens' = tokens BY DEF Revoke
<1>2. slot[h].jti \in Jtis(N) /\ slot[h].kind = "logout" BY <1>1, SlotParts DEF Sensible
<1>3. k \in SUBSET Jtis(N) BY <1>2, DbParts
<1>4. db' = [db EXCEPT !.revoked = k] BY DbParts DEF Revoke, DbType
<1> HIDE DEF k
<1>5. db' \in DbType(N) /\ db'.accounts = db.accounts /\ db'.refresh = db.refresh /\ db'.revoked = k
  BY <1>3, <1>4, DbParts, RevokedEffect
<1>6. slot' = [slot EXCEPT ![h].pc = "forget"] BY DEF Revoke
<1>7. slot' \in [Slots -> RequestType(N)] /\ Moved(h, "forget")
  BY <1>6, StagedKeep DEF Moved, Stages
<1>8. \A g \in Slots : Sensible(slot'[g])
  <2>1. Sensible(slot'[h]) BY <1>1, <1>2, <1>7, SlotParts DEF Sensible, Moved, Kept, Alike
  <2> QED BY <1>7, <2>1, SlotParts DEF Moved, ChangedAt
<1>9. TypeInv' BY <1>1, <1>5, <1>7, <1>8, TypesSame DEF Revoke, TypeInv
<1> QED BY <1>1, <1>5, <1>7, <1>9, TypesSame DEF k

(* Users without a session of theirs left.                                 *)
LEMMA AuditEffect ==
  ASSUME TypeInv, NEW h \in Slots, Audit(h)
  PROVE  /\ TypeInv' /\ TokensKept /\ N' = N /\ slot[h].pc = "audit"
         /\ \/ slot[h].kind = "register" /\ Closed(h, 201)
            \/ slot[h].kind # "register" /\ Closed(h, 200)
         /\ history'.registered = history.registered \cup
              (IF slot[h].kind = "register" THEN {<<slot[h].user, slot[h].password>>} ELSE {})
         /\ history'.loggedOut = history.loggedOut \cup (IF slot[h].kind = "logout" THEN {slot[h].jti} ELSE {})
         /\ history'.pairs = history.pairs /\ history'.revoking = history.revoking
         /\ history'.ended = history.ended
         /\ history'.forgets = history.forgets /\ history'.accepted = history.accepted
<1> DEFINE status == IF slot[h].kind = "register" THEN 201 ELSE 200
           x == history.registered \cup {<<slot[h].user, slot[h].password>>}
           y == history.loggedOut \cup {slot[h].jti}
<1>1. slot[h].pc = "audit" /\ tokens' = tokens /\ Answers(h, status) /\ status \in Nat BY DEF Audit
<1>2. /\ slot[h].kind \in {"register", "login", "logout"}
      /\ slot[h].kind = "register" => slot[h].user \in Users /\ slot[h].password \in Passwords
      /\ slot[h].kind = "logout" => slot[h].jti \in Jtis(N)
  BY <1>1, SlotParts DEF Sensible
<1>3. /\ slot' \in [Slots -> RequestType(N)] /\ \A g \in Slots : Sensible(slot'[g]) /\ Closed(h, status)
  <2> HIDE DEF status
  <2> QED BY <1>1, AnswersKeep DEF Closed
<1>4. CASE slot[h].kind = "register"
  <2>1. history' = [history EXCEPT !.registered = x] BY <1>4, HistoryParts DEF Audit, HistoryType
  <2>2. x \in SUBSET (Users \X Passwords) BY <1>2, <1>4, HistoryParts
  <2> HIDE DEF x
  <2>3. history' \in HistoryType(N) /\ history'.registered = x BY <2>1, <2>2, HistoryParts DEF HistoryType
  <2>4. /\ history'.pairs = history.pairs /\ history'.revoking = history.revoking
        /\ history'.ended = history.ended /\ history'.loggedOut = history.loggedOut
        /\ history'.forgets = history.forgets /\ history'.accepted = history.accepted
    BY <2>1, HistoryParts DEF HistoryType
  <2>5. TypeInv' BY <1>1, <1>3, <2>3, TypesSame DEF Audit, TypeInv
  <2> QED BY <1>1, <1>3, <1>4, <2>3, <2>4, <2>5, TypesSame DEF x
<1>5. CASE slot[h].kind = "logout"
  <2>1. history' = [history EXCEPT !.loggedOut = y] BY <1>5, HistoryParts DEF Audit, HistoryType
  <2>2. y \in SUBSET Jtis(N) BY <1>2, <1>5, HistoryParts
  <2> HIDE DEF y
  <2>3. history' \in HistoryType(N) /\ history'.loggedOut = y BY <2>1, <2>2, HistoryParts DEF HistoryType
  <2>4. /\ history'.pairs = history.pairs /\ history'.revoking = history.revoking
        /\ history'.ended = history.ended /\ history'.registered = history.registered
        /\ history'.forgets = history.forgets /\ history'.accepted = history.accepted
    BY <2>1, HistoryParts DEF HistoryType
  <2>5. TypeInv' BY <1>1, <1>3, <2>3, TypesSame DEF Audit, TypeInv
  <2> QED BY <1>1, <1>3, <1>5, <2>3, <2>4, <2>5, TypesSame DEF y
<1>6. CASE slot[h].kind \notin {"register", "logout"}
  <2>1. history' = history BY <1>6 DEF Audit
  <2>2. TypeInv' BY <1>1, <1>3, <2>1, TypesSame DEF Audit, TypeInv
  <2> QED BY <1>1, <1>3, <1>6, <2>1, <2>2, TypesSame
<1> QED BY <1>4, <1>5, <1>6

WithMemory(v, b, k) == [v EXCEPT !.bucket = b, !.revoked = k]
WithRevoking(v, k) == [v EXCEPT !.revoking = k]

LEMMA MemoryEffect ==
  ASSUME NEW n, NEW v \in ServerType(n), NEW b \in [Senders -> Bucket \cup {None}], NEW k \in SUBSET Jtis(n),
         NEW w, w = WithMemory(v, b, k)
  PROVE  w \in ServerType(n) /\ w.bucket = b /\ w.revoked = k /\ w.stage = v.stage
  BY DEF ServerType, WithMemory

LEMMA RevokingEffect ==
  ASSUME NEW n, NEW v \in HistoryType(n), NEW k \in SUBSET Jtis(n), NEW w, w = WithRevoking(v, k)
  PROVE  /\ w \in HistoryType(n) /\ w.revoking = k /\ w.registered = v.registered /\ w.loggedOut = v.loggedOut
         /\ w.ended = v.ended /\ w.pairs = v.pairs /\ w.forgets = v.forgets /\ w.accepted = v.accepted
  BY DEF HistoryType, WithRevoking

LEMMA CheckEffect ==
  ASSUME TypeInv, NEW h \in Slots, Check(h)
  PROVE  /\ TypeInv' /\ TokensKept /\ N' = N /\ slot[h].pc = "check"
         /\ slot[h].at \in Servers /\ slot[h].from \in Senders
         /\ \/ /\ slot[h].jti \in db.revoked /\ Closed(h, 401) /\ server' = server /\ history' = history
            \/ /\ slot[h].jti \notin db.revoked /\ Closed(h, 429) /\ server' = server /\ history' = history
            \/ /\ slot[h].jti \notin db.revoked /\ Allowed(slot[h].at, slot[h].from)
               /\ \A x \in Servers, d \in Senders :
                    server'[x].bucket[d] = IF x = slot[h].at /\ d = slot[h].from
                                           THEN Counted(slot[h].at, slot[h].from) ELSE server[x].bucket[d]
               /\ history'.accepted = Accepted(slot[h].at, slot[h].from).accepted
               /\ \/ /\ slot[h].kind = "logout" /\ Moved(h, "revoke")
                     /\ history'.revoking = history.revoking \cup {slot[h].jti}
                     /\ \A x \in Servers : server'[x].revoked =
                          IF x = slot[h].at THEN server[x].revoked \cup {slot[h].jti} ELSE server[x].revoked
                  \/ /\ slot[h].kind = "logout" => Closed(h, 400)
                     /\ slot[h].kind # "logout" => Closed(h, 200)
                     /\ history'.revoking = history.revoking
                     /\ \A x \in Servers : server'[x].revoked = server[x].revoked
         /\ \A x \in Servers : server'[x].stage = server[x].stage
         /\ history'.registered = history.registered /\ history'.loggedOut = history.loggedOut
         /\ history'.ended = history.ended /\ history'.pairs = history.pairs
         /\ history'.forgets = history.forgets
<1> DEFINE at == slot[h].at
           from == slot[h].from
           j == slot[h].jti
<1>1. slot[h].pc = "check" /\ tokens' = tokens BY DEF Check
<1>2. at \in Servers /\ from \in Senders /\ j \in Jtis(N) /\ slot[h].kind \in {"call", "logout"}
  BY <1>1, SlotParts DEF Sensible
<1>3. CASE j \in db.revoked
  <2>1. Answers(h, 401) /\ server' = server /\ history' = history BY <1>3 DEF Check, Revoked
  <2>2. /\ slot' \in [Slots -> RequestType(N)] /\ \A g \in Slots : Sensible(slot'[g]) /\ Closed(h, 401)
    BY <1>1, <2>1, AnswersKeep DEF Closed
  <2>3. TypeInv' BY <1>1, <2>1, <2>2, TypesSame DEF Check, TypeInv
  <2> QED BY <1>1, <1>2, <1>3, <2>1, <2>2, <2>3, TypesSame
<1>4. CASE j \notin db.revoked /\ ~Allowed(at, from)
  <2>1. Answers(h, 429) /\ server' = server /\ history' = history BY <1>4 DEF Check, Revoked
  <2>2. /\ slot' \in [Slots -> RequestType(N)] /\ \A g \in Slots : Sensible(slot'[g]) /\ Closed(h, 429)
    BY <1>1, <2>1, AnswersKeep DEF Closed
  <2>3. TypeInv' BY <1>1, <2>1, <2>2, TypesSame DEF Check, TypeInv
  <2> QED BY <1>1, <1>2, <1>4, <2>1, <2>2, <2>3, TypesSame
<1>5. CASE j \notin db.revoked /\ Allowed(at, from)
  <2> DEFINE begins == slot[h].kind = "logout" /\ Valid(j)
             b == [server[at].bucket EXCEPT ![from] = Counted(at, from)]
             k == IF begins THEN server[at].revoked \cup {j} ELSE server[at].revoked
             w == WithMemory(server[at], b, k)
             l == history.revoking \cup {j}
             a == Accepted(at, from)
  <2>1. /\ server' = [server EXCEPT ![at].bucket[from] = Counted(at, from),
                                    ![at].revoked = IF begins THEN @ \cup {j} ELSE @]
        /\ history' = IF begins THEN [a EXCEPT !.revoking = @ \cup {j}] ELSE a
        /\ IF begins THEN slot' = [slot EXCEPT ![h].pc = "revoke"]
           ELSE Answers(h, IF slot[h].kind = "logout" THEN 400 ELSE 200)
    BY <1>5 DEF Check, Revoked
  <2>2. server \in [Servers -> ServerType(N)] /\ server[at] \in ServerType(N)
        /\ server[at].bucket \in [Senders -> Bucket \cup {None}] /\ server[at].revoked \subseteq Jtis(N)
    BY <1>2, ServerParts DEF TypeInv
  <2>3. b \in [Senders -> Bucket \cup {None}] /\ b[from] = Counted(at, from)
        /\ \A d \in Senders \ {from} : b[d] = server[at].bucket[d]
    BY <1>2, <2>2, CountedType
  <2>4. k \in SUBSET Jtis(N) BY <1>2, <2>2
  <2>5. server' = [server EXCEPT ![at] = w] BY <1>2, <2>1, <2>2 DEF ServerType, WithMemory
  <2>a. begins => k = server[at].revoked \cup {j}
    OBVIOUS
  <2>b. ~begins => k = server[at].revoked
    OBVIOUS
  <2> HIDE DEF b, k
  <2>6. w \in ServerType(N) /\ w.bucket = b /\ w.revoked = k /\ w.stage = server[at].stage
    BY <2>2, <2>3, <2>4, MemoryEffect
  <2> HIDE DEF w
  <2>7. server'[at] = w /\ \A x \in Servers \ {at} : server'[x] = server[x] BY <1>2, <2>2, <2>5
  <2>8. server' \in [Servers -> ServerType(N)] BY <2>2, <2>5, <2>6
  <2>9. ASSUME NEW x \in Servers, NEW d \in Senders
        PROVE  server'[x].bucket[d] = IF x = at /\ d = from THEN Counted(at, from) ELSE server[x].bucket[d]
    <3>1. CASE x = at BY <2>3, <2>6, <2>7, <3>1
    <3>2. CASE x # at BY <2>7, <3>2
    <3> QED BY <3>1, <3>2
  <2>10. \A x \in Servers : server'[x].stage = server[x].stage BY <2>6, <2>7
  <2>11. a \in HistoryType(N) /\ HistoryRest(history, a) BY <1>2, AcceptedKeep
  <2>12. l \in SUBSET Jtis(N) BY <1>2, HistoryParts
  <2>13. CASE begins
    <3>1. history' = WithRevoking(a, l) BY <2>1, <2>11, <2>13 DEF HistoryRest, HistoryType, WithRevoking
    <3> HIDE DEF l, a
    <3>2. /\ history' \in HistoryType(N) /\ history'.revoking = l
          /\ history'.accepted = a.accepted
          /\ history'.registered = a.registered /\ history'.loggedOut = a.loggedOut
          /\ history'.ended = a.ended /\ history'.pairs = a.pairs
          /\ history'.forgets = a.forgets
      BY <2>11, <2>12, <3>1, RevokingEffect
    <3>3. slot' \in [Slots -> RequestType(N)] /\ Moved(h, "revoke")
      BY <2>1, <2>13, StagedKeep DEF Moved, Stages
    <3>4. \A g \in Slots : Sensible(slot'[g])
      <4>a. j # None BY <1>1, SlotParts DEF Sensible
      <4>1. Sensible(slot'[h]) BY <1>1, <1>2, <2>13, <3>3, <4>a, SlotParts DEF Sensible, Moved, Kept, Alike
      <4> QED BY <3>3, <4>1, SlotParts DEF Moved, ChangedAt
    <3>5. TypeInv' BY <1>1, <2>8, <3>2, <3>3, <3>4, TypesSame DEF Check, TypeInv
    <3>6. \A x \in Servers : server'[x].revoked =
            IF x = at THEN server[x].revoked \cup {j} ELSE server[x].revoked
      BY <2>a, <2>6, <2>7, <2>13
    <3>7. /\ history'.registered = history.registered /\ history'.loggedOut = history.loggedOut
          /\ history'.ended = history.ended /\ history'.pairs = history.pairs
          /\ history'.forgets = history.forgets
      BY <2>11, <3>2 DEF HistoryRest
    <3> QED BY <1>1, <1>2, <1>5, <2>9, <2>10, <2>13, <3>2, <3>3, <3>5, <3>6, <3>7, TypesSame DEF l, a
  <2>14. CASE ~begins
    <3> DEFINE status == IF slot[h].kind = "logout" THEN 400 ELSE 200
    <3>1. history' = a /\ Answers(h, status) BY <2>1, <2>14
    <3>a. status \in Nat OBVIOUS
    <3>b. status = IF slot[h].kind = "logout" THEN 400 ELSE 200 OBVIOUS
    <3> HIDE DEF status
    <3>2. /\ slot' \in [Slots -> RequestType(N)] /\ \A g \in Slots : Sensible(slot'[g]) /\ Closed(h, status)
      BY <1>1, <3>1, <3>a, AnswersKeep DEF Closed
    <3>5. TypeInv' BY <1>1, <2>8, <2>11, <3>1, <3>2, TypesSame DEF Check, TypeInv
    <3>6. \A x \in Servers : server'[x].revoked = server[x].revoked
      BY <2>b, <2>6, <2>7, <2>14
    <3> QED BY <1>1, <1>2, <1>5, <2>9, <2>10, <2>11, <3>1, <3>2, <3>5, <3>6, <3>b, TypesSame DEF HistoryRest
  <2> QED BY <2>13, <2>14
<1> QED BY <1>3, <1>4, <1>5

(* the requests of u that have not stored their token *)
StoringFor(u) == {g \in Slots : slot[g].pc \in {"verify", "insert", "consume", "store"} /\ slot[g].user = u}
WithForgets(v, f, e) == [v EXCEPT !.forgets = f, !.ended = e]

LEMMA ForgetsEffect ==
  ASSUME NEW n, NEW v \in HistoryType(n), NEW f \in [AllUsers -> Nat], NEW e \in SUBSET Jtis(n),
         NEW w, w = WithForgets(v, f, e)
  PROVE  /\ w \in HistoryType(n) /\ w.forgets = f /\ w.ended = e /\ w.registered = v.registered
         /\ w.loggedOut = v.loggedOut /\ w.revoking = v.revoking /\ w.pairs = v.pairs /\ w.accepted = v.accepted
  BY DEF HistoryType, WithForgets

LEMMA ForgetEffect ==
  ASSUME TypeInv, NEW h \in Slots, Forget(h), NEW u, u = tokens[slot[h].jti].user
  PROVE  /\ TypeInv' /\ TokensKept /\ N' = N /\ slot[h].pc = "forget" /\ u \in AllUsers
         /\ \A g \in Slots : /\ Alike(slot[g], slot'[g]) /\ slot'[g].who = slot[g].who
                             /\ slot'[g].issued = slot[g].issued /\ slot'[g].status = slot[g].status
                             /\ slot'[g].pc = IF g = h THEN "audit" ELSE slot[g].pc
                             /\ (g # h /\ g \in StoringFor(u)) => slot'[g].across
                             /\ g \notin StoringFor(u) => slot'[g].across = slot[g].across
         /\ db'.accounts = db.accounts /\ db'.revoked = db.revoked
         /\ db'.refresh = {r \in db.refresh : r.user # u}
         /\ history'.ended = history.ended \cup {r.id : r \in {r \in db.refresh : r.user = u}}
         /\ history'.forgets[u] = history.forgets[u] + 1
         /\ \A v \in AllUsers \ {u} : history'.forgets[v] = history.forgets[v]
         /\ history'.registered = history.registered /\ history'.loggedOut = history.loggedOut
         /\ history'.revoking = history.revoking /\ history'.pairs = history.pairs
         /\ history'.accepted = history.accepted
<1> DEFINE j == slot[h].jti
           f == {r \in db.refresh : r.user # u}
           e == history.ended \cup {r.id : r \in {r \in db.refresh : r.user = u}}
           k == [history.forgets EXCEPT ![u] = @ + 1]
<1>1. slot[h].pc = "forget" /\ tokens' = tokens BY DEF Forget
<1>2. j \in Jtis(N) /\ slot[h].kind = "logout" BY <1>1, SlotParts DEF Sensible
<1>3. u \in AllUsers BY <1>2, Counts DEF TokenType
<1>4. f \in SUBSET RefreshType(N) BY DbParts
<1>5. db' = WithRefresh(db, f) BY DbParts DEF Forget, Left, WithRefresh
<1>6. \A r \in db.refresh : r.id \in Jtis(N) BY DbParts
<1>7. e \in SUBSET Jtis(N) BY <1>6, HistoryParts
<1>8. k \in [AllUsers -> Nat] /\ k[u] = history.forgets[u] + 1
      /\ \A v \in AllUsers \ {u} : k[v] = history.forgets[v]
  BY <1>3, HistoryParts
<1>a. {r.id : r \in db.refresh \ Left(j)} = {r.id : r \in {r \in db.refresh : r.user = u}}
  BY DEF Left
<1>9. history' = WithForgets(history, k, e)
  <2>1. history' = [history EXCEPT !.forgets[u] = @ + 1, !.ended = @ \cup {r.id : r \in db.refresh \ Left(j)}]
    BY DEF Forget
  <2> QED BY <1>a, <2>1, HistoryParts DEF HistoryType, WithForgets
<1>10. slot' = [g \in Slots |-> IF g = h THEN Staged(slot[g], "audit")
                                ELSE IF g \in StoringFor(u) THEN Crossed(slot[g]) ELSE slot[g]]
  BY DEF Forget, Staged, Crossed, StoringFor
<1>f. f = {r \in db.refresh : r.user # u} OBVIOUS
<1>e. e = history.ended \cup {r.id : r \in {r \in db.refresh : r.user = u}} OBVIOUS
<1> HIDE DEF f, e, k
<1>11. db' \in DbType(N) /\ db'.accounts = db.accounts /\ db'.refresh = f /\ db'.revoked = db.revoked
  BY <1>4, <1>5, DbParts, TokensEffect
<1>12. /\ history' \in HistoryType(N) /\ history'.forgets = k /\ history'.ended = e
       /\ history'.registered = history.registered
       /\ history'.loggedOut = history.loggedOut /\ history'.revoking = history.revoking
       /\ history'.pairs = history.pairs /\ history'.accepted = history.accepted
  BY <1>7, <1>8, <1>9, HistoryParts, ForgetsEffect
<1>13. ASSUME NEW g \in Slots
       PROVE  /\ slot'[g] \in RequestType(N) /\ Sensible(slot'[g])
              /\ Alike(slot[g], slot'[g]) /\ slot'[g].who = slot[g].who
              /\ slot'[g].issued = slot[g].issued /\ slot'[g].status = slot[g].status
              /\ slot'[g].pc = IF g = h THEN "audit" ELSE slot[g].pc
              /\ (g # h /\ g \in StoringFor(u)) => slot'[g].across
              /\ g \notin StoringFor(u) => slot'[g].across = slot[g].across
  <2>0. N \in Nat /\ slot[g] \in RequestType(N) /\ Sensible(slot[g]) BY Counts, SlotParts
  <2>1. CASE g = h
    <3>1. slot'[g] = Staged(slot[g], "audit") BY <1>10, <2>1
    <3>2. /\ slot'[g] \in RequestType(N) /\ Alike(slot[g], slot'[g]) /\ slot'[g].who = slot[g].who
          /\ slot'[g].across = slot[g].across
          /\ slot'[g].issued = slot[g].issued /\ slot'[g].status = slot[g].status /\ slot'[g].pc = "audit"
      BY <2>0, <3>1, StageEffect DEF Stages
    <3>3. Sensible(slot'[g]) BY <1>1, <2>0, <2>1, <3>2 DEF Sensible, Alike
    <3> QED BY <2>1, <3>2, <3>3
  <2>2. CASE g # h /\ g \in StoringFor(u)
    <3>1. slot'[g] = Crossed(slot[g]) BY <1>10, <2>2
    <3>a. slot'[g].across BY <2>0, <3>1, AcrossEffect
    <3>b. /\ slot'[g] \in RequestType(N) /\ Alike(slot[g], slot'[g]) /\ slot'[g].who = slot[g].who
      BY <2>0, <3>1, AcrossEffect
    <3>c. /\ slot'[g].issued = slot[g].issued
          /\ slot'[g].status = slot[g].status
          /\ slot'[g].pc = slot[g].pc
      <4> DEFINE q == slot[g]
                 r == slot'[g]
                 n == N
      <4>1. n \in Nat /\ q \in RequestType(n) /\ r = Crossed(q) BY <2>0, <3>1
      <4> HIDE DEF q, r, n
      <4>2. r.issued = q.issued /\ r.status = q.status BY <4>1, AcrossEffect
      <4>3. r.pc = q.pc BY <4>1, AcrossEffect
      <4> QED BY <4>2, <4>3 DEF q, r
    <3>2. /\ slot'[g] \in RequestType(N) /\ Alike(slot[g], slot'[g]) /\ slot'[g].who = slot[g].who
          /\ slot'[g].issued = slot[g].issued /\ slot'[g].status = slot[g].status /\ slot'[g].pc = slot[g].pc
      BY <3>b, <3>c
    <3>3. slot'[g].pc # "idle" BY <2>2, <3>2 DEF StoringFor
    <3>4. Sensible(slot'[g]) BY <2>0, <3>2, <3>3 DEF Sensible, Alike
    <3> QED BY <2>2, <3>2, <3>4, <3>a
  <2>3. CASE g # h /\ g \notin StoringFor(u)
    <3>1. slot'[g] = slot[g] BY <1>10, <2>3
    <3> QED BY <2>0, <2>3, <3>1 DEF Alike
  <2> QED BY <2>1, <2>2, <2>3
<1>14. slot' \in [Slots -> RequestType(N)] /\ \A g \in Slots : Sensible(slot'[g])
  BY <1>10, <1>13
<1>15. TypeInv' BY <1>1, <1>11, <1>12, <1>14, TypesSame DEF Forget, TypeInv
<1>16. \A g \in Slots :
              /\ Alike(slot[g], slot'[g]) /\ slot'[g].who = slot[g].who
              /\ slot'[g].issued = slot[g].issued /\ slot'[g].status = slot[g].status
              /\ slot'[g].pc = IF g = h THEN "audit" ELSE slot[g].pc
              /\ (g # h /\ g \in StoringFor(u)) => slot'[g].across
              /\ g \notin StoringFor(u) => slot'[g].across = slot[g].across
  BY <1>13
<1>17. TokensKept /\ N' = N BY <1>1, TypesSame
<1>18. db'.refresh = {r \in db.refresh : r.user # u} BY <1>11, <1>f
<1>19. history'.ended = history.ended \cup {r.id : r \in {r \in db.refresh : r.user = u}} BY <1>12, <1>e
<1> QED BY <1>1, <1>3, <1>8, <1>11, <1>12, <1>15, <1>16, <1>17, <1>18, <1>19

LEMMA FailsEffect ==
  ASSUME TypeInv, NEW h \in Slots, HandlerFails(h)
  PROVE  /\ TypeInv' /\ TokensKept /\ N' = N /\ Closed(h, 500) /\ ScenarioRest
         /\ slot[h].pc \in {"verify", "insert", "consume", "store", "revoke", "forget", "audit"}
<1>1. /\ slot[h].pc \in {"verify", "insert", "consume", "store", "revoke", "forget", "audit"}
      /\ tokens' = tokens /\ Answers(h, 500) /\ Fault
  BY DEF HandlerFails
<1>2. /\ slot' \in [Slots -> RequestType(N)] /\ \A g \in Slots : Sensible(slot'[g]) /\ Closed(h, 500)
  BY <1>1, AnswersKeep DEF Closed
<1>3. scenario' \in ScenarioType /\ ScenarioRest BY <1>1, FaultKeep
<1>4. TypeInv' BY <1>1, <1>2, <1>3, TypesSame DEF HandlerFails, TypeInv
<1> QED BY <1>1, <1>2, <1>3, <1>4, TypesSame

LEMMA ClientParts ==
  ASSUME TypeInv, NEW c \in Clients
  PROVE  /\ client[c] \in ClientType(N) /\ client[c].access \in Jtis(N) \cup {None}
         /\ client[c].refresh \in Jtis(N) \cup {None} /\ client[c].lost \in BOOLEAN
<1>1. client[c] \in ClientType(N) BY DEF TypeInv
<1> QED BY <1>1 DEF ClientType

LEMMA TabParts ==
  ASSUME TypeInv, NEW t \in Tabs
  PROVE  /\ tab[t] \in TabType(N) /\ tab[t].token \in Jtis(N) \cup {None} /\ tab[t].asks \in Nat
         /\ tab[t].path \in {"page", "login", "register"}
<1>1. tab[t] \in TabType(N) BY DEF TypeInv
<1> QED BY <1>1 DEF TabType

WithLost(x, l) == [x EXCEPT !.lost = l]

LEMMA LostEffect ==
  ASSUME NEW n, NEW x \in ClientType(n), NEW l, l \in {TRUE, FALSE}, NEW y, y = WithLost(x, l)
  PROVE  y \in ClientType(n) /\ y.access = x.access /\ y.refresh = x.refresh /\ y.lost = l
<1>1. y \in ClientType(n) BY DEF ClientType, WithLost
<1>2. y.access = x.access /\ y.refresh = x.refresh /\ y.lost = l BY DEF ClientType, WithLost
<1> QED BY <1>1, <1>2

(* r is q, and nobody waits for it *)
Dropped(q, r) ==
  /\ Alike(q, r) /\ r.who = None /\ r.across = q.across /\ r.issued = q.issued
  /\ r.status = q.status /\ r.pc = q.pc

LEMMA DroppedKeep ==
  ASSUME NEW n \in Nat, NEW q \in RequestType(n), Sensible(q), q.who # None, NEW r, r = Unawaited(q)
  PROVE  r \in RequestType(n) /\ Sensible(r) /\ Dropped(q, r)
<1>1. r \in RequestType(n) /\ Dropped(q, r) BY WhoEffect DEF Dropped
<1>2. q.pc # "idle" BY DEF Sensible, Idle
<1>3. Sensible(r) BY <1>1, <1>2 DEF Sensible, Dropped, Alike
<1> QED BY <1>1, <1>3

LEMMA GiveUpEffect ==
  ASSUME TypeInv, NEW h \in Slots, GiveUp(h), NEW c, c = slot[h].who
  PROVE  /\ TypeInv' /\ TokensKept /\ N' = N /\ ScenarioRest /\ c \in Clients
         /\ ChangedAt(h) /\ Dropped(slot[h], slot'[h])
         /\ \A d \in Clients : /\ client'[d].access = client[d].access /\ client'[d].refresh = client[d].refresh
                               /\ client'[d].lost = (client[d].lost \/ (d = c /\ slot[h].kind = "refresh"))
<1>1. c \in Clients /\ tokens' = tokens /\ Fault BY DEF GiveUp
<1>2. slot' = [slot EXCEPT ![h] = Unawaited(slot[h])] BY DEF GiveUp, Unawaited, TypeInv
<1>3. slot[h] \in RequestType(N) /\ Sensible(slot[h]) /\ N \in Nat /\ slot[h].who # None
  BY <1>1, SlotParts, Counts, NamesAssumption DEF Senders
<1>4. slot'[h] = Unawaited(slot[h]) /\ ChangedAt(h) BY <1>2 DEF TypeInv, ChangedAt
<1>5. slot'[h] \in RequestType(N) /\ Sensible(slot'[h]) /\ Dropped(slot[h], slot'[h])
  BY <1>3, <1>4, DroppedKeep
<1>6. slot' \in [Slots -> RequestType(N)] BY <1>2, <1>4, <1>5 DEF TypeInv
<1>7. \A g \in Slots : Sensible(slot'[g]) BY <1>4, <1>5, SlotParts DEF ChangedAt
<1>8. PICK l \in {TRUE, FALSE} : l = (client[c].lost \/ slot[h].kind = "refresh") BY <1>1, ClientParts
<1>9. client' = [client EXCEPT ![c] = WithLost(client[c], l)]
  <2>1. client' = [client EXCEPT ![c].lost = @ \/ slot[h].kind = "refresh"] BY DEF GiveUp
  <2>2. client' = [client EXCEPT ![c] = WithLost(client[c], client[c].lost \/ slot[h].kind = "refresh")]
    BY <1>1, <2>1 DEF WithLost, TypeInv
  <2> QED BY <1>8, <2>2
<1>10. client'[c] = WithLost(client[c], l) /\ \A d \in Clients \ {c} : client'[d] = client[d]
  BY <1>1, <1>9 DEF TypeInv
<1>11. /\ client'[c] \in ClientType(N) /\ client'[c].access = client[c].access
       /\ client'[c].refresh = client[c].refresh /\ client'[c].lost = l
  <2> DEFINE x == client[c]
             y == client'[c]
             n == N
  <2>1. x \in ClientType(n) /\ y = WithLost(x, l) BY <1>1, <1>10, ClientParts
  <2> HIDE DEF x, y, n
  <2>2. y \in ClientType(n) BY <1>8, <2>1, LostEffect
  <2>3. y.access = x.access /\ y.refresh = x.refresh BY <2>1 DEF ClientType, WithLost
  <2>4. y.lost = l BY <2>1 DEF ClientType, WithLost
  <2> QED BY <2>2, <2>3, <2>4 DEF x, y, n
<1>12. client' \in [Clients -> ClientType(N)] BY <1>9, <1>10, <1>11 DEF TypeInv
<1>13. \A d \in Clients : /\ client'[d].access = client[d].access /\ client'[d].refresh = client[d].refresh
                          /\ client'[d].lost = (client[d].lost \/ (d = c /\ slot[h].kind = "refresh"))
  <2>1. ASSUME NEW d \in Clients, d = c
        PROVE /\ client'[d].access = client[d].access /\ client'[d].refresh = client[d].refresh
              /\ client'[d].lost = (client[d].lost \/ (d = c /\ slot[h].kind = "refresh"))
    BY <1>8, <1>11, <2>1
  <2>2. ASSUME NEW d \in Clients, d # c
        PROVE /\ client'[d].access = client[d].access /\ client'[d].refresh = client[d].refresh
              /\ client'[d].lost = (client[d].lost \/ (d = c /\ slot[h].kind = "refresh"))
    BY <1>10, <2>2, ClientParts
  <2> QED BY <2>1, <2>2
<1>14. scenario' \in ScenarioType /\ ScenarioRest BY <1>1, FaultKeep
<1>15. TypeInv' BY <1>1, <1>6, <1>7, <1>12, <1>14, TypesSame DEF GiveUp, TypeInv
<1> QED BY <1>1, <1>4, <1>5, <1>13, <1>14, <1>15, TypesSame

(* the requests that end with process s *)
Dying(s) == {g \in Slots : slot[g].at = s /\ slot[g].pc # "answer"}
WithAccepted(v, a) == [v EXCEPT !.accepted = a]

LEMMA CountingEffect ==
  ASSUME NEW n, NEW v \in HistoryType(n), NEW a \in AcceptedType, NEW w, w = WithAccepted(v, a)
  PROVE  w \in HistoryType(n) /\ HistoryRest(v, w) /\ w.accepted = a
<1>1. w \in HistoryType(n) BY DEF HistoryType, WithAccepted
<1>2. HistoryRest(v, w) BY DEF HistoryType, WithAccepted, HistoryRest
<1>3. w.accepted = a BY DEF HistoryType, WithAccepted
<1> QED BY <1>1, <1>2, <1>3

LEMMA CrashEffect ==
  ASSUME TypeInv, NEW s \in Servers, Crash(s)
  PROVE  /\ TypeInv' /\ TokensKept /\ N' = N /\ ScenarioRest
         /\ \A g \in Slots : slot'[g] = IF g \in Dying(s) THEN Idle ELSE slot[g]
         /\ \A x \in Servers : server'[x] = IF x = s THEN Fresh ELSE server[x]
         /\ \A d \in Clients : /\ client'[d].access = client[d].access /\ client'[d].refresh = client[d].refresh
                               /\ client'[d].lost = (client[d].lost
                                    \/ \E g \in Dying(s) : slot[g].who = d /\ slot[g].kind = "refresh")
         /\ HistoryRest(history, history')
         /\ \A x \in Servers : history'.accepted[x] = IF x = s THEN NothingAccepted ELSE history.accepted[x]
<1>1. tokens' = tokens /\ Fault BY DEF Crash
<1>0. N \in Nat BY Counts
<1>2. slot' = [g \in Slots |-> IF g \in Dying(s) THEN Idle ELSE slot[g]] BY DEF Crash, Dying
<1>3. /\ slot' \in [Slots -> RequestType(N)] /\ \A g \in Slots : Sensible(slot'[g])
      /\ \A g \in Slots : slot'[g] = IF g \in Dying(s) THEN Idle ELSE slot[g]
  <2>1. ASSUME NEW g \in Slots
        PROVE  /\ slot'[g] \in RequestType(N) /\ Sensible(slot'[g])
               /\ slot'[g] = IF g \in Dying(s) THEN Idle ELSE slot[g]
    BY <1>0, <1>2, SlotParts, IdleType
  <2> QED BY <1>2, <2>1
<1>4. Fresh \in ServerType(N)
  <2>1. [c \in Senders |-> None] \in [Senders -> Bucket \cup {None}] OBVIOUS
  <2> QED BY <2>1 DEF Fresh, ServerType
<1>5. /\ server' \in [Servers -> ServerType(N)]
      /\ \A x \in Servers : server'[x] = IF x = s THEN Fresh ELSE server[x]
  BY <1>4 DEF Crash, TypeInv
<1>6. ASSUME NEW d \in Clients
      PROVE  /\ client'[d] \in ClientType(N) /\ client'[d].access = client[d].access
             /\ client'[d].refresh = client[d].refresh
             /\ client'[d].lost = (client[d].lost
                   \/ \E g \in Dying(s) : slot[g].who = d /\ slot[g].kind = "refresh")
  <2>1. PICK l \in {TRUE, FALSE} :
          l = (client[d].lost \/ \E g \in Dying(s) : slot[g].who = d /\ slot[g].kind = "refresh")
    BY ClientParts
  <2>2. client'[d] = [client[d] EXCEPT !.lost =
          @ \/ \E g \in Dying(s) : slot[g].who = d /\ slot[g].kind = "refresh"]
    BY DEF Crash, Dying
  <2>3. client'[d] = WithLost(client[d], l) BY <2>1, <2>2 DEF WithLost
  <2> DEFINE x == client[d]
             y == client'[d]
             n == N
  <2>4. x \in ClientType(n) /\ y = WithLost(x, l) BY <2>3, ClientParts
  <2> HIDE DEF x, y, n
  <2>5. y \in ClientType(n) BY <2>1, <2>4, LostEffect
  <2>6. y.access = x.access /\ y.refresh = x.refresh BY <2>4 DEF ClientType, WithLost
  <2>7. y.lost = l BY <2>4 DEF ClientType, WithLost
  <2> QED BY <2>1, <2>5, <2>6, <2>7 DEF x, y, n
<1>7. client' \in [Clients -> ClientType(N)] BY <1>6 DEF Crash
<1>8. PICK a : a = [history.accepted EXCEPT ![s] = NothingAccepted] OBVIOUS
<1>9. /\ a \in AcceptedType
      /\ \A x \in Servers : a[x] = IF x = s THEN NothingAccepted ELSE history.accepted[x]
  <2>1. NothingAccepted \in [Senders -> [0 .. MaxTime -> Nat]] BY DEF NothingAccepted
  <2>2. history.accepted \in [Servers -> [Senders -> [0 .. MaxTime -> Nat]]] BY HistoryParts DEF AcceptedType
  <2> QED BY <1>8, <2>1, <2>2 DEF AcceptedType
<1>10. history' = WithAccepted(history, a)
  BY <1>8, HistoryParts DEF Crash, WithAccepted, HistoryType
<1>11. history' \in HistoryType(N) /\ HistoryRest(history, history') /\ history'.accepted = a
  BY <1>9, <1>10, HistoryParts, CountingEffect
<1>12. scenario' \in ScenarioType /\ ScenarioRest BY <1>1, FaultKeep
<1>13. TypeInv' BY <1>1, <1>3, <1>5, <1>7, <1>11, <1>12, TypesSame DEF Crash, TypeInv
<1>14. \A d \in Clients : /\ client'[d].access = client[d].access /\ client'[d].refresh = client[d].refresh
                          /\ client'[d].lost = (client[d].lost
                               \/ \E g \in Dying(s) : slot[g].who = d /\ slot[g].kind = "refresh")
  BY <1>6
<1> QED BY <1>1, <1>3, <1>5, <1>9, <1>11, <1>12, <1>13, <1>14, TypesSame

LEMMA AbandonKeep ==
  ASSUME TypeInv, NEW t \in Tabs, NEW f, f = Abandoned(t)
  PROVE  /\ f \in [Slots -> RequestType(N)] /\ \A g \in Slots : Sensible(f[g]) /\ f[g].who # t
         /\ \A g \in Slots : f[g] = slot[g] \/ (slot[g].who = t /\ Dropped(slot[g], f[g]))
<1>1. ASSUME NEW g \in Slots
      PROVE  /\ f[g] \in RequestType(N) /\ Sensible(f[g]) /\ f[g].who # t
             /\ f[g] = slot[g] \/ (slot[g].who = t /\ Dropped(slot[g], f[g]))
  <2>1. t # None BY NamesAssumption DEF Senders
  <2>2. N \in Nat /\ slot[g] \in RequestType(N) /\ Sensible(slot[g]) BY Counts, SlotParts
  <2>3. CASE slot[g].who = t
    <3>1. f[g] = Unawaited(slot[g]) BY <2>3 DEF Abandoned, Unawaited
    <3>2. f[g] \in RequestType(N) /\ Sensible(f[g]) /\ Dropped(slot[g], f[g])
      BY <2>1, <2>2, <2>3, <3>1, DroppedKeep
    <3>3. f[g].who # t BY <2>1, <3>2 DEF Dropped
    <3> QED BY <2>3, <3>2, <3>3
  <2>4. CASE slot[g].who # t
    <3>1. f[g] = slot[g] BY <2>4 DEF Abandoned
    <3> QED BY <2>2, <2>4, <3>1
  <2> QED BY <2>3, <2>4
<1> QED BY <1>1 DEF Abandoned

LEMMA ToClientType ==
  ASSUME NEW n, NEW x \in ClientType(n), NEW q \in RequestType(n) PROVE ToClient(x, q) \in ClientType(n)
<1>1. q.issued \in Jtis(n) \cup {None} BY DEF RequestType
<1>2. CASE q.status \in {200, 201} /\ q.kind \in {"login", "register", "refresh"}
  <2>1. ToClient(x, q) = [access |-> q.issued, refresh |-> q.issued, lost |-> FALSE] BY <1>2 DEF ToClient
  <2> QED BY <1>1, <2>1 DEF ClientType
<1>3. CASE ~(q.status \in {200, 201} /\ q.kind \in {"login", "register", "refresh"})
  <2>1. ToClient(x, q) \in {x, [x EXCEPT !.access = None, !.refresh = None], [x EXCEPT !.refresh = None],
                            [x EXCEPT !.lost = TRUE]}
    BY <1>3 DEF ToClient
  <2>2. x \in ClientType(n) OBVIOUS
  <2>3. [x EXCEPT !.access = None, !.refresh = None] \in ClientType(n) BY DEF ClientType
  <2>4. [x EXCEPT !.refresh = None] \in ClientType(n) BY DEF ClientType
  <2>5. [x EXCEPT !.lost = TRUE] \in ClientType(n) BY DEF ClientType
  <2> QED BY <2>1, <2>2, <2>3, <2>4, <2>5
<1> QED BY <1>2, <1>3

LEMMA LoadedType ==
  ASSUME NEW n, NEW path \in {"page", "login", "register"}, NEW j \in Jtis(n) \cup {None}
  PROVE  /\ Loaded(path, j) \in TabType(n) /\ Loaded(path, j).boot /\ Loaded(path, j).token = j
         /\ Loaded(path, j).session = (j # None)
<1>1. PICK l \in {TRUE, FALSE} : l = (j # None) OBVIOUS
<1>2. Loaded(path, j) = [path |-> path, boot |-> TRUE, token |-> j, session |-> l,
                         login |-> FALSE, asks |-> 0, failed |-> FALSE]
  BY <1>1 DEF Loaded
<1>3. Loaded(path, j) \in TabType(n) BY <1>1, <1>2 DEF TabType
<1> QED BY <1>1, <1>2, <1>3

LEMMA ToTabType ==
  ASSUME NEW n, NEW x \in TabType(n), NEW q \in RequestType(n) PROVE ToTab(x, q) \in TabType(n)
<1>1. q.issued \in Jtis(n) \cup {None} /\ x.asks \in Nat BY DEF RequestType, TabType
<1>2. ToTab(x, q) \in {x, Loaded("page", q.issued),
                       [x EXCEPT !.token = q.issued, !.path = "page", !.session = TRUE,
                                 !.login = FALSE, !.failed = FALSE],
                       [x EXCEPT !.token = None, !.asks = @ + 1]}
  BY DEF ToTab
<1>3. Loaded("page", q.issued) \in TabType(n) BY <1>1, LoadedType
<1>4. [x EXCEPT !.token = q.issued, !.path = "page", !.session = TRUE,
                !.login = FALSE, !.failed = FALSE] \in TabType(n)
  BY <1>1 DEF TabType
<1>5. [x EXCEPT !.token = None, !.asks = @ + 1] \in TabType(n)
  <2>1. PICK k \in Nat : k = x.asks + 1 BY <1>1
  <2>2. [x EXCEPT !.token = None, !.asks = k] \in TabType(n) BY DEF TabType
  <2> QED BY <2>1, <2>2
<1> QED BY <1>2, <1>3, <1>4, <1>5

(* the page h's answer loads in its tab, if it does *)
Loads(h) == slot[h].who \in Tabs /\ tab'[slot[h].who].boot

LEMMA DeliverEffect ==
  ASSUME TypeInv, NEW h \in Slots, Deliver(h)
  PROVE  /\ TypeInv' /\ TokensKept /\ N' = N /\ slot[h].pc = "answer" /\ slot'[h] = Idle
         /\ \A g \in Slots \ {h} :
              IF Loads(h) /\ slot[g].who = slot[h].who THEN Dropped(slot[g], slot'[g]) ELSE slot'[g] = slot[g]
         /\ \A c \in Clients : client'[c] = IF c = slot[h].who THEN ToClient(client[c], slot[h]) ELSE client[c]
         /\ \A t \in Tabs : tab'[t] = IF t = slot[h].who THEN ToTab(tab[t], slot[h]) ELSE tab[t]
<1> DEFINE who == slot[h].who
           f == IF Loads(h) THEN Abandoned(who) ELSE slot
<1>1. slot[h].pc = "answer" /\ tokens' = tokens BY DEF Deliver
<1>0. N \in Nat /\ slot[h] \in RequestType(N) BY Counts, SlotParts
<1>2. /\ client' \in [Clients -> ClientType(N)]
      /\ \A c \in Clients : client'[c] = IF c = who THEN ToClient(client[c], slot[h]) ELSE client[c]
  <2>1. client' = IF who \in Clients THEN [client EXCEPT ![who] = ToClient(client[who], slot[h])] ELSE client
    BY DEF Deliver, TypeInv
  <2>2. CASE who \in Clients
    <3>1. ToClient(client[who], slot[h]) \in ClientType(N) BY <1>0, <2>2, ClientParts, ToClientType
    <3> QED BY <2>1, <2>2, <3>1 DEF TypeInv
  <2>3. CASE who \notin Clients BY <2>1, <2>3 DEF TypeInv
  <2> QED BY <2>2, <2>3
<1>3. /\ tab' \in [Tabs -> TabType(N)]
      /\ \A t \in Tabs : tab'[t] = IF t = who THEN ToTab(tab[t], slot[h]) ELSE tab[t]
  <2>1. tab' = IF who \in Tabs THEN [tab EXCEPT ![who] = ToTab(tab[who], slot[h])] ELSE tab
    BY DEF Deliver, TypeInv
  <2>2. CASE who \in Tabs
    <3>1. ToTab(tab[who], slot[h]) \in TabType(N) BY <1>0, <2>2, TabParts, ToTabType
    <3> QED BY <2>1, <2>2, <3>1 DEF TypeInv
  <2>3. CASE who \notin Tabs BY <2>1, <2>3 DEF TypeInv
  <2> QED BY <2>2, <2>3
<1>4. slot' = [f EXCEPT ![h] = Idle] BY DEF Deliver, Loads
<1>5. /\ f \in [Slots -> RequestType(N)] /\ \A g \in Slots : Sensible(f[g])
      /\ \A g \in Slots : IF Loads(h) /\ slot[g].who = who THEN Dropped(slot[g], f[g]) ELSE f[g] = slot[g]
  <2>1. CASE Loads(h)
    <3>1. who \in Tabs /\ f = Abandoned(who) BY <2>1 DEF Loads
    <3> HIDE DEF f
    <3>2. /\ f \in [Slots -> RequestType(N)] /\ \A g \in Slots : Sensible(f[g]) /\ f[g].who # who
          /\ \A g \in Slots : f[g] = slot[g] \/ (slot[g].who = who /\ Dropped(slot[g], f[g]))
      BY <3>1, AbandonKeep
    <3> QED BY <2>1, <3>2
  <2>2. CASE ~Loads(h) BY <2>2, SlotParts DEF TypeInv
  <2> QED BY <2>1, <2>2
<1> HIDE DEF f
<1>6. slot' \in [Slots -> RequestType(N)] /\ \A g \in Slots : Sensible(slot'[g])
  BY <1>0, <1>4, <1>5, IdleType
<1>7. /\ slot'[h] = Idle
      /\ \A g \in Slots \ {h} :
           IF Loads(h) /\ slot[g].who = who THEN Dropped(slot[g], slot'[g]) ELSE slot'[g] = slot[g]
  BY <1>4, <1>5
<1>8. TypeInv' BY <1>1, <1>2, <1>3, <1>6, TypesSame DEF Deliver, TypeInv
<1> QED BY <1>1, <1>2, <1>3, <1>7, <1>8, TypesSame

Others(t) == \A u \in Tabs \ {t} : tab'[u] = tab[u]

LEMMA TabEffect ==
  ASSUME TypeInv, NEW t \in Tabs, NEW x, x \in TabType(N), tab' = [tab EXCEPT ![t] = x]
  PROVE  tab' \in [Tabs -> TabType(N)] /\ tab'[t] = x /\ Others(t)
BY DEF TypeInv, Others

LEMMA BootedEffect ==
  ASSUME TypeInv, NEW t \in Tabs, Booted(t)
  PROVE  /\ TypeInv' /\ TokensKept /\ N' = N /\ Others(t)
         /\ tab'[t].path = tab[t].path /\ tab'[t].token = tab[t].token
         /\ tab'[t].session = tab[t].session /\ tab'[t].asks = tab[t].asks /\ tab'[t].failed = tab[t].failed
         /\ tab[t].boot /\ ~tab'[t].boot /\ tab'[t].login = (tab[t].token = None)
<1>1. PICK l \in {TRUE, FALSE} : l = (tab[t].token = None) OBVIOUS
<1> DEFINE x == [tab[t] EXCEPT !.boot = FALSE, !.login = l]
<1>2. tab' = [tab EXCEPT ![t] = x]
  <2>1. tab' = [tab EXCEPT ![t].boot = FALSE, ![t].login = tab[t].token = None] BY DEF Booted
  <2> QED BY <1>1, <2>1 DEF TypeInv
<1>3. x \in TabType(N) BY <1>1, TabParts DEF TabType
<1>4. /\ x.path = tab[t].path /\ x.token = tab[t].token /\ x.session = tab[t].session
      /\ x.asks = tab[t].asks /\ x.failed = tab[t].failed /\ x.boot = FALSE /\ x.login = l
  BY TabParts DEF TabType
<1> HIDE DEF x
<1>5. tab' \in [Tabs -> TabType(N)] /\ tab'[t] = x /\ Others(t) BY <1>2, <1>3, TabEffect
<1>6. tokens' = tokens /\ tab[t].boot BY DEF Booted
<1>7. TypeInv' BY <1>5, <1>6, TypesSame DEF Booted, TypeInv
<1> QED BY <1>1, <1>4, <1>5, <1>6, <1>7, TypesSame

LEMMA UnauthorizedEffect ==
  ASSUME TypeInv, NEW t \in Tabs, Unauthorized(t)
  PROVE  /\ TypeInv' /\ TokensKept /\ N' = N /\ Others(t)
         /\ tab'[t].path = tab[t].path /\ tab'[t].token = tab[t].token /\ tab'[t].boot = tab[t].boot
         /\ ~tab'[t].session /\ tab'[t].login
<1> DEFINE x == [SignedOut(tab[t]) EXCEPT !.asks = tab[t].asks - 1]
<1>1. tokens' = tokens /\ tab[t].asks > 0 BY DEF Unauthorized
<1>2. tab' = [tab EXCEPT ![t] = x]
  <2>2. SignedOut(tab[t]).asks = tab[t].asks BY TabParts DEF SignedOut, TabType
  <2>3. tab' = [tab EXCEPT ![t] = [SignedOut(tab[t]) EXCEPT !.asks = @ - 1]] BY DEF Unauthorized
  <2> HIDE DEF SignedOut
  <2>4. [SignedOut(tab[t]) EXCEPT !.asks = @ - 1] = x BY <2>2
  <2> QED BY <2>3, <2>4
<1>3. PICK k \in Nat : k = tab[t].asks - 1 BY <1>1, TabParts
<1>4. x = [[tab[t] EXCEPT !.login = TRUE, !.session = FALSE, !.failed = FALSE] EXCEPT !.asks = k]
  BY <1>3 DEF SignedOut
<1>5. x \in TabType(N)
  <2>1. [tab[t] EXCEPT !.login = TRUE, !.session = FALSE, !.failed = FALSE] \in TabType(N)
    BY TabParts DEF TabType
  <2> QED BY <1>4, <2>1 DEF TabType
<1>6. /\ x.path = tab[t].path /\ x.token = tab[t].token /\ x.boot = tab[t].boot
      /\ x.session = FALSE /\ x.login = TRUE
  BY <1>4, TabParts DEF TabType
<1> HIDE DEF x
<1>7. tab' \in [Tabs -> TabType(N)] /\ tab'[t] = x /\ Others(t) BY <1>2, <1>5, TabEffect
<1>8. TypeInv' BY <1>1, <1>7, TypesSame DEF Unauthorized, TypeInv
<1> QED BY <1>1, <1>6, <1>7, <1>8, TypesSame

LEMMA StatusEffect ==
  ASSUME TypeInv, NEW t \in Tabs, StatusFails(t)
  PROVE  /\ TypeInv' /\ TokensKept /\ N' = N /\ Others(t) /\ ScenarioRest
         /\ tab'[t].path = tab[t].path /\ tab'[t].token = tab[t].token
         /\ tab'[t].session = tab[t].session /\ tab'[t].failed /\ ~tab'[t].boot
<1>1. tokens' = tokens /\ Fault /\ (tab[t].boot \/ tab[t].asks > 0) BY DEF StatusFails
<1>a. scenario' \in ScenarioType /\ ScenarioRest BY <1>1, FaultKeep
<1>b. tab[t].boot \in BOOLEAN BY TabParts DEF TabType
<1>2. CASE tab[t].boot
  <2> DEFINE x == [tab[t] EXCEPT !.boot = FALSE, !.failed = TRUE]
  <2>1. tab' = [tab EXCEPT ![t] = x] BY <1>2 DEF StatusFails, TypeInv
  <2>2. x \in TabType(N) BY TabParts DEF TabType
  <2>3. /\ x.path = tab[t].path /\ x.token = tab[t].token /\ x.session = tab[t].session
        /\ x.boot = FALSE /\ x.failed = TRUE
    BY TabParts DEF TabType
  <2> HIDE DEF x
  <2>4. tab' \in [Tabs -> TabType(N)] /\ tab'[t] = x /\ Others(t) BY <2>1, <2>2, TabEffect
  <2>5. TypeInv' BY <1>1, <1>a, <2>4, TypesSame DEF StatusFails, TypeInv
  <2> QED BY <1>1, <1>a, <2>3, <2>4, <2>5, TypesSame
<1>3. CASE tab[t].boot = FALSE
  <2>a. tab[t].asks > 0 BY <1>1, <1>3
  <2>b. PICK k \in Nat : k = tab[t].asks - 1 BY <2>a, TabParts
  <2> DEFINE x == [tab[t] EXCEPT !.asks = k, !.failed = TRUE]
  <2>1. tab' = [tab EXCEPT ![t] = x]
    <3>1. tab' = [tab EXCEPT ![t] = IF tab[t].boot THEN [tab[t] EXCEPT !.boot = FALSE, !.failed = TRUE]
                                    ELSE [tab[t] EXCEPT !.asks = tab[t].asks - 1, !.failed = TRUE]]
      BY DEF StatusFails
    <3> QED BY <1>3, <2>b, <3>1
  <2>2. x \in TabType(N) BY TabParts DEF TabType
  <2>3. /\ x.path = tab[t].path /\ x.token = tab[t].token /\ x.session = tab[t].session
        /\ x.boot = tab[t].boot /\ x.failed = TRUE
    BY TabParts DEF TabType
  <2> HIDE DEF x
  <2>4. tab' \in [Tabs -> TabType(N)] /\ tab'[t] = x /\ Others(t) BY <2>1, <2>2, TabEffect
  <2>5. TypeInv' BY <1>1, <1>a, <2>4, TypesSame DEF StatusFails, TypeInv
  <2> QED BY <1>1, <1>3, <1>a, <2>3, <2>4, <2>5, TypesSame
<1> QED BY <1>2, <1>3, <1>b

(* the page of t is left for another *)
Leaves(t, path, token) ==
  /\ tab' = [tab EXCEPT ![t] = Loaded(path, token)]
  /\ slot' = Abandoned(t)

LEMMA LeavesKeep ==
  ASSUME TypeInv, NEW t \in Tabs, NEW path \in {"page", "login", "register"}, NEW j \in Jtis(N) \cup {None},
         Leaves(t, path, j), UNCHANGED <<scenario, db, server, tokens, client, time, history>>
  PROVE  /\ TypeInv' /\ TokensKept /\ N' = N /\ Others(t)
         /\ tab'[t].boot /\ tab'[t].token = j /\ tab'[t].session = (j # None)
         /\ \A g \in Slots : slot'[g].who # t
         /\ \A g \in Slots : slot'[g] = slot[g] \/ (slot[g].who = t /\ Dropped(slot[g], slot'[g]))
<1> DEFINE x == Loaded(path, j)
<1>a. x \in TabType(N) BY LoadedType
<1>b. x.boot = TRUE /\ x.token = j BY DEF Loaded
<1>c. x.session = (j # None) BY DEF Loaded
<1>1. x \in TabType(N) /\ x.boot = TRUE /\ x.token = j /\ x.session = (j # None) BY <1>a, <1>b, <1>c
<1> HIDE DEF x
<1>2. tab' = [tab EXCEPT ![t] = x] /\ slot' = Abandoned(t) BY DEF Leaves, x
<1>3. tab' \in [Tabs -> TabType(N)] /\ tab'[t] = x /\ Others(t) BY <1>1, <1>2, TabEffect
<1>4. /\ slot' \in [Slots -> RequestType(N)] /\ \A g \in Slots : Sensible(slot'[g]) /\ slot'[g].who # t
      /\ \A g \in Slots : slot'[g] = slot[g] \/ (slot[g].who = t /\ Dropped(slot[g], slot'[g]))
  BY <1>2, AbandonKeep
<1>5. TypeInv' BY <1>3, <1>4, TypesSame DEF TypeInv
<1> QED BY <1>1, <1>3, <1>4, <1>5, TypesSame

LEMMA LeaveEffect ==
  ASSUME TypeInv, NEW t \in Tabs, Redirect(t) \/ TabLogout(t)
  PROVE  /\ TypeInv' /\ TokensKept /\ N' = N /\ Others(t)
         /\ tab'[t].boot /\ tab'[t].session = (tab'[t].token # None)
         /\ \A g \in Slots : slot'[g].who # t
         /\ \A g \in Slots : slot'[g] = slot[g] \/ (slot[g].who = t /\ Dropped(slot[g], slot'[g]))
<1>1. CASE Redirect(t)
  <2>1. tab[t].token \in Jtis(N) \cup {None} BY TabParts
  <2>2. Leaves(t, "page", tab[t].token) BY <1>1 DEF Redirect, Leaves, TypeInv
  <2>3. UNCHANGED <<scenario, db, server, tokens, client, time, history>> BY <1>1 DEF Redirect
  <2> QED BY <2>1, <2>2, <2>3, LeavesKeep
<1>2. CASE TabLogout(t)
  <2>1. Leaves(t, "login", None) BY <1>2 DEF TabLogout, Leaves
  <2>2. UNCHANGED <<scenario, db, server, tokens, client, time, history>> BY <1>2 DEF TabLogout
  <2> QED BY <2>1, <2>2, LeavesKeep
<1> QED BY <1>1, <1>2

(* A request q reaches process s and its rate limiter. *)
Entered(h, s, c, q) ==
  /\ ChangedAt(h) /\ Kept(q, slot'[h]) /\ slot'[h].issued = q.issued
  /\ \/ /\ Allowed(s, c) /\ slot'[h].pc = q.pc /\ slot'[h].status = q.status
        /\ history'.accepted = Accepted(s, c).accepted
     \/ /\ ~Allowed(s, c) /\ slot'[h].pc = "answer" /\ slot'[h].status = 429
        /\ history'.accepted = history.accepted
  /\ HistoryRest(history, history') /\ MemoryRest
  /\ \A x \in Servers, d \in Senders :
       server'[x].bucket[d] = IF x = s /\ d = c THEN Counted(s, c) ELSE server[x].bucket[d]

LEMMA ArrivesEffect ==
  ASSUME TypeInv, NEW h \in Slots, NEW s \in Servers, NEW c \in Senders, NEW kind \in Kinds,
         Sends(h, s, kind), NEW q \in RequestType(N), Sensible(q), q.pc # "idle", Arrives(h, s, c, q)
  PROVE  /\ TypeInv' /\ TokensKept /\ N' = N /\ ScenarioRest /\ slot[h].pc = "idle"
         /\ Entered(h, s, c, q)
<1> DEFINE r == IF Allowed(s, c) THEN q ELSE Answer(q, 429)
<1>0. N \in Nat /\ tokens' = tokens BY Counts DEF Arrives
<1>1. /\ r \in RequestType(N) /\ Sensible(r) /\ Kept(q, r) /\ r.issued = q.issued
      /\ \/ Allowed(s, c) /\ r.pc = q.pc /\ r.status = q.status
         \/ ~Allowed(s, c) /\ r.pc = "answer" /\ r.status = 429
  <2>1. CASE Allowed(s, c) BY <2>1 DEF Kept, Alike
  <2>2. CASE ~Allowed(s, c)
    <3> DEFINE n == N
    <3>1. r = Answer(q, 429) /\ n \in Nat /\ q \in RequestType(n) BY <1>0, <2>2
    <3> HIDE DEF r, n
    <3>2. r \in RequestType(n) /\ Alike(q, r) /\ r.who = q.who /\ r.across = q.across
      BY <3>1, AnswerEffect
    <3>3. r.issued = q.issued /\ r.status = 429 /\ r.pc = "answer" BY <3>1, AnswerEffect
    <3>4. Sensible(r) BY <3>2, <3>3 DEF Sensible, Alike
    <3> QED BY <2>2, <3>2, <3>3, <3>4 DEF Kept, n
  <2> QED BY <2>1, <2>2
<1>2. slot' = [slot EXCEPT ![h] = r] BY DEF Arrives
<1> HIDE DEF r
<1>3. slot' \in [Slots -> RequestType(N)] /\ slot'[h] = r /\ ChangedAt(h)
  BY <1>1, <1>2 DEF TypeInv, ChangedAt
<1>4. \A g \in Slots : Sensible(slot'[g]) BY <1>1, <1>3, SlotParts DEF ChangedAt
<1>5. /\ server' \in [Servers -> ServerType(N)] /\ MemoryRest
      /\ \A x \in Servers, d \in Senders :
           server'[x].bucket[d] = IF x = s /\ d = c THEN Counted(s, c) ELSE server[x].bucket[d]
  <2>1. server' = [server EXCEPT ![s].bucket[c] = Counted(s, c)] BY DEF Arrives
  <2> QED BY <2>1, CountedKeep, ZenonT(40)
<1>6. scenario' \in ScenarioType /\ ScenarioRest /\ slot[h].pc = "idle" BY SendsKeep
<1>7. /\ history' \in HistoryType(N) /\ HistoryRest(history, history')
      /\ history'.accepted = IF Allowed(s, c) THEN Accepted(s, c).accepted ELSE history.accepted
  <2>1. CASE Allowed(s, c)
    <3>1. history' = Accepted(s, c) BY <2>1 DEF Arrives
    <3> QED BY <2>1, <3>1, AcceptedKeep
  <2>2. CASE ~Allowed(s, c)
    <3>1. history' = history BY <2>2 DEF Arrives
    <3> QED BY <2>2, <3>1, HistoryParts DEF HistoryRest
  <2> QED BY <2>1, <2>2
<1>8. TypeInv' BY <1>0, <1>3, <1>4, <1>5, <1>6, <1>7, TypesSame DEF Arrives, TypeInv
<1>9. Entered(h, s, c, q) BY <1>1, <1>3, <1>5, <1>7 DEF Entered
<1> QED BY <1>0, <1>6, <1>8, <1>9, TypesSame

(* what a request that came without a token brings *)
Anonymous(h, s, c, kind, pc, u) ==
  \E q : /\ Entered(h, s, c, q)
         /\ q.pc = pc /\ q.from = c /\ q.who = c /\ q.at = s /\ q.kind = kind /\ q.user = u
         /\ q.since = history.forgets[u] /\ ~q.across /\ q.issued = None /\ q.jti = None
         /\ ~q.late /\ q.status = 0

LEMMA LoginStep ==
  ASSUME TypeInv, NEW h \in Slots, NEW s \in Servers, NEW c \in Senders, Login(h, s, c)
  PROVE  /\ TypeInv' /\ TokensKept /\ N' = N /\ ScenarioRest /\ slot[h].pc = "idle"
         /\ \E u \in AllUsers : Anonymous(h, s, c, "login", "verify", u)
<1>1. PICK e \in (Users \X Passwords) \cup {<<EnvUser, EnvPassword>>} :
        /\ Sends(h, s, "login")
        /\ Arrives(h, s, c, [Request("verify", s, c, "login") EXCEPT
             !.user = e[1], !.password = e[2], !.since = history.forgets[e[1]]])
  BY DEF Login
<1>2. PICK u \in AllUsers, p \in Passwords \cup {EnvPassword} : e = <<u, p>> BY DEF AllUsers
<1>3. PICK k \in Nat : k = history.forgets[u] BY HistoryParts
<1> DEFINE n == N
           q0 == Request("verify", s, c, "login")
           q == WithAccount(q0, u, p, k)
<1>4. n \in Nat /\ "verify" \in Stages /\ "login" \in Kinds BY Counts DEF Stages, Kinds
<1>5. Arrives(h, s, c, q) BY <1>1, <1>2, <1>3 DEF WithAccount
<1>a. q0 = Request("verify", s, c, "login") OBVIOUS
<1>b. q = WithAccount(q0, u, p, k) OBVIOUS
<1> HIDE DEF n, q0, q
<1>c. q0 \in RequestType(n) BY <1>4, <1>a, SentType
<1>6. /\ q0.pc = "verify" /\ q0.at = s /\ q0.from = c /\ q0.who = c
      /\ q0.kind = "login" /\ q0.status = 0 /\ q0.parent = None /\ q0.issued = None
      /\ ~q0.across /\ q0.jti = None /\ ~q0.late
  BY <1>a, SentEffect
<1>7. /\ q \in RequestType(n) /\ q.pc = q0.pc /\ q.at = q0.at /\ q.from = q0.from /\ q.who = q0.who
      /\ q.kind = q0.kind /\ q.user = u /\ q.password = p /\ q.since = k
  BY <1>2, <1>3, <1>4, <1>6, <1>b, <1>c, LoginEffect
<1>8. /\ q.across = q0.across
      /\ q.parent = q0.parent /\ q.issued = q0.issued /\ q.jti = q0.jti /\ q.late = q0.late
      /\ q.status = q0.status
  BY <1>2, <1>3, <1>4, <1>6, <1>b, <1>c, LoginEffect
<1>9. Sensible(q) /\ q.pc # "idle" BY <1>6, <1>7, <1>8 DEF Sensible, Kinds
<1>10. /\ TypeInv' /\ TokensKept /\ N' = N /\ ScenarioRest /\ slot[h].pc = "idle" /\ Entered(h, s, c, q)
  BY <1>1, <1>4, <1>5, <1>7, <1>9, ArrivesEffect DEF n
<1>11. Anonymous(h, s, c, "login", "verify", u) BY <1>3, <1>6, <1>7, <1>8, <1>10 DEF Anonymous
<1> QED BY <1>10, <1>11

LEMMA RegisterStep ==
  ASSUME TypeInv, NEW h \in Slots, NEW s \in Servers, NEW c \in Senders, Register(h, s, c)
  PROVE  /\ TypeInv' /\ TokensKept /\ N' = N /\ ScenarioRest /\ slot[h].pc = "idle"
         /\ \E u \in AllUsers : Anonymous(h, s, c, "register", "insert", u)
<1>1. PICK u \in Users, p \in Passwords :
        /\ Sends(h, s, "register")
        /\ Arrives(h, s, c, [Request("insert", s, c, "register") EXCEPT
             !.user = u, !.password = p, !.since = history.forgets[u]])
  BY DEF Register
<1>2. u \in AllUsers /\ p \in Passwords \cup {EnvPassword} BY DEF AllUsers
<1>3. PICK k \in Nat : k = history.forgets[u] BY <1>2, HistoryParts
<1> DEFINE n == N
           q0 == Request("insert", s, c, "register")
           q == WithAccount(q0, u, p, k)
<1>4. n \in Nat /\ "insert" \in Stages /\ "register" \in Kinds BY Counts DEF Stages, Kinds
<1>5. Arrives(h, s, c, q) BY <1>1, <1>3 DEF WithAccount
<1>a. q0 = Request("insert", s, c, "register") OBVIOUS
<1>b. q = WithAccount(q0, u, p, k) OBVIOUS
<1> HIDE DEF n, q0, q
<1>c. q0 \in RequestType(n) BY <1>4, <1>a, SentType
<1>6. /\ q0.pc = "insert" /\ q0.at = s /\ q0.from = c /\ q0.who = c
      /\ q0.kind = "register" /\ q0.status = 0 /\ q0.parent = None /\ q0.issued = None
      /\ ~q0.across /\ q0.jti = None /\ ~q0.late
  BY <1>a, SentEffect
<1>7. /\ q \in RequestType(n) /\ q.pc = q0.pc /\ q.at = q0.at /\ q.from = q0.from /\ q.who = q0.who
      /\ q.kind = q0.kind /\ q.user = u /\ q.password = p /\ q.since = k
  BY <1>2, <1>4, <1>6, <1>b, <1>c, LoginEffect
<1>8. /\ q.across = q0.across
      /\ q.parent = q0.parent /\ q.issued = q0.issued /\ q.jti = q0.jti /\ q.late = q0.late
      /\ q.status = q0.status
  BY <1>2, <1>4, <1>6, <1>b, <1>c, LoginEffect
<1>9. Sensible(q) /\ q.pc # "idle" BY <1>2, <1>6, <1>7, <1>8 DEF Sensible, Kinds
<1>10. /\ TypeInv' /\ TokensKept /\ N' = N /\ ScenarioRest /\ slot[h].pc = "idle" /\ Entered(h, s, c, q)
  BY <1>1, <1>4, <1>5, <1>7, <1>9, ArrivesEffect DEF n
<1>11. Anonymous(h, s, c, "register", "insert", u) BY <1>3, <1>6, <1>7, <1>8, <1>10 DEF Anonymous
<1> QED BY <1>2, <1>10, <1>11

LEMMA RefreshStep ==
  ASSUME TypeInv, NEW h \in Slots, NEW s \in Servers, NEW c \in Clients, Refresh(h, s, c),
         NEW i, i = client[c].refresh
  PROVE  /\ TypeInv' /\ TokensKept /\ N' = N /\ ScenarioRest /\ slot[h].pc = "idle" /\ i \in Jtis(N)
         /\ \E q : /\ Entered(h, s, c, q)
                   /\ q.pc = "consume" /\ q.from = c /\ q.who = c /\ q.at = s /\ q.kind = "refresh"
                   /\ q.user = tokens[i].user /\ q.since = history.forgets[tokens[i].user]
                   /\ q.parent = i /\ ~q.across /\ q.issued = None /\ q.jti = None
                   /\ ~q.late /\ q.status = 0
<1>1. i \in Jtis(N) BY ClientParts DEF Refresh
<1>2. PICK u \in AllUsers : u = tokens[i].user BY <1>1, Counts DEF TokenType
<1>3. PICK k \in Nat : k = history.forgets[u] BY <1>2, HistoryParts
<1> DEFINE n == N
           q0 == Request("consume", s, c, "refresh")
           q == WithParent(q0, u, i, k)
<1>4. n \in Nat /\ "consume" \in Stages /\ "refresh" \in Kinds /\ c \in Senders /\ i \in Jtis(n)
  BY <1>1, Counts DEF Stages, Kinds, Senders
<1>5. Sends(h, s, "refresh") /\ Arrives(h, s, c, q) BY <1>2, <1>3 DEF Refresh, WithParent
<1>a. q0 = Request("consume", s, c, "refresh") OBVIOUS
<1>b. q = WithParent(q0, u, i, k) OBVIOUS
<1> HIDE DEF n, q0, q
<1>c. q0 \in RequestType(n) BY <1>4, <1>a, SentType
<1>6. /\ q0.pc = "consume" /\ q0.at = s /\ q0.from = c /\ q0.who = c
      /\ q0.kind = "refresh" /\ q0.status = 0 /\ q0.issued = None
      /\ ~q0.across /\ q0.jti = None /\ ~q0.late
  BY <1>a, SentEffect
<1>e. q \in RequestType(n) BY <1>2, <1>3, <1>4, <1>b, <1>c, ZenonT(40) DEF WithParent, RequestType
<1>f. q.pc = q0.pc /\ q.at = q0.at /\ q.from = q0.from /\ q.who = q0.who
  BY <1>b, <1>c DEF WithParent, RequestType
<1>g. q.kind = q0.kind /\ q.user = u /\ q.parent = i /\ q.since = k
  BY <1>b, <1>c DEF WithParent, RequestType
<1>7. /\ q \in RequestType(n) /\ q.pc = q0.pc /\ q.at = q0.at /\ q.from = q0.from /\ q.who = q0.who
      /\ q.kind = q0.kind /\ q.user = u /\ q.parent = i /\ q.since = k
  BY <1>e, <1>f, <1>g
<1>8. q.across = q0.across /\ q.issued = q0.issued /\ q.jti = q0.jti /\ q.late = q0.late /\ q.status = q0.status
  BY <1>2, <1>3, <1>4, <1>b, <1>c DEF WithParent, RequestType
<1>d. i # None BY DEF Refresh
<1>9. Sensible(q) /\ q.pc # "idle" BY <1>2, <1>4, <1>6, <1>7, <1>8, <1>d DEF Sensible, Kinds
<1>10. /\ TypeInv' /\ TokensKept /\ N' = N /\ ScenarioRest /\ slot[h].pc = "idle" /\ Entered(h, s, c, q)
  BY <1>4, <1>5, <1>7, <1>9, ArrivesEffect DEF n
<1> QED BY <1>1, <1>2, <1>3, <1>6, <1>7, <1>8, <1>10

LEMMA ReceivesStep ==
  ASSUME TypeInv, NEW h \in Slots, NEW s \in Servers, NEW c \in Senders, NEW kind \in {"call", "logout"},
         NEW j \in Jtis(N) \cup {None}, NEW route \in ProtectedRoutes, Receives(h, s, c, kind, j, route)
  PROVE  /\ TypeInv' /\ TokensKept /\ N' = N /\ ScenarioRest /\ slot[h].pc = "idle" /\ ChangedAt(h)
         /\ slot'[h].from = c /\ slot'[h].who = c /\ slot'[h].at = s /\ slot'[h].kind = kind
         /\ slot'[h].jti = j /\ slot'[h].route = route /\ slot'[h].issued = None /\ slot'[h].parent = None
         /\ (slot'[h].late => j \in history.loggedOut)
         /\ \/ Access(j, route) # 200 /\ slot'[h].pc = "answer" /\ slot'[h].status = Access(j, route)
            \/ j \in server[s].revoked /\ slot'[h].pc = "answer" /\ slot'[h].status = 401
            \/ Access(j, route) = 200 /\ slot'[h].pc = "check" /\ slot'[h].status = 0
<1> DEFINE n == N
           access == Access(j, route)
           q0 == Request("check", s, c, kind)
           q1 == WithRoute(q0, j, route)
           q == WithLate(q1, j \in history.loggedOut)
           r == IF access # 200 THEN Answer(q, access) ELSE IF j \in server[s].revoked THEN Answer(q, 401) ELSE q
<1>2. n \in Nat /\ "check" \in Stages /\ kind \in Kinds /\ j \in Jtis(n) \cup {None}
  BY Counts DEF Stages, Kinds
<1>3. Sends(h, s, kind) /\ tokens' = tokens BY DEF Receives
<1>5. q = [q0 EXCEPT !.jti = j, !.route = route, !.late = j \in history.loggedOut]
  BY DEF WithRoute, WithLate, Request, Idle
<1>6. slot' = [slot EXCEPT ![h] = r] BY <1>5, ZenonT(40) DEF Receives
<1>a. q0 = Request("check", s, c, kind) OBVIOUS
<1>b. q1 = WithRoute(q0, j, route) OBVIOUS
<1>c. q = WithLate(q1, j \in history.loggedOut) OBVIOUS
<1>d. r = IF access # 200 THEN Answer(q, access) ELSE IF j \in server[s].revoked THEN Answer(q, 401) ELSE q
  OBVIOUS
<1>e. access \in {200, 401, 403} BY DEF Access
<1>f. access = 200 => j # None BY DEF Access, Valid
<1>g. access = Access(j, route) OBVIOUS
<1> HIDE DEF n, q0, q1, q, r, access
<1>h. q0 \in RequestType(n) BY <1>2, <1>a, SentType
<1>7. /\ q0.pc = "check" /\ q0.at = s /\ q0.from = c /\ q0.who = c
      /\ q0.kind = kind /\ q0.status = 0 /\ q0.issued = None /\ q0.parent = None /\ ~q0.across
  BY <1>a, SentEffect
<1>i. q1 \in RequestType(n) BY <1>2, <1>b, <1>h DEF WithRoute, RequestType
<1>8. /\ q1 \in RequestType(n) /\ q1.pc = q0.pc /\ q1.at = q0.at /\ q1.from = q0.from /\ q1.who = q0.who
      /\ q1.kind = q0.kind /\ q1.parent = q0.parent
  BY <1>b, <1>h, <1>i DEF WithRoute, RequestType
<1>9. q1.issued = q0.issued /\ q1.jti = j /\ q1.route = route /\ q1.status = q0.status
  BY <1>b, <1>h DEF WithRoute, RequestType
<1>l. q \in RequestType(n)
  <2>1. CASE j \in history.loggedOut
    <3>1. q = WithLate(q1, TRUE) BY <1>c, <2>1
    <3> QED BY <1>i, <3>1 DEF WithLate, RequestType
  <2>2. CASE ~(j \in history.loggedOut)
    <3>0. (j \in history.loggedOut) = FALSE BY <2>2
    <3>1. q = WithLate(q1, FALSE) BY <1>c, <3>0 DEF WithLate
    <3> QED BY <1>i, <3>1 DEF WithLate, RequestType
  <2> QED BY <2>1, <2>2
<1>10. /\ q \in RequestType(n) /\ q.pc = q1.pc /\ q.at = q1.at /\ q.from = q1.from /\ q.who = q1.who
       /\ q.kind = q1.kind /\ q.parent = q1.parent
  BY <1>c, <1>i, <1>l DEF WithLate, RequestType
<1>11. q.issued = q1.issued /\ q.jti = q1.jti /\ q.route = q1.route /\ q.status = q1.status
  BY <1>c, <1>i DEF WithLate, RequestType
<1>k. q.late => j \in history.loggedOut BY <1>c, <1>8 DEF WithLate, RequestType
<1>12. /\ q.pc = "check" /\ q.at = s /\ q.from = c /\ q.who = c /\ q.kind = kind /\ q.parent = None
       /\ q.issued = None /\ q.jti = j /\ q.route = route /\ q.status = 0
  BY <1>7, <1>8, <1>9, <1>10, <1>11
<1>13. /\ r \in RequestType(n) /\ Kept(q, r) /\ r.issued = q.issued
       /\ \/ access # 200 /\ r.pc = "answer" /\ r.status = access
          \/ j \in server[s].revoked /\ r.pc = "answer" /\ r.status = 401
          \/ access = 200 /\ r = q
  <2>1. ASSUME NEW status \in Nat, r = Answer(q, status)
        PROVE  r \in RequestType(n) /\ Kept(q, r) /\ r.issued = q.issued /\ r.pc = "answer" /\ r.status = status
    BY <1>2, <1>10, <2>1, AnswerEffect DEF Kept
  <2>2. CASE access # 200
    <3>1. access \in Nat /\ r = Answer(q, access) BY <1>d, <1>e, <2>2
    <3> QED BY <2>1, <2>2, <3>1
  <2>3. CASE access = 200 /\ j \in server[s].revoked
    <3>1. r = Answer(q, 401) BY <1>d, <2>3
    <3> QED BY <2>1, <2>3, <3>1
  <2>4. CASE access = 200 /\ j \notin server[s].revoked
    <3>1. r = q BY <1>d, <2>4
    <3> QED BY <1>10, <2>4, <3>1 DEF Kept, Alike
  <2> QED BY <2>2, <2>3, <2>4
<1>14. /\ r.from = c /\ r.who = c /\ r.at = s /\ r.kind = kind /\ r.parent = None
       /\ r.issued = None /\ r.jti = j /\ r.route = route /\ r.late = q.late
  BY <1>12, <1>13 DEF Kept, Alike
<1>15. r.pc \in {"answer", "check"} /\ (r.pc = "check" => j # None) BY <1>12, <1>13, <1>f
<1>16. Sensible(r) BY <1>2, <1>14, <1>15 DEF Sensible
<1>17. slot' \in [Slots -> RequestType(N)] /\ slot'[h] = r /\ ChangedAt(h)
  BY <1>6, <1>13 DEF TypeInv, ChangedAt, n
<1>18. \A g \in Slots : Sensible(slot'[g]) BY <1>16, <1>17, SlotParts DEF ChangedAt
<1>19. scenario' \in ScenarioType /\ ScenarioRest /\ slot[h].pc = "idle" BY <1>2, <1>3, SendsKeep
<1>20. TypeInv' BY <1>3, <1>17, <1>18, <1>19, TypesSame DEF Receives, TypeInv
<1>21. slot'[h].late => j \in history.loggedOut BY <1>14, <1>17, <1>k
<1> QED BY <1>3, <1>12, <1>13, <1>14, <1>17, <1>19, <1>20, <1>21, <1>g, TypesSame

LEMMA StartUpEffect ==
  ASSUME TypeInv, NEW s \in Servers, StartUp(s)
  PROVE  /\ TypeInv' /\ TokensKept /\ N' = N
         /\ \A x \in Servers : server'[x].revoked = server[x].revoked /\ server'[x].bucket = server[x].bucket
<1>1. PICK g \in {"up", "inserting"} : server' = [server EXCEPT ![s] = [server[s] EXCEPT !.stage = g]]
  BY DEF StartUp, TypeInv
<1>2. /\ [server[s] EXCEPT !.stage = g] \in ServerType(N)
      /\ [server[s] EXCEPT !.stage = g].revoked = server[s].revoked
      /\ [server[s] EXCEPT !.stage = g].bucket = server[s].bucket
  BY ServerParts DEF ServerType
<1>3. /\ server' \in [Servers -> ServerType(N)]
      /\ \A x \in Servers : server'[x].revoked = server[x].revoked /\ server'[x].bucket = server[x].bucket
  BY <1>1, <1>2 DEF TypeInv
<1>4. tokens' = tokens BY DEF StartUp
<1>5. TypeInv' BY <1>3, <1>4, TypesSame DEF StartUp, TypeInv
<1> QED BY <1>3, <1>4, <1>5, TypesSame

(* a process inserts the default account only after it found that there is one to make *)
Starting == \A s \in Servers : server[s].stage = "inserting" => scenario.default # None

LEMMA InsertDefaultEffect ==
  ASSUME TypeInv, Starting, NEW s \in Servers, InsertDefault(s)
  PROVE  /\ TypeInv' /\ TokensKept /\ N' = N
         /\ db'.refresh = db.refresh /\ db'.revoked = db.revoked
         /\ \A u \in Users : db.accounts[u] # None => db'.accounts[u] = db.accounts[u]
         /\ \A x \in Servers : server'[x].revoked = server[x].revoked /\ server'[x].bucket = server[x].bucket
<1> DEFINE v == [server[s] EXCEPT !.stage = "up"]
           a == Inserted(db.accounts, scenario.default, DefaultPassword)
<1>1. server[s].stage = "inserting" /\ tokens' = tokens BY DEF InsertDefault
<1>2. scenario.default \in Users BY <1>1, ScenarioParts DEF Starting
<1>3. /\ a \in [Users -> Passwords \cup {DefaultPassword, None}]
      /\ \A u \in Users : db.accounts[u] # None => a[u] = db.accounts[u]
  BY <1>2, DbParts DEF Inserted
<1>4. db' = [db EXCEPT !.accounts = a] BY DbParts DEF InsertDefault, DbType
<1> HIDE DEF a
<1>5. db' \in DbType(N) /\ db'.accounts = a /\ db'.refresh = db.refresh /\ db'.revoked = db.revoked
  BY <1>3, <1>4, DbParts, AccountsEffect
<1>6. server' = [server EXCEPT ![s] = v] BY DEF InsertDefault, TypeInv
<1>7. v \in ServerType(N) /\ v.revoked = server[s].revoked /\ v.bucket = server[s].bucket
  BY ServerParts DEF ServerType
<1> HIDE DEF v
<1>8. /\ server' \in [Servers -> ServerType(N)]
      /\ \A x \in Servers : server'[x].revoked = server[x].revoked /\ server'[x].bucket = server[x].bucket
  BY <1>6, <1>7 DEF TypeInv
<1>9. TypeInv' BY <1>1, <1>5, <1>8, TypesSame DEF InsertDefault, TypeInv
<1> QED BY <1>1, <1>3, <1>5, <1>8, <1>9, TypesSame

LEMMA AdvanceEffect ==
  ASSUME TypeInv, Advance PROVE TypeInv' /\ TokensKept /\ N' = N
<1>1. tokens' = tokens /\ time' \in 0 .. MaxTime BY BoundsAssumption DEF Advance, TypeInv
<1>2. TypeInv' BY <1>1, TypesSame DEF Advance, TypeInv
<1> QED BY <1>1, <1>2, TypesSame

LEMMA SilentEffect ==
  ASSUME TypeInv, UNCHANGED vars PROVE TypeInv' /\ TokensKept /\ N' = N
<1>1. tokens' = tokens BY DEF vars
<1>2. TypeInv' BY TypesSame DEF vars, TypeInv
<1> QED BY <1>1, <1>2, TypesSame

-----------------------------------------------------------------------------
(* The steps, as the invariants below split them: c may send a request.    *)
Free(c) == (c \in Clients => ~Waits(c, Kinds)) /\ (c \in Tabs => ~tab[c].boot)
Requests(h, s, c) == Free(c) /\ (Login(h, s, c) \/ Register(h, s, c))
Renews(h, s, c) == Free(c) /\ Refresh(h, s, c)
Presents(h, s, c) ==
  /\ Free(c)
  /\ \E kind \in {"call", "logout"}, j \in Jtis(N) \cup {None}, route \in ProtectedRoutes :
       Receives(h, s, c, kind, j, route)

Step(h) ==
  \/ Verify(h) \/ Insert(h) \/ Consume(h) \/ Store(h) \/ Check(h) \/ Revoke(h)
  \/ Forget(h) \/ Audit(h) \/ Deliver(h) \/ HandlerFails(h) \/ GiveUp(h)
  \/ \E s \in Servers, c \in Senders : Requests(h, s, c) \/ Presents(h, s, c)
  \/ \E s \in Servers, c \in Clients : Renews(h, s, c)
Elsewhere ==
  \/ UNCHANGED vars \/ Advance
  \/ \E s \in Servers : StartUp(s) \/ InsertDefault(s)
Shown(t) == Booted(t) \/ Unauthorized(t) \/ StatusFails(t)

LEMMA Steps ==
  ASSUME TypeInv, [Next]_vars
  PROVE  \/ \E h \in Slots : Step(h)
         \/ Elsewhere
         \/ \E s \in Servers : Crash(s)
         \/ \E t \in Tabs : Shown(t) \/ Redirect(t) \/ TabLogout(t)
<1>1. CASE UNCHANGED vars BY <1>1 DEF Elsewhere
<1>2. CASE Advance BY <1>2 DEF Elsewhere
<1>3. ASSUME NEW s \in scenario.servers, StartUp(s) \/ InsertDefault(s) \/ Crash(s)
      PROVE  Elsewhere \/ \E x \in Servers : Crash(x)
  <2>1. s \in Servers BY ScenarioParts
  <2> QED BY <1>3, <2>1 DEF Elsewhere
<1>4. ASSUME NEW h \in Slots, Handles(h) PROVE Step(h) BY <1>4 DEF Handles, Step
<1>5. ASSUME NEW h \in Slots, NEW s \in scenario.servers, NEW c \in Clients \cap scenario.senders, Asks(h, s, c)
      PROVE  Step(h)
  <2>1. s \in Servers /\ c \in Senders /\ c \in Clients BY ScenarioParts DEF Senders
  <2>2. Free(c) BY <1>5, <2>1, NamesAssumption DEF Asks, Free
  <2>3. CASE Login(h, s, c) \/ Register(h, s, c) BY <2>1, <2>2, <2>3 DEF Step, Requests
  <2>4. CASE Refresh(h, s, c) BY <2>1, <2>2, <2>4 DEF Step, Renews
  <2>5. CASE ClientCall(h, s, c)
    <3>1. PICK r \in scenario.routes : Receives(h, s, c, "call", client[c].access, r) BY <2>5 DEF ClientCall
    <3>2. r \in ProtectedRoutes /\ client[c].access \in Jtis(N) \cup {None} BY <2>1, ScenarioParts, ClientParts
    <3>3. Presents(h, s, c) BY <2>2, <3>1, <3>2 DEF Presents
    <3> QED BY <2>1, <3>3 DEF Step
  <2>6. CASE ClientLogout(h, s, c)
    <3>1. Receives(h, s, c, "logout", client[c].access, Logout) BY <2>6 DEF ClientLogout
    <3>2. Logout \in ProtectedRoutes /\ client[c].access \in Jtis(N) \cup {None}
      BY <2>1, ClientParts DEF ProtectedRoutes
    <3>3. Presents(h, s, c) BY <2>2, <3>1, <3>2 DEF Presents
    <3> QED BY <2>1, <3>3 DEF Step
  <2> QED BY <1>5, <2>3, <2>4, <2>5, <2>6 DEF Asks
<1>6. ASSUME NEW h \in Slots, NEW s \in scenario.servers, NEW t \in Tabs \cap scenario.senders,
             Submit(h, s, t) \/ TabCall(h, s, t)
      PROVE  Step(h)
  <2>1. s \in Servers /\ t \in Senders /\ t \in Tabs BY ScenarioParts DEF Senders
  <2>2. Free(t) BY <1>6, <2>1, NamesAssumption DEF Submit, TabCall, LoginShown, PageShown, Shows, Free
  <2>3. CASE Submit(h, s, t)
    <3>1. Login(h, s, t) \/ Register(h, s, t) BY <2>3 DEF Submit
    <3> QED BY <2>1, <2>2, <3>1 DEF Step, Requests
  <2>4. CASE TabCall(h, s, t)
    <3>1. PICK r \in scenario.routes : Receives(h, s, t, "call", tab[t].token, r) BY <2>4 DEF TabCall
    <3>2. r \in ProtectedRoutes /\ tab[t].token \in Jtis(N) \cup {None} BY <2>1, ScenarioParts, TabParts
    <3>3. Presents(h, s, t) BY <2>2, <3>1, <3>2 DEF Presents
    <3> QED BY <2>1, <3>3 DEF Step
  <2> QED BY <1>6, <2>3, <2>4
<1>7. ASSUME NEW t \in Tabs \cap scenario.senders, Browses(t)
      PROVE  \E u \in Tabs : Shown(u) \/ Redirect(u) \/ TabLogout(u)
  BY <1>7 DEF Browses, Shown
<1> QED BY <1>1, <1>2, <1>3, <1>4, <1>5, <1>6, <1>7 DEF Next

(* A set of naturals with a member has a least one.                        *)
LEMMA LeastNat ==
  ASSUME NEW S \in SUBSET Nat, S # {}
  PROVE  \E x \in S : \A y \in S : x <= y
<1> DEFINE R == {ss \in Nat \X Nat : ss[1] < ss[2]}
<1>1. OpToRel(<, Nat) = R BY DEF OpToRel
<1>2. IsWellFoundedOn(R, Nat) BY NatLessThanWellFounded, <1>1
<1>3. PICK x \in S : \A y \in S : <<y, x>> \notin R
  <2> HIDE DEF R
  <2> QED BY <1>2, WFMin
<1>4. \A y \in S : ~(y < x) BY <1>3
<1> QED BY <1>4

(* A set of numbers that has, with each, those below it, is an interval.   *)
LEMMA Downward ==
  ASSUME NEW b \in Nat, NEW S \in SUBSET (1 .. b), \A k \in S : \A i \in 1 .. k : i \in S
  PROVE  \E m \in Nat : S = 1 .. m
<1> DEFINE U == {k \in Nat : k + 1 \notin S}
<1>1. U \in SUBSET Nat /\ b \in U OBVIOUS
<1>2. PICK m \in U : \A k \in U : m <= k
  <2> HIDE DEF U
  <2> QED BY <1>1, LeastNat
<1>3. m \in Nat /\ m + 1 \notin S OBVIOUS
<1>4. ASSUME NEW k \in S PROVE k \in 1 .. m
  <2>1. k \in Nat /\ k >= 1 OBVIOUS
  <2>2. ~(m + 1 <= k) BY <1>3, <2>1
  <2> QED BY <1>3, <2>1, <2>2
<1>5. ASSUME NEW k \in 1 .. m PROVE k \in S
  <2>1. k - 1 \in Nat /\ k - 1 < m BY <1>3
  <2>2. k - 1 \notin U BY <1>2, <1>3, <2>1
  <2>3. (k - 1) + 1 \in S BY <2>1, <2>2
  <2>4. (k - 1) + 1 = k BY <1>3
  <2> QED BY <2>3, <2>4
<1> QED BY <1>3, <1>4, <1>5

(* No request is made, nothing stored, revoked or counted.                 *)
Begun ==
  /\ scenario.signedIn \in [Senders -> 0 .. MaxTokens]
  /\ db.refresh = {} /\ db.revoked = {}
  /\ server = [s \in Servers |-> Fresh] /\ slot = [h \in Slots |-> Idle]
  /\ \A c \in Clients : client[c].refresh = None /\ ~client[c].lost
  /\ \A t \in Tabs : tab[t].boot /\ tab[t].session = (tab[t].token # None)
  /\ history.registered = {} /\ history.loggedOut = {} /\ history.ended = {} /\ history.pairs = {}
  /\ history.revoking = {} /\ history.accepted = [s \in Servers |-> NothingAccepted]

LEMMA InitType == Init => TypeInv /\ Begun
<1> SUFFICES ASSUME Init PROVE TypeInv /\ Begun
  OBVIOUS
<1>1. scenario \in ScenarioType BY ScenariosAssumption DEF Init, ScenarioType
<1>2. scenario.signedIn \in [Senders -> 0 .. MaxTokens] /\ scenario.scopes \subseteq Scopes \cup {"*"}
      /\ scenario.accounts \in [Users -> Passwords \cup {None}] /\ scenario.path \in {"page", "login", "register"}
  BY <1>1 DEF ScenarioType
<1> DEFINE S == {k \in 1 .. MaxTokens : \E c \in Senders : k <= scenario.signedIn[c]}
           tok == [user |-> CHOOSE u \in Users : TRUE, exp |-> AccessTTL, scopes |-> scenario.scopes]
           held(c) == IF scenario.signedIn[c] = 0 THEN None ELSE scenario.signedIn[c]
<1>3. tok \in TokenType
  <2>1. (CHOOSE u \in Users : TRUE) \in AllUsers BY NamesAssumption DEF AllUsers
  <2>2. AccessTTL \in Nat BY DurationsAssumption
  <2> QED BY <1>2, <2>1, <2>2 DEF TokenType
<1>4. tokens = [k \in S |-> tok] BY DEF Init
<1>5. \E m \in Nat : S = 1 .. m
  <2>1. MaxTokens \in Nat /\ S \in SUBSET (1 .. MaxTokens) BY BoundsAssumption
  <2>2. \A k \in S : \A i \in 1 .. k : i \in S
    <3> SUFFICES ASSUME NEW k \in S, NEW i \in 1 .. k PROVE i \in S
      OBVIOUS
    <3>1. PICK c \in Senders : k <= scenario.signedIn[c] OBVIOUS
    <3>2. k \in 1 .. MaxTokens /\ scenario.signedIn[c] \in 0 .. MaxTokens BY <1>2
    <3>3. i \in 1 .. MaxTokens /\ i <= scenario.signedIn[c] BY <2>1, <3>1, <3>2
    <3> QED BY <3>3
  <2> HIDE DEF S
  <2> QED BY <2>1, <2>2, Downward
<1>6. \A c \in Senders : held(c) \in S \cup {None}
  BY <1>2, BoundsAssumption
<1>7. PICK m \in Nat : S = 1 .. m BY <1>5
<1> HIDE DEF tok, S
<1>8. tokens \in Seq(TokenType) /\ N = m /\ Jtis(N) = S BY <1>3, <1>4, <1>7 DEF N, Jtis
<1>9. db \in DbType(N) /\ db.refresh = {} /\ db.revoked = {} /\ db.accounts = scenario.accounts
  BY <1>2 DEF Init, DbType
<1>10. server \in [Servers -> ServerType(N)] /\ server = [s \in Servers |-> Fresh]
  <2>1. [c \in Senders |-> None] \in [Senders -> Bucket \cup {None}] OBVIOUS
  <2>2. Fresh \in ServerType(N) BY <2>1 DEF Fresh, ServerType
  <2> QED BY <2>2 DEF Init
<1>11. /\ slot \in [Slots -> RequestType(N)] /\ slot = [h \in Slots |-> Idle]
       /\ \A h \in Slots : Sensible(slot[h])
  BY <1>7, <1>8, IdleType DEF Init
<1>12. client \in [Clients -> ClientType(N)] /\ \A c \in Clients : client[c].refresh = None /\ ~client[c].lost
  <2>1. client = [c \in Clients |-> [access |-> held(c), refresh |-> None, lost |-> FALSE]] BY DEF Init
  <2>2. \A c \in Clients : held(c) \in Jtis(N) \cup {None} BY <1>6, <1>8 DEF Senders
  <2> HIDE DEF held
  <2>3. \A c \in Clients : [access |-> held(c), refresh |-> None, lost |-> FALSE] \in ClientType(N)
    BY <2>2 DEF ClientType
  <2> QED BY <2>1, <2>3
<1>13. /\ tab \in [Tabs -> TabType(N)]
       /\ \A t \in Tabs : tab[t].boot /\ tab[t].session = (tab[t].token # None)
  <2>1. tab = [t \in Tabs |-> Loaded(scenario.path, held(t))] BY DEF Init
  <2>2. \A t \in Tabs : held(t) \in Jtis(N) \cup {None} BY <1>6, <1>8 DEF Senders
  <2> HIDE DEF held
  <2>3. ASSUME NEW t \in Tabs
        PROVE  tab[t] \in TabType(N) /\ tab[t].boot /\ tab[t].session = (tab[t].token # None)
    <3>1. tab[t] = Loaded(scenario.path, held(t)) BY <2>1
    <3>2. tab[t] \in TabType(N) BY <1>2, <2>2, <3>1, LoadedType
    <3>3. tab[t].boot /\ tab[t].session = (tab[t].token # None) BY <3>1 DEF Loaded
    <3> QED BY <3>2, <3>3
  <2> QED BY <2>1, <2>3
<1>14. time \in 0 .. MaxTime BY BoundsAssumption DEF Init
<1>15. /\ history \in HistoryType(N)
       /\ history.registered = {} /\ history.loggedOut = {} /\ history.ended = {} /\ history.pairs = {}
       /\ history.revoking = {} /\ history.accepted = [s \in Servers |-> NothingAccepted]
  <2>1. NothingAccepted \in [Senders -> [0 .. MaxTime -> Nat]] BY DEF NothingAccepted
  <2>2. [s \in Servers |-> NothingAccepted] \in AcceptedType BY <2>1 DEF AcceptedType
  <2>3. [u \in AllUsers |-> 0] \in [AllUsers -> Nat] OBVIOUS
  <2>4. history = [registered |-> {}, revoking |-> {}, loggedOut |-> {}, ended |-> {}, pairs |-> {},
                   forgets |-> [u \in AllUsers |-> 0],
                   accepted |-> [s \in Servers |-> NothingAccepted]]
    BY DEF Init, AllUsers
  <2> QED BY <2>2, <2>3, <2>4 DEF HistoryType
<1> QED BY <1>1, <1>2, <1>8, <1>9, <1>10, <1>11, <1>12, <1>13, <1>14, <1>15 DEF TypeInv, Begun

-----------------------------------------------------------------------------
(* What a step of request h leaves of the others, and what any other step  *)
(* leaves. *)
Frozen(q, r) == Alike(q, r) /\ r.issued = q.issued /\ r.status = q.status /\ r.pc = q.pc
Rest(h) == \A g \in Slots \ {h} : Frozen(slot[g], slot'[g])
Calm ==
  /\ \A g \in Slots : (Frozen(slot[g], slot'[g]) /\ slot'[g].across = slot[g].across) \/ slot'[g] = Idle
  /\ db'.refresh = db.refresh /\ db'.revoked = db.revoked
  /\ \A u \in Users : db.accounts[u] # None => db'.accounts[u] = db.accounts[u]
  /\ \A s \in Servers : server'[s].revoked \subseteq server[s].revoked
  /\ HistoryRest(history, history') /\ N' = N /\ tokens' = tokens /\ time <= time'

LEMMA RestAt == ASSUME NEW h \in Slots, ChangedAt(h) PROVE Rest(h)
  BY DEF ChangedAt, Rest, Frozen, Alike

LEMMA StartingKept ==
  ASSUME Starting, scenario'.default = scenario.default,
         \A s \in Servers : server'[s].stage \in {server[s].stage, "down", "up"}
  PROVE  Starting'
  BY DEF Starting

LEMMA StepType ==
  ASSUME TypeInv, Starting, NEW h \in Slots, Step(h)
  PROVE  TypeInv' /\ TokensKept /\ Rest(h) /\ ScenarioRest /\ Starting' /\ time' = time
<1>a. ASSUME scenario' = scenario PROVE ScenarioRest BY <1>a DEF ScenarioRest
<1>b. ASSUME scenario' = scenario, server' = server PROVE Starting' BY <1>b DEF Starting
<1>c. ASSUME ScenarioRest, server' = server PROVE Starting' BY <1>c DEF Starting, ScenarioRest
<1>d. ASSUME ScenarioRest, MemoryRest PROVE Starting' BY <1>d DEF Starting, ScenarioRest, MemoryRest
<1>1. CASE Verify(h)
  <2>1. UNCHANGED <<scenario, server, time>> BY <1>1 DEF Verify
  <2>2. TypeInv' /\ TokensKept /\ ChangedAt(h) BY <1>1, VerifyEffect DEF Granted, Closed
  <2> QED BY <2>1, <2>2, <1>a, <1>b, RestAt
<1>2. CASE Insert(h)
  <2>1. UNCHANGED <<scenario, server, time>> BY <1>2 DEF Insert
  <2>2. TypeInv' /\ TokensKept /\ ChangedAt(h) BY <1>2, InsertEffect DEF Granted, Closed
  <2> QED BY <2>1, <2>2, <1>a, <1>b, RestAt
<1>3. CASE Consume(h)
  <2>1. UNCHANGED <<scenario, server, time>> BY <1>3 DEF Consume
  <2>2. TypeInv' /\ TokensKept /\ ChangedAt(h) BY <1>3, ConsumeEffect DEF Granted, Closed
  <2> QED BY <2>1, <2>2, <1>a, <1>b, RestAt
<1>4. CASE Store(h)
  <2>1. UNCHANGED <<scenario, server, time>> BY <1>4 DEF Store
  <2>2. TypeInv' /\ TokensKept /\ ChangedAt(h) BY <1>4, StoreEffect DEF Moved, Closed
  <2> QED BY <2>1, <2>2, <1>a, <1>b, RestAt
<1>5. CASE Check(h)
  <2>1. UNCHANGED <<scenario, time>> BY <1>5 DEF Check
  <2>2. TypeInv' /\ TokensKept /\ ChangedAt(h) /\ \A s \in Servers : server'[s].stage = server[s].stage
    BY <1>5, CheckEffect DEF Moved, Closed
  <2> QED BY <2>1, <2>2, <1>a, RestAt DEF Starting
<1>6. CASE Revoke(h)
  <2>1. UNCHANGED <<scenario, server, time>> BY <1>6 DEF Revoke
  <2>2. TypeInv' /\ TokensKept /\ ChangedAt(h) BY <1>6, RevokeEffect DEF Moved
  <2> QED BY <2>1, <2>2, <1>a, <1>b, RestAt
<1>7. CASE Forget(h)
  <2>1. UNCHANGED <<scenario, server, time>> BY <1>7 DEF Forget
  <2>2. TypeInv' /\ TokensKept BY <1>7, ForgetEffect
  <2>3. \A g \in Slots : /\ Alike(slot[g], slot'[g])
                         /\ slot'[g].issued = slot[g].issued /\ slot'[g].status = slot[g].status
                         /\ slot'[g].pc = IF g = h THEN "audit" ELSE slot[g].pc
    BY <1>7, ForgetEffect
  <2>4. Rest(h) BY <2>3 DEF Rest, Frozen
  <2> QED BY <2>1, <2>2, <2>4, <1>a, <1>b
<1>8. CASE Audit(h)
  <2>1. UNCHANGED <<scenario, server, time>> BY <1>8 DEF Audit
  <2>2. TypeInv' /\ TokensKept /\ ChangedAt(h) BY <1>8, AuditEffect DEF Closed
  <2> QED BY <2>1, <2>2, <1>a, <1>b, RestAt
<1>9. CASE Deliver(h)
  <2>1. UNCHANGED <<scenario, server, time>> BY <1>9 DEF Deliver
  <2>2. /\ TypeInv' /\ TokensKept
        /\ \A g \in Slots \ {h} :
             IF Loads(h) /\ slot[g].who = slot[h].who THEN Dropped(slot[g], slot'[g]) ELSE slot'[g] = slot[g]
    BY <1>9, DeliverEffect
  <2>3. Rest(h) BY <2>2 DEF Rest, Frozen, Dropped, Alike
  <2> QED BY <2>1, <2>2, <2>3, <1>a, <1>b
<1>10. CASE HandlerFails(h)
  <2>1. UNCHANGED <<server, time>> BY <1>10 DEF HandlerFails
  <2>2. TypeInv' /\ TokensKept /\ ChangedAt(h) /\ ScenarioRest BY <1>10, FailsEffect DEF Closed
  <2> QED BY <2>1, <2>2, <1>c, RestAt
<1>11. CASE GiveUp(h)
  <2>1. UNCHANGED <<server, time>> BY <1>11 DEF GiveUp
  <2>2. TypeInv' /\ TokensKept /\ ChangedAt(h) /\ ScenarioRest BY <1>11, GiveUpEffect
  <2> QED BY <2>1, <2>2, <1>c, RestAt
<1>12. ASSUME NEW s \in Servers, NEW c \in Senders, Requests(h, s, c)
       PROVE  TypeInv' /\ TokensKept /\ Rest(h) /\ ScenarioRest /\ Starting' /\ time' = time
  <2>1. time' = time BY <1>12 DEF Requests, Login, Register, Arrives
  <2>2. TypeInv' /\ TokensKept /\ ScenarioRest /\ ChangedAt(h) /\ MemoryRest
    BY <1>12, LoginStep, RegisterStep DEF Requests, Anonymous, Entered
  <2> QED BY <2>1, <2>2, <1>d, RestAt
<1>13. ASSUME NEW s \in Servers, NEW c \in Senders, Presents(h, s, c)
       PROVE  TypeInv' /\ TokensKept /\ Rest(h) /\ ScenarioRest /\ Starting' /\ time' = time
  <2>1. PICK kind \in {"call", "logout"}, j \in Jtis(N) \cup {None}, route \in ProtectedRoutes :
          Receives(h, s, c, kind, j, route)
    BY <1>13 DEF Presents
  <2>2. UNCHANGED <<server, time>> BY <2>1 DEF Receives
  <2>3. TypeInv' /\ TokensKept /\ ScenarioRest /\ ChangedAt(h) BY <2>1, ReceivesStep
  <2> QED BY <2>2, <2>3, <1>c, RestAt
<1>14. ASSUME NEW s \in Servers, NEW c \in Clients, Renews(h, s, c)
       PROVE  TypeInv' /\ TokensKept /\ Rest(h) /\ ScenarioRest /\ Starting' /\ time' = time
  <2>1. time' = time BY <1>14 DEF Renews, Refresh, Arrives
  <2>2. TypeInv' /\ TokensKept /\ ScenarioRest /\ ChangedAt(h) /\ MemoryRest
    BY <1>14, RefreshStep DEF Renews, Entered
  <2> QED BY <2>1, <2>2, <1>d, RestAt
<1> QED
  BY <1>1, <1>2, <1>3, <1>4, <1>5, <1>6, <1>7, <1>8, <1>9, <1>10, <1>11, <1>12, <1>13, <1>14 DEF Step

LEMMA CalmType ==
  ASSUME TypeInv, Starting,
         Elsewhere \/ (\E s \in Servers : Crash(s)) \/ (\E t \in Tabs : Shown(t) \/ Redirect(t) \/ TabLogout(t))
  PROVE  TypeInv' /\ TokensKept /\ Calm /\ ScenarioRest /\ Starting'
<1>a. ASSUME scenario' = scenario PROVE ScenarioRest BY <1>a DEF ScenarioRest
<1>b. ASSUME ScenarioRest, server' = server PROVE Starting' BY <1>b DEF Starting, ScenarioRest
<1>c. ASSUME UNCHANGED <<db, server, history, tokens>>, N' = N, time <= time',
             \A g \in Slots : slot'[g] = slot[g] \/ Dropped(slot[g], slot'[g])
      PROVE  Calm
  <2>1. \A g \in Slots : Frozen(slot[g], slot'[g]) /\ slot'[g].across = slot[g].across
    BY <1>c DEF Frozen, Dropped, Alike
  <2> QED BY <1>c, <2>1 DEF Calm, HistoryRest
<1>t. time \in Nat BY BoundsAssumption DEF TypeInv
<1>1. CASE UNCHANGED vars
  <2>1. TypeInv' /\ TokensKept /\ N' = N BY <1>1, SilentEffect
  <2>2. ScenarioRest /\ Starting' BY <1>1, <1>a, <1>b DEF vars
  <2>3. UNCHANGED <<db, server, history, tokens, time, slot>> BY <1>1 DEF vars
  <2> QED BY <1>t, <1>c, <2>1, <2>2, <2>3
<1>2. CASE Advance
  <2>1. TypeInv' /\ TokensKept /\ N' = N BY <1>2, AdvanceEffect
  <2>2. UNCHANGED <<scenario, db, server, history, tokens, slot>> /\ time <= time' BY <1>2, <1>t DEF Advance
  <2>3. ScenarioRest /\ Starting' BY <2>2, <1>a, <1>b
  <2> QED BY <1>c, <2>1, <2>2, <2>3
<1>3. ASSUME NEW s \in Servers, StartUp(s)
      PROVE  TypeInv' /\ TokensKept /\ Calm /\ ScenarioRest /\ Starting'
  <2>1. /\ TypeInv' /\ TokensKept /\ N' = N
        /\ \A x \in Servers : server'[x].revoked = server[x].revoked /\ server'[x].bucket = server[x].bucket
    BY <1>3, StartUpEffect
  <2>2. UNCHANGED <<scenario, db, history, tokens, slot, time>> BY <1>3 DEF StartUp
  <2>3. \A x \in Servers : server'[x].stage = "inserting" => scenario.default # None
    <3> SUFFICES ASSUME NEW x \in Servers, server'[x].stage = "inserting" PROVE scenario.default # None
      OBVIOUS
    <3>1. CASE x = s
      <4>1. server'[s].stage =
              IF scenario.default = None \/ db.accounts[scenario.default] # None THEN "up" ELSE "inserting"
        BY <1>3, ServerParts DEF StartUp, TypeInv, ServerType
      <4> QED BY <3>1, <4>1
    <3>2. CASE x # s
      <4>1. server'[x] = server[x] BY <1>3, <3>2 DEF StartUp, TypeInv
      <4> QED BY <4>1 DEF Starting
    <3> QED BY <3>1, <3>2
  <2>4. Starting' BY <2>2, <2>3 DEF Starting
  <2>5. Calm
    <3>1. \A g \in Slots : Frozen(slot[g], slot'[g]) /\ slot'[g].across = slot[g].across
      BY <2>2 DEF Frozen, Alike
    <3> QED BY <1>t, <2>1, <2>2, <3>1 DEF Calm, HistoryRest
  <2> QED BY <2>1, <2>2, <2>4, <2>5, <1>a
<1>4. ASSUME NEW s \in Servers, InsertDefault(s)
      PROVE  TypeInv' /\ TokensKept /\ Calm /\ ScenarioRest /\ Starting'
  <2>1. /\ TypeInv' /\ TokensKept /\ N' = N
        /\ db'.refresh = db.refresh /\ db'.revoked = db.revoked
        /\ \A u \in Users : db.accounts[u] # None => db'.accounts[u] = db.accounts[u]
        /\ \A x \in Servers : server'[x].revoked = server[x].revoked /\ server'[x].bucket = server[x].bucket
    BY <1>4, InsertDefaultEffect
  <2>2. UNCHANGED <<scenario, history, tokens, slot, time>> BY <1>4 DEF InsertDefault
  <2>3. \A x \in Servers : server'[x].stage \in {server[x].stage, "down", "up"}
    BY <1>4 DEF InsertDefault, TypeInv, ServerType
  <2>4. Starting' BY <2>2, <2>3, StartingKept
  <2>5. Calm
    <3>1. \A g \in Slots : Frozen(slot[g], slot'[g]) /\ slot'[g].across = slot[g].across
      BY <2>2 DEF Frozen, Alike
    <3> QED BY <1>t, <2>1, <2>2, <3>1 DEF Calm, HistoryRest
  <2> QED BY <2>1, <2>2, <2>4, <2>5, <1>a
<1>5. ASSUME NEW s \in Servers, Crash(s)
      PROVE  TypeInv' /\ TokensKept /\ Calm /\ ScenarioRest /\ Starting'
  <2>1. /\ TypeInv' /\ TokensKept /\ N' = N /\ ScenarioRest
        /\ \A g \in Slots : slot'[g] = IF g \in Dying(s) THEN Idle ELSE slot[g]
        /\ \A x \in Servers : server'[x] = IF x = s THEN Fresh ELSE server[x]
        /\ HistoryRest(history, history')
    BY <1>5, CrashEffect
  <2>2. UNCHANGED <<db, tokens, time>> BY <1>5 DEF Crash
  <2>3. \A x \in Servers : server'[x].stage \in {server[x].stage, "down", "up"} BY <2>1 DEF Fresh
  <2>4. Starting' BY <2>1, <2>3, StartingKept DEF ScenarioRest
  <2>5. \A x \in Servers : server'[x].revoked \subseteq server[x].revoked BY <2>1 DEF Fresh
  <2>6. \A g \in Slots : (Frozen(slot[g], slot'[g]) /\ slot'[g].across = slot[g].across) \/ slot'[g] = Idle
    BY <2>1 DEF Frozen, Alike
  <2>7. Calm BY <1>t, <2>1, <2>2, <2>5, <2>6 DEF Calm
  <2> QED BY <2>1, <2>4, <2>7
<1>6. ASSUME NEW t \in Tabs, Shown(t)
      PROVE  TypeInv' /\ TokensKept /\ Calm /\ ScenarioRest /\ Starting'
  <2>1. UNCHANGED <<db, server, history, tokens, slot, time>>
    BY <1>6 DEF Shown, Booted, Unauthorized, StatusFails
  <2>2. TypeInv' /\ TokensKept /\ N' = N /\ ScenarioRest
    <3>1. CASE Booted(t) BY <3>1, BootedEffect, <1>a DEF Booted
    <3>2. CASE Unauthorized(t) BY <3>2, UnauthorizedEffect, <1>a DEF Unauthorized
    <3>3. CASE StatusFails(t) BY <3>3, StatusEffect
    <3> QED BY <1>6, <3>1, <3>2, <3>3 DEF Shown
  <2>3. Starting' BY <2>1, <2>2, <1>b
  <2>4. Calm BY <1>c, <1>t, <2>1, <2>2
  <2> QED BY <2>2, <2>3, <2>4
<1>7. ASSUME NEW t \in Tabs, Redirect(t) \/ TabLogout(t)
      PROVE  TypeInv' /\ TokensKept /\ Calm /\ ScenarioRest /\ Starting'
  <2>1. /\ TypeInv' /\ TokensKept /\ N' = N
        /\ \A g \in Slots : slot'[g] = slot[g] \/ Dropped(slot[g], slot'[g])
    BY <1>7, LeaveEffect
  <2>2. UNCHANGED <<scenario, db, server, history, tokens, time>> BY <1>7 DEF Redirect, TabLogout
  <2>3. Starting' /\ ScenarioRest BY <2>2, <1>a, <1>b
  <2>4. Calm BY <1>c, <1>t, <2>1, <2>2
  <2> QED BY <2>1, <2>3, <2>4
<1> QED BY <1>1, <1>2, <1>3, <1>4, <1>5, <1>6, <1>7 DEF Elsewhere

(* What each of the groups below has to show of a step.                    *)
LEMMA StepKinds ==
  ASSUME TypeInv, Starting, [Next]_vars
  PROVE  /\ TypeInv' /\ Starting'
         /\ (\E h \in Slots : Step(h)) \/ (Calm /\ TokensKept)
BY Steps, StepType, CalmType

Basic == TypeInv /\ Starting

LEMMA InitBasic == Init => Basic
<1>1. Init => TypeInv /\ Begun BY InitType
<1>2. Begun => Starting BY DEF Begun, Starting, Fresh
<1> QED BY <1>1, <1>2 DEF Basic

(* A step of h that issues, stores and deletes no token.                   *)
Minor(h) ==
  /\ UNCHANGED <<db.refresh, db.accounts, history.pairs, history.ended, history.forgets, tokens>>
  /\ history'.registered = history.registered \/ Audit(h)
  /\ N' = N /\ \A g \in Slots \ {h} : slot'[g].across = slot[g].across
  /\ \/ Frozen(slot[h], slot'[h]) /\ slot'[h].across = slot[h].across
     \/ slot'[h].pc \in {"idle", "answer", "check", "revoke", "forget"}
     \/ /\ slot'[h].pc \in {"verify", "insert", "consume"} /\ slot'[h].user \in AllUsers
        /\ slot'[h].since = history.forgets[slot'[h].user]

LEMMA MinorSteps ==
  ASSUME TypeInv, NEW h \in Slots, Step(h)
  PROVE  Verify(h) \/ Insert(h) \/ Consume(h) \/ Store(h) \/ Forget(h) \/ Minor(h)
<1>a. ASSUME ChangedAt(h) PROVE \A g \in Slots \ {h} : slot'[g].across = slot[g].across
  BY <1>a DEF ChangedAt
<1>1. CASE Check(h)
  <2>1. UNCHANGED <<db, tokens>> BY <1>1 DEF Check
  <2>2. /\ N' = N /\ history'.ended = history.ended /\ history'.pairs = history.pairs
        /\ history'.forgets = history.forgets /\ ChangedAt(h) /\ slot'[h].pc \in {"answer", "revoke"}
        /\ history'.registered = history.registered
    BY <1>1, CheckEffect DEF Closed, Moved
  <2> QED BY <2>1, <2>2, <1>a DEF Minor
<1>2. CASE Revoke(h)
  <2>1. UNCHANGED <<history, tokens>> BY <1>2 DEF Revoke
  <2>2. /\ N' = N /\ ChangedAt(h) /\ slot'[h].pc = "forget"
        /\ db'.accounts = db.accounts /\ db'.refresh = db.refresh
    BY <1>2, RevokeEffect DEF Moved
  <2> QED BY <2>1, <2>2, <1>a DEF Minor
<1>3. CASE Audit(h)
  <2>1. UNCHANGED <<db, tokens>> BY <1>3 DEF Audit
  <2>2. /\ N' = N /\ history'.ended = history.ended /\ history'.pairs = history.pairs
        /\ history'.forgets = history.forgets /\ ChangedAt(h) /\ slot'[h].pc = "answer"
    BY <1>3, AuditEffect DEF Closed
  <2> QED BY <1>3, <2>1, <2>2, <1>a DEF Minor
<1>4. CASE Deliver(h)
  <2>1. UNCHANGED <<db, tokens, history>> BY <1>4 DEF Deliver
  <2>2. /\ N' = N /\ slot'[h] = Idle
        /\ \A g \in Slots \ {h} :
             IF Loads(h) /\ slot[g].who = slot[h].who THEN Dropped(slot[g], slot'[g]) ELSE slot'[g] = slot[g]
    BY <1>4, DeliverEffect
  <2>3. slot'[h].pc = "idle" BY <2>2 DEF Idle
  <2>4. \A g \in Slots \ {h} : slot'[g].across = slot[g].across BY <2>2 DEF Dropped
  <2> QED BY <2>1, <2>2, <2>3, <2>4 DEF Minor
<1>5. CASE HandlerFails(h)
  <2>1. UNCHANGED <<db, tokens, history>> BY <1>5 DEF HandlerFails
  <2>2. N' = N /\ ChangedAt(h) /\ slot'[h].pc = "answer" BY <1>5, FailsEffect DEF Closed
  <2> QED BY <2>1, <2>2, <1>a DEF Minor
<1>6. CASE GiveUp(h)
  <2>1. UNCHANGED <<db, tokens, history>> BY <1>6 DEF GiveUp
  <2>2. N' = N /\ ChangedAt(h) /\ Dropped(slot[h], slot'[h]) BY <1>6, GiveUpEffect
  <2>3. Frozen(slot[h], slot'[h]) /\ slot'[h].across = slot[h].across BY <2>2 DEF Dropped, Frozen
  <2> QED BY <2>1, <2>2, <2>3, <1>a DEF Minor
<1>7. ASSUME NEW s \in Servers, NEW c \in Senders, NEW q, Entered(h, s, c, q),
             UNCHANGED <<db, tokens>>, N' = N, q.pc \in {"verify", "insert", "consume"},
             q.user \in AllUsers, q.since = history.forgets[q.user]
      PROVE  Minor(h)
  <2>1. /\ ChangedAt(h) /\ HistoryRest(history, history') /\ slot'[h].pc \in {q.pc, "answer"}
        /\ slot'[h].user = q.user /\ slot'[h].since = q.since
    BY <1>7 DEF Entered, Kept, Alike
  <2> QED BY <1>7, <2>1, <1>a DEF Minor, HistoryRest
<1>8. ASSUME NEW s \in Servers, NEW c \in Senders, Requests(h, s, c) PROVE Minor(h)
  <2>1. UNCHANGED <<db, tokens>> BY <1>8 DEF Requests, Login, Register, Arrives
  <2>2. N' = N /\ \E u \in AllUsers : Anonymous(h, s, c, "login", "verify", u)
                                      \/ Anonymous(h, s, c, "register", "insert", u)
    BY <1>8, LoginStep, RegisterStep DEF Requests
  <2> QED BY <1>7, <2>1, <2>2 DEF Anonymous
<1>9. ASSUME NEW s \in Servers, NEW c \in Senders, Presents(h, s, c) PROVE Minor(h)
  <2>1. PICK kind \in {"call", "logout"}, j \in Jtis(N) \cup {None}, route \in ProtectedRoutes :
          Receives(h, s, c, kind, j, route)
    BY <1>9 DEF Presents
  <2>2. UNCHANGED <<db, tokens, history>> BY <2>1 DEF Receives
  <2>3. N' = N /\ ChangedAt(h) /\ slot'[h].pc \in {"answer", "check"} BY <2>1, ReceivesStep
  <2> QED BY <2>2, <2>3, <1>a DEF Minor
<1>10. ASSUME NEW s \in Servers, NEW c \in Clients, Renews(h, s, c) PROVE Minor(h)
  <2>1. UNCHANGED <<db, tokens>> BY <1>10 DEF Renews, Refresh, Arrives
  <2> DEFINE i == client[c].refresh
  <2>a. PICK q : /\ N' = N /\ i \in Jtis(N) /\ Entered(h, s, c, q) /\ q.pc = "consume"
                 /\ q.user = tokens[i].user /\ q.since = history.forgets[tokens[i].user]
    BY <1>10, RefreshStep DEF Renews
  <2>2. /\ N' = N /\ i \in Jtis(N) /\ Entered(h, s, c, q) /\ q.pc = "consume"
        /\ q.user = tokens[i].user /\ q.since = history.forgets[tokens[i].user]
    BY <2>a
  <2> HIDE DEF i
  <2>3. q.user \in AllUsers /\ q.since = history.forgets[q.user] BY <2>2, Counts DEF TokenType
  <2> QED BY <1>7, <2>1, <2>2, <2>3 DEF Senders
<1> QED BY <1>1, <1>2, <1>3, <1>4, <1>5, <1>6, <1>8, <1>9, <1>10 DEF Step

-----------------------------------------------------------------------------
(* Refresh tokens.  A token about to be stored is new, and the token it    *)
(* replaces is gone. *)
Ids == {r.id : r \in db.refresh}
Firsts == {e[1] : e \in history.pairs}
StoresAt(g) == slot[g].pc = "store"
ReplacesAt(g) == slot[g].pc = "store" /\ slot[g].kind = "refresh"

IssuedNew ==
  \A g \in Slots : StoresAt(g) =>
    /\ slot[g].issued \notin Ids /\ slot[g].issued \notin Firsts
    /\ tokens[slot[g].issued].user = slot[g].user
IssuedApart ==
  \A g, h \in Slots : StoresAt(g) /\ StoresAt(h) =>
    /\ g # h => slot[g].issued # slot[h].issued
    /\ slot[h].kind = "refresh" => slot[g].issued # slot[h].parent
ReplacedGone ==
  /\ \A g \in Slots : ReplacesAt(g) => slot[g].parent \notin Ids /\ slot[g].parent \notin Firsts
  /\ \A g, h \in Slots : ReplacesAt(g) /\ ReplacesAt(h) /\ g # h => slot[g].parent # slot[h].parent
  /\ Firsts \cap Ids = {}
TokensUnique ==
  /\ \A r, q \in db.refresh : r.id = q.id => r = q
  /\ \A r \in db.refresh : tokens[r.id].user = r.user
RefreshInv == IssuedNew /\ IssuedApart /\ ReplacedGone /\ TokensUnique /\ RefreshOnce

(* nothing new is stored, nothing new will be *)
LEMMA RefreshFrame ==
  ASSUME TypeInv, RefreshInv, TokensKept, db'.refresh \subseteq db.refresh, history'.pairs = history.pairs,
         \A g \in Slots : slot'[g].pc = "store" => Frozen(slot[g], slot'[g])
  PROVE  RefreshInv'
<1>1. Ids' \subseteq Ids /\ Firsts' = Firsts BY DEF Ids, Firsts
<1>2. \A g \in Slots : StoresAt(g)' =>
        /\ StoresAt(g) /\ slot'[g].issued = slot[g].issued /\ slot'[g].parent = slot[g].parent
        /\ slot'[g].kind = slot[g].kind /\ slot'[g].user = slot[g].user
  BY DEF StoresAt, Frozen, Alike
<1>3. \A g \in Slots : StoresAt(g) => slot[g].issued \in Jtis(N)
  BY SlotParts DEF StoresAt, Sensible
<1>4. IssuedNew'
  <2> SUFFICES ASSUME NEW g \in Slots, StoresAt(g)'
               PROVE  /\ slot'[g].issued \notin Ids' /\ slot'[g].issued \notin Firsts'
                      /\ tokens'[slot'[g].issued].user = slot'[g].user
    BY DEF IssuedNew
  <2>1. StoresAt(g) /\ slot'[g].issued = slot[g].issued /\ slot'[g].user = slot[g].user BY <1>2
  <2>2. /\ slot[g].issued \notin Ids /\ slot[g].issued \notin Firsts
        /\ tokens[slot[g].issued].user = slot[g].user
    BY <2>1 DEF RefreshInv, IssuedNew
  <2> QED BY <1>1, <1>3, <2>1, <2>2 DEF TokensKept
<1>5. IssuedApart' BY <1>2 DEF RefreshInv, IssuedApart
<1>6. ReplacedGone'
  <2>1. \A g \in Slots : ReplacesAt(g)' => ReplacesAt(g) /\ slot'[g].parent = slot[g].parent
    BY <1>2 DEF ReplacesAt, StoresAt
  <2> QED BY <1>1, <2>1 DEF RefreshInv, ReplacedGone
<1>7. TokensUnique'
  <2>1. \A r \in db.refresh : r.id \in Jtis(N) BY DbParts
  <2> QED BY <2>1 DEF RefreshInv, TokensUnique, TokensKept
<1>8. RefreshOnce' BY DEF RefreshInv, RefreshOnce
<1> QED BY <1>4, <1>5, <1>6, <1>7, <1>8 DEF RefreshInv

(* h has got a token to store, maybe for one it deleted *)
LEMMA RefreshGranted ==
  ASSUME TypeInv, RefreshInv, TokensKept, NEW h \in Slots, Granted(h), TokenAdded,
         tokens'[N + 1].user = slot[h].user, db'.refresh \subseteq db.refresh, history'.pairs = history.pairs,
         slot[h].kind = "refresh" => slot[h].parent \in Ids /\ slot[h].parent \notin Ids'
  PROVE  RefreshInv'
<1>0. N \in Nat /\ N' = N + 1 BY Counts DEF TokenAdded
<1>1. Ids' \subseteq Ids /\ Firsts' = Firsts BY DEF Ids, Firsts
<1>2. /\ slot'[h].issued = N + 1 /\ slot'[h].parent = slot[h].parent /\ slot'[h].kind = slot[h].kind
      /\ slot'[h].user = slot[h].user /\ slot'[h].pc = "store" /\ \A g \in Slots \ {h} : slot'[g] = slot[g]
  BY DEF Granted, Kept, Alike, ChangedAt
<1>3. Ids \subseteq Jtis(N) /\ Firsts \subseteq Jtis(N)
  <2>1. Ids \subseteq Jtis(N) BY DbParts DEF Ids
  <2>2. \A e \in history.pairs : e[1] \in Jtis(N) BY HistoryParts
  <2> QED BY <2>1, <2>2 DEF Firsts
<1>4. \A g \in Slots : StoresAt(g) => slot[g].issued \in Jtis(N) BY SlotParts DEF StoresAt, Sensible
<1>5. \A g \in Slots : slot[g].kind = "refresh" => slot[g].parent \in Jtis(N)
  BY SlotParts DEF Sensible
<1>6. N + 1 \notin Jtis(N) BY <1>0 DEF Jtis
<1>7. ASSUME NEW g \in Slots, StoresAt(g)', g # h PROVE StoresAt(g) /\ slot'[g] = slot[g]
  BY <1>2, <1>7 DEF StoresAt
<1>8. IssuedNew'
  <2> SUFFICES ASSUME NEW g \in Slots, StoresAt(g)'
               PROVE  /\ slot'[g].issued \notin Ids' /\ slot'[g].issued \notin Firsts'
                      /\ tokens'[slot'[g].issued].user = slot'[g].user
    BY DEF IssuedNew
  <2>1. CASE g = h BY <1>1, <1>2, <1>3, <1>6, <2>1
  <2>2. CASE g # h
    <3>1. StoresAt(g) /\ slot'[g] = slot[g] BY <1>7, <2>2
    <3>2. /\ slot[g].issued \notin Ids /\ slot[g].issued \notin Firsts
          /\ tokens[slot[g].issued].user = slot[g].user
      BY <3>1 DEF RefreshInv, IssuedNew
    <3> QED BY <1>1, <1>4, <3>1, <3>2 DEF TokensKept
  <2> QED BY <2>1, <2>2
<1>9. IssuedApart'
  <2> SUFFICES ASSUME NEW g \in Slots, NEW f \in Slots, StoresAt(g)', StoresAt(f)'
               PROVE  /\ g # f => slot'[g].issued # slot'[f].issued
                      /\ slot'[f].kind = "refresh" => slot'[g].issued # slot'[f].parent
    BY DEF IssuedApart
  <2>1. CASE g # h /\ f # h
    <3>1. StoresAt(g) /\ slot'[g] = slot[g] /\ StoresAt(f) /\ slot'[f] = slot[f] BY <1>7, <2>1
    <3> QED BY <3>1 DEF RefreshInv, IssuedApart
  <2>2. CASE g = h /\ f = h BY <1>2, <1>5, <1>6, <2>2
  <2>3. CASE g = h /\ f # h
    <3>1. StoresAt(f) /\ slot'[f] = slot[f] BY <1>7, <2>3
    <3> QED BY <1>2, <1>4, <1>5, <1>6, <2>3, <3>1
  <2>4. CASE g # h /\ f = h
    <3>1. StoresAt(g) /\ slot'[g] = slot[g] BY <1>7, <2>4
    <3>2. slot[g].issued \notin Ids BY <3>1 DEF RefreshInv, IssuedNew
    <3> QED BY <1>2, <1>4, <1>6, <2>4, <3>1, <3>2
  <2> QED BY <2>1, <2>2, <2>3, <2>4
<1>10. ReplacedGone'
  <2>1. \A g \in Slots \ {h} : ReplacesAt(g)' => ReplacesAt(g) /\ slot'[g].parent = slot[g].parent
    BY <1>2 DEF ReplacesAt
  <2>2. ReplacesAt(h)' => /\ slot'[h].parent \in Ids /\ slot'[h].parent \notin Ids'
                          /\ slot'[h].parent \notin Firsts
    BY <1>2 DEF ReplacesAt, RefreshInv, ReplacedGone
  <2>3. \A g \in Slots : ReplacesAt(g)' => slot'[g].parent \notin Ids' /\ slot'[g].parent \notin Firsts'
    BY <1>1, <2>1, <2>2 DEF RefreshInv, ReplacedGone
  <2>4. \A g \in Slots \ {h} : ReplacesAt(g)' => slot'[g].parent \notin Ids
    BY <2>1 DEF RefreshInv, ReplacedGone
  <2>5. \A g, f \in Slots : ReplacesAt(g)' /\ ReplacesAt(f)' /\ g # f => slot'[g].parent # slot'[f].parent
    BY <2>1, <2>2, <2>4 DEF RefreshInv, ReplacedGone
  <2>6. Firsts' \cap Ids' = {} BY <1>1 DEF RefreshInv, ReplacedGone
  <2> QED BY <2>3, <2>5, <2>6 DEF ReplacedGone
<1>11. TokensUnique'
  <2>1. \A r \in db.refresh : r.id \in Jtis(N) BY DbParts
  <2> QED BY <2>1 DEF RefreshInv, TokensUnique, TokensKept
<1>12. RefreshOnce' BY DEF RefreshInv, RefreshOnce
<1> QED BY <1>8, <1>9, <1>10, <1>11, <1>12 DEF RefreshInv

LEMMA RefreshStored ==
  ASSUME TypeInv, RefreshInv, NEW h \in Slots, Store(h)
  PROVE  RefreshInv'
<1> DEFINE i == slot[h].issued
           p == slot[h].parent
<1>1. PICK r : /\ db'.refresh = db.refresh \cup {r} /\ r.id = slot[h].issued /\ r.user = slot[h].user
  BY StoreEffect
<1>2. Ids' = Ids \cup {i} BY <1>1 DEF Ids
<1>3. /\ slot[h].pc = "store" /\ slot'[h].pc # "store" /\ ChangedAt(h) /\ tokens' = tokens
      /\ \/ slot[h].kind = "refresh" /\ history'.pairs = history.pairs \cup {<<p, i>>}
         \/ slot[h].kind # "refresh" /\ history'.pairs = history.pairs
  <2>1. tokens' = tokens BY DEF Store
  <2> QED BY <2>1, StoreEffect DEF Closed, Moved
<1>4. Firsts' = Firsts \/ (slot[h].kind = "refresh" /\ Firsts' = Firsts \cup {p})
  <2>1. CASE history'.pairs = history.pairs BY <2>1 DEF Firsts
  <2>2. CASE slot[h].kind = "refresh" /\ history'.pairs = history.pairs \cup {<<p, i>>}
    <3>1. <<p, i>>[1] = p OBVIOUS
    <3>2. Firsts' = Firsts \cup {p} BY <2>2, <3>1 DEF Firsts
    <3> QED BY <2>2, <3>2
  <2> QED BY <1>3, <2>1, <2>2
<1>5. StoresAt(h) /\ i \notin Ids /\ i \notin Firsts /\ tokens[i].user = slot[h].user
  BY <1>3 DEF StoresAt, RefreshInv, IssuedNew
<1>6. slot[h].kind = "refresh" => ReplacesAt(h) /\ p \notin Ids /\ p \notin Firsts /\ p # i
  BY <1>3, <1>5 DEF ReplacesAt, RefreshInv, ReplacedGone, IssuedApart
<1>7. \A g \in Slots : StoresAt(g)' => StoresAt(g) /\ g # h /\ slot'[g] = slot[g]
  BY <1>3 DEF StoresAt, ChangedAt
<1>8. IssuedNew'
  <2> SUFFICES ASSUME NEW g \in Slots, StoresAt(g)'
               PROVE  /\ slot'[g].issued \notin Ids' /\ slot'[g].issued \notin Firsts'
                      /\ tokens'[slot'[g].issued].user = slot'[g].user
    BY DEF IssuedNew
  <2>1. StoresAt(g) /\ g # h /\ slot'[g] = slot[g] BY <1>7
  <2>2. /\ slot[g].issued \notin Ids /\ slot[g].issued \notin Firsts /\ slot[g].issued # i
        /\ tokens[slot[g].issued].user = slot[g].user /\ (slot[h].kind = "refresh" => slot[g].issued # p)
    BY <1>5, <2>1 DEF RefreshInv, IssuedNew, IssuedApart
  <2> QED BY <1>2, <1>3, <1>4, <2>1, <2>2
<1>9. IssuedApart' BY <1>7 DEF RefreshInv, IssuedApart
<1>10. ReplacedGone'
  <2>1. \A g \in Slots : ReplacesAt(g)' => ReplacesAt(g) /\ StoresAt(g) /\ g # h /\ slot'[g] = slot[g]
    BY <1>7 DEF ReplacesAt, StoresAt
  <2>2. ASSUME NEW g \in Slots, ReplacesAt(g)'
        PROVE  slot'[g].parent \notin Ids' /\ slot'[g].parent \notin Firsts'
    <3>1. ReplacesAt(g) /\ StoresAt(g) /\ g # h /\ slot'[g] = slot[g] BY <2>1, <2>2
    <3>2. /\ slot[g].parent \notin Ids /\ slot[g].parent \notin Firsts
          /\ (slot[h].kind = "refresh" => slot[g].parent # p)
      BY <1>6, <3>1 DEF RefreshInv, ReplacedGone
    <3>3. slot[g].parent # i BY <1>5, <3>1 DEF RefreshInv, IssuedApart, ReplacesAt
    <3> QED BY <1>2, <1>4, <3>1, <3>2, <3>3
  <2>3. \A g, f \in Slots : ReplacesAt(g)' /\ ReplacesAt(f)' /\ g # f => slot'[g].parent # slot'[f].parent
    BY <2>1 DEF RefreshInv, ReplacedGone
  <2>4. Firsts' \cap Ids' = {} BY <1>2, <1>4, <1>5, <1>6 DEF RefreshInv, ReplacedGone
  <2> QED BY <2>2, <2>3, <2>4 DEF ReplacedGone
<1>11. TokensUnique'
  <2>1. \A q \in db.refresh : q.id # i BY <1>5 DEF Ids
  <2> QED BY <1>1, <1>3, <1>5, <2>1 DEF RefreshInv, TokensUnique
<1>12. RefreshOnce'
  <2>1. CASE history'.pairs = history.pairs BY <2>1 DEF RefreshInv, RefreshOnce
  <2>2. CASE slot[h].kind = "refresh" /\ history'.pairs = history.pairs \cup {<<p, i>>}
    <3>1. \A e \in history.pairs : e[1] # p BY <1>6, <2>2 DEF Firsts
    <3>2. <<p, i>>[1] = p OBVIOUS
    <3> QED BY <2>2, <3>1, <3>2 DEF RefreshInv, RefreshOnce
  <2> QED BY <1>3, <2>1, <2>2
<1> QED BY <1>8, <1>9, <1>10, <1>11, <1>12 DEF RefreshInv

LEMMA RefreshBegins == Init => RefreshInv
<1> SUFFICES ASSUME Init PROVE RefreshInv
  OBVIOUS
<1>1. db.refresh = {} /\ history.pairs = {} /\ slot = [h \in Slots |-> Idle] BY InitType DEF Begun
<1>2. Ids = {} /\ Firsts = {} BY <1>1 DEF Ids, Firsts
<1>3. \A g \in Slots : ~StoresAt(g) /\ ~ReplacesAt(g) BY <1>1 DEF StoresAt, ReplacesAt, Idle
<1> QED
  BY <1>1, <1>2, <1>3 DEF RefreshInv, IssuedNew, IssuedApart, ReplacedGone, TokensUnique, RefreshOnce

LEMMA RefreshKept == Basic /\ RefreshInv /\ [Next]_vars => RefreshInv'
<1> SUFFICES ASSUME Basic, RefreshInv, [Next]_vars PROVE RefreshInv'
  OBVIOUS
<1>0. TypeInv /\ Starting BY DEF Basic
<1>a. ASSUME TokensKept, db'.refresh \subseteq db.refresh, history'.pairs = history.pairs,
             NEW h \in Slots, Rest(h), slot'[h].pc # "store"
      PROVE  RefreshInv'
  BY <1>0, <1>a, RefreshFrame DEF Rest
<1>1. ASSUME NEW h \in Slots, Verify(h) PROVE RefreshInv'
  <2>1. UNCHANGED <<db, history>> BY <1>1 DEF Verify
  <2>2. /\ TokensKept /\ slot[h].pc = "verify"
        /\ (Granted(h) /\ TokenAdded /\ tokens'[N + 1].user = slot[h].user) \/ Closed(h, 401)
    BY <1>0, <1>1, VerifyEffect
  <2>3. slot[h].kind # "refresh" BY <1>0, <2>2, SlotParts DEF Sensible
  <2>4. CASE Granted(h) /\ TokenAdded /\ tokens'[N + 1].user = slot[h].user
    BY <1>0, <2>1, <2>2, <2>3, <2>4, RefreshGranted
  <2>5. CASE Closed(h, 401) BY <1>a, <2>1, <2>2, <2>5, RestAt DEF Closed
  <2> QED BY <2>2, <2>4, <2>5
<1>2. ASSUME NEW h \in Slots, Insert(h) PROVE RefreshInv'
  <2>1. UNCHANGED <<history, db.refresh>> BY <1>0, <1>2, InsertEffect DEF Insert
  <2>2. /\ TokensKept /\ slot[h].pc = "insert"
        /\ (Granted(h) /\ TokenAdded /\ tokens'[N + 1].user = slot[h].user) \/ Closed(h, 409)
    BY <1>0, <1>2, InsertEffect
  <2>3. slot[h].kind # "refresh" BY <1>0, <2>2, SlotParts DEF Sensible
  <2>4. CASE Granted(h) /\ TokenAdded /\ tokens'[N + 1].user = slot[h].user
    BY <1>0, <2>1, <2>2, <2>3, <2>4, RefreshGranted
  <2>5. CASE Closed(h, 409) BY <1>a, <2>1, <2>2, <2>5, RestAt DEF Closed
  <2> QED BY <2>2, <2>4, <2>5
<1>3. ASSUME NEW h \in Slots, Consume(h) PROVE RefreshInv'
  <2>1. history' = history BY <1>3 DEF Consume
  <2>2. /\ TokensKept /\ slot[h].pc = "consume"
        /\ \/ /\ Granted(h) /\ TokenAdded /\ tokens'[N + 1].user = slot[h].user
              /\ \E r \in db.refresh : r.id = slot[h].parent
              /\ db'.refresh = {r \in db.refresh : r.id # slot[h].parent}
           \/ Closed(h, 401) /\ db' = db
    BY <1>0, <1>3, ConsumeEffect
  <2>4. CASE /\ Granted(h) /\ TokenAdded /\ tokens'[N + 1].user = slot[h].user
             /\ \E r \in db.refresh : r.id = slot[h].parent
             /\ db'.refresh = {r \in db.refresh : r.id # slot[h].parent}
    <3>1. slot[h].parent \in Ids /\ slot[h].parent \notin Ids' /\ db'.refresh \subseteq db.refresh
      BY <2>4 DEF Ids
    <3> QED BY <1>0, <2>1, <2>2, <2>4, <3>1, RefreshGranted
  <2>5. CASE Closed(h, 401) /\ db' = db BY <1>a, <2>1, <2>2, <2>5, RestAt DEF Closed
  <2> QED BY <2>2, <2>4, <2>5
<1>4. ASSUME NEW h \in Slots, Store(h) PROVE RefreshInv' BY <1>0, <1>4, RefreshStored
<1>5. ASSUME NEW h \in Slots, Forget(h) PROVE RefreshInv'
  <2> DEFINE u == tokens[slot[h].jti].user
  <2>1. /\ TokensKept /\ db'.refresh = {r \in db.refresh : r.user # u} /\ history'.pairs = history.pairs
        /\ slot'[h].pc = "audit"
    BY <1>0, <1>5, ForgetEffect
  <2>2. Rest(h) BY <1>0, <1>5, StepType DEF Step
  <2> QED BY <1>a, <2>1, <2>2
<1>6. ASSUME NEW h \in Slots, Step(h), Minor(h) PROVE RefreshInv'
  <2>1. TokensKept /\ Rest(h) BY <1>0, <1>6, StepType
  <2>2. slot'[h].pc = "store" => Frozen(slot[h], slot'[h]) BY <1>6 DEF Minor
  <2>3. \A g \in Slots : slot'[g].pc = "store" => Frozen(slot[g], slot'[g]) BY <2>1, <2>2 DEF Rest
  <2>4. db'.refresh = db.refresh /\ history'.pairs = history.pairs BY <1>6 DEF Minor
  <2> QED BY <1>0, <2>1, <2>3, <2>4, RefreshFrame
<1>7. ASSUME Calm, TokensKept PROVE RefreshInv'
  <2>1. \A g \in Slots : slot'[g].pc = "store" => Frozen(slot[g], slot'[g]) BY <1>7 DEF Calm, Idle
  <2>2. db'.refresh = db.refresh /\ history'.pairs = history.pairs BY <1>7 DEF Calm, HistoryRest
  <2> QED BY <1>0, <1>7, <2>1, <2>2, RefreshFrame
<1>8. ASSUME NEW h \in Slots, Step(h) PROVE RefreshInv'
  <2>1. Verify(h) \/ Insert(h) \/ Consume(h) \/ Store(h) \/ Forget(h) \/ Minor(h) BY <1>0, <1>8, MinorSteps
  <2> QED BY <2>1, <1>1, <1>2, <1>3, <1>4, <1>5, <1>6, <1>8
<1> QED BY <1>0, <1>7, <1>8, StepKinds

-----------------------------------------------------------------------------
(* Logouts.  A request that will store a token knows how often its user    *)
(* was logged out, or was overtaken by a logout. *)
Storers == {"verify", "insert", "consume", "store"}
StoringMarked ==
  \A g \in Slots : slot[g].pc \in Storers =>
    slot[g].across \/ slot[g].since = history.forgets[slot[g].user]
LogoutInv == LogoutEndsSessions /\ StoringMarked

LEMMA LogoutFrame ==
  ASSUME LogoutInv, db'.refresh \subseteq db.refresh, history'.forgets = history.forgets,
         \A g \in Slots : slot'[g].pc \in Storers =>
           \/ /\ slot[g].pc \in Storers /\ slot'[g].user = slot[g].user
              /\ slot'[g].since = slot[g].since /\ slot'[g].across = slot[g].across
           \/ slot'[g].since = history.forgets[slot'[g].user]
  PROVE  LogoutInv'
<1>1. LogoutEndsSessions' BY DEF LogoutInv, LogoutEndsSessions
<1>2. StoringMarked' BY DEF LogoutInv, StoringMarked
<1> QED BY <1>1, <1>2 DEF LogoutInv

LEMMA LogoutKept == Basic /\ LogoutInv /\ [Next]_vars => LogoutInv'
<1> SUFFICES ASSUME Basic, LogoutInv, [Next]_vars PROVE LogoutInv'
  OBVIOUS
<1>0. TypeInv /\ Starting BY DEF Basic
<1>a. ASSUME db'.refresh \subseteq db.refresh, history'.forgets = history.forgets,
             NEW h \in Slots, ChangedAt(h), Kept(slot[h], slot'[h]), slot[h].pc \in Storers
      PROVE  LogoutInv'
  <2>1. \A g \in Slots : slot'[g].pc \in Storers =>
          /\ slot[g].pc \in Storers /\ slot'[g].user = slot[g].user
          /\ slot'[g].since = slot[g].since /\ slot'[g].across = slot[g].across
    BY <1>a DEF ChangedAt, Kept, Alike
  <2> QED BY <1>a, <2>1, LogoutFrame
<1>1. ASSUME NEW h \in Slots, Verify(h) PROVE LogoutInv'
  <2>1. UNCHANGED <<db, history>> BY <1>1 DEF Verify
  <2>2. slot[h].pc = "verify" /\ ChangedAt(h) /\ Kept(slot[h], slot'[h])
    BY <1>0, <1>1, VerifyEffect DEF Granted, Closed
  <2> QED BY <1>a, <2>1, <2>2 DEF Storers
<1>2. ASSUME NEW h \in Slots, Insert(h) PROVE LogoutInv'
  <2>1. UNCHANGED <<history, db.refresh>> BY <1>0, <1>2, InsertEffect DEF Insert
  <2>2. slot[h].pc = "insert" /\ ChangedAt(h) /\ Kept(slot[h], slot'[h])
    BY <1>0, <1>2, InsertEffect DEF Granted, Closed
  <2> QED BY <1>a, <2>1, <2>2 DEF Storers
<1>3. ASSUME NEW h \in Slots, Consume(h) PROVE LogoutInv'
  <2>1. history' = history BY <1>3 DEF Consume
  <2>2. /\ slot[h].pc = "consume" /\ ChangedAt(h) /\ Kept(slot[h], slot'[h])
        /\ db'.refresh = {r \in db.refresh : r.id # slot[h].parent} \/ db' = db
    BY <1>0, <1>3, ConsumeEffect DEF Granted, Closed
  <2>3. db'.refresh \subseteq db.refresh BY <2>2
  <2> QED BY <1>a, <2>1, <2>2, <2>3 DEF Storers
<1>4. ASSUME NEW h \in Slots, Store(h) PROVE LogoutInv'
  <2>1. PICK r : /\ db'.refresh = db.refresh \cup {r} /\ r.user = slot[h].user
                 /\ r.since = slot[h].since /\ r.across = slot[h].across
    BY <1>0, <1>4, StoreEffect
  <2>2. /\ slot[h].pc = "store" /\ slot'[h].pc \notin Storers /\ ChangedAt(h)
        /\ history'.forgets = history.forgets
    BY <1>0, <1>4, StoreEffect DEF Closed, Moved, Storers
  <2>3. slot[h].across \/ slot[h].since = history.forgets[slot[h].user]
    BY <2>2 DEF LogoutInv, StoringMarked, Storers
  <2>4. LogoutEndsSessions' BY <2>1, <2>2, <2>3 DEF LogoutInv, LogoutEndsSessions
  <2>5. StoringMarked' BY <2>2 DEF LogoutInv, StoringMarked, ChangedAt
  <2> QED BY <2>4, <2>5 DEF LogoutInv
<1>5. ASSUME NEW h \in Slots, Forget(h) PROVE LogoutInv'
  <2> DEFINE u == tokens[slot[h].jti].user
  <2>1. /\ db'.refresh = {r \in db.refresh : r.user # u}
        /\ \A v \in AllUsers \ {u} : history'.forgets[v] = history.forgets[v]
    BY <1>0, <1>5, ForgetEffect
  <2>2. \A g \in Slots : /\ Alike(slot[g], slot'[g])
                         /\ slot'[g].pc = IF g = h THEN "audit" ELSE slot[g].pc
                         /\ (g # h /\ g \in StoringFor(u)) => slot'[g].across
                         /\ g \notin StoringFor(u) => slot'[g].across = slot[g].across
    BY <1>0, <1>5, ForgetEffect
  <2> HIDE DEF u
  <2>3. LogoutEndsSessions'
    <3>1. \A r \in db.refresh : r.user \in AllUsers BY <1>0, DbParts
    <3> QED BY <2>1, <3>1 DEF LogoutInv, LogoutEndsSessions
  <2>4. ASSUME NEW g \in Slots, slot'[g].pc \in Storers
        PROVE  slot'[g].across \/ slot'[g].since = history'.forgets[slot'[g].user]
    <3>1. /\ g # h /\ slot[g].pc \in Storers /\ slot'[g].user = slot[g].user
          /\ slot'[g].since = slot[g].since
      BY <2>2, <2>4 DEF Storers, Alike
    <3>2. CASE slot[g].user = u
      <4>1. g \in StoringFor(u) BY <3>1, <3>2 DEF StoringFor, Storers
      <4> QED BY <2>2, <3>1, <4>1
    <3>3. CASE slot[g].user # u
      <4>1. g \notin StoringFor(u) BY <3>3 DEF StoringFor
      <4>2. slot'[g].across = slot[g].across BY <2>2, <4>1
      <4>3. slot[g].user \in AllUsers BY <1>0, <3>1, SlotParts DEF Storers, Sensible
      <4>4. history'.forgets[slot[g].user] = history.forgets[slot[g].user] BY <2>1, <3>3, <4>3
      <4>5. slot[g].across \/ slot[g].since = history.forgets[slot[g].user]
        BY <3>1 DEF LogoutInv, StoringMarked
      <4> QED BY <3>1, <4>2, <4>4, <4>5
    <3> QED BY <3>2, <3>3
  <2>5. StoringMarked' BY <2>4 DEF StoringMarked
  <2> QED BY <2>3, <2>5 DEF LogoutInv
<1>6. ASSUME NEW h \in Slots, Step(h), Minor(h) PROVE LogoutInv'
  <2>1. Rest(h) BY <1>0, <1>6, StepType
  <2>2. \A g \in Slots \ {h} : slot'[g].pc \in Storers =>
          /\ slot[g].pc \in Storers /\ slot'[g].user = slot[g].user
          /\ slot'[g].since = slot[g].since /\ slot'[g].across = slot[g].across
    BY <1>6, <2>1 DEF Minor, Rest, Frozen, Alike
  <2>3. slot'[h].pc \in Storers =>
           \/ /\ slot[h].pc \in Storers /\ slot'[h].user = slot[h].user
              /\ slot'[h].since = slot[h].since /\ slot'[h].across = slot[h].across
           \/ slot'[h].since = history.forgets[slot'[h].user]
    BY <1>6 DEF Minor, Frozen, Alike, Storers
  <2>4. db'.refresh \subseteq db.refresh /\ history'.forgets = history.forgets BY <1>6 DEF Minor
  <2> QED BY <2>2, <2>3, <2>4, LogoutFrame
<1>7. ASSUME Calm PROVE LogoutInv'
  <2>1. \A g \in Slots : slot'[g].pc \in Storers =>
          /\ slot[g].pc \in Storers /\ slot'[g].user = slot[g].user
          /\ slot'[g].since = slot[g].since /\ slot'[g].across = slot[g].across
    BY <1>7 DEF Calm, Idle, Frozen, Alike, Storers
  <2>2. db'.refresh \subseteq db.refresh /\ history'.forgets = history.forgets BY <1>7 DEF Calm, HistoryRest
  <2> QED BY <2>1, <2>2, LogoutFrame
<1>8. ASSUME NEW h \in Slots, Step(h) PROVE LogoutInv'
  <2>1. Verify(h) \/ Insert(h) \/ Consume(h) \/ Store(h) \/ Forget(h) \/ Minor(h) BY <1>0, <1>8, MinorSteps
  <2> QED BY <2>1, <1>1, <1>2, <1>3, <1>4, <1>5, <1>6, <1>8
<1> QED BY <1>0, <1>7, <1>8, StepKinds

LEMMA LogoutBegins == Init => LogoutInv
<1> SUFFICES ASSUME Init PROVE LogoutInv
  OBVIOUS
<1>1. db.refresh = {} /\ slot = [h \in Slots |-> Idle] BY InitType DEF Begun
<1> QED BY <1>1 DEF LogoutInv, LogoutEndsSessions, StoringMarked, Storers, Idle

(* A logout ends the refresh tokens of all sessions of its user, whatever  *)
(* else is going on; only those being stored meanwhile survive it.         *)
THEOREM LogoutsEndSessions == Spec => []LogoutEndsSessions
<1>1. Init => Basic /\ LogoutInv BY InitBasic, LogoutBegins
<1>2. Basic /\ LogoutInv /\ [Next]_vars => (Basic /\ LogoutInv)' BY LogoutKept, StepKinds DEF Basic
<1>3. LogoutInv => LogoutEndsSessions BY DEF LogoutInv
<1> QED BY <1>1, <1>2, <1>3, PTL DEF Spec

-----------------------------------------------------------------------------
(* Access tokens.  A logout that was answered is in the database; one in   *)
(* the database, or in the memory of a process, was begun. *)
Marks ==
  /\ history.loggedOut \subseteq db.revoked /\ db.revoked \subseteq history.revoking
  /\ \A s \in Servers : server[s].revoked \subseteq history.revoking
Refused(j) == j = None \/ tokens[j].exp <= time \/ j \in history.revoking
Permits(j, route) ==
  /\ j \in Jtis(N)
  /\ scenario.rbac => "*" \in tokens[j].scopes \/ RequiredScopes(route) \subseteq tokens[j].scopes
Guarded(q) ==
  /\ q.pc = "revoke" => q.jti \in history.revoking
  /\ q.kind = "logout" /\ q.pc \in {"forget", "audit"} => q.jti \in db.revoked
  /\ q.late => q.jti \in db.revoked /\ (q.pc = "check" \/ (q.pc = "answer" /\ q.status \in {401, 403}))
  /\ q.pc = "answer" /\ q.kind \in {"call", "logout"} /\ q.status = 401 => Refused(q.jti)
  /\ q.kind = "call" /\ (q.pc = "check" \/ (q.pc = "answer" /\ q.status = 200)) => Permits(q.jti, q.route)
AccessInv == Marks /\ \A g \in Slots : Guarded(slot[g])

(* what was begun, revoked or issued stays, and the clock does not go back *)
Forward ==
  /\ TokensKept /\ scenario'.rbac = scenario.rbac /\ time <= time'
  /\ db.revoked \subseteq db'.revoked /\ history.revoking \subseteq history'.revoking

LEMMA RefusedKept ==
  ASSUME TypeInv, TypeInv', Forward, NEW j \in Jtis(N) \cup {None}, Refused(j)
  PROVE  Refused(j)'
<1>1. CASE j = None BY <1>1 DEF Refused
<1>2. CASE j \in Jtis(N) /\ tokens[j].exp <= time
  <2>1. tokens'[j] = tokens[j] /\ tokens[j].exp \in Nat /\ time \in Nat /\ time' \in Nat
    BY <1>2, Counts, BoundsAssumption DEF Forward, TokensKept, TokenType, TypeInv
  <2>2. tokens'[j].exp <= time' BY <1>2, <2>1 DEF Forward
  <2> QED BY <2>2 DEF Refused
<1>3. CASE j \in history.revoking BY <1>3 DEF Refused, Forward
<1> QED BY <1>1, <1>2, <1>3 DEF Refused

LEMMA PermitsKept ==
  ASSUME TypeInv, Forward, NEW j, NEW route, Permits(j, route)
  PROVE  Permits(j, route)'
<1>0. j \in Jtis(N) /\ N \in Nat BY Counts DEF Permits
<1>1. j \in Jtis(N') /\ tokens'[j] = tokens[j]
  BY <1>0 DEF Forward, TokensKept, Jtis
<1> QED BY <1>1 DEF Permits, Forward

LEMMA GuardKept ==
  ASSUME TypeInv, TypeInv', Forward, NEW g \in Slots, Guarded(slot[g]),
         Frozen(slot[g], slot'[g]) \/ slot'[g] = Idle
  PROVE  Guarded(slot[g])'
<1>1. CASE slot'[g] = Idle BY <1>1 DEF Guarded, Idle
<1>2. CASE Frozen(slot[g], slot'[g])
  <2>1. /\ slot'[g].pc = slot[g].pc /\ slot'[g].kind = slot[g].kind /\ slot'[g].jti = slot[g].jti
        /\ slot'[g].late = slot[g].late /\ slot'[g].status = slot[g].status /\ slot'[g].route = slot[g].route
    BY <1>2 DEF Frozen, Alike
  <2>2. PICK j \in Jtis(N) \cup {None} : j = slot[g].jti BY SlotParts
  <2>a. PICK route : route = slot[g].route OBVIOUS
  <2>3. Refused(j) => Refused(j)' BY RefusedKept
  <2>4. Permits(j, route) => Permits(j, route)' BY PermitsKept
  <2>5. j \in db.revoked => j \in db'.revoked BY DEF Forward
  <2>6. j \in history.revoking => j \in history'.revoking BY DEF Forward
  <2>7. slot'[g].jti = j /\ slot'[g].route = route BY <2>1, <2>2, <2>a
  <2>8. /\ slot'[g].pc = "revoke" => j \in history'.revoking
        /\ slot'[g].kind = "logout" /\ slot'[g].pc \in {"forget", "audit"} => j \in db'.revoked
        /\ slot'[g].late => /\ j \in db'.revoked
                            /\ (slot'[g].pc = "check" \/ (slot'[g].pc = "answer" /\ slot'[g].status \in {401, 403}))
    BY <2>1, <2>2, <2>5, <2>6 DEF Guarded
  <2>9. slot'[g].pc = "answer" /\ slot'[g].kind \in {"call", "logout"} /\ slot'[g].status = 401
          => Refused(j)'
    BY <2>1, <2>2, <2>3 DEF Guarded
  <2>10. slot'[g].kind = "call" /\ (slot'[g].pc = "check" \/ (slot'[g].pc = "answer" /\ slot'[g].status = 200))
           => Permits(j, route)'
    BY <2>1, <2>2, <2>a, <2>4 DEF Guarded
  <2> QED BY <2>7, <2>8, <2>9, <2>10 DEF Guarded
<1> QED BY <1>1, <1>2

LEMMA AccessFrame ==
  ASSUME TypeInv, TypeInv', AccessInv, Forward, NEW h \in Slots, Rest(h), Guarded(slot[h])', Marks'
  PROVE  AccessInv'
<1>1. ASSUME NEW g \in Slots \ {h} PROVE Guarded(slot[g])'
  <2>1. Frozen(slot[g], slot'[g]) /\ Guarded(slot[g]) BY DEF Rest, AccessInv
  <2> QED BY <2>1, GuardKept
<1>2. \A g \in Slots : Guarded(slot[g])' BY <1>1
<1> QED BY <1>2 DEF AccessInv

LEMMA AccessKept == Basic /\ AccessInv /\ [Next]_vars => AccessInv'
<1> SUFFICES ASSUME Basic, AccessInv, [Next]_vars PROVE AccessInv'
  OBVIOUS
<1>0. TypeInv /\ Starting /\ Marks BY DEF Basic, AccessInv
<1>t. time \in Nat BY <1>0, BoundsAssumption DEF TypeInv
<1>g. \A g \in Slots : Guarded(slot[g]) BY DEF AccessInv
<1>s. \A g \in Slots : Sensible(slot[g]) BY <1>0, SlotParts
<1>a. ASSUME NEW h \in Slots, Step(h), db.revoked \subseteq db'.revoked,
             history.revoking \subseteq history'.revoking
      PROVE  Forward /\ TypeInv' /\ Rest(h)
  <2>1. TypeInv' /\ TokensKept /\ Rest(h) /\ ScenarioRest /\ time' = time BY <1>0, <1>a, StepType
  <2> QED BY <1>a, <1>t, <2>1 DEF Forward, ScenarioRest
<1>b. ASSUME db'.revoked = db.revoked, HistoryRest(history, history'),
             \A s \in Servers : server'[s].revoked \subseteq server[s].revoked
      PROVE  Marks' /\ db.revoked \subseteq db'.revoked /\ history.revoking \subseteq history'.revoking
  BY <1>0, <1>b DEF Marks, HistoryRest
<1>c. ASSUME NEW h \in Slots, slot'[h].kind \notin {"call", "logout"}, ~slot'[h].late, slot'[h].pc # "revoke"
      PROVE  Guarded(slot[h])'
  BY <1>c DEF Guarded
<1>d. ASSUME NEW h \in Slots, Step(h), db'.revoked = db.revoked,
             history'.revoking = history.revoking, history'.loggedOut = history.loggedOut, server' = server,
             Kept(slot[h], slot'[h]), slot[h].pc \in {"verify", "insert", "consume", "store"}, slot'[h].pc # "revoke"
      PROVE  AccessInv'
  <2>1. Marks' /\ db.revoked \subseteq db'.revoked /\ history.revoking \subseteq history'.revoking
    BY <1>0, <1>d DEF Marks
  <2>2. Sensible(slot[h]) /\ Guarded(slot[h]) BY <1>g, <1>s
  <2>3. ~slot'[h].late /\ slot'[h].kind \notin {"call", "logout"}
    BY <1>d, <2>2 DEF Guarded, Sensible, Kept, Alike
  <2> QED BY <1>0, <1>a, <1>c, <1>d, <2>1, <2>3, AccessFrame
<1>1. ASSUME NEW h \in Slots, Verify(h) PROVE AccessInv'
  <2>1. UNCHANGED <<db, history, server>> BY <1>1 DEF Verify
  <2>2. slot[h].pc = "verify" /\ slot'[h].pc # "revoke" /\ Kept(slot[h], slot'[h])
    BY <1>0, <1>1, VerifyEffect DEF Granted, Closed
  <2> QED BY <1>1, <1>d, <2>1, <2>2 DEF Step
<1>2. ASSUME NEW h \in Slots, Insert(h) PROVE AccessInv'
  <2>1. UNCHANGED <<db.revoked, history, server>> BY <1>0, <1>2, InsertEffect DEF Insert
  <2>2. slot[h].pc = "insert" /\ slot'[h].pc # "revoke" /\ Kept(slot[h], slot'[h])
    BY <1>0, <1>2, InsertEffect DEF Granted, Closed
  <2> QED BY <1>2, <1>d, <2>1, <2>2 DEF Step
<1>3. ASSUME NEW h \in Slots, Consume(h) PROVE AccessInv'
  <2>1. UNCHANGED <<db.revoked, history, server>> BY <1>0, <1>3, ConsumeEffect DEF Consume
  <2>2. slot[h].pc = "consume" /\ slot'[h].pc # "revoke" /\ Kept(slot[h], slot'[h])
    BY <1>0, <1>3, ConsumeEffect DEF Granted, Closed
  <2> QED BY <1>3, <1>d, <2>1, <2>2 DEF Step
<1>4. ASSUME NEW h \in Slots, Store(h) PROVE AccessInv'
  <2>1. /\ db'.revoked = db.revoked /\ server' = server
        /\ history'.revoking = history.revoking /\ history'.loggedOut = history.loggedOut
    BY <1>0, <1>4, StoreEffect DEF Store
  <2>2. slot[h].pc = "store" /\ slot'[h].pc # "revoke" /\ Kept(slot[h], slot'[h])
    BY <1>0, <1>4, StoreEffect DEF Closed, Moved
  <2> QED BY <1>4, <1>d, <2>1, <2>2 DEF Step
<1>5. ASSUME NEW h \in Slots, Check(h) PROVE AccessInv'
  <2>1. UNCHANGED <<db, tokens, scenario>> BY <1>5 DEF Check
  <2>2. /\ slot[h].pc = "check" /\ Kept(slot[h], slot'[h])
        /\ history'.loggedOut = history.loggedOut
        /\ \/ /\ slot[h].jti \in db.revoked /\ slot'[h].pc = "answer" /\ slot'[h].status = 401
              /\ server' = server /\ history' = history
           \/ /\ slot[h].jti \notin db.revoked /\ slot'[h].pc = "answer" /\ slot'[h].status = 429
              /\ server' = server /\ history' = history
           \/ /\ slot[h].jti \notin db.revoked
              /\ slot[h].kind = "logout" /\ slot'[h].pc = "revoke"
              /\ history'.revoking = history.revoking \cup {slot[h].jti}
              /\ \A x \in Servers : server'[x].revoked =
                   IF x = slot[h].at THEN server[x].revoked \cup {slot[h].jti} ELSE server[x].revoked
           \/ /\ slot[h].jti \notin db.revoked
              /\ slot'[h].pc = "answer" /\ slot'[h].status = IF slot[h].kind = "logout" THEN 400 ELSE 200
              /\ history'.revoking = history.revoking
              /\ \A x \in Servers : server'[x].revoked = server[x].revoked
    <3>1. slot[h].pc = "check" /\ history'.loggedOut = history.loggedOut BY <1>0, <1>5, CheckEffect
    <3>2. \/ /\ slot[h].jti \in db.revoked /\ Closed(h, 401) /\ server' = server /\ history' = history
          \/ /\ slot[h].jti \notin db.revoked /\ Closed(h, 429) /\ server' = server /\ history' = history
          \/ /\ slot[h].jti \notin db.revoked /\ slot[h].kind = "logout" /\ Moved(h, "revoke")
             /\ history'.revoking = history.revoking \cup {slot[h].jti}
             /\ \A x \in Servers : server'[x].revoked =
                  IF x = slot[h].at THEN server[x].revoked \cup {slot[h].jti} ELSE server[x].revoked
          \/ /\ slot[h].jti \notin db.revoked
             /\ slot[h].kind = "logout" => Closed(h, 400)
             /\ slot[h].kind # "logout" => Closed(h, 200)
             /\ history'.revoking = history.revoking
             /\ \A x \in Servers : server'[x].revoked = server[x].revoked
      BY <1>0, <1>5, CheckEffect
    <3> QED BY <3>1, <3>2 DEF Closed, Moved
  <2>3. history.revoking \subseteq history'.revoking /\ Marks'
    <3>1. history.revoking \subseteq history'.revoking BY <2>2
    <3>2. \A s \in Servers : server'[s].revoked \subseteq history'.revoking
      <4>1. \A s \in Servers : server[s].revoked \subseteq history.revoking BY <1>0 DEF Marks
      <4>2. CASE history'.revoking = history.revoking /\ \A s \in Servers : server'[s].revoked = server[s].revoked
        BY <4>1, <4>2
      <4>3. CASE /\ history'.revoking = history.revoking \cup {slot[h].jti}
                 /\ \A x \in Servers : server'[x].revoked =
                      IF x = slot[h].at THEN server[x].revoked \cup {slot[h].jti} ELSE server[x].revoked
        BY <4>1, <4>3
      <4> QED BY <2>2, <4>2, <4>3
    <3>3. history'.loggedOut = history.loggedOut /\ db' = db BY <2>1, <2>2
    <3> QED BY <1>0, <3>1, <3>2, <3>3 DEF Marks
  <2>4. PICK j, route : j = slot[h].jti /\ route = slot[h].route OBVIOUS
  <2>5. /\ slot'[h].jti = j /\ slot'[h].kind = slot[h].kind /\ slot'[h].late = slot[h].late
        /\ slot'[h].route = route
    BY <2>2, <2>4 DEF Kept, Alike
  <2>6. Forward /\ TypeInv' /\ Rest(h) BY <1>5, <1>a, <2>1, <2>3 DEF Step
  <2>7. /\ slot[h].late => j \in db.revoked
        /\ slot[h].kind = "call" => Permits(j, route)
    BY <1>g, <2>2, <2>4 DEF Guarded
  <2>8. j \in db.revoked => j \in history.revoking BY <1>0 DEF Marks
  <2>9. Permits(j, route) => Permits(j, route)' BY <1>0, <2>6, PermitsKept
  <2>10. slot'[h].kind = "call" => Permits(j, route)' BY <2>5, <2>7, <2>9
  <2>11. slot'[h].late => slot'[h].jti \in db'.revoked /\ slot'[h].pc = "answer" /\ slot'[h].status = 401
    BY <2>1, <2>2, <2>4, <2>5, <2>7
  <2>12. slot'[h].pc = "answer" /\ slot'[h].status = 401 => slot'[h].jti \in history'.revoking
    BY <2>2, <2>4, <2>5, <2>8
  <2>13. slot'[h].pc = "revoke" => slot'[h].jti \in history'.revoking BY <2>2, <2>4, <2>5
  <2>14. slot'[h].pc \notin {"forget", "audit"} BY <2>2
  <2>15. Guarded(slot[h])' BY <2>5, <2>10, <2>11, <2>12, <2>13, <2>14 DEF Guarded, Refused
  <2> QED BY <1>0, <2>3, <2>6, <2>15, AccessFrame
<1>6. ASSUME NEW h \in Slots, Revoke(h) PROVE AccessInv'
  <2>1. UNCHANGED <<server, history>> BY <1>6 DEF Revoke
  <2>2. /\ slot[h].pc = "revoke" /\ Kept(slot[h], slot'[h]) /\ slot'[h].pc = "forget"
        /\ db'.revoked = db.revoked \cup {slot[h].jti}
    BY <1>0, <1>6, RevokeEffect DEF Moved
  <2>3. slot'[h].jti = slot[h].jti /\ slot'[h].late = slot[h].late BY <2>2 DEF Kept, Alike
  <2>4. slot[h].jti \in history.revoking /\ ~slot[h].late BY <1>g, <2>2 DEF Guarded
  <2>5. Marks' BY <1>0, <2>1, <2>2, <2>4 DEF Marks
  <2>6. Forward /\ TypeInv' /\ Rest(h) BY <1>6, <1>a, <2>1, <2>2 DEF Step
  <2>7. Guarded(slot[h])' BY <2>2, <2>3, <2>4 DEF Guarded
  <2> QED BY <1>0, <2>5, <2>6, <2>7, AccessFrame
<1>7. ASSUME NEW h \in Slots, Forget(h) PROVE AccessInv'
  <2> DEFINE u == tokens[slot[h].jti].user
  <2>1. server' = server BY <1>7 DEF Forget
  <2>2. /\ slot[h].pc = "forget" /\ Alike(slot[h], slot'[h]) /\ slot'[h].pc = "audit"
        /\ db'.revoked = db.revoked
        /\ history'.revoking = history.revoking /\ history'.loggedOut = history.loggedOut
    BY <1>0, <1>7, ForgetEffect
  <2>3. slot'[h].jti = slot[h].jti /\ slot'[h].late = slot[h].late /\ slot'[h].kind = slot[h].kind
    BY <2>2 DEF Alike
  <2>4. slot[h].kind = "logout" BY <1>s, <2>2 DEF Sensible
  <2>5. slot[h].jti \in db.revoked /\ ~slot[h].late BY <1>g, <2>2, <2>4 DEF Guarded
  <2>6. Marks' BY <1>0, <2>1, <2>2 DEF Marks
  <2>7. Forward /\ TypeInv' /\ Rest(h) BY <1>7, <1>a, <2>2 DEF Step
  <2>8. Guarded(slot[h])' BY <2>2, <2>3, <2>4, <2>5 DEF Guarded
  <2> QED BY <1>0, <2>6, <2>7, <2>8, AccessFrame
<1>8. ASSUME NEW h \in Slots, Audit(h) PROVE AccessInv'
  <2>1. UNCHANGED <<server, db>> BY <1>8 DEF Audit
  <2>2. /\ slot[h].pc = "audit" /\ Kept(slot[h], slot'[h]) /\ slot'[h].pc = "answer" /\ slot'[h].status \in {200, 201}
        /\ history'.revoking = history.revoking
        /\ history'.loggedOut = history.loggedOut \cup (IF slot[h].kind = "logout" THEN {slot[h].jti} ELSE {})
    BY <1>0, <1>8, AuditEffect DEF Closed
  <2>3. slot'[h].kind = slot[h].kind /\ slot'[h].late = slot[h].late BY <2>2 DEF Kept, Alike
  <2>4. slot[h].kind # "call" BY <1>s, <2>2 DEF Sensible
  <2>5. ~slot[h].late /\ (slot[h].kind = "logout" => slot[h].jti \in db.revoked) BY <1>g, <2>2 DEF Guarded
  <2>6. Marks' BY <1>0, <2>1, <2>2, <2>5 DEF Marks
  <2>7. Forward /\ TypeInv' /\ Rest(h) BY <1>8, <1>a, <2>1, <2>2 DEF Step
  <2>8. Guarded(slot[h])' BY <2>2, <2>3, <2>4, <2>5 DEF Guarded
  <2> QED BY <1>0, <2>6, <2>7, <2>8, AccessFrame
<1>9. ASSUME NEW h \in Slots, Step(h), UNCHANGED <<db, server, history>>, Guarded(slot[h])'
      PROVE  AccessInv'
  <2>1. Marks' BY <1>0, <1>9 DEF Marks
  <2>2. Forward /\ TypeInv' /\ Rest(h) BY <1>9, <1>a
  <2> QED BY <1>0, <1>9, <2>1, <2>2, AccessFrame
<1>10. ASSUME NEW h \in Slots, Deliver(h) PROVE AccessInv'
  <2>1. UNCHANGED <<db, server, history>> BY <1>10 DEF Deliver
  <2>2. slot'[h] = Idle BY <1>0, <1>10, DeliverEffect
  <2>3. Guarded(slot[h])' BY <2>2 DEF Guarded, Idle
  <2> QED BY <1>9, <1>10, <2>1, <2>3 DEF Step
<1>11. ASSUME NEW h \in Slots, HandlerFails(h) PROVE AccessInv'
  <2>1. UNCHANGED <<db, server, history>> BY <1>11 DEF HandlerFails
  <2>2. /\ Kept(slot[h], slot'[h]) /\ slot'[h].status = 500 /\ slot'[h].pc = "answer"
        /\ slot[h].pc \in {"verify", "insert", "consume", "store", "revoke", "forget", "audit"}
    BY <1>0, <1>11, FailsEffect DEF Closed
  <2>3. ~slot'[h].late BY <1>g, <2>2 DEF Guarded, Kept, Alike
  <2>4. Guarded(slot[h])' BY <2>2, <2>3 DEF Guarded
  <2> QED BY <1>9, <1>11, <2>1, <2>4 DEF Step
<1>12. ASSUME NEW h \in Slots, GiveUp(h) PROVE AccessInv'
  <2>1. UNCHANGED <<db, server, history>> BY <1>12 DEF GiveUp
  <2>2. Dropped(slot[h], slot'[h]) BY <1>0, <1>12, GiveUpEffect
  <2>3. Frozen(slot[h], slot'[h]) BY <2>2 DEF Dropped, Frozen
  <2>4. Forward /\ TypeInv' BY <1>12, <1>a, <2>1 DEF Step
  <2>5. Guarded(slot[h])' BY <1>0, <1>g, <2>3, <2>4, GuardKept
  <2> QED BY <1>9, <1>12, <2>1, <2>5 DEF Step
<1>13. ASSUME NEW h \in Slots, NEW q, NEW s \in Servers, NEW c \in Senders, Entered(h, s, c, q),
              Step(h), db' = db, q.kind \in {"login", "register", "refresh"}, ~q.late,
              q.pc \in {"verify", "insert", "consume"}
       PROVE  AccessInv'
  <2>1. /\ HistoryRest(history, history') /\ \A x \in Servers : server'[x].revoked = server[x].revoked
        /\ slot'[h].kind = q.kind /\ slot'[h].late = q.late /\ slot'[h].pc \in {q.pc, "answer"}
    BY <1>13 DEF Entered, Kept, Alike, MemoryRest
  <2>2. Marks' /\ db.revoked \subseteq db'.revoked /\ history.revoking \subseteq history'.revoking
    BY <1>b, <1>13, <2>1
  <2>3. Forward /\ TypeInv' /\ Rest(h) BY <1>13, <1>a, <2>2
  <2>4. Guarded(slot[h])' BY <1>c, <1>13, <2>1
  <2> QED BY <1>0, <2>2, <2>3, <2>4, AccessFrame
<1>14. ASSUME NEW h \in Slots, NEW s \in Servers, NEW c \in Senders, Requests(h, s, c) PROVE AccessInv'
  <2>1. db' = db BY <1>14 DEF Requests, Login, Register, Arrives
  <2>2. \E u \in AllUsers : Anonymous(h, s, c, "login", "verify", u)
                            \/ Anonymous(h, s, c, "register", "insert", u)
    BY <1>0, <1>14, LoginStep, RegisterStep DEF Requests
  <2>3. Step(h) BY <1>14 DEF Step
  <2> QED BY <1>13, <2>1, <2>2, <2>3 DEF Anonymous
<1>15. ASSUME NEW h \in Slots, NEW s \in Servers, NEW c \in Clients, Renews(h, s, c) PROVE AccessInv'
  <2>1. db' = db BY <1>15 DEF Renews, Refresh, Arrives
  <2>2. \E q : Entered(h, s, c, q) /\ q.pc = "consume" /\ q.kind = "refresh" /\ ~q.late
    BY <1>0, <1>15, RefreshStep DEF Renews
  <2>3. Step(h) BY <1>15 DEF Step
  <2> QED BY <1>13, <2>1, <2>2, <2>3 DEF Senders
<1>16. ASSUME NEW h \in Slots, NEW s \in Servers, NEW c \in Senders, Presents(h, s, c) PROVE AccessInv'
  <2>1. PICK kind \in {"call", "logout"}, j \in Jtis(N) \cup {None}, route \in ProtectedRoutes :
          Receives(h, s, c, kind, j, route)
    BY <1>16 DEF Presents
  <2>2. UNCHANGED <<db, tokens, server, history, time>> BY <2>1 DEF Receives
  <2>3. /\ slot'[h].kind = kind /\ slot'[h].jti = j /\ slot'[h].route = route
        /\ (slot'[h].late => j \in history.loggedOut)
        /\ \/ Access(j, route) # 200 /\ slot'[h].pc = "answer" /\ slot'[h].status = Access(j, route)
           \/ j \in server[s].revoked /\ slot'[h].pc = "answer" /\ slot'[h].status = 401
           \/ Access(j, route) = 200 /\ slot'[h].pc = "check" /\ slot'[h].status = 0
    BY <1>0, <2>1, ReceivesStep
  <2>4. Step(h) BY <1>16 DEF Step
  <2>5. Forward BY <1>a, <2>2, <2>4
  <2>6. Access(j, route) = 401 => Refused(j)'
    <3>1. Access(j, route) = 401 => Refused(j)
      <4>1. j \in Jtis(N) => tokens[j].exp \in Nat BY <1>0, Counts DEF TokenType
      <4> QED BY <1>t, <4>1 DEF Access, Valid, Refused
    <3> QED BY <1>0, <1>a, <2>2, <2>4, <2>5, <3>1, RefusedKept
  <2>7. j \in server[s].revoked => Refused(j)' BY <1>0, <2>2 DEF Marks, Refused
  <2>8. Access(j, route) = 200 => Permits(j, route)'
    <3>1. Access(j, route) = 200 => Permits(j, route) BY DEF Access, Valid, Permits
    <3> QED BY <1>0, <2>5, <3>1, PermitsKept
  <2>9. Access(j, route) \in {200, 401, 403} BY DEF Access
  <2>10. slot'[h].late => j \in db'.revoked BY <1>0, <2>2, <2>3 DEF Marks
  <2>11. Guarded(slot[h])' BY <2>3, <2>6, <2>7, <2>8, <2>9, <2>10 DEF Guarded
  <2> QED BY <1>9, <2>2, <2>4, <2>11
<1>17. ASSUME Calm, TokensKept, TypeInv', scenario'.rbac = scenario.rbac PROVE AccessInv'
  <2>1. Marks' /\ Forward BY <1>b, <1>17 DEF Calm, Forward
  <2>2. \A g \in Slots : Guarded(slot[g])'
    <3>1. \A g \in Slots : Frozen(slot[g], slot'[g]) \/ slot'[g] = Idle BY <1>17 DEF Calm
    <3> QED BY <1>0, <1>g, <1>17, <2>1, <3>1, GuardKept
  <2> QED BY <2>1, <2>2 DEF AccessInv
<1>18. ASSUME NEW h \in Slots, Step(h) PROVE AccessInv'
  BY <1>18, <1>1, <1>2, <1>3, <1>4, <1>5, <1>6, <1>7, <1>8, <1>10, <1>11, <1>12, <1>14, <1>15, <1>16 DEF Step
<1>19. (\E h \in Slots : Step(h)) \/ (Calm /\ TokensKept /\ TypeInv' /\ ScenarioRest)
  BY <1>0, Steps, CalmType
<1> QED BY <1>17, <1>18, <1>19 DEF ScenarioRest

LEMMA AccessBegins == Init => AccessInv
<1> SUFFICES ASSUME Init PROVE AccessInv
  OBVIOUS
<1>1. /\ db.revoked = {} /\ history.loggedOut = {} /\ slot = [h \in Slots |-> Idle]
      /\ server = [s \in Servers |-> Fresh]
  BY InitType DEF Begun
<1>2. Marks BY <1>1 DEF Marks, Fresh
<1>3. Guarded(Idle) BY DEF Guarded, Idle
<1> QED BY <1>1, <1>2, <1>3 DEF AccessInv

(* a route that changes what is stored asks for a scope that writes *)
LEMMA ChangesAskToWrite ==
  ASSUME NEW route \in ProtectedRoutes, Changes(route)
  PROVE  RequiredScopes(route) \cap {"designer:write", "credentials:write", "workflows:write"} # {}
<1>1. /\ route \in [method : {"GET", "POST", "PUT", "DELETE"}, area : {"activities", "catalog", "designer",
            "credentials", "oauth/start", "workflows", "audit", "other", "oauth", "auth/logout"}]
      /\ route # Logout
  BY DEF ProtectedRoutes, Logout, Route, Changes
<1>2. \/ route.method = "GET" /\ route.area = "oauth/start"
      \/ route.method = "POST" /\ route.area \in {"designer", "credentials", "workflows", "other"}
      \/ route.method = "PUT" /\ route.area = "designer"
      \/ route.method = "DELETE" /\ route.area \in {"credentials", "oauth"}
  BY DEF ProtectedRoutes, Logout, Route, Changes
<1>3. route # Route("POST", "pay/checkout") BY <1>2 DEF Route
<1>4. route # Logout BY <1>1
<1>5. CASE route.area = "designer" BY <1>2, <1>3, <1>4, <1>5 DEF RequiredScopes
<1>6. CASE route.area = "credentials" BY <1>2, <1>3, <1>4, <1>6 DEF RequiredScopes
<1>7. CASE route.area = "oauth/start" BY <1>2, <1>3, <1>4, <1>7 DEF RequiredScopes
<1>8. CASE route.area = "workflows" BY <1>2, <1>3, <1>4, <1>8 DEF RequiredScopes
<1>9. CASE route.area = "oauth" BY <1>2, <1>3, <1>4, <1>9 DEF RequiredScopes
<1>10. CASE route.area = "other" BY <1>2, <1>3, <1>4, <1>10 DEF RequiredScopes
<1> QED BY <1>2, <1>5, <1>6, <1>7, <1>8, <1>9, <1>10

LEMMA AccessFollows == Basic /\ AccessInv => AccessHonest
<1> SUFFICES ASSUME Basic, AccessInv PROVE AccessHonest
  OBVIOUS
<1>0. TypeInv /\ \A g \in Slots : Guarded(slot[g]) BY DEF Basic, AccessInv
<1>1. RevokedStaysOut BY <1>0 DEF RevokedStaysOut, Guarded
<1>2. LiveTokenServed BY <1>0 DEF LiveTokenServed, Guarded, Refused
<1>3. ReadOnlyChangesNothing
  <2> SUFFICES ASSUME NEW h \in Slots, slot[h].pc = "answer", slot[h].kind = "call", slot[h].status = 200,
                      scenario.rbac, Changes(slot[h].route)
               PROVE  tokens[slot[h].jti].scopes
                        \cap {"*", "designer:write", "credentials:write", "workflows:write"} # {}
    BY DEF ReadOnlyChangesNothing
  <2>1. PICK j, route : j = slot[h].jti /\ route = slot[h].route OBVIOUS
  <2>2. "*" \in tokens[j].scopes \/ RequiredScopes(route) \subseteq tokens[j].scopes
    BY <1>0, <2>1 DEF Guarded, Permits
  <2>3. route \in ProtectedRoutes BY <1>0, <2>1, SlotParts DEF Sensible
  <2>4. RequiredScopes(route) \cap {"designer:write", "credentials:write", "workflows:write"} # {}
    BY <2>1, <2>3, ChangesAskToWrite
  <2> QED BY <2>1, <2>2, <2>4
<1> QED BY <1>1, <1>2, <1>3 DEF AccessHonest

(* A token opens what it should, as long as it should: no request that     *)
(* arrives after the answer of a logout is served, on any process; one is  *)
(* refused as unauthorized only for want of a token, or after its expiry,  *)
(* or after its own logout began; and scopes that only read change         *)
(* nothing. *)
THEOREM TokensAreHonest == Spec => []AccessHonest
<1>1. Init => Basic /\ AccessInv BY InitBasic, AccessBegins
<1>2. Basic /\ AccessInv /\ [Next]_vars => (Basic /\ AccessInv)' BY AccessKept, StepKinds DEF Basic
<1>3. Basic /\ AccessInv => AccessHonest BY AccessFollows
<1> QED BY <1>1, <1>2, <1>3, PTL DEF Spec

-----------------------------------------------------------------------------
(* Answers.  Who waits for one, and what it brings. *)
Given(q) ==
  q.pc = "answer" /\ q.kind \in {"login", "register", "refresh"} /\ q.status \in {200, 201} => q.issued # None

LEMMA WaitingSteps ==
  ASSUME TypeInv, NEW h \in Slots, Step(h), Given(slot[h])
  PROVE  /\ \A g \in Slots \ {h} : slot'[g].who \in {slot[g].who, None}
         /\ slot'[h].who \in {slot[h].who, None} \/ (Free(slot'[h].who) /\ slot[h].pc = "idle")
         /\ tab' = tab \/ Deliver(h)
         /\ Given(slot'[h])
<1> DEFINE Goal == /\ \A g \in Slots \ {h} : slot'[g].who \in {slot[g].who, None}
                   /\ slot'[h].who \in {slot[h].who, None} \/ (Free(slot'[h].who) /\ slot[h].pc = "idle")
                   /\ tab' = tab \/ Deliver(h)
                   /\ Given(slot'[h])
<1> SUFFICES Goal
  OBVIOUS
<1>a. ASSUME ChangedAt(h), tab' = tab, slot'[h].who \in {slot[h].who, None}, Given(slot'[h]) PROVE Goal
  BY <1>a DEF ChangedAt
<1>b. ASSUME ChangedAt(h), tab' = tab, Kept(slot[h], slot'[h]), Given(slot'[h]) PROVE Goal
  BY <1>a, <1>b DEF Kept
<1>s. Sensible(slot[h]) BY SlotParts
<1>1. CASE Verify(h)
  <2>1. tab' = tab BY <1>1 DEF Verify
  <2>2. Granted(h) \/ Closed(h, 401) BY <1>1, VerifyEffect
  <2>3. ChangedAt(h) /\ Kept(slot[h], slot'[h]) /\ Given(slot'[h]) BY <2>2 DEF Granted, Closed, Given
  <2> QED BY <1>b, <2>1, <2>3
<1>2. CASE Insert(h)
  <2>1. tab' = tab BY <1>2 DEF Insert
  <2>2. Granted(h) \/ Closed(h, 409) BY <1>2, InsertEffect
  <2>3. ChangedAt(h) /\ Kept(slot[h], slot'[h]) /\ Given(slot'[h]) BY <2>2 DEF Granted, Closed, Given
  <2> QED BY <1>b, <2>1, <2>3
<1>3. CASE Consume(h)
  <2>1. tab' = tab BY <1>3 DEF Consume
  <2>2. Granted(h) \/ Closed(h, 401) BY <1>3, ConsumeEffect
  <2>3. ChangedAt(h) /\ Kept(slot[h], slot'[h]) /\ Given(slot'[h]) BY <2>2 DEF Granted, Closed, Given
  <2> QED BY <1>b, <2>1, <2>3
<1>4. CASE Store(h)
  <2>1. tab' = tab BY <1>4 DEF Store
  <2>2. slot[h].pc = "store" /\ (Closed(h, 200) \/ Moved(h, "audit")) BY <1>4, StoreEffect
  <2>3. slot[h].issued # None BY <1>s, <2>2 DEF Sensible
  <2>4. ChangedAt(h) /\ Kept(slot[h], slot'[h]) /\ Given(slot'[h]) BY <2>2, <2>3 DEF Moved, Closed, Given
  <2> QED BY <1>b, <2>1, <2>4
<1>5. CASE Check(h)
  <2>1. tab' = tab BY <1>5 DEF Check
  <2>2. /\ slot[h].pc = "check" /\ ChangedAt(h) /\ Kept(slot[h], slot'[h])
    BY <1>5, CheckEffect DEF Closed, Moved
  <2>3. slot'[h].kind \in {"call", "logout"} BY <1>s, <2>2 DEF Sensible, Kept, Alike
  <2>4. Given(slot'[h]) BY <2>3 DEF Given
  <2> QED BY <1>b, <2>1, <2>2, <2>4
<1>6. CASE Revoke(h)
  <2>1. tab' = tab BY <1>6 DEF Revoke
  <2>2. Moved(h, "forget") BY <1>6, RevokeEffect
  <2>3. ChangedAt(h) /\ Kept(slot[h], slot'[h]) /\ Given(slot'[h]) BY <2>2 DEF Moved, Given
  <2> QED BY <1>b, <2>1, <2>3
<1>7. CASE Forget(h)
  <2> DEFINE u == tokens[slot[h].jti].user
  <2>1. tab' = tab BY <1>7 DEF Forget
  <2>2. \A g \in Slots : slot'[g].who = slot[g].who /\ slot'[g].pc = IF g = h THEN "audit" ELSE slot[g].pc
    BY <1>7, ForgetEffect
  <2>3. Given(slot'[h]) BY <2>2 DEF Given
  <2> QED BY <2>1, <2>2, <2>3
<1>8. CASE Audit(h)
  <2>1. tab' = tab BY <1>8 DEF Audit
  <2>2. slot[h].pc = "audit" /\ (Closed(h, 200) \/ Closed(h, 201)) BY <1>8, AuditEffect
  <2>3. slot[h].kind # "logout" => slot[h].issued # None BY <1>s, <2>2 DEF Sensible
  <2>4. ChangedAt(h) /\ Kept(slot[h], slot'[h]) /\ Given(slot'[h])
    BY <2>2, <2>3 DEF Closed, Given, Kept, Alike
  <2> QED BY <1>b, <2>1, <2>4
<1>9. CASE Deliver(h)
  <2>1. /\ slot'[h] = Idle
        /\ \A g \in Slots \ {h} :
             IF Loads(h) /\ slot[g].who = slot[h].who THEN Dropped(slot[g], slot'[g]) ELSE slot'[g] = slot[g]
    BY <1>9, DeliverEffect
  <2>2. \A g \in Slots \ {h} : slot'[g].who \in {slot[g].who, None} BY <2>1 DEF Dropped
  <2>3. Given(slot'[h]) /\ slot'[h].who = None BY <2>1 DEF Given, Idle
  <2> QED BY <1>9, <2>2, <2>3
<1>10. CASE HandlerFails(h)
  <2>1. tab' = tab BY <1>10 DEF HandlerFails
  <2>2. Closed(h, 500) BY <1>10, FailsEffect
  <2>3. ChangedAt(h) /\ Kept(slot[h], slot'[h]) /\ Given(slot'[h]) BY <2>2 DEF Closed, Given
  <2> QED BY <1>b, <2>1, <2>3
<1>11. CASE GiveUp(h)
  <2>1. tab' = tab BY <1>11 DEF GiveUp
  <2>2. ChangedAt(h) /\ Dropped(slot[h], slot'[h]) BY <1>11, GiveUpEffect
  <2>3. slot'[h].who = None /\ Given(slot'[h]) BY <2>2 DEF Dropped, Alike, Given
  <2> QED BY <1>a, <2>1, <2>2, <2>3
<1>12. ASSUME NEW s \in Servers, NEW c \in Senders, NEW q, Entered(h, s, c, q), Free(c), tab' = tab,
              q.who = c, q.pc \in {"verify", "insert", "consume"}, slot[h].pc = "idle"
       PROVE  Goal
  <2>1. /\ ChangedAt(h) /\ slot'[h].who = c
        /\ slot'[h].pc \in {"verify", "insert", "consume"} \/ slot'[h].status = 429
    BY <1>12 DEF Entered, Kept
  <2>2. Given(slot'[h]) BY <2>1 DEF Given
  <2> QED BY <1>12, <2>1, <2>2 DEF ChangedAt
<1>13. ASSUME NEW s \in Servers, NEW c \in Senders, Requests(h, s, c) PROVE Goal
  <2>1. tab' = tab /\ Free(c) BY <1>13 DEF Requests, Login, Register, Arrives
  <2>2. /\ slot[h].pc = "idle"
        /\ \E u \in AllUsers : Anonymous(h, s, c, "login", "verify", u)
                               \/ Anonymous(h, s, c, "register", "insert", u)
    BY <1>13, LoginStep, RegisterStep DEF Requests
  <2>3. \E q : Entered(h, s, c, q) /\ q.who = c /\ q.pc \in {"verify", "insert", "consume"}
    BY <2>2 DEF Anonymous
  <2> HIDE DEF Goal
  <2> QED BY <1>12, <2>1, <2>2, <2>3
<1>14. ASSUME NEW s \in Servers, NEW c \in Clients, Renews(h, s, c) PROVE Goal
  <2>1. tab' = tab /\ Free(c) BY <1>14 DEF Renews, Refresh, Arrives
  <2>2. slot[h].pc = "idle" /\ \E q : Entered(h, s, c, q) /\ q.pc = "consume" /\ q.who = c
    BY <1>14, RefreshStep DEF Renews
  <2> HIDE DEF Goal
  <2> QED BY <1>12, <2>1, <2>2 DEF Senders
<1>15. ASSUME NEW s \in Servers, NEW c \in Senders, Presents(h, s, c) PROVE Goal
  <2>1. PICK kind \in {"call", "logout"}, j \in Jtis(N) \cup {None}, route \in ProtectedRoutes :
          Receives(h, s, c, kind, j, route)
    BY <1>15 DEF Presents
  <2>2. tab' = tab /\ Free(c) BY <1>15, <2>1 DEF Receives, Presents
  <2>3. slot[h].pc = "idle" /\ ChangedAt(h) /\ slot'[h].who = c /\ slot'[h].kind = kind BY <2>1, ReceivesStep
  <2>4. Given(slot'[h]) BY <2>3 DEF Given
  <2> QED BY <2>2, <2>3, <2>4 DEF ChangedAt
<1> HIDE DEF Goal
<1> QED
  BY <1>1, <1>2, <1>3, <1>4, <1>5, <1>6, <1>7, <1>8, <1>9, <1>10, <1>11, <1>13, <1>14, <1>15 DEF Step

LEMMA WaitingCalm ==
  ASSUME TypeInv, Starting,
         Elsewhere \/ (\E s \in Servers : Crash(s)) \/ (\E t \in Tabs : Shown(t) \/ Redirect(t) \/ TabLogout(t))
  PROVE  \A g \in Slots : slot'[g].who \in {slot[g].who, None}
<1>1. CASE Elsewhere BY <1>1 DEF Elsewhere, vars, Advance, StartUp, InsertDefault
<1>2. ASSUME NEW s \in Servers, Crash(s) PROVE \A g \in Slots : slot'[g].who \in {slot[g].who, None}
  <2>1. \A g \in Slots : slot'[g] = IF g \in Dying(s) THEN Idle ELSE slot[g] BY <1>2, CrashEffect
  <2> QED BY <2>1 DEF Idle
<1>3. ASSUME NEW t \in Tabs, Shown(t) PROVE slot' = slot
  BY <1>3 DEF Shown, Booted, Unauthorized, StatusFails
<1>4. ASSUME NEW t \in Tabs, Redirect(t) \/ TabLogout(t)
      PROVE  \A g \in Slots : slot'[g].who \in {slot[g].who, None}
  <2>1. \A g \in Slots : slot'[g] = slot[g] \/ Dropped(slot[g], slot'[g]) BY <1>4, LeaveEffect
  <2> QED BY <2>1 DEF Dropped
<1> QED BY <1>1, <1>2, <1>3, <1>4

(* What a tab shows.  A page being loaded waits for nothing.               *)
Screen(t) ==
  /\ tab[t].boot => (tab[t].session => tab[t].token # None) /\ \A g \in Slots : slot[g].who # t
  /\ ~tab[t].boot /\ tab[t].path = "page" /\ (~tab[t].login \/ tab[t].session) =>
       tab[t].token # None \/ tab[t].asks > 0 \/ tab[t].failed
ScreenInv == (\A g \in Slots : Given(slot[g])) /\ (\A t \in Tabs : Screen(t))

LEMMA GivenKept ==
  ASSUME NEW q, NEW r, Given(q), Frozen(q, r) \/ r = Idle PROVE Given(r)
BY DEF Given, Frozen, Alike, Idle

LEMMA ScreenSame ==
  ASSUME NEW t \in Tabs, Screen(t), tab'[t] = tab[t], tab[t].boot => \A g \in Slots : slot'[g].who # t
  PROVE  Screen(t)'
BY DEF Screen

LEMMA ScreenDelivered ==
  ASSUME TypeInv, ScreenInv, NEW h \in Slots, Deliver(h), NEW t \in Tabs
  PROVE  Screen(t)'
<1>1. /\ slot[h].pc = "answer" /\ slot'[h] = Idle
      /\ \A g \in Slots \ {h} :
           IF Loads(h) /\ slot[g].who = slot[h].who THEN Dropped(slot[g], slot'[g]) ELSE slot'[g] = slot[g]
      /\ tab'[t] = IF t = slot[h].who THEN ToTab(tab[t], slot[h]) ELSE tab[t]
  BY DeliverEffect
<1>2. Idle.who = None /\ t # None BY NamesAssumption DEF Idle, Senders
<1>3. \A g \in Slots : slot'[g].who \in {slot[g].who, None} BY <1>1, <1>2 DEF Dropped
<1>4. Screen(t) /\ Given(slot[h]) BY DEF ScreenInv
<1>5. CASE t # slot[h].who
  <2>1. tab[t].boot => \A g \in Slots : slot'[g].who # t BY <1>2, <1>3, <1>4 DEF Screen
  <2> QED BY <1>1, <1>4, <1>5, <2>1, ScreenSame
<1>6. CASE t = slot[h].who
  <2> DEFINE x == tab[t]
             y == tab'[t]
             q == slot[h]
  <2>1. ~x.boot BY <1>4, <1>6 DEF Screen
  <2>2. x \in TabType(N) /\ y = ToTab(x, q) BY <1>1, <1>6, TabParts
  <2>g. Given(q) /\ q.pc = "answer" BY <1>1, <1>4
  <2>s. x.path = "page" /\ (~x.login \/ x.session) => x.token # None \/ x.asks > 0 \/ x.failed
    BY <1>4, <2>1 DEF Screen
  <2>n. x.asks \in Nat BY TabParts
  <2>3. y.boot => \A g \in Slots : slot'[g].who # t
    <3>1. ASSUME y.boot PROVE Loads(h) BY <1>6, <3>1 DEF Loads
    <3>2. ASSUME Loads(h), NEW g \in Slots PROVE slot'[g].who # t
      BY <1>1, <1>2, <1>6, <3>2 DEF Dropped
    <3> QED BY <3>1, <3>2
  <2> HIDE DEF x, y, q
  <2>4. /\ y.boot => (y.session => y.token # None)
        /\ ~y.boot /\ y.path = "page" /\ (~y.login \/ y.session) => y.token # None \/ y.asks > 0 \/ y.failed
    <3>1. CASE q.status \in {200, 201} /\ q.kind \in {"login", "register"}
      <4>1. q.issued # None BY <2>g, <3>1 DEF Given
      <4>2. CASE x.path = "login"
        <5>1. y = Loaded("page", q.issued) BY <2>2, <3>1, <4>2 DEF ToTab
        <5> QED BY <4>1, <5>1 DEF Loaded
      <4>3. CASE x.path # "login"
        <5>1. y = [x EXCEPT !.token = q.issued, !.path = "page", !.session = TRUE,
                            !.login = FALSE, !.failed = FALSE]
          BY <2>2, <3>1, <4>3 DEF ToTab
        <5>2. y.token = q.issued /\ y.boot = x.boot BY <2>2, <5>1 DEF TabType
        <5> QED BY <2>1, <4>1, <5>2
      <4> QED BY <4>2, <4>3
    <3>2. CASE q.status = 401 /\ q.kind = "call"
      <4>1. y = [x EXCEPT !.token = None, !.asks = @ + 1] BY <2>2, <3>2 DEF ToTab
      <4>2. y.boot = x.boot /\ y.asks = x.asks + 1 BY <2>2, <4>1 DEF TabType
      <4>3. y.asks > 0 BY <2>n, <4>2
      <4> QED BY <2>1, <4>2, <4>3
    <3>3. CASE ~(q.status \in {200, 201} /\ q.kind \in {"login", "register"}) /\ ~(q.status = 401 /\ q.kind = "call")
      <4>1. y = x BY <2>2, <3>3 DEF ToTab
      <4> QED BY <2>1, <2>s, <4>1
    <3> QED BY <3>1, <3>2, <3>3
  <2> QED BY <2>3, <2>4 DEF Screen, x, y
<1> QED BY <1>5, <1>6

LEMMA ScreenKept == Basic /\ ScreenInv /\ [Next]_vars => ScreenInv'
<1> SUFFICES ASSUME Basic, ScreenInv, [Next]_vars PROVE ScreenInv'
  OBVIOUS
<1>0. TypeInv /\ Starting BY DEF Basic
<1>n. None \notin Tabs BY NamesAssumption DEF Senders
<1>g. /\ \A g \in Slots : Given(slot[g])
      /\ \A t \in Tabs : Screen(t)
  BY DEF ScreenInv
<1>1. ASSUME NEW h \in Slots, Step(h) PROVE ScreenInv'
  <2>1. /\ \A g \in Slots \ {h} : slot'[g].who \in {slot[g].who, None}
        /\ slot'[h].who \in {slot[h].who, None} \/ Free(slot'[h].who)
        /\ tab' = tab \/ Deliver(h)
        /\ Given(slot'[h])
    BY <1>0, <1>g, <1>1, WaitingSteps
  <2>2. Rest(h) BY <1>0, <1>1, StepType
  <2>3. \A g \in Slots : Given(slot'[g]) BY <1>g, <2>1, <2>2, GivenKept DEF Rest
  <2>4. ASSUME tab' = tab, NEW t \in Tabs PROVE Screen(t)'
    <3>1. ASSUME tab[t].boot, NEW g \in Slots PROVE slot'[g].who # t
      <4>1. slot[g].who # t /\ ~Free(t) BY <1>g, <3>1 DEF Screen, Free
      <4> QED BY <1>n, <2>1, <4>1
    <3> QED BY <1>g, <2>4, <3>1, ScreenSame
  <2>5. ASSUME Deliver(h), NEW t \in Tabs PROVE Screen(t)' BY <1>0, <2>5, ScreenDelivered
  <2> QED BY <2>1, <2>3, <2>4, <2>5 DEF ScreenInv
<1>2. ASSUME NEW t \in Tabs, Screen(t)', Others(t), \A g \in Slots : Given(slot'[g]),
             \A g \in Slots : slot'[g].who \in {slot[g].who, None}
      PROVE  ScreenInv'
  <2>1. ASSUME NEW u \in Tabs \ {t} PROVE Screen(u)'
    <3>1. tab[u].boot => \A g \in Slots : slot'[g].who # u BY <1>g, <1>n, <1>2 DEF Screen
    <3> QED BY <1>g, <1>2, <3>1, ScreenSame DEF Others
  <2> QED BY <1>2, <2>1 DEF ScreenInv
<1>3. ASSUME Elsewhere \/ (\E s \in Servers : Crash(s)) \/ (\E t \in Tabs : Shown(t) \/ Redirect(t) \/ TabLogout(t))
      PROVE  ScreenInv'
  <2>1. \A g \in Slots : slot'[g].who \in {slot[g].who, None} BY <1>0, <1>3, WaitingCalm
  <2>2. \A g \in Slots : Given(slot'[g])
    <3>1. \A g \in Slots : Frozen(slot[g], slot'[g]) \/ slot'[g] = Idle BY <1>0, <1>3, CalmType DEF Calm
    <3> QED BY <1>g, <3>1, GivenKept
  <2>3. CASE Elsewhere \/ \E s \in Servers : Crash(s)
    <3>1. tab' = tab BY <2>3 DEF Elsewhere, vars, Advance, StartUp, InsertDefault, Crash
    <3>2. ASSUME NEW t \in Tabs PROVE Screen(t)'
      <4>1. tab[t].boot => \A g \in Slots : slot'[g].who # t BY <1>g, <1>n, <2>1 DEF Screen
      <4> QED BY <1>g, <3>1, <4>1, ScreenSame
    <3> QED BY <2>2, <3>2 DEF ScreenInv
  <2>4. ASSUME NEW t \in Tabs, Booted(t) PROVE ScreenInv'
    <3>1. /\ Others(t) /\ tab'[t].token = tab[t].token /\ tab'[t].session = tab[t].session
          /\ tab[t].boot /\ ~tab'[t].boot /\ tab'[t].login = (tab[t].token = None)
      BY <1>0, <2>4, BootedEffect
    <3>2. Screen(t) BY <1>g
    <3>3. Screen(t)' BY <3>1, <3>2 DEF Screen
    <3> QED BY <1>2, <2>1, <2>2, <3>1, <3>3
  <2>5. ASSUME NEW t \in Tabs, Unauthorized(t) PROVE ScreenInv'
    <3>1. /\ Others(t) /\ tab'[t].boot = tab[t].boot /\ ~tab'[t].session /\ tab'[t].login
      BY <1>0, <2>5, UnauthorizedEffect
    <3>2. \A g \in Slots : tab[t].boot => slot'[g].who # t BY <1>g, <1>n, <2>1 DEF Screen
    <3>3. Screen(t)' BY <3>1, <3>2 DEF Screen
    <3> QED BY <1>2, <2>1, <2>2, <3>1, <3>3
  <2>6. ASSUME NEW t \in Tabs, StatusFails(t) PROVE ScreenInv'
    <3>1. Others(t) /\ tab'[t].failed /\ ~tab'[t].boot BY <1>0, <2>6, StatusEffect
    <3>2. Screen(t)' BY <3>1 DEF Screen
    <3> QED BY <1>2, <2>1, <2>2, <3>1, <3>2
  <2>7. ASSUME NEW t \in Tabs, Redirect(t) \/ TabLogout(t) PROVE ScreenInv'
    <3>1. /\ Others(t) /\ tab'[t].boot /\ tab'[t].session = (tab'[t].token # None)
          /\ \A g \in Slots : slot'[g].who # t
      BY <1>0, <2>7, LeaveEffect
    <3>2. Screen(t)' BY <3>1 DEF Screen
    <3> QED BY <1>2, <2>1, <2>2, <3>1, <3>2
  <2> QED BY <1>3, <2>3, <2>4, <2>5, <2>6, <2>7 DEF Shown
<1> QED BY <1>0, <1>1, <1>3, Steps

LEMMA ScreenBegins == Init => ScreenInv
<1> SUFFICES ASSUME Init PROVE ScreenInv
  OBVIOUS
<1>1. /\ slot = [h \in Slots |-> Idle]
      /\ \A t \in Tabs : tab[t].boot /\ tab[t].session = (tab[t].token # None)
  BY InitType DEF Begun
<1>2. Given(Idle) /\ Idle.who = None BY DEF Given, Idle
<1>3. None \notin Tabs BY NamesAssumption DEF Senders
<1> QED BY <1>1, <1>2, <1>3 DEF ScreenInv, Screen

(* A tab that shows a page and its toolbar has a token, or is about to ask *)
(* for the login page, or could not learn whether one is needed: whatever  *)
(* answers come late, to whichever page is loaded by then.                 *)
THEOREM ScreensAreHonest == Spec => []ScreenHonest
<1>1. Init => Basic /\ ScreenInv BY InitBasic, ScreenBegins
<1>2. Basic /\ ScreenInv /\ [Next]_vars => (Basic /\ ScreenInv)' BY ScreenKept, StepKinds DEF Basic
<1>3. ScreenInv => ScreenHonest BY DEF ScreenInv, Screen, ScreenHonest, Shows
<1> QED BY <1>1, <1>2, <1>3, PTL DEF Spec

-----------------------------------------------------------------------------
(* Passwords.  An account never changes once it is made, and the account   *)
(* a registration made has its password. *)
AccountMade(q) == q.kind = "register" /\ q.pc \in {"store", "audit"} => db.accounts[q.user] = q.password
PasswordInv == PasswordKept /\ \A g \in Slots : AccountMade(slot[g])
AccountsFirm == \A u \in Users : db.accounts[u] # None => db'.accounts[u] = db.accounts[u]

LEMMA PasswordFrame ==
  ASSUME TypeInv, PasswordInv, AccountsFirm, history'.registered = history.registered,
         \A g \in Slots : \/ Frozen(slot[g], slot'[g])
                          \/ slot'[g].pc \notin {"store", "audit"}
                          \/ /\ slot[g].pc = "store" /\ Kept(slot[g], slot'[g])
                          \/ AccountMade(slot[g])'
  PROVE  PasswordInv'
<1>1. PasswordKept'
  <2> SUFFICES ASSUME NEW e \in history.registered PROVE db'.accounts[e[1]] = e[2]
    BY DEF PasswordKept
  <2>1. e[1] \in Users /\ e[2] \in Passwords BY HistoryParts
  <2>2. db.accounts[e[1]] = e[2] BY DEF PasswordInv, PasswordKept
  <2> QED BY <2>1, <2>2, NamesAssumption DEF AccountsFirm
<1>2. ASSUME NEW g \in Slots PROVE AccountMade(slot[g])'
  <2>1. CASE Frozen(slot[g], slot'[g]) \/ (slot[g].pc = "store" /\ Kept(slot[g], slot'[g]))
    <3> SUFFICES ASSUME slot'[g].kind = "register", slot'[g].pc \in {"store", "audit"}
                 PROVE  db'.accounts[slot'[g].user] = slot'[g].password
      BY DEF AccountMade
    <3>1. /\ slot[g].kind = "register" /\ slot[g].pc \in {"store", "audit"}
          /\ slot'[g].user = slot[g].user /\ slot'[g].password = slot[g].password
      BY <2>1 DEF Frozen, Kept, Alike
    <3>2. db.accounts[slot[g].user] = slot[g].password BY <3>1 DEF PasswordInv, AccountMade
    <3>3. slot[g].user \in Users /\ slot[g].password \in Passwords BY <3>1, SlotParts DEF Sensible
    <3> QED BY <3>1, <3>2, <3>3, NamesAssumption DEF AccountsFirm
  <2>2. CASE slot'[g].pc \notin {"store", "audit"} BY <2>2 DEF AccountMade
  <2> QED BY <2>1, <2>2
<1> QED BY <1>1, <1>2 DEF PasswordInv

LEMMA PasswordsKept == Basic /\ PasswordInv /\ [Next]_vars => PasswordInv'
<1> SUFFICES ASSUME Basic, PasswordInv, [Next]_vars PROVE PasswordInv'
  OBVIOUS
<1>0. TypeInv /\ Starting BY DEF Basic
<1>a. ASSUME db'.accounts = db.accounts PROVE AccountsFirm BY <1>a DEF AccountsFirm
<1>b. ASSUME NEW h \in Slots, Step(h), AccountsFirm, history'.registered = history.registered,
             \/ Frozen(slot[h], slot'[h])
             \/ slot'[h].pc \notin {"store", "audit"}
             \/ slot[h].pc = "store" /\ Kept(slot[h], slot'[h])
             \/ AccountMade(slot[h])'
      PROVE  PasswordInv'
  <2>1. Rest(h) BY <1>0, <1>b, StepType
  <2>2. \A g \in Slots : \/ Frozen(slot[g], slot'[g])
                         \/ slot'[g].pc \notin {"store", "audit"}
                         \/ slot[g].pc = "store" /\ Kept(slot[g], slot'[g])
                         \/ AccountMade(slot[g])'
    BY <1>b, <2>1 DEF Rest
  <2> QED BY <1>0, <1>b, <2>2, PasswordFrame
<1>1. ASSUME NEW h \in Slots, Verify(h) PROVE PasswordInv'
  <2>1. UNCHANGED <<db, history>> BY <1>1 DEF Verify
  <2>2. slot[h].pc = "verify" /\ Kept(slot[h], slot'[h]) BY <1>0, <1>1, VerifyEffect DEF Granted, Closed
  <2>3. slot'[h].kind # "register" BY <1>0, <2>2, SlotParts DEF Sensible, Kept, Alike
  <2>4. AccountMade(slot[h])' BY <2>3 DEF AccountMade
  <2> QED BY <1>a, <1>b, <1>1, <2>1, <2>4 DEF Step
<1>2. ASSUME NEW h \in Slots, Insert(h) PROVE PasswordInv'
  <2>1. history' = history BY <1>2 DEF Insert
  <2>2. slot[h].pc = "insert" BY <1>0, <1>2, InsertEffect
  <2>3. \A u \in Users : db'.accounts[u] =
          IF u = slot[h].user /\ db.accounts[u] = None THEN slot[h].password ELSE db.accounts[u]
    BY <1>0, <1>2, InsertEffect
  <2>4. (Granted(h) /\ db.accounts[slot[h].user] = None) \/ Closed(h, 409) BY <1>0, <1>2, InsertEffect
  <2>5. slot[h].user \in Users BY <1>0, <2>2, SlotParts DEF Sensible
  <2>6. AccountsFirm BY <2>3 DEF AccountsFirm
  <2>7. CASE Granted(h) /\ db.accounts[slot[h].user] = None
    <3>1. slot'[h].user = slot[h].user /\ slot'[h].password = slot[h].password
      BY <2>7 DEF Granted, Kept, Alike
    <3>2. AccountMade(slot[h])' BY <2>3, <2>5, <2>7, <3>1 DEF AccountMade
    <3> QED BY <1>b, <1>2, <2>1, <2>6, <3>2 DEF Step
  <2>8. CASE Closed(h, 409)
    <3>1. slot'[h].pc = "answer" BY <2>8 DEF Closed
    <3> QED BY <1>b, <1>2, <2>1, <2>6, <3>1 DEF Step
  <2> QED BY <2>4, <2>7, <2>8
<1>3. ASSUME NEW h \in Slots, Consume(h) PROVE PasswordInv'
  <2>1. history' = history /\ db'.accounts = db.accounts
    <3>1. history' = history BY <1>3 DEF Consume
    <3>2. db' = db \/ db' = [db EXCEPT !.refresh = Consumed(slot[h])] BY <1>3 DEF Consume
    <3> QED BY <1>0, <3>1, <3>2, DbParts DEF DbType
  <2>2. slot[h].pc = "consume" /\ Kept(slot[h], slot'[h]) BY <1>0, <1>3, ConsumeEffect DEF Granted, Closed
  <2>3. slot'[h].kind # "register" BY <1>0, <2>2, SlotParts DEF Sensible, Kept, Alike
  <2>4. AccountMade(slot[h])' BY <2>3 DEF AccountMade
  <2> QED BY <1>a, <1>b, <1>3, <2>1, <2>4 DEF Step
<1>4. ASSUME NEW h \in Slots, Store(h) PROVE PasswordInv'
  <2>1. /\ history'.registered = history.registered /\ db'.accounts = db.accounts
        /\ slot[h].pc = "store" /\ Kept(slot[h], slot'[h])
    BY <1>0, <1>4, StoreEffect DEF Closed, Moved
  <2> QED BY <1>a, <1>b, <1>4, <2>1 DEF Step
<1>5. ASSUME NEW h \in Slots, Forget(h) PROVE PasswordInv'
  <2> DEFINE u == tokens[slot[h].jti].user
  <2>1. /\ history'.registered = history.registered /\ db'.accounts = db.accounts
        /\ slot[h].pc = "forget" /\ Alike(slot[h], slot'[h])
    BY <1>0, <1>5, ForgetEffect
  <2>2. slot'[h].kind # "register" BY <1>0, <2>1, SlotParts DEF Sensible, Alike
  <2>3. AccountMade(slot[h])' BY <2>2 DEF AccountMade
  <2> QED BY <1>a, <1>b, <1>5, <2>1, <2>3 DEF Step
<1>6. ASSUME NEW h \in Slots, Audit(h) PROVE PasswordInv'
  <2>1. db' = db BY <1>6 DEF Audit
  <2>2. /\ slot[h].pc = "audit" /\ slot'[h].pc = "answer" /\ ChangedAt(h)
        /\ history'.registered = history.registered \cup
             (IF slot[h].kind = "register" THEN {<<slot[h].user, slot[h].password>>} ELSE {})
    BY <1>0, <1>6, AuditEffect DEF Closed
  <2>3. slot[h].kind = "register" => db.accounts[slot[h].user] = slot[h].password
    BY <2>2 DEF PasswordInv, AccountMade
  <2>4. PasswordKept'
    <3> SUFFICES ASSUME NEW e \in history'.registered PROVE db.accounts[e[1]] = e[2]
      BY <2>1 DEF PasswordKept
    <3>1. CASE e \in history.registered BY <3>1 DEF PasswordInv, PasswordKept
    <3>2. CASE slot[h].kind = "register" /\ e = <<slot[h].user, slot[h].password>> BY <2>3, <3>2
    <3> QED BY <2>2, <3>1, <3>2
  <2>5. \A g \in Slots : AccountMade(slot[g])' BY <2>1, <2>2 DEF PasswordInv, AccountMade, ChangedAt
  <2> QED BY <2>4, <2>5 DEF PasswordInv
<1>7. ASSUME NEW h \in Slots, Step(h), Minor(h), ~Audit(h) PROVE PasswordInv'
  <2>1. /\ history'.registered = history.registered /\ db'.accounts = db.accounts
        /\ Frozen(slot[h], slot'[h]) \/ slot'[h].pc \notin {"store", "audit"}
    BY <1>7 DEF Minor
  <2> QED BY <1>a, <1>b, <1>7, <2>1
<1>8. ASSUME Calm PROVE PasswordInv'
  <2>1. AccountsFirm /\ history'.registered = history.registered
    BY <1>8 DEF Calm, AccountsFirm, HistoryRest
  <2>2. \A g \in Slots : Frozen(slot[g], slot'[g]) \/ slot'[g].pc \notin {"store", "audit"}
    BY <1>8 DEF Calm, Idle
  <2> QED BY <1>0, <2>1, <2>2, PasswordFrame
<1>9. ASSUME NEW h \in Slots, Step(h) PROVE PasswordInv'
  <2>1. Verify(h) \/ Insert(h) \/ Consume(h) \/ Store(h) \/ Forget(h) \/ Minor(h) BY <1>0, <1>9, MinorSteps
  <2> QED BY <2>1, <1>1, <1>2, <1>3, <1>4, <1>5, <1>6, <1>7, <1>9
<1> QED BY <1>0, <1>8, <1>9, StepKinds

LEMMA PasswordBegins == Init => PasswordInv
<1> SUFFICES ASSUME Init PROVE PasswordInv
  OBVIOUS
<1>1. history.registered = {} /\ slot = [h \in Slots |-> Idle] BY InitType DEF Begun
<1> QED BY <1>1 DEF PasswordInv, PasswordKept, AccountMade, Idle

-----------------------------------------------------------------------------
(* Sessions.  Who may use the refresh token of a client: only its own      *)
(* request, or one it gave up on, and then it knows that the token may be  *)
(* lost.  A token is there, or was ended by a logout. *)
Alive == Ids \cup history.ended
Renewing(q) == q.kind = "refresh"
(* nothing was deleted for it, or the client learns so from a 401 *)
Untouched(q) == q.pc = "consume" \/ (q.pc = "answer" /\ q.status \notin {200, 201, 401, 500})
Taken(c) == \E g \in Slots : slot[g].who = c /\ Renewing(slot[g]) /\ ~Untouched(slot[g])
(* its token is stored, and on its way to the client *)
Brings(q) ==
  \/ q.pc = "audit" /\ q.kind # "logout"
  \/ q.pc = "answer" /\ q.kind \in {"login", "register", "refresh"} /\ q.status \in {200, 201}

OneEach ==
  \A g, h \in Slots : slot[g].who \in Clients /\ slot[g].who = slot[h].who => g = h
ParentHeld ==
  \A g \in Slots, c \in Clients : Renewing(slot[g]) =>
    IF slot[g].who = c THEN slot[g].parent = client[c].refresh
    ELSE slot[g].parent = client[c].refresh => client[c].lost
HeldApart ==
  \A c, d \in Clients : c # d /\ client[c].refresh = client[d].refresh => client[c].refresh = None
IssuedFresh ==
  \A g \in Slots : slot[g].issued # None =>
    /\ \A c \in Clients : client[c].refresh # slot[g].issued
    /\ \A h \in Slots : slot[h].parent # slot[g].issued /\ (h # g => slot[h].issued # slot[g].issued)
IssuedAlive == \A g \in Slots : Brings(slot[g]) => slot[g].issued \in Alive
HeldAlive ==
  \A c \in Clients : client[c].refresh # None /\ ~client[c].lost /\ ~Taken(c) => client[c].refresh \in Alive
SessionInv == OneEach /\ ParentHeld /\ HeldApart /\ IssuedFresh /\ IssuedAlive /\ HeldAlive

LEMMA AliveTypes == ASSUME TypeInv PROVE Alive \subseteq Jtis(N) /\ None \notin Alive
<1>1. Ids \subseteq Jtis(N) BY DbParts DEF Ids
<1>2. history.ended \subseteq Jtis(N) BY HistoryParts
<1>3. None \notin Jtis(N) BY Counts, NamesAssumption DEF Jtis
<1> QED BY <1>1, <1>2, <1>3 DEF Alive

(* request h goes on; if it is a refresh, its old token may go *)
LEMMA SessionOnward ==
  ASSUME TypeInv, SessionInv, client' = client, NEW h \in Slots,
         \A g \in Slots : Alike(slot[g], slot'[g]) /\ slot'[g].who = slot[g].who,
         \A g \in Slots \ {h} : Frozen(slot[g], slot'[g]),
         slot'[h].issued = slot[h].issued \/ slot'[h].issued = N + 1,
         \A r \in Alive : r \in Alive' \/ (Renewing(slot[h]) /\ r = slot[h].parent /\ slot'[h].pc = "store"),
         Brings(slot'[h]) => slot'[h].issued \in Alive',
         Untouched(slot'[h]) /\ Renewing(slot[h]) => Untouched(slot[h])
  PROVE  SessionInv'
<1>0. N \in Nat /\ N + 1 \notin Jtis(N) /\ Alive \subseteq Jtis(N) /\ None \notin Alive
  BY Counts, AliveTypes DEF Jtis
<1>1. \A g \in Slots : /\ slot'[g].who = slot[g].who /\ slot'[g].kind = slot[g].kind
                       /\ slot'[g].parent = slot[g].parent
  BY DEF Alike
<1>2. \A g \in Slots \ {h} : /\ slot'[g].issued = slot[g].issued /\ slot'[g].pc = slot[g].pc
                             /\ slot'[g].status = slot[g].status
  BY DEF Frozen
<1>3. \A g \in Slots : slot[g].parent \in Jtis(N) \cup {None} /\ slot[g].issued \in Jtis(N) \cup {None}
  BY SlotParts
<1>4. \A c \in Clients : client[c].refresh \in Jtis(N) \cup {None} BY ClientParts
<1>n. None # N + 1 BY <1>0, NamesAssumption
<1>5. OneEach' BY <1>1 DEF SessionInv, OneEach
<1>6. ParentHeld' BY <1>1 DEF SessionInv, ParentHeld, Renewing
<1>7. HeldApart' BY DEF SessionInv, HeldApart
<1>8. IssuedFresh'
  <2> SUFFICES ASSUME NEW g \in Slots, slot'[g].issued # None
               PROVE  /\ \A c \in Clients : client[c].refresh # slot'[g].issued
                      /\ \A f \in Slots : slot'[f].parent # slot'[g].issued
                                          /\ (f # g => slot'[f].issued # slot'[g].issued)
    BY DEF IssuedFresh
  <2>1. CASE slot'[g].issued = slot[g].issued
    <3>1. /\ \A c \in Clients : client[c].refresh # slot[g].issued
          /\ \A f \in Slots : slot[f].parent # slot[g].issued /\ (f # g => slot[f].issued # slot[g].issued)
      BY <2>1 DEF SessionInv, IssuedFresh
    <3>2. ASSUME NEW f \in Slots, f # g PROVE slot'[f].issued # slot'[g].issued
      <4>1. slot'[f].issued \in {slot[f].issued, N + 1} BY <1>2
      <4>2. slot[g].issued # N + 1 BY <1>0, <1>3, <1>n
      <4> QED BY <2>1, <3>1, <3>2, <4>1, <4>2
    <3> QED BY <1>1, <2>1, <3>1, <3>2
  <2>2. CASE g = h /\ slot'[g].issued = N + 1
    <3>1. \A f \in Slots : slot[f].parent # N + 1 /\ slot[f].issued # N + 1 BY <1>0, <1>3, <1>n
    <3>2. \A c \in Clients : client[c].refresh # N + 1 BY <1>0, <1>4, <1>n
    <3> QED BY <1>1, <1>2, <2>2, <3>1, <3>2
  <2> QED BY <1>2, <2>1, <2>2
<1>9. IssuedAlive'
  <2> SUFFICES ASSUME NEW g \in Slots \ {h}, Brings(slot'[g]) PROVE slot'[g].issued \in Alive'
    BY DEF IssuedAlive
  <2>1. Brings(slot[g]) /\ slot'[g].issued = slot[g].issued BY <1>1, <1>2 DEF Brings
  <2>2. slot[g].issued \in Alive BY <2>1 DEF SessionInv, IssuedAlive
  <2>3. slot[h].parent # slot[g].issued BY <1>0, <2>2 DEF SessionInv, IssuedFresh
  <2> QED BY <2>1, <2>2, <2>3
<1>10. HeldAlive'
  <2> SUFFICES ASSUME NEW c \in Clients, client[c].refresh # None, ~client[c].lost, ~Taken(c)'
               PROVE  client[c].refresh \in Alive'
    BY DEF HeldAlive
  <2>1. \A g \in Slots : slot[g].who = c /\ Renewing(slot[g]) => Untouched(slot'[g])
    BY <1>1 DEF Taken, Renewing
  <2>2. \A g \in Slots \ {h} : Untouched(slot'[g]) => Untouched(slot[g]) BY <1>2 DEF Untouched
  <2>3. ~Taken(c) BY <2>1, <2>2 DEF Taken
  <2>4. client[c].refresh \in Alive BY <2>3 DEF SessionInv, HeldAlive
  <2>5. ASSUME Renewing(slot[h]), client[c].refresh = slot[h].parent, slot'[h].pc = "store" PROVE FALSE
    <3>1. slot[h].who = c BY <2>5 DEF SessionInv, ParentHeld
    <3> QED BY <2>1, <2>5, <3>1 DEF Untouched
  <2> QED BY <2>4, <2>5
<1> QED BY <1>5, <1>6, <1>7, <1>8, <1>9, <1>10 DEF SessionInv

(* requests end, or are given up; the clients that lose a refresh know *)
LEMMA SessionLost ==
  ASSUME TypeInv, SessionInv, Alive' = Alive,
         \A c \in Clients : client'[c].refresh = client[c].refresh /\ (client[c].lost => client'[c].lost),
         \A g \in Slots : slot'[g] = Idle \/ Frozen(slot[g], slot'[g]),
         \A g \in Slots :
           \/ slot'[g].who = slot[g].who
           \/ /\ slot'[g].who = None
              /\ slot[g].who \in Clients /\ Renewing(slot[g]) => client'[slot[g].who].lost
  PROVE  SessionInv'
<1>0. None \notin Clients BY NamesAssumption DEF Senders
<1>i. Idle.kind = None /\ Idle.who = None /\ Idle.parent = None /\ Idle.issued = None /\ Idle.pc = "idle"
  BY DEF Idle
<1>k. "refresh" \in Kinds BY DEF Kinds
<1>r. ~Renewing(Idle) BY <1>i, <1>k, NamesAssumption DEF Renewing
<1>1. \A g \in Slots : slot'[g] # Idle =>
        /\ slot'[g].kind = slot[g].kind /\ slot'[g].parent = slot[g].parent
        /\ slot'[g].issued = slot[g].issued /\ slot'[g].pc = slot[g].pc /\ slot'[g].status = slot[g].status
  BY DEF Frozen, Alike
<1>2. OneEach' BY <1>0 DEF SessionInv, OneEach
<1>3. ParentHeld'
  <2> SUFFICES ASSUME NEW g \in Slots, NEW c \in Clients, Renewing(slot'[g])
               PROVE  IF slot'[g].who = c THEN slot'[g].parent = client'[c].refresh
                      ELSE slot'[g].parent = client'[c].refresh => client'[c].lost
    BY DEF ParentHeld
  <2>1. Renewing(slot[g]) /\ slot'[g].parent = slot[g].parent BY <1>1, <1>r DEF Renewing
  <2>2. IF slot[g].who = c THEN slot[g].parent = client[c].refresh
        ELSE slot[g].parent = client[c].refresh => client[c].lost
    BY <2>1 DEF SessionInv, ParentHeld
  <2> QED BY <1>0, <2>1, <2>2
<1>4. HeldApart' BY DEF SessionInv, HeldApart
<1>5. IssuedFresh'
  <2> SUFFICES ASSUME NEW g \in Slots, slot'[g].issued # None
               PROVE  /\ \A c \in Clients : client'[c].refresh # slot'[g].issued
                      /\ \A h \in Slots : slot'[h].parent # slot'[g].issued
                                          /\ (h # g => slot'[h].issued # slot'[g].issued)
    BY DEF IssuedFresh
  <2>1. slot'[g].issued = slot[g].issued BY <1>1, <1>i
  <2>2. /\ \A c \in Clients : client[c].refresh # slot[g].issued
        /\ \A h \in Slots : slot[h].parent # slot[g].issued /\ (h # g => slot[h].issued # slot[g].issued)
    BY <2>1 DEF SessionInv, IssuedFresh
  <2>3. \A h \in Slots : slot'[h].parent \in {slot[h].parent, None} /\ slot'[h].issued \in {slot[h].issued, None}
    BY <1>1, <1>i
  <2> QED BY <2>1, <2>2, <2>3
<1>6. IssuedAlive'
  <2>1. ~Brings(Idle) BY <1>i DEF Brings
  <2>2. \A g \in Slots : Brings(slot'[g]) => Brings(slot[g]) /\ slot'[g].issued = slot[g].issued
    BY <1>1, <2>1 DEF Brings
  <2> QED BY <2>2 DEF SessionInv, IssuedAlive
<1>7. HeldAlive'
  <2> SUFFICES ASSUME NEW c \in Clients, client'[c].refresh # None, ~client'[c].lost, ~Taken(c)'
               PROVE  client'[c].refresh \in Alive
    BY DEF HeldAlive
  <2>1. ASSUME NEW g \in Slots, slot[g].who = c, Renewing(slot[g]) PROVE Untouched(slot[g])
    <3>1. slot'[g].who = c BY <2>1
    <3>2. slot'[g] # Idle BY <1>0, <1>i, <3>1
    <3>3. Renewing(slot'[g]) BY <1>1, <2>1, <3>2 DEF Renewing
    <3>4. Untouched(slot'[g]) BY <3>1, <3>3 DEF Taken
    <3> QED BY <1>1, <3>2, <3>4 DEF Untouched
  <2>2. ~Taken(c) BY <2>1 DEF Taken
  <2> QED BY <2>2 DEF SessionInv, HeldAlive
<1> QED BY <1>2, <1>3, <1>4, <1>5, <1>6, <1>7 DEF SessionInv

(* a request of c arrives, c was waiting for none *)
LEMMA SessionArrives ==
  ASSUME TypeInv, SessionInv, client' = client, Alive' = Alive, NEW h \in Slots, slot[h].pc = "idle", ChangedAt(h),
         NEW c \in Senders, Free(c), slot'[h].who = c, slot'[h].issued = None, ~Brings(slot'[h]),
         \/ ~Renewing(slot'[h]) /\ slot'[h].parent = None
         \/ /\ c \in Clients /\ slot'[h].parent = client[c].refresh /\ client[c].refresh # None
            /\ Untouched(slot'[h])
  PROVE  SessionInv'
<1>0. None \notin Clients BY NamesAssumption DEF Senders
<1>i. slot[h] = Idle /\ Idle.kind = None /\ Idle.who = None /\ Idle.parent = None /\ Idle.issued = None
  BY SlotParts DEF Sensible, Idle
<1>k. "refresh" \in Kinds BY DEF Kinds
<1>r. ~Renewing(Idle) BY <1>i, <1>k, NamesAssumption DEF Renewing
<1>1. \A g \in Slots \ {h} : slot'[g] = slot[g] BY DEF ChangedAt
<1>f. c \in Clients => \A g \in Slots : slot[g].who # c
  <2> SUFFICES ASSUME c \in Clients, NEW g \in Slots, slot[g].who = c PROVE FALSE
    OBVIOUS
  <2>1. Sensible(slot[g]) BY SlotParts
  <2>2. slot[g].pc # "idle" BY <1>0, <1>i, <2>1 DEF Sensible
  <2>3. slot[g].kind \in Kinds BY <2>1, <2>2 DEF Sensible
  <2> QED BY <2>3 DEF Free, Waits
<1>2. OneEach' BY <1>1, <1>f DEF SessionInv, OneEach
<1>3. ParentHeld'
  <2> SUFFICES ASSUME NEW g \in Slots, NEW d \in Clients, Renewing(slot'[g])
               PROVE  IF slot'[g].who = d THEN slot'[g].parent = client[d].refresh
                      ELSE slot'[g].parent = client[d].refresh => client[d].lost
    BY DEF ParentHeld
  <2>1. CASE g # h BY <1>1, <2>1 DEF SessionInv, ParentHeld
  <2>2. CASE g = h
    <3>1. /\ c \in Clients /\ slot'[h].parent = client[c].refresh /\ client[c].refresh # None
      BY <2>2
    <3>2. d # c => client[d].refresh # client[c].refresh BY <3>1 DEF SessionInv, HeldApart
    <3> QED BY <2>2, <3>1, <3>2
  <2> QED BY <2>1, <2>2
<1>4. HeldApart' BY DEF SessionInv, HeldApart
<1>5. IssuedFresh'
  <2> SUFFICES ASSUME NEW g \in Slots, slot'[g].issued # None
               PROVE  /\ \A d \in Clients : client[d].refresh # slot'[g].issued
                      /\ \A f \in Slots : slot'[f].parent # slot'[g].issued
                                          /\ (f # g => slot'[f].issued # slot'[g].issued)
    BY DEF IssuedFresh
  <2>1. g # h /\ slot'[g] = slot[g] BY <1>1
  <2>2. /\ \A d \in Clients : client[d].refresh # slot[g].issued
        /\ \A f \in Slots : slot[f].parent # slot[g].issued /\ (f # g => slot[f].issued # slot[g].issued)
    BY <2>1 DEF SessionInv, IssuedFresh
  <2>3. slot'[h].parent # slot[g].issued /\ slot'[h].issued # slot[g].issued BY <2>1, <2>2
  <2> QED BY <1>1, <2>1, <2>2, <2>3
<1>6. IssuedAlive' BY <1>1 DEF SessionInv, IssuedAlive
<1>7. HeldAlive'
  <2> SUFFICES ASSUME NEW d \in Clients, client[d].refresh # None, ~client[d].lost, ~Taken(d)'
               PROVE  client[d].refresh \in Alive
    BY DEF HeldAlive
  <2>1. ~Taken(d) BY <1>1, <1>i, <1>r DEF Taken
  <2> QED BY <2>1 DEF SessionInv, HeldAlive
<1> QED BY <1>2, <1>3, <1>4, <1>5, <1>6, <1>7 DEF SessionInv

(* what an answer changes for its client *)
LEMMA ToClientEffect ==
  ASSUME NEW n, NEW x \in ClientType(n), NEW q, q.pc = "answer", NEW y, y = ToClient(x, q)
  PROVE  \/ y.refresh = q.issued /\ Brings(q)
         \/ y.refresh = None
         \/ y.refresh = x.refresh /\ y.lost
         \/ y = x /\ (Renewing(q) => Untouched(q))
<1>1. CASE q.status \in {200, 201} /\ q.kind \in {"login", "register", "refresh"}
  <2>1. y = [access |-> q.issued, refresh |-> q.issued, lost |-> FALSE] BY <1>1 DEF ToClient
  <2> QED BY <1>1, <2>1 DEF Brings
<1>2. CASE q.status = 200 /\ q.kind = "logout"
  <2>1. y = [x EXCEPT !.access = None, !.refresh = None] BY <1>2 DEF ToClient
  <2> QED BY <2>1 DEF ClientType
<1>3. CASE q.status = 401 /\ q.kind = "refresh"
  <2>1. y = [x EXCEPT !.refresh = None] BY <1>3 DEF ToClient
  <2> QED BY <2>1 DEF ClientType
<1>4. CASE q.status = 500 /\ q.kind = "refresh"
  <2>1. y = [x EXCEPT !.lost = TRUE] BY <1>4 DEF ToClient
  <2>2. y.lost = TRUE /\ y.refresh = x.refresh BY <2>1 DEF ClientType
  <2> QED BY <2>2
<1>5. CASE /\ ~(q.status \in {200, 201} /\ q.kind \in {"login", "register", "refresh"})
           /\ ~(q.status = 200 /\ q.kind = "logout")
           /\ ~(q.status = 401 /\ q.kind = "refresh") /\ ~(q.status = 500 /\ q.kind = "refresh")
  <2>1. y = x BY <1>5 DEF ToClient
  <2> QED BY <1>5, <2>1 DEF Renewing, Untouched
<1> QED BY <1>1, <1>2, <1>3, <1>4, <1>5

LEMMA SessionDelivered ==
  ASSUME TypeInv, SessionInv, NEW h \in Slots, Deliver(h), Alive' = Alive
  PROVE  SessionInv'
<1> DEFINE c == slot[h].who
<1>0. None \notin Clients BY NamesAssumption DEF Senders
<1>i. Idle.kind = None /\ Idle.who = None /\ Idle.parent = None /\ Idle.issued = None /\ Idle.pc = "idle"
  BY DEF Idle
<1>k. "refresh" \in Kinds BY DEF Kinds
<1>r. ~Renewing(Idle) /\ ~Brings(Idle) BY <1>i, <1>k, NamesAssumption DEF Renewing, Brings
<1>1. /\ slot[h].pc = "answer" /\ slot'[h] = Idle
      /\ \A g \in Slots \ {h} :
           IF Loads(h) /\ slot[g].who = c THEN Dropped(slot[g], slot'[g]) ELSE slot'[g] = slot[g]
      /\ \A d \in Clients : client'[d] = IF d = c THEN ToClient(client[d], slot[h]) ELSE client[d]
  BY DeliverEffect
<1>2. CASE c \notin Clients
  <2>1. \A g \in Slots : slot'[g] = Idle \/ Frozen(slot[g], slot'[g])
    BY <1>1 DEF Frozen, Dropped, Alike
  <2>2. \A g \in Slots : slot'[g].who = slot[g].who \/ (slot'[g].who = None /\ slot[g].who \notin Clients)
    BY <1>1, <1>2, <1>i DEF Dropped
  <2>3. \A d \in Clients : client'[d].refresh = client[d].refresh /\ (client[d].lost => client'[d].lost)
    BY <1>1, <1>2
  <2> QED BY <2>1, <2>2, <2>3, SessionLost
<1>3. CASE c \in Clients
  <2> DEFINE x == client[c]
             y == client'[c]
             q == slot[h]
  <2>1. \A g \in Slots \ {h} : slot'[g] = slot[g]
    BY <1>1, <1>3, NamesAssumption DEF Loads
  <2>2. y = ToClient(x, q) /\ \A d \in Clients \ {c} : client'[d] = client[d] BY <1>1, <1>3
  <2>3. \A g \in Slots \ {h} : slot[g].who # c BY <1>3 DEF SessionInv, OneEach
  <2>4. \/ y.refresh = q.issued /\ Brings(q)
        \/ y.refresh = None
        \/ y.refresh = x.refresh /\ y.lost
        \/ y = x /\ (Renewing(q) => Untouched(q))
    <3>1. x \in ClientType(N) /\ q.pc = "answer" BY <1>1, <1>3, ClientParts
    <3> HIDE DEF x, y, q
    <3> QED BY <2>2, <3>1, ToClientEffect
  <2>5. Brings(q) => q.issued \in Alive /\ q.issued # None BY AliveTypes DEF SessionInv, IssuedAlive
  <2>6. q.issued # None =>
          /\ \A d \in Clients : client[d].refresh # q.issued
          /\ \A g \in Slots : slot[g].parent # q.issued /\ (g # h => slot[g].issued # q.issued)
    BY DEF SessionInv, IssuedFresh
  <2> HIDE DEF x, y, q
  <2>7. OneEach' BY <1>0, <1>1, <1>i, <2>1 DEF SessionInv, OneEach
  <2>8. ParentHeld'
    <3> SUFFICES ASSUME NEW g \in Slots, NEW d \in Clients, Renewing(slot'[g])
                 PROVE  IF slot'[g].who = d THEN slot'[g].parent = client'[d].refresh
                        ELSE slot'[g].parent = client'[d].refresh => client'[d].lost
      BY DEF ParentHeld
    <3>1. g # h /\ slot'[g] = slot[g] /\ Renewing(slot[g]) /\ slot[g].who # c BY <1>1, <1>r, <2>1, <2>3
    <3>2. IF slot[g].who = d THEN slot[g].parent = client[d].refresh
          ELSE slot[g].parent = client[d].refresh => client[d].lost
      BY <3>1 DEF SessionInv, ParentHeld
    <3>3. CASE d # c BY <2>2, <3>1, <3>2, <3>3
    <3>4. CASE d = c
      <4>1. slot[g].parent # None BY <3>1, SlotParts DEF Renewing, Sensible
      <4>2. slot[g].parent = y.refresh => y.lost
        <5>1. CASE y.refresh = q.issued /\ Brings(q) BY <2>5, <2>6, <5>1
        <5>2. CASE y.refresh = None BY <4>1, <5>2
        <5>3. CASE y = x BY <3>1, <3>2, <3>4, <5>3 DEF x
        <5> QED BY <2>4, <5>1, <5>2, <5>3
      <4> QED BY <3>1, <3>4, <4>2 DEF y
    <3> QED BY <3>3, <3>4
  <2>9. HeldApart'
    <3>1. \A d \in Clients \ {c} : y.refresh = client[d].refresh => y.refresh = None
      <4>1. \A d \in Clients \ {c} : x.refresh = client[d].refresh => x.refresh = None
        BY <1>3 DEF SessionInv, HeldApart, x
      <4> QED BY <2>4, <2>5, <2>6, <4>1
    <3> QED BY <2>2, <3>1 DEF SessionInv, HeldApart, y
  <2>10. IssuedFresh'
    <3> SUFFICES ASSUME NEW g \in Slots, slot'[g].issued # None
                 PROVE  /\ \A d \in Clients : client'[d].refresh # slot'[g].issued
                        /\ \A f \in Slots : slot'[f].parent # slot'[g].issued
                                            /\ (f # g => slot'[f].issued # slot'[g].issued)
      BY DEF IssuedFresh
    <3>1. g # h /\ slot'[g] = slot[g] BY <1>1, <1>i, <2>1
    <3>2. /\ \A d \in Clients : client[d].refresh # slot[g].issued
          /\ \A f \in Slots : slot[f].parent # slot[g].issued /\ (f # g => slot[f].issued # slot[g].issued)
      BY <3>1 DEF SessionInv, IssuedFresh
    <3>3. y.refresh # slot[g].issued
      <4>1. x.refresh # slot[g].issued /\ q.issued # slot[g].issued BY <1>3, <3>1, <3>2 DEF x, q
      <4> QED BY <2>4, <3>1, <4>1
    <3>4. \A d \in Clients : client'[d].refresh # slot[g].issued BY <2>2, <3>2, <3>3 DEF y
    <3> QED BY <1>1, <1>i, <2>1, <3>1, <3>2, <3>4
  <2>11. IssuedAlive' BY <1>1, <1>r, <2>1 DEF SessionInv, IssuedAlive
  <2>12. HeldAlive'
    <3> SUFFICES ASSUME NEW d \in Clients, client'[d].refresh # None, ~client'[d].lost, ~Taken(d)'
                 PROVE  client'[d].refresh \in Alive
      BY DEF HeldAlive
    <3>1. CASE d # c
      <4>1. slot[h].who # d BY <3>1
      <4>2. ~Taken(d) BY <2>1, <4>1 DEF Taken
      <4> QED BY <2>2, <3>1, <4>2 DEF SessionInv, HeldAlive
    <3>2. CASE d = c
      <4>1. CASE y.refresh = q.issued /\ Brings(q) BY <2>5, <3>2, <4>1 DEF y
      <4>2. CASE y = x /\ (Renewing(q) => Untouched(q))
        <5>1. ~Taken(c) BY <2>3, <4>2 DEF Taken, q
        <5>2. x.refresh # None /\ ~x.lost BY <3>2, <4>2 DEF y
        <5>3. x.refresh \in Alive BY <1>3, <5>1, <5>2 DEF SessionInv, HeldAlive, x
        <5> QED BY <3>2, <4>2, <5>3 DEF y
      <4> QED BY <2>4, <3>2, <4>1, <4>2 DEF y
    <3> QED BY <3>1, <3>2
  <2> QED BY <2>7, <2>8, <2>9, <2>10, <2>11, <2>12 DEF SessionInv
<1> QED BY <1>2, <1>3

LEMMA AliveSame ==
  ASSUME db'.refresh = db.refresh, history'.ended = history.ended PROVE Alive' = Alive
BY DEF Alive, Ids

LEMMA SessionSteps == Basic /\ SessionInv /\ [Next]_vars => SessionInv'
<1> SUFFICES ASSUME Basic, SessionInv, [Next]_vars PROVE SessionInv'
  OBVIOUS
<1>0. TypeInv /\ Starting BY DEF Basic
<1>n. None \notin Clients BY NamesAssumption DEF Senders
<1>s. \A g \in Slots : Sensible(slot[g]) BY <1>0, SlotParts
<1>a. ASSUME NEW h \in Slots, client' = client, ChangedAt(h), Kept(slot[h], slot'[h]),
             slot'[h].issued = slot[h].issued \/ slot'[h].issued = N + 1,
             \A r \in Alive : r \in Alive' \/ (Renewing(slot[h]) /\ r = slot[h].parent /\ slot'[h].pc = "store"),
             Brings(slot'[h]) => slot'[h].issued \in Alive',
             Untouched(slot'[h]) /\ Renewing(slot[h]) => Untouched(slot[h])
      PROVE  SessionInv'
  <2>1. \A g \in Slots : Alike(slot[g], slot'[g]) /\ slot'[g].who = slot[g].who
    BY <1>a DEF Kept, ChangedAt, Alike
  <2>2. \A g \in Slots \ {h} : Frozen(slot[g], slot'[g]) BY <1>a, RestAt DEF Rest
  <2> QED BY <1>0, <1>a, <2>1, <2>2, SessionOnward
(* what goes on brings nothing and deletes nothing, or was refused *)
<1>b. ASSUME NEW h \in Slots, client' = client, Alive' = Alive, ChangedAt(h), Kept(slot[h], slot'[h]),
             slot'[h].issued = slot[h].issued \/ slot'[h].issued = N + 1, ~Brings(slot'[h]),
             ~(Renewing(slot'[h]) /\ Untouched(slot'[h]))
      PROVE  SessionInv'
  <2>1. Untouched(slot'[h]) /\ Renewing(slot[h]) => Untouched(slot[h])
    BY <1>b DEF Renewing, Kept, Alike
  <2> QED BY <1>a, <1>b, <2>1
<1>c. \A h \in Slots : slot[h].pc \in {"verify", "insert", "consume", "store", "revoke", "forget", "audit", "check"} =>
        (slot[h].pc \notin {"consume", "store"} => ~Renewing(slot[h]))
  BY <1>s DEF Sensible, Renewing
<1>1. ASSUME NEW h \in Slots, Verify(h) PROVE SessionInv'
  <2>1. UNCHANGED <<db, history, client>> BY <1>1 DEF Verify
  <2>2. slot[h].pc = "verify" /\ (Granted(h) \/ Closed(h, 401)) BY <1>0, <1>1, VerifyEffect
  <2>3. /\ ChangedAt(h) /\ Kept(slot[h], slot'[h]) /\ ~Brings(slot'[h])
        /\ slot'[h].issued = slot[h].issued \/ slot'[h].issued = N + 1
    BY <2>2 DEF Granted, Closed, Brings
  <2>4. ~Renewing(slot'[h]) BY <1>c, <2>2, <2>3 DEF Renewing, Kept, Alike
  <2> QED BY <1>b, <2>1, <2>3, <2>4, AliveSame
<1>2. ASSUME NEW h \in Slots, Insert(h) PROVE SessionInv'
  <2>1. UNCHANGED <<db.refresh, history, client>> BY <1>0, <1>2, InsertEffect DEF Insert
  <2>2. slot[h].pc = "insert" /\ (Granted(h) \/ Closed(h, 409)) BY <1>0, <1>2, InsertEffect
  <2>3. /\ ChangedAt(h) /\ Kept(slot[h], slot'[h]) /\ ~Brings(slot'[h])
        /\ slot'[h].issued = slot[h].issued \/ slot'[h].issued = N + 1
    BY <2>2 DEF Granted, Closed, Brings
  <2>4. ~Renewing(slot'[h]) BY <1>c, <2>2, <2>3 DEF Renewing, Kept, Alike
  <2> QED BY <1>b, <2>1, <2>3, <2>4, AliveSame
<1>3. ASSUME NEW h \in Slots, Consume(h) PROVE SessionInv'
  <2>1. UNCHANGED <<history, client>> BY <1>3 DEF Consume
  <2>2. /\ slot[h].pc = "consume"
        /\ \/ Granted(h) /\ db'.refresh = {r \in db.refresh : r.id # slot[h].parent}
           \/ Closed(h, 401) /\ db' = db
    BY <1>0, <1>3, ConsumeEffect
  <2>3. Renewing(slot[h]) BY <1>s, <2>2 DEF Sensible, Renewing
  <2>4. CASE Granted(h) /\ db'.refresh = {r \in db.refresh : r.id # slot[h].parent}
    <3>1. \A r \in Ids : r \in Ids' \/ r = slot[h].parent BY <2>4 DEF Ids
    <3>2. \A r \in Alive : r \in Alive' \/ r = slot[h].parent BY <2>1, <3>1 DEF Alive
    <3>3. /\ ChangedAt(h) /\ Kept(slot[h], slot'[h]) /\ slot'[h].issued = N + 1 /\ slot'[h].pc = "store"
          /\ ~Brings(slot'[h]) /\ ~Untouched(slot'[h])
      BY <2>4 DEF Granted, Brings, Untouched
    <3> QED BY <1>a, <2>1, <2>3, <3>2, <3>3
  <2>5. CASE Closed(h, 401) /\ db' = db
    <3>1. /\ ChangedAt(h) /\ Kept(slot[h], slot'[h]) /\ slot'[h].issued = slot[h].issued
          /\ ~Brings(slot'[h]) /\ ~Untouched(slot'[h])
      BY <2>5 DEF Closed, Brings, Untouched
    <3> QED BY <1>b, <2>1, <2>5, <3>1, AliveSame
  <2> QED BY <2>2, <2>4, <2>5
<1>4. ASSUME NEW h \in Slots, Store(h) PROVE SessionInv'
  <2>1. client' = client BY <1>4 DEF Store
  <2>2. /\ slot[h].pc = "store" /\ history'.ended = history.ended
        /\ (slot[h].kind = "refresh" /\ Closed(h, 200)) \/ (slot[h].kind # "refresh" /\ Moved(h, "audit"))
    BY <1>0, <1>4, StoreEffect
  <2>3. PICK r : db'.refresh = db.refresh \cup {r} /\ r.id = slot[h].issued BY <1>0, <1>4, StoreEffect
  <2>4. Alive \subseteq Alive' /\ slot[h].issued \in Alive' BY <2>2, <2>3 DEF Alive, Ids
  <2>5. /\ ChangedAt(h) /\ Kept(slot[h], slot'[h]) /\ slot'[h].issued = slot[h].issued /\ ~Untouched(slot'[h])
    BY <2>2 DEF Closed, Moved, Untouched
  <2> QED BY <1>a, <2>1, <2>4, <2>5
<1>5. ASSUME NEW h \in Slots, Check(h) PROVE SessionInv'
  <2>1. UNCHANGED <<client, db>> BY <1>5 DEF Check
  <2>2. /\ slot[h].pc = "check" /\ ChangedAt(h) /\ Kept(slot[h], slot'[h])
        /\ slot'[h].issued = slot[h].issued /\ slot'[h].pc \in {"answer", "revoke"}
        /\ history'.ended = history.ended
    BY <1>0, <1>5, CheckEffect DEF Closed, Moved
  <2>3. slot'[h].kind \in {"call", "logout"} BY <1>s, <2>2 DEF Sensible, Kept, Alike
  <2>4. ~Brings(slot'[h]) /\ ~Renewing(slot'[h]) BY <2>2, <2>3 DEF Brings, Renewing
  <2> QED BY <1>b, <2>1, <2>2, <2>4, AliveSame
<1>6. ASSUME NEW h \in Slots, Revoke(h) PROVE SessionInv'
  <2>1. UNCHANGED <<client, history>> BY <1>6 DEF Revoke
  <2>2. slot[h].pc = "revoke" /\ Moved(h, "forget") /\ db'.refresh = db.refresh BY <1>0, <1>6, RevokeEffect
  <2>3. /\ ChangedAt(h) /\ Kept(slot[h], slot'[h]) /\ ~Brings(slot'[h]) /\ slot'[h].issued = slot[h].issued
        /\ ~Untouched(slot'[h])
    BY <2>2 DEF Moved, Brings, Untouched
  <2> QED BY <1>b, <2>1, <2>2, <2>3, AliveSame
<1>7. ASSUME NEW h \in Slots, Forget(h) PROVE SessionInv'
  <2> DEFINE u == tokens[slot[h].jti].user
  <2>1. client' = client BY <1>7 DEF Forget
  <2>2. /\ slot[h].pc = "forget"
        /\ \A g \in Slots : /\ Alike(slot[g], slot'[g]) /\ slot'[g].who = slot[g].who
                            /\ slot'[g].issued = slot[g].issued /\ slot'[g].status = slot[g].status
                            /\ slot'[g].pc = IF g = h THEN "audit" ELSE slot[g].pc
    BY <1>0, <1>7, ForgetEffect
  <2>3. /\ db'.refresh = {r \in db.refresh : r.user # u}
        /\ history'.ended = history.ended \cup {r.id : r \in {r \in db.refresh : r.user = u}}
    BY <1>0, <1>7, ForgetEffect
  <2>4. Alive \subseteq Alive'
    <3>1. ASSUME NEW r \in db.refresh PROVE r.id \in Ids' \/ r.id \in history'.ended
      <4>1. CASE r.user = u
        <5>1. r \in {q \in db.refresh : q.user = u} BY <4>1
        <5> QED BY <2>3, <5>1
      <4>2. CASE r.user # u BY <2>3, <4>2 DEF Ids
      <4> QED BY <4>1, <4>2
    <3>2. \A i \in Ids : i \in Ids' \/ i \in history'.ended BY <3>1 DEF Ids
    <3>3. history.ended \subseteq history'.ended BY <2>3
    <3> QED BY <3>2, <3>3 DEF Alive
  <2>5. slot[h].kind = "logout" BY <1>s, <2>2 DEF Sensible
  <2>6. ~Brings(slot'[h]) /\ ~Untouched(slot'[h]) BY <2>2, <2>5 DEF Brings, Untouched, Alike
  <2>7. \A g \in Slots \ {h} : Frozen(slot[g], slot'[g]) BY <2>2 DEF Frozen
  <2> HIDE DEF u
  <2> QED BY <1>0, <2>1, <2>2, <2>4, <2>6, <2>7, SessionOnward
<1>8. ASSUME NEW h \in Slots, Audit(h) PROVE SessionInv'
  <2>1. UNCHANGED <<client, db>> BY <1>8 DEF Audit
  <2>2. slot[h].pc = "audit" /\ history'.ended = history.ended /\ (Closed(h, 201) \/ Closed(h, 200))
    BY <1>0, <1>8, AuditEffect
  <2>3. /\ ChangedAt(h) /\ Kept(slot[h], slot'[h]) /\ slot'[h].issued = slot[h].issued /\ ~Untouched(slot'[h])
    BY <2>2 DEF Closed, Untouched
  <2>4. Alive' = Alive BY <2>1, <2>2, AliveSame
  <2>5. Brings(slot'[h]) => Brings(slot[h]) BY <2>2 DEF Brings, Closed, Kept, Alike
  <2>6. Brings(slot[h]) => slot[h].issued \in Alive BY DEF SessionInv, IssuedAlive
  <2> QED BY <1>a, <2>1, <2>3, <2>4, <2>5, <2>6
<1>9. ASSUME NEW h \in Slots, Deliver(h) PROVE SessionInv'
  <2>1. UNCHANGED <<db, history>> BY <1>9 DEF Deliver
  <2> QED BY <1>0, <1>9, <2>1, AliveSame, SessionDelivered
<1>10. ASSUME NEW h \in Slots, HandlerFails(h) PROVE SessionInv'
  <2>1. UNCHANGED <<client, db, history>> BY <1>10 DEF HandlerFails
  <2>2. Closed(h, 500) BY <1>0, <1>10, FailsEffect
  <2>3. /\ ChangedAt(h) /\ Kept(slot[h], slot'[h]) /\ ~Brings(slot'[h]) /\ slot'[h].issued = slot[h].issued
        /\ ~Untouched(slot'[h])
    BY <2>2 DEF Closed, Brings, Untouched
  <2> QED BY <1>b, <2>1, <2>3, AliveSame
<1>11. ASSUME NEW h \in Slots, GiveUp(h) PROVE SessionInv'
  <2> DEFINE c == slot[h].who
  <2>1. UNCHANGED <<db, history>> BY <1>11 DEF GiveUp
  <2>2. /\ c \in Clients /\ ChangedAt(h) /\ Dropped(slot[h], slot'[h])
        /\ \A d \in Clients : /\ client'[d].refresh = client[d].refresh
                              /\ client'[d].lost = (client[d].lost \/ (d = c /\ slot[h].kind = "refresh"))
    BY <1>0, <1>11, GiveUpEffect
  <2>3. \A g \in Slots : Frozen(slot[g], slot'[g]) BY <2>2, RestAt DEF Rest, Frozen, Dropped
  <2>4. slot'[h].who = None /\ \A g \in Slots \ {h} : slot'[g].who = slot[g].who
    BY <2>2 DEF Dropped, ChangedAt
  <2>5. Renewing(slot[h]) => client'[c].lost BY <2>2 DEF Renewing
  <2>6. \A d \in Clients : client'[d].refresh = client[d].refresh /\ (client[d].lost => client'[d].lost)
    BY <2>2
  <2>7. Alive' = Alive BY <2>1, AliveSame
  <2>8. \A g \in Slots :
          \/ slot'[g].who = slot[g].who
          \/ /\ slot'[g].who = None
             /\ slot[g].who \in Clients /\ Renewing(slot[g]) => client'[slot[g].who].lost
    BY <2>4, <2>5
  <2> QED BY <1>0, <2>3, <2>6, <2>7, <2>8, SessionLost
<1>12. ASSUME NEW h \in Slots, NEW s \in Servers, NEW c \in Senders, Requests(h, s, c) PROVE SessionInv'
  <2>1. UNCHANGED <<client, db>> /\ Free(c) BY <1>12 DEF Requests, Login, Register, Arrives
  <2>2. /\ slot[h].pc = "idle"
        /\ \E u \in AllUsers : Anonymous(h, s, c, "login", "verify", u)
                               \/ Anonymous(h, s, c, "register", "insert", u)
    BY <1>0, <1>12, LoginStep, RegisterStep DEF Requests
  <2>3. PICK q : /\ Entered(h, s, c, q) /\ q.who = c /\ q.kind \in {"login", "register"}
                 /\ q.pc \in {"verify", "insert"} /\ q.issued = None
    BY <2>2 DEF Anonymous
  <2>4. /\ ChangedAt(h) /\ slot'[h].who = c /\ slot'[h].issued = None /\ slot'[h].kind = q.kind
        /\ slot'[h].pc \in {"verify", "insert"} \/ slot'[h].status = 429
        /\ slot'[h].pc \in {"verify", "insert", "answer"} /\ history'.ended = history.ended
    BY <2>3 DEF Entered, Kept, Alike, HistoryRest
  <2>5. ~Brings(slot'[h]) /\ ~Renewing(slot'[h]) BY <2>3, <2>4 DEF Brings, Renewing
  <2>6. slot'[h].parent = None
    <3>1. TypeInv' BY <1>0, <1>12, LoginStep, RegisterStep DEF Requests
    <3>2. Sensible(slot'[h]) BY <3>1 DEF TypeInv
    <3> QED BY <2>5, <3>2 DEF Sensible, Renewing
  <2> QED BY <1>0, <2>1, <2>2, <2>4, <2>5, <2>6, AliveSame, SessionArrives
<1>13. ASSUME NEW h \in Slots, NEW s \in Servers, NEW c \in Clients, Renews(h, s, c) PROVE SessionInv'
  <2>1. UNCHANGED <<client, db>> /\ Free(c) /\ client[c].refresh # None /\ c \in Senders
    BY <1>13 DEF Renews, Refresh, Arrives, Senders
  <2>2. slot[h].pc = "idle" BY <1>0, <1>13, RefreshStep DEF Renews
  <2>3. PICK q : /\ Entered(h, s, c, q) /\ q.who = c /\ q.kind = "refresh" /\ q.pc = "consume"
                 /\ q.issued = None /\ q.parent = client[c].refresh
    BY <1>0, <1>13, RefreshStep DEF Renews
  <2>4. /\ ChangedAt(h) /\ slot'[h].who = c /\ slot'[h].issued = None /\ slot'[h].parent = client[c].refresh
        /\ slot'[h].pc = "consume" \/ (slot'[h].pc = "answer" /\ slot'[h].status = 429)
        /\ history'.ended = history.ended
    BY <2>3 DEF Entered, Kept, Alike, HistoryRest
  <2>5. ~Brings(slot'[h]) /\ Untouched(slot'[h]) BY <2>4 DEF Brings, Untouched
  <2> QED BY <1>0, <2>1, <2>2, <2>4, <2>5, AliveSame, SessionArrives
<1>14. ASSUME NEW h \in Slots, NEW s \in Servers, NEW c \in Senders, Presents(h, s, c) PROVE SessionInv'
  <2>1. PICK kind \in {"call", "logout"}, j \in Jtis(N) \cup {None}, route \in ProtectedRoutes :
          Receives(h, s, c, kind, j, route)
    BY <1>14 DEF Presents
  <2>2. UNCHANGED <<client, db, history>> /\ Free(c) BY <1>14, <2>1 DEF Receives, Presents
  <2>3. /\ slot[h].pc = "idle" /\ ChangedAt(h) /\ slot'[h].who = c /\ slot'[h].kind = kind
        /\ slot'[h].issued = None /\ slot'[h].parent = None /\ slot'[h].pc \in {"answer", "check"}
    BY <1>0, <2>1, ReceivesStep
  <2>4. ~Brings(slot'[h]) /\ ~Renewing(slot'[h]) BY <2>3 DEF Brings, Renewing
  <2> QED BY <1>0, <2>2, <2>3, <2>4, AliveSame, SessionArrives
<1>15. ASSUME NEW h \in Slots, Step(h) PROVE SessionInv'
  BY <1>15, <1>1, <1>2, <1>3, <1>4, <1>5, <1>6, <1>7, <1>8, <1>9, <1>10, <1>11, <1>12, <1>13, <1>14 DEF Step
<1>16. ASSUME Elsewhere \/ (\E s \in Servers : Crash(s)) \/ (\E t \in Tabs : Shown(t) \/ Redirect(t) \/ TabLogout(t))
       PROVE  SessionInv'
  <2>1. Alive' = Alive BY <1>0, <1>16, CalmType, AliveSame DEF Calm, HistoryRest
  <2>2. \A g \in Slots : slot'[g] = Idle \/ Frozen(slot[g], slot'[g]) BY <1>0, <1>16, CalmType DEF Calm
  <2>3. CASE Elsewhere \/ \E t \in Tabs : Shown(t)
    <3>1. UNCHANGED <<slot, client>>
      BY <2>3 DEF Elsewhere, vars, Advance, StartUp, InsertDefault, Shown, Booted, Unauthorized, StatusFails
    <3> QED BY <1>0, <2>1, <2>2, <3>1, SessionLost
  <2>4. ASSUME NEW s \in Servers, Crash(s) PROVE SessionInv'
    <3>1. /\ \A g \in Slots : slot'[g] = IF g \in Dying(s) THEN Idle ELSE slot[g]
          /\ \A d \in Clients : /\ client'[d].refresh = client[d].refresh
                                /\ client'[d].lost = (client[d].lost
                                     \/ \E g \in Dying(s) : slot[g].who = d /\ slot[g].kind = "refresh")
      BY <1>0, <2>4, CrashEffect
    <3>2. ASSUME NEW g \in Slots
          PROVE  \/ slot'[g].who = slot[g].who
                 \/ /\ slot'[g].who = None
                    /\ slot[g].who \in Clients /\ Renewing(slot[g]) => client'[slot[g].who].lost
      <4>1. CASE g \in Dying(s)
        <5>1. slot'[g].who = None BY <3>1, <4>1 DEF Idle
        <5>2. ASSUME slot[g].who \in Clients, Renewing(slot[g]) PROVE client'[slot[g].who].lost
          BY <3>1, <4>1, <5>2 DEF Renewing
        <5> QED BY <5>1, <5>2
      <4>2. CASE g \notin Dying(s) BY <3>1, <4>2
      <4> QED BY <4>1, <4>2
    <3>3. \A d \in Clients : client'[d].refresh = client[d].refresh /\ (client[d].lost => client'[d].lost)
      BY <3>1
    <3> QED BY <1>0, <2>1, <2>2, <3>2, <3>3, SessionLost
  <2>5. ASSUME NEW t \in Tabs, Redirect(t) \/ TabLogout(t) PROVE SessionInv'
    <3>1. client' = client BY <2>5 DEF Redirect, TabLogout
    <3>2. \A g \in Slots : slot'[g] = slot[g] \/ (slot[g].who = t /\ Dropped(slot[g], slot'[g]))
      BY <1>0, <2>5, LeaveEffect
    <3>3. t \notin Clients BY NamesAssumption
    <3>4. \A g \in Slots : slot'[g].who = slot[g].who \/ (slot'[g].who = None /\ slot[g].who \notin Clients)
      BY <3>2, <3>3 DEF Dropped
    <3> QED BY <1>0, <2>1, <2>2, <3>1, <3>4, SessionLost
  <2> QED BY <1>16, <2>3, <2>4, <2>5
<1> QED BY <1>0, <1>15, <1>16, Steps

LEMMA SessionBegins == Init => SessionInv
<1> SUFFICES ASSUME Init PROVE SessionInv
  OBVIOUS
<1>1. /\ slot = [h \in Slots |-> Idle] /\ \A c \in Clients : client[c].refresh = None
  BY InitType DEF Begun
<1>2. Idle.who = None /\ Idle.kind = None /\ Idle.issued = None /\ Idle.pc = "idle" BY DEF Idle
<1>3. None \notin Clients /\ None \notin Kinds BY NamesAssumption DEF Senders
<1>4. ~Renewing(Idle) /\ ~Brings(Idle) BY <1>2, <1>3 DEF Renewing, Brings, Kinds
<1> QED
  BY <1>1, <1>2, <1>3, <1>4
  DEF SessionInv, OneEach, ParentHeld, HeldApart, IssuedFresh, IssuedAlive, HeldAlive

LEMMA SessionFollows == SessionInv => SessionKept
<1> SUFFICES ASSUME SessionInv, NEW c \in Clients, client[c].refresh # None, ~client[c].lost, ~Waits(c, Kinds)
             PROVE  (\E e \in db.refresh : e.id = client[c].refresh) \/ client[c].refresh \in history.ended
  BY DEF SessionKept
<1>1. ~Taken(c) BY DEF Taken, Waits, Renewing, Kinds
<1>2. client[c].refresh \in Alive BY <1>1 DEF SessionInv, HeldAlive
<1> QED BY <1>2 DEF Alive, Ids

-----------------------------------------------------------------------------
(* The rate limiter.  Served, for any limit m.                             *)
Minutes == 0 .. MaxTime
ServedBy(m, A, t, v) ==
  {e \in Minutes \X (1 .. 2 * m) : t <= e[1] /\ e[1] < v /\ e[2] <= A[e[1]]}

LEMMA ServedFinite ==
  ASSUME NEW m \in Nat, NEW A, NEW t, NEW v
  PROVE  IsFiniteSet(ServedBy(m, A, t, v)) /\ Cardinality(ServedBy(m, A, t, v)) \in Nat
<1>1. IsFiniteSet(Minutes) BY BoundsAssumption, FS_Interval DEF Minutes
<1>2. IsFiniteSet(1 .. 2 * m) BY FS_Interval
<1>3. IsFiniteSet(Minutes \X (1 .. 2 * m)) BY <1>1, <1>2, FS_Product
<1>4. ServedBy(m, A, t, v) \subseteq Minutes \X (1 .. 2 * m) BY DEF ServedBy
<1>5. IsFiniteSet(ServedBy(m, A, t, v)) BY <1>3, <1>4, FS_Subset
<1> QED BY <1>5, FS_CardinalityType

LEMMA ServedFewer ==
  ASSUME NEW m \in Nat, NEW A, NEW t, NEW v, NEW B, NEW x, NEW y,
         ServedBy(m, A, t, v) \subseteq ServedBy(m, B, x, y)
  PROVE  Cardinality(ServedBy(m, A, t, v)) <= Cardinality(ServedBy(m, B, x, y))
BY ServedFinite, FS_Subset

(* of two stretches, one after the other *)
LEMMA ServedSplit ==
  ASSUME NEW m \in Nat, NEW A, NEW t \in Int, NEW w \in Int, NEW v \in Int
  PROVE  Cardinality(ServedBy(m, A, t, v))
           <= Cardinality(ServedBy(m, A, t, w)) + Cardinality(ServedBy(m, A, w, v))
<1> DEFINE S == ServedBy(m, A, t, w)
           T == ServedBy(m, A, w, v)
<1>1. ServedBy(m, A, t, v) \subseteq S \cup T BY DEF ServedBy, Minutes
<1>2. IsFiniteSet(S) /\ IsFiniteSet(T) /\ Cardinality(S) \in Nat /\ Cardinality(T) \in Nat BY ServedFinite
<1> HIDE DEF S, T
<1>3. /\ IsFiniteSet(S \cup T)
      /\ Cardinality(S \cup T) = Cardinality(S) + Cardinality(T) - Cardinality(S \cap T)
  BY <1>2, FS_Union
<1>4. Cardinality(S \cap T) \in Nat
  <2>1. S \cap T \subseteq S OBVIOUS
  <2>2. IsFiniteSet(S \cap T) BY <1>2, <2>1, FS_Subset
  <2> QED BY <2>2, FS_CardinalityType
<1>5. Cardinality(ServedBy(m, A, t, v)) <= Cardinality(S \cup T) BY <1>1, <1>3, FS_Subset
<1>6. Cardinality(ServedBy(m, A, t, v)) \in Nat BY ServedFinite
<1> QED BY <1>2, <1>3, <1>4, <1>5, <1>6 DEF S, T

(* a request more *)
OneMore(A, u) == [A EXCEPT ![u] = @ + 1]

LEMMA ServedOneMore ==
  ASSUME NEW m \in Nat, NEW A \in [Minutes -> Nat], NEW u \in Minutes, NEW t \in Int, NEW v \in Int,
         NEW B, B = OneMore(A, u)
  PROVE  /\ Cardinality(ServedBy(m, B, t, v)) <= Cardinality(ServedBy(m, A, t, v)) + 1
         /\ u < t \/ v <= u => ServedBy(m, B, t, v) = ServedBy(m, A, t, v)
<1> DEFINE S == ServedBy(m, A, t, v)
           T == ServedBy(m, B, t, v)
           e == <<u, A[u] + 1>>
<1>0. \A w \in Minutes : B[w] = IF w = u THEN A[u] + 1 ELSE A[w] BY DEF OneMore
<1>1. T \subseteq S \cup {e} BY <1>0 DEF ServedBy, Minutes
<1>2. u < t \/ v <= u => T = S BY <1>0 DEF ServedBy, Minutes
<1>3. IsFiniteSet(S) /\ Cardinality(S) \in Nat /\ Cardinality(T) \in Nat BY ServedFinite
<1> HIDE DEF S, T, e
<1>4. /\ IsFiniteSet(S \cup {e})
      /\ Cardinality(S \cup {e}) = IF e \in S THEN Cardinality(S) ELSE Cardinality(S) + 1
  BY <1>3, FS_AddElement
<1>5. Cardinality(T) <= Cardinality(S \cup {e}) BY <1>1, <1>4, FS_Subset
<1>6. Cardinality(T) <= Cardinality(S) + 1 BY <1>3, <1>4, <1>5
<1> QED BY <1>2, <1>6 DEF S, T

LEMMA ServedNone ==
  ASSUME NEW m \in Nat, NEW A, NEW t \in Int, NEW v \in Int,
         \A u \in Minutes : t <= u /\ u < v => A[u] = 0
  PROVE  ServedBy(m, A, t, v) = {} /\ Cardinality(ServedBy(m, A, t, v)) = 0
<1>1. ServedBy(m, A, t, v) = {} BY DEF ServedBy
<1> QED BY <1>1, FS_EmptySet

(* The window of an address, and what was accepted before it: less than    *)
(* the limit in any stretch that a new window would join.                  *)
RateAt(m, b, A, now) ==
  /\ \A u \in Minutes : u > now => A[u] = 0
  /\ \A t \in Minutes : Cardinality(ServedBy(m, A, t, t + Window)) <= 2 * m - 1
  /\ b = None => \A u \in Minutes : A[u] = 0
  /\ b # None =>
       /\ b.resetAt - Window \in 0 .. now /\ b.count \in 1 .. m /\ A[b.resetAt - Window] >= 1
       /\ \A u \in Minutes : u >= b.resetAt => A[u] = 0
       /\ Cardinality(ServedBy(m, A, b.resetAt - Window, b.resetAt)) <= b.count
       /\ \A t \in Minutes : t > b.resetAt - 2 * Window =>
            Cardinality(ServedBy(m, A, t, b.resetAt - Window)) <= m - 1

LEMMA RateLater ==
  ASSUME NEW m, NEW b, NEW A, NEW now \in Nat, NEW then \in Nat, now <= then, RateAt(m, b, A, now)
  PROVE  RateAt(m, b, A, then)
<1>1. \A u \in Minutes : u > then => u > now BY BoundsAssumption DEF Minutes
<1>2. 0 .. now \subseteq 0 .. then OBVIOUS
<1> QED BY <1>1, <1>2 DEF RateAt

LEMMA RateEmpty ==
  ASSUME NEW m \in Nat \ {0}, NEW A, \A u \in Minutes : A[u] = 0, NEW now
  PROVE  RateAt(m, None, A, now)
<1>1. ASSUME NEW t \in Minutes PROVE Cardinality(ServedBy(m, A, t, t + Window)) <= 2 * m - 1
  <2>1. t \in Int /\ t + Window \in Int BY BoundsAssumption, DurationsAssumption DEF Minutes
  <2>2. Cardinality(ServedBy(m, A, t, t + Window)) = 0 BY <2>1, ServedNone
  <2> QED BY <2>2
<1> QED BY <1>1 DEF RateAt

(* A window begins.                                                        *)
LEMMA RateOpens ==
  ASSUME NEW m \in Nat \ {0}, NEW b \in Bucket \cup {None}, NEW A \in [Minutes -> Nat], NEW now \in Minutes,
         RateAt(m, b, A, now), b = None \/ b.resetAt <= now,
         NEW B, B = OneMore(A, now),
         NEW d, d # None, d.count = 1, d.resetAt = now + Window
  PROVE  RateAt(m, d, B, now)
<1>0. /\ Window \in Nat \ {0} /\ now \in Nat /\ now \in Int /\ MaxTime \in Nat /\ m \in Nat
      /\ now + Window \in Int /\ \A u \in Minutes : u \in Nat /\ u \in Int
  BY BoundsAssumption, DurationsAssumption DEF Minutes
<1>a. d.resetAt - Window = now /\ d.resetAt - 2 * Window = now - Window BY <1>0
<1>1. \A u \in Minutes : u >= now => A[u] = 0
  <2>1. CASE b = None BY <2>1 DEF RateAt
  <2>2. CASE b # None
    <3>1. b.resetAt <= now /\ b.resetAt \in Nat BY <2>2 DEF Bucket
    <3>2. \A u \in Minutes : u >= b.resetAt => A[u] = 0 BY <2>2 DEF RateAt
    <3> QED BY <1>0, <3>1, <3>2
  <2> QED BY <2>1, <2>2
<1>2. \A w \in Minutes : B[w] = IF w = now THEN 1 ELSE A[w] BY <1>0, <1>1 DEF OneMore
<1>b. ASSUME NEW t \in Int, NEW v \in Int
      PROVE  /\ Cardinality(ServedBy(m, B, t, v)) <= Cardinality(ServedBy(m, A, t, v)) + 1
             /\ now < t \/ v <= now => ServedBy(m, B, t, v) = ServedBy(m, A, t, v)
  BY <1>0, ServedOneMore
<1>3. \A u \in Minutes : u > now => B[u] = 0 BY <1>0, <1>1, <1>2
<1>4. ASSUME NEW t \in Minutes, t > now - Window PROVE Cardinality(ServedBy(m, A, t, now)) <= m - 1
  <2>0. t \in Int BY <1>0
  <2>1. CASE b = None
    <3>1. \A u \in Minutes : A[u] = 0 BY <2>1 DEF RateAt
    <3>2. Cardinality(ServedBy(m, A, t, now)) = 0 BY <1>0, <2>0, <3>1, ServedNone
    <3> QED BY <3>2
  <2>2. CASE b # None
    <3> DEFINE a == b.resetAt - Window
    <3>1. b.resetAt \in Nat /\ b.count \in Nat /\ b.resetAt <= now BY <2>2 DEF Bucket
    <3>2. /\ a \in 0 .. now /\ b.count <= m /\ A[a] >= 1
          /\ \A u \in Minutes : u >= b.resetAt => A[u] = 0
          /\ Cardinality(ServedBy(m, A, a, b.resetAt)) <= b.count
      BY <2>2 DEF RateAt
    <3>3. a \in Minutes /\ a \in Nat /\ a < t
      <4>1. a \in Nat /\ a <= now BY <3>2, <1>0
      <4>2. now <= MaxTime BY <1>0 DEF Minutes
      <4>3. a \in Minutes BY <4>1, <4>2, <1>0 DEF Minutes
      <4>4. a <= now - Window BY <3>1, <1>0
      <4>5. a < t BY <4>1, <4>4, <1>0, <2>0, <1>4
      <4> QED BY <4>1, <4>3, <4>5
    <3> DEFINE S == ServedBy(m, A, t, now)
               T == ServedBy(m, A, a, b.resetAt)
    <3>4. S \subseteq T \ {<<a, 1>>}
      <4>1. ASSUME NEW e \in S PROVE e \in T /\ e # <<a, 1>>
        <5>1. e \in Minutes \X (1 .. 2 * m) /\ t <= e[1] /\ e[1] < now /\ e[2] <= A[e[1]] BY DEF ServedBy
        <5>2. e[1] \in Nat /\ e[1] \in Minutes
          <6>1. e[1] \in Minutes BY <5>1
          <6> QED BY <1>0, <6>1
        <5>5. e[2] \in Nat /\ e[2] >= 1
          <6>1. e[2] \in 1 .. 2 * m BY <5>1
          <6> QED BY <1>0, <6>1
        <5>3. e[1] < b.resetAt BY <1>0, <3>1, <3>2, <5>1, <5>2, <5>5
        <5>4. a <= e[1] /\ a # e[1] BY <2>0, <3>3, <5>1, <5>2
        <5> QED BY <5>1, <5>3, <5>4 DEF ServedBy
      <4> QED BY <4>1
    <3>5. <<a, 1>> \in T
      <4>1. <<a, 1>> \in Minutes \X (1 .. 2 * m) BY <3>3
      <4>2. a < b.resetAt BY <1>0, <3>1
      <4> QED BY <3>2, <3>3, <4>1, <4>2 DEF ServedBy
    <3>6. IsFiniteSet(T) /\ Cardinality(T) \in Nat /\ Cardinality(S) \in Nat BY ServedFinite
    <3> HIDE DEF S, T
    <3>7. IsFiniteSet(T \ {<<a, 1>>}) /\ Cardinality(T \ {<<a, 1>>}) = Cardinality(T) - 1
      BY <3>5, <3>6, FS_RemoveElement
    <3>8. Cardinality(S) <= Cardinality(T \ {<<a, 1>>}) BY <3>4, <3>7, FS_Subset
    <3>9. Cardinality(T) <= b.count BY <3>2 DEF T
    <3>10. Cardinality(S) <= m - 1 BY <3>1, <3>2, <3>6, <3>7, <3>8, <3>9
    <3> QED BY <3>10 DEF S
  <2> QED BY <2>1, <2>2
<1>5. ASSUME NEW t \in Minutes PROVE ServedBy(m, B, t, now) = ServedBy(m, A, t, now)
  BY <1>0, <1>b
<1>6. ASSUME NEW v \in Int PROVE Cardinality(ServedBy(m, B, now, v)) <= 1
  <2>1. \A u \in Minutes : now <= u /\ u < v => A[u] = 0 BY <1>1
  <2>2. Cardinality(ServedBy(m, A, now, v)) = 0 BY <1>0, <2>1, ServedNone
  <2>3. Cardinality(ServedBy(m, B, now, v)) <= Cardinality(ServedBy(m, A, now, v)) + 1 BY <1>0, <1>b
  <2>4. Cardinality(ServedBy(m, B, now, v)) \in Nat BY ServedFinite
  <2> QED BY <2>2, <2>3, <2>4
<1>7. ASSUME NEW t \in Minutes PROVE Cardinality(ServedBy(m, B, t, t + Window)) <= 2 * m - 1
  <2> DEFINE v == t + Window
  <2>0. t \in Int /\ v \in Int /\ t \in Nat BY <1>0
  <2>1. CASE now < t \/ v <= now
    <3>1. ServedBy(m, B, t, v) = ServedBy(m, A, t, v) BY <2>0, <2>1, <1>b
    <3> QED BY <3>1 DEF RateAt
  <2>2. CASE t <= now /\ now < v
    <3>1. t > now - Window BY <1>0, <2>0, <2>2
    <3>2. Cardinality(ServedBy(m, B, t, now)) <= m - 1 BY <1>4, <1>5, <3>1
    <3>3. Cardinality(ServedBy(m, B, now, v)) <= 1 BY <1>6, <2>0
    <3>4. Cardinality(ServedBy(m, B, t, v))
            <= Cardinality(ServedBy(m, B, t, now)) + Cardinality(ServedBy(m, B, now, v))
      BY <1>0, <2>0, ServedSplit
    <3>5. /\ Cardinality(ServedBy(m, B, t, v)) \in Nat /\ Cardinality(ServedBy(m, B, t, now)) \in Nat
          /\ Cardinality(ServedBy(m, B, now, v)) \in Nat
      BY ServedFinite
    <3> HIDE DEF v
    <3>6. Cardinality(ServedBy(m, B, t, v)) <= 2 * m - 1 BY <3>2, <3>3, <3>4, <3>5
    <3> QED BY <3>6 DEF v
  <2> QED BY <1>0, <2>0, <2>1, <2>2
<1>8. Cardinality(ServedBy(m, B, now, now + Window)) <= 1
  <2> DEFINE v == now + Window
  <2>1. v \in Int BY <1>0
  <2> HIDE DEF v
  <2>2. Cardinality(ServedBy(m, B, now, v)) <= 1 BY <2>1, <1>6
  <2> QED BY <2>2 DEF v
<1>9. \A t \in Minutes : t > now - Window => Cardinality(ServedBy(m, B, t, now)) <= m - 1 BY <1>4, <1>5
<1>10. \A u \in Minutes : u >= now + Window => B[u] = 0 BY <1>0, <1>3
<1>11. now \in 0 .. now /\ 1 \in 1 .. m /\ B[now] >= 1 BY <1>0, <1>2
<1> QED BY <1>a, <1>3, <1>7, <1>8, <1>9, <1>10, <1>11 DEF RateAt


(* A window goes on.                                                       *)
LEMMA RateCounts ==
  ASSUME NEW m \in Nat \ {0}, NEW b \in Bucket, NEW A \in [Minutes -> Nat], NEW now \in Minutes,
         b # None, RateAt(m, b, A, now), now < b.resetAt, b.count < m,
         NEW B, B = OneMore(A, now),
         NEW d, d # None, d.count = b.count + 1, d.resetAt = b.resetAt
  PROVE  RateAt(m, d, B, now)
<1> DEFINE a == b.resetAt - Window
           z == b.resetAt
<1>0. /\ Window \in Nat \ {0} /\ now \in Nat /\ now \in Int /\ MaxTime \in Nat /\ m \in Nat
      /\ \A u \in Minutes : u \in Nat /\ u \in Int /\ u + Window \in Int
      /\ b.count \in Nat /\ z \in Nat /\ z \in Int /\ a \in Int
  BY BoundsAssumption, DurationsAssumption DEF Minutes, Bucket
<1>1. /\ \A u \in Minutes : u > now => A[u] = 0
      /\ \A t \in Minutes : Cardinality(ServedBy(m, A, t, t + Window)) <= 2 * m - 1
      /\ a \in 0 .. now /\ b.count \in 1 .. m /\ A[a] >= 1
      /\ \A u \in Minutes : u >= z => A[u] = 0
      /\ Cardinality(ServedBy(m, A, a, z)) <= b.count
      /\ \A t \in Minutes : t > z - 2 * Window => Cardinality(ServedBy(m, A, t, a)) <= m - 1
  BY DEF RateAt
<1>2. \A w \in Minutes : B[w] = IF w = now THEN A[now] + 1 ELSE A[w] BY DEF OneMore
<1>3. ASSUME NEW t \in Int, NEW v \in Int
      PROVE  /\ Cardinality(ServedBy(m, B, t, v)) <= Cardinality(ServedBy(m, A, t, v)) + 1
             /\ now < t \/ v <= now => ServedBy(m, B, t, v) = ServedBy(m, A, t, v)
  BY <1>0, ServedOneMore
<1>4. a <= now /\ a \in Nat /\ a + Window = z /\ z - 2 * Window = a - Window /\ a \in Minutes
  <2>1. a \in 0 .. now BY <1>1
  <2>2. a + Window = z /\ z - 2 * Window = a - Window BY <1>0
  <2> HIDE DEF a
  <2>3. a <= now /\ a \in Nat BY <1>0, <2>1
  <2>4. a \in Minutes BY <1>0, <2>3 DEF Minutes
  <2> QED BY <2>2, <2>3, <2>4
<1>5. z = d.resetAt OBVIOUS
<1> HIDE DEF a, z
<1>6. \A u \in Minutes : u >= z => B[u] = 0 BY <1>0, <1>1, <1>2, <1>5
<1>7. \A u \in Minutes : u > now => B[u] = 0 BY <1>0, <1>1, <1>2
<1>8. B[a] >= 1
  <2>1. CASE a = now BY <1>0, <1>1, <1>2, <1>4, <2>1
  <2>2. CASE a # now BY <1>0, <1>1, <1>2, <1>4, <2>2
  <2> QED BY <2>1, <2>2
<1>9. Cardinality(ServedBy(m, B, a, z)) <= b.count + 1
  <2>1. Cardinality(ServedBy(m, B, a, z)) <= Cardinality(ServedBy(m, A, a, z)) + 1 BY <1>0, <1>3
  <2>2. Cardinality(ServedBy(m, B, a, z)) \in Nat /\ Cardinality(ServedBy(m, A, a, z)) \in Nat BY <1>0, ServedFinite
  <2> QED BY <1>0, <1>1, <2>1, <2>2
<1>10. ASSUME NEW t \in Minutes, t > z - 2 * Window PROVE Cardinality(ServedBy(m, B, t, a)) <= m - 1
  <2>1. ServedBy(m, B, t, a) = ServedBy(m, A, t, a) BY <1>0, <1>3, <1>4
  <2> QED BY <1>1, <1>10, <2>1
(* from the window on everything is in it *)
<1>11. ASSUME NEW t \in Int, NEW v \in Int, a <= t PROVE Cardinality(ServedBy(m, B, t, v)) <= m
  <2>1. ServedBy(m, B, t, v) \subseteq ServedBy(m, B, a, z)
    <3>1. ASSUME NEW e \in ServedBy(m, B, t, v) PROVE e \in ServedBy(m, B, a, z)
      <4>1. e \in Minutes \X (1 .. 2 * m) /\ t <= e[1] /\ e[1] < v /\ e[2] <= B[e[1]] BY DEF ServedBy
      <4>2. e[1] \in Minutes /\ e[2] \in 1 .. 2 * m BY <4>1
      <4>a. e[1] \in Nat BY <1>0, <4>2
      <4>b. e[2] \in Nat /\ e[2] >= 1 BY <1>0, <4>2
      <4>3. e[1] \in Nat /\ e[2] \in Nat /\ e[2] >= 1 BY <4>a, <4>b
      <4>4. e[1] < z
        <5>1. SUFFICES ASSUME e[1] >= z PROVE FALSE BY <1>0, <4>3
        <5>2. B[e[1]] = 0 BY <1>6, <4>2, <5>1
        <5> QED BY <4>1, <4>3, <5>2
      <4>5. a <= e[1] BY <1>0, <1>11, <4>1, <4>3
      <4> QED BY <4>1, <4>4, <4>5 DEF ServedBy
    <3> QED BY <3>1
  <2>2. Cardinality(ServedBy(m, B, t, v)) <= Cardinality(ServedBy(m, B, a, z)) BY <1>0, <2>1, ServedFewer
  <2>3. Cardinality(ServedBy(m, B, t, v)) \in Nat /\ Cardinality(ServedBy(m, B, a, z)) \in Nat BY <1>0, ServedFinite
  <2> QED BY <1>0, <1>9, <2>2, <2>3
<1>12. ASSUME NEW t \in Minutes PROVE Cardinality(ServedBy(m, B, t, t + Window)) <= 2 * m - 1
  <2> DEFINE v == t + Window
  <2>0. t \in Int /\ v \in Int BY <1>0
  <2>a. Cardinality(ServedBy(m, B, t, v)) \in Nat /\ Cardinality(ServedBy(m, B, t, a)) \in Nat
        /\ Cardinality(ServedBy(m, B, a, v)) \in Nat BY <1>0, ServedFinite
  <2>1. CASE v <= now
    <3>1. ServedBy(m, B, t, v) = ServedBy(m, A, t, v) BY <2>0, <2>1, <1>3
    <3> QED BY <1>1, <3>1
  <2>2. CASE a <= t
    <3>1. Cardinality(ServedBy(m, B, t, v)) <= m BY <2>0, <2>2, <1>11
    <3> HIDE DEF v
    <3>2. Cardinality(ServedBy(m, B, t, v)) <= 2 * m - 1 BY <1>0, <2>a, <3>1
    <3> QED BY <3>2 DEF v
  <2>3. CASE t < a /\ v > now
    <3>1. t > z - 2 * Window BY <1>0, <1>4, <2>0, <2>3
    <3>2. Cardinality(ServedBy(m, B, t, a)) <= m - 1 BY <1>10, <3>1
    <3>3. Cardinality(ServedBy(m, B, a, v)) <= m BY <1>0, <1>11, <2>0
    <3>4. Cardinality(ServedBy(m, B, t, v))
            <= Cardinality(ServedBy(m, B, t, a)) + Cardinality(ServedBy(m, B, a, v))
      BY <1>0, <2>0, ServedSplit
    <3> HIDE DEF v
    <3>5. Cardinality(ServedBy(m, B, t, v)) <= 2 * m - 1 BY <1>0, <2>a, <3>2, <3>3, <3>4
    <3> QED BY <3>5 DEF v
  <2> QED BY <1>0, <2>0, <2>1, <2>2, <2>3
<1>13. d.count \in 1 .. m BY <1>0, <1>1
<1> QED BY <1>5, <1>1, <1>6, <1>7, <1>8, <1>9, <1>10, <1>12, <1>13, <1>4 DEF RateAt, a

(* Of each process and sender.                                             *)
RateOf(s, c) ==
  IF scenario.limit = 0 THEN server[s].bucket[c] = None
  ELSE RateAt(scenario.limit, server[s].bucket[c], history.accepted[s][c], time)
RateInv == \A s \in Servers, c \in Senders : RateOf(s, c)

LEMMA AcceptedParts ==
  ASSUME TypeInv, NEW s \in Servers, NEW c \in Senders
  PROVE  history.accepted[s][c] \in [Minutes -> Nat]
<1>1. history.accepted \in AcceptedType BY HistoryParts
<1>2. history.accepted[s] \in [Senders -> [0 .. MaxTime -> Nat]] BY <1>1 DEF AcceptedType
<1> QED BY <1>2 DEF Minutes

LEMMA AcceptedAt ==
  ASSUME TypeInv, NEW s \in Servers, NEW c \in Senders, scenario.limit > 0
  PROVE  \A x \in Servers, d \in Senders :
           Accepted(s, c).accepted[x][d] =
             IF x = s /\ d = c THEN OneMore(history.accepted[s][c], time) ELSE history.accepted[x][d]
<1> DEFINE f == history.accepted
           k == OneMore(f[s][c], time)
           g == [f[s] EXCEPT ![c] = k]
<1>1. f \in [Servers -> [Senders -> [0 .. MaxTime -> Nat]]] BY HistoryParts DEF AcceptedType
<1>2. f[s] \in [Senders -> [0 .. MaxTime -> Nat]] BY <1>1
<1>3. Accepted(s, c).accepted = [f EXCEPT ![s] = g] BY AcceptedKeep DEF OneMore
<1> HIDE DEF f, k
<1>4. g[c] = k /\ \A d \in Senders \ {c} : g[d] = f[s][d] BY <1>2
<1> HIDE DEF g
<1>5. [f EXCEPT ![s] = g][s] = g /\ \A x \in Servers \ {s} : [f EXCEPT ![s] = g][x] = f[x] BY <1>1
<1>6. ASSUME NEW x \in Servers, NEW d \in Senders
      PROVE  Accepted(s, c).accepted[x][d] = IF x = s /\ d = c THEN k ELSE f[x][d]
  <2>1. CASE x = s /\ d = c BY <1>3, <1>4, <1>5, <2>1
  <2>2. CASE x = s /\ d # c BY <1>3, <1>4, <1>5, <2>2
  <2>3. CASE x # s BY <1>3, <1>5, <2>3
  <2> QED BY <2>1, <2>2, <2>3
<1> QED BY <1>6 DEF f, k

LEMMA RateSame ==
  ASSUME TypeInv, NEW s \in Servers, NEW c \in Senders, RateOf(s, c),
         scenario'.limit = scenario.limit, server'[s].bucket[c] = server[s].bucket[c],
         history'.accepted[s][c] = history.accepted[s][c], time' = time \/ time' = time + 1
  PROVE  RateOf(s, c)'
<1>1. CASE scenario.limit = 0 BY <1>1 DEF RateOf
<1>2. CASE scenario.limit # 0
  <2> DEFINE m == scenario.limit
             b == server[s].bucket[c]
             A == history.accepted[s][c]
             now == time
             then == time'
  <2>1. RateAt(m, b, A, now) BY <1>2 DEF RateOf
  <2>2. now \in Nat /\ then \in Nat /\ now <= then BY BoundsAssumption DEF TypeInv
  <2>3. RateAt(m, b, A, then) => RateOf(s, c)' BY <1>2 DEF RateOf
  <2> HIDE DEF m, b, A, now, then
  <2>4. RateAt(m, b, A, then) BY <2>1, <2>2, RateLater
  <2> QED BY <2>3, <2>4
<1> QED BY <1>1, <1>2

LEMMA RateForgotten ==
  ASSUME TypeInv, NEW s \in Servers, NEW c \in Senders,
         scenario'.limit = scenario.limit, server'[s].bucket[c] = None,
         history'.accepted[s][c] = [t \in 0 .. MaxTime |-> 0]
  PROVE  RateOf(s, c)'
<1>1. CASE scenario.limit = 0 BY <1>1 DEF RateOf
<1>2. CASE scenario.limit # 0
  <2> DEFINE m == scenario.limit
             A == [t \in 0 .. MaxTime |-> 0]
             then == time'
  <2>1. m \in Nat \ {0} BY <1>2, ScenarioParts
  <2>2. \A u \in Minutes : A[u] = 0 BY DEF Minutes
  <2>3. RateAt(m, None, A, then) => RateOf(s, c)' BY <1>2 DEF RateOf
  <2> HIDE DEF m, A, then
  <2>4. RateAt(m, None, A, then) BY <2>1, <2>2, RateEmpty
  <2> QED BY <2>3, <2>4
<1> QED BY <1>1, <1>2

LEMMA RateCounted ==
  ASSUME TypeInv, NEW s \in Servers, NEW c \in Senders, RateOf(s, c), Allowed(s, c),
         scenario'.limit = scenario.limit, server'[s].bucket[c] = Counted(s, c),
         history'.accepted[s][c] = Accepted(s, c).accepted[s][c], time' = time
  PROVE  RateOf(s, c)'
<1>1. CASE scenario.limit = 0 BY <1>1 DEF RateOf, Counted
<1>2. CASE scenario.limit # 0
  <2>0. scenario.limit \in Nat \ {0} /\ scenario.limit > 0 BY <1>2, ScenarioParts
  <2> DEFINE m == scenario.limit
             b == server[s].bucket[c]
             A == history.accepted[s][c]
             now == time
             B == history'.accepted[s][c]
             d == server'[s].bucket[c]
  <2>1. /\ RateAt(m, b, A, now) /\ m \in Nat \ {0} /\ now \in Minutes /\ now \in Nat
        /\ b \in Bucket \cup {None} /\ A \in [Minutes -> Nat]
    BY <1>2, <2>0, AcceptedParts, ServerParts, BoundsAssumption DEF RateOf, TypeInv, Minutes
  <2>2. B = OneMore(A, now) BY <2>0, AcceptedAt
  <2>3. d = IF b = None \/ b.resetAt <= now THEN [count |-> 1, resetAt |-> now + Window]
            ELSE IF b.count < m THEN [b EXCEPT !.count = @ + 1] ELSE b
    BY <1>2 DEF Counted
  <2>4. b = None \/ b.resetAt <= now \/ b.count < m BY <1>2 DEF Allowed
  <2>5. RateAt(m, d, B, now) => RateOf(s, c)' BY <1>2 DEF RateOf
  <2> HIDE DEF m, b, A, now, B, d
  <2>6. CASE b = None \/ b.resetAt <= now
    <3>0. Window \in Nat BY DurationsAssumption
    <3>1. d = [count |-> 1, resetAt |-> now + Window] BY <2>3, <2>6
    <3>2. d \in [count : Nat, resetAt : Nat] /\ d.count = 1 /\ d.resetAt = now + Window BY <2>1, <3>0, <3>1
    <3>3. d # None BY <3>2, NamesAssumption
    <3>4. RateAt(m, d, B, now) BY <2>1, <2>2, <2>6, <3>2, <3>3, RateOpens
    <3> QED BY <2>5, <3>4
  <2>7. CASE b # None /\ ~(b.resetAt <= now)
    <3>1. b \in Bucket BY <2>1, <2>7
    <3>2. b.count \in Nat /\ b.resetAt \in Nat BY <3>1 DEF Bucket
    <3>3. now < b.resetAt /\ b.count < m BY <2>1, <2>4, <2>7, <3>2
    <3>4. d = [b EXCEPT !.count = @ + 1] BY <2>3, <2>7, <3>3
    <3>5. d \in [count : Nat, resetAt : Nat] /\ d.count = b.count + 1 /\ d.resetAt = b.resetAt
      BY <3>1, <3>2, <3>4 DEF Bucket
    <3>6. d # None BY <3>5, NamesAssumption
    <3>7. RateAt(m, d, B, now) BY <2>1, <2>2, <2>7, <3>1, <3>3, <3>5, <3>6, RateCounts
    <3> QED BY <2>5, <3>7
  <2> QED BY <2>6, <2>7
<1> QED BY <1>1, <1>2

(* a request counted, or refused and not *)
LEMMA RateServed ==
  ASSUME TypeInv, RateInv, NEW s \in Servers, NEW c \in Senders, scenario'.limit = scenario.limit, time' = time,
         \A x \in Servers, d \in Senders :
           server'[x].bucket[d] = IF x = s /\ d = c THEN Counted(s, c) ELSE server[x].bucket[d],
         history'.accepted = IF Allowed(s, c) THEN Accepted(s, c).accepted ELSE history.accepted
  PROVE  RateInv'
<1> SUFFICES ASSUME NEW x \in Servers, NEW d \in Senders PROVE RateOf(x, d)'
  BY DEF RateInv
<1>0. RateOf(x, d) BY DEF RateInv
<1>1. CASE ~Allowed(s, c)
  <2>1. Counted(s, c) = server[s].bucket[c] BY <1>1 DEF Allowed, Counted
  <2>2. server'[x].bucket[d] = server[x].bucket[d] /\ history'.accepted[x][d] = history.accepted[x][d]
    BY <1>1, <2>1
  <2> QED BY <1>0, <2>2, RateSame
<1>2. CASE Allowed(s, c) /\ x = s /\ d = c BY <1>0, <1>2, RateCounted
<1>3. CASE Allowed(s, c) /\ ~(x = s /\ d = c)
  <2>1. server'[x].bucket[d] = server[x].bucket[d] BY <1>3
  <2>2. history'.accepted[x][d] = history.accepted[x][d]
    <3>1. CASE scenario.limit = 0 BY <1>3, <3>1, AcceptedKeep
    <3>2. CASE scenario.limit # 0
      <4>1. scenario.limit > 0 BY <3>2, ScenarioParts
      <4> QED BY <1>3, <4>1, AcceptedAt
    <3> QED BY <3>1, <3>2
  <2> QED BY <1>0, <2>1, <2>2, RateSame
<1> QED BY <1>1, <1>2, <1>3

LEMMA RateUntouched ==
  ASSUME TypeInv, RateInv, scenario'.limit = scenario.limit, time' = time \/ time' = time + 1,
         \A s \in Servers : server'[s].bucket = server[s].bucket, history'.accepted = history.accepted
  PROVE  RateInv'
BY RateSame DEF RateInv


LEMMA RatesKept == Basic /\ RateInv /\ [Next]_vars => RateInv'
<1> SUFFICES ASSUME Basic, RateInv, [Next]_vars PROVE RateInv'
  OBVIOUS
<1>0. TypeInv /\ Starting BY DEF Basic
<1>1. ASSUME NEW h \in Slots, Step(h) PROVE RateInv'
  <2>0. scenario'.limit = scenario.limit /\ time' = time BY <1>0, <1>1, StepType DEF ScenarioRest
  <2>a. ASSUME server' = server, history'.accepted = history.accepted PROVE RateInv'
    BY <1>0, <2>0, <2>a, RateUntouched
  <2>1. CASE Verify(h) \/ Insert(h) \/ Consume(h) \/ Revoke(h) \/ Deliver(h) \/ HandlerFails(h) \/ GiveUp(h)
    <3>1. UNCHANGED <<server, history>>
      BY <2>1 DEF Verify, Insert, Consume, Revoke, Deliver, HandlerFails, GiveUp
    <3> QED BY <2>a, <3>1
  <2>2. CASE Store(h)
    <3>1. server' = server BY <2>2 DEF Store
    <3>2. history'.accepted = history.accepted BY <1>0, <2>2, HistoryParts DEF Store, HistoryType
    <3> QED BY <2>a, <3>1, <3>2
  <2>3. CASE Forget(h)
    <3>1. server' = server BY <2>3 DEF Forget
    <3>2. history'.accepted = history.accepted BY <1>0, <2>3, HistoryParts DEF Forget, HistoryType
    <3> QED BY <2>a, <3>1, <3>2
  <2>4. CASE Audit(h)
    <3>1. server' = server BY <2>4 DEF Audit
    <3>2. history'.accepted = history.accepted BY <1>0, <2>4, HistoryParts DEF Audit, HistoryType
    <3> QED BY <2>a, <3>1, <3>2
  <2>5. CASE Check(h)
    <3> DEFINE at == slot[h].at
               from == slot[h].from
    <3>1. at \in Servers /\ from \in Senders BY <1>0, <2>5, CheckEffect
    <3>2. \/ server' = server /\ history' = history
          \/ /\ Allowed(at, from) /\ history'.accepted = Accepted(at, from).accepted
             /\ \A x \in Servers, d \in Senders :
                  server'[x].bucket[d] = IF x = at /\ d = from THEN Counted(at, from) ELSE server[x].bucket[d]
      BY <1>0, <2>5, CheckEffect
    <3>3. PICK s \in Servers, c \in Senders : s = at /\ c = from BY <3>1
    <3> HIDE DEF at, from
    <3>4. \/ server' = server /\ history' = history
          \/ /\ Allowed(s, c) /\ history'.accepted = Accepted(s, c).accepted
             /\ \A x \in Servers, d \in Senders :
                  server'[x].bucket[d] = IF x = s /\ d = c THEN Counted(s, c) ELSE server[x].bucket[d]
      BY <3>2, <3>3
    <3>5. CASE server' = server /\ history' = history BY <2>a, <3>5
    <3>6. CASE /\ Allowed(s, c) /\ history'.accepted = Accepted(s, c).accepted
               /\ \A x \in Servers, d \in Senders :
                    server'[x].bucket[d] = IF x = s /\ d = c THEN Counted(s, c) ELSE server[x].bucket[d]
      BY <1>0, <2>0, <3>6, RateServed
    <3> QED BY <3>4, <3>5, <3>6
  <2>b. ASSUME NEW s \in Servers, NEW c \in Senders, NEW q, Entered(h, s, c, q) PROVE RateInv'
    <3>1. /\ \A x \in Servers, d \in Senders :
               server'[x].bucket[d] = IF x = s /\ d = c THEN Counted(s, c) ELSE server[x].bucket[d]
          /\ history'.accepted = IF Allowed(s, c) THEN Accepted(s, c).accepted ELSE history.accepted
      BY <2>b DEF Entered
    <3> QED BY <1>0, <2>0, <3>1, RateServed
  <2>6. ASSUME NEW s \in Servers, NEW c \in Senders, Requests(h, s, c) PROVE RateInv'
    <3>1. \E q : Entered(h, s, c, q) BY <1>0, <2>6, LoginStep, RegisterStep DEF Requests, Anonymous
    <3> QED BY <2>b, <3>1
  <2>7. ASSUME NEW s \in Servers, NEW c \in Clients, Renews(h, s, c) PROVE RateInv'
    <3>1. \E q : Entered(h, s, c, q) BY <1>0, <2>7, RefreshStep DEF Renews
    <3> QED BY <2>b, <3>1 DEF Senders
  <2>8. ASSUME NEW s \in Servers, NEW c \in Senders, Presents(h, s, c) PROVE RateInv'
    <3>1. UNCHANGED <<server, history>> BY <2>8 DEF Presents, Receives
    <3> QED BY <2>a, <3>1
  <2> QED BY <1>1, <2>1, <2>2, <2>3, <2>4, <2>5, <2>6, <2>7, <2>8 DEF Step
<1>2. ASSUME Elsewhere \/ (\E s \in Servers : Crash(s)) \/ (\E t \in Tabs : Shown(t) \/ Redirect(t) \/ TabLogout(t))
      PROVE  RateInv'
  <2>0. scenario'.limit = scenario.limit BY <1>0, <1>2, CalmType DEF ScenarioRest
  <2>a. ASSUME server' = server, history' = history, time' = time \/ time' = time + 1 PROVE RateInv'
    BY <1>0, <2>0, <2>a, RateUntouched
  <2>1. CASE UNCHANGED vars \/ Advance BY <2>1, <2>a DEF vars, Advance
  <2>2. ASSUME NEW s \in Servers, StartUp(s) \/ InsertDefault(s) PROVE RateInv'
    <3>1. \A x \in Servers : server'[x].bucket = server[x].bucket
      BY <1>0, <2>2, StartUpEffect, InsertDefaultEffect
    <3>2. history' = history /\ time' = time BY <2>2 DEF StartUp, InsertDefault
    <3> QED BY <1>0, <2>0, <3>1, <3>2, RateUntouched
  <2>3. ASSUME NEW s \in Servers, Crash(s) PROVE RateInv'
    <3>1. /\ \A x \in Servers : server'[x] = IF x = s THEN Fresh ELSE server[x]
          /\ \A x \in Servers : history'.accepted[x] = IF x = s THEN NothingAccepted ELSE history.accepted[x]
          /\ time' = time
      BY <1>0, <2>3, CrashEffect DEF Crash
    <3> SUFFICES ASSUME NEW x \in Servers, NEW d \in Senders PROVE RateOf(x, d)'
      BY DEF RateInv
    <3>2. CASE x = s
      <4>1. server'[x].bucket[d] = None BY <3>1, <3>2 DEF Fresh
      <4>2. history'.accepted[x][d] = [t \in 0 .. MaxTime |-> 0] BY <3>1, <3>2 DEF NothingAccepted
      <4> QED BY <1>0, <2>0, <4>1, <4>2, RateForgotten
    <3>3. CASE x # s
      <4>1. server'[x].bucket[d] = server[x].bucket[d] /\ history'.accepted[x][d] = history.accepted[x][d]
        BY <3>1, <3>3
      <4> QED BY <1>0, <2>0, <3>1, <4>1, RateSame DEF RateInv
    <3> QED BY <3>2, <3>3
  <2>4. ASSUME NEW t \in Tabs, Shown(t) \/ Redirect(t) \/ TabLogout(t) PROVE RateInv'
    <3>1. UNCHANGED <<server, history, time>>
      BY <2>4 DEF Shown, Booted, Unauthorized, StatusFails, Redirect, TabLogout
    <3> QED BY <2>a, <3>1
  <2> QED BY <1>2, <2>1, <2>2, <2>3, <2>4 DEF Elsewhere
<1> QED BY <1>0, <1>1, <1>2, Steps

LEMMA RateBegins == Init => RateInv
<1> SUFFICES ASSUME Init, NEW s \in Servers, NEW c \in Senders PROVE RateOf(s, c)
  BY DEF RateInv
<1>1. TypeInv /\ Begun BY InitType
<1>2. server[s].bucket[c] = None BY <1>1 DEF Begun, Fresh
<1>3. history.accepted[s][c] = [t \in 0 .. MaxTime |-> 0] BY <1>1 DEF Begun, NothingAccepted
<1>4. CASE scenario.limit = 0 BY <1>2, <1>4 DEF RateOf
<1>5. CASE scenario.limit # 0
  <2> DEFINE m == scenario.limit
             A == [t \in 0 .. MaxTime |-> 0]
             now == time
  <2>1. m \in Nat \ {0} BY <1>1, <1>5, ScenarioParts
  <2>2. \A u \in Minutes : A[u] = 0 BY DEF Minutes
  <2>3. RateAt(m, None, A, now) => RateOf(s, c) BY <1>2, <1>3, <1>5 DEF RateOf
  <2> HIDE DEF m, A, now
  <2>4. RateAt(m, None, A, now) BY <2>1, <2>2, RateEmpty
  <2> QED BY <2>3, <2>4
<1> QED BY <1>4, <1>5

LEMMA RateFollows ==
  ASSUME TypeInv, RateInv
  PROVE  /\ RateBounded
         /\ \A s \in Servers, c \in Senders :
              LET b == server[s].bucket[c] IN b # None => b.count \in 1 .. scenario.limit
<1>1. RateBounded
  <2> SUFFICES ASSUME scenario.limit > 0, NEW s \in Servers, NEW c \in Senders, NEW t \in 0 .. MaxTime
               PROVE  Cardinality(Served(history.accepted[s][c], t, t + Window)) <= 2 * scenario.limit - 1
    BY DEF RateBounded
  <2>1. scenario.limit # 0 BY ScenarioParts
  <2>2. RateAt(scenario.limit, server[s].bucket[c], history.accepted[s][c], time) BY <2>1 DEF RateInv, RateOf
  <2>3. Cardinality(ServedBy(scenario.limit, history.accepted[s][c], t, t + Window)) <= 2 * scenario.limit - 1
    BY <2>2 DEF RateAt, Minutes
  <2> QED BY <2>3 DEF Served, ServedBy, Minutes
<1>2. ASSUME NEW s \in Servers, NEW c \in Senders
      PROVE  server[s].bucket[c] # None => server[s].bucket[c].count \in 1 .. scenario.limit
  BY DEF RateInv, RateOf, RateAt
<1> QED BY <1>1, <1>2

(* TypeOK, of the types above and the invariants.                          *)
LEMMA TypeFollows ==
  ASSUME TypeInv, RefreshInv, RateInv PROVE TypeOK
<1>1. DOMAIN tokens = Jtis(N) /\ N \in Nat BY Counts
<1>2. db.accounts \in [Users -> Passwords \cup {DefaultPassword, None}] /\ db.revoked \subseteq DOMAIN tokens
  BY <1>1, DbParts
<1>3. \A r, q \in db.refresh : r.id \in DOMAIN tokens /\ tokens[r.id].user = r.user /\ (r.id = q.id => r = q)
  <2>1. \A r \in db.refresh : r.id \in Jtis(N) BY DbParts DEF RefreshType
  <2> QED BY <1>1, <2>1 DEF RefreshInv, TokensUnique
<1>4. \A s \in Servers :
        /\ server[s].stage \in {"down", "inserting", "up"} /\ server[s].revoked \subseteq DOMAIN tokens
        /\ \A c \in Senders : LET b == server[s].bucket[c] IN b # None => b.count \in 1 .. scenario.limit
  <2> SUFFICES ASSUME NEW s \in Servers
               PROVE  /\ server[s].stage \in {"down", "inserting", "up"} /\ server[s].revoked \subseteq DOMAIN tokens
                      /\ \A c \in Senders : LET b == server[s].bucket[c] IN b # None => b.count \in 1 .. scenario.limit
    OBVIOUS
  <2>1. server[s].stage \in {"down", "inserting", "up"} /\ server[s].revoked \subseteq DOMAIN tokens
    BY <1>1, ServerParts
  <2>2. \A c \in Senders : LET b == server[s].bucket[c] IN b # None => b.count \in 1 .. scenario.limit
    BY RateFollows
  <2> QED BY <2>1, <2>2
<1>5. \A c \in Clients : {client[c].access, client[c].refresh} \subseteq DOMAIN tokens \cup {None}
  BY <1>1, ClientParts
<1>6. \A t \in Tabs : /\ tab[t].token \in DOMAIN tokens \cup {None} /\ tab[t].asks \in Nat
                      /\ tab[t].path \in {"page", "login", "register"}
  BY <1>1, TabParts
<1> QED BY <1>2, <1>3, <1>4, <1>5, <1>6 DEF TypeOK

(* However a sender times its requests, and however many processes crash   *)
(* and restart, no process accepts 2 * limit or more of them within one    *)
(* Window: a counter that starts again cannot join two full windows.       *)
THEOREM RatesAreBounded == Spec => []RateBounded
<1>1. Init => Basic /\ RateInv BY InitBasic, RateBegins
<1>2. Basic /\ RateInv /\ [Next]_vars => (Basic /\ RateInv)'
  BY StepKinds, RatesKept DEF Basic
<1>3. Basic /\ RateInv => RateBounded BY RateFollows DEF Basic
<1> QED BY <1>1, <1>2, <1>3, PTL DEF Spec

(* Every refresh token is exchanged at most once; a client whose answers   *)
(* arrived can go on with the token it holds unless a logout ended it; a   *)
(* password, once registered, stays that of its account whatever runs at   *)
(* the same time; and every record refers to tokens that were issued.      *)
THEOREM SessionsAreKept == Spec => []SessionsKept
<1> DEFINE IInv == Basic /\ RefreshInv /\ SessionInv /\ PasswordInv /\ RateInv
<1>1. Init => IInv BY InitBasic, RefreshBegins, SessionBegins, PasswordBegins, RateBegins
<1>2. IInv /\ [Next]_vars => IInv'
  <2> SUFFICES ASSUME IInv, [Next]_vars PROVE IInv'
    OBVIOUS
  <2>1. Basic' BY StepKinds DEF Basic
  <2> QED BY <2>1, RefreshKept, SessionSteps, PasswordsKept, RatesKept
<1>3. IInv => SessionsKept
  <2> SUFFICES ASSUME IInv PROVE SessionsKept
    OBVIOUS
  <2>1. TypeOK BY TypeFollows DEF Basic
  <2>2. SessionKept BY SessionFollows
  <2> QED BY <2>1, <2>2 DEF SessionsKept, RefreshInv, PasswordInv
<1> HIDE DEF IInv
<1> QED BY <1>1, <1>2, <1>3, PTL DEF Spec
=============================================================================
