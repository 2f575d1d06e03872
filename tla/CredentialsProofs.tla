------------------------- MODULE CredentialsProofs -------------------------
(***************************************************************************)
(* What is proved of Credentials for every value of its constants: any     *)
(* number of server processes and requests, any scenario.  Init implies an *)
(* inductive invariant and every action keeps it.  The invariant says,     *)
(* besides the types,                                                      *)
(*                                                                         *)
(*   - which steps a request, a seeding or a migration may be at, and the  *)
(*     stage of its process;                                               *)
(*   - that Vault has the secrets a row refers to, and those of a write    *)
(*     that is about to refer to them;                                     *)
(*   - that a process that has migrated leaves no secrets in the rows;     *)
(*   - whose the values are, wherever they are: rows, Vault, requests, a   *)
(*     migration and the page;                                             *)
(*   - what a save that is alone at its key has at each of its steps, and  *)
(*     that what is stored is what is expected but while a save is between *)
(*     its first write and its end.                                        *)
(***************************************************************************)
EXTENDS Credentials, FiniteSetTheorems, SequenceTheorems, TLAPS

-----------------------------------------------------------------------------
(* The types. *)
Actors == Slots \cup Servers
Ops == {"put", "get", "callback", "disconnect", "seed", "list"}
Pcs == {"idle", "read", "load", "save", "write", "audit", "answered", "failed"}
Stages == {"down", "selecting", "migrating", "building", "seeding", "up", "stopped"}
RefType == [kind : Backends, secrets : Secrets]
RowType == [config : Configs, ref : RefType \cup {None}]
DbType == [rows : [Keys -> RowType \cup {None}], vault : [Keys -> Secrets \cup {None}]]
PatchType == [config : Configs \cup {None}, secrets : Secrets \cup {None}]
MoveType == [key : Keys, secrets : Secrets]
ServerType == [stage : Stages, backend : Backends, todo : SUBSET MoveType, moving : SUBSET MoveType,
               seeds : SUBSET Providers]
TaskType == [pc : Pcs, op : Ops \cup {None}, server : Servers \cup {None}, key : Keys \cup {None},
             patch : PatchType, from : {"api", "tab", "start-up"} \cup {None}, checked : BOOLEAN,
             credential : Credentials, items : SUBSET Providers, since : Nat \cup {None}]
FlowType == [subject : Subjects, exp : Nat, token : Nat, at : Nat]
WantType == [op : {"get", "put", "list", "disconnect"}, provider : Providers, patch : PatchType]
TabType == [open : BOOLEAN, provider : Providers, late : BOOLEAN, form : Forms, draft : Credentials,
            email : BOOLEAN, items : SUBSET Providers, listed : Nat \cup {None}, wants : SUBSET WantType,
            busy : BOOLEAN, edited : BOOLEAN, failed : BOOLEAN, since : Nat \cup {None}]
HistoryType == [writes : Nat, mixed : BOOLEAN, clean : [Keys -> BOOLEAN], version : [Keys -> Nat],
                expect : [Keys -> SUBSET Credentials]]

TypeInv ==
  /\ scenario \in Scenario
  /\ db \in DbType
  /\ server \in [Servers -> ServerType]
  /\ task \in [Actors -> TaskType]
  /\ flow \in Seq(FlowType)
  /\ tab \in TabType
  /\ time \in Nat /\ time <= MaxTime
  /\ history \in HistoryType

-----------------------------------------------------------------------------
(* What is under way: requests at processes that serve, the seeding of a   *)
(* process at itself; a migration has the secrets of rows to move. *)
Fits(a, t) ==
  /\ t.pc \notin {"idle", "answered", "failed"} =>
       /\ t.server \in Servers /\ t.op \in Writing \cup {"get"}
       /\ t.pc \in {"save", "write", "audit"} => t.op \in Writing /\ (t.op = "seed" => t.checked)
       /\ t.pc = "read" => t.op = "seed" /\ t.checked
       /\ a \in Slots => server[t.server].stage = "up" /\ t.op # "seed"
       /\ a \in Servers => t.server = a /\ t.op = "seed"
  /\ t.pc # "idle" => t.key \in Keys /\ (a \in Servers => server[a].stage = "seeding")
Ready(r) ==
  /\ r.stage # "migrating" => r.todo = {}
  /\ r.moving \subseteq r.todo /\ \A x, y \in r.moving : x = y
  /\ r.stage = "seeding" => r.seeds # {}
  /\ r.stage \in {"selecting", "migrating"} => r.backend = "vault"
WorkInv == (\A a \in Actors : Fits(a, task[a])) /\ \A s \in Servers : Ready(server[s])

-----------------------------------------------------------------------------
(* What Vault has: the secrets that a row refers to, and those of a save   *)
(* or of a migration that is about to write such a row. *)
RowKept(key) ==
  /\ db.vault[key] # NoSecrets
  /\ db.rows[key] # None /\ db.rows[key].ref # None =>
       IF db.rows[key].ref.kind = "vault" THEN db.rows[key].ref = InVault ELSE db.rows[key].ref.secrets # NoSecrets
TaskKept(t) ==
  /\ t.pc = "save" => t.credential.secrets # NoSecrets /\ server[t.server].backend = "vault"
  /\ t.pc = "write" /\ server[t.server].backend = "vault" /\ t.credential.secrets # NoSecrets =>
       db.vault[t.key] # None
ServerKept(r) ==
  /\ \A x \in r.todo : x.secrets # NoSecrets /\ db.rows[x.key] # None
  /\ \A x \in r.moving : db.vault[x.key] # None
VaultInv ==
  /\ ReferencesHold
  /\ \A key \in Keys : RowKept(key)
  /\ \A a \in Actors : TaskKept(task[a])
  /\ \A s \in Servers : ServerKept(server[s])

(* A process that has migrated leaves no secrets in the rows; the others   *)
(* write none. *)
Plain(key) == db.rows[key] # None /\ db.rows[key].ref # None /\ db.rows[key].ref.kind = "encrypted"
Vaulted == scenario.backends = {"vault"} /\ scenario.migrates
Moved(r) ==
  /\ r.stage # "down" => r.backend = "vault" /\ r.stage # "building"
  /\ r.stage = "migrating" => \A key \in Keys : Plain(key) => \E x \in r.todo : x.key = key
  /\ r.stage \in {"seeding", "up"} => \A key \in Keys : ~Plain(key)
MovedInv == Vaulted => \A s \in Servers : Moved(server[s])

-----------------------------------------------------------------------------
(* What a consent brought belongs to who asked for it, wherever it is. *)
Held(v, subject) ==
  v = None \/ /\ v.by <= history.writes
              /\ \A f \in DOMAIN flow : flow[f].token # 0 /\ flow[f].token = v.by => flow[f].subject = subject
HeldConfig(c, subject) == \A k \in ConfigNames : Held(c[k], subject)
HeldSecrets(c, subject) == \A k \in SecretNames : Held(c[k], subject)
HeldBy(c, subject) == HeldConfig(c.config, subject) /\ HeldSecrets(c.secrets, subject)
HeldPatch(c, subject) == /\ c.config = None \/ HeldConfig(c.config, subject)
                         /\ c.secrets = None \/ HeldSecrets(c.secrets, subject)
EnvHeld == \A p \in Providers : \A setting \in Settings[p] : scenario.env[setting] \in First0(p)
FlowHeld == \A f \in DOMAIN flow : flow[f].token <= history.writes /\ (flow[f].token # 0 => flow[f].at <= flow[f].exp)
RowHeld(key) ==
  /\ db.rows[key] # None => /\ HeldConfig(db.rows[key].config, key[1])
                            /\ db.rows[key].ref # None => HeldSecrets(db.rows[key].ref.secrets, key[1])
  /\ db.vault[key] # None => HeldSecrets(db.vault[key], key[1])
ServerHeld(r) == \A x \in r.todo : HeldSecrets(x.secrets, x.key[1])
TaskHeld(t) ==
  t.key \in Keys => /\ HeldBy(t.credential, t.key[1]) /\ HeldPatch(t.patch, t.key[1])
                    /\ t.from = "tab" => t.key[1] = User
TabHeld ==
  /\ \A k \in FieldKeys : Held(tab.form[k], User)
  /\ HeldBy(tab.draft, User)
  /\ \A w \in tab.wants : HeldPatch(w.patch, User)
OwnerInv ==
  /\ EnvHeld /\ FlowHeld /\ TabHeld
  /\ \A key \in Keys : RowHeld(key)
  /\ \A s \in Servers : ServerHeld(server[s])
  /\ \A a \in Actors : TaskHeld(task[a])

-----------------------------------------------------------------------------
(* A value is written for a provider. *)
For(v, p) == v = None \/ v.for = p
ConfigOf(c, p) == \A k \in ConfigNames : For(c[k], p)
SecretsOf(c, p) == \A k \in SecretNames : For(c[k], p)
PatchOf(c, p) == /\ c.config = None \/ ConfigOf(c.config, p)
                 /\ c.secrets = None \/ SecretsOf(c.secrets, p)

-----------------------------------------------------------------------------
(* The order of the saves.  A save that began while no other was under way *)
(* and that no other joined makes what it would make alone; what is stored *)
(* is what is expected but while a save is past its first write. *)
Writes(t, key) == t.pc \notin {"idle", "answered", "failed"} /\ t.op \in Writing /\ t.key = key
Reads(t, key) == t.op = "get" /\ t.pc \notin {"idle", "failed"} /\ t.key = key
MovesAt(s, key) == \E x \in server[s].moving : x.key = key
Disturbed(key) ==
  \/ \E a \in Actors : Writes(task[a], key) /\ task[a].pc \in {"write", "audit"}
  \/ ~history.clean[key] /\ \E s \in Servers : MovesAt(s, key)

(* at most one writer of a key that is clean, and one credential expected *)
Alone(key) ==
  /\ \A c, d \in history.expect[key] : c = d
  /\ history.clean[key] => \A a, b \in Writers(key) : a = b
  /\ \A s \in Servers : \A x, y \in server[s].todo : x.key = key /\ y.key = key => x = y
StoredAs(key) == \A c \in history.expect[key] : Current(key) = c \/ Disturbed(key)

(* a save, at each of its steps, alone *)
Overwrites(t) == Whole(t.patch) /\ t.op # "seed"
InVaultAt(key) == db.rows[key] # None /\ db.rows[key].ref = InVault
Makes(t, key, c) ==
  /\ t.op = "seed" /\ t.checked => c.secrets = NoSecrets
  /\ t.pc = "load" => t.credential.config = c.config /\ InVaultAt(key)
  /\ t.pc \in {"save", "write"} => t.credential = Effect(t, c)
  /\ t.pc = "audit" => Current(key) = Effect(t, c)
Orderly(t, key) ==
  /\ t.pc = "write" /\ t.credential.secrets # NoSecrets /\ server[t.server].backend = "vault" =>
       db.vault[key] = t.credential.secrets
  /\ t.pc = "audit" /\ Overwrites(t) => Current(key) = t.patch
  /\ \A c \in history.expect[key] : Makes(t, key, c)
SavedAs(t, key) ==
  /\ t.pc \in {"save", "write"} /\ Overwrites(t) => t.credential = t.patch
  /\ history.clean[key] => Orderly(t, key)

(* a secret that is moved, alone *)
MovedAs(s, x) ==
  history.clean[x.key] =>
    /\ db.rows[x.key] # None /\ db.rows[x.key].ref = Encrypted(x.secrets)
    /\ x \in server[s].moving => db.vault[x.key] = x.secrets

(* a read that no write overlapped *)
Finds(t, key, c) ==
  /\ t.pc = "load" => Disturbed(key) \/ (t.credential.config = c.config /\ InVaultAt(key))
  /\ t.pc = "answered" => t.credential = c \/ Disturbed(key)
ReadAs(t, key) ==
  /\ t.since # None => t.since <= history.version[key]
  /\ t.since = history.version[key] => \A c \in history.expect[key] : Finds(t, key, c)

Ordered(key) ==
  /\ Alone(key) /\ StoredAs(key)
  /\ \A a \in Actors : Writes(task[a], key) => SavedAs(task[a], key)
  /\ \A s \in Servers : \A x \in server[s].todo : x.key = key => MovedAs(s, x)
  /\ \A h \in Slots : Reads(task[h], key) => ReadAs(task[h], key)
OrderInv == \A key \in Keys : Ordered(key)

-----------------------------------------------------------------------------
(* What is stored, typed. *)
LEMMA Names ==
  /\ NoSecrets \in Secrets /\ NoConfig \in Configs /\ NoCredential \in Credentials
  /\ NoForm \in Forms
BY DEF NoSecrets, NoConfig, NoCredential, Secrets, Configs, Credentials, NoForm, Forms

LEMMA ActorsSplit == \A a \in Actors : a \in Slots <=> a \notin Servers
BY ActorsAssumption DEF Actors

LEMMA RefFacts ==
  ASSUME NEW b \in Backends, NEW x \in Secrets
  PROVE  /\ Ref(b, x) \in RefType \cup {None}
         /\ Ref(b, x) = None <=> x = NoSecrets
         /\ Ref(b, x) # None => IF b = "vault" THEN Ref(b, x) = InVault
                                ELSE Ref(b, x) = Encrypted(x)
<1>1. InVault \in RefType /\ Encrypted(x) \in RefType
  BY Names DEF InVault, Encrypted, RefType, Backends
<1>2. InVault # None /\ Encrypted(x) # None BY <1>1, NoneAssumption DEF RefType
<1> QED BY <1>1, <1>2 DEF Ref

LEMMA RowTyped ==
  ASSUME TypeInv, NEW key \in Keys
  PROVE  /\ db.rows[key] # None => /\ db.rows[key] \in RowType
                                   /\ db.rows[key].ref # None => db.rows[key].ref \in RefType
         /\ db.vault[key] # None => db.vault[key] \in Secrets
BY DEF TypeInv, DbType, RowType

LEMMA CurrentFacts ==
  ASSUME TypeInv, VaultInv, NEW key \in Keys
  PROVE  /\ Current(key) \in Credentials
         /\ db.rows[key] = None => Current(key) = NoCredential
         /\ db.rows[key] # None => Current(key).config = db.rows[key].config
         /\ db.rows[key] # None /\ db.rows[key].ref = None => Current(key).secrets = NoSecrets
         /\ db.rows[key] # None /\ db.rows[key].ref # None =>
              /\ Current(key).secrets # NoSecrets
              /\ IF db.rows[key].ref.kind = "vault"
                 THEN db.rows[key].ref = InVault /\ Current(key).secrets = db.vault[key]
                      /\ db.vault[key] \in Secrets
                 ELSE db.rows[key].ref = Encrypted(Current(key).secrets)
<1>1. CASE db.rows[key] = None BY <1>1, Names DEF Current
<1>2. CASE db.rows[key] # None /\ db.rows[key].ref = None
  <2>1. db.rows[key].config \in Configs BY <1>2, RowTyped DEF RowType
  <2> QED BY <1>2, <2>1, Names DEF Current, Credentials
<1>3. CASE db.rows[key] # None /\ db.rows[key].ref # None
  <2>1. db.rows[key].config \in Configs /\ db.rows[key].ref \in RefType BY <1>3, RowTyped DEF RowType
  <2>2. CASE db.rows[key].ref.kind = "vault"
    <3>1. db.rows[key].ref = InVault /\ db.vault[key] # None /\ db.vault[key] # NoSecrets
      BY <1>3, <2>2 DEF VaultInv, ReferencesHold, RowKept
    <3>2. db.vault[key] \in Secrets BY <3>1, RowTyped
    <3> QED BY <1>3, <2>1, <2>2, <3>1, <3>2 DEF Current, Credentials
  <2>3. CASE db.rows[key].ref.kind # "vault"
    <3>1. db.rows[key].ref.kind = "encrypted" /\ db.rows[key].ref.secrets \in Secrets
          /\ db.rows[key].ref = Encrypted(db.rows[key].ref.secrets)
      BY <2>1, <2>3 DEF RefType, Backends, Encrypted
    <3>2. db.rows[key].ref.secrets # NoSecrets BY <1>3, <2>3 DEF VaultInv, RowKept
    <3> QED BY <1>3, <2>1, <2>3, <3>1, <3>2 DEF Current, Credentials
  <2> QED BY <2>2, <2>3
<1> QED BY <1>1, <1>2, <1>3

LEMMA MergedFacts ==
  ASSUME NEW c \in Credentials, NEW p \in PatchType
  PROVE  /\ Merged(c, p) \in Credentials
         /\ Whole(p) => Merged(c, p) = p
BY NoneAssumption DEF Merged, Credentials, PatchType, Whole

-----------------------------------------------------------------------------
(* A request goes on from what it has read. *)
Same(t, u) ==
  /\ u.op = t.op /\ u.server = t.server /\ u.key = t.key /\ u.patch = t.patch
  /\ u.from = t.from /\ u.items = t.items /\ u.since = t.since
Follows(t, u, c) ==
  /\ u \in TaskType /\ Same(t, u)
  /\ u.pc \in {"answered", "read", "save", "write"}
  /\ u.pc = "answered" => /\ u.credential = c
                          /\ t.op = "get" \/ (t.op = "seed" /\ ~t.checked /\ c.secrets # NoSecrets)
  /\ u.pc = "read" => t.op = "seed" /\ u.checked /\ c.secrets = NoSecrets /\ u.credential = c
  /\ u.pc \in {"save", "write"} =>
       /\ t.op # "get" /\ (t.op = "seed" => t.checked) /\ u.checked = t.checked
       /\ u.credential = Merged(c, t.patch)
  /\ u.pc = "save" => u.credential.secrets # NoSecrets /\ server[t.server].backend = "vault"
  /\ u.pc = "write" => ~(u.credential.secrets # NoSecrets /\ server[t.server].backend = "vault")

Resume(t, d, pc) == [t EXCEPT !.credential = d, !.pc = pc]
Repace(t, pc) == [t EXCEPT !.pc = pc]

LEMMA Resumed ==
  ASSUME NEW t \in TaskType, NEW d \in Credentials, NEW pc \in Pcs
  PROVE  LET u == Resume(t, d, pc)
         IN u \in TaskType /\ Same(t, u) /\ u.pc = pc /\ u.credential = d /\ u.checked = t.checked
BY DEF TaskType, Same, Resume

LEMMA Repaced ==
  ASSUME NEW t \in TaskType, NEW pc \in Pcs
  PROVE  LET u == Repace(t, pc)
         IN u \in TaskType /\ Same(t, u) /\ u.pc = pc /\ u.credential = t.credential /\ u.checked = t.checked
BY DEF TaskType, Same, Repace

LEMMA SavingFollows ==
  ASSUME NEW t \in TaskType, NEW c \in Credentials, NEW pc \in {"save", "write"},
         t.op # "get", t.op = "seed" => t.checked,
         pc = "save" <=> Merged(c, t.patch).secrets # NoSecrets /\ server[t.server].backend = "vault"
  PROVE  Follows(t, Resume(t, Merged(c, t.patch), pc), c)
<1>1. pc \in Pcs BY DEF Pcs
<1>2. Merged(c, t.patch) \in Credentials BY MergedFacts DEF TaskType
<1>3. PICK u : u = Resume(t, Merged(c, t.patch), pc) OBVIOUS
<1>4. u \in TaskType /\ Same(t, u) /\ u.pc = pc /\ u.credential = Merged(c, t.patch) /\ u.checked = t.checked
  BY <1>1, <1>2, <1>3, Resumed
<1> QED BY <1>3, <1>4 DEF Follows

LEMMA ContinuedFollows ==
  ASSUME NEW t \in TaskType, NEW x \in Secrets
  PROVE  Follows(t, Continued(t, x), [config |-> t.credential.config, secrets |-> x])
<1> DEFINE read == [config |-> t.credential.config, secrets |-> x]
<1> DEFINE found == [t.credential EXCEPT !.secrets = x]
<1> DEFINE looks == t.op = "seed" /\ ~t.checked
<1>1. found = read /\ read \in Credentials BY DEF TaskType, Credentials
<1>3. CASE t.op = "get" \/ (looks /\ x # NoSecrets)
  <2>1. Continued(t, x) = [t EXCEPT !.credential = read, !.pc = "answered"] BY <1>1, <1>3 DEF Continued
  <2>2. PICK u : u = Continued(t, x) OBVIOUS
  <2>3. u.pc = "answered" /\ u.credential = read /\ Same(t, u) BY <2>1, <2>2 DEF Same, TaskType
  <2>4. u \in TaskType BY <1>1, <2>1, <2>2 DEF TaskType, Pcs
  <2> QED BY <1>3, <2>2, <2>3, <2>4 DEF Follows
<1>4. CASE ~(t.op = "get" \/ (looks /\ x # NoSecrets)) /\ looks
  <2>1. Continued(t, x) = [t EXCEPT !.credential = read, !.pc = "read", !.checked = TRUE]
    BY <1>1, <1>4 DEF Continued
  <2> QED BY <1>1, <1>4, <2>1 DEF Follows, Same, TaskType, Pcs
<1>5. CASE ~(t.op = "get" \/ (looks /\ x # NoSecrets)) /\ ~looks
  <2>1. PICK d : d = read OBVIOUS
  <2>2. PICK q : q = IF Merged(d, t.patch).secrets # NoSecrets /\ server[t.server].backend = "vault"
                     THEN "save" ELSE "write"
    OBVIOUS
  <2>3. /\ q \in {"save", "write"}
        /\ q = "save" <=> Merged(d, t.patch).secrets # NoSecrets /\ server[t.server].backend = "vault"
    BY <2>2
  <2>4. Continued(t, x) = Resume(t, Merged(d, t.patch), q)
    BY <1>1, <1>5, <2>1, <2>2 DEF Continued, Resume
  <2>5. d \in Credentials BY <1>1, <2>1
  <2>6. Follows(t, Resume(t, Merged(d, t.patch), q), d)
    <3>1. t.op # "get" /\ (t.op = "seed" => t.checked) BY <1>5
    <3> HIDE DEF looks
    <3> QED BY <2>3, <2>5, <3>1, SavingFollows
  <2> QED BY <2>1, <2>4, <2>6
<1> QED BY <1>3, <1>4, <1>5

(* or waits for Vault, or cannot read it *)
Waits(t, u) ==
  /\ u \in TaskType /\ Same(t, u) /\ u.checked = t.checked
  /\ u.pc \in {"load", "failed"}
  /\ db.rows[t.key] # None /\ db.rows[t.key].ref = InVault
  /\ u.credential = [config |-> Current(t.key).config, secrets |-> t.credential.secrets]
  /\ u.pc = "load" <=> server[t.server].backend = "vault"

LEMMA FetchedFollows ==
  ASSUME NEW t \in TaskType, NEW u \in TaskType, Same(t, u), u.checked = t.checked,
         NEW c \in Credentials, u.credential.config = c.config
  PROVE  Follows(t, Continued(u, c.secrets), c)
<1>1. c.secrets \in Secrets /\ [config |-> u.credential.config, secrets |-> c.secrets] = c
  BY DEF Credentials
<1>2. Follows(u, Continued(u, c.secrets), c) BY <1>1, ContinuedFollows
<1>3. PICK v : v = Continued(u, c.secrets) OBVIOUS
<1>4. Follows(u, v, c) BY <1>2, <1>3
<1>5. Follows(t, v, c) BY <1>4 DEF Follows, Same
<1> QED BY <1>3, <1>5

LEMMA FetchedFacts ==
  ASSUME TypeInv, VaultInv, NEW t \in TaskType, t.key \in Keys
  PROVE  Follows(t, Fetched(t), Current(t.key)) \/ Waits(t, Fetched(t))
<1>0. PICK row : row = db.rows[t.key] OBVIOUS
<1>1. PICK u : u = [t EXCEPT !.credential = IF row = None THEN NoCredential ELSE [@ EXCEPT !.config = row.config]]
  OBVIOUS
<1>2. PICK c \in Credentials : c = Current(t.key) BY CurrentFacts
<1>3. /\ u \in TaskType /\ Same(t, u) /\ u.checked = t.checked /\ u.credential.config = c.config
      /\ row # None => u.credential = [config |-> c.config, secrets |-> t.credential.secrets]
  <2>1. CASE row = None
    <3>1. c = NoCredential BY <1>0, <1>2, <2>1, CurrentFacts
    <3> QED BY <1>1, <2>1, <3>1, Names DEF TaskType, Same
  <2>2. CASE row # None
    <3>1. row.config \in Configs /\ c.config = row.config
      BY <1>0, <1>2, <2>2, RowTyped, CurrentFacts DEF RowType
    <3>2. PICK d \in Credentials : d = [t.credential EXCEPT !.config = row.config]
      BY <3>1 DEF TaskType, Credentials
    <3>3. u = [t EXCEPT !.credential = d] BY <1>1, <2>2, <3>2
    <3>4. u \in TaskType /\ Same(t, u) /\ u.checked = t.checked /\ u.credential = d
      BY <3>3 DEF TaskType, Same
    <3>5. d.config = c.config /\ d = [config |-> c.config, secrets |-> t.credential.secrets]
      BY <3>1, <3>2 DEF TaskType, Credentials
    <3> QED BY <3>4, <3>5
  <2> QED BY <2>1, <2>2
<1>4. CASE row = None \/ row.ref = None
  <2>1. Fetched(t) = Continued(u, NoSecrets) BY <1>0, <1>1, <1>4 DEF Fetched
  <2>2. c.secrets = NoSecrets BY <1>0, <1>2, <1>4, CurrentFacts DEF NoCredential
  <2> QED BY <1>2, <1>3, <2>1, <2>2, FetchedFollows
<1>5. CASE row # None /\ row.ref # None /\ row.ref.kind = "encrypted"
  <2>1. Fetched(t) = Continued(u, row.ref.secrets) BY <1>0, <1>1, <1>5 DEF Fetched
  <2>2. c.secrets = row.ref.secrets
    <3>1. row.ref = Encrypted(c.secrets) BY <1>0, <1>2, <1>5, CurrentFacts
    <3> QED BY <3>1 DEF Encrypted
  <2> QED BY <1>2, <1>3, <2>1, <2>2, FetchedFollows
<1>6. CASE row # None /\ row.ref # None /\ row.ref.kind # "encrypted"
  <2>1. PICK pc : pc = IF server[t.server].backend = "vault" THEN "load" ELSE "failed" OBVIOUS
  <2>2. Fetched(t) = Repace(u, pc) BY <1>0, <1>1, <1>6, <2>1 DEF Fetched, Repace
  <2>3. row.ref.kind = "vault" BY <1>0, <1>6, RowTyped DEF RefType, Backends
  <2>4. row.ref = InVault BY <1>0, <1>6, <2>3, CurrentFacts
  <2>5. pc \in {"load", "failed"} /\ pc \in Pcs /\ (pc = "load" <=> server[t.server].backend = "vault")
    BY <2>1 DEF Pcs
  <2>6. PICK v : v = Repace(u, pc) OBVIOUS
  <2>7. v \in TaskType /\ Same(u, v) /\ v.pc = pc /\ v.credential = u.credential /\ v.checked = u.checked
    BY <1>3, <2>5, <2>6, Repaced
  <2>8. Same(t, v) /\ v.checked = t.checked BY <1>3, <2>7 DEF Same
  <2>9. Waits(t, v) BY <1>0, <1>2, <1>3, <1>6, <2>4, <2>5, <2>7, <2>8 DEF Waits
  <2> QED BY <2>2, <2>6, <2>9
<1> QED BY <1>4, <1>5, <1>6

-----------------------------------------------------------------------------
(* What is written, typed. *)
LEMMA FieldFacts ==
  \A p \in Providers : \A f \in Fields[p] :
    /\ f.at.key \in FieldKeys
    /\ f.at = f.places[1]
    /\ \/ f.places = <<f.places[1]>> /\ f.places[1] \in AllPlaces
       \/ f.places = <<f.places[1], f.places[2]>> /\ f.places[1] \in AllPlaces /\ f.places[2] \in AllPlaces
<1> TAKE p \in Providers
<1>1. CASE p = "stripe" BY <1>1 DEF Fields, Field, FieldKeys, AllPlaces, Sec, Cfg, ConfigNames, SecretNames
<1>2. CASE p = "twilio" BY <1>2 DEF Fields, Field, FieldKeys, AllPlaces, Sec, Cfg, ConfigNames, SecretNames
<1>3. CASE p = "kyc" BY <1>3 DEF Fields, Field, FieldKeys, AllPlaces, Sec, Cfg, ConfigNames, SecretNames
<1>4. CASE p = "notifications"
  BY <1>4 DEF Fields, Field, FieldKeys, AllPlaces, Sec, Cfg, ConfigNames, SecretNames
<1>5. CASE p = "google_sheets" BY <1>5 DEF Fields
<1> QED BY <1>1, <1>2, <1>3, <1>4, <1>5 DEF Providers

(* a value of a credential, and where it was *)
In(v, c) == (\E k \in ConfigNames : v = c.config[k]) \/ (\E k \in SecretNames : v = c.secrets[k])

LEMMA AtFacts ==
  ASSUME NEW c \in Credentials, NEW q \in AllPlaces
  PROVE  At(c, q) \in Values \cup {None} /\ In(At(c, q), c)
<1>1. CASE \E k \in ConfigNames : q = Cfg(k)
  BY <1>1 DEF At, Cfg, Credentials, Configs, In
<1>2. CASE \E k \in SecretNames : q = Sec(k)
  BY <1>2 DEF At, Sec, Credentials, Secrets, In
<1> QED BY <1>1, <1>2 DEF AllPlaces

LEMMA FormFacts ==
  ASSUME NEW p \in Providers, NEW c \in Credentials
  PROVE  /\ FormOf(p, c) \in Forms
         /\ \A k \in FieldKeys : FormOf(p, c)[k] = None \/ In(FormOf(p, c)[k], c)
<1>1. ASSUME NEW k \in FieldKeys
      PROVE  FormOf(p, c)[k] \in Values \cup {None} /\ (FormOf(p, c)[k] = None \/ In(FormOf(p, c)[k], c))
  <2>1. CASE Shows(p, k)
    <3>1. PICK f \in Fields[p] : f = CHOOSE g \in Fields[p] : g.at.key = k BY <2>1 DEF Shows
    <3>2. FormOf(p, c)[k] = First(c, f.places) BY <2>1, <3>1 DEF FormOf
    <3>3. CASE f.places = <<f.places[1]>> /\ f.places[1] \in AllPlaces
      <4>1. PICK q \in AllPlaces : q = f.places[1] BY <3>3
      <4>2. f.places = <<q>> BY <3>3, <4>1
      <4>3. First(c, <<q>>) = At(c, q) \/ First(c, <<q>>) = None BY DEF First
      <4> QED BY <3>2, <4>2, <4>3, AtFacts
    <3>4. CASE f.places = <<f.places[1], f.places[2]>> /\ f.places[1] \in AllPlaces /\ f.places[2] \in AllPlaces
      <4>1. PICK q \in AllPlaces : q = f.places[1] BY <3>4
      <4>2. PICK r \in AllPlaces : r = f.places[2] BY <3>4
      <4>3. f.places = <<q, r>> BY <3>4, <4>1, <4>2
      <4>4. First(c, <<q, r>>) \in {At(c, q), At(c, r), None} BY DEF First
      <4> QED BY <3>2, <4>3, <4>4, AtFacts
    <3> QED BY <3>3, <3>4, FieldFacts
  <2>2. CASE ~Shows(p, k) BY <2>2 DEF FormOf
  <2> QED BY <2>1, <2>2
<1>2. FormOf(p, c) \in Forms BY <1>1 DEF Forms, FormOf
<1> QED BY <1>1, <1>2

LEMMA SavedFacts ==
  ASSUME NEW p \in Providers, NEW form \in Forms
  PROVE  /\ Saved(p, form) \in Credentials
         /\ \A k \in ConfigNames : \/ Saved(p, form).config[k] = None
                                   \/ \E j \in FieldKeys : Saved(p, form).config[k] = form[j]
         /\ \A k \in SecretNames : \/ Saved(p, form).secrets[k] = None
                                   \/ \E j \in FieldKeys : Saved(p, form).secrets[k] = form[j]
<1> DEFINE shown(q) == IF \E f \in Fields[p] : f.at = q THEN form[q.key] ELSE None
<1>1. \A q : shown(q) \in Values \cup {None} /\ (shown(q) = None \/ \E j \in FieldKeys : shown(q) = form[j])
  BY FieldFacts DEF Forms
<1>2. Saved(p, form) = [config |-> [k \in ConfigNames |-> shown(Cfg(k))],
                        secrets |-> [k \in SecretNames |-> shown(Sec(k))]]
  BY DEF Saved
<1> HIDE DEF shown
<1> QED BY <1>1, <1>2 DEF Credentials, Configs, Secrets

LEMMA WrittenFacts ==
  ASSUME NEW p \in Providers, NEW n \in Nat, NEW b \in BOOLEAN, NEW d \in BOOLEAN
  PROVE  LET c == Written(p, n, b, d)
         IN /\ c \in PatchType
            /\ c.config = None \/ \A k \in ConfigNames : c.config[k] = None \/ c.config[k].by = n
            /\ c.secrets = None \/ \A k \in SecretNames : c.secrets[k] = None \/ c.secrets[k].by = n
            /\ PatchOf(c, p)
<1>0. Value(n, p, TRUE) \in Values /\ Value(n, p, TRUE).by = n /\ Value(n, p, TRUE).for = p BY DEF Value, Values
<1>1. PICK v \in Values : v = Value(n, p, TRUE) /\ v.by = n /\ v.for = p BY <1>0
<1>2. PICK keys : keys = [place \in {"config", "secrets"} |-> {y \in Settings[p] : Places[y][1].place = place}]
  OBVIOUS
<1>3. PICK cs \in Configs : cs = [x \in ConfigNames |-> IF x \in keys["config"] THEN v ELSE None]
  BY DEF Configs
<1>4. PICK ss \in Secrets : ss = [x \in SecretNames |-> IF x \in keys["secrets"] THEN v ELSE None]
  BY DEF Secrets
<1>5. Written(p, n, b, d) = [config |-> IF b THEN cs ELSE None, secrets |-> IF d THEN ss ELSE None]
  BY <1>1, <1>2, <1>3, <1>4 DEF Written
<1>6. /\ \A k \in ConfigNames : cs[k] = None \/ cs[k].by = n
      /\ \A k \in SecretNames : ss[k] = None \/ ss[k].by = n
  BY <1>1, <1>3, <1>4
<1>7. ConfigOf(cs, p) /\ SecretsOf(ss, p) BY <1>1, <1>3, <1>4 DEF ConfigOf, SecretsOf, For
<1>8. PatchOf(Written(p, n, b, d), p) BY <1>5, <1>7 DEF PatchOf
<1> QED BY <1>5, <1>6, <1>8 DEF PatchType

LEMMA OauthFacts ==
  /\ Disconnected \in Credentials /\ Disconnected \in PatchType /\ Whole(Disconnected)
  /\ Disconnected.secrets = NoSecrets
  /\ \A k \in ConfigNames : Disconnected.config[k] = None \/ Disconnected.config[k].by = 0
  /\ NoPatch \in PatchType /\ NoPatch.config = None /\ NoPatch.secrets = None
  /\ PatchOf(Disconnected, "google_sheets") /\ \A p : PatchOf(NoPatch, p)
  /\ Disconnected.config.connectedEmail = None
  /\ \A n \in Nat : PatchOf(Consented(n), "google_sheets")
  /\ \A n \in Nat : /\ Consented(n) \in Credentials /\ Consented(n) \in PatchType
                    /\ \A k \in ConfigNames : Consented(n).config[k] = None \/ Consented(n).config[k].by = n
                    /\ \A k \in SecretNames : Consented(n).secrets[k] = None \/ Consented(n).secrets[k].by = n
<1>1. \A n \in Nat : Value(n, "google_sheets", TRUE) \in Values /\ Value(n, "google_sheets", TRUE).by = n
                   /\ Value(n, "google_sheets", TRUE).for = "google_sheets"
  BY DEF Value, Values, Providers
<1>2. Disconnected \in Credentials
  BY <1>1, Names DEF Disconnected, Credentials, Configs
<1>3. Disconnected \in PatchType /\ Whole(Disconnected) /\ Disconnected.secrets = NoSecrets
  BY <1>2, NoneAssumption DEF Disconnected, Credentials, PatchType, Whole
<1>4. \A k \in ConfigNames : Disconnected.config[k] = None \/ Disconnected.config[k].by = 0
  BY <1>1 DEF Disconnected, NoConfig, ConfigNames
<1>8. /\ \A k \in ConfigNames : Disconnected.config[k] = None \/ Disconnected.config[k].for = "google_sheets"
      /\ Disconnected.config.connectedEmail = None
  BY <1>1 DEF Disconnected, NoConfig, ConfigNames
<1>9. PatchOf(Disconnected, "google_sheets")
  BY <1>3, <1>8 DEF PatchOf, ConfigOf, SecretsOf, For, NoSecrets
<1>5. NoPatch \in PatchType /\ NoPatch.config = None /\ NoPatch.secrets = None BY DEF NoPatch, PatchType
<1>10. \A p : PatchOf(NoPatch, p) BY <1>5 DEF PatchOf
<1>6. ASSUME NEW n \in Nat
      PROVE  /\ PatchOf(Consented(n), "google_sheets")
             /\ Consented(n) \in Credentials
             /\ \A k \in ConfigNames : Consented(n).config[k] = None \/ Consented(n).config[k].by = n
             /\ \A k \in SecretNames : Consented(n).secrets[k] = None \/ Consented(n).secrets[k].by = n
  <2>1. PICK v \in Values : v = Value(n, "google_sheets", TRUE) /\ v.by = n /\ v.for = "google_sheets" BY <1>1
  <2> DEFINE cs == [NoConfig EXCEPT !.authType = v, !.connectedEmail = v]
  <2> DEFINE ss == [NoSecrets EXCEPT !.refreshToken = v]
  <2>2. cs \in Configs /\ \A k \in ConfigNames : cs[k] = None \/ cs[k] = v
    BY <2>1 DEF NoConfig, Configs
  <2>3. ss \in Secrets /\ \A k \in SecretNames : ss[k] = None \/ ss[k] = v
    BY <2>1 DEF NoSecrets, Secrets
  <2>4. Consented(n) = [config |-> cs, secrets |-> ss] BY <2>1 DEF Consented
  <2> HIDE DEF cs, ss
  <2>5. Consented(n).config = cs /\ Consented(n).secrets = ss BY <2>4
  <2>6. Consented(n) \in Credentials BY <2>2, <2>3, <2>4 DEF Credentials
  <2>7. ConfigOf(cs, "google_sheets") /\ SecretsOf(ss, "google_sheets")
    BY <2>1, <2>2, <2>3 DEF ConfigOf, SecretsOf, For
  <2>8. PatchOf(Consented(n), "google_sheets") BY <2>5, <2>7 DEF PatchOf
  <2> QED BY <2>1, <2>2, <2>3, <2>5, <2>6, <2>8
<1>7. \A n \in Nat : Consented(n) \in PatchType BY <1>6 DEF Credentials, PatchType
<1> QED BY <1>2, <1>3, <1>4, <1>5, <1>6, <1>7, <1>8, <1>9, <1>10

FromEnv(p, env, f) == f = None \/ \A k \in DOMAIN f : f[k] = None \/ \E j \in Settings[p] : f[k] = env[j]

Taken(env, names, keys) == [k \in names |-> IF k \in keys THEN env[k] ELSE None]

LEMMA TakenFacts ==
  ASSUME NEW p \in Providers, NEW env \in [EnvNames -> {None} \cup Values], NEW names, NEW keys,
         keys \cap names \subseteq Settings[p], keys \cap names \subseteq EnvNames
  PROVE  Taken(env, names, keys) \in [names -> Values \cup {None}] /\ FromEnv(p, env, Taken(env, names, keys))
<1> DEFINE f == Taken(env, names, keys)
<1>1. f \in [names -> Values \cup {None}] BY DEF Taken
<1>2. \A k \in names : f[k] = None \/ \E j \in Settings[p] : f[k] = env[j] BY DEF Taken
<1> QED BY <1>1, <1>2 DEF FromEnv

LEMMA SeedFacts ==
  ASSUME NEW p \in Providers, NEW env \in [EnvNames -> {None} \cup Values]
  PROVE  LET c == SeedPatch(p, env)
         IN /\ c \in PatchType /\ c.secrets # None
            /\ FromEnv(p, env, c.config) /\ FromEnv(p, env, c.secrets)
<1>1. CASE p = "notifications"
  <2> DEFINE ck == {"emailFrom", "smtpHost"}
  <2> DEFINE sk == {"sendgridApiKey", "smtpUser", "smtpPass", "slackWebhookUrl"}
  <2>1. ck \subseteq Settings[p] /\ sk \subseteq Settings[p] /\ ck \subseteq EnvNames /\ sk \subseteq EnvNames
    BY <1>1 DEF EnvNames, Settings
  <2>2. SeedPatch(p, env) = [config |-> Taken(env, ConfigNames, ck), secrets |-> Taken(env, SecretNames, sk)]
    BY <1>1 DEF SeedPatch, Taken
  <2> HIDE DEF ck, sk
  <2>3. Taken(env, ConfigNames, ck) \in Configs /\ FromEnv(p, env, Taken(env, ConfigNames, ck))
    BY <2>1, TakenFacts DEF Configs
  <2>4. Taken(env, SecretNames, sk) \in Secrets /\ FromEnv(p, env, Taken(env, SecretNames, sk))
    BY <2>1, TakenFacts DEF Secrets
  <2> QED BY <2>2, <2>3, <2>4, NoneAssumption DEF PatchType
<1>2. CASE p = "twilio"
  <2> DEFINE ck == {"fromNumber"}
  <2> DEFINE sk == {"accountSid", "authToken"}
  <2>1. ck \subseteq Settings[p] /\ sk \subseteq Settings[p] /\ ck \subseteq EnvNames /\ sk \subseteq EnvNames
    BY <1>2 DEF EnvNames, Settings
  <2>2. SeedPatch(p, env) = [config |-> Taken(env, ConfigNames, ck), secrets |-> Taken(env, SecretNames, sk)]
    BY <1>2 DEF SeedPatch, Taken
  <2> HIDE DEF ck, sk
  <2>3. Taken(env, ConfigNames, ck) \in Configs /\ FromEnv(p, env, Taken(env, ConfigNames, ck))
    BY <2>1, TakenFacts DEF Configs
  <2>4. Taken(env, SecretNames, sk) \in Secrets /\ FromEnv(p, env, Taken(env, SecretNames, sk))
    BY <2>1, TakenFacts DEF Secrets
  <2> QED BY <2>2, <2>3, <2>4, NoneAssumption DEF PatchType
<1>3. CASE p \in {"stripe", "kyc", "google_sheets"}
  <2>1. Settings[p] \subseteq EnvNames BY <1>3 DEF Settings, EnvNames
  <2>2. Taken(env, SecretNames, Settings[p]) \in Secrets
        /\ FromEnv(p, env, Taken(env, SecretNames, Settings[p]))
    BY <2>1, TakenFacts DEF Secrets
  <2>3. SeedPatch(p, env) = [config |-> None, secrets |-> Taken(env, SecretNames, Settings[p])]
    BY <1>3 DEF SeedPatch, Taken
  <2> QED BY <2>2, <2>3, NoneAssumption DEF PatchType, FromEnv
<1> QED BY <1>1, <1>2, <1>3 DEF Providers

-----------------------------------------------------------------------------
(* Every variable has its type, action by action. *)
LEMMA NewFacts ==
  ASSUME TypeInv, NEW s \in Servers, NEW op \in Ops, NEW key \in Keys, NEW patch \in PatchType,
         NEW from \in {"api", "tab", "start-up"}
  PROVE  LET t == New(s, op, key, patch, from)
         IN /\ t \in TaskType
            /\ t.pc = "read" /\ t.op = op /\ t.server = s /\ t.key = key /\ t.patch = patch /\ t.from = from
            /\ ~t.checked /\ t.credential = NoCredential
            /\ t.since = IF Writers(key) = {} THEN history.version[key] ELSE None
<1>1. history.version[key] \in Nat BY DEF TypeInv, HistoryType
<1>2. PICK n \in Nat \cup {None} : n = IF Writers(key) = {} THEN history.version[key] ELSE None BY <1>1
<1>3. New(s, op, key, patch, from) =
        [pc |-> "read", op |-> op, server |-> s, key |-> key, patch |-> patch, from |-> from, checked |-> FALSE,
         credential |-> NoCredential, items |-> {}, since |-> n]
  BY <1>2 DEF New
<1> QED BY <1>2, <1>3, Names DEF TaskType, Pcs

LEMMA IdleTyped == Idle \in TaskType /\ Idle.pc = "idle" /\ Idle.key = None
BY Names, ZenonT(40) DEF Idle, TaskType, Pcs, NoPatch, PatchType

LEMMA TurnTyped ==
  ASSUME TypeInv, NEW a \in Actors, NEW u \in TaskType, task' = [task EXCEPT ![a] = u]
  PROVE  task' \in [Actors -> TaskType]
BY DEF TypeInv

LEMMA CountedTyped ==
  ASSUME TypeInv, NEW kind \in Kinds, Counted(kind)
  PROVE  scenario' \in Scenario
<1>1. scenario.requests \in [Kinds -> Nat] BY DEF TypeInv, Scenario
<1>2. [scenario.requests EXCEPT ![kind] = @ - 1] \in [Kinds -> Nat] BY <1>1 DEF Counted
<1>3. PICK r \in [Kinds -> Nat] : r = [scenario.requests EXCEPT ![kind] = @ - 1] BY <1>2
<1>4. scenario' = [scenario EXCEPT !.requests = r] BY <1>3 DEF Counted
<1> QED BY <1>4 DEF TypeInv, Scenario

LEMMA FaultTyped ==
  ASSUME TypeInv, Fault
  PROVE  scenario' \in Scenario
<1>1. scenario.faults \in Nat BY DEF TypeInv, Scenario
<1>2. PICK r \in Nat : r = scenario.faults - 1 BY <1>1 DEF Fault
<1>3. scenario' = [scenario EXCEPT !.faults = r] BY <1>2 DEF Fault
<1> QED BY <1>3 DEF TypeInv, Scenario

SameOrder(h) == h.clean = history.clean /\ h.expect = history.expect /\ h.version = history.version
Enters(h, keys) ==
  /\ h.expect = history.expect /\ h.version = history.version
  /\ \A key \in Keys : h.clean[key] = IF key \in keys THEN Writers(key) = {} ELSE history.clean[key]

LEMMA BegunFacts ==
  ASSUME TypeInv, NEW keys
  PROVE  Begun(keys) \in HistoryType /\ Enters(Begun(keys), keys)
         /\ Begun(keys).writes = history.writes /\ Begun(keys).mixed = history.mixed
<1>1. \A key \in Keys : (IF key \in keys THEN Writers(key) = {} ELSE history.clean[key]) \in BOOLEAN
  BY DEF TypeInv, HistoryType
<1>2. PICK f \in [Keys -> BOOLEAN] :
        f = [key \in Keys |-> IF key \in keys THEN Writers(key) = {} ELSE history.clean[key]]
  BY <1>1
<1>3. Begun(keys) = [history EXCEPT !.clean = f] BY <1>2 DEF Begun
<1>4. \A key \in Keys : f[key] = IF key \in keys THEN Writers(key) = {} ELSE history.clean[key] BY <1>2
<1> QED BY <1>3, <1>4 DEF TypeInv, HistoryType, Enters

LEMMA CountFacts ==
  ASSUME NEW h \in HistoryType, NEW n \in Nat
  PROVE  LET i == [h EXCEPT !.writes = n]
         IN /\ i \in HistoryType /\ i.clean = h.clean /\ i.expect = h.expect /\ i.version = h.version
            /\ i.writes = n /\ i.mixed = h.mixed
BY DEF HistoryType

LEMMA KeyFacts ==
  /\ \A p \in Providers : <<User, p>> \in Keys /\ <<System, p>> \in Keys
  /\ \A subject \in Subjects : /\ Sheets(subject) \in Keys /\ Sheets(subject)[1] = subject
                               /\ Sheets(subject)[2] = "google_sheets"
                               /\ Sheets(subject) = <<subject, "google_sheets">>
  /\ User \in Subjects /\ System \in Subjects
  /\ \A key \in Keys : key[1] \in Subjects /\ key[2] \in Providers
BY DEF Keys, Subjects, Sheets, Providers

(* a request starts: the task it starts as, and the step *)
Starting(a, t) ==
  /\ t \in TaskType /\ t.pc = "read" /\ t.server \in Servers /\ t.key \in Keys
  /\ t.op \in Writing \cup {"get"} /\ ~t.checked /\ t.credential = NoCredential
  /\ t.since = IF Writers(t.key) = {} THEN history.version[t.key] ELSE None
  /\ task[a] = Idle /\ task[a].pc = "idle"
  /\ a \in Slots => server[t.server].stage = "up" /\ t.op # "seed" /\ t.from \in {"api", "tab"}
  /\ a \in Servers => t.op = "seed" /\ t.server = a /\ server[a].stage = "seeding" /\ t.from = "start-up"
Begins(a, t) ==
  /\ Starting(a, t)
  /\ task' = [task EXCEPT ![a] = Fetched(t)]
  /\ IF t.op = "get" THEN SameOrder(history') ELSE Enters(history', {t.key})
  /\ db' = db /\ server' = server

LEMMA FetchedTyped ==
  ASSUME TypeInv, VaultInv, NEW t \in TaskType, t.key \in Keys
  PROVE  Fetched(t) \in TaskType
BY FetchedFacts DEF Follows, Waits

LEMMA StartsFacts ==
  ASSUME TypeInv, VaultInv, NEW h \in Slots, NEW s \in Servers,
         NEW op \in {"put", "get", "callback", "disconnect"}, NEW key \in Keys,
         NEW patch \in PatchType, NEW from \in {"api", "tab"}, Starts(h, s, op, key, patch, from)
  PROVE  /\ task' \in [Actors -> TaskType]
         /\ Starting(h, New(s, op, key, patch, from))
         /\ task' = [task EXCEPT ![h] = Fetched(New(s, op, key, patch, from))]
<1>1. PICK t : t = New(s, op, key, patch, from) OBVIOUS
<1>2. /\ t \in TaskType
      /\ t.pc = "read" /\ t.op = op /\ t.server = s /\ t.key = key /\ t.from = from
      /\ ~t.checked /\ t.credential = NoCredential
      /\ t.since = IF Writers(key) = {} THEN history.version[key] ELSE None
  BY <1>1, NewFacts DEF Ops
<1>3. Fetched(t) \in TaskType BY <1>2, FetchedTyped
<1>4. h \in Actors /\ h \notin Servers BY ActorsSplit DEF Actors
<1>5. task[h] = Idle /\ task[h].pc = "idle" /\ server[s].stage = "up" /\ task' = [task EXCEPT ![h] = Fetched(t)]
  BY <1>1, IdleTyped DEF Starts, Up
<1>6. Starting(h, t) BY <1>2, <1>4, <1>5 DEF Starting, Writing
<1> QED BY <1>1, <1>3, <1>4, <1>5, <1>6, TurnTyped

LEMMA PutTyped ==
  ASSUME TypeInv, VaultInv, NEW h \in Slots, NEW s \in Servers, Put(h, s)
  PROVE  /\ TypeInv'
         /\ UNCHANGED <<flow, tab>> /\ history'.writes = history.writes + 1
         /\ \E t : /\ Begins(h, t) /\ t.key[1] = User /\ t.from = "api" /\ PatchOf(t.patch, t.key[2])
                   /\ t.patch.config = None \/ \A k \in ConfigNames :
                        t.patch.config[k] = None \/ t.patch.config[k].by = history.writes + 1
                   /\ t.patch.secrets = None \/ \A k \in SecretNames :
                        t.patch.secrets[k] = None \/ t.patch.secrets[k].by = history.writes + 1
<1>1. PICK p \in scenario.providers, k \in scenario.keys :
        /\ Starts(h, s, "put", <<User, p>>, Written(p, history.writes + 1, k.config, k.secrets), "api")
        /\ history' = [Begun({<<User, p>>}) EXCEPT !.writes = @ + 1]
  BY DEF Put
<1>2. scenario' \in Scenario BY CountedTyped DEF Put, Kinds
<1>3. UNCHANGED <<db, server, flow, tab, time>> BY DEF Put
<1>4. p \in Providers /\ k.config \in BOOLEAN /\ k.secrets \in BOOLEAN /\ history.writes + 1 \in Nat
  BY DEF TypeInv, Scenario, HistoryType
<1>5. PICK patch \in PatchType :
        /\ patch = Written(p, history.writes + 1, k.config, k.secrets) /\ PatchOf(patch, p)
        /\ patch.config = None \/ \A j \in ConfigNames :
                        patch.config[j] = None \/ patch.config[j].by = history.writes + 1
        /\ patch.secrets = None \/ \A j \in SecretNames :
                        patch.secrets[j] = None \/ patch.secrets[j].by = history.writes + 1
  BY <1>4, WrittenFacts
<1>6. PICK key \in Keys : key = <<User, p>> /\ key[1] = User /\ key[2] = p BY <1>4, KeyFacts
<1>7. Starts(h, s, "put", key, patch, "api") BY <1>1, <1>5, <1>6
<1>8. /\ task' \in [Actors -> TaskType]
      /\ Starting(h, New(s, "put", key, patch, "api"))
      /\ task' = [task EXCEPT ![h] = Fetched(New(s, "put", key, patch, "api"))]
  BY <1>7, StartsFacts
<1>9. PICK t : t = New(s, "put", key, patch, "api") OBVIOUS
<1>10. t.op = "put" /\ t.key = key /\ t.patch = patch /\ t.from = "api" BY <1>9, NewFacts DEF Ops
<1>11. PICK g \in HistoryType : g = Begun({key}) /\ Enters(g, {key}) /\ g.writes = history.writes
  BY BegunFacts
<1>12. history' = [g EXCEPT !.writes = history.writes + 1] BY <1>1, <1>6, <1>11
<1>13. /\ history' \in HistoryType /\ history'.clean = g.clean /\ history'.expect = g.expect
       /\ history'.version = g.version /\ history'.writes = history.writes + 1
  BY <1>4, <1>12, CountFacts
<1>14. Enters(history', {key}) BY <1>11, <1>13 DEF Enters
<1>15. Begins(h, t) BY <1>3, <1>8, <1>9, <1>10, <1>14 DEF Begins
<1>16. TypeInv' BY <1>2, <1>3, <1>8, <1>13 DEF TypeInv
<1> QED BY <1>3, <1>5, <1>6, <1>10, <1>13, <1>15, <1>16

LEMMA GetTyped ==
  ASSUME TypeInv, VaultInv, NEW h \in Slots, NEW s \in Servers, Get(h, s)
  PROVE  /\ TypeInv'
         /\ UNCHANGED <<flow, tab, history>>
         /\ \E t : Begins(h, t) /\ t.key[1] = User /\ t.patch = NoPatch /\ t.from = "api"
<1>1. PICK p \in scenario.providers : Starts(h, s, "get", <<User, p>>, NoPatch, "api") BY DEF Get
<1>2. scenario' \in Scenario BY CountedTyped DEF Get, Kinds
<1>3. UNCHANGED <<db, server, flow, tab, time, history>> BY DEF Get
<1>4. p \in Providers BY DEF TypeInv, Scenario
<1>6. PICK key \in Keys : key = <<User, p>> /\ key[1] = User BY <1>4, KeyFacts
<1>8. /\ task' \in [Actors -> TaskType]
      /\ Starting(h, New(s, "get", key, NoPatch, "api"))
      /\ task' = [task EXCEPT ![h] = Fetched(New(s, "get", key, NoPatch, "api"))]
  BY <1>1, <1>6, OauthFacts, StartsFacts
<1>9. PICK t : t = New(s, "get", key, NoPatch, "api") OBVIOUS
<1>10. t.op = "get" /\ t.key = key /\ t.patch = NoPatch /\ t.from = "api" BY <1>9, OauthFacts, NewFacts DEF Ops
<1>15. Begins(h, t) BY <1>3, <1>8, <1>9, <1>10 DEF Begins, SameOrder
<1>16. TypeInv' BY <1>2, <1>3, <1>8 DEF TypeInv
<1> QED BY <1>3, <1>6, <1>10, <1>15, <1>16

LEMMA DisconnectTyped ==
  ASSUME TypeInv, VaultInv, NEW h \in Slots, NEW s \in Servers, Disconnect(h, s)
  PROVE  /\ TypeInv'
         /\ UNCHANGED <<flow, tab>> /\ history'.writes = history.writes
         /\ \E t : Begins(h, t) /\ t.key = Sheets(User) /\ t.key[1] = User /\ t.patch = Disconnected /\ t.from = "api"
<1>1. Starts(h, s, "disconnect", Sheets(User), Disconnected, "api") BY DEF Disconnect
<1>2. scenario' \in Scenario BY CountedTyped DEF Disconnect, Kinds
<1>3. UNCHANGED <<db, server, flow, tab, time>> BY DEF Disconnect
<1>6. PICK key \in Keys : key = Sheets(User) /\ key[1] = User BY KeyFacts
<1>8. /\ task' \in [Actors -> TaskType]
      /\ Starting(h, New(s, "disconnect", key, Disconnected, "api"))
      /\ task' = [task EXCEPT ![h] = Fetched(New(s, "disconnect", key, Disconnected, "api"))]
  BY <1>1, <1>6, OauthFacts, StartsFacts
<1>9. PICK t : t = New(s, "disconnect", key, Disconnected, "api") OBVIOUS
<1>10. t.op = "disconnect" /\ t.key = key /\ t.patch = Disconnected /\ t.from = "api"
  BY <1>9, OauthFacts, NewFacts DEF Ops
<1>11. /\ history' \in HistoryType /\ Enters(history', {key}) /\ history'.writes = history.writes
  BY <1>6, BegunFacts DEF Disconnect
<1>15. Begins(h, t) BY <1>3, <1>8, <1>9, <1>10, <1>11 DEF Begins
<1>16. TypeInv' BY <1>2, <1>3, <1>8, <1>11 DEF TypeInv
<1> QED BY <1>3, <1>6, <1>10, <1>11, <1>15, <1>16

LEMMA CallbackTyped ==
  ASSUME TypeInv, VaultInv, NEW h \in Slots, NEW s \in Servers, Callback(h, s)
  PROVE  /\ TypeInv'
         /\ tab' = tab /\ history'.writes = history.writes + 1
         /\ \E f \in DOMAIN flow :
              /\ flow' = [flow EXCEPT ![f].token = history.writes + 1, ![f].at = time]
              /\ flow[f].token = 0 /\ ~(time > flow[f].exp)
              /\ \E t : /\ Begins(h, t) /\ t.key[1] = flow[f].subject /\ t.key[2] = "google_sheets" /\ t.from = "api"
                       /\ t.patch = Consented(history.writes + 1)
<1>1. PICK f \in DOMAIN flow : flow[f].token = 0 /\ ~Expired(f) /\ Exchanged(h, s, f) BY DEF Callback
<1>2. scenario' \in Scenario BY CountedTyped DEF Callback, Kinds
<1>3. UNCHANGED <<db, server, tab, time>> BY DEF Callback
<1>4. PICK n \in Nat : n = history.writes + 1 BY DEF TypeInv, HistoryType
<1>5. flow[f] \in FlowType BY <1>1 DEF TypeInv
<1>6. PICK key \in Keys : key = Sheets(Owner(f)) /\ key[1] = flow[f].subject /\ key[2] = "google_sheets"
  BY <1>5, KeyFacts DEF Owner, FlowType
<1>7. Starts(h, s, "callback", key, Consented(n), "api") /\ flow' = [flow EXCEPT ![f].token = n, ![f].at = time]
      /\ history' = [Begun({key}) EXCEPT !.writes = n]
  BY <1>1, <1>4, <1>6 DEF Exchanged
<1>8. /\ task' \in [Actors -> TaskType]
      /\ Starting(h, New(s, "callback", key, Consented(n), "api"))
      /\ task' = [task EXCEPT ![h] = Fetched(New(s, "callback", key, Consented(n), "api"))]
  BY <1>7, OauthFacts, StartsFacts
<1>9. PICK t : t = New(s, "callback", key, Consented(n), "api") OBVIOUS
<1>10. t.op = "callback" /\ t.key = key /\ t.patch = Consented(n) /\ t.from = "api" BY <1>9, OauthFacts, NewFacts DEF Ops
<1>11. PICK g \in HistoryType : g = Begun({key}) /\ Enters(g, {key}) /\ g.writes = history.writes
  BY BegunFacts
<1>12. history' = [g EXCEPT !.writes = n] BY <1>7, <1>11
<1>13. /\ history' \in HistoryType /\ history'.clean = g.clean /\ history'.expect = g.expect
       /\ history'.version = g.version /\ history'.writes = n
  BY <1>12, CountFacts
<1>14. Enters(history', {key}) BY <1>11, <1>13 DEF Enters
<1>15. Begins(h, t) BY <1>3, <1>8, <1>9, <1>10, <1>14 DEF Begins
<1>16. flow' \in Seq(FlowType)
  <2>1. PICK r \in FlowType : r = [flow[f] EXCEPT !.token = n, !.at = time] BY <1>5 DEF FlowType, TypeInv
  <2>2. flow' = [flow EXCEPT ![f] = r] BY <1>7, <2>1
  <2> QED BY <1>1, <2>2 DEF TypeInv
<1>17. TypeInv' BY <1>2, <1>3, <1>8, <1>13, <1>16 DEF TypeInv
<1>18. ~(time > flow[f].exp) BY <1>1 DEF Expired
<1> QED BY <1>1, <1>3, <1>4, <1>6, <1>7, <1>10, <1>13, <1>15, <1>17, <1>18

LEMMA FirstFacts ==
  ASSUME NEW seeds \in SUBSET Providers, seeds # {}
  PROVE  FirstOf(seeds) \in seeds
<1>1. \E p \in seeds : \A q \in seeds : SeedOrder[p] <= SeedOrder[q]
  <2>1. /\ SeedOrder["stripe"] = 1 /\ SeedOrder["notifications"] = 2 /\ SeedOrder["twilio"] = 3
        /\ SeedOrder["kyc"] = 4 /\ SeedOrder["google_sheets"] = 5
    BY DEF SeedOrder
  <2>2. \A q \in seeds : q \in {"stripe", "notifications", "twilio", "kyc", "google_sheets"} BY DEF Providers
  <2>3. CASE "stripe" \in seeds BY <2>1, <2>2, <2>3
  <2>4. CASE "stripe" \notin seeds /\ "notifications" \in seeds BY <2>1, <2>2, <2>4
  <2>5. CASE "stripe" \notin seeds /\ "notifications" \notin seeds /\ "twilio" \in seeds BY <2>1, <2>2, <2>5
  <2>6. CASE seeds \subseteq {"kyc", "google_sheets"} /\ "kyc" \in seeds BY <2>1, <2>2, <2>6
  <2>7. CASE seeds = {"google_sheets"} BY <2>1, <2>7
  <2> QED BY <2>2, <2>3, <2>4, <2>5, <2>6, <2>7
<1> QED BY <1>1 DEF FirstOf

LEMMA SeedTyped ==
  ASSUME TypeInv, WorkInv, VaultInv, NEW s \in Servers, Seed(s)
  PROVE  /\ TypeInv'
         /\ UNCHANGED <<flow, tab>> /\ history'.writes = history.writes
         /\ \E p \in Providers : \E t : Begins(s, t) /\ t.key = <<User, p>> /\ t.patch = SeedPatch(p, scenario.env)
<1>1. PICK p : p = FirstOf(server[s].seeds) OBVIOUS
<1>2. /\ server[s].stage = "seeding" /\ task[s] = Idle
      /\ task' = [task EXCEPT ![s] = Fetched(New(s, "seed", <<User, p>>, SeedPatch(p, scenario.env), "start-up"))]
      /\ history' = Begun({<<User, p>>})
      /\ UNCHANGED <<scenario, db, server, flow, tab, time>>
  BY <1>1 DEF Seed
<1>3. p \in Providers
  <2>1. server[s].seeds \in SUBSET Providers BY DEF TypeInv, ServerType
  <2>2. server[s].seeds # {} BY <1>2 DEF WorkInv, Ready
  <2> QED BY <1>1, <2>1, <2>2, FirstFacts
<1>4. scenario.env \in [EnvNames -> {None} \cup Values] BY DEF TypeInv, Scenario
<1>5. PICK patch \in PatchType : patch = SeedPatch(p, scenario.env) BY <1>3, <1>4, SeedFacts
<1>6. PICK key \in Keys : key = <<User, p>> BY <1>3, KeyFacts
<1>7. PICK t : t = New(s, "seed", key, patch, "start-up") OBVIOUS
<1>8. /\ t \in TaskType
      /\ t.pc = "read" /\ t.op = "seed" /\ t.server = s /\ t.key = key /\ t.from = "start-up" /\ t.patch = patch
      /\ ~t.checked /\ t.credential = NoCredential
      /\ t.since = IF Writers(key) = {} THEN history.version[key] ELSE None
  BY <1>7, NewFacts DEF Ops
<1>9. s \in Actors /\ s \notin Slots BY ActorsSplit DEF Actors
<1>10. Starting(s, t) BY <1>2, <1>8, <1>9, IdleTyped DEF Starting, Writing
<1>11. task' = [task EXCEPT ![s] = Fetched(t)] BY <1>2, <1>5, <1>6, <1>7
<1>12. Fetched(t) \in TaskType BY <1>8, FetchedTyped
<1>13. task' \in [Actors -> TaskType] BY <1>9, <1>11, <1>12, TurnTyped
<1>14. history' \in HistoryType /\ Enters(history', {key}) /\ history'.writes = history.writes
  BY <1>2, <1>6, BegunFacts
<1>15. Begins(s, t) BY <1>2, <1>8, <1>10, <1>11, <1>14 DEF Begins
<1>16. TypeInv' BY <1>2, <1>13, <1>14 DEF TypeInv
<1>17. UNCHANGED <<flow, tab>> BY <1>2
<1>18. t.key = <<User, p>> /\ t.patch = SeedPatch(p, scenario.env) BY <1>5, <1>6, <1>8
<1> QED BY <1>3, <1>14, <1>15, <1>16, <1>17, <1>18

(* the page asks for the list *)
Listed(p) == db.rows[<<User, p>>] # None /\ db.rows[<<User, p>>].ref # None
Lists(a, t) ==
  /\ task[a] = Idle /\ task[a].pc = "idle" /\ a \in Slots
  /\ t \in TaskType /\ t.pc = "answered" /\ t.op = "list" /\ t.key \in Keys /\ t.key[1] = User
  /\ t.from = "tab" /\ t.key = Sheets(User) /\ t.items = {p \in Providers : Listed(p)}
  /\ t.since = IF Writers(t.key) = {} THEN history.version[t.key] ELSE None
  /\ t.credential = NoCredential /\ t.patch = NoPatch
  /\ task' = [task EXCEPT ![a] = t]
  /\ UNCHANGED <<db, server, history>>

LEMMA ListFacts ==
  ASSUME TypeInv, NEW s \in Servers
  PROVE  LET t == List(s)
         IN /\ t \in TaskType /\ t.pc = "answered" /\ t.op = "list" /\ t.key \in Keys /\ t.key[1] = User
            /\ t.credential = NoCredential /\ t.patch = NoPatch /\ t.from = "tab"
            /\ t.key = Sheets(User) /\ t.items = {p \in Providers : Listed(p)}
            /\ t.since = IF Writers(t.key) = {} THEN history.version[t.key] ELSE None
<1>1. PICK key \in Keys : key = Sheets(User) /\ key[1] = User BY KeyFacts
<1>2. PICK t : t = New(s, "list", key, NoPatch, "tab") OBVIOUS
<1>3. /\ t \in TaskType /\ t.op = "list" /\ t.key = key /\ t.credential = NoCredential /\ t.patch = NoPatch
      /\ t.from = "tab" /\ t.since = IF Writers(key) = {} THEN history.version[key] ELSE None
  BY <1>2, NewFacts, OauthFacts DEF Ops
<1>4. PICK items \in SUBSET Providers : items = {p \in Providers : Listed(p)} OBVIOUS
<1>5. List(s) = [t EXCEPT !.pc = "answered", !.items = items] BY <1>1, <1>2, <1>4 DEF List, Listed
<1>6. PICK u : u = List(s) OBVIOUS
<1>7. u \in TaskType /\ u.pc = "answered" /\ u.items = items BY <1>3, <1>5, <1>6 DEF TaskType, Pcs
<1>8. /\ u.op = t.op /\ u.key = t.key /\ u.credential = t.credential /\ u.patch = t.patch
      /\ u.from = t.from /\ u.since = t.since
  BY <1>3, <1>5, <1>6 DEF TaskType
<1> QED BY <1>1, <1>3, <1>4, <1>6, <1>7, <1>8

LEMMA TabSendsTyped ==
  ASSUME TypeInv, VaultInv, NEW h \in Slots, NEW s \in Servers, TabSends(h, s)
  PROVE  /\ TypeInv'
         /\ UNCHANGED flow /\ history'.writes = history.writes
         /\ \E w \in tab.wants :
              /\ tab' = [tab EXCEPT !.wants = @ \ {w}]
              /\ \/ w.op = "list" /\ \E t : Lists(h, t)
                 \/ \E t : /\ Begins(h, t) /\ t.key[1] = User /\ t.patch = w.patch
                           /\ t.from = "tab" /\ t.op = w.op /\ t.key = <<User, w.provider>>
<1>1. PICK w \in tab.wants :
        /\ Up(s) /\ task[h] = Idle
        /\ tab' = [tab EXCEPT !.wants = @ \ {w}]
        /\ IF w.op = "list"
           THEN task' = [task EXCEPT ![h] = List(s)] /\ UNCHANGED history
           ELSE /\ Starts(h, s, w.op, <<User, w.provider>>, w.patch, "tab")
                /\ history' = IF w.op = "get" THEN history ELSE Begun({<<User, w.provider>>})
        /\ UNCHANGED <<scenario, db, server, flow, time>>
  BY DEF TabSends
<1>2. w \in WantType BY DEF TypeInv, TabType
<1>3. tab' \in TabType
  <2>1. PICK wants \in SUBSET WantType : wants = tab.wants \ {w} BY DEF TypeInv, TabType
  <2>2. tab' = [tab EXCEPT !.wants = wants] BY <1>1, <2>1
  <2> QED BY <2>2 DEF TypeInv, TabType
<1>4. h \in Actors BY DEF Actors
<1>5. CASE w.op = "list"
  <2>1. PICK t : t = List(s) OBVIOUS
  <2>2. Lists(h, t) BY <1>1, <1>5, <2>1, ListFacts, IdleTyped DEF Lists
  <2>3. task' \in [Actors -> TaskType] BY <1>4, <2>2, TurnTyped DEF Lists
  <2>4. TypeInv' BY <1>1, <1>3, <1>5, <2>3 DEF TypeInv
  <2> QED BY <1>1, <1>5, <2>2, <2>4
<1>6. CASE w.op # "list"
  <2>1. PICK op \in {"get", "put", "disconnect"} : op = w.op BY <1>2, <1>6 DEF WantType
  <2>2. PICK key \in Keys : key = <<User, w.provider>> /\ key[1] = User BY <1>2, KeyFacts DEF WantType
  <2>3. PICK patch \in PatchType : patch = w.patch BY <1>2 DEF WantType
  <2>4. Starts(h, s, op, key, patch, "tab") BY <1>1, <1>6, <2>1, <2>2, <2>3
  <2>5. /\ task' \in [Actors -> TaskType]
        /\ Starting(h, New(s, op, key, patch, "tab"))
        /\ task' = [task EXCEPT ![h] = Fetched(New(s, op, key, patch, "tab"))]
    BY <2>4, StartsFacts
  <2>6. PICK t : t = New(s, op, key, patch, "tab") OBVIOUS
  <2>7. t.op = op /\ t.key = key /\ t.patch = patch /\ t.from = "tab" BY <2>6, NewFacts DEF Ops
  <2>8. history' = IF op = "get" THEN history ELSE Begun({key}) BY <1>1, <1>6, <2>1, <2>2
  <2>9. /\ history' \in HistoryType /\ history'.writes = history.writes
        /\ IF op = "get" THEN SameOrder(history') ELSE Enters(history', {key})
    <3>1. CASE op = "get" BY <2>8, <3>1 DEF SameOrder, TypeInv
    <3>2. CASE op # "get" BY <2>8, <3>2, BegunFacts
    <3> QED BY <3>1, <3>2
  <2>10. Begins(h, t) BY <1>1, <2>5, <2>6, <2>7, <2>9 DEF Begins
  <2>11. TypeInv' BY <1>1, <1>3, <2>5, <2>9 DEF TypeInv
  <2> QED BY <1>1, <2>1, <2>2, <2>3, <2>7, <2>9, <2>10, <2>11
<1> QED BY <1>5, <1>6

LEMMA RereadTyped ==
  ASSUME TypeInv, WorkInv, VaultInv, NEW a \in Actors, Reread(a)
  PROVE  TypeInv'
<1>1. Working(a) BY DEF Reread, Working
<1>2. task[a] \in TaskType /\ task[a].key \in Keys BY <1>1 DEF TypeInv, WorkInv, Fits, Working
<1>3. Fetched(task[a]) \in TaskType BY <1>2, FetchedTyped
<1>4. task' \in [Actors -> TaskType] BY <1>3, TurnTyped DEF Reread
<1> QED BY <1>4 DEF TypeInv, Reread

LEMMA LoadFacts ==
  ASSUME TypeInv, WorkInv, NEW a \in Actors, Load(a)
  PROVE  \E u \in TaskType :
           /\ task' = [task EXCEPT ![a] = u]
           /\ \/ db.vault[task[a].key] = None /\ u = Repace(task[a], "failed")
              \/ /\ db.vault[task[a].key] \in Secrets
                 /\ Follows(task[a], u, [config |-> task[a].credential.config, secrets |-> db.vault[task[a].key]])
<1>1. Working(a) BY DEF Load, Working
<1>2. task[a] \in TaskType /\ task[a].key \in Keys BY <1>1 DEF TypeInv, WorkInv, Fits, Working
<1>3. db.vault[task[a].key] \in Secrets \cup {None} BY <1>2 DEF TypeInv, DbType
<1>4. CASE db.vault[task[a].key] = None
  <2>1. task' = [task EXCEPT ![a] = Repace(task[a], "failed")] BY <1>4 DEF Load, Repace, TypeInv
  <2>2. Repace(task[a], "failed") \in TaskType BY <1>2, Repaced DEF Pcs
  <2> QED BY <1>4, <2>1, <2>2
<1>5. CASE db.vault[task[a].key] # None
  <2>1. PICK x \in Secrets : x = db.vault[task[a].key] BY <1>3, <1>5
  <2>2. task' = [task EXCEPT ![a] = Continued(task[a], x)] BY <1>5, <2>1 DEF Load, TypeInv
  <2>3. Follows(task[a], Continued(task[a], x), [config |-> task[a].credential.config, secrets |-> x])
    BY <1>2, ContinuedFollows
  <2>4. Continued(task[a], x) \in TaskType BY <2>3 DEF Follows
  <2> QED BY <2>1, <2>2, <2>3, <2>4
<1> QED BY <1>4, <1>5

LEMMA LoadTyped ==
  ASSUME TypeInv, WorkInv, NEW a \in Actors, Load(a)
  PROVE  TypeInv'
<1>1. task' \in [Actors -> TaskType] BY LoadFacts, TurnTyped
<1> QED BY <1>1 DEF TypeInv, Load

LEMMA MergedPart ==
  ASSUME NEW c \in Credentials, NEW t \in TaskType
  PROVE  Effect(t, c) \in Credentials
BY MergedFacts DEF Effect, TaskType

LEMMA MadeTyped ==
  ASSUME TypeInv, NEW t \in TaskType, t.key \in Keys
  PROVE  Made(t) \subseteq Credentials
<1>1. history.expect[t.key] \subseteq Credentials BY DEF TypeInv, HistoryType
<1>2. \A c \in history.expect[t.key] : Effect(t, c) \in Credentials BY <1>1, MergedPart
<1>3. Whole(t.patch) => t.patch \in Credentials BY DEF TaskType, PatchType, Credentials, Whole
<1> QED BY <1>2, <1>3 DEF Made

LEMMA EndedFacts ==
  ASSUME TypeInv, NEW key \in Keys, NEW made \in SUBSET Credentials
  PROVE  LET h == Ended(key, made)
         IN /\ h \in HistoryType /\ h.writes = history.writes /\ h.clean = history.clean
            /\ h.version = history.version
            /\ \A k \in Keys : h.expect[k] = IF k = key THEN IF history.clean[key] THEN made ELSE {}
                                             ELSE history.expect[k]
<1>1. PICK x \in SUBSET Credentials : x = IF history.clean[key] THEN made ELSE {} OBVIOUS
<1>2. PICK e \in [Keys -> SUBSET Credentials] : e = [history.expect EXCEPT ![key] = x]
  BY DEF TypeInv, HistoryType
<1>3. Ended(key, made) = [history EXCEPT !.expect = e] BY <1>1, <1>2 DEF Ended
<1>4. \A k \in Keys : e[k] = IF k = key THEN x ELSE history.expect[k] BY <1>2 DEF TypeInv, HistoryType
<1> QED BY <1>1, <1>3, <1>4 DEF TypeInv, HistoryType

LEMMA VersionFacts ==
  ASSUME NEW h \in HistoryType, NEW key \in Keys
  PROVE  LET i == [h EXCEPT !.version[key] = @ + 1]
         IN /\ i \in HistoryType /\ i.clean = h.clean /\ i.expect = h.expect /\ i.writes = h.writes
            /\ \A k \in Keys : i.version[k] = IF k = key THEN h.version[k] + 1 ELSE h.version[k]
<1>1. \A k \in Keys : h.version[k] \in Nat BY DEF HistoryType
<1>0. PICK n \in Nat : n = h.version[key] + 1 BY <1>1
<1>2. PICK e \in [Keys -> Nat] : e = [h.version EXCEPT ![key] = n] BY DEF HistoryType
<1>3. [h EXCEPT !.version[key] = @ + 1] = [h EXCEPT !.version = e] BY <1>0, <1>2 DEF HistoryType
<1>4. \A k \in Keys : e[k] = IF k = key THEN h.version[k] + 1 ELSE h.version[k] BY <1>0, <1>2 DEF HistoryType
<1>5. PICK i : i = [h EXCEPT !.version = e] OBVIOUS
<1>6. i \in HistoryType /\ i.clean = h.clean /\ i.expect = h.expect /\ i.writes = h.writes /\ i.version = e
  BY <1>5 DEF HistoryType
<1> QED BY <1>3, <1>4, <1>5, <1>6

(* a write under these keys is given up, or cut short *)
Doubts(h, keys) ==
  /\ h.writes = history.writes /\ h.clean = history.clean
  /\ \A k \in Keys : /\ h.expect[k] = IF k \in keys THEN {} ELSE history.expect[k]
                     /\ h.version[k] = IF k \in keys THEN history.version[k] + 1 ELSE history.version[k]

LEMMA DoubtedFacts ==
  ASSUME TypeInv, NEW keys
  PROVE  Doubted(keys) \in HistoryType /\ Doubts(Doubted(keys), keys)
<1>0. \A k \in Keys : history.version[k] \in Nat /\ history.version[k] + 1 \in Nat BY DEF TypeInv, HistoryType
<1>1. \A k \in Keys : (IF k \in keys THEN history.version[k] + 1 ELSE history.version[k]) \in Nat BY <1>0
<1>2. PICK v \in [Keys -> Nat] : v = [key \in Keys |-> IF key \in keys THEN history.version[key] + 1 ELSE history.version[key]]
  BY <1>1
<1>3. \A k \in Keys : (IF k \in keys THEN {} ELSE history.expect[k]) \in SUBSET Credentials
  BY DEF TypeInv, HistoryType
<1>4. PICK e \in [Keys -> SUBSET Credentials] : e = [key \in Keys |-> IF key \in keys THEN {} ELSE history.expect[key]]
  BY <1>3
<1>5. Doubted(keys) = [history EXCEPT !.expect = e, !.version = v] BY <1>2, <1>4 DEF Doubted
<1>6. \A k \in Keys : /\ e[k] = IF k \in keys THEN {} ELSE history.expect[k]
                      /\ v[k] = IF k \in keys THEN history.version[k] + 1 ELSE history.version[k]
  BY <1>2, <1>4
<1>7. PICK h : h = Doubted(keys) OBVIOUS
<1>8. /\ h \in HistoryType /\ h.writes = history.writes /\ h.clean = history.clean
      /\ h.expect = e /\ h.version = v
  BY <1>5, <1>7 DEF TypeInv, HistoryType
<1> QED BY <1>6, <1>7, <1>8 DEF Doubts

LEMMA RepacedTyped ==
  ASSUME TypeInv, NEW a \in Actors, NEW pc \in Pcs, task' = [task EXCEPT ![a].pc = pc]
  PROVE  task' = [task EXCEPT ![a] = Repace(task[a], pc)] /\ task' \in [Actors -> TaskType]
<1>1. task' = [task EXCEPT ![a] = Repace(task[a], pc)] BY DEF Repace, TypeInv
<1>2. Repace(task[a], pc) \in TaskType BY Repaced DEF TypeInv
<1> QED BY <1>1, <1>2, TurnTyped

LEMMA VaultTyped ==
  ASSUME TypeInv, NEW key \in Keys, NEW x \in Secrets, db' = [db EXCEPT !.vault = Stored(@, key, x)]
  PROVE  /\ db' \in DbType /\ db'.rows = db.rows
         /\ db'.vault = [db.vault EXCEPT ![key] = x]
<1>1. PICK v \in [Keys -> Secrets \cup {None}] : v = [db.vault EXCEPT ![key] = x] BY DEF TypeInv, DbType
<1>2. db' = [db EXCEPT !.vault = v] BY <1>1 DEF Stored
<1> QED BY <1>1, <1>2 DEF TypeInv, DbType

LEMMA SaveSecretsTyped ==
  ASSUME TypeInv, WorkInv, NEW a \in Actors, SaveSecrets(a)
  PROVE  /\ TypeInv'
         /\ task[a].key \in Keys /\ task[a].credential.secrets \in Secrets
         /\ db'.rows = db.rows /\ db'.vault = [db.vault EXCEPT ![task[a].key] = task[a].credential.secrets]
         /\ task' = [task EXCEPT ![a] = Repace(task[a], "write")]
<1>1. Working(a) BY DEF SaveSecrets, Working
<1>2. task[a].key \in Keys /\ task[a].credential.secrets \in Secrets
  BY <1>1 DEF TypeInv, WorkInv, Fits, Working, TaskType, Credentials
<1>3. /\ db' \in DbType /\ db'.rows = db.rows
      /\ db'.vault = [db.vault EXCEPT ![task[a].key] = task[a].credential.secrets]
  BY <1>2, VaultTyped DEF SaveSecrets
<1>4. task' = [task EXCEPT ![a] = Repace(task[a], "write")] /\ task' \in [Actors -> TaskType]
  BY RepacedTyped DEF SaveSecrets, Pcs
<1>5. TypeInv' BY <1>3, <1>4 DEF TypeInv, SaveSecrets
<1> QED BY <1>2, <1>3, <1>4, <1>5

LEMMA RowFacts ==
  ASSUME TypeInv, NEW a \in Actors, task[a].server \in Servers
  PROVE  /\ Row(task[a]) \in RowType
         /\ Row(task[a]).config = task[a].credential.config
         /\ Row(task[a]).ref = Ref(server[task[a].server].backend, task[a].credential.secrets)
<1>1. server[task[a].server].backend \in Backends /\ task[a].credential \in Credentials
  BY DEF TypeInv, ServerType, TaskType
<1>2. Ref(server[task[a].server].backend, task[a].credential.secrets) \in RefType \cup {None}
  BY <1>1, RefFacts DEF Credentials
<1> QED BY <1>1, <1>2 DEF Row, RowType, Credentials

LEMMA WriteRowTyped ==
  ASSUME TypeInv, WorkInv, NEW a \in Actors, WriteRow(a)
  PROVE  /\ TypeInv'
         /\ task[a].key \in Keys
         /\ db'.vault = db.vault /\ db'.rows = [db.rows EXCEPT ![task[a].key] = Row(task[a])]
         /\ task' = [task EXCEPT ![a] = Repace(task[a], "audit")]
<1>1. Working(a) BY DEF WriteRow, Working
<1>2. task[a].key \in Keys /\ task[a].server \in Servers BY <1>1 DEF WorkInv, Fits, Working
<1>3. PICK r \in RowType : r = Row(task[a]) BY <1>2, RowFacts
<1>4. PICK v \in [Keys -> RowType \cup {None}] : v = [db.rows EXCEPT ![task[a].key] = r] BY DEF TypeInv, DbType
<1>5. db' = [db EXCEPT !.rows = v] BY <1>3, <1>4 DEF WriteRow
<1>6. db' \in DbType /\ db'.vault = db.vault /\ db'.rows = [db.rows EXCEPT ![task[a].key] = Row(task[a])]
  BY <1>3, <1>4, <1>5 DEF TypeInv, DbType
<1>7. task' = [task EXCEPT ![a] = Repace(task[a], "audit")] /\ task' \in [Actors -> TaskType]
  BY RepacedTyped DEF WriteRow, Pcs
<1>8. TypeInv' BY <1>6, <1>7 DEF TypeInv, WriteRow
<1> QED BY <1>2, <1>6, <1>7, <1>8

LEMMA SavesTyped ==
  ASSUME TypeInv, WorkInv, NEW a \in Actors, Saves(a)
  PROVE  /\ TypeInv'
         /\ task[a].key \in Keys
         /\ task' = [task EXCEPT ![a] = Repace(task[a], "answered")]
         /\ history'.clean = history.clean /\ history'.writes = history.writes
         /\ \A k \in Keys :
              /\ history'.version[k] = IF k = task[a].key THEN history.version[k] + 1 ELSE history.version[k]
              /\ history'.expect[k] = IF k = task[a].key THEN IF history.clean[k] THEN Made(task[a]) ELSE {}
                                      ELSE history.expect[k]
<1>1. Working(a) BY DEF Saves, Working
<1>2. task[a].key \in Keys /\ task[a] \in TaskType BY <1>1 DEF WorkInv, TypeInv, Fits, Working
<1>3. Made(task[a]) \in SUBSET Credentials BY <1>2, MadeTyped
<1>4. PICK key \in Keys : key = task[a].key BY <1>2
<1>5. PICK h : h = Ended(key, Made(task[a])) OBVIOUS
<1>6. /\ h \in HistoryType /\ h.writes = history.writes /\ h.clean = history.clean
      /\ h.version = history.version
      /\ \A k \in Keys : h.expect[k] = IF k = key THEN IF history.clean[key] THEN Made(task[a]) ELSE {}
                                       ELSE history.expect[k]
  BY <1>3, <1>5, EndedFacts
<1>7. history' = [h EXCEPT !.version[key] = @ + 1] BY <1>4, <1>5 DEF Saves
<1>8. /\ history' \in HistoryType /\ history'.clean = h.clean /\ history'.expect = h.expect
      /\ history'.writes = h.writes
      /\ \A k \in Keys : history'.version[k] = IF k = key THEN h.version[k] + 1 ELSE h.version[k]
  BY <1>6, <1>7, VersionFacts
<1>9. task' = [task EXCEPT ![a] = Repace(task[a], "answered")] /\ task' \in [Actors -> TaskType]
  BY RepacedTyped DEF Saves, Pcs
<1>10. TypeInv' BY <1>8, <1>9 DEF TypeInv, Saves
<1> QED BY <1>4, <1>6, <1>8, <1>9, <1>10

LEMMA FailsTyped ==
  ASSUME TypeInv, WorkInv, NEW a \in Actors, Fails(a)
  PROVE  /\ TypeInv'
         /\ task[a].key \in Keys
         /\ task' = [task EXCEPT ![a] = Repace(task[a], "failed")]
         /\ IF task[a].op \in Writing THEN Doubts(history', {task[a].key}) ELSE history' = history
         /\ db'.rows = db.rows
         /\ \/ db' = db
            \/ task[a].pc = "save" /\ db'.vault = [db.vault EXCEPT ![task[a].key] = task[a].credential.secrets]
<1>1. Working(a) BY DEF Fails, Working
<1>2. task[a].key \in Keys /\ task[a].credential.secrets \in Secrets
  BY <1>1 DEF TypeInv, WorkInv, Fits, Working, TaskType, Credentials
<1>3. /\ db' \in DbType /\ db'.rows = db.rows
      /\ \/ db' = db
         \/ task[a].pc = "save" /\ db'.vault = [db.vault EXCEPT ![task[a].key] = task[a].credential.secrets]
  <2>1. CASE UNCHANGED db BY <2>1 DEF TypeInv
  <2>2. CASE task[a].pc = "save" /\ db' = [db EXCEPT !.vault = Stored(@, task[a].key, task[a].credential.secrets)]
    BY <1>2, <2>2, VaultTyped
  <2> QED BY <2>1, <2>2 DEF Fails
<1>4. task' = [task EXCEPT ![a] = Repace(task[a], "failed")] /\ task' \in [Actors -> TaskType]
  BY RepacedTyped DEF Fails, Pcs
<1>5. /\ history' \in HistoryType
      /\ IF task[a].op \in Writing THEN Doubts(history', {task[a].key}) ELSE history' = history
  <2>1. CASE task[a].op \in Writing BY <2>1, DoubtedFacts DEF Fails
  <2>2. CASE task[a].op \notin Writing BY <2>2 DEF Fails, TypeInv
  <2> QED BY <2>1, <2>2
<1>6. scenario' \in Scenario BY FaultTyped DEF Fails
<1>7. TypeInv' BY <1>3, <1>4, <1>5, <1>6 DEF TypeInv, Fails
<1> QED BY <1>2, <1>3, <1>4, <1>5, <1>7

(* a request is answered, or the next one is seeded *)
Ends(a) ==
  /\ task[a].pc \in {"answered", "failed"}
  /\ task' = [task EXCEPT ![a] = Idle]
  /\ UNCHANGED <<scenario, db, flow, time, history>>
  /\ a \in Slots => server' = server
  /\ a \in Servers => \E r : /\ server' = [server EXCEPT ![a] = r] /\ r \in ServerType
                             /\ r.backend = server[a].backend /\ r.todo = server[a].todo
                             /\ r.moving = server[a].moving
                             /\ r.stage = IF r.seeds = {} THEN "up" ELSE server[a].stage

LEMMA IdleTurn ==
  ASSUME TypeInv, NEW a \in Actors, task' = [task EXCEPT ![a] = Idle]
  PROVE  task' \in [Actors -> TaskType]
BY IdleTyped, TurnTyped

LEMMA AnsweredTyped ==
  ASSUME TypeInv, NEW h \in Slots, Answered(h)
  PROVE  TypeInv' /\ Ends(h) /\ tab' = tab
<1>1. h \in Actors /\ h \notin Servers BY ActorsSplit DEF Actors
<1>2. task' \in [Actors -> TaskType] BY <1>1, IdleTurn DEF Answered
<1> QED BY <1>1, <1>2 DEF TypeInv, Answered, Ends

LEMMA SeededTyped ==
  ASSUME TypeInv, NEW s \in Servers, Seeded(s)
  PROVE  TypeInv' /\ Ends(s) /\ tab' = tab
<1>1. s \in Actors /\ s \notin Slots BY ActorsSplit DEF Actors
<1>2. task' \in [Actors -> TaskType] BY <1>1, IdleTurn DEF Seeded
<1>3. PICK left \in SUBSET Providers :
        left = IF task[s].pc = "failed" THEN {} ELSE server[s].seeds \ {task[s].key[2]}
  BY DEF TypeInv, ServerType
<1>4. PICK stage \in Stages : stage = IF left = {} THEN "up" ELSE server[s].stage BY DEF TypeInv, ServerType, Stages
<1>5. PICK r : r = [server[s] EXCEPT !.seeds = left, !.stage = stage] OBVIOUS
<1>6. server' = [server EXCEPT ![s] = r] BY <1>3, <1>4, <1>5 DEF Seeded, TypeInv
<1>7. /\ r \in ServerType /\ r.backend = server[s].backend /\ r.todo = server[s].todo
      /\ r.moving = server[s].moving /\ r.seeds = left /\ r.stage = stage
  BY <1>5 DEF TypeInv, ServerType
<1>8. server' \in [Servers -> ServerType] BY <1>6, <1>7 DEF TypeInv
<1>9. TypeInv' /\ tab' = tab BY <1>2, <1>8 DEF TypeInv, Seeded
<1>10. Ends(s) BY <1>1, <1>4, <1>6, <1>7 DEF Seeded, Ends
<1> QED BY <1>9, <1>10

LEMMA FilledTyped ==
  ASSUME TypeInv, NEW t \in TaskType, t.key \in Keys
  PROVE  /\ Filled(t) \in TabType
         /\ \E c \in Credentials :
              /\ c = NoCredential \/ c = t.credential
              /\ Filled(t).draft = c /\ Filled(t).form = FormOf(t.key[2], c)
              /\ Filled(t).wants = tab.wants
<1>1. PICK c \in Credentials : c = IF t.pc = "answered" THEN t.credential ELSE NoCredential
  BY Names DEF TaskType
<1>2. PICK p \in Providers : p = t.key[2] BY KeyFacts
<1>3. PICK form \in Forms : form = FormOf(p, c) BY FormFacts
<1>4. PICK b \in BOOLEAN : b = (p # tab.provider) OBVIOUS
<1>5. PICK e \in BOOLEAN : e = (c.config.connectedEmail # None) OBVIOUS
<1>6. PICK g \in BOOLEAN : g = (t.pc = "failed") OBVIOUS
<1>10. PICK n \in Nat \cup {None} : n = t.since BY DEF TaskType
<1>7. PICK u : u = [tab EXCEPT !.late = b, !.form = form, !.draft = c, !.edited = FALSE, !.email = e, !.failed = g,
                      !.since = n]
  OBVIOUS
<1>8. Filled(t) = u BY <1>1, <1>2, <1>3, <1>4, <1>5, <1>6, <1>7, <1>10 DEF Filled
<1>11. tab \in TabType BY DEF TypeInv
<1>12. PICK v : v = [tab EXCEPT !.late = b, !.form = form, !.draft = c, !.edited = FALSE] OBVIOUS
<1>13. v \in TabType /\ v.draft = c /\ v.form = form /\ v.wants = tab.wants
  BY <1>11, <1>12 DEF TabType
<1>14. u = [v EXCEPT !.email = e, !.failed = g, !.since = n] BY <1>7, <1>11, <1>12 DEF TabType
<1>9. u \in TabType /\ u.draft = c /\ u.form = form /\ u.wants = tab.wants
  BY <1>13, <1>14 DEF TabType
<1> QED BY <1>1, <1>2, <1>3, <1>8, <1>9

LEMMA WantsTyped ==
  /\ Wants("list", "stripe", NoPatch) \in WantType
  /\ \A p \in Providers : /\ Wants("get", p, NoPatch) \in WantType
                          /\ Wants("disconnect", p, Disconnected) \in WantType
                          /\ \A c \in Credentials : Wants("put", p, c) \in WantType
<1>1. NoPatch \in PatchType /\ Disconnected \in PatchType BY OauthFacts
<1>2. \A c \in Credentials : c \in PatchType BY DEF Credentials, PatchType
<1> QED BY <1>1, <1>2 DEF Wants, WantType, Providers

LEMMA TabAnsweredTyped ==
  ASSUME TypeInv, WorkInv, NEW h \in Slots, TabAnswered(h)
  PROVE  /\ TypeInv' /\ Ends(h)
         /\ \/ /\ tab'.form = tab.form /\ tab'.draft = tab.draft
               /\ tab'.wants \subseteq tab.wants \cup {Wants("list", "stripe", NoPatch)}
            \/ /\ tab'.wants = tab.wants /\ task[h].key \in Keys /\ task[h].from = "tab"
               /\ \E c \in Credentials : /\ c = NoCredential \/ c = task[h].credential
                                         /\ tab'.draft = c /\ tab'.form = FormOf(task[h].key[2], c)
<1>1. h \in Actors /\ h \notin Servers BY ActorsSplit DEF Actors
<1>2. task' \in [Actors -> TaskType] BY <1>1, IdleTurn DEF TabAnswered
<1>3. PICK t \in TaskType : t = task[h] BY <1>1 DEF TypeInv
<1>4. t.pc \in {"answered", "failed"} /\ t.from = "tab" BY <1>3 DEF TabAnswered
<1>5. t.key \in Keys BY <1>1, <1>3, <1>4 DEF WorkInv, Fits
<1>6. Ends(h) BY <1>1 DEF TabAnswered, Ends
<1>7. UNCHANGED <<scenario, db, server, flow, time, history>> BY DEF TabAnswered
<1>8. PICK list \in WantType : list = Wants("list", "stripe", NoPatch) BY WantsTyped
<1>9. PICK wants \in SUBSET WantType : wants = tab.wants \cup {list} BY DEF TypeInv, TabType
<1>10. tab \in TabType BY DEF TypeInv
<1>11. CASE t.op = "get"
  <2>1. tab' = Filled(t) BY <1>3, <1>11 DEF TabAnswered
  <2>2. tab' \in TabType BY <1>5, <2>1, FilledTyped
  <2>3. TypeInv' BY <1>2, <1>7, <2>2 DEF TypeInv
  <2> QED BY <1>3, <1>4, <1>5, <1>6, <2>1, <2>3, FilledTyped
<1>12. CASE t.op # "get"
  <2>1. PICK u : u = tab' OBVIOUS
  <2>2. PICK since \in Nat \cup {None} :
          since = IF ~OauthConnect(tab.provider) THEN tab.since ELSE IF t.since = None THEN None ELSE t.since + 1
    <3>1. tab.since \in Nat \cup {None} BY <1>10 DEF TabType
    <3>2. t.since \in Nat \cup {None} BY DEF TaskType
    <3>3. PICK m : m = IF t.since = None THEN None ELSE t.since + 1 OBVIOUS
    <3>4. m \in Nat \cup {None} BY <3>2, <3>3
    <3> QED BY <3>1, <3>3, <3>4
  <2>3. t.items \in SUBSET Providers /\ t.since \in Nat \cup {None} BY DEF TaskType
  <2>4. \/ u = [tab EXCEPT !.failed = TRUE, !.busy = FALSE]
        \/ u = [tab EXCEPT !.items = t.items, !.listed = t.since, !.busy = FALSE]
        \/ u = [tab EXCEPT !.wants = wants]
        \/ u = [tab EXCEPT !.email = FALSE, !.wants = wants, !.since = since]
    BY <1>3, <1>8, <1>9, <1>12, <2>1, <2>2 DEF TabAnswered
  <2>5. u \in TabType /\ u.form = tab.form /\ u.draft = tab.draft
        /\ (u.wants = tab.wants \/ u.wants = wants)
    <3>1. CASE u = [tab EXCEPT !.failed = TRUE, !.busy = FALSE] BY <1>10, <3>1 DEF TabType
    <3>2. CASE u = [tab EXCEPT !.items = t.items, !.listed = t.since, !.busy = FALSE]
      BY <1>10, <2>3, <3>2 DEF TabType
    <3>3. CASE u = [tab EXCEPT !.wants = wants] BY <1>10, <3>3 DEF TabType
    <3>4. CASE u = [tab EXCEPT !.email = FALSE, !.wants = wants, !.since = since]
      BY <1>10, <2>2, <3>4 DEF TabType
    <3> QED BY <2>4, <3>1, <3>2, <3>3, <3>4
  <2>6. TypeInv' BY <1>2, <1>7, <2>1, <2>5 DEF TypeInv
  <2> QED BY <1>6, <1>8, <1>9, <2>1, <2>5, <2>6
<1> QED BY <1>11, <1>12

LEMMA FreshTyped ==
  /\ Fresh \in ServerType /\ Fresh.stage = "down" /\ Fresh.todo = {} /\ Fresh.moving = {} /\ Fresh.seeds = {}
BY DEF Fresh, ServerType, Stages, Backends

LEMMA ServerTurn ==
  ASSUME TypeInv, NEW s \in Servers, NEW r \in ServerType, server' = [server EXCEPT ![s] = r]
  PROVE  server' \in [Servers -> ServerType]
BY DEF TypeInv

LEMMA StartUpTyped ==
  ASSUME TypeInv, NEW s \in Servers, StartUp(s)
  PROVE  /\ TypeInv'
         /\ UNCHANGED <<scenario, db, task, flow, tab, time, history>> /\ server[s].stage = "down"
         /\ \E r \in ServerType :
              /\ server' = [server EXCEPT ![s] = r]
              /\ r.backend \in scenario.backends /\ r.todo = {} /\ r.moving = {}
              /\ r.stage = IF r.backend = "vault" /\ scenario.migrates THEN "selecting" ELSE "building"
<1>1. UNCHANGED <<scenario, db, task, flow, tab, time, history>> /\ server[s].stage = "down" BY DEF StartUp
<1>2. PICK b \in scenario.backends :
        server' = [server EXCEPT ![s] = [Fresh EXCEPT !.backend = b,
                     !.stage = IF b = "vault" /\ scenario.migrates THEN "selecting" ELSE "building"]]
  BY DEF StartUp
<1>3. b \in Backends BY DEF TypeInv, Scenario
<1>4. PICK stage \in Stages : stage = IF b = "vault" /\ scenario.migrates THEN "selecting" ELSE "building"
  BY DEF Stages
<1>5. PICK r : r = [Fresh EXCEPT !.backend = b, !.stage = stage] OBVIOUS
<1>6. r \in ServerType /\ r.backend = b /\ r.todo = {} /\ r.moving = {} /\ r.stage = stage
  BY <1>3, <1>5, FreshTyped DEF ServerType
<1>7. server' = [server EXCEPT ![s] = r] BY <1>2, <1>4, <1>5
<1>8. server' \in [Servers -> ServerType] BY <1>6, <1>7, ServerTurn
<1>9. TypeInv' BY <1>1, <1>8 DEF TypeInv
<1> QED BY <1>1, <1>4, <1>6, <1>7, <1>9

LEMMA LegacyFacts ==
  ASSUME TypeInv
  PROVE  /\ Legacy \in SUBSET MoveType
         /\ \A x \in Legacy : /\ db.rows[x.key] # None /\ db.rows[x.key].ref = Encrypted(x.secrets)
                              /\ db.rows[x.key].ref # None
         /\ \A key \in Keys : Plain(key) => \E x \in Legacy : x.key = key
         /\ \A x, y \in Legacy : x.key = y.key => x = y
<1>1. ASSUME NEW x \in Legacy
      PROVE  /\ x \in MoveType /\ db.rows[x.key] # None /\ db.rows[x.key].ref = Encrypted(x.secrets)
             /\ db.rows[x.key].ref # None /\ x.secrets = db.rows[x.key].ref.secrets
  <2>1. PICK key \in Keys : /\ x = [key |-> key, secrets |-> db.rows[key].ref.secrets]
                            /\ db.rows[key] # None /\ db.rows[key].ref # None /\ db.rows[key].ref.kind = "encrypted"
    BY DEF Legacy
  <2>2. db.rows[key].ref \in RefType BY <2>1, RowTyped
  <2> QED BY <2>1, <2>2 DEF MoveType, RefType, Encrypted
<1>2. \A key \in Keys : Plain(key) => \E x \in Legacy : x.key = key
  <2> TAKE key \in Keys
  <2> HAVE Plain(key)
  <2>1. [key |-> key, secrets |-> db.rows[key].ref.secrets] \in Legacy BY DEF Plain, Legacy
  <2> QED BY <2>1
<1>3. \A x, y \in Legacy : x.key = y.key => x = y
  <2> SUFFICES ASSUME NEW x \in Legacy, NEW y \in Legacy, x.key = y.key PROVE x = y OBVIOUS
  <2>1. x.secrets = y.secrets /\ x \in MoveType /\ y \in MoveType BY <1>1
  <2> QED BY <2>1 DEF MoveType
<1> QED BY <1>1, <1>2, <1>3

LEMMA MigrateSelectTyped ==
  ASSUME TypeInv, NEW s \in Servers, MigrateSelect(s)
  PROVE  /\ TypeInv'
         /\ UNCHANGED <<scenario, db, task, flow, tab, time>> /\ server[s].stage = "selecting"
         /\ history'.writes = history.writes /\ Enters(history', {x.key : x \in Legacy})
         /\ \E r \in ServerType :
              /\ server' = [server EXCEPT ![s] = r]
              /\ r.backend = server[s].backend /\ r.todo = Legacy /\ r.moving = server[s].moving
              /\ r.stage = "migrating"
<1>1. UNCHANGED <<scenario, db, task, flow, tab, time>> /\ server[s].stage = "selecting" BY DEF MigrateSelect
<1>2. /\ history' \in HistoryType /\ Enters(history', {x.key : x \in Legacy})
      /\ history'.writes = history.writes
  BY BegunFacts DEF MigrateSelect
<1>3. PICK r : r = [server[s] EXCEPT !.stage = "migrating", !.todo = Legacy] OBVIOUS
<1>4. /\ r \in ServerType /\ r.backend = server[s].backend /\ r.todo = Legacy /\ r.moving = server[s].moving
      /\ r.stage = "migrating"
  BY <1>3, LegacyFacts, ZenonT(40) DEF TypeInv, ServerType, Stages
<1>5. server' = [server EXCEPT ![s] = r] BY <1>3 DEF MigrateSelect, TypeInv
<1>6. server' \in [Servers -> ServerType] BY <1>4, <1>5, ServerTurn
<1>7. TypeInv' BY <1>1, <1>2, <1>6 DEF TypeInv
<1> QED BY <1>1, <1>2, <1>4, <1>5, <1>7

LEMMA MigrateSaveTyped ==
  ASSUME TypeInv, NEW s \in Servers, MigrateSave(s)
  PROVE  /\ TypeInv'
         /\ UNCHANGED <<scenario, task, flow, tab, time, history>>
         /\ server[s].stage = "migrating" /\ server[s].moving = {}
         /\ \E x \in server[s].todo :
              /\ x \in MoveType
              /\ db'.rows = db.rows /\ db'.vault = [db.vault EXCEPT ![x.key] = x.secrets]
              /\ \E r \in ServerType :
                   /\ server' = [server EXCEPT ![s] = r]
                   /\ r.backend = server[s].backend /\ r.todo = server[s].todo /\ r.moving = {x}
                   /\ r.stage = server[s].stage /\ r.seeds = server[s].seeds
<1>1. /\ UNCHANGED <<scenario, task, flow, tab, time, history>>
      /\ server[s].stage = "migrating" /\ server[s].moving = {}
  BY DEF MigrateSave
<1>2. PICK x \in server[s].todo : /\ db' = [db EXCEPT !.vault = Stored(@, x.key, x.secrets)]
                                  /\ server' = [server EXCEPT ![s].moving = {x}]
  BY DEF MigrateSave
<1>3. x \in MoveType BY DEF TypeInv, ServerType
<1>4. db' \in DbType /\ db'.rows = db.rows /\ db'.vault = [db.vault EXCEPT ![x.key] = x.secrets]
  BY <1>2, <1>3, VaultTyped DEF MoveType
<1>5. PICK r : r = [server[s] EXCEPT !.moving = {x}] OBVIOUS
<1>6. /\ r \in ServerType /\ r.backend = server[s].backend /\ r.todo = server[s].todo /\ r.moving = {x}
      /\ r.stage = server[s].stage /\ r.seeds = server[s].seeds
  BY <1>3, <1>5 DEF TypeInv, ServerType
<1>7. server' = [server EXCEPT ![s] = r] BY <1>2, <1>5 DEF TypeInv
<1>8. server' \in [Servers -> ServerType] BY <1>6, <1>7, ServerTurn
<1>9. TypeInv' BY <1>1, <1>4, <1>8 DEF TypeInv
<1> QED BY <1>1, <1>3, <1>4, <1>6, <1>7, <1>9

LEMMA MigrateWriteTyped ==
  ASSUME TypeInv, WorkInv, VaultInv, NEW s \in Servers, MigrateWrite(s)
  PROVE  /\ TypeInv'
         /\ UNCHANGED <<scenario, task, flow, tab, time>>
         /\ \E x \in server[s].moving :
              /\ x \in MoveType
              /\ db'.vault = db.vault
              /\ db'.rows = [db.rows EXCEPT ![x.key] = [config |-> db.rows[x.key].config, ref |-> InVault]]
              /\ \E r \in ServerType :
                   /\ server' = [server EXCEPT ![s] = r]
                   /\ r.backend = server[s].backend /\ r.todo = server[s].todo \ {x} /\ r.moving = {}
                   /\ r.stage = server[s].stage /\ r.seeds = server[s].seeds
              /\ history'.writes = history.writes /\ history'.clean = history.clean
              /\ history'.version = history.version
              /\ \A k \in Keys : history'.expect[k] = IF k = x.key /\ ~history.clean[k] THEN {} ELSE history.expect[k]
<1>1. UNCHANGED <<scenario, task, flow, tab, time>> BY DEF MigrateWrite
<1>2. PICK x \in server[s].moving :
       /\ db' = [db EXCEPT !.rows[x.key].ref = InVault]
       /\ server' = [server EXCEPT ![s].moving = {}, ![s].todo = @ \ {x}]
       /\ history' = Ended(x.key, history.expect[x.key])
  BY DEF MigrateWrite
<1>3. x \in MoveType /\ x.key \in Keys BY DEF TypeInv, ServerType, MoveType
<1>25. x \in server[s].todo BY DEF WorkInv, Ready
<1>26. db.rows[x.key] # None BY <1>25 DEF VaultInv, ServerKept
<1>4. PICK row \in RowType : row = db.rows[x.key] BY <1>3, <1>26, RowTyped
<1>5. PICK n \in RowType : n = [config |-> row.config, ref |-> InVault]
  BY Names DEF RowType, InVault, RefType, Backends
<1>6. PICK v \in [Keys -> RowType \cup {None}] : v = [db.rows EXCEPT ![x.key] = n] BY DEF TypeInv, DbType
<1>7. [db.rows EXCEPT ![x.key].ref = InVault] = v BY <1>3, <1>4, <1>5, <1>6 DEF TypeInv, DbType, RowType
<1>8. db' = [db EXCEPT !.rows = v] BY <1>2, <1>7
<1>9. db' \in DbType /\ db'.vault = db.vault /\ db'.rows = v BY <1>6, <1>8 DEF TypeInv, DbType
<1>10. PICK todo \in SUBSET MoveType : todo = server[s].todo \ {x} BY DEF TypeInv, ServerType
<1>11. PICK r : r = [server[s] EXCEPT !.moving = {}, !.todo = todo] OBVIOUS
<1>12. /\ r \in ServerType /\ r.backend = server[s].backend /\ r.todo = todo /\ r.moving = {}
       /\ r.stage = server[s].stage /\ r.seeds = server[s].seeds
  BY <1>11 DEF TypeInv, ServerType
<1>13. server' = [server EXCEPT ![s] = r] BY <1>2, <1>10, <1>11 DEF TypeInv
<1>14. server' \in [Servers -> ServerType] BY <1>12, <1>13, ServerTurn
<1>15. PICK key \in Keys : key = x.key BY <1>3
<1>16. PICK made \in SUBSET Credentials : made = history.expect[key] BY DEF TypeInv, HistoryType
<1>17. history' = Ended(key, made) BY <1>2, <1>15, <1>16
<1>18. /\ history' \in HistoryType /\ history'.writes = history.writes /\ history'.clean = history.clean
       /\ history'.version = history.version
       /\ \A k \in Keys : history'.expect[k] = IF k = key THEN IF history.clean[key] THEN made ELSE {}
                                               ELSE history.expect[k]
  BY <1>17, EndedFacts
<1>19. \A k \in Keys : history'.expect[k] = IF k = x.key /\ ~history.clean[k] THEN {} ELSE history.expect[k]
  BY <1>15, <1>16, <1>18
<1>20. TypeInv' BY <1>1, <1>9, <1>14, <1>18 DEF TypeInv
<1>21. db'.rows = [db.rows EXCEPT ![x.key] = [config |-> db.rows[x.key].config, ref |-> InVault]]
  BY <1>4, <1>5, <1>6, <1>9
<1>22. \E q \in ServerType :
         /\ server' = [server EXCEPT ![s] = q]
         /\ q.backend = server[s].backend /\ q.todo = server[s].todo \ {x} /\ q.moving = {}
         /\ q.stage = server[s].stage /\ q.seeds = server[s].seeds
  BY <1>10, <1>12, <1>13
<1>23. db'.vault = db.vault BY <1>9
<1>24. /\ history'.writes = history.writes /\ history'.clean = history.clean
       /\ history'.version = history.version
  BY <1>18
<1> QED BY <1>1, <1>3, <1>19, <1>20, <1>21, <1>22, <1>23, <1>24

LEMMA BuildTyped ==
  ASSUME TypeInv, NEW s \in Servers, Build(s)
  PROVE  /\ TypeInv'
         /\ UNCHANGED <<scenario, db, task, flow, tab, time, history>>
         /\ server[s].stage = "building" \/ (server[s].stage = "migrating" /\ server[s].todo = {})
         /\ \E r \in ServerType :
              /\ server' = [server EXCEPT ![s] = r]
              /\ r.backend = server[s].backend /\ r.todo = server[s].todo /\ r.moving = server[s].moving
              /\ r.stage \in {"up", "seeding", "stopped"} /\ (r.stage = "seeding" => r.seeds # {})
<1>1. /\ UNCHANGED <<scenario, db, task, flow, tab, time, history>>
      /\ server[s].stage = "building" \/ (server[s].stage = "migrating" /\ server[s].todo = {})
  BY DEF Build
<1>2. PICK seeds \in SUBSET Providers : seeds = {p \in Providers : scenario.seeds /\ Seeds(p, scenario.env)}
  OBVIOUS
<1>3. PICK stage \in Stages : stage = IF seeds = {} THEN "up" ELSE "seeding" BY DEF Stages
<1>4. \E r : /\ r = [server[s] EXCEPT !.seeds = seeds, !.stage = stage] \/ r = [server[s] EXCEPT !.stage = "stopped"]
             /\ server' = [server EXCEPT ![s] = r]
  BY <1>2, <1>3 DEF Build, TypeInv
<1>5. PICK r : /\ r = [server[s] EXCEPT !.seeds = seeds, !.stage = stage] \/ r = [server[s] EXCEPT !.stage = "stopped"]
               /\ server' = [server EXCEPT ![s] = r]
  BY <1>4
<1>6. /\ r \in ServerType /\ r.backend = server[s].backend /\ r.todo = server[s].todo
      /\ r.moving = server[s].moving /\ r.stage \in {"up", "seeding", "stopped"}
      /\ r.stage = "seeding" => r.seeds # {}
  BY <1>3, <1>5 DEF TypeInv, ServerType, Stages
<1>7. server' \in [Servers -> ServerType] BY <1>5, <1>6, ServerTurn
<1>8. TypeInv' BY <1>1, <1>7 DEF TypeInv
<1> QED BY <1>1, <1>5, <1>6, <1>8

(* the requests and the seeding that a crash cuts short *)
Lost(s) == {a \in Actors : Working(a) /\ task[a].server = s}
LostKeys(s) ==
  {task[a].key : a \in {b \in Lost(s) : task[b].op \in Writing}} \cup
  {k \in {x.key : x \in server[s].todo} : ~history.clean[k]}
AfterCrash(s, a) == IF a = s THEN Idle ELSE IF a \in Lost(s) THEN Repace(task[a], "failed") ELSE task[a]

LEMMA CrashTyped ==
  ASSUME TypeInv, NEW s \in Servers, Crash(s)
  PROVE  /\ TypeInv'
         /\ UNCHANGED <<db, flow, tab, time>>
         /\ scenario'.backends = scenario.backends /\ scenario'.migrates = scenario.migrates
         /\ server' = [server EXCEPT ![s] = Fresh]
         /\ \A a \in Actors : task'[a] = AfterCrash(s, a)
         /\ Doubts(history', LostKeys(s))
<1>1. UNCHANGED <<db, flow, tab, time>> /\ server' = [server EXCEPT ![s] = Fresh] BY DEF Crash
<1>2. task' = [a \in Actors |-> AfterCrash(s, a)] BY DEF Crash, Actors, AfterCrash, Repace, Lost
<1>3. \A a \in Actors : AfterCrash(s, a) \in TaskType
  BY IdleTyped, Repaced DEF AfterCrash, TypeInv, Pcs
<1>4. task' \in [Actors -> TaskType] /\ \A a \in Actors : task'[a] = AfterCrash(s, a) BY <1>2, <1>3
<1>5. history' = Doubted(LostKeys(s)) BY DEF Crash, LostKeys, Lost, Actors
<1>6. history' \in HistoryType /\ Doubts(history', LostKeys(s)) BY <1>5, DoubtedFacts
<1>7. server' \in [Servers -> ServerType] BY <1>1, FreshTyped, ServerTurn
<1>8. scenario' \in Scenario BY FaultTyped DEF Crash
<1>9. TypeInv' BY <1>1, <1>4, <1>6, <1>7, <1>8 DEF TypeInv
<1>10. scenario'.backends = scenario.backends /\ scenario'.migrates = scenario.migrates
  BY DEF Crash, Fault, TypeInv, Scenario
<1> QED BY <1>1, <1>4, <1>6, <1>9, <1>10

(* the page and the consent page leave the store, the processes and the    *)
(* requests alone *)
Apart == UNCHANGED <<db, server, task>> /\ SameOrder(history')

LEMMA SignedTyped ==
  ASSUME TypeInv, NEW subject \in Subjects
  PROVE  /\ Signed(subject) \in FlowType /\ Signed(subject).token = 0
         /\ Append(flow, Signed(subject)) \in Seq(FlowType)
<1>1. time + StateTTL \in Nat BY TimeAssumption DEF TypeInv
<1>2. Signed(subject) \in FlowType /\ Signed(subject).token = 0 BY <1>1 DEF Signed, FlowType
<1> QED BY <1>2 DEF TypeInv

LEMMA OauthStartTyped ==
  ASSUME TypeInv, OauthStart
  PROVE  /\ TypeInv' /\ Apart /\ tab' = tab /\ history' = history
         /\ \E subject \in Subjects : flow' = Append(flow, Signed(subject))
<1>1. scenario' \in Scenario BY CountedTyped DEF OauthStart, Kinds
<1>2. PICK subject \in Subjects : flow' = Append(flow, Signed(subject)) BY DEF OauthStart
<1>3. flow' \in Seq(FlowType) BY <1>2, SignedTyped
<1>4. UNCHANGED <<db, server, task, tab, time, history>> BY DEF OauthStart
<1> QED BY <1>1, <1>2, <1>3, <1>4 DEF TypeInv, Apart, SameOrder

LEMMA TickTyped ==
  ASSUME TypeInv, Tick
  PROVE  TypeInv' /\ Apart /\ UNCHANGED <<flow, tab, history>>
<1>1. UNCHANGED <<scenario, db, server, task, flow, tab, history>> /\ time' = time + 1 /\ time < MaxTime BY DEF Tick
<1>2. time' \in Nat /\ time' <= MaxTime BY <1>1, TimeAssumption DEF TypeInv
<1> QED BY <1>1, <1>2 DEF TypeInv, Apart, SameOrder

LEMMA ClosedTyped ==
  /\ Closed \in TabType /\ Closed.form = NoForm /\ Closed.draft = NoCredential /\ Closed.wants = {}
BY Names, NoneAssumption, ZenonT(60) DEF Closed, TabType, Providers

LEMMA VisitTyped ==
  ASSUME TypeInv, Visit
  PROVE  /\ TypeInv' /\ Apart /\ UNCHANGED <<flow, history>>
         /\ tab'.form = NoForm /\ tab'.draft = NoCredential
         /\ \A w \in tab'.wants : w.patch = NoPatch
<1>1. scenario' \in Scenario BY CountedTyped DEF Visit, Kinds
<1>2. PICK p \in scenario.providers :
        tab' = [Closed EXCEPT !.open = TRUE, !.provider = p,
                 !.wants = {Wants("list", "stripe", NoPatch), Wants("get", "stripe", NoPatch), Wants("get", p, NoPatch)}]
  BY DEF Visit
<1>3. p \in Providers /\ "stripe" \in Providers BY DEF TypeInv, Scenario, Providers
<1>4. PICK wants \in SUBSET WantType :
        wants = {Wants("list", "stripe", NoPatch), Wants("get", "stripe", NoPatch), Wants("get", p, NoPatch)}
  BY <1>3, WantsTyped
<1>5. \A w \in wants : w.patch = NoPatch BY <1>4 DEF Wants
<1>6. tab' = [Closed EXCEPT !.open = TRUE, !.provider = p, !.wants = wants] BY <1>2, <1>4
<1>7. tab' \in TabType /\ tab'.form = NoForm /\ tab'.draft = NoCredential /\ tab'.wants = wants
  BY <1>3, <1>6, ClosedTyped DEF TabType
<1>8. UNCHANGED <<db, server, task, flow, time, history>> BY DEF Visit
<1> QED BY <1>1, <1>5, <1>7, <1>8 DEF TypeInv, Apart, SameOrder

LEMMA ChooseTyped ==
  ASSUME TypeInv, Choose
  PROVE  /\ TypeInv' /\ Apart /\ UNCHANGED <<flow, history>>
         /\ tab'.form = tab.form /\ tab'.draft = tab.draft
         /\ \A w \in tab'.wants : w \in tab.wants \/ w.patch = NoPatch
<1>1. scenario' \in Scenario BY CountedTyped DEF Choose, Kinds
<1>2. PICK p \in scenario.providers : tab' = Chosen(p) BY DEF Choose
<1>3. p \in Providers BY DEF TypeInv, Scenario
<1>4. PICK wants \in SUBSET WantType : wants = tab.wants \cup {Wants("get", p, NoPatch)}
  BY <1>3, WantsTyped DEF TypeInv, TabType
<1>5. \A w \in wants : w \in tab.wants \/ w.patch = NoPatch BY <1>4 DEF Wants
<1>6. tab' = [tab EXCEPT !.provider = p, !.wants = wants] BY <1>2, <1>4 DEF Chosen
<1>7. tab' \in TabType /\ tab'.form = tab.form /\ tab'.draft = tab.draft /\ tab'.wants = wants
  BY <1>3, <1>6 DEF TabType, TypeInv
<1>8. UNCHANGED <<db, server, task, flow, time, history>> BY DEF Choose
<1> QED BY <1>1, <1>5, <1>7, <1>8 DEF TypeInv, Apart, SameOrder

LEMMA EditTyped ==
  ASSUME TypeInv, Edit
  PROVE  /\ TypeInv' /\ Apart /\ flow' = flow /\ history'.writes = history.writes + 1
         /\ tab'.draft = tab.draft /\ tab'.wants = tab.wants
         /\ \A k \in FieldKeys : tab'.form[k] = tab.form[k] \/ tab'.form[k].by = history.writes + 1
<1>1. scenario' \in Scenario BY CountedTyped DEF Edit, Kinds
<1>2. PICK f \in Fields[tab.provider] :
        tab' = [tab EXCEPT !.edited = TRUE, !.form[f.at.key] = Value(history.writes + 1, tab.provider, TRUE)]
  BY DEF Edit
<1>3. tab \in TabType /\ tab.provider \in Providers /\ tab.form \in Forms BY DEF TypeInv, TabType
<1>4. f.at.key \in FieldKeys BY <1>2, <1>3, FieldFacts
<1>5. PICK n \in Nat : n = history.writes + 1 BY DEF TypeInv, HistoryType
<1>6. Value(n, tab.provider, TRUE) \in Values /\ Value(n, tab.provider, TRUE).by = n
  BY <1>3 DEF Value, Values
<1>7. PICK v \in Values : v = Value(n, tab.provider, TRUE) /\ v.by = n BY <1>6
<1>8. PICK form \in Forms : form = [tab.form EXCEPT ![f.at.key] = v] BY <1>3 DEF Forms
<1>9. \A k \in FieldKeys : form[k] = tab.form[k] \/ form[k].by = n BY <1>3, <1>4, <1>7, <1>8 DEF Forms
<1>10. tab' = [tab EXCEPT !.edited = TRUE, !.form = form] BY <1>2, <1>3, <1>5, <1>7, <1>8 DEF TabType
<1>11. tab' \in TabType /\ tab'.draft = tab.draft /\ tab'.wants = tab.wants /\ tab'.form = form
  BY <1>3, <1>10 DEF TabType
<1>12. history' = [history EXCEPT !.writes = n] BY <1>5 DEF Edit
<1>13. history' \in HistoryType /\ SameOrder(history') /\ history'.writes = n
  BY <1>12 DEF TypeInv, HistoryType, SameOrder
<1>14. UNCHANGED <<db, server, task, flow, time>> BY DEF Edit
<1> QED BY <1>1, <1>5, <1>9, <1>11, <1>13, <1>14 DEF TypeInv, Apart

LEMMA SaveTyped ==
  ASSUME TypeInv, Save
  PROVE  /\ TypeInv' /\ Apart /\ flow' = flow /\ history'.writes = history.writes
         /\ tab'.draft = tab.draft /\ tab'.form = tab.form
         /\ \A w \in tab'.wants : \/ w \in tab.wants \/ w.patch = tab.draft
                                  \/ w.patch = Saved(tab.provider, tab.form)
<1>1. scenario' \in Scenario BY CountedTyped DEF Save, Kinds
<1>2. PICK advanced \in BOOLEAN :
       tab' = [tab EXCEPT !.busy = TRUE, !.since = None,
            !.wants = @ \cup {Wants("put", tab.provider,
                                    IF advanced THEN tab.draft ELSE Saved(tab.provider, tab.form))}]
  BY DEF Save
<1>3. tab \in TabType /\ tab.provider \in Providers /\ tab.form \in Forms /\ tab.draft \in Credentials
  BY DEF TypeInv, TabType
<1>4. PICK c \in Credentials : c = IF advanced THEN tab.draft ELSE Saved(tab.provider, tab.form)
  BY <1>3, SavedFacts
<1>5. Wants("put", tab.provider, c) \in WantType BY <1>3, WantsTyped
<1>6. PICK wants \in SUBSET WantType : wants = tab.wants \cup {Wants("put", tab.provider, c)}
  BY <1>3, <1>5 DEF TabType
<1>7. tab' = [tab EXCEPT !.busy = TRUE, !.since = None, !.wants = wants] BY <1>2, <1>4, <1>6
<1>8. /\ tab' \in TabType /\ tab'.draft = tab.draft /\ tab'.form = tab.form /\ tab'.wants = wants
  BY <1>3, <1>7 DEF TabType
<1>9. \A w \in wants : \/ w \in tab.wants \/ w.patch = tab.draft \/ w.patch = Saved(tab.provider, tab.form)
  BY <1>4, <1>6 DEF Wants
<1>10. PICK b \in BOOLEAN : b = (history.mixed \/ Loading \/ tab.late) OBVIOUS
<1>11. history' = [history EXCEPT !.mixed = b] BY <1>10 DEF Save
<1>12. history' \in HistoryType /\ SameOrder(history') /\ history'.writes = history.writes
  BY <1>11 DEF TypeInv, HistoryType, SameOrder
<1>13. UNCHANGED <<db, server, task, flow, time>> BY DEF Save
<1> QED BY <1>1, <1>8, <1>9, <1>12, <1>13 DEF TypeInv, Apart

LEMMA TabDisconnectTyped ==
  ASSUME TypeInv, TabDisconnect
  PROVE  /\ TypeInv' /\ Apart /\ UNCHANGED <<flow, history>>
         /\ tab'.draft = tab.draft /\ tab'.form = tab.form
         /\ \A w \in tab'.wants : w \in tab.wants \/ w.patch = Disconnected
<1>1. scenario' \in Scenario BY CountedTyped DEF TabDisconnect, Kinds
<1>2. tab \in TabType /\ tab.provider \in Providers BY DEF TypeInv, TabType
<1>3. PICK wants \in SUBSET WantType : wants = tab.wants \cup {Wants("disconnect", tab.provider, Disconnected)}
  BY <1>2, WantsTyped DEF TabType
<1>4. tab' = [tab EXCEPT !.busy = TRUE, !.since = None, !.wants = wants] BY <1>3 DEF TabDisconnect
<1>5. /\ tab' \in TabType /\ tab'.draft = tab.draft /\ tab'.form = tab.form /\ tab'.wants = wants
  BY <1>2, <1>4 DEF TabType
<1>6. \A w \in wants : w \in tab.wants \/ w.patch = Disconnected BY <1>3 DEF Wants
<1>7. UNCHANGED <<db, server, task, flow, time, history>> BY DEF TabDisconnect
<1> QED BY <1>1, <1>5, <1>6, <1>7 DEF TypeInv, Apart, SameOrder

(* the answers that the page waited for are for nobody *)
Orphan(a) == IF task[a] # Idle /\ task[a].from = "tab" THEN [task[a] EXCEPT !.from = "api"] ELSE task[a]

LEMMA OrphanFacts ==
  ASSUME TypeInv, NEW a \in Actors
  PROVE  /\ Orphan(a) \in TaskType
         /\ Orphan(a).pc = task[a].pc /\ Orphan(a).op = task[a].op /\ Orphan(a).server = task[a].server
         /\ Orphan(a).key = task[a].key /\ Orphan(a).patch = task[a].patch
         /\ Orphan(a).checked = task[a].checked /\ Orphan(a).credential = task[a].credential
         /\ Orphan(a).since = task[a].since
         /\ Orphan(a).from = task[a].from \/ Orphan(a).from = "api"
BY DEF Orphan, TypeInv, TaskType

LEMMA TabConnectTyped ==
  ASSUME TypeInv, TabConnect
  PROVE  /\ TypeInv' /\ UNCHANGED <<db, server, history>>
         /\ tab' = Closed /\ flow' = Append(flow, Signed(User))
         /\ \A a \in Actors : task'[a] = Orphan(a)
<1>1. scenario' \in Scenario BY CountedTyped DEF TabConnect, Kinds
<1>2. UNCHANGED <<db, server, time, history>> /\ tab' = Closed /\ flow' = Append(flow, Signed(User)) BY DEF TabConnect
<1>3. flow' \in Seq(FlowType) BY <1>2, KeyFacts, SignedTyped
<1>4. task' = [a \in Actors |-> Orphan(a)] BY DEF TabConnect, Orphan, Actors
<1>5. task' \in [Actors -> TaskType] /\ \A a \in Actors : task'[a] = Orphan(a) BY <1>4, OrphanFacts
<1>6. tab' \in TabType BY <1>2, ClosedTyped
<1> QED BY <1>1, <1>2, <1>3, <1>5, <1>6 DEF TypeInv

-----------------------------------------------------------------------------
(* What is under way. *)
LEMMA FitsTurn ==
  ASSUME TypeInv, WorkInv, NEW a \in Actors, NEW u \in TaskType, Fits(a, u),
         task' = [task EXCEPT ![a] = u], server' = server
  PROVE  WorkInv'
<1>1. ASSUME NEW b \in Actors PROVE Fits(b, task[b])'
  <2>1. task'[b] = IF b = a THEN u ELSE task[b] BY DEF TypeInv
  <2>2. CASE b = a BY <2>1, <2>2 DEF Fits
  <2>3. CASE b # a
    <3>1. Fits(b, task[b]) BY DEF WorkInv
    <3> QED BY <2>1, <2>3, <3>1 DEF Fits
  <2> QED BY <2>2, <2>3
<1>2. \A s \in Servers : Ready(server[s])' BY DEF WorkInv, Ready
<1> QED BY <1>1, <1>2 DEF WorkInv

LEMMA FollowsFits ==
  ASSUME NEW a \in Actors, NEW t \in TaskType, NEW u, NEW c,
         t.server \in Servers, t.key \in Keys, t.op \in Writing \cup {"get"},
         a \in Slots => server[t.server].stage = "up" /\ t.op # "seed",
         a \in Servers => t.server = a /\ t.op = "seed" /\ server[a].stage = "seeding",
         Follows(t, u, c) \/ Waits(t, u)
  PROVE  Fits(a, u)
<1>1. CASE Follows(t, u, c)
  <2>1. u.server = t.server /\ u.key = t.key /\ u.op = t.op BY <1>1 DEF Follows, Same
  <2>2. u.pc \in {"answered", "read", "save", "write"} BY <1>1 DEF Follows
  <2>3. u.pc = "read" => t.op = "seed" /\ u.checked BY <1>1 DEF Follows
  <2>4. u.pc \in {"save", "write"} => t.op # "get" /\ (t.op = "seed" => u.checked) BY <1>1 DEF Follows
  <2> QED BY <2>1, <2>2, <2>3, <2>4 DEF Fits
<1>2. CASE Waits(t, u)
  <2>1. u.server = t.server /\ u.key = t.key /\ u.op = t.op BY <1>2 DEF Waits, Same
  <2>2. u.pc \in {"load", "failed"} BY <1>2 DEF Waits
  <2> QED BY <2>1, <2>2 DEF Fits
<1> QED BY <1>1, <1>2

LEMMA BeginsWork ==
  ASSUME TypeInv, WorkInv, VaultInv, NEW a \in Actors, NEW t, Begins(a, t)
  PROVE  WorkInv'
<1>1. t \in TaskType /\ t.key \in Keys BY DEF Begins, Starting
<1>2. Follows(t, Fetched(t), Current(t.key)) \/ Waits(t, Fetched(t)) BY <1>1, FetchedFacts
<1>3. Fits(a, Fetched(t)) BY <1>1, <1>2, FollowsFits DEF Begins, Starting
<1>4. Fetched(t) \in TaskType BY <1>1, FetchedTyped
<1> QED BY <1>3, <1>4, FitsTurn DEF Begins

LEMMA ListsWork ==
  ASSUME TypeInv, WorkInv, NEW a \in Actors, NEW t, Lists(a, t)
  PROVE  WorkInv'
<1>1. Fits(a, t) BY ActorsSplit DEF Lists, Fits
<1> QED BY <1>1, FitsTurn DEF Lists

(* what is known of a request that is under way *)
LEMMA WorkingFacts ==
  ASSUME TypeInv, WorkInv, NEW a \in Actors, Working(a)
  PROVE  /\ task[a] \in TaskType /\ task[a].server \in Servers /\ task[a].key \in Keys
         /\ task[a].op \in Writing \cup {"get"}
         /\ a \in Slots => server[task[a].server].stage = "up" /\ task[a].op # "seed"
         /\ a \in Servers => task[a].server = a /\ task[a].op = "seed" /\ server[a].stage = "seeding"
         /\ server[task[a].server].stage \in {"up", "seeding"}
         /\ task[a].pc \in {"save", "write", "audit"} =>
              task[a].op \in Writing /\ (task[a].op = "seed" => task[a].checked)
         /\ task[a].pc = "read" => task[a].op = "seed" /\ task[a].checked
<1>1. Fits(a, task[a]) /\ task[a] \in TaskType BY DEF WorkInv, TypeInv
<1>2. a \in Slots \/ a \in Servers BY DEF Actors
<1> QED BY <1>1, <1>2 DEF Fits, Working

LEMMA RereadFacts ==
  ASSUME TypeInv, WorkInv, VaultInv, NEW a \in Actors, Reread(a)
  PROVE  /\ task[a] \in TaskType /\ task[a].key \in Keys /\ task[a].op = "seed" /\ task[a].checked
         /\ Fetched(task[a]) \in TaskType
         /\ task' = [task EXCEPT ![a] = Fetched(task[a])]
         /\ Follows(task[a], Fetched(task[a]), Current(task[a].key)) \/ Waits(task[a], Fetched(task[a]))
<1>1. Working(a) /\ task[a].pc = "read" BY DEF Reread, Working
<1>2. /\ task[a] \in TaskType /\ task[a].key \in Keys /\ task[a].op = "seed" /\ task[a].checked
  BY <1>1, WorkingFacts
<1> QED BY <1>2, FetchedFacts, FetchedTyped DEF Reread

LEMMA RereadWork ==
  ASSUME TypeInv, WorkInv, VaultInv, NEW a \in Actors, Reread(a)
  PROVE  WorkInv'
<1>1. Working(a) BY DEF Reread, Working
<1>2. Fits(a, Fetched(task[a])) BY <1>1, WorkingFacts, RereadFacts, FollowsFits
<1> QED BY <1>2, RereadFacts, FitsTurn DEF Reread

LEMMA RepaceFits ==
  ASSUME TypeInv, WorkInv, NEW a \in Actors, Working(a), NEW pc \in {"write", "audit", "answered", "failed"},
         pc \in {"write", "audit"} => task[a].pc \in {"save", "write"}
  PROVE  Fits(a, Repace(task[a], pc))
<1>1. PICK u : u = Repace(task[a], pc) OBVIOUS
<1>2. Same(task[a], u) /\ u.pc = pc /\ u.checked = task[a].checked BY <1>1, WorkingFacts, Repaced DEF Pcs
<1>3. Fits(a, u) BY <1>2, WorkingFacts DEF Fits, Same
<1> QED BY <1>1, <1>3

LEMMA RepaceWork ==
  ASSUME TypeInv, WorkInv, NEW a \in Actors, Working(a), NEW pc \in {"write", "audit", "answered", "failed"},
         pc \in {"write", "audit"} => task[a].pc \in {"save", "write"},
         task' = [task EXCEPT ![a] = Repace(task[a], pc)], server' = server
  PROVE  WorkInv'
<1>1. Repace(task[a], pc) \in TaskType BY WorkingFacts, Repaced DEF Pcs
<1> QED BY <1>1, RepaceFits, FitsTurn

LEMMA LoadWork ==
  ASSUME TypeInv, WorkInv, NEW a \in Actors, Load(a)
  PROVE  WorkInv'
<1>1. Working(a) /\ server' = server BY DEF Load, Working
<1>2. PICK u \in TaskType :
           /\ task' = [task EXCEPT ![a] = u]
           /\ \/ db.vault[task[a].key] = None /\ u = Repace(task[a], "failed")
              \/ /\ db.vault[task[a].key] \in Secrets
                 /\ Follows(task[a], u, [config |-> task[a].credential.config, secrets |-> db.vault[task[a].key]])
  BY LoadFacts
<1>3. Fits(a, u) BY <1>1, <1>2, WorkingFacts, FollowsFits, RepaceFits
<1> QED BY <1>1, <1>2, <1>3, FitsTurn

LEMMA EndsWork ==
  ASSUME TypeInv, WorkInv, NEW a \in Actors, Ends(a)
  PROVE  WorkInv'
<1>1. CASE a \in Slots
  <2>1. Fits(a, Idle) BY IdleTyped DEF Fits
  <2> QED BY <1>1, <2>1, IdleTyped, FitsTurn DEF Ends
<1>2. CASE a \in Servers
  <2>1. PICK r : /\ server' = [server EXCEPT ![a] = r] /\ r \in ServerType
                 /\ r.backend = server[a].backend /\ r.todo = server[a].todo
                 /\ r.moving = server[a].moving
                 /\ r.stage = IF r.seeds = {} THEN "up" ELSE server[a].stage
    BY <1>2 DEF Ends
  <2>2. server[a].stage = "seeding" BY <1>2 DEF WorkInv, Fits, Ends
  <2>3. ASSUME NEW b \in Actors PROVE Fits(b, task[b])'
    <3>1. Fits(b, task[b]) BY DEF WorkInv
    <3>2. task'[b] = IF b = a THEN Idle ELSE task[b] BY DEF Ends, TypeInv
    <3>3. \A s \in Servers : server'[s] = IF s = a THEN r ELSE server[s] BY <2>1 DEF TypeInv
    <3>4. CASE b = a BY <3>2, <3>4, IdleTyped DEF Fits
    <3>5. CASE b # a BY <1>2, <2>1, <2>2, <3>1, <3>2, <3>3, <3>5, ActorsSplit DEF Fits
    <3> QED BY <3>4, <3>5
  <2>4. ASSUME NEW s \in Servers PROVE Ready(server[s])'
    <3>1. Ready(server[s]) BY DEF WorkInv
    <3>2. server'[s] = IF s = a THEN r ELSE server[s] BY <2>1 DEF TypeInv
    <3> QED BY <2>1, <2>2, <3>1, <3>2 DEF Ready
  <2> QED BY <2>3, <2>4 DEF WorkInv
<1> QED BY <1>1, <1>2 DEF Actors

(* a process that does not serve goes on *)
LEMMA ServerWork ==
  ASSUME TypeInv, WorkInv, NEW s \in Servers, NEW r \in ServerType, server' = [server EXCEPT ![s] = r],
         server[s].stage \notin {"up", "seeding"}, Ready(r), task' = task
  PROVE  WorkInv'
<1>1. \A q \in Servers : server'[q] = IF q = s THEN r ELSE server[q] BY DEF TypeInv
<1>2. ASSUME NEW b \in Actors PROVE Fits(b, task[b])'
  <2>1. Fits(b, task[b]) BY DEF WorkInv
  <2> QED BY <1>1, <2>1, ActorsSplit DEF Fits
<1>3. ASSUME NEW q \in Servers PROVE Ready(server[q])'
  <2>1. Ready(server[q]) BY DEF WorkInv
  <2> QED BY <1>1, <2>1 DEF Ready
<1> QED BY <1>2, <1>3 DEF WorkInv

LEMMA StartUpWork ==
  ASSUME TypeInv, WorkInv, NEW s \in Servers, StartUp(s)
  PROVE  WorkInv'
<1>1. PICK r \in ServerType :
              /\ server' = [server EXCEPT ![s] = r]
              /\ r.backend \in scenario.backends /\ r.todo = {} /\ r.moving = {}
              /\ r.stage = IF r.backend = "vault" /\ scenario.migrates THEN "selecting" ELSE "building"
  BY StartUpTyped
<1>2. Ready(r) BY <1>1 DEF Ready
<1> QED BY <1>1, <1>2, StartUpTyped, ServerWork

LEMMA MigrateSelectWork ==
  ASSUME TypeInv, WorkInv, NEW s \in Servers, MigrateSelect(s)
  PROVE  WorkInv'
<1>1. PICK r \in ServerType :
              /\ server' = [server EXCEPT ![s] = r]
              /\ r.backend = server[s].backend /\ r.todo = Legacy /\ r.moving = server[s].moving
              /\ r.stage = "migrating"
  BY MigrateSelectTyped
<1>2. Ready(server[s]) /\ server[s].stage = "selecting" BY MigrateSelectTyped DEF WorkInv
<1>3. Ready(r) BY <1>1, <1>2 DEF Ready
<1> QED BY <1>1, <1>2, <1>3, MigrateSelectTyped, ServerWork

LEMMA MigrateSaveWork ==
  ASSUME TypeInv, WorkInv, NEW s \in Servers, MigrateSave(s)
  PROVE  WorkInv'
<1>1. /\ server[s].stage = "migrating" /\ task' = task
      /\ \E x \in server[s].todo : \E r \in ServerType :
                   /\ server' = [server EXCEPT ![s] = r]
                   /\ r.backend = server[s].backend /\ r.todo = server[s].todo /\ r.moving = {x}
                   /\ r.stage = server[s].stage /\ r.seeds = server[s].seeds
  BY MigrateSaveTyped
<1>2. PICK x \in server[s].todo, r \in ServerType :
                   /\ server' = [server EXCEPT ![s] = r]
                   /\ r.backend = server[s].backend /\ r.todo = server[s].todo /\ r.moving = {x}
                   /\ r.stage = server[s].stage /\ r.seeds = server[s].seeds
  BY <1>1
<1>3. Ready(server[s]) BY DEF WorkInv
<1>4. Ready(r) BY <1>1, <1>2, <1>3 DEF Ready
<1> QED BY <1>1, <1>2, <1>4, ServerWork

LEMMA BuildWork ==
  ASSUME TypeInv, WorkInv, NEW s \in Servers, Build(s)
  PROVE  WorkInv'
<1>1. PICK r \in ServerType :
              /\ server' = [server EXCEPT ![s] = r]
              /\ r.backend = server[s].backend /\ r.todo = server[s].todo /\ r.moving = server[s].moving
              /\ r.stage \in {"up", "seeding", "stopped"} /\ (r.stage = "seeding" => r.seeds # {})
  BY BuildTyped
<1>2. /\ Ready(server[s]) /\ task' = task
      /\ server[s].stage = "building" \/ (server[s].stage = "migrating" /\ server[s].todo = {})
  BY BuildTyped DEF WorkInv
<1>3. Ready(r) BY <1>1, <1>2 DEF Ready
<1> QED BY <1>1, <1>2, <1>3, ServerWork

LEMMA MovingFacts ==
  ASSUME TypeInv, WorkInv, NEW s \in Servers, NEW x \in server[s].moving
  PROVE  x \in server[s].todo /\ x \in MoveType /\ server[s].stage = "migrating" /\ x.key \in Keys
<1>1. Ready(server[s]) /\ server[s] \in ServerType BY DEF WorkInv, TypeInv
<1>2. x \in server[s].todo /\ server[s].stage = "migrating" BY <1>1 DEF Ready
<1> QED BY <1>1, <1>2 DEF ServerType, MoveType

LEMMA CrashWork ==
  ASSUME TypeInv, WorkInv, NEW s \in Servers, Crash(s)
  PROVE  WorkInv'
<1>1. \A q \in Servers : server'[q] = IF q = s THEN Fresh ELSE server[q] BY CrashTyped DEF TypeInv
<1>2. ASSUME NEW b \in Actors PROVE Fits(b, task[b])'
  <2>1. Fits(b, task[b]) /\ task[b] \in TaskType BY DEF WorkInv, TypeInv
  <2>2. task'[b] = AfterCrash(s, b) BY CrashTyped
  <2>3. CASE b = s BY <2>2, <2>3, IdleTyped DEF Fits, AfterCrash
  <2>4. CASE b # s /\ b \in Lost(s)
    <3>1. PICK u : u = Repace(task[b], "failed") OBVIOUS
    <3>2. u.pc = "failed" /\ u.key = task[b].key BY <2>1, <3>1, Repaced DEF Pcs, Same
    <3>3. task'[b] = u BY <2>2, <2>4, <3>1 DEF AfterCrash
    <3>4. task[b].key \in Keys BY <2>1, <2>4 DEF Lost, Working, Fits
    <3>5. b \in Servers => server'[b].stage = "seeding" BY <1>1, <2>1, <2>4 DEF Lost, Working, Fits
    <3> QED BY <3>2, <3>3, <3>4, <3>5 DEF Fits
  <2>5. CASE b # s /\ b \notin Lost(s)
    <3>1. task'[b] = task[b] BY <2>2, <2>5 DEF AfterCrash
    <3>2. Working(b) => task[b].server # s BY <2>5 DEF Lost
    <3> QED BY <1>1, <2>1, <2>5, <3>1, <3>2 DEF Fits, Working
  <2> QED BY <2>3, <2>4, <2>5
<1>3. ASSUME NEW q \in Servers PROVE Ready(server[q])'
  <2>1. Ready(server[q]) BY DEF WorkInv
  <2> QED BY <1>1, <2>1, FreshTyped DEF Ready
<1> QED BY <1>2, <1>3 DEF WorkInv

LEMMA TabConnectWork ==
  ASSUME TypeInv, WorkInv, TabConnect
  PROVE  WorkInv'
<1>1. ASSUME NEW b \in Actors PROVE Fits(b, task[b])'
  <2>1. Fits(b, task[b]) BY DEF WorkInv
  <2>2. /\ task'[b].pc = task[b].pc /\ task'[b].op = task[b].op /\ task'[b].server = task[b].server
        /\ task'[b].key = task[b].key /\ task'[b].checked = task[b].checked
    BY TabConnectTyped, OrphanFacts
  <2>3. server' = server BY TabConnectTyped
  <2> QED BY <2>1, <2>2, <2>3 DEF Fits
<1>2. \A q \in Servers : Ready(server[q])' BY TabConnectTyped DEF WorkInv, Ready
<1> QED BY <1>1, <1>2 DEF WorkInv

LEMMA MigrateWriteWork ==
  ASSUME TypeInv, WorkInv, VaultInv, NEW s \in Servers, MigrateWrite(s)
  PROVE  WorkInv'
<1>1. PICK x \in server[s].moving : \E r \in ServerType :
                   /\ server' = [server EXCEPT ![s] = r]
                   /\ r.backend = server[s].backend /\ r.todo = server[s].todo \ {x} /\ r.moving = {}
                   /\ r.stage = server[s].stage /\ r.seeds = server[s].seeds
  BY MigrateWriteTyped
<1>2. PICK r \in ServerType :
                   /\ server' = [server EXCEPT ![s] = r]
                   /\ r.backend = server[s].backend /\ r.todo = server[s].todo \ {x} /\ r.moving = {}
                   /\ r.stage = server[s].stage /\ r.seeds = server[s].seeds
  BY <1>1
<1>3. server[s].stage = "migrating" BY <1>1, MovingFacts
<1>4. Ready(server[s]) BY DEF WorkInv
<1>5. Ready(r) BY <1>2, <1>3, <1>4 DEF Ready
<1>6. task' = task BY MigrateWriteTyped
<1> QED BY <1>2, <1>3, <1>5, <1>6, ServerWork

-----------------------------------------------------------------------------
(* Secrets are where their row says. *)

(* the rows and Vault as they are; requests and processes go on *)
LEMMA KeptAll ==
  ASSUME VaultInv, db' = db,
         \A b \in Actors : TaskKept(task[b])', \A s \in Servers : ServerKept(server[s])'
  PROVE  VaultInv'
<1>1. ReferencesHold' BY DEF VaultInv, ReferencesHold
<1>2. \A key \in Keys : RowKept(key)' BY DEF VaultInv, RowKept
<1> QED BY <1>1, <1>2 DEF VaultInv

LEMMA KeptTurn ==
  ASSUME TypeInv, VaultInv, NEW a \in Actors, NEW u \in TaskType, TaskKept(u),
         task' = [task EXCEPT ![a] = u], server' = server, db' = db
  PROVE  VaultInv'
<1>1. ASSUME NEW b \in Actors PROVE TaskKept(task[b])'
  <2>1. task'[b] = IF b = a THEN u ELSE task[b] BY DEF TypeInv
  <2>2. TaskKept(task[b]) BY DEF VaultInv
  <2> QED BY <2>1, <2>2 DEF TaskKept
<1>2. \A s \in Servers : ServerKept(server[s])' BY DEF VaultInv, ServerKept
<1> QED BY <1>1, <1>2, KeptAll

LEMMA FollowsKept ==
  ASSUME NEW t, NEW u, NEW c, Follows(t, u, c) \/ Waits(t, u)
  PROVE  TaskKept(u)
<1>1. CASE Follows(t, u, c)
  <2>1. u.server = t.server BY <1>1 DEF Follows, Same
  <2>2. u.pc = "save" => u.credential.secrets # NoSecrets /\ server[t.server].backend = "vault" BY <1>1 DEF Follows
  <2>3. u.pc = "write" => ~(u.credential.secrets # NoSecrets /\ server[t.server].backend = "vault")
    BY <1>1 DEF Follows
  <2> QED BY <2>1, <2>2, <2>3 DEF TaskKept
<1>2. CASE Waits(t, u) BY <1>2 DEF Waits, TaskKept
<1> QED BY <1>1, <1>2

LEMMA BeginsVault ==
  ASSUME TypeInv, VaultInv, NEW a \in Actors, NEW t, Begins(a, t)
  PROVE  VaultInv'
<1>1. t \in TaskType /\ t.key \in Keys BY DEF Begins, Starting
<1>2. Follows(t, Fetched(t), Current(t.key)) \/ Waits(t, Fetched(t)) BY <1>1, FetchedFacts
<1>3. TaskKept(Fetched(t)) BY <1>2, FollowsKept
<1>4. Fetched(t) \in TaskType BY <1>1, FetchedTyped
<1> QED BY <1>3, <1>4, KeptTurn DEF Begins

LEMMA ListsVault ==
  ASSUME TypeInv, VaultInv, NEW a \in Actors, NEW t, Lists(a, t)
  PROVE  VaultInv'
<1>1. TaskKept(t) BY DEF Lists, TaskKept
<1> QED BY <1>1, KeptTurn DEF Lists

LEMMA RereadVault ==
  ASSUME TypeInv, WorkInv, VaultInv, NEW a \in Actors, Reread(a)
  PROVE  VaultInv'
<1>1. TaskKept(Fetched(task[a])) BY RereadFacts, FollowsKept
<1> QED BY <1>1, RereadFacts, KeptTurn DEF Reread

LEMMA QuietKept ==
  ASSUME NEW a \in Actors, TypeInv, NEW pc \in {"audit", "answered", "failed"}
  PROVE  Repace(task[a], pc) \in TaskType /\ TaskKept(Repace(task[a], pc))
<1>1. PICK u : u = Repace(task[a], pc) OBVIOUS
<1>2. u \in TaskType /\ u.pc = pc BY <1>1, Repaced DEF TypeInv, Pcs
<1>3. TaskKept(u) BY <1>2 DEF TaskKept
<1> QED BY <1>1, <1>2, <1>3

LEMMA LoadVault ==
  ASSUME TypeInv, WorkInv, VaultInv, NEW a \in Actors, Load(a)
  PROVE  VaultInv'
<1>1. PICK u \in TaskType :
           /\ task' = [task EXCEPT ![a] = u]
           /\ \/ db.vault[task[a].key] = None /\ u = Repace(task[a], "failed")
              \/ /\ db.vault[task[a].key] \in Secrets
                 /\ Follows(task[a], u, [config |-> task[a].credential.config, secrets |-> db.vault[task[a].key]])
  BY LoadFacts
<1>2. TaskKept(u) BY <1>1, QuietKept, FollowsKept
<1> QED BY <1>1, <1>2, KeptTurn DEF Load

(* Vault is given secrets *)
LEMMA VaultGrows ==
  ASSUME TypeInv, VaultInv, NEW key \in Keys, NEW x \in Secrets, x # NoSecrets,
         db'.rows = db.rows, db'.vault = [db.vault EXCEPT ![key] = x]
  PROVE  /\ \A k \in Keys : RowKept(k)' /\ db'.vault[k] = (IF k = key THEN x ELSE db.vault[k])
         /\ ReferencesHold'
<1>1. \A k \in Keys : db'.vault[k] = IF k = key THEN x ELSE db.vault[k] BY DEF TypeInv, DbType
<1>2. \A k \in Keys : RowKept(k)' BY <1>1 DEF VaultInv, RowKept
<1>3. x # None BY NoneAssumption
<1>4. ReferencesHold' BY <1>1, <1>3 DEF VaultInv, ReferencesHold
<1> QED BY <1>1, <1>2, <1>4

LEMMA SaveSecretsVault ==
  ASSUME TypeInv, WorkInv, VaultInv, NEW a \in Actors, SaveSecrets(a)
  PROVE  VaultInv'
<1>1. PICK key \in Keys : key = task[a].key BY SaveSecretsTyped
<1>2. PICK x \in Secrets : x = task[a].credential.secrets BY SaveSecretsTyped
<1>3. x # NoSecrets /\ x # None BY <1>2, NoneAssumption DEF SaveSecrets, VaultInv, TaskKept
<1>4. db'.rows = db.rows /\ db'.vault = [db.vault EXCEPT ![key] = x] BY <1>1, <1>2, SaveSecretsTyped
<1>5. /\ \A k \in Keys : RowKept(k)' /\ db'.vault[k] = (IF k = key THEN x ELSE db.vault[k])
      /\ ReferencesHold'
  BY <1>3, <1>4, VaultGrows
<1>6. ASSUME NEW b \in Actors PROVE TaskKept(task[b])'
  <2>1. TaskKept(task[b]) BY DEF VaultInv
  <2>2. PICK u : u = Repace(task[a], "write") OBVIOUS
  <2>3. u.pc = "write" /\ u.key = key BY <1>1, <2>2, Repaced DEF TypeInv, Pcs, Same
  <2>4. task'[b] = IF b = a THEN u ELSE task[b] BY <2>2, SaveSecretsTyped DEF TypeInv
  <2>5. server' = server BY DEF SaveSecrets
  <2>6. CASE b = a BY <1>3, <1>5, <2>3, <2>4, <2>6 DEF TaskKept
  <2>7. CASE b # a
    <3>1. task[b].pc = "write" => task[b].key \in Keys BY DEF WorkInv, Fits
    <3> QED BY <1>3, <1>5, <2>1, <2>4, <2>5, <2>7, <3>1 DEF TaskKept
  <2> QED BY <2>6, <2>7
<1>7. ASSUME NEW s \in Servers PROVE ServerKept(server[s])'
  <2>1. ServerKept(server[s]) /\ server' = server BY DEF VaultInv, SaveSecrets
  <2> QED BY <1>3, <1>4, <1>5, <2>1, MovingFacts DEF ServerKept
<1> QED BY <1>5, <1>6, <1>7 DEF VaultInv

LEMMA WriteRowVault ==
  ASSUME TypeInv, WorkInv, VaultInv, NEW a \in Actors, WriteRow(a)
  PROVE  VaultInv'
<1>1. Working(a) /\ server' = server BY DEF WriteRow, Working
<1>2. PICK key \in Keys : key = task[a].key BY WriteRowTyped
<1>3. /\ task[a] \in TaskType /\ task[a].server \in Servers BY <1>1, WorkingFacts
<1>4. PICK x \in Secrets : x = task[a].credential.secrets BY <1>3 DEF TaskType, Credentials
<1>5. PICK b \in Backends : b = server[task[a].server].backend BY <1>3 DEF TypeInv, ServerType
<1>6. PICK row \in RowType : row = Row(task[a]) /\ row.ref = Ref(b, x) BY <1>3, <1>4, <1>5, RowFacts
<1>7. /\ db'.vault = db.vault
      /\ \A k \in Keys : db'.rows[k] = IF k = key THEN row ELSE db.rows[k]
  BY <1>2, <1>6, WriteRowTyped DEF TypeInv, DbType
<1>8. b = "vault" /\ x # NoSecrets => db.vault[key] # None
  BY <1>2, <1>4, <1>5 DEF VaultInv, TaskKept, WriteRow
<1>9. /\ row.ref = InVault => b = "vault" /\ x # NoSecrets
      /\ row.ref # None => IF row.ref.kind = "vault" THEN row.ref = InVault ELSE row.ref.secrets # NoSecrets
  <2>1. /\ Ref(b, x) = None <=> x = NoSecrets
        /\ Ref(b, x) # None => IF b = "vault" THEN Ref(b, x) = InVault ELSE Ref(b, x) = Encrypted(x)
    BY RefFacts
  <2>2. InVault.kind = "vault" /\ Encrypted(x).kind = "encrypted" /\ Encrypted(x).secrets = x /\ InVault # None
    BY Names, NoneAssumption DEF InVault, Encrypted, Backends
  <2> QED BY <1>6, <2>1, <2>2
<1>10. ReferencesHold' BY <1>7, <1>8, <1>9 DEF VaultInv, ReferencesHold
<1>11. ASSUME NEW k \in Keys PROVE RowKept(k)'
  <2>1. RowKept(k) BY DEF VaultInv
  <2> QED BY <1>7, <1>9, <2>1 DEF RowKept
<1>12. ASSUME NEW c \in Actors PROVE TaskKept(task[c])'
  <2>1. TaskKept(task[c]) BY DEF VaultInv
  <2>2. PICK u : u = Repace(task[a], "audit") OBVIOUS
  <2>3. u.pc = "audit" BY <1>3, <2>2, Repaced DEF Pcs
  <2>4. task'[c] = IF c = a THEN u ELSE task[c] BY <2>2, WriteRowTyped DEF TypeInv
  <2> QED BY <1>1, <1>7, <2>1, <2>3, <2>4 DEF TaskKept
<1>13. ASSUME NEW s \in Servers PROVE ServerKept(server[s])'
  <2>1. ServerKept(server[s]) /\ server[s] \in ServerType BY DEF VaultInv, TypeInv
  <2>2. row # None BY NoneAssumption DEF RowType, RefType
  <2>3. \A y \in server[s].todo : y.key \in Keys BY <2>1 DEF ServerType, MoveType
  <2> QED BY <1>1, <1>7, <2>1, <2>2, <2>3 DEF ServerKept
<1> QED BY <1>10, <1>11, <1>12, <1>13 DEF VaultInv

LEMMA SavesVault ==
  ASSUME TypeInv, WorkInv, VaultInv, NEW a \in Actors, Saves(a)
  PROVE  VaultInv'
BY SavesTyped, QuietKept, KeptTurn DEF Saves

LEMMA FailsVault ==
  ASSUME TypeInv, WorkInv, VaultInv, NEW a \in Actors, Fails(a)
  PROVE  VaultInv'
<1>1. /\ task' = [task EXCEPT ![a] = Repace(task[a], "failed")] /\ server' = server /\ db'.rows = db.rows
      /\ \/ db' = db
         \/ task[a].pc = "save" /\ db'.vault = [db.vault EXCEPT ![task[a].key] = task[a].credential.secrets]
  BY FailsTyped DEF Fails
<1>2. CASE db' = db BY <1>1, <1>2, QuietKept, KeptTurn
<1>3. CASE task[a].pc = "save" /\ db'.vault = [db.vault EXCEPT ![task[a].key] = task[a].credential.secrets]
  <2>1. Working(a) BY <1>3 DEF Working
  <2>2. PICK key \in Keys : key = task[a].key BY <2>1, WorkingFacts
  <2>3. PICK x \in Secrets : x = task[a].credential.secrets BY <2>1, WorkingFacts DEF TaskType, Credentials
  <2>4. x # NoSecrets /\ x # None BY <1>3, <2>3, NoneAssumption DEF VaultInv, TaskKept
  <2>5. /\ \A k \in Keys : RowKept(k)' /\ db'.vault[k] = (IF k = key THEN x ELSE db.vault[k])
        /\ ReferencesHold'
    BY <1>1, <1>3, <2>2, <2>3, <2>4, VaultGrows
  <2>6. ASSUME NEW b \in Actors PROVE TaskKept(task[b])'
    <3>1. TaskKept(task[b]) BY DEF VaultInv
    <3>2. PICK u : u = Repace(task[a], "failed") OBVIOUS
    <3>3. u.pc = "failed" BY <3>2, Repaced DEF TypeInv, Pcs
    <3>4. task'[b] = IF b = a THEN u ELSE task[b] BY <1>1, <3>2 DEF TypeInv
    <3>5. task[b].pc = "write" => task[b].key \in Keys BY DEF WorkInv, Fits
    <3> QED BY <1>1, <2>4, <2>5, <3>1, <3>3, <3>4, <3>5 DEF TaskKept
  <2>7. ASSUME NEW s \in Servers PROVE ServerKept(server[s])'
    <3>1. ServerKept(server[s]) BY DEF VaultInv
    <3> QED BY <1>1, <2>4, <2>5, <3>1, MovingFacts DEF ServerKept
  <2> QED BY <2>5, <2>6, <2>7 DEF VaultInv
<1> QED BY <1>1, <1>2, <1>3

(* a process goes on, the requests at it as they are *)
LEMMA TasksKept ==
  ASSUME TypeInv, WorkInv, VaultInv, NEW s \in Servers, NEW r \in ServerType, server' = [server EXCEPT ![s] = r],
         server[s].stage \notin {"up", "seeding"} \/ r.backend = server[s].backend,
         NEW b \in Actors, task'[b] = task[b],
         \A k \in Keys : db.vault[k] # None => db'.vault[k] # None
  PROVE  TaskKept(task[b])'
<1>1. TaskKept(task[b]) BY DEF VaultInv
<1>2. \A q \in Servers : server'[q] = IF q = s THEN r ELSE server[q] BY DEF TypeInv
<1>3. CASE ~Working(b) BY <1>3 DEF Working, TaskKept
<1>4. CASE Working(b)
  <2>1. task[b].server \in Servers /\ task[b].key \in Keys /\ server[task[b].server].stage \in {"up", "seeding"}
    BY <1>4, WorkingFacts
  <2>2. server'[task[b].server].backend = server[task[b].server].backend BY <1>2, <2>1
  <2> QED BY <1>1, <2>1, <2>2 DEF TaskKept
<1> QED BY <1>3, <1>4

LEMMA EndsVault ==
  ASSUME TypeInv, WorkInv, VaultInv, NEW a \in Actors, Ends(a)
  PROVE  VaultInv'
<1>1. CASE a \in Slots
  <2>1. TaskKept(Idle) BY IdleTyped DEF TaskKept
  <2> QED BY <1>1, <2>1, IdleTyped, KeptTurn DEF Ends
<1>2. CASE a \in Servers
  <2>1. PICK r : /\ server' = [server EXCEPT ![a] = r] /\ r \in ServerType
                 /\ r.backend = server[a].backend /\ r.todo = server[a].todo
                 /\ r.moving = server[a].moving
    BY <1>2 DEF Ends
  <2>2. db' = db BY DEF Ends
  <2>3. ASSUME NEW b \in Actors PROVE TaskKept(task[b])'
    <3>1. CASE b = a BY <3>1, IdleTyped DEF Ends, TypeInv, TaskKept
    <3>2. CASE b # a
      <4>1. task'[b] = task[b] BY <3>2 DEF Ends, TypeInv
      <4> QED BY <1>2, <2>1, <2>2, <4>1, TasksKept
    <3> QED BY <3>1, <3>2
  <2>4. ASSUME NEW s \in Servers PROVE ServerKept(server[s])'
    <3>1. ServerKept(server[s]) BY DEF VaultInv
    <3>2. server'[s] = IF s = a THEN r ELSE server[s] BY <2>1 DEF TypeInv
    <3> QED BY <2>1, <2>2, <3>1, <3>2 DEF ServerKept
  <2> QED BY <2>2, <2>3, <2>4, KeptAll
<1> QED BY <1>1, <1>2 DEF Actors

LEMMA ServerVault ==
  ASSUME TypeInv, WorkInv, VaultInv, NEW s \in Servers, NEW r \in ServerType, server' = [server EXCEPT ![s] = r],
         server[s].stage \notin {"up", "seeding"}, ServerKept(r), task' = task, db' = db
  PROVE  VaultInv'
<1>1. ASSUME NEW b \in Actors PROVE TaskKept(task[b])' BY TasksKept
<1>2. ASSUME NEW q \in Servers PROVE ServerKept(server[q])'
  <2>1. ServerKept(server[q]) BY DEF VaultInv
  <2>2. server'[q] = IF q = s THEN r ELSE server[q] BY DEF TypeInv
  <2> QED BY <2>1, <2>2 DEF ServerKept
<1> QED BY <1>1, <1>2, KeptAll

LEMMA StartUpVault ==
  ASSUME TypeInv, WorkInv, VaultInv, NEW s \in Servers, StartUp(s)
  PROVE  VaultInv'
<1>1. PICK r \in ServerType : server' = [server EXCEPT ![s] = r] /\ r.todo = {} /\ r.moving = {} BY StartUpTyped
<1>2. ServerKept(r) BY <1>1 DEF ServerKept
<1>3. server[s].stage = "down" /\ task' = task /\ db' = db BY StartUpTyped
<1> QED BY <1>1, <1>2, <1>3, ServerVault

LEMMA BuildVault ==
  ASSUME TypeInv, WorkInv, VaultInv, NEW s \in Servers, Build(s)
  PROVE  VaultInv'
<1>1. PICK r \in ServerType :
        server' = [server EXCEPT ![s] = r] /\ r.todo = server[s].todo /\ r.moving = server[s].moving
  BY BuildTyped
<1>2. ServerKept(server[s]) BY DEF VaultInv
<1>3. ServerKept(r) BY <1>1, <1>2 DEF ServerKept
<1>4. server[s].stage \in {"building", "migrating"} /\ task' = task /\ db' = db BY BuildTyped
<1> QED BY <1>1, <1>3, <1>4, ServerVault

LEMMA MigrateSelectVault ==
  ASSUME TypeInv, WorkInv, VaultInv, NEW s \in Servers, MigrateSelect(s)
  PROVE  VaultInv'
<1>1. PICK r \in ServerType :
        server' = [server EXCEPT ![s] = r] /\ r.todo = Legacy /\ r.moving = server[s].moving
  BY MigrateSelectTyped
<1>2. ServerKept(server[s]) BY DEF VaultInv
<1>3. \A x \in Legacy : x.secrets # NoSecrets /\ db.rows[x.key] # None
  <2> TAKE x \in Legacy
  <2>1. /\ x \in MoveType /\ db.rows[x.key] # None /\ db.rows[x.key].ref = Encrypted(x.secrets)
        /\ db.rows[x.key].ref # None
    BY LegacyFacts
  <2>2. RowKept(x.key) BY <2>1 DEF VaultInv, MoveType
  <2> QED BY <2>1, <2>2 DEF RowKept, Encrypted
<1>4. ServerKept(r) BY <1>1, <1>2, <1>3 DEF ServerKept
<1>5. server[s].stage = "selecting" /\ task' = task /\ db' = db BY MigrateSelectTyped
<1> QED BY <1>1, <1>4, <1>5, ServerVault

LEMMA MigrateSaveVault ==
  ASSUME TypeInv, WorkInv, VaultInv, NEW s \in Servers, MigrateSave(s)
  PROVE  VaultInv'
<1>1. PICK x \in server[s].todo :
              /\ x \in MoveType
              /\ db'.rows = db.rows /\ db'.vault = [db.vault EXCEPT ![x.key] = x.secrets]
              /\ \E r \in ServerType :
                   /\ server' = [server EXCEPT ![s] = r]
                   /\ r.backend = server[s].backend /\ r.todo = server[s].todo /\ r.moving = {x}
  BY MigrateSaveTyped, ZenonT(40)
<1>2. PICK r \in ServerType :
                   /\ server' = [server EXCEPT ![s] = r]
                   /\ r.backend = server[s].backend /\ r.todo = server[s].todo /\ r.moving = {x}
  BY <1>1
<1>3. task' = task BY MigrateSaveTyped
<1>4. PICK key \in Keys : key = x.key BY <1>1 DEF MoveType
<1>5. PICK y \in Secrets : y = x.secrets BY <1>1 DEF MoveType
<1>6. y # NoSecrets /\ y # None BY <1>5, NoneAssumption DEF VaultInv, ServerKept
<1>7. /\ \A k \in Keys : RowKept(k)' /\ db'.vault[k] = (IF k = key THEN y ELSE db.vault[k])
      /\ ReferencesHold'
  BY <1>1, <1>4, <1>5, <1>6, VaultGrows
<1>8. ASSUME NEW b \in Actors PROVE TaskKept(task[b])'
  BY <1>2, <1>3, <1>6, <1>7, TasksKept
<1>9. ASSUME NEW q \in Servers PROVE ServerKept(server[q])'
  <2>1. ServerKept(server[q]) /\ ServerKept(server[s]) BY DEF VaultInv
  <2>2. server'[q] = IF q = s THEN r ELSE server[q] BY <1>2 DEF TypeInv
  <2>3. CASE q = s BY <1>1, <1>2, <1>4, <1>6, <1>7, <2>1, <2>2, <2>3 DEF ServerKept
  <2>4. CASE q # s
    <3>1. \A z \in server[q].moving : z.key \in Keys BY MovingFacts
    <3> QED BY <1>1, <1>6, <1>7, <2>1, <2>2, <2>4, <3>1 DEF ServerKept
  <2> QED BY <2>3, <2>4
<1> QED BY <1>7, <1>8, <1>9 DEF VaultInv

LEMMA MigrateWriteVault ==
  ASSUME TypeInv, WorkInv, VaultInv, NEW s \in Servers, MigrateWrite(s)
  PROVE  VaultInv'
<1>1. PICK x \in server[s].moving :
              /\ x \in MoveType
              /\ db'.vault = db.vault
              /\ db'.rows = [db.rows EXCEPT ![x.key] = [config |-> db.rows[x.key].config, ref |-> InVault]]
              /\ \E r \in ServerType :
                   /\ server' = [server EXCEPT ![s] = r]
                   /\ r.backend = server[s].backend /\ r.todo = server[s].todo \ {x} /\ r.moving = {}
                   /\ r.stage = server[s].stage /\ r.seeds = server[s].seeds
              /\ history'.writes = history.writes /\ history'.clean = history.clean
              /\ history'.version = history.version
              /\ \A k \in Keys : history'.expect[k] = IF k = x.key /\ ~history.clean[k] THEN {} ELSE history.expect[k]
  BY MigrateWriteTyped
<1>2. PICK r \in ServerType :
                   /\ server' = [server EXCEPT ![s] = r]
                   /\ r.backend = server[s].backend /\ r.todo = server[s].todo \ {x} /\ r.moving = {}
  BY <1>1
<1>3. task' = task BY MigrateWriteTyped
<1>4. PICK key \in Keys : key = x.key BY <1>1 DEF MoveType
<1>5. PICK row : row = [config |-> db.rows[x.key].config, ref |-> InVault] OBVIOUS
<1>6. \A k \in Keys : db'.rows[k] = IF k = key THEN row ELSE db.rows[k] BY <1>1, <1>4, <1>5 DEF TypeInv, DbType
<1>7. row.ref = InVault /\ InVault.kind = "vault" /\ db.vault[key] # None
  BY <1>4, <1>5 DEF InVault, VaultInv, ServerKept
<1>8. ReferencesHold' BY <1>1, <1>6, <1>7 DEF VaultInv, ReferencesHold
<1>9. \A k \in Keys : RowKept(k)' BY <1>1, <1>6, <1>7 DEF VaultInv, RowKept
<1>10. ASSUME NEW b \in Actors PROVE TaskKept(task[b])'
  BY <1>1, <1>2, <1>3, TasksKept
<1>11. row # None
  <2>1. x \in server[s].todo BY MovingFacts
  <2>2. db.rows[key] # None BY <1>4, <2>1 DEF VaultInv, ServerKept
  <2>3. db.rows[key].config \in Configs BY <2>2, RowTyped DEF RowType
  <2>4. row \in RowType BY <1>4, <1>5, <2>3, Names DEF RowType, RefType, InVault, Backends
  <2> QED BY <2>4, NoneAssumption DEF RowType, RefType
<1>12. ASSUME NEW q \in Servers PROVE ServerKept(server[q])'
  <2>1. ServerKept(server[q]) /\ server[q] \in ServerType BY DEF VaultInv, TypeInv
  <2>2. server'[q] = IF q = s THEN r ELSE server[q] BY <1>2 DEF TypeInv
  <2>3. \A y \in server[q].todo : y.key \in Keys BY <2>1 DEF ServerType, MoveType
  <2> QED BY <1>1, <1>2, <1>6, <1>11, <2>1, <2>2, <2>3 DEF ServerKept
<1> QED BY <1>8, <1>9, <1>10, <1>12 DEF VaultInv

LEMMA CrashVault ==
  ASSUME TypeInv, WorkInv, VaultInv, NEW s \in Servers, Crash(s)
  PROVE  VaultInv'
<1>1. db' = db /\ server' = [server EXCEPT ![s] = Fresh] BY CrashTyped
<1>2. \A q \in Servers : server'[q] = IF q = s THEN Fresh ELSE server[q] BY <1>1 DEF TypeInv
<1>3. ASSUME NEW b \in Actors PROVE TaskKept(task[b])'
  <2>1. task'[b] = AfterCrash(s, b) BY CrashTyped
  <2>2. CASE b = s BY <2>1, <2>2, IdleTyped DEF AfterCrash, TaskKept
  <2>3. CASE b # s /\ b \in Lost(s)
    <3>1. PICK u : u = Repace(task[b], "failed") OBVIOUS
    <3>2. u.pc = "failed" BY <3>1, Repaced DEF TypeInv, Pcs
    <3>3. task'[b] = u BY <2>1, <2>3, <3>1 DEF AfterCrash
    <3> QED BY <3>2, <3>3 DEF TaskKept
  <2>4. CASE b # s /\ b \notin Lost(s)
    <3>1. task'[b] = task[b] BY <2>1, <2>4 DEF AfterCrash
    <3>2. TaskKept(task[b]) BY DEF VaultInv
    <3>3. CASE ~Working(b) BY <3>1, <3>3 DEF Working, TaskKept
    <3>4. CASE Working(b)
      <4>1. task[b].server # s /\ task[b].server \in Servers BY <2>4, <3>4, WorkingFacts DEF Lost
      <4> QED BY <1>1, <1>2, <3>1, <3>2, <4>1 DEF TaskKept
    <3> QED BY <3>3, <3>4
  <2> QED BY <2>2, <2>3, <2>4
<1>4. ASSUME NEW q \in Servers PROVE ServerKept(server[q])'
  <2>1. ServerKept(server[q]) BY DEF VaultInv
  <2> QED BY <1>1, <1>2, <2>1, FreshTyped DEF ServerKept
<1> QED BY <1>1, <1>3, <1>4, KeptAll

LEMMA TabConnectVault ==
  ASSUME TypeInv, VaultInv, TabConnect
  PROVE  VaultInv'
<1>1. UNCHANGED <<db, server>> BY TabConnectTyped
<1>2. ASSUME NEW b \in Actors PROVE TaskKept(task[b])'
  <2>1. /\ task'[b].pc = task[b].pc /\ task'[b].server = task[b].server
        /\ task'[b].key = task[b].key /\ task'[b].credential = task[b].credential
    BY TabConnectTyped, OrphanFacts
  <2>2. TaskKept(task[b]) BY DEF VaultInv
  <2> QED BY <1>1, <2>1, <2>2 DEF TaskKept
<1>3. \A s \in Servers : ServerKept(server[s])' BY <1>1 DEF VaultInv, ServerKept
<1> QED BY <1>1, <1>2, <1>3, KeptAll

-----------------------------------------------------------------------------
(* No secrets are left in the database. *)
Kept == scenario'.backends = scenario.backends /\ scenario'.migrates = scenario.migrates
        /\ scenario'.env = scenario.env

LEMMA CountedKept ==
  ASSUME TypeInv, NEW kind, Counted(kind)
  PROVE  Kept
BY DEF TypeInv, Scenario, Counted, Kept

LEMMA FaultKept ==
  ASSUME TypeInv, Fault
  PROVE  Kept
BY DEF TypeInv, Scenario, Fault, Kept

LEMMA ScenarioKept ==
  ASSUME TypeInv, [Next]_vars
  PROVE  Kept
<1>1. CASE \E h \in Slots : Request(h)
  <2>1. PICK h \in Slots : Request(h) BY <1>1
  <2>2. CASE Answered(h) \/ TabAnswered(h) BY <2>2 DEF Answered, TabAnswered, Kept
  <2>3. CASE \E s \in Servers : Put(h, s) \/ Get(h, s) \/ Disconnect(h, s) \/ Callback(h, s)
    BY <2>3, CountedKept DEF Put, Get, Disconnect, Callback
  <2>4. CASE \E s \in Servers : TabSends(h, s) BY <2>4 DEF TabSends, Kept
  <2> QED BY <2>1, <2>2, <2>3, <2>4 DEF Request
<1>2. CASE \E a \in Actors : Steps(a)
  BY <1>2, FaultKept DEF Steps, Reread, Load, SaveSecrets, WriteRow, Saves, Fails, Kept
<1>3. CASE \E s \in Servers : Process(s)
  BY <1>3, FaultKept DEF Process, StartUp, MigrateSelect, MigrateSave, MigrateWrite, Build, Seed, Seeded, Crash, Kept
<1>4. CASE Page
  BY <1>4, CountedKept DEF Page, Visit, Choose, Edit, Save, TabDisconnect, TabConnect
<1>5. CASE OauthStart \/ Tick BY <1>5, CountedKept DEF OauthStart, Tick, Kept
<1>6. CASE UNCHANGED vars BY <1>6 DEF vars, Kept
<1> QED BY <1>1, <1>2, <1>3, <1>4, <1>5, <1>6 DEF Next, Actors

LEMMA MovedServers ==
  ASSUME TypeInv, MovedInv, Kept, \A s \in Servers : server'[s] = server[s],
         \A key \in Keys : Vaulted /\ Plain(key)' => Plain(key)
  PROVE  MovedInv'
BY DEF MovedInv, Vaulted, Kept, Moved

LEMMA MovedServer ==
  ASSUME TypeInv, MovedInv, Kept, db'.rows = db.rows, NEW s \in Servers, NEW r, server' = [server EXCEPT ![s] = r],
         Vaulted => Moved(r)
  PROVE  MovedInv'
<1>1. \A q \in Servers : server'[q] = IF q = s THEN r ELSE server[q] BY DEF TypeInv
<1>2. \A key \in Keys : Plain(key)' <=> Plain(key) BY DEF Plain
<1>3. Vaulted' = Vaulted BY DEF Kept, Vaulted
<1>4. ASSUME Vaulted, NEW q \in Servers PROVE Moved(server[q])'
  <2>1. Moved(server[q]) BY <1>4 DEF MovedInv
  <2>2. Moved(IF q = s THEN r ELSE server[q]) BY <1>4, <2>1
  <2> QED BY <1>1, <1>2, <2>2 DEF Moved
<1> QED BY <1>3, <1>4 DEF MovedInv

LEMMA WriteRowMoved ==
  ASSUME TypeInv, WorkInv, VaultInv, MovedInv, NEW a \in Actors, WriteRow(a), Kept
  PROVE  MovedInv'
<1>1. Working(a) /\ server' = server BY DEF WriteRow, Working
<1>2. PICK key \in Keys : key = task[a].key BY WriteRowTyped
<1>3. /\ task[a] \in TaskType /\ task[a].server \in Servers /\ server[task[a].server].stage \in {"up", "seeding"}
  BY <1>1, WorkingFacts
<1>4. PICK x \in Secrets : x = task[a].credential.secrets BY <1>3 DEF TaskType, Credentials
<1>5. PICK b \in Backends : b = server[task[a].server].backend BY <1>3 DEF TypeInv, ServerType
<1>6. PICK row \in RowType : row = Row(task[a]) /\ row.ref = Ref(b, x) BY <1>3, <1>4, <1>5, RowFacts
<1>7. \A k \in Keys : db'.rows[k] = IF k = key THEN row ELSE db.rows[k]
  BY <1>2, <1>6, WriteRowTyped DEF TypeInv, DbType
<1>8. Vaulted => b = "vault" BY <1>3, <1>5 DEF MovedInv, Moved
<1>9. b = "vault" => row.ref = None \/ row.ref.kind = "vault" BY <1>6, RefFacts DEF InVault
<1>10. \A k \in Keys : Vaulted /\ Plain(k)' => Plain(k) BY <1>7, <1>8, <1>9 DEF Plain
<1> QED BY <1>1, <1>10, MovedServers

LEMMA RowsMoved ==
  ASSUME TypeInv, MovedInv, Kept, db'.rows = db.rows, server' = server
  PROVE  MovedInv'
BY MovedServers DEF Plain

LEMMA EndsMoved ==
  ASSUME TypeInv, WorkInv, MovedInv, Kept, NEW a \in Actors, Ends(a)
  PROVE  MovedInv'
<1>1. CASE a \in Slots BY <1>1, RowsMoved DEF Ends
<1>2. CASE a \in Servers
  <2>1. PICK r : /\ server' = [server EXCEPT ![a] = r] /\ r \in ServerType
                 /\ r.backend = server[a].backend /\ r.todo = server[a].todo
                 /\ r.moving = server[a].moving
                 /\ r.stage = IF r.seeds = {} THEN "up" ELSE server[a].stage
    BY <1>2 DEF Ends
  <2>2. server[a].stage = "seeding" BY <1>2 DEF WorkInv, Fits, Ends
  <2>3. Vaulted => Moved(server[a]) BY <1>2 DEF MovedInv
  <2>4. Vaulted => Moved(r) BY <2>1, <2>2, <2>3 DEF Moved
  <2> QED BY <1>2, <2>1, <2>4, MovedServer DEF Ends
<1> QED BY <1>1, <1>2 DEF Actors

LEMMA StartUpMoved ==
  ASSUME TypeInv, MovedInv, Kept, NEW s \in Servers, StartUp(s)
  PROVE  MovedInv'
<1>1. PICK r \in ServerType :
              /\ server' = [server EXCEPT ![s] = r]
              /\ r.backend \in scenario.backends /\ r.todo = {} /\ r.moving = {}
              /\ r.stage = IF r.backend = "vault" /\ scenario.migrates THEN "selecting" ELSE "building"
  BY StartUpTyped
<1>2. Vaulted => Moved(r) BY <1>1 DEF Vaulted, Moved
<1> QED BY <1>1, <1>2, StartUpTyped, MovedServer

LEMMA MigrateSelectMoved ==
  ASSUME TypeInv, MovedInv, Kept, NEW s \in Servers, MigrateSelect(s)
  PROVE  MovedInv'
<1>1. PICK r \in ServerType :
              /\ server' = [server EXCEPT ![s] = r]
              /\ r.backend = server[s].backend /\ r.todo = Legacy /\ r.moving = server[s].moving
              /\ r.stage = "migrating"
  BY MigrateSelectTyped
<1>2. server[s].stage = "selecting" /\ db' = db BY MigrateSelectTyped
<1>3. Vaulted => Moved(r) BY <1>1, <1>2, LegacyFacts DEF MovedInv, Moved
<1> QED BY <1>1, <1>2, <1>3, MovedServer

LEMMA MigrateSaveMoved ==
  ASSUME TypeInv, MovedInv, Kept, NEW s \in Servers, MigrateSave(s)
  PROVE  MovedInv'
<1>1. PICK x \in server[s].todo :
              /\ x \in MoveType
              /\ db'.rows = db.rows /\ db'.vault = [db.vault EXCEPT ![x.key] = x.secrets]
              /\ \E r \in ServerType :
                   /\ server' = [server EXCEPT ![s] = r]
                   /\ r.backend = server[s].backend /\ r.todo = server[s].todo /\ r.moving = {x}
                   /\ r.stage = server[s].stage /\ r.seeds = server[s].seeds
  BY MigrateSaveTyped
<1>2. PICK r \in ServerType :
                   /\ server' = [server EXCEPT ![s] = r]
                   /\ r.backend = server[s].backend /\ r.todo = server[s].todo /\ r.moving = {x}
                   /\ r.stage = server[s].stage /\ r.seeds = server[s].seeds
  BY <1>1
<1>3. Vaulted => Moved(r) BY <1>2 DEF MovedInv, Moved
<1> QED BY <1>1, <1>2, <1>3, MovedServer

LEMMA BuildMoved ==
  ASSUME TypeInv, MovedInv, Kept, NEW s \in Servers, Build(s)
  PROVE  MovedInv'
<1>1. PICK r \in ServerType :
              /\ server' = [server EXCEPT ![s] = r]
              /\ r.backend = server[s].backend /\ r.todo = server[s].todo /\ r.moving = server[s].moving
              /\ r.stage \in {"up", "seeding", "stopped"} /\ (r.stage = "seeding" => r.seeds # {})
  BY BuildTyped
<1>2. /\ db' = db
      /\ server[s].stage = "building" \/ (server[s].stage = "migrating" /\ server[s].todo = {})
  BY BuildTyped
<1>3. Vaulted => Moved(r) BY <1>1, <1>2 DEF MovedInv, Moved
<1> QED BY <1>1, <1>2, <1>3, MovedServer

LEMMA MigrateWriteMoved ==
  ASSUME TypeInv, WorkInv, VaultInv, MovedInv, Kept, NEW s \in Servers, MigrateWrite(s)
  PROVE  MovedInv'
<1>1. PICK x \in server[s].moving :
              /\ x \in MoveType
              /\ db'.vault = db.vault
              /\ db'.rows = [db.rows EXCEPT ![x.key] = [config |-> db.rows[x.key].config, ref |-> InVault]]
              /\ \E r \in ServerType :
                   /\ server' = [server EXCEPT ![s] = r]
                   /\ r.backend = server[s].backend /\ r.todo = server[s].todo \ {x} /\ r.moving = {}
                   /\ r.stage = server[s].stage /\ r.seeds = server[s].seeds
              /\ history'.writes = history.writes /\ history'.clean = history.clean
              /\ history'.version = history.version
              /\ \A k \in Keys : history'.expect[k] = IF k = x.key /\ ~history.clean[k] THEN {} ELSE history.expect[k]
  BY MigrateWriteTyped
<1>2. PICK r \in ServerType :
                   /\ server' = [server EXCEPT ![s] = r]
                   /\ r.backend = server[s].backend /\ r.todo = server[s].todo \ {x} /\ r.moving = {}
                   /\ r.stage = server[s].stage /\ r.seeds = server[s].seeds
  BY <1>1
<1>3. PICK key \in Keys : key = x.key BY <1>1 DEF MoveType
<1>4. PICK row : row = [config |-> db.rows[x.key].config, ref |-> InVault] OBVIOUS
<1>5. \A k \in Keys : db'.rows[k] = IF k = key THEN row ELSE db.rows[k] BY <1>1, <1>3, <1>4 DEF TypeInv, DbType
<1>6. ~Plain(key)' /\ \A k \in Keys : Plain(k)' => Plain(k) BY <1>4, <1>5 DEF Plain, InVault
<1>7. server[s].stage = "migrating" BY MovingFacts
<1>8. \A q \in Servers : server'[q] = IF q = s THEN r ELSE server[q] BY <1>2 DEF TypeInv
<1>9. Vaulted' = Vaulted BY DEF Kept, Vaulted
<1>10. ASSUME Vaulted, NEW q \in Servers PROVE Moved(server[q])'
  <2>1. Moved(server[q]) BY <1>10 DEF MovedInv
  <2>2. CASE q = s
    <3>1. \A k \in Keys : Plain(k)' => \E y \in r.todo : y.key = k
      BY <1>2, <1>3, <1>6, <1>7, <2>1, <2>2 DEF Moved
    <3> QED BY <1>2, <1>7, <1>8, <2>1, <2>2, <3>1 DEF Moved
  <2>3. CASE q # s BY <1>6, <1>8, <2>1, <2>3 DEF Moved
  <2> QED BY <2>2, <2>3
<1> QED BY <1>9, <1>10 DEF MovedInv

LEMMA CrashMoved ==
  ASSUME TypeInv, MovedInv, Kept, NEW s \in Servers, Crash(s)
  PROVE  MovedInv'
<1>1. db' = db /\ server' = [server EXCEPT ![s] = Fresh] BY CrashTyped
<1>2. Moved(Fresh) BY FreshTyped DEF Moved
<1> QED BY <1>1, <1>2, MovedServer

-----------------------------------------------------------------------------
(* What a consent brought stays with who asked for it. *)
Forward ==
  /\ history'.writes >= history.writes
  /\ \A f \in DOMAIN flow' : flow'[f].token # 0 =>
       \/ f \in DOMAIN flow /\ flow'[f].token = flow[f].token /\ flow'[f].subject = flow[f].subject
       \/ flow'[f].token > history.writes

LEMMA HeldLater ==
  ASSUME TypeInv, TypeInv', Forward, NEW v \in Values \cup {None}, NEW subject, Held(v, subject)
  PROVE  Held(v, subject)'
<1>1. history.writes \in Nat /\ history'.writes \in Nat BY DEF TypeInv, HistoryType
<1>2. CASE v = None BY <1>2 DEF Held
<1>3. CASE v # None
  <2>1. v.by \in Nat /\ v.by <= history.writes BY <1>3 DEF Held, Values
  <2>2. flow' \in Seq(FlowType) BY DEF TypeInv
  <2>3. \A f \in DOMAIN flow' : flow'[f] \in FlowType BY <2>2
  <2>4. \A f \in DOMAIN flow' : flow'[f].token \in Nat BY <2>3 DEF FlowType
  <2> QED BY <1>1, <1>3, <2>1, <2>4 DEF Held, Forward
<1> QED BY <1>2, <1>3

LEMMA PartsLater ==
  ASSUME TypeInv, TypeInv', Forward, NEW subject
  PROVE  /\ \A c \in Configs : HeldConfig(c, subject) => HeldConfig(c, subject)'
         /\ \A c \in Secrets : HeldSecrets(c, subject) => HeldSecrets(c, subject)'
         /\ \A c \in Credentials : HeldBy(c, subject) => HeldBy(c, subject)'
         /\ \A c \in PatchType : HeldPatch(c, subject) => HeldPatch(c, subject)'
<1>1. ASSUME NEW c \in Configs, HeldConfig(c, subject) PROVE HeldConfig(c, subject)'
  <2> SUFFICES ASSUME NEW k \in ConfigNames PROVE Held(c[k], subject)' BY DEF HeldConfig
  <2>1. PICK v \in Values \cup {None} : v = c[k] BY DEF Configs
  <2>2. Held(v, subject)' BY <1>1, <2>1, HeldLater DEF HeldConfig
  <2> QED BY <2>1, <2>2
<1>2. ASSUME NEW c \in Secrets, HeldSecrets(c, subject) PROVE HeldSecrets(c, subject)'
  <2> SUFFICES ASSUME NEW k \in SecretNames PROVE Held(c[k], subject)' BY DEF HeldSecrets
  <2>1. PICK v \in Values \cup {None} : v = c[k] BY DEF Secrets
  <2>2. Held(v, subject)' BY <1>2, <2>1, HeldLater DEF HeldSecrets
  <2> QED BY <2>1, <2>2
<1>3. ASSUME NEW c \in Credentials, HeldBy(c, subject) PROVE HeldBy(c, subject)'
  <2>1. PICK d \in Configs, e \in Secrets : d = c.config /\ e = c.secrets BY DEF Credentials
  <2>2. HeldConfig(d, subject)' /\ HeldSecrets(e, subject)' BY <1>1, <1>2, <1>3, <2>1 DEF HeldBy
  <2> QED BY <2>1, <2>2 DEF HeldBy
<1>4. ASSUME NEW c \in PatchType, HeldPatch(c, subject) PROVE HeldPatch(c, subject)'
  <2>1. PICK d \in Configs \cup {None}, e \in Secrets \cup {None} : d = c.config /\ e = c.secrets BY DEF PatchType
  <2>2. (d = None \/ HeldConfig(d, subject)') /\ (e = None \/ HeldSecrets(e, subject)')
    BY <1>1, <1>2, <1>4, <2>1 DEF HeldPatch
  <2> QED BY <2>1, <2>2 DEF HeldPatch
<1> QED BY <1>1, <1>2, <1>3, <1>4

LEMMA TaskLater ==
  ASSUME TypeInv, TypeInv', Forward, NEW t \in TaskType, TaskHeld(t)
  PROVE  TaskHeld(t)'
<1>1. CASE t.key \notin Keys BY <1>1 DEF TaskHeld
<1>2. CASE t.key \in Keys
  <2>1. PICK subject : subject = t.key[1] OBVIOUS
  <2>2. t.credential \in Credentials /\ t.patch \in PatchType BY DEF TaskType
  <2>3. HeldBy(t.credential, subject) /\ HeldPatch(t.patch, subject) /\ (t.from = "tab" => subject = User)
    BY <1>2, <2>1 DEF TaskHeld
  <2>4. HeldBy(t.credential, subject)' /\ HeldPatch(t.patch, subject)' BY <2>2, <2>3, PartsLater
  <2> QED BY <2>1, <2>3, <2>4 DEF TaskHeld
<1> QED BY <1>1, <1>2

LEMMA ServerLater ==
  ASSUME TypeInv, TypeInv', Forward, NEW r \in ServerType, ServerHeld(r)
  PROVE  ServerHeld(r)'
<1> SUFFICES ASSUME NEW x \in r.todo PROVE HeldSecrets(x.secrets, x.key[1])' BY DEF ServerHeld
<1>1. x.secrets \in Secrets BY DEF ServerType, MoveType
<1>2. PICK subject : subject = x.key[1] OBVIOUS
<1>3. HeldSecrets(x.secrets, subject) BY <1>2 DEF ServerHeld
<1>4. HeldSecrets(x.secrets, subject)' BY <1>1, <1>3, PartsLater
<1> QED BY <1>2, <1>4

(* what the store has, then and now *)
LEMMA RowsLater ==
  ASSUME TypeInv, TypeInv', Forward, NEW key \in Keys, RowHeld(key),
         db'.rows[key] = db.rows[key], db'.vault[key] = db.vault[key]
  PROVE  RowHeld(key)'
<1>1. PICK subject : subject = key[1] OBVIOUS
<1>2. PICK row \in RowType \cup {None} : row = db.rows[key] /\ row = db'.rows[key] BY DEF TypeInv, DbType
<1>3. PICK v \in Secrets \cup {None} : v = db.vault[key] /\ v = db'.vault[key] BY DEF TypeInv, DbType
<1>4. v # None => HeldSecrets(v, subject)' BY <1>1, <1>3, PartsLater DEF RowHeld
<1>5. row # None => HeldConfig(row.config, subject)'
  <2>1. row # None => row.config \in Configs /\ HeldConfig(row.config, subject)
    BY <1>1, <1>2 DEF RowHeld, RowType
  <2> QED BY <2>1, PartsLater
<1>6. row # None /\ row.ref # None => HeldSecrets(row.ref.secrets, subject)'
  <2>1. row # None /\ row.ref # None => row.ref.secrets \in Secrets /\ HeldSecrets(row.ref.secrets, subject)
    BY <1>1, <1>2 DEF RowHeld, RowType, RefType
  <2> QED BY <2>1, PartsLater
<1> QED BY <1>1, <1>2, <1>3, <1>4, <1>5, <1>6 DEF RowHeld

LEMMA CurrentHeld ==
  ASSUME TypeInv, VaultInv, NEW key \in Keys, RowHeld(key)
  PROVE  HeldBy(Current(key), key[1])
<1>1. HeldConfig(NoConfig, key[1]) /\ HeldSecrets(NoSecrets, key[1])
  BY DEF HeldConfig, HeldSecrets, NoConfig, NoSecrets, Held
<1>2. CASE db.rows[key] = None BY <1>1, <1>2, CurrentFacts DEF NoCredential, HeldBy
<1>3. CASE db.rows[key] # None
  <2>1. HeldConfig(Current(key).config, key[1]) BY <1>3, CurrentFacts DEF RowHeld
  <2>2. CASE db.rows[key].ref = None BY <1>1, <1>3, <2>1, <2>2, CurrentFacts DEF HeldBy
  <2>3. CASE db.rows[key].ref # None /\ db.rows[key].ref.kind = "vault"
    <3>1. Current(key).secrets = db.vault[key] /\ db.vault[key] # None
      BY <1>3, <2>3, CurrentFacts, NoneAssumption
    <3> QED BY <2>1, <3>1 DEF RowHeld, HeldBy
  <2>4. CASE db.rows[key].ref # None /\ db.rows[key].ref.kind # "vault"
    <3>1. db.rows[key].ref = Encrypted(Current(key).secrets) BY <1>3, <2>4, CurrentFacts
    <3>2. db.rows[key].ref.secrets = Current(key).secrets BY <3>1 DEF Encrypted
    <3> QED BY <1>3, <2>1, <2>4, <3>2 DEF RowHeld, HeldBy
  <2> QED BY <2>2, <2>3, <2>4
<1> QED BY <1>2, <1>3

LEMMA MergedHeld ==
  ASSUME NEW c \in Credentials, NEW p \in PatchType, NEW subject,
         HeldBy(c, subject)', HeldPatch(p, subject)'
  PROVE  HeldBy(Merged(c, p), subject)'
  BY DEF HeldBy, HeldPatch, Merged, Credentials

(* a request goes on with what it found *)
LEMMA FollowsHeld ==
  ASSUME TypeInv, TypeInv', Forward, NEW t \in TaskType, t.key \in Keys, TaskHeld(t)', NEW u, NEW c \in Credentials,
         HeldBy(c, t.key[1])', Follows(t, u, c)
  PROVE  TaskHeld(u)'
<1>1. PICK subject : subject = t.key[1] OBVIOUS
<1>2. CASE t.key \notin Keys BY <1>2 DEF TaskHeld, Follows, Same
<1>3. PICK p \in PatchType : p = t.patch BY DEF TaskType
<1>4. CASE t.key \in Keys
  <2>1. HeldBy(c, subject)' /\ HeldPatch(p, subject)' /\ (t.from = "tab" => subject = User)
    BY <1>1, <1>3, <1>4 DEF TaskHeld
  <2>2. HeldBy(Merged(c, p), subject)' BY <2>1, MergedHeld
  <2>3. u.key = t.key /\ u.patch = p /\ u.from = t.from BY <1>3 DEF Follows, Same
  <2>4. u.credential = c \/ u.credential = Merged(c, p) BY <1>3 DEF Follows
  <2>5. HeldBy(u.credential, subject)' BY <2>1, <2>2, <2>4
  <2> QED BY <1>1, <2>1, <2>3, <2>5 DEF TaskHeld
<1> QED BY <1>2, <1>4
LEMMA WaitsHeld ==
  ASSUME TypeInv, TypeInv', VaultInv, NEW t \in TaskType, t.key \in Keys, TaskHeld(t)', NEW u,
         HeldBy(Current(t.key), t.key[1]), Forward, Waits(t, u)
  PROVE  TaskHeld(u)'
<1>1. PICK subject : subject = t.key[1] OBVIOUS
<1>2. CASE t.key \notin Keys BY <1>2 DEF TaskHeld, Waits, Same
<1>3. CASE t.key \in Keys
  <2>1. PICK c \in Credentials : c = Current(t.key) BY CurrentFacts
  <2>2. PICK d \in Credentials : d = t.credential BY DEF TaskType
  <2>3. HeldBy(c, subject)' BY <1>1, <2>1, PartsLater
  <2>4. HeldBy(d, subject)' /\ HeldPatch(t.patch, subject)' /\ (t.from = "tab" => subject = User)
    BY <1>1, <1>3, <2>2 DEF TaskHeld
  <2>5. u.key = t.key /\ u.patch = t.patch /\ u.from = t.from /\ u.credential = [config |-> c.config, secrets |-> d.secrets]
    BY <2>1, <2>2 DEF Waits, Same
  <2>6. HeldBy(u.credential, subject)' BY <2>3, <2>4, <2>5 DEF HeldBy
  <2> QED BY <1>1, <2>4, <2>5, <2>6 DEF TaskHeld
<1> QED BY <1>2, <1>3
LEMMA RepaceHeld ==
  ASSUME NEW t \in TaskType, NEW pc \in Pcs, TaskHeld(t)'
  PROVE  TaskHeld(Repace(t, pc))'
<1>1. PICK u : u = Repace(t, pc) OBVIOUS
<1>2. u.key = t.key /\ u.patch = t.patch /\ u.from = t.from /\ u.credential = t.credential BY <1>1, Repaced DEF Same
<1>3. TaskHeld(u)' BY <1>2 DEF TaskHeld
<1> QED BY <1>1, <1>3

LEMMA LegacyHeld ==
  ASSUME TypeInv, OwnerInv, NEW x \in Legacy
  PROVE  HeldSecrets(x.secrets, x.key[1])
<1>1. x.key \in Keys BY LegacyFacts DEF MoveType
<1>2. db.rows[x.key] # None /\ db.rows[x.key].ref # None /\ db.rows[x.key].ref = Encrypted(x.secrets) BY LegacyFacts
<1>3. db.rows[x.key].ref.secrets = x.secrets BY <1>2 DEF Encrypted
<1> QED BY <1>1, <1>2, <1>3 DEF OwnerInv, RowHeld

(* what a step has to show: what is new is held *)
LEMMA OwnerStep ==
  ASSUME TypeInv, TypeInv', OwnerInv, Kept, Forward, FlowHeld', TabHeld',
         \A key \in Keys : RowHeld(key)' \/ (db'.rows[key] = db.rows[key] /\ db'.vault[key] = db.vault[key]),
         \A s \in Servers : \A x \in server'[s].todo : x \in server[s].todo \/ x \in Legacy,
         \A a \in Actors : TaskHeld(task[a])' \/ task'[a] = task[a]
  PROVE  OwnerInv'
<1>1. EnvHeld' BY DEF OwnerInv, EnvHeld, Kept
<1>2. ASSUME NEW key \in Keys PROVE RowHeld(key)' BY RowsLater DEF OwnerInv
<1>3. ASSUME NEW s \in Servers PROVE ServerHeld(server[s])'
  <2> SUFFICES ASSUME NEW x \in server'[s].todo PROVE HeldSecrets(x.secrets, x.key[1])' BY DEF ServerHeld
  <2>1. PICK subject, e : subject = x.key[1] /\ e = x.secrets OBVIOUS
  <2>2. e \in Secrets BY <2>1 DEF TypeInv, ServerType, MoveType
  <2>3. HeldSecrets(e, subject) BY <2>1, LegacyHeld DEF OwnerInv, ServerHeld
  <2>4. HeldSecrets(e, subject)' BY <2>2, <2>3, PartsLater
  <2> QED BY <2>1, <2>4
<1>4. ASSUME NEW a \in Actors PROVE TaskHeld(task[a])'
  <2>1. CASE task'[a] = task[a]
    <3>1. PICK t \in TaskType : t = task[a] /\ t = task'[a] BY <2>1 DEF TypeInv
    <3>2. TaskHeld(t) BY <3>1 DEF OwnerInv
    <3>3. TaskHeld(t)' BY <3>2, TaskLater
    <3> QED BY <3>1, <3>3
  <2> QED BY <2>1
<1> QED BY <1>1, <1>2, <1>3, <1>4 DEF OwnerInv

(* one request goes on, the rest is as it was *)
LEMMA OwnerTurn ==
  ASSUME TypeInv, TypeInv', OwnerInv, Kept, Forward, FlowHeld', TabHeld', db' = db, server' = server,
         NEW a \in Actors, NEW u, task' = [task EXCEPT ![a] = u], TaskHeld(u)'
  PROVE  OwnerInv'
<1>1. \A b \in Actors : task'[b] = IF b = a THEN u ELSE task[b] BY DEF TypeInv
<1>2. \A b \in Actors : TaskHeld(task[b])' \/ task'[b] = task[b] BY <1>1
<1> QED BY <1>2, OwnerStep

LEMMA FlowFacts ==
  ASSUME TypeInv
  PROVE  \A f \in DOMAIN flow : flow[f] \in FlowType /\ flow[f].token \in Nat /\ flow[f].subject \in Subjects
<1>1. flow \in Seq(FlowType) BY DEF TypeInv
<1>2. \A f \in DOMAIN flow : flow[f] \in FlowType BY <1>1
<1> QED BY <1>2 DEF FlowType
LEMMA FlowSame ==
  ASSUME TypeInv, TypeInv', OwnerInv, flow' = flow, history'.writes >= history.writes
  PROVE  Forward /\ FlowHeld'
<1>1. flow \in Seq(FlowType) /\ history.writes \in Nat /\ history'.writes \in Nat BY DEF TypeInv, HistoryType
<1>2. \A f \in DOMAIN flow : flow[f].token \in Nat BY FlowFacts
<1> QED BY <1>1, <1>2 DEF OwnerInv, FlowHeld, Forward
LEMMA FlowGrows ==
  ASSUME TypeInv, TypeInv', OwnerInv, NEW f \in FlowType, f.token = 0, flow' = Append(flow, f),
         history'.writes = history.writes
  PROVE  Forward /\ FlowHeld'
<1>1. flow \in Seq(FlowType) /\ history.writes \in Nat BY DEF TypeInv, HistoryType
<1>2. DOMAIN flow' = 1 .. (Len(flow) + 1) /\ DOMAIN flow = 1 .. Len(flow) BY <1>1
<1>3. \A j \in DOMAIN flow' : IF j \in DOMAIN flow THEN flow'[j] = flow[j] ELSE flow'[j] = f BY <1>1, <1>2
<1> QED BY <1>1, <1>3 DEF OwnerInv, FlowHeld, Forward
LEMMA FlowTaken ==
  ASSUME TypeInv, TypeInv', OwnerInv, NEW n, n = history.writes + 1, NEW f \in DOMAIN flow, time <= flow[f].exp,
         flow' = [flow EXCEPT ![f].token = n, ![f].at = time],
         history'.writes = n
  PROVE  /\ Forward /\ FlowHeld' /\ flow'[f].token = n /\ flow'[f].subject = flow[f].subject
         /\ \A j \in DOMAIN flow' : flow'[j].token = n => j = f
<1>1. flow \in Seq(FlowType) /\ history.writes \in Nat /\ n \in Nat BY DEF TypeInv, HistoryType
<1>2. \A j \in DOMAIN flow : flow[j].token \in Nat BY FlowFacts
<1>3. flow[f] \in FlowType BY <1>1
<1>4. flow'[f].token = n /\ flow'[f].at = time /\ flow'[f].subject = flow[f].subject /\ flow'[f].exp = flow[f].exp
  BY <1>1, <1>3 DEF FlowType
<1>5. DOMAIN flow' = DOMAIN flow /\ \A j \in DOMAIN flow : j # f => flow'[j] = flow[j] BY <1>1
<1> QED BY <1>1, <1>2, <1>4, <1>5 DEF OwnerInv, FlowHeld, Forward

LEMMA TabHolds ==
  ASSUME TypeInv, TypeInv', OwnerInv, Forward,
         \A k \in FieldKeys : Held(tab.form[k], User)' \/ tab'.form[k] = tab.form[k],
         HeldBy(tab.draft, User)' \/ tab'.draft = tab.draft,
         \A w \in tab'.wants : HeldPatch(w.patch, User)' \/ w \in tab.wants
  PROVE  TabHeld'
<1>1. ASSUME NEW k \in FieldKeys PROVE Held(tab.form[k], User)'
  <2>1. CASE tab'.form[k] = tab.form[k]
    <3>1. PICK v \in Values \cup {None} : v = tab.form[k] /\ v = tab'.form[k] BY <2>1 DEF TypeInv, TabType, Forms
    <3>2. Held(v, User) BY <3>1 DEF OwnerInv, TabHeld
    <3> QED BY <3>1, <3>2, HeldLater
  <2> QED BY <2>1
<1>2. HeldBy(tab.draft, User)'
  <2>1. CASE tab'.draft = tab.draft
    <3>1. PICK c \in Credentials : c = tab.draft /\ c = tab'.draft BY <2>1 DEF TypeInv, TabType
    <3>2. HeldBy(c, User) BY <3>1 DEF OwnerInv, TabHeld
    <3> QED BY <3>1, <3>2, PartsLater
  <2> QED BY <2>1
<1>3. ASSUME NEW w \in tab'.wants PROVE HeldPatch(w.patch, User)'
  <2>1. CASE w \in tab.wants
    <3>1. PICK c \in PatchType : c = w.patch BY <2>1 DEF TypeInv, TabType, WantType
    <3>2. HeldPatch(c, User) BY <2>1, <3>1 DEF OwnerInv, TabHeld
    <3>3. HeldPatch(c, User)' BY <3>2, PartsLater
    <3> QED BY <3>1, <3>3
  <2> QED BY <2>1
<1> QED BY <1>1, <1>2, <1>3 DEF TabHeld
LEMMA TabSame ==
  ASSUME TypeInv, TypeInv', OwnerInv, Forward, tab' = tab
  PROVE  TabHeld'
  BY TabHolds

(* a request begins *)
LEMMA BeginsOwner ==
  ASSUME TypeInv, TypeInv', VaultInv, OwnerInv, Kept, Forward, FlowHeld', TabHeld',
         NEW a \in Actors, NEW t, Begins(a, t), HeldPatch(t.patch, t.key[1])', t.from = "tab" => t.key[1] = User
  PROVE  OwnerInv'
<1>1. t \in TaskType /\ t.key \in Keys /\ t.credential = NoCredential /\ db' = db /\ server' = server
      /\ task' = [task EXCEPT ![a] = Fetched(t)]
  BY DEF Begins, Starting
<1>2. PICK u : u = Fetched(t) OBVIOUS
<1>3. PICK c \in Credentials : c = Current(t.key) BY <1>1, CurrentFacts
<1>4. HeldBy(c, t.key[1]) BY <1>1, <1>3, CurrentHeld DEF OwnerInv
<1>5. HeldBy(c, t.key[1])' BY <1>4, PartsLater
<1>6. HeldBy(NoCredential, t.key[1])'
  BY DEF HeldBy, HeldConfig, HeldSecrets, NoCredential, NoConfig, NoSecrets, Held
<1>7. TaskHeld(t)' BY <1>1, <1>6 DEF TaskHeld
<1>8. Follows(t, u, c) \/ Waits(t, u) BY <1>1, <1>2, <1>3, FetchedFacts
<1>9. TaskHeld(u)' BY <1>1, <1>3, <1>4, <1>5, <1>7, <1>8, FollowsHeld, WaitsHeld
<1> QED BY <1>1, <1>2, <1>9, OwnerTurn

(* what is new of a credential is of a new write, or of nobody *)
LEMMA NewHeld ==
  ASSUME TypeInv, TypeInv', NEW n \in Nat, n <= history'.writes, NEW c \in PatchType, NEW subject,
         c.config = None \/ \A k \in ConfigNames : c.config[k] = None \/ c.config[k].by = n,
         c.secrets = None \/ \A k \in SecretNames : c.secrets[k] = None \/ c.secrets[k].by = n,
         \A f \in DOMAIN flow' : flow'[f].token # 0 /\ flow'[f].token = n => flow'[f].subject = subject
  PROVE  HeldPatch(c, subject)'
  BY DEF HeldPatch, HeldConfig, HeldSecrets, Held
LEMMA NewToken ==
  ASSUME TypeInv, OwnerInv, flow' = flow
  PROVE  \A f \in DOMAIN flow' : flow'[f].token # history.writes + 1
<1>1. history.writes \in Nat BY DEF TypeInv, HistoryType
<1> QED BY <1>1, FlowFacts DEF OwnerInv, FlowHeld

LEMMA PutOwner ==
  ASSUME TypeInv, VaultInv, OwnerInv, Kept, NEW h \in Slots, NEW s \in Servers, Put(h, s)
  PROVE  OwnerInv'
<1>1. TypeInv' /\ flow' = flow /\ tab' = tab /\ history'.writes = history.writes + 1 BY PutTyped
<1>2. PICK t : /\ Begins(h, t) /\ t.key[1] = User
               /\ t.patch.config = None \/ \A k \in ConfigNames :
                    t.patch.config[k] = None \/ t.patch.config[k].by = history.writes + 1
               /\ t.patch.secrets = None \/ \A k \in SecretNames :
                    t.patch.secrets[k] = None \/ t.patch.secrets[k].by = history.writes + 1
  BY PutTyped
<1>3. history.writes \in Nat BY DEF TypeInv, HistoryType
<1>4. PICK n \in Nat : n = history.writes + 1 BY <1>3
<1>5. Forward /\ FlowHeld' BY <1>1, <1>3, FlowSame
<1>6. TabHeld' BY <1>1, <1>5, TabSame
<1>7. PICK c, subject : c \in PatchType /\ c = t.patch /\ subject = t.key[1] BY <1>2 DEF Begins, Starting, TaskType
<1>8. HeldPatch(c, subject)'
  <2>1. \A f \in DOMAIN flow' : flow'[f].token # n BY <1>1, <1>4, NewToken
  <2> QED BY <1>1, <1>2, <1>4, <1>7, <2>1, NewHeld
<1>9. h \in Actors BY DEF Actors
<1> QED BY <1>1, <1>2, <1>5, <1>6, <1>7, <1>8, <1>9, BeginsOwner

LEMMA GetOwner ==
  ASSUME TypeInv, VaultInv, OwnerInv, Kept, NEW h \in Slots, NEW s \in Servers, Get(h, s)
  PROVE  OwnerInv'
<1>1. TypeInv' /\ flow' = flow /\ tab' = tab /\ history'.writes = history.writes BY GetTyped
<1>2. PICK t : Begins(h, t) /\ t.key[1] = User /\ t.patch = NoPatch BY GetTyped
<1>3. history.writes \in Nat BY DEF TypeInv, HistoryType
<1>4. Forward /\ FlowHeld' BY <1>1, <1>3, FlowSame
<1>5. TabHeld' BY <1>1, <1>4, TabSame
<1>6. PICK c, subject : c = t.patch /\ subject = t.key[1] OBVIOUS
<1>7. HeldPatch(c, subject)' BY <1>2, <1>6, OauthFacts DEF HeldPatch
<1>8. h \in Actors BY DEF Actors
<1> QED BY <1>1, <1>2, <1>4, <1>5, <1>6, <1>7, <1>8, BeginsOwner

LEMMA DisconnectedHeld ==
  ASSUME TypeInv, TypeInv', NEW subject
  PROVE  HeldPatch(Disconnected, subject)'
<1>1. PICK c \in PatchType : c = Disconnected BY OauthFacts
<1>2. \A k \in ConfigNames : c.config[k] = None \/ c.config[k].by = 0 BY <1>1, OauthFacts
<1>3. \A k \in SecretNames : c.secrets[k] = None BY <1>1, OauthFacts DEF NoSecrets
<1>4. history'.writes \in Nat /\ 0 <= history'.writes BY DEF TypeInv, HistoryType
<1>5. HeldPatch(c, subject)' BY <1>2, <1>3, <1>4, NewHeld
<1> QED BY <1>1, <1>5

LEMMA DisconnectOwner ==
  ASSUME TypeInv, VaultInv, OwnerInv, Kept, NEW h \in Slots, NEW s \in Servers, Disconnect(h, s)
  PROVE  OwnerInv'
<1>1. TypeInv' /\ flow' = flow /\ tab' = tab /\ history'.writes = history.writes BY DisconnectTyped
<1>2. PICK t : Begins(h, t) /\ t.key[1] = User /\ t.patch = Disconnected BY DisconnectTyped
<1>3. history.writes \in Nat BY DEF TypeInv, HistoryType
<1>4. Forward /\ FlowHeld' BY <1>1, <1>3, FlowSame
<1>5. TabHeld' BY <1>1, <1>4, TabSame
<1>6. PICK subject : subject = t.key[1] OBVIOUS
<1>7. HeldPatch(Disconnected, subject)' BY <1>1, DisconnectedHeld
<1>8. PICK c : c = t.patch OBVIOUS
<1>9. HeldPatch(c, subject)' BY <1>2, <1>7, <1>8
<1>10. h \in Actors BY DEF Actors
<1> QED BY <1>1, <1>2, <1>4, <1>5, <1>6, <1>8, <1>9, <1>10, BeginsOwner

LEMMA CallbackOwner ==
  ASSUME TypeInv, VaultInv, OwnerInv, Kept, NEW h \in Slots, NEW s \in Servers, Callback(h, s)
  PROVE  OwnerInv'
<1>1. TypeInv' /\ tab' = tab /\ history'.writes = history.writes + 1 BY CallbackTyped
<1>2. PICK f \in DOMAIN flow :
              /\ flow' = [flow EXCEPT ![f].token = history.writes + 1, ![f].at = time]
              /\ flow[f].token = 0 /\ ~(time > flow[f].exp)
              /\ \E t : /\ Begins(h, t) /\ t.key[1] = flow[f].subject /\ t.key[2] = "google_sheets" /\ t.from = "api"
                       /\ t.patch = Consented(history.writes + 1)
  BY CallbackTyped
<1>3. PICK t : /\ Begins(h, t) /\ t.key[1] = flow[f].subject /\ t.from = "api"
               /\ t.patch = Consented(history.writes + 1) BY <1>2
<1>4. history.writes \in Nat BY DEF TypeInv, HistoryType
<1>5. PICK n \in Nat : n = history.writes + 1 BY <1>4
<1>6. time <= flow[f].exp
  <2>1. flow[f].exp \in Nat /\ time \in Nat BY FlowFacts DEF FlowType, TypeInv
  <2> QED BY <1>2, <2>1
<1>7. /\ Forward /\ FlowHeld' /\ flow'[f].subject = flow[f].subject
      /\ \A j \in DOMAIN flow' : flow'[j].token = n => j = f
  BY <1>1, <1>2, <1>5, <1>6, FlowTaken, ZenonT(40)
<1>8. TabHeld' BY <1>1, <1>7, TabSame
<1>9. PICK subject : subject = t.key[1] OBVIOUS
<1>10. PICK c \in PatchType : c = t.patch BY <1>3, <1>5, OauthFacts
<1>11. HeldPatch(c, subject)'
  <2>1. /\ \A k \in ConfigNames : c.config[k] = None \/ c.config[k].by = n
        /\ \A k \in SecretNames : c.secrets[k] = None \/ c.secrets[k].by = n
    BY <1>3, <1>5, <1>10, OauthFacts
  <2>2. n <= history'.writes BY <1>1, <1>5
  <2>3. \A j \in DOMAIN flow' : flow'[j].token # 0 /\ flow'[j].token = n => flow'[j].subject = subject
    BY <1>3, <1>7, <1>9
  <2> QED BY <1>1, <2>1, <2>2, <2>3, NewHeld
<1>12. h \in Actors /\ t.from # "tab"
  BY <1>3 DEF Actors
<1> QED BY <1>1, <1>3, <1>7, <1>8, <1>9, <1>10, <1>11, <1>12, BeginsOwner

LEMMA SeedOwner ==
  ASSUME TypeInv, WorkInv, VaultInv, OwnerInv, Kept, NEW s \in Servers, Seed(s)
  PROVE  OwnerInv'
<1>1. TypeInv' /\ flow' = flow /\ tab' = tab /\ history'.writes = history.writes BY SeedTyped
<1>2. PICK p \in Providers : \E t : Begins(s, t) /\ t.key = <<User, p>> /\ t.patch = SeedPatch(p, scenario.env)
  BY SeedTyped
<1>3. PICK t : Begins(s, t) /\ t.key = <<User, p>> /\ t.patch = SeedPatch(p, scenario.env) BY <1>2
<1>4. history.writes \in Nat BY DEF TypeInv, HistoryType
<1>5. Forward /\ FlowHeld' BY <1>1, <1>4, FlowSame
<1>6. TabHeld' BY <1>1, <1>5, TabSame
<1>7. PICK env \in [EnvNames -> {None} \cup Values] : env = scenario.env BY DEF TypeInv, Scenario
<1>8. PICK c \in PatchType : c = SeedPatch(p, env) /\ FromEnv(p, env, c.config) /\ FromEnv(p, env, c.secrets)
  BY SeedFacts
<1>9. \A j \in Settings[p] : env[j] = None \/ env[j].by = 0 BY <1>7 DEF OwnerInv, EnvHeld, First0
<1>10. PICK subject : subject = t.key[1] OBVIOUS
<1>11. HeldPatch(c, subject)'
  <2>1. c.config = None \/ \A k \in ConfigNames : c.config[k] = None \/ c.config[k].by = 0
    <3>1. CASE c.config # None
      <4>1. DOMAIN c.config = ConfigNames BY <3>1 DEF PatchType, Configs
      <4> QED BY <1>8, <1>9, <3>1, <4>1 DEF FromEnv
    <3> QED BY <3>1
  <2>2. c.secrets = None \/ \A k \in SecretNames : c.secrets[k] = None \/ c.secrets[k].by = 0
    <3>1. CASE c.secrets # None
      <4>1. DOMAIN c.secrets = SecretNames BY <3>1 DEF PatchType, Secrets
      <4> QED BY <1>8, <1>9, <3>1, <4>1 DEF FromEnv
    <3> QED BY <3>1
  <2>3. 0 <= history'.writes BY <1>1, <1>4
  <2> QED BY <1>1, <2>1, <2>2, <2>3, NewHeld
<1>12. s \in Actors BY DEF Actors
<1>13. t.patch = c /\ t.key[1] = User BY <1>3, <1>7, <1>8
<1> QED BY <1>1, <1>3, <1>5, <1>6, <1>10, <1>11, <1>12, <1>13, BeginsOwner

LEMMA ListsOwner ==
  ASSUME TypeInv, TypeInv', OwnerInv, Kept, Forward, FlowHeld', TabHeld', NEW a \in Actors, NEW t, Lists(a, t)
  PROVE  OwnerInv'
<1>1. PICK subject, c, d : subject = t.key[1] /\ c = t.credential /\ d = t.patch OBVIOUS
<1>2. HeldBy(c, subject)'
  BY <1>1 DEF Lists, HeldBy, HeldConfig, HeldSecrets, NoCredential, NoConfig, NoSecrets, Held
<1>3. HeldPatch(d, subject)' BY <1>1, OauthFacts DEF Lists, HeldPatch
<1>4. TaskHeld(t)' BY <1>1, <1>2, <1>3 DEF TaskHeld, Lists
<1> QED BY <1>4, OwnerTurn DEF Lists

LEMMA TabSendsOwner ==
  ASSUME TypeInv, VaultInv, OwnerInv, Kept, NEW h \in Slots, NEW s \in Servers, TabSends(h, s)
  PROVE  OwnerInv'
<1>1. TypeInv' /\ flow' = flow /\ history'.writes = history.writes BY TabSendsTyped
<1>2. PICK w \in tab.wants :
              /\ tab' = [tab EXCEPT !.wants = @ \ {w}]
              /\ \/ \E t : Lists(h, t)
                 \/ \E t : Begins(h, t) /\ t.key[1] = User /\ t.patch = w.patch
  BY TabSendsTyped
<1>3. history.writes \in Nat BY DEF TypeInv, HistoryType
<1>4. Forward /\ FlowHeld' BY <1>1, <1>3, FlowSame
<1>5. TabHeld'
  <2>1. tab'.form = tab.form /\ tab'.draft = tab.draft /\ tab'.wants \subseteq tab.wants
    BY <1>2 DEF TypeInv, TabType
  <2> QED BY <1>1, <1>4, <2>1, TabHolds
<1>6. h \in Actors BY DEF Actors
<1>7. CASE \E t : Lists(h, t) BY <1>1, <1>4, <1>5, <1>6, <1>7, ListsOwner
<1>8. ASSUME NEW t, Begins(h, t), t.key[1] = User, t.patch = w.patch PROVE OwnerInv'
  <2>1. PICK subject : subject = t.key[1] OBVIOUS
  <2>2. PICK c \in PatchType : c = w.patch BY DEF TypeInv, TabType, WantType
  <2>3. HeldPatch(c, User) BY <2>2 DEF OwnerInv, TabHeld
  <2>4. HeldPatch(c, User)' BY <1>1, <1>4, <2>3, PartsLater
  <2>5. HeldPatch(c, subject)' BY <1>8, <2>1, <2>4
  <2> QED BY <1>1, <1>4, <1>5, <1>6, <1>8, <2>1, <2>2, <2>5, BeginsOwner
<1> QED BY <1>2, <1>7, <1>8

(* the requests on their way *)
LEMMA TurnLater ==
  ASSUME TypeInv, TypeInv', OwnerInv, Forward, NEW a \in Actors
  PROVE  \A t : t = task[a] => t \in TaskType /\ TaskHeld(t)'
<1> TAKE t
<1> HAVE t = task[a]
<1>1. t \in TaskType BY DEF TypeInv
<1>2. TaskHeld(t) BY DEF OwnerInv
<1> QED BY <1>1, <1>2, TaskLater

LEMMA StillHeld ==
  ASSUME TypeInv, TypeInv', OwnerInv, flow' = flow, tab' = tab, history'.writes = history.writes
  PROVE  Forward /\ FlowHeld' /\ TabHeld'
<1>1. history.writes \in Nat BY DEF TypeInv, HistoryType
<1>2. Forward /\ FlowHeld' BY <1>1, FlowSame
<1> QED BY <1>2, TabSame

LEMMA RereadOwner ==
  ASSUME TypeInv, WorkInv, VaultInv, OwnerInv, Kept, NEW a \in Actors, Reread(a)
  PROVE  OwnerInv'
<1>1. TypeInv' /\ UNCHANGED <<db, server, flow, tab, history>> BY RereadTyped DEF Reread
<1>2. Forward /\ FlowHeld' /\ TabHeld' BY <1>1, StillHeld
<1>3. PICK t : t = task[a] OBVIOUS
<1>4. /\ t \in TaskType /\ t.key \in Keys /\ task' = [task EXCEPT ![a] = Fetched(t)]
      /\ Follows(t, Fetched(t), Current(t.key)) \/ Waits(t, Fetched(t))
  BY <1>3, RereadFacts
<1>5. TaskHeld(t)' BY <1>1, <1>2, <1>3, TurnLater
<1>6. PICK u : u = Fetched(t) OBVIOUS
<1>7. PICK c \in Credentials : c = Current(t.key) BY <1>4, CurrentFacts
<1>8. HeldBy(c, t.key[1]) BY <1>4, <1>7, CurrentHeld DEF OwnerInv
<1>9. HeldBy(c, t.key[1])' BY <1>1, <1>2, <1>8, PartsLater
<1>10. TaskHeld(u)' BY <1>1, <1>2, <1>4, <1>5, <1>6, <1>7, <1>8, <1>9, FollowsHeld, WaitsHeld
<1> QED BY <1>1, <1>2, <1>4, <1>6, <1>10, OwnerTurn

LEMMA LoadOwner ==
  ASSUME TypeInv, WorkInv, OwnerInv, Kept, NEW a \in Actors, Load(a)
  PROVE  OwnerInv'
<1>1. TypeInv' /\ UNCHANGED <<db, server, flow, tab, history>> BY LoadTyped DEF Load
<1>2. Forward /\ FlowHeld' /\ TabHeld' BY <1>1, StillHeld
<1>3. PICK t \in TaskType : t = task[a] BY DEF TypeInv
<1>4. t.key \in Keys BY <1>3, WorkingFacts DEF Load, Working
<1>5. PICK u \in TaskType :
           /\ task' = [task EXCEPT ![a] = u]
           /\ \/ db.vault[task[a].key] = None /\ u = Repace(task[a], "failed")
              \/ /\ db.vault[task[a].key] \in Secrets
                 /\ Follows(task[a], u, [config |-> task[a].credential.config, secrets |-> db.vault[task[a].key]])
  BY LoadFacts
<1>6. TaskHeld(t)' BY <1>1, <1>2, <1>3, TurnLater
<1>7. CASE u = Repace(t, "failed")
  <2>1. TaskHeld(Repace(t, "failed"))' BY <1>6, RepaceHeld DEF Pcs
  <2>2. TaskHeld(u)' BY <1>7, <2>1
  <2> QED BY <1>1, <1>2, <1>5, <2>2, OwnerTurn
<1>8. CASE /\ db.vault[t.key] \in Secrets
           /\ Follows(t, u, [config |-> t.credential.config, secrets |-> db.vault[t.key]])
  <2>1. PICK e \in Secrets : e = db.vault[t.key] BY <1>8
  <2>2. PICK d \in Credentials : d = t.credential BY DEF TaskType
  <2>3. PICK c \in Credentials : c = [config |-> d.config, secrets |-> e] BY DEF Credentials
  <2>4. PICK subject : subject = t.key[1] OBVIOUS
  <2>5. CASE t.key \notin Keys BY <1>1, <1>2, <1>5, <1>8, <2>5, OwnerTurn DEF TaskHeld, Follows, Same
  <2>6. CASE t.key \in Keys
    <3>1. HeldBy(d, subject)' BY <1>6, <2>2, <2>4, <2>6 DEF TaskHeld
    <3>2. HeldSecrets(e, subject) BY <1>4, <2>1, <2>4, NoneAssumption DEF OwnerInv, RowHeld
    <3>3. HeldSecrets(e, subject)' BY <1>1, <1>2, <3>2, PartsLater
    <3>4. HeldBy(c, subject)' BY <2>3, <3>1, <3>3 DEF HeldBy
    <3>5. HeldBy(c, t.key[1])' BY <2>4, <3>4
    <3>6. Follows(t, u, c) BY <1>8, <2>1, <2>2, <2>3
    <3>7. TaskHeld(u)' BY <1>1, <1>2, <1>4, <1>6, <3>5, <3>6, FollowsHeld
    <3> QED BY <1>1, <1>2, <1>5, <3>7, OwnerTurn
  <2> QED BY <2>5, <2>6
<1> QED BY <1>3, <1>5, <1>7, <1>8

(* a save goes on *)
LEMMA RepacedHeld ==
  ASSUME TypeInv, TypeInv', OwnerInv, Forward, NEW a \in Actors, NEW pc \in Pcs,
         task' = [task EXCEPT ![a] = Repace(task[a], pc)]
  PROVE  \A b \in Actors : TaskHeld(task[b])' \/ task'[b] = task[b]
<1>1. PICK t \in TaskType : t = task[a] BY DEF TypeInv
<1>2. TaskHeld(t)' BY <1>1, TurnLater
<1>3. PICK u : u = Repace(t, pc) OBVIOUS
<1>4. TaskHeld(Repace(t, pc))' BY <1>2, RepaceHeld
<1>5. TaskHeld(u)' BY <1>3, <1>4
<1>6. \A b \in Actors : task'[b] = IF b = a THEN u ELSE task[b] BY <1>1, <1>3 DEF TypeInv
<1> QED BY <1>5, <1>6

(* Vault is given what is held *)
LEMMA VaultHeld ==
  ASSUME TypeInv, TypeInv', OwnerInv, Forward, NEW key \in Keys, NEW x \in Secrets, HeldSecrets(x, key[1]),
         db'.rows = db.rows, db'.vault = [db.vault EXCEPT ![key] = x]
  PROVE  \A k \in Keys : RowHeld(k)' \/ (db'.rows[k] = db.rows[k] /\ db'.vault[k] = db.vault[k])
<1>1. \A k \in Keys : db'.vault[k] = IF k = key THEN x ELSE db.vault[k] BY DEF TypeInv, DbType
<1>2. HeldSecrets(x, key[1])' BY PartsLater
<1>3. RowHeld(key)'
  <2>1. PICK row \in RowType \cup {None} : row = db.rows[key] BY DEF TypeInv, DbType
  <2>2. row # None => HeldConfig(row.config, key[1])'
    <3>1. row # None => row.config \in Configs /\ HeldConfig(row.config, key[1])
      BY <2>1 DEF OwnerInv, RowHeld, RowType
    <3> QED BY <3>1, PartsLater
  <2>3. row # None /\ row.ref # None => HeldSecrets(row.ref.secrets, key[1])'
    <3>1. row # None /\ row.ref # None => row.ref.secrets \in Secrets /\ HeldSecrets(row.ref.secrets, key[1])
      BY <2>1 DEF OwnerInv, RowHeld, RowType, RefType
    <3> QED BY <3>1, PartsLater
  <2>4. db'.rows[key] = row /\ db'.vault[key] = x BY <1>1, <2>1
  <2> QED BY <1>2, <2>2, <2>3, <2>4 DEF RowHeld
<1> QED BY <1>1, <1>3

(* what a save has is its owner's *)
LEMMA SavingHeld ==
  ASSUME TypeInv, WorkInv, OwnerInv, NEW a \in Actors, Working(a)
  PROVE  /\ task[a].key \in Keys /\ task[a].credential \in Credentials
         /\ HeldBy(task[a].credential, task[a].key[1])
<1>1. task[a].key \in Keys /\ task[a] \in TaskType BY WorkingFacts
<1> QED BY <1>1 DEF OwnerInv, TaskHeld, TaskType

LEMMA SaveSecretsOwner ==
  ASSUME TypeInv, WorkInv, OwnerInv, Kept, NEW a \in Actors, SaveSecrets(a)
  PROVE  OwnerInv'
<1>1. TypeInv' /\ UNCHANGED <<server, flow, tab, history>> /\ Working(a)
  BY SaveSecretsTyped DEF SaveSecrets, Working
<1>2. Forward /\ FlowHeld' /\ TabHeld' BY <1>1, StillHeld
<1>3. PICK key \in Keys, x \in Secrets : key = task[a].key /\ x = task[a].credential.secrets BY SaveSecretsTyped
<1>4. /\ db'.rows = db.rows /\ db'.vault = [db.vault EXCEPT ![key] = x]
      /\ task' = [task EXCEPT ![a] = Repace(task[a], "write")]
  BY <1>3, SaveSecretsTyped
<1>5. HeldSecrets(x, key[1]) BY <1>1, <1>3, SavingHeld DEF HeldBy
<1>6. \A k \in Keys : RowHeld(k)' \/ (db'.rows[k] = db.rows[k] /\ db'.vault[k] = db.vault[k])
  BY <1>1, <1>2, <1>4, <1>5, VaultHeld
<1>7. \A b \in Actors : TaskHeld(task[b])' \/ task'[b] = task[b] BY <1>1, <1>2, <1>4, RepacedHeld DEF Pcs
<1> QED BY <1>1, <1>2, <1>6, <1>7, OwnerStep

LEMMA WriteRowOwner ==
  ASSUME TypeInv, WorkInv, OwnerInv, Kept, NEW a \in Actors, WriteRow(a)
  PROVE  OwnerInv'
<1>1. TypeInv' /\ UNCHANGED <<server, flow, tab, history>> /\ Working(a)
  BY WriteRowTyped DEF WriteRow, Working
<1>2. Forward /\ FlowHeld' /\ TabHeld' BY <1>1, StillHeld
<1>3. PICK key \in Keys : key = task[a].key BY WriteRowTyped
<1>4. PICK c \in Credentials : c = task[a].credential /\ HeldBy(c, key[1]) BY <1>1, <1>3, SavingHeld
<1>5. task[a].server \in Servers BY <1>1, WorkingFacts
<1>6. PICK row \in RowType : row = Row(task[a]) BY <1>5, RowFacts
<1>7. /\ db'.vault = db.vault /\ db'.rows = [db.rows EXCEPT ![key] = row]
      /\ task' = [task EXCEPT ![a] = Repace(task[a], "audit")]
  BY <1>3, <1>6, WriteRowTyped
<1>8. server[task[a].server].backend \in Backends BY <1>5 DEF TypeInv, ServerType
<1>9. row.config = c.config /\ (row.ref # None => row.ref.secrets = c.secrets \/ row.ref.secrets = NoSecrets)
  <2>1. row.config = c.config /\ row.ref = Ref(server[task[a].server].backend, c.secrets) BY <1>4, <1>5, <1>6, RowFacts
  <2> QED BY <1>4, <1>8, <2>1 DEF Ref, InVault, Encrypted
<1>10. \A k \in Keys : RowHeld(k)' \/ (db'.rows[k] = db.rows[k] /\ db'.vault[k] = db.vault[k])
  <2>1. \A k \in Keys : db'.rows[k] = IF k = key THEN row ELSE db.rows[k] BY <1>7 DEF TypeInv, DbType
  <2>2. HeldBy(c, key[1])' BY <1>1, <1>2, <1>4, PartsLater
  <2>3. HeldSecrets(NoSecrets, key[1])' BY DEF HeldSecrets, NoSecrets, Held
  <2>4. PICK v \in Secrets \cup {None} : v = db.vault[key] /\ v = db'.vault[key] BY <1>7 DEF TypeInv, DbType
  <2>5. v # None => HeldSecrets(v, key[1])' BY <1>1, <1>2, <2>4, PartsLater DEF OwnerInv, RowHeld
  <2>6. HeldConfig(row.config, key[1])' /\ (row.ref # None => HeldSecrets(row.ref.secrets, key[1])')
    BY <1>9, <2>2, <2>3 DEF HeldBy
  <2>7. RowHeld(key)' BY <2>1, <2>4, <2>5, <2>6 DEF RowHeld
  <2> QED BY <1>7, <2>1, <2>7
<1>11. \A b \in Actors : TaskHeld(task[b])' \/ task'[b] = task[b] BY <1>1, <1>2, <1>7, RepacedHeld DEF Pcs
<1> QED BY <1>1, <1>2, <1>10, <1>11, OwnerStep

LEMMA SavesOwner ==
  ASSUME TypeInv, WorkInv, OwnerInv, Kept, NEW a \in Actors, Saves(a)
  PROVE  OwnerInv'
<1>1. /\ TypeInv' /\ UNCHANGED <<db, server, flow, tab>> /\ history'.writes = history.writes
      /\ task' = [task EXCEPT ![a] = Repace(task[a], "answered")]
  BY SavesTyped DEF Saves
<1>2. Forward /\ FlowHeld' /\ TabHeld' BY <1>1, StillHeld
<1>3. \A b \in Actors : TaskHeld(task[b])' \/ task'[b] = task[b] BY <1>1, <1>2, RepacedHeld DEF Pcs
<1> QED BY <1>1, <1>2, <1>3, OwnerStep

LEMMA FailsOwner ==
  ASSUME TypeInv, WorkInv, OwnerInv, Kept, NEW a \in Actors, Fails(a)
  PROVE  OwnerInv'
<1>1. /\ TypeInv' /\ UNCHANGED <<server, flow, tab>> /\ Working(a) /\ history'.writes = history.writes
      /\ task' = [task EXCEPT ![a] = Repace(task[a], "failed")]
  BY FailsTyped DEF Fails, Working, Doubts
<1>2. Forward /\ FlowHeld' /\ TabHeld' BY <1>1, StillHeld
<1>3. PICK key \in Keys : key = task[a].key BY FailsTyped
<1>4. PICK x \in Secrets : x = task[a].credential.secrets /\ HeldSecrets(x, key[1])
  BY <1>1, <1>3, SavingHeld DEF HeldBy, Credentials
<1>5. \A k \in Keys : RowHeld(k)' \/ (db'.rows[k] = db.rows[k] /\ db'.vault[k] = db.vault[k])
  <2>1. CASE db' = db BY <2>1
  <2>2. CASE db' # db
    <3>1. db'.rows = db.rows /\ db'.vault = [db.vault EXCEPT ![key] = x] BY <1>3, <1>4, <2>2, FailsTyped
    <3> QED BY <1>1, <1>2, <1>4, <3>1, VaultHeld
  <2> QED BY <2>1, <2>2
<1>6. \A b \in Actors : TaskHeld(task[b])' \/ task'[b] = task[b] BY <1>1, <1>2, RepacedHeld DEF Pcs
<1> QED BY <1>1, <1>2, <1>5, <1>6, OwnerStep

LEMMA EndsOwner ==
  ASSUME TypeInv, TypeInv', WorkInv, OwnerInv, Kept, NEW a \in Actors, Ends(a), TabHeld'
  PROVE  OwnerInv'
<1>1. UNCHANGED <<db, flow, history>> /\ task' = [task EXCEPT ![a] = Idle] BY DEF Ends
<1>2. Forward /\ FlowHeld'
  <2>1. history'.writes >= history.writes BY <1>1 DEF TypeInv, HistoryType
  <2> QED BY <1>1, <2>1, FlowSame
<1>3. TaskHeld(Idle)' BY IdleTyped, NoneAssumption DEF TaskHeld
<1>4. \A b \in Actors : TaskHeld(task[b])' \/ task'[b] = task[b]
  <2>1. PICK u : u = Idle OBVIOUS
  <2>2. \A b \in Actors : task'[b] = IF b = a THEN u ELSE task[b] BY <1>1, <2>1 DEF TypeInv
  <2>3. TaskHeld(u)' BY <1>3, <2>1
  <2> QED BY <2>2, <2>3
<1>5. \A s \in Servers : server'[s].todo = server[s].todo
  <2>1. CASE a \in Slots BY <2>1 DEF Ends
  <2>2. CASE a \in Servers BY <2>2 DEF Ends, TypeInv
  <2> QED BY <2>1, <2>2 DEF Actors
<1> QED BY <1>1, <1>2, <1>4, <1>5, OwnerStep

LEMMA TabAnsweredOwner ==
  ASSUME TypeInv, WorkInv, OwnerInv, Kept, NEW h \in Slots, TabAnswered(h)
  PROVE  OwnerInv'
<1>1. TypeInv' /\ Ends(h) BY TabAnsweredTyped
<1>2. UNCHANGED <<flow, history>> BY <1>1 DEF Ends
<1>3. Forward
  <2>1. history'.writes >= history.writes BY <1>2 DEF TypeInv, HistoryType
  <2> QED BY <1>1, <1>2, <2>1, FlowSame
<1>4. h \in Actors BY DEF Actors
<1>5. CASE /\ tab'.form = tab.form /\ tab'.draft = tab.draft
           /\ tab'.wants \subseteq tab.wants \cup {Wants("list", "stripe", NoPatch)}
  <2>1. HeldPatch(NoPatch, User)' BY OauthFacts DEF HeldPatch
  <2>2. \A w \in tab'.wants : HeldPatch(w.patch, User)' \/ w \in tab.wants
    <3> SUFFICES ASSUME NEW w \in tab'.wants, w \notin tab.wants PROVE HeldPatch(w.patch, User)' OBVIOUS
    <3>1. w.patch = NoPatch BY <1>5 DEF Wants
    <3> QED BY <2>1, <3>1
  <2>3. TabHeld' BY <1>1, <1>3, <1>5, <2>2, TabHolds
  <2> QED BY <1>1, <1>4, <2>3, EndsOwner
<1>6. CASE /\ tab'.wants = tab.wants /\ task[h].key \in Keys /\ task[h].from = "tab"
           /\ \E c \in Credentials : /\ c = NoCredential \/ c = task[h].credential
                                     /\ tab'.draft = c /\ tab'.form = FormOf(task[h].key[2], c)
  <2>1. PICK c \in Credentials : /\ c = NoCredential \/ c = task[h].credential
                                /\ tab'.draft = c /\ tab'.form = FormOf(task[h].key[2], c)
    BY <1>6
  <2>2. HeldBy(NoCredential, User)
    BY DEF HeldBy, HeldConfig, HeldSecrets, NoCredential, NoConfig, NoSecrets, Held
  <2>3. task[h].key[1] = User /\ HeldBy(task[h].credential, User) BY <1>4, <1>6 DEF OwnerInv, TaskHeld
  <2>4. HeldBy(c, User) BY <2>1, <2>2, <2>3
  <2>5. HeldBy(c, User)' BY <1>1, <1>3, <2>4, PartsLater
  <2>6. PICK p \in Providers : p = task[h].key[2] BY <1>6, KeyFacts
  <2>7. \A k \in FieldKeys : tab'.form[k] = None \/ In(tab'.form[k], c) BY <2>1, <2>6, FormFacts
  <2>8. \A k \in FieldKeys : Held(tab.form[k], User)'
    <3> SUFFICES ASSUME NEW k \in FieldKeys PROVE Held(tab.form[k], User)' OBVIOUS
    <3>1. PICK v : v = tab'.form[k] OBVIOUS
    <3>2. CASE v = None BY <3>1, <3>2 DEF Held
    <3>3. CASE In(v, c)
      <4>1. Held(v, User)' BY <2>5, <3>3 DEF In, HeldBy, HeldConfig, HeldSecrets
      <4> QED BY <3>1, <4>1
    <3> QED BY <2>7, <3>1, <3>2, <3>3
  <2>9. HeldBy(tab.draft, User)' BY <2>1, <2>5
  <2>10. TabHeld' BY <1>1, <1>3, <1>6, <2>8, <2>9, TabHolds
  <2> QED BY <1>1, <1>4, <2>10, EndsOwner
<1> QED BY <1>5, <1>6, TabAnsweredTyped

LEMMA AnsweredOwner ==
  ASSUME TypeInv, WorkInv, OwnerInv, Kept, NEW a \in Actors, Ends(a), TypeInv', tab' = tab
  PROVE  OwnerInv'
<1>1. UNCHANGED <<flow, history>> BY DEF Ends
<1>2. Forward
  <2>1. history'.writes >= history.writes BY <1>1 DEF TypeInv, HistoryType
  <2> QED BY <1>1, <2>1, FlowSame
<1>3. TabHeld' BY <1>2, TabSame
<1> QED BY <1>3, EndsOwner

(* a process goes on, with what it had to move and the rows it reads *)
LEMMA ServerOwner ==
  ASSUME TypeInv, TypeInv', OwnerInv, Kept, UNCHANGED <<task, flow, tab>>, history'.writes = history.writes,
         NEW s \in Servers, NEW r, server' = [server EXCEPT ![s] = r], r.todo \subseteq server[s].todo \cup Legacy,
         \A key \in Keys : RowHeld(key)' \/ (db'.rows[key] = db.rows[key] /\ db'.vault[key] = db.vault[key])
  PROVE  OwnerInv'
<1>1. Forward /\ FlowHeld' /\ TabHeld' BY StillHeld
<1>2. \A q \in Servers : \A x \in server'[q].todo : x \in server[q].todo \/ x \in Legacy BY DEF TypeInv
<1> QED BY <1>1, <1>2, OwnerStep

LEMMA StartUpOwner ==
  ASSUME TypeInv, OwnerInv, Kept, NEW s \in Servers, StartUp(s)
  PROVE  OwnerInv'
<1>1. TypeInv' /\ UNCHANGED <<db, task, flow, tab, history>> BY StartUpTyped
<1>2. PICK r \in ServerType :
              /\ server' = [server EXCEPT ![s] = r]
              /\ r.backend \in scenario.backends /\ r.todo = {} /\ r.moving = {}
              /\ r.stage = IF r.backend = "vault" /\ scenario.migrates THEN "selecting" ELSE "building"
  BY StartUpTyped
<1> QED BY <1>1, <1>2, ServerOwner

LEMMA MigrateSelectOwner ==
  ASSUME TypeInv, OwnerInv, Kept, NEW s \in Servers, MigrateSelect(s)
  PROVE  OwnerInv'
<1>1. TypeInv' /\ UNCHANGED <<db, task, flow, tab>> /\ history'.writes = history.writes BY MigrateSelectTyped
<1>2. PICK r \in ServerType :
              /\ server' = [server EXCEPT ![s] = r]
              /\ r.backend = server[s].backend /\ r.todo = Legacy /\ r.moving = server[s].moving
              /\ r.stage = "migrating"
  BY MigrateSelectTyped
<1> QED BY <1>1, <1>2, ServerOwner

LEMMA BuildOwner ==
  ASSUME TypeInv, OwnerInv, Kept, NEW s \in Servers, Build(s)
  PROVE  OwnerInv'
<1>1. TypeInv' /\ UNCHANGED <<db, task, flow, tab, history>> BY BuildTyped
<1>2. PICK r \in ServerType :
              /\ server' = [server EXCEPT ![s] = r]
              /\ r.backend = server[s].backend /\ r.todo = server[s].todo /\ r.moving = server[s].moving
              /\ r.stage \in {"up", "seeding", "stopped"} /\ (r.stage = "seeding" => r.seeds # {})
  BY BuildTyped
<1> QED BY <1>1, <1>2, ServerOwner

LEMMA MigrateSaveOwner ==
  ASSUME TypeInv, OwnerInv, Kept, NEW s \in Servers, MigrateSave(s)
  PROVE  OwnerInv'
<1>1. TypeInv' /\ UNCHANGED <<task, flow, tab, history>> BY MigrateSaveTyped
<1>2. PICK x \in server[s].todo :
              /\ x \in MoveType
              /\ db'.rows = db.rows /\ db'.vault = [db.vault EXCEPT ![x.key] = x.secrets]
              /\ \E r \in ServerType :
                   /\ server' = [server EXCEPT ![s] = r]
                   /\ r.backend = server[s].backend /\ r.todo = server[s].todo /\ r.moving = {x}
                   /\ r.stage = server[s].stage /\ r.seeds = server[s].seeds
  BY MigrateSaveTyped
<1>3. PICK r \in ServerType :
                   /\ server' = [server EXCEPT ![s] = r]
                   /\ r.backend = server[s].backend /\ r.todo = server[s].todo /\ r.moving = {x}
                   /\ r.stage = server[s].stage /\ r.seeds = server[s].seeds
  BY <1>2
<1>4. PICK key \in Keys, e \in Secrets : key = x.key /\ e = x.secrets BY <1>2 DEF MoveType
<1>5. HeldSecrets(e, key[1]) BY <1>4 DEF OwnerInv, ServerHeld
<1>6. Forward BY <1>1, StillHeld
<1>7. db'.rows = db.rows /\ db'.vault = [db.vault EXCEPT ![key] = e] BY <1>2, <1>4
<1>8. \A k \in Keys : RowHeld(k)' \/ (db'.rows[k] = db.rows[k] /\ db'.vault[k] = db.vault[k])
  BY <1>1, <1>5, <1>6, <1>7, VaultHeld
<1> QED BY <1>1, <1>3, <1>8, ServerOwner

LEMMA MigrateWriteOwner ==
  ASSUME TypeInv, WorkInv, VaultInv, OwnerInv, Kept, NEW s \in Servers, MigrateWrite(s)
  PROVE  OwnerInv'
<1>1. TypeInv' /\ UNCHANGED <<task, flow, tab>> BY MigrateWriteTyped
<1>2. PICK x \in server[s].moving :
              /\ x \in MoveType
              /\ db'.vault = db.vault
              /\ db'.rows = [db.rows EXCEPT ![x.key] = [config |-> db.rows[x.key].config, ref |-> InVault]]
              /\ \E r \in ServerType :
                   /\ server' = [server EXCEPT ![s] = r]
                   /\ r.backend = server[s].backend /\ r.todo = server[s].todo \ {x} /\ r.moving = {}
                   /\ r.stage = server[s].stage /\ r.seeds = server[s].seeds
              /\ history'.writes = history.writes /\ history'.clean = history.clean
              /\ history'.version = history.version
              /\ \A k \in Keys : history'.expect[k] = IF k = x.key /\ ~history.clean[k] THEN {} ELSE history.expect[k]
  BY MigrateWriteTyped
<1>3. PICK r \in ServerType :
                   /\ server' = [server EXCEPT ![s] = r]
                   /\ r.backend = server[s].backend /\ r.todo = server[s].todo \ {x} /\ r.moving = {}
                   /\ r.stage = server[s].stage /\ r.seeds = server[s].seeds
  BY <1>2
<1>4. PICK key \in Keys : key = x.key BY <1>2 DEF MoveType
<1>5. x \in server[s].todo BY MovingFacts
<1>6. db.rows[key] # None BY <1>4, <1>5 DEF VaultInv, ServerKept
<1>7. db.rows[key].config \in Configs BY <1>6, RowTyped DEF RowType
<1>8. PICK c \in Configs : c = db.rows[key].config BY <1>7
<1>9. PICK row : row = [config |-> c, ref |-> InVault] OBVIOUS
<1>10. \A k \in Keys : db'.rows[k] = IF k = key THEN row ELSE db.rows[k] BY <1>2, <1>4, <1>8, <1>9 DEF TypeInv, DbType
<1>11. Forward BY <1>1, <1>2, StillHeld
<1>12. HeldConfig(c, key[1])' BY <1>1, <1>6, <1>8, <1>11, PartsLater DEF OwnerInv, RowHeld
<1>13. HeldSecrets(NoSecrets, key[1])' BY DEF HeldSecrets, NoSecrets, Held
<1>14. RowHeld(key)'
  <2>1. PICK v \in Secrets \cup {None} : v = db.vault[key] /\ v = db'.vault[key] BY <1>2 DEF TypeInv, DbType
  <2>2. v # None => HeldSecrets(v, key[1])' BY <1>1, <1>11, <2>1, PartsLater DEF OwnerInv, RowHeld
  <2>3. row.config = c /\ row.ref.secrets = NoSecrets BY <1>9 DEF InVault
  <2> QED BY <1>10, <1>12, <1>13, <2>1, <2>2, <2>3 DEF RowHeld
<1>15. \A k \in Keys : RowHeld(k)' \/ (db'.rows[k] = db.rows[k] /\ db'.vault[k] = db.vault[k])
  BY <1>2, <1>10, <1>14
<1> QED BY <1>1, <1>2, <1>3, <1>15, ServerOwner

LEMMA CrashOwner ==
  ASSUME TypeInv, OwnerInv, Kept, NEW s \in Servers, Crash(s)
  PROVE  OwnerInv'
<1>1. /\ TypeInv' /\ UNCHANGED <<db, flow, tab>> /\ server' = [server EXCEPT ![s] = Fresh]
      /\ \A a \in Actors : task'[a] = AfterCrash(s, a) /\ history'.writes = history.writes
  BY CrashTyped DEF Doubts
<1>2. history'.writes = history.writes BY CrashTyped DEF Doubts
<1>3. Forward /\ FlowHeld' /\ TabHeld' BY <1>1, <1>2, StillHeld
<1>4. TaskHeld(Idle)' BY IdleTyped, NoneAssumption DEF TaskHeld
<1>5. ASSUME NEW a \in Actors PROVE TaskHeld(task[a])' \/ task'[a] = task[a]
  <2>1. PICK t \in TaskType : t = task[a] BY DEF TypeInv
  <2>2. TaskHeld(t)' BY <1>1, <1>3, <2>1, TurnLater
  <2>3. PICK u, v : u = Repace(t, "failed") /\ v = Idle OBVIOUS
  <2>4. TaskHeld(Repace(t, "failed"))' BY <2>2, RepaceHeld DEF Pcs
  <2>5. TaskHeld(u)' /\ TaskHeld(v)' BY <1>4, <2>3, <2>4
  <2>6. task'[a] = v \/ task'[a] = u \/ task'[a] = t BY <1>1, <2>1, <2>3 DEF AfterCrash
  <2> QED BY <2>1, <2>5, <2>6
<1>6. \A q \in Servers : \A x \in server'[q].todo : x \in server[q].todo BY <1>1, FreshTyped DEF TypeInv
<1> QED BY <1>1, <1>3, <1>5, <1>6, OwnerStep

(* the page, and Google *)
LEMMA ApartOwner ==
  ASSUME TypeInv, TypeInv', OwnerInv, Kept, Forward, FlowHeld', TabHeld', Apart
  PROVE  OwnerInv'
  BY OwnerStep DEF Apart

LEMMA OauthStartOwner ==
  ASSUME TypeInv, OwnerInv, Kept, OauthStart
  PROVE  OwnerInv'
<1>1. TypeInv' /\ Apart /\ tab' = tab /\ history' = history BY OauthStartTyped
<1>2. PICK subject \in Subjects : flow' = Append(flow, Signed(subject)) BY OauthStartTyped
<1>3. PICK f \in FlowType : f = Signed(subject) /\ f.token = 0 BY SignedTyped
<1>4. Forward /\ FlowHeld' BY <1>1, <1>2, <1>3, FlowGrows
<1>5. TabHeld' BY <1>1, <1>4, TabSame
<1> QED BY <1>1, <1>4, <1>5, ApartOwner
LEMMA TickOwner ==
  ASSUME TypeInv, OwnerInv, Kept, Tick
  PROVE  OwnerInv'
<1>1. TypeInv' /\ Apart /\ UNCHANGED <<flow, tab, history>> BY TickTyped
<1>2. Forward /\ FlowHeld' /\ TabHeld' BY <1>1, StillHeld
<1> QED BY <1>1, <1>2, ApartOwner

LEMMA NothingHeld ==
  ASSUME NEW subject
  PROVE  HeldBy(NoCredential, subject)' /\ HeldPatch(NoPatch, subject)'
<1>1. HeldBy(NoCredential, subject)'
  BY DEF HeldBy, HeldConfig, HeldSecrets, NoCredential, NoConfig, NoSecrets, Held
<1>2. HeldPatch(NoPatch, subject)' BY OauthFacts DEF HeldPatch
<1> QED BY <1>1, <1>2

LEMMA PageOwner ==
  ASSUME TypeInv, TypeInv', OwnerInv, Kept, flow' = flow, history'.writes = history.writes, Apart,
         \A k \in FieldKeys : tab'.form[k] = None \/ tab'.form[k] = tab.form[k],
         tab'.draft = NoCredential \/ tab'.draft = tab.draft,
         \A w \in tab'.wants : \/ w \in tab.wants \/ w.patch = NoPatch \/ w.patch = Disconnected
                               \/ w.patch = tab.draft \/ w.patch = Saved(tab.provider, tab.form)
  PROVE  OwnerInv'
<1>1. Forward /\ FlowHeld'
  <2>1. history.writes \in Nat BY DEF TypeInv, HistoryType
  <2> QED BY <2>1, FlowSame
<1>2. \A k \in FieldKeys : Held(tab.form[k], User)' \/ tab'.form[k] = tab.form[k] BY DEF Held
<1>3. HeldBy(tab.draft, User)' \/ tab'.draft = tab.draft
  <2>1. HeldBy(NoCredential, User)' BY NothingHeld
  <2> QED BY <2>1
<1>4. HeldPatch(Disconnected, User)' /\ HeldPatch(NoPatch, User)'
  <2>1. PICK user : user = User OBVIOUS
  <2> QED BY <2>1, DisconnectedHeld, NothingHeld
<1>5. PICK p \in Providers, form \in Forms, draft \in Credentials : p = tab.provider /\ form = tab.form /\ draft = tab.draft
  BY DEF TypeInv, TabType
<1>6. PICK c \in Credentials : c = Saved(p, form) BY SavedFacts
<1>7. HeldBy(c, User)
  <2>1. \A j \in FieldKeys : Held(form[j], User) BY <1>5 DEF OwnerInv, TabHeld
  <2>2. Held(None, User) BY DEF Held
  <2>3. /\ \A k \in ConfigNames : c.config[k] = None \/ \E j \in FieldKeys : c.config[k] = form[j]
        /\ \A k \in SecretNames : c.secrets[k] = None \/ \E j \in FieldKeys : c.secrets[k] = form[j]
    BY <1>6, SavedFacts
  <2> QED BY <2>1, <2>2, <2>3 DEF HeldBy, HeldConfig, HeldSecrets
<1>8. HeldBy(draft, User) BY <1>5 DEF OwnerInv, TabHeld
<1>9. HeldBy(c, User)' /\ HeldBy(draft, User)' BY <1>1, <1>7, <1>8, PartsLater
<1>10. HeldPatch(c, User)' /\ HeldPatch(draft, User)' BY <1>9 DEF HeldBy, HeldPatch
<1>11. \A w \in tab'.wants : HeldPatch(w.patch, User)' \/ w \in tab.wants
  <2> SUFFICES ASSUME NEW w \in tab'.wants, w \notin tab.wants PROVE HeldPatch(w.patch, User)' OBVIOUS
  <2>1. PICK patch : patch = w.patch OBVIOUS
  <2>2. patch = NoPatch \/ patch = Disconnected \/ patch = draft \/ patch = c BY <1>5, <1>6, <2>1
  <2>3. HeldPatch(patch, User)' BY <1>4, <1>10, <2>2
  <2> QED BY <2>1, <2>3
<1>12. TabHeld' BY <1>1, <1>2, <1>3, <1>11, TabHolds
<1> QED BY <1>1, <1>12, ApartOwner

LEMMA VisitOwner ==
  ASSUME TypeInv, OwnerInv, Kept, Visit
  PROVE  OwnerInv'
<1>1. \A k \in FieldKeys : tab'.form[k] = None BY VisitTyped DEF NoForm
<1> QED BY <1>1, VisitTyped, PageOwner
LEMMA ChooseOwner ==
  ASSUME TypeInv, OwnerInv, Kept, Choose
  PROVE  OwnerInv'
  BY ChooseTyped, PageOwner
LEMMA SaveOwner ==
  ASSUME TypeInv, OwnerInv, Kept, Save
  PROVE  OwnerInv'
  BY SaveTyped, PageOwner
LEMMA TabDisconnectOwner ==
  ASSUME TypeInv, OwnerInv, Kept, TabDisconnect
  PROVE  OwnerInv'
  BY TabDisconnectTyped, PageOwner

LEMMA EditOwner ==
  ASSUME TypeInv, OwnerInv, Kept, Edit
  PROVE  OwnerInv'
<1>1. /\ TypeInv' /\ Apart /\ flow' = flow /\ history'.writes = history.writes + 1
      /\ tab'.draft = tab.draft /\ tab'.wants = tab.wants
      /\ \A k \in FieldKeys : tab'.form[k] = tab.form[k] \/ tab'.form[k].by = history.writes + 1
  BY EditTyped
<1>2. history.writes \in Nat BY DEF TypeInv, HistoryType
<1>3. Forward /\ FlowHeld' BY <1>1, <1>2, FlowSame
<1>4. \A k \in FieldKeys : Held(tab.form[k], User)' \/ tab'.form[k] = tab.form[k]
  <2> SUFFICES ASSUME NEW k \in FieldKeys, tab'.form[k] # tab.form[k] PROVE Held(tab.form[k], User)' OBVIOUS
  <2>1. tab'.form[k].by = history.writes + 1 BY <1>1
  <2>2. \A f \in DOMAIN flow' : flow'[f].token # history.writes + 1 BY <1>1, NewToken
  <2> QED BY <1>1, <1>2, <2>1, <2>2 DEF Held
<1>5. TabHeld' BY <1>1, <1>3, <1>4, TabHolds
<1> QED BY <1>1, <1>3, <1>5, ApartOwner

LEMMA TabConnectOwner ==
  ASSUME TypeInv, OwnerInv, Kept, TabConnect
  PROVE  OwnerInv'
<1>1. /\ TypeInv' /\ UNCHANGED <<db, server, history>>
      /\ tab' = Closed /\ flow' = Append(flow, Signed(User))
      /\ \A a \in Actors : task'[a] = Orphan(a)
  BY TabConnectTyped
<1>2. PICK f \in FlowType : f = Signed(User) /\ f.token = 0 BY SignedTyped, KeyFacts
<1>3. Forward /\ FlowHeld' BY <1>1, <1>2, FlowGrows
<1>4. TabHeld'
  <2>1. \A k \in FieldKeys : Held(tab.form[k], User)' BY <1>1, ClosedTyped DEF Held, NoForm
  <2>2. HeldBy(tab.draft, User)'
    <3>1. HeldBy(NoCredential, User)' BY NothingHeld
    <3> QED BY <1>1, <3>1, ClosedTyped
  <2>3. tab'.wants = {} BY <1>1, ClosedTyped
  <2> QED BY <1>1, <1>3, <2>1, <2>2, <2>3, TabHolds
<1>5. ASSUME NEW a \in Actors PROVE TaskHeld(task[a])'
  <2>1. PICK t \in TaskType, u \in TaskType : t = task[a] /\ u = task'[a] BY <1>1 DEF TypeInv
  <2>2. TaskHeld(t)' BY <1>1, <1>3, <2>1, TurnLater
  <2>3. /\ u.key = t.key /\ u.patch = t.patch /\ u.credential = t.credential
        /\ u.from = t.from \/ u.from = "api"
    BY <1>1, <2>1, OrphanFacts
  <2>4. TaskHeld(u)' BY <2>2, <2>3 DEF TaskHeld
  <2> QED BY <2>1, <2>4
<1> QED BY <1>1, <1>3, <1>4, <1>5, OwnerStep

-----------------------------------------------------------------------------
(* The parts together: every step keeps them. *)
Basics == TypeInv /\ WorkInv /\ VaultInv /\ MovedInv /\ OwnerInv

LEMMA BeginsBasics ==
  ASSUME Basics, Kept, NEW a \in Actors, NEW t, Begins(a, t)
  PROVE  WorkInv' /\ VaultInv' /\ MovedInv'
<1>1. db' = db /\ server' = server BY DEF Begins
<1> QED BY <1>1, BeginsWork, BeginsVault, RowsMoved DEF Basics
LEMMA ListsBasics ==
  ASSUME Basics, Kept, NEW a \in Actors, NEW t, Lists(a, t)
  PROVE  WorkInv' /\ VaultInv' /\ MovedInv'
<1>1. db' = db /\ server' = server BY DEF Lists
<1> QED BY <1>1, ListsWork, ListsVault, RowsMoved DEF Basics
LEMMA EndsBasics ==
  ASSUME Basics, Kept, NEW a \in Actors, Ends(a)
  PROVE  WorkInv' /\ VaultInv' /\ MovedInv'
  BY EndsWork, EndsVault, EndsMoved DEF Basics
LEMMA ApartBasics ==
  ASSUME Basics, Kept, Apart
  PROVE  WorkInv' /\ VaultInv' /\ MovedInv'
<1>1. UNCHANGED <<db, server, task>> BY DEF Apart
<1>2. WorkInv' BY <1>1 DEF Basics, WorkInv, Fits
<1>3. \A b \in Actors : TaskKept(task[b])' BY <1>1 DEF Basics, VaultInv, TaskKept
<1>4. \A s \in Servers : ServerKept(server[s])' BY <1>1 DEF Basics, VaultInv, ServerKept
<1> QED BY <1>1, <1>2, <1>3, <1>4, KeptAll, RowsMoved DEF Basics

LEMMA RequestBasics ==
  ASSUME Basics, Kept, NEW h \in Slots, Request(h)
  PROVE  Basics'
<1>1. h \in Actors BY DEF Actors
<1>2. CASE Answered(h)
  <2>1. TypeInv' /\ Ends(h) /\ tab' = tab BY <1>2, AnsweredTyped DEF Basics
  <2>2. OwnerInv' BY <1>1, <2>1, AnsweredOwner DEF Basics
  <2> QED BY <1>1, <2>1, <2>2, EndsBasics DEF Basics
<1>3. CASE TabAnswered(h)
  <2>1. TypeInv' /\ Ends(h) BY <1>3, TabAnsweredTyped DEF Basics
  <2>2. OwnerInv' BY <1>3, TabAnsweredOwner DEF Basics
  <2> QED BY <1>1, <2>1, <2>2, EndsBasics DEF Basics
<1>4. ASSUME NEW s \in Servers, Put(h, s) PROVE Basics'
  <2>1. TypeInv' /\ \E t : Begins(h, t) BY <1>4, PutTyped DEF Basics
  <2>2. OwnerInv' BY <1>4, PutOwner DEF Basics
  <2> QED BY <1>1, <2>1, <2>2, BeginsBasics DEF Basics
<1>5. ASSUME NEW s \in Servers, Get(h, s) PROVE Basics'
  <2>1. TypeInv' /\ \E t : Begins(h, t) BY <1>5, GetTyped DEF Basics
  <2>2. OwnerInv' BY <1>5, GetOwner DEF Basics
  <2> QED BY <1>1, <2>1, <2>2, BeginsBasics DEF Basics
<1>6. ASSUME NEW s \in Servers, Disconnect(h, s) PROVE Basics'
  <2>1. TypeInv' /\ \E t : Begins(h, t) BY <1>6, DisconnectTyped DEF Basics
  <2>2. OwnerInv' BY <1>6, DisconnectOwner DEF Basics
  <2> QED BY <1>1, <2>1, <2>2, BeginsBasics DEF Basics
<1>7. ASSUME NEW s \in Servers, Callback(h, s) PROVE Basics'
  <2>1. TypeInv' /\ \E t : Begins(h, t) BY <1>7, CallbackTyped DEF Basics
  <2>2. OwnerInv' BY <1>7, CallbackOwner DEF Basics
  <2> QED BY <1>1, <2>1, <2>2, BeginsBasics DEF Basics
<1>8. ASSUME NEW s \in Servers, TabSends(h, s) PROVE Basics'
  <2>1. TypeInv' /\ \E w : (\E t : Lists(h, t)) \/ (\E t : Begins(h, t) /\ t.key[1] = User /\ t.patch = w.patch)
    BY <1>8, TabSendsTyped DEF Basics
  <2>2. OwnerInv' BY <1>8, TabSendsOwner DEF Basics
  <2>3. WorkInv' /\ VaultInv' /\ MovedInv' BY <1>1, <2>1, ListsBasics, BeginsBasics
  <2> QED BY <2>1, <2>2, <2>3 DEF Basics
<1> QED BY <1>2, <1>3, <1>4, <1>5, <1>6, <1>7, <1>8 DEF Request

LEMMA StepsBasics ==
  ASSUME Basics, Kept, NEW a \in Actors, Steps(a)
  PROVE  Basics'
<1>1. CASE Reread(a)
  <2>1. db'.rows = db.rows /\ server' = server BY <1>1 DEF Reread
  <2> QED BY <1>1, <2>1, RereadTyped, RereadWork, RereadVault, RereadOwner, RowsMoved DEF Basics
<1>2. CASE Load(a)
  <2>1. db'.rows = db.rows /\ server' = server BY <1>2 DEF Load
  <2> QED BY <1>2, <2>1, LoadTyped, LoadWork, LoadVault, LoadOwner, RowsMoved DEF Basics
<1>3. CASE SaveSecrets(a)
  <2>1. /\ TypeInv' /\ db'.rows = db.rows /\ server' = server /\ Working(a) /\ task[a].pc = "save"
        /\ task' = [task EXCEPT ![a] = Repace(task[a], "write")]
    BY <1>3, SaveSecretsTyped DEF Basics, SaveSecrets, Working
  <2>2. WorkInv' BY <2>1, RepaceWork DEF Basics
  <2> QED BY <1>3, <2>1, <2>2, SaveSecretsVault, SaveSecretsOwner, RowsMoved DEF Basics
<1>4. CASE WriteRow(a)
  <2>1. /\ TypeInv' /\ server' = server /\ Working(a) /\ task[a].pc = "write"
        /\ task' = [task EXCEPT ![a] = Repace(task[a], "audit")]
    BY <1>4, WriteRowTyped DEF Basics, WriteRow, Working
  <2>2. WorkInv' BY <2>1, RepaceWork DEF Basics
  <2> QED BY <1>4, <2>1, <2>2, WriteRowVault, WriteRowMoved, WriteRowOwner DEF Basics
<1>5. CASE Saves(a)
  <2>1. /\ TypeInv' /\ server' = server /\ db'.rows = db.rows /\ Working(a) /\ task[a].pc = "audit"
        /\ task' = [task EXCEPT ![a] = Repace(task[a], "answered")]
    BY <1>5, SavesTyped DEF Basics, Saves, Working
  <2>2. WorkInv' BY <2>1, RepaceWork DEF Basics
  <2> QED BY <1>5, <2>1, <2>2, SavesVault, SavesOwner, RowsMoved DEF Basics
<1>6. CASE Fails(a)
  <2>1. /\ TypeInv' /\ server' = server /\ db'.rows = db.rows /\ Working(a)
        /\ task' = [task EXCEPT ![a] = Repace(task[a], "failed")]
    BY <1>6, FailsTyped DEF Basics, Fails, Working
  <2>2. WorkInv' BY <2>1, RepaceWork DEF Basics
  <2> QED BY <1>6, <2>1, <2>2, FailsVault, FailsOwner, RowsMoved DEF Basics
<1> QED BY <1>1, <1>2, <1>3, <1>4, <1>5, <1>6 DEF Steps

LEMMA ProcessBasics ==
  ASSUME Basics, Kept, NEW s \in Servers, Process(s)
  PROVE  Basics'
<1>1. s \in Actors BY DEF Actors
<1>2. CASE StartUp(s)
  BY <1>2, StartUpTyped, StartUpWork, StartUpVault, StartUpMoved, StartUpOwner DEF Basics
<1>3. CASE MigrateSelect(s)
  BY <1>3, MigrateSelectTyped, MigrateSelectWork, MigrateSelectVault, MigrateSelectMoved, MigrateSelectOwner DEF Basics
<1>4. CASE MigrateSave(s)
  BY <1>4, MigrateSaveTyped, MigrateSaveWork, MigrateSaveVault, MigrateSaveMoved, MigrateSaveOwner DEF Basics
<1>5. CASE MigrateWrite(s)
  BY <1>5, MigrateWriteTyped, MigrateWriteWork, MigrateWriteVault, MigrateWriteMoved, MigrateWriteOwner DEF Basics
<1>6. CASE Build(s)
  BY <1>6, BuildTyped, BuildWork, BuildVault, BuildMoved, BuildOwner DEF Basics
<1>7. CASE Seed(s)
  <2>1. TypeInv' /\ \E p \in Providers : \E t : Begins(s, t) BY <1>7, SeedTyped DEF Basics
  <2>2. OwnerInv' BY <1>7, SeedOwner DEF Basics
  <2> QED BY <1>1, <2>1, <2>2, BeginsBasics DEF Basics
<1>8. CASE Seeded(s)
  <2>1. TypeInv' /\ Ends(s) /\ tab' = tab BY <1>8, SeededTyped DEF Basics
  <2>2. OwnerInv' BY <1>1, <2>1, AnsweredOwner DEF Basics
  <2> QED BY <1>1, <2>1, <2>2, EndsBasics DEF Basics
<1>9. CASE Crash(s)
  BY <1>9, CrashTyped, CrashWork, CrashVault, CrashMoved, CrashOwner DEF Basics
<1> QED BY <1>2, <1>3, <1>4, <1>5, <1>6, <1>7, <1>8, <1>9 DEF Process

LEMMA PageBasics ==
  ASSUME Basics, Kept, Page \/ OauthStart \/ Tick
  PROVE  Basics'
<1>1. CASE Visit BY <1>1, VisitTyped, VisitOwner, ApartBasics DEF Basics
<1>2. CASE Choose BY <1>2, ChooseTyped, ChooseOwner, ApartBasics DEF Basics
<1>3. CASE Edit BY <1>3, EditTyped, EditOwner, ApartBasics DEF Basics
<1>4. CASE Save BY <1>4, SaveTyped, SaveOwner, ApartBasics DEF Basics
<1>5. CASE TabDisconnect BY <1>5, TabDisconnectTyped, TabDisconnectOwner, ApartBasics DEF Basics
<1>6. CASE TabConnect
  <2>1. TypeInv' /\ UNCHANGED <<db, server>> BY <1>6, TabConnectTyped DEF Basics
  <2> QED BY <1>6, <2>1, TabConnectWork, TabConnectVault, TabConnectOwner, RowsMoved DEF Basics
<1>7. CASE OauthStart BY <1>7, OauthStartTyped, OauthStartOwner, ApartBasics DEF Basics
<1>8. CASE Tick BY <1>8, TickTyped, TickOwner, ApartBasics DEF Basics
<1> QED BY <1>1, <1>2, <1>3, <1>4, <1>5, <1>6, <1>7, <1>8 DEF Page

LEMMA StepBasics ==
  ASSUME Basics, [Next]_vars
  PROVE  Basics'
<1>1. Kept BY ScenarioKept DEF Basics
<1>2. ASSUME NEW h \in Slots, Request(h) PROVE Basics' BY <1>1, <1>2, RequestBasics
<1>3. ASSUME NEW a \in Actors, Steps(a) PROVE Basics' BY <1>1, <1>3, StepsBasics
<1>4. ASSUME NEW s \in Servers, Process(s) PROVE Basics' BY <1>1, <1>4, ProcessBasics
<1>5. CASE Page \/ OauthStart \/ Tick BY <1>1, <1>5, PageBasics
<1>6. CASE UNCHANGED vars
  <2>1. /\ scenario' = scenario /\ db' = db /\ server' = server /\ task' = task /\ flow' = flow /\ tab' = tab
        /\ time' = time /\ history' = history
    BY <1>6 DEF vars
  <2>2. TypeInv' BY <2>1 DEF Basics, TypeInv
  <2>3. Apart BY <2>1 DEF Apart, SameOrder
  <2>4. Forward /\ FlowHeld' /\ TabHeld' BY <2>1, <2>2, StillHeld DEF Basics
  <2> QED BY <1>1, <2>2, <2>3, <2>4, ApartBasics, ApartOwner DEF Basics
<1> QED BY <1>2, <1>3, <1>4, <1>5, <1>6 DEF Next, Actors

-----------------------------------------------------------------------------
(* At first. *)
LEMMA RowAtFirst ==
  ASSUME NEW c \in {None} \cup Credentials, NEW b \in Backends
  PROVE  LET row == StoredRow(c, b)
         IN /\ row \in RowType \cup {None} /\ (row = None <=> c = None)
            /\ c # None => /\ row.config = c.config /\ row.ref = Ref(b, c.secrets)
                           /\ c.secrets \in Secrets /\ c.config \in Configs
<1>1. CASE c = None BY <1>1 DEF StoredRow
<1>2. CASE c # None
  <2>1. c \in Credentials /\ c.secrets \in Secrets /\ c.config \in Configs BY <1>2 DEF Credentials
  <2>2. PICK ref \in RefType \cup {None} : ref = Ref(b, c.secrets) BY <2>1, RefFacts
  <2>3. StoredRow(c, b) = [config |-> c.config, ref |-> ref] BY <1>2, <2>2 DEF StoredRow
  <2>4. StoredRow(c, b) \in RowType BY <2>1, <2>3 DEF RowType
  <2>5. None \notin RowType BY NoneAssumption DEF RowType, RefType
  <2> QED BY <1>2, <2>1, <2>2, <2>3, <2>4, <2>5
<1> QED BY <1>1, <1>2

LEMMA InitDb ==
  ASSUME NEW x \in Scenarios,
         db = [rows |-> [key \in Keys |-> StoredRow(x.rows[key], x.kept)],
               vault |-> [key \in Keys |->
                 IF x.rows[key] # None /\ Ref(x.kept, x.rows[key].secrets) = InVault THEN x.rows[key].secrets ELSE None]]
  PROVE  /\ db \in DbType
         /\ \A key \in Keys :
              /\ x.rows[key] \in {None} \cup Credentials /\ x.rows[key] \in {None} \cup Stored0(key[2])
              /\ db.rows[key] = None <=> x.rows[key] = None
              /\ db.rows[key] # None => /\ db.rows[key].config = x.rows[key].config
                                        /\ db.rows[key].ref = Ref(x.kept, x.rows[key].secrets)
                                        /\ x.rows[key].secrets \in Secrets
              /\ db.vault[key] = IF x.rows[key] # None /\ Ref(x.kept, x.rows[key].secrets) = InVault
                                 THEN x.rows[key].secrets ELSE None
<1>1. x \in Scenario BY ScenariosAssumption
<1>2. PICK b \in Backends : b = x.kept BY <1>1 DEF Scenario
<1>3. PICK c \in [Keys -> {None} \cup Credentials] : c = x.rows BY <1>1 DEF Scenario
<1>4. \A key \in Keys : c[key] \in {None} \cup Stored0(key[2]) BY <1>3, ScenariosAssumption
<1>5. PICK rows : rows = [key \in Keys |-> StoredRow(c[key], b)] OBVIOUS
<1>6. \A key \in Keys :
        /\ rows[key] \in RowType \cup {None} /\ (rows[key] = None <=> c[key] = None)
        /\ c[key] # None => /\ rows[key].config = c[key].config /\ rows[key].ref = Ref(b, c[key].secrets)
                            /\ c[key].secrets \in Secrets
  <2> SUFFICES ASSUME NEW key \in Keys
               PROVE  /\ rows[key] \in RowType \cup {None} /\ (rows[key] = None <=> c[key] = None)
                      /\ c[key] # None => /\ rows[key].config = c[key].config /\ rows[key].ref = Ref(b, c[key].secrets)
                                          /\ c[key].secrets \in Secrets
    OBVIOUS
  <2>1. PICK d \in {None} \cup Credentials : d = c[key] OBVIOUS
  <2>2. rows[key] = StoredRow(d, b) BY <1>5, <2>1
  <2> QED BY <2>1, <2>2, RowAtFirst
<1>7. PICK vault : vault = [key \in Keys |-> IF c[key] # None /\ Ref(b, c[key].secrets) = InVault
                                             THEN c[key].secrets ELSE None]
  OBVIOUS
<1>8. \A key \in Keys : vault[key] \in Secrets \cup {None} BY <1>6, <1>7
<1>9. db = [rows |-> rows, vault |-> vault] BY <1>2, <1>3, <1>5, <1>7
<1>10. rows \in [Keys -> RowType \cup {None}] BY <1>5, <1>6
<1>11. vault \in [Keys -> Secrets \cup {None}] BY <1>7, <1>8
<1>12. db \in DbType /\ db.rows = rows /\ db.vault = vault BY <1>9, <1>10, <1>11 DEF DbType
<1>13. \A key \in Keys : vault[key] = IF c[key] # None /\ Ref(b, c[key].secrets) = InVault
                                      THEN c[key].secrets ELSE None
  BY <1>7
<1> QED BY <1>2, <1>3, <1>4, <1>6, <1>12, <1>13

LEMMA InitType ==
  ASSUME Init
  PROVE  TypeInv
<1>1. PICK x \in Scenarios :
  /\ scenario = [x EXCEPT !.rows = NoRows]
  /\ db = [rows |-> [key \in Keys |-> StoredRow(x.rows[key], x.kept)],
           vault |-> [key \in Keys |->
             IF x.rows[key] # None /\ Ref(x.kept, x.rows[key].secrets) = InVault THEN x.rows[key].secrets ELSE None]]
  /\ server = [s \in Servers |-> Fresh]
  /\ task = [a \in Slots \cup Servers |-> Idle]
  /\ flow = <<>>
  /\ tab = Closed
  /\ time = 0
  /\ history = [writes |-> 0, mixed |-> FALSE, clean |-> [key \in Keys |-> TRUE],
                version |-> [key \in Keys |-> 0],
                expect |-> [key \in Keys |-> {IF x.rows[key] = None THEN NoCredential ELSE x.rows[key]}]]
  BY DEF Init
<1>2. scenario \in Scenario
  <2>1. x \in Scenario BY ScenariosAssumption
  <2>2. NoRows \in [Keys -> {None} \cup Credentials] BY DEF NoRows
  <2> QED BY <1>1, <2>1, <2>2 DEF Scenario
<1>3. db \in DbType /\ \A key \in Keys : x.rows[key] \in {None} \cup Credentials BY <1>1, InitDb
<1>4. server \in [Servers -> ServerType] /\ task \in [Actors -> TaskType] /\ flow \in Seq(FlowType) /\ tab \in TabType
  BY <1>1, FreshTyped, IdleTyped, ClosedTyped DEF Actors
<1>5. history \in HistoryType
  <2>1. PICK expect : expect = [key \in Keys |-> {IF x.rows[key] = None THEN NoCredential ELSE x.rows[key]}] OBVIOUS
  <2>2. \A key \in Keys : expect[key] = {IF x.rows[key] = None THEN NoCredential ELSE x.rows[key]} BY <2>1
  <2>3. \A key \in Keys : expect[key] \in SUBSET Credentials BY <1>3, <2>2, Names
  <2>4. expect \in [Keys -> SUBSET Credentials] BY <2>1, <2>3
  <2>5. history = [writes |-> 0, mixed |-> FALSE, clean |-> [key \in Keys |-> TRUE],
                   version |-> [key \in Keys |-> 0], expect |-> expect]
    BY <1>1, <2>1
  <2> QED BY <2>4, <2>5 DEF HistoryType
<1>6. time \in Nat /\ time <= MaxTime BY <1>1, TimeAssumption
<1> QED BY <1>2, <1>3, <1>4, <1>5, <1>6 DEF TypeInv

LEMMA InitBasics ==
  ASSUME Init
  PROVE  Basics
<1>1. PICK x \in Scenarios :
  /\ scenario = [x EXCEPT !.rows = NoRows]
  /\ db = [rows |-> [key \in Keys |-> StoredRow(x.rows[key], x.kept)],
           vault |-> [key \in Keys |->
             IF x.rows[key] # None /\ Ref(x.kept, x.rows[key].secrets) = InVault THEN x.rows[key].secrets ELSE None]]
  /\ server = [s \in Servers |-> Fresh]
  /\ task = [a \in Slots \cup Servers |-> Idle]
  /\ flow = <<>>
  /\ tab = Closed
  BY DEF Init
<1>2. history.writes = 0 BY DEF Init
<1>3. TypeInv BY InitType
<1>4. /\ \A a \in Actors : task[a] = Idle
      /\ \A s \in Servers : server[s] = Fresh
      /\ \A f \in DOMAIN flow : FALSE
  BY <1>1 DEF Actors
<1>5. \A key \in Keys :
        /\ x.rows[key] \in {None} \cup Credentials /\ x.rows[key] \in {None} \cup Stored0(key[2])
        /\ db.rows[key] = None <=> x.rows[key] = None
        /\ db.rows[key] # None => /\ db.rows[key].config = x.rows[key].config
                                  /\ db.rows[key].ref = Ref(x.kept, x.rows[key].secrets)
                                  /\ x.rows[key].secrets \in Secrets
        /\ db.vault[key] = IF x.rows[key] # None /\ Ref(x.kept, x.rows[key].secrets) = InVault
                           THEN x.rows[key].secrets ELSE None
  BY <1>1, InitDb
<1>6. PICK b \in Backends : b = x.kept BY ScenariosAssumption DEF Scenario
<1>7. WorkInv
  <2>1. \A a \in Actors : Fits(a, task[a]) BY <1>4, IdleTyped DEF Fits
  <2>2. \A s \in Servers : Ready(server[s]) BY <1>4, FreshTyped DEF Ready
  <2> QED BY <2>1, <2>2 DEF WorkInv
<1>8. VaultInv
  <2>1. ASSUME NEW key \in Keys
        PROVE  RowKept(key) /\ (db.rows[key] # None /\ db.rows[key].ref = InVault => db.vault[key] # None)
    <3>1. CASE db.rows[key] = None BY <1>5, <3>1, NoneAssumption, Names DEF RowKept
    <3>2. CASE db.rows[key] # None
      <4>1. PICK e \in Secrets : e = x.rows[key].secrets BY <1>5, <3>2
      <4>2. /\ Ref(b, e) = None <=> e = NoSecrets
            /\ Ref(b, e) # None => IF b = "vault" THEN Ref(b, e) = InVault ELSE Ref(b, e) = Encrypted(e)
        BY <4>1, RefFacts
      <4>3. None # InVault /\ None \notin Secrets
        BY NoneAssumption, Names DEF InVault, Backends
      <4>4. db.rows[key].ref = Ref(b, e) /\ (db.vault[key] = IF Ref(b, e) = InVault THEN e ELSE None)
        BY <1>5, <1>6, <3>2, <4>1
      <4> QED BY <3>2, <4>2, <4>3, <4>4, Names DEF RowKept, InVault, Encrypted, Backends
    <3> QED BY <3>1, <3>2
  <2>2. \A a \in Actors : TaskKept(task[a]) BY <1>4, IdleTyped DEF TaskKept
  <2>3. \A s \in Servers : ServerKept(server[s]) BY <1>4, FreshTyped DEF ServerKept
  <2> QED BY <2>1, <2>2, <2>3 DEF VaultInv, ReferencesHold
<1>9. MovedInv BY <1>4, FreshTyped DEF MovedInv, Moved
<1>10. OwnerInv
  <2>1. EnvHeld
    <3>1. scenario.env = x.env BY <1>1, ScenariosAssumption DEF Scenario
    <3> QED BY <3>1, ScenariosAssumption DEF EnvHeld
  <2>2. FlowHeld BY <1>4 DEF FlowHeld
  <2>3. TabHeld
    BY <1>1, ClosedTyped DEF TabHeld, HeldBy, HeldConfig, HeldSecrets, NoCredential, NoConfig, NoSecrets, NoForm, Held
  <2>4. ASSUME NEW key \in Keys PROVE RowHeld(key)
    <3>1. HeldSecrets(NoSecrets, key[1]) BY DEF HeldSecrets, NoSecrets, Held
    <3>2. CASE db.rows[key] = None BY <1>5, <3>2 DEF RowHeld
    <3>3. CASE db.rows[key] # None
      <4>1. PICK c \in Stored0(key[2]) : c = x.rows[key] BY <1>5, <3>3
      <4>2. HeldConfig(c.config, key[1]) /\ HeldSecrets(c.secrets, key[1])
        <5>1. \A v \in First0(key[2]) : Held(v, key[1]) BY <1>2, <1>4 DEF First0, Held
        <5> QED BY <5>1 DEF Stored0, HeldConfig, HeldSecrets
      <4>3. PICK e \in Secrets : e = c.secrets BY <1>5, <3>3, <4>1
      <4>4. Ref(b, e) # None => Ref(b, e) = InVault \/ Ref(b, e) = Encrypted(e) BY RefFacts
      <4>5. /\ db.rows[key].config = c.config /\ db.rows[key].ref = Ref(b, e)
            /\ db.vault[key] = None \/ db.vault[key] = e
        BY <1>5, <1>6, <3>3, <4>1, <4>3
      <4> QED BY <3>1, <4>2, <4>3, <4>4, <4>5 DEF RowHeld, InVault, Encrypted
    <3> QED BY <3>2, <3>3
  <2>5. \A s \in Servers : ServerHeld(server[s]) BY <1>4, FreshTyped DEF ServerHeld
  <2>6. \A a \in Actors : TaskHeld(task[a]) BY <1>4, IdleTyped, NoneAssumption DEF TaskHeld
  <2> QED BY <2>1, <2>2, <2>3, <2>4, <2>5, <2>6 DEF OwnerInv
<1> QED BY <1>3, <1>7, <1>8, <1>9, <1>10 DEF Basics

-----------------------------------------------------------------------------
(* The invariant without the order of the saves. *)
LEMMA BasicsHold == Spec => []Basics
<1>1. Init => Basics BY InitBasics
<1>2. Basics /\ [Next]_vars => Basics' BY StepBasics
<1> QED BY <1>1, <1>2, PTL DEF Spec

(* Secrets are where their row says, and nowhere else: a row never refers  *)
(* to secrets that Vault has not, although upsertCredential writes the two *)
(* in two steps that a crash or an error may part, and                     *)
(* migrateLegacyCredentialSecretsToVault leaves none behind.               *)
THEOREM SecretsStayInPlace == Spec => []SecretsInPlace
<1>1. Basics => SecretsInPlace
  <2> SUFFICES ASSUME Basics PROVE SecretsInPlace OBVIOUS
  <2>1. ReferencesHold BY DEF Basics, VaultInv
  <2>2. NoSecretsLeft
    <3> SUFFICES ASSUME Vaulted, NEW s \in Servers, server[s].stage \in {"seeding", "up"},
                        NEW key \in Keys, db.rows[key] # None, db.rows[key].ref # None
                 PROVE  db.rows[key].ref = InVault
      BY DEF NoSecretsLeft, Vaulted
    <3>1. ~Plain(key) BY DEF Basics, MovedInv, Moved
    <3>2. db.rows[key].ref \in RefType BY RowTyped DEF Basics
    <3>3. db.rows[key].ref.kind = "vault" BY <3>1, <3>2 DEF Plain, RefType, Backends
    <3> QED BY <3>3 DEF Basics, VaultInv, RowKept
  <2> QED BY <2>1, <2>2 DEF SecretsInPlace
<1> QED BY <1>1, BasicsHold, PTL

(* The tokens of a consent are stored for the subject who asked for it and *)
(* no other, and only if it came back in time: the state of                *)
(* google-sheets/oauth.ts says whose they are, and no save, seeding,       *)
(* migration or form of the page carries them to another subject.          *)
THEOREM ConsentsAreKept == Spec => []ConsentsKept
<1>1. Basics => ConsentsKept
  <2> SUFFICES ASSUME Basics, NEW f \in DOMAIN flow, flow[f].token # 0
               PROVE  /\ flow[f].at <= flow[f].exp
                      /\ \A key \in Keys, k \in SecretNames :
                           LET v == Current(key).secrets[k]
                           IN v # None /\ v.by = flow[f].token => key[1] = flow[f].subject
    BY DEF ConsentsKept
  <2>1. flow[f].at <= flow[f].exp BY DEF Basics, OwnerInv, FlowHeld
  <2>2. ASSUME NEW key \in Keys, NEW k \in SecretNames, NEW v, v = Current(key).secrets[k], v # None,
               v.by = flow[f].token
        PROVE  key[1] = flow[f].subject
    <3>1. HeldBy(Current(key), key[1]) BY CurrentHeld DEF Basics, OwnerInv
    <3>2. Held(v, key[1]) BY <2>2, <3>1 DEF HeldBy, HeldSecrets
    <3> QED BY <2>2, <3>2 DEF Held
  <2> QED BY <2>1, <2>2
<1> QED BY <1>1, BasicsHold, PTL

-----------------------------------------------------------------------------
(* What the state of an integration says. *)
LEMMA GoodOwn ==
  ASSUME NEW p \in Providers, NEW c, NEW env, WellFormed(p, c, env), NEW setting \in Settings[p]
  PROVE  /\ Good(Own(c, setting)) <=> Own(c, setting) # None
         /\ Good(env[setting]) <=> env[setting] # None
         /\ Good(Setting(c, env, setting)) <=> Own(c, setting) # None \/ env[setting] # None
         /\ Setting(c, env, setting) # None <=> Own(c, setting) # None \/ env[setting] # None
<1>1. PICK places : places = Places[setting] OBVIOUS
<1>2. \A n \in DOMAIN places : At(c, places[n]) = None \/ At(c, places[n]).ok BY <1>1 DEF WellFormed
<1>3. First(c, places) = None \/ First(c, places).ok BY <1>2, Zenon DEF First
<1>4. Own(c, setting) = None \/ Own(c, setting).ok BY <1>1, <1>3 DEF Own
<1>5. env[setting] = None \/ env[setting].ok BY DEF WellFormed
<1> QED BY <1>4, <1>5, Zenon DEF Good, Setting

LEMMA StripeHonest ==
  ASSUME NEW c, NEW env, WellFormed("stripe", c, env)
  PROVE  Configured("stripe", c, env) <=> Works("stripe", c, env)
<1>1. "stripe" \in Providers /\ Settings["stripe"] = {"stripeSecretKey"} BY DEF Providers, Settings
<1>2. \A x \in Settings["stripe"] :
         /\ Good(Own(c, x)) <=> Own(c, x) # None
         /\ Good(env[x]) <=> env[x] # None
         /\ Good(Setting(c, env, x)) <=> Own(c, x) # None \/ env[x] # None
         /\ Setting(c, env, x) # None <=> Own(c, x) # None \/ env[x] # None
  BY <1>1, GoodOwn
<1> QED BY <1>1, <1>2 DEF Configured, Works

LEMMA TwilioHonest ==
  ASSUME NEW c, NEW env, WellFormed("twilio", c, env)
  PROVE  \/ Configured("twilio", c, env) <=> Works("twilio", c, env)
         \/ Setting(c, env, "fromNumber") = None
         \/ MixedAccount(c, env)
<1>1. "twilio" \in Providers /\ Settings["twilio"] = {"accountSid", "authToken", "fromNumber"}
  BY DEF Providers, Settings
<1>2. \A x \in Settings["twilio"] :
         /\ Good(Own(c, x)) <=> Own(c, x) # None
         /\ Good(env[x]) <=> env[x] # None
         /\ Good(Setting(c, env, x)) <=> Own(c, x) # None \/ env[x] # None
         /\ Setting(c, env, x) # None <=> Own(c, x) # None \/ env[x] # None
  BY <1>1, GoodOwn
<1> QED BY <1>1, <1>2 DEF Configured, Works, MixedAccount

LEMMA KycHonest ==
  ASSUME NEW c, NEW env, WellFormed("kyc", c, env)
  PROVE  Configured("kyc", c, env) <=> Works("kyc", c, env)
<1>1. "kyc" \in Providers /\ Settings["kyc"] = {"providerUrl", "providerToken"} BY DEF Providers, Settings
<1>2. \A x \in Settings["kyc"] :
         /\ Good(Own(c, x)) <=> Own(c, x) # None
         /\ Good(env[x]) <=> env[x] # None
         /\ Good(Setting(c, env, x)) <=> Own(c, x) # None \/ env[x] # None
         /\ Setting(c, env, x) # None <=> Own(c, x) # None \/ env[x] # None
  BY <1>1, GoodOwn
<1> QED BY <1>1, <1>2 DEF Configured, Works

LEMMA NotificationsHonest ==
  ASSUME NEW c, NEW env, WellFormed("notifications", c, env)
  PROVE  Configured("notifications", c, env) <=> Works("notifications", c, env)
<1>1. /\ "notifications" \in Providers
      /\ Settings["notifications"] =
           {"sendgridApiKey", "emailFrom", "smtpHost", "smtpUser", "smtpPass", "slackWebhookUrl"}
  BY DEF Providers, Settings
<1>2. \A x \in Settings["notifications"] :
         /\ Good(Own(c, x)) <=> Own(c, x) # None
         /\ Good(env[x]) <=> env[x] # None
         /\ Good(Setting(c, env, x)) <=> Own(c, x) # None \/ env[x] # None
         /\ Setting(c, env, x) # None <=> Own(c, x) # None \/ env[x] # None
  BY <1>1, GoodOwn
<1> QED BY <1>1, <1>2 DEF Configured, Works

LEMMA SheetsHonest ==
  ASSUME NEW c, NEW env, WellFormed("google_sheets", c, env)
  PROVE  \/ Configured("google_sheets", c, env) <=> Works("google_sheets", c, env)
         \/ At(c, Sec("googleServiceAccountJson")) # None
<1>1. /\ "google_sheets" \in Providers
      /\ Settings["google_sheets"] = {"authType", "refreshToken", "serviceAccountJson", "clientEmail", "privateKey"}
  BY DEF Providers, Settings
<1>2. \A x \in Settings["google_sheets"] :
         /\ Good(Own(c, x)) <=> Own(c, x) # None
         /\ Good(env[x]) <=> env[x] # None
         /\ Good(Setting(c, env, x)) <=> Own(c, x) # None \/ env[x] # None
         /\ Setting(c, env, x) # None <=> Own(c, x) # None \/ env[x] # None
  BY <1>1, GoodOwn
<1>3. Own(c, "serviceAccountJson") # None /\ At(c, Sec("googleServiceAccountJson")) = None <=>
      First(c, SubSeq(Places.serviceAccountJson, 1, 2)) # None /\ At(c, Sec("googleServiceAccountJson")) = None
  <2>1. PICK a, b, d : a = Sec("serviceAccountJson") /\ b = Sec("service_account_json") /\ d = Sec("googleServiceAccountJson")
    OBVIOUS
  <2>2. Places["serviceAccountJson"] = <<a, b, d>> /\ Places.serviceAccountJson = <<a, b, d>>
    BY <2>1 DEF Places
  <2>3. SubSeq(<<a, b, d>>, 1, 2) = <<a, b>>
    <3>1. PICK s : s = <<a, b, d>> OBVIOUS
    <3>2. s[1] = a /\ s[2] = b BY <3>1
    <3>3. PICK S : S = {a, b} OBVIOUS
    <3>4. \A i \in 1 .. 2 : s[i] \in S BY <3>2, <3>3
    <3>5. PICK u : u = SubSeq(s, 1, 2) OBVIOUS
    <3>6. /\ u \in Seq(S) /\ Len(u) = (IF 1 <= 2 THEN 2 - 1 + 1 ELSE 0)
          /\ \A i \in 1 .. 2 - 1 + 1 : u[i] = s[1 + i - 1]
      BY <3>4, <3>5, SubSeqProperties
    <3>7. u \in Seq(S) /\ Len(u) = 2 /\ u[1] = s[1] /\ u[2] = s[2] BY <3>6
    <3>8. u = <<u[1], u[2]>> BY <3>7
    <3> QED BY <3>1, <3>2, <3>5, <3>7, <3>8
  <2>4. First(c, <<a, b>>) = IF At(c, a) # None THEN At(c, a) ELSE At(c, b) BY DEF First
  <2>5. First(c, <<a, b, d>>) = IF At(c, a) # None THEN At(c, a) ELSE IF At(c, b) # None THEN At(c, b) ELSE At(c, d)
    BY DEF First
  <2> QED BY <2>1, <2>2, <2>3, <2>4, <2>5 DEF Own
<1>4. Good(SheetsAuth(c, env)) <=>
        \/ Own(c, "refreshToken") # None /\ env["oauthClient"] # None
        \/ Own(c, "serviceAccountJson") # None
        \/ Own(c, "clientEmail") # None /\ Own(c, "privateKey") # None
        \/ env["serviceAccountJson"] # None
  BY <1>1, <1>2 DEF SheetsAuth, ServiceAccount
<1> QED BY <1>1, <1>2, <1>3, <1>4 DEF Configured, Works

(* The state of integrations-status.ts says "configured" of a provider     *)
(* when the settings of bootstrap/integrations.ts have what its activities *)
(* need, for every credential and every environment, but for the cases     *)
(* that the property names.                                                *)
THEOREM StatusIsHonest == Spec => []StatusHonest
<1>1. StatusHonest
  <2> SUFFICES ASSUME NEW key \in Keys, WellFormed(key[2], Current(key), scenario.env)
               PROVE  LET p == key[2]
                          c == Current(key)
                      IN \/ Configured(p, c, scenario.env) <=> Works(p, c, scenario.env)
                         \/ p = "twilio" /\ (Setting(c, scenario.env, "fromNumber") = None \/ MixedAccount(c, scenario.env))
                         \/ p = "google_sheets" /\ At(c, Sec("googleServiceAccountJson")) # None
    BY DEF StatusHonest
  <2>1. PICK p, c, env : p = key[2] /\ c = Current(key) /\ env = scenario.env OBVIOUS
  <2>2. p \in {"stripe", "twilio", "kyc", "notifications", "google_sheets"} BY <2>1, KeyFacts DEF Providers
  <2>3. CASE p = "stripe" BY <2>1, <2>3, StripeHonest
  <2>4. CASE p = "twilio" BY <2>1, <2>4, TwilioHonest
  <2>5. CASE p = "kyc" BY <2>1, <2>5, KycHonest
  <2>6. CASE p = "notifications" BY <2>1, <2>6, NotificationsHonest
  <2>7. CASE p = "google_sheets" BY <2>1, <2>7, SheetsHonest
  <2> QED BY <2>2, <2>3, <2>4, <2>5, <2>6, <2>7
<1> QED BY <1>1, PTL

-----------------------------------------------------------------------------
(* The order of the saves: what a step leaves alone of a key. *)
LEMMA WritersFacts ==
  ASSUME NEW key, NEW a
  PROVE  a \in Writers(key) <=> \/ a \in Actors /\ Writes(task[a], key)
                                \/ a \in Servers /\ \E x \in server[a].todo : x.key = key
  BY DEF Writers, Writes, Working, Actors

Alike(t, u) ==
  /\ u.pc = t.pc /\ u.op = t.op /\ u.server = t.server /\ u.key = t.key /\ u.patch = t.patch
  /\ u.checked = t.checked /\ u.credential = t.credential /\ u.since = t.since
StoreSame(key) == db'.rows[key] = db.rows[key] /\ db'.vault[key] = db.vault[key]
PastSame(key) ==
  /\ history'.clean[key] = history.clean[key] /\ history'.expect[key] = history.expect[key]
  /\ history'.version[key] = history.version[key]
TaskQuiet(t, u, key) ==
  \/ Alike(t, u)
  \/ ~Writes(u, key) /\ ~Reads(u, key) /\ ~Writes(t, key)
MovesQuiet(s, key) ==
  \A x : x.key = key =>
    /\ x \in server'[s].todo => x \in server[s].todo
    /\ x \in server'[s].moving => x \in server[s].moving
    /\ x \in server[s].moving => x \in server'[s].moving \/ history.clean[key]
BackendQuiet(key) ==
  \A a \in Actors : Writes(task'[a], key) =>
    server'[task'[a].server].backend = server[task'[a].server].backend
Quiet(key) ==
  /\ StoreSame(key) /\ PastSame(key) /\ BackendQuiet(key)
  /\ \A a \in Actors : TaskQuiet(task[a], task'[a], key)
  /\ \A s \in Servers : MovesQuiet(s, key)

LEMMA CurrentSame ==
  ASSUME NEW key, StoreSame(key)
  PROVE  Current(key)' = Current(key) /\ InVaultAt(key)' = InVaultAt(key)
  BY DEF StoreSame, Current, InVaultAt

LEMMA QuietMakes ==
  ASSUME NEW key, StoreSame(key), NEW t, NEW u, Alike(t, u), NEW c, Makes(t, key, c)
  PROVE  Makes(u, key, c)'
<1>1. Current(key)' = Current(key) /\ InVaultAt(key)' = InVaultAt(key) BY CurrentSame
<1>2. Effect(u, c) = Effect(t, c) BY DEF Effect, Alike
<1> QED BY <1>1, <1>2 DEF Makes, Alike

LEMMA QuietSaved ==
  ASSUME NEW key, StoreSame(key), NEW t, NEW u, Alike(t, u), SavedAs(t, key),
         history'.clean[key] => history.clean[key], history'.expect[key] \subseteq history.expect[key],
         server'[u.server].backend = server[u.server].backend
  PROVE  SavedAs(u, key)'
<1>1. Current(key)' = Current(key) BY CurrentSame
<1>2. Overwrites(u) <=> Overwrites(t) BY DEF Overwrites, Alike
<1>3. u.pc \in {"save", "write"} /\ Overwrites(u) => u.credential = u.patch BY <1>2 DEF SavedAs, Alike
<1>4. ASSUME Orderly(t, key) PROVE Orderly(u, key)'
  <2>1. \A c \in history'.expect[key] : Makes(u, key, c)' BY <1>4, QuietMakes DEF Orderly
  <2> QED BY <1>1, <1>2, <1>4, <2>1 DEF Orderly, Alike, StoreSame
<1> QED BY <1>3, <1>4 DEF SavedAs

LEMMA QuietRead ==
  ASSUME NEW key, StoreSame(key), NEW t, NEW u, Alike(t, u), ReadAs(t, key),
         history'.expect[key] \subseteq history.expect[key], history'.version[key] = history.version[key],
         Disturbed(key) => Disturbed(key)'
  PROVE  ReadAs(u, key)'
<1>1. InVaultAt(key)' = InVaultAt(key) BY CurrentSame
<1>2. \A c : Finds(t, key, c) => Finds(u, key, c)' BY <1>1 DEF Finds, Alike
<1> QED BY <1>2 DEF ReadAs, Alike

LEMMA QuietDisturbed ==
  ASSUME NEW key, Quiet(key)
  PROVE  /\ Disturbed(key) => Disturbed(key)'
         /\ \A a : a \in Writers(key)' => a \in Writers(key)
<1>1. ASSUME NEW a \in Actors, Writes(task[a], key), task[a].pc \in {"write", "audit"}
      PROVE  Writes(task'[a], key) /\ task'[a].pc \in {"write", "audit"}
  BY <1>1 DEF Quiet, TaskQuiet, Alike, Writes
<1>2. ASSUME NEW s \in Servers, MovesAt(s, key), ~history.clean[key] PROVE MovesAt(s, key)'
  BY <1>2 DEF Quiet, MovesQuiet, MovesAt
<1>3. Disturbed(key) => Disturbed(key)' BY <1>1, <1>2 DEF Disturbed, Quiet, PastSame
<1>4. ASSUME NEW a, a \in Writers(key)' PROVE a \in Writers(key)
  <2>1. \/ a \in Actors /\ Writes(task'[a], key)
        \/ a \in Servers /\ \E x \in server'[a].todo : x.key = key
    BY <1>4 DEF Writers, Writes, Working, Actors
  <2>2. CASE a \in Actors /\ Writes(task'[a], key)
    <3>1. Writes(task[a], key) BY <2>2 DEF Quiet, TaskQuiet, Alike, Writes
    <3> QED BY <2>2, <3>1, WritersFacts
  <2>3. CASE a \in Servers /\ \E x \in server'[a].todo : x.key = key
    BY <2>3, WritersFacts DEF Quiet, MovesQuiet
  <2> QED BY <2>1, <2>2, <2>3
<1> QED BY <1>3, <1>4

LEMMA QuietOrdered ==
  ASSUME NEW key, Ordered(key), Quiet(key)
  PROVE  Ordered(key)'
<1>1. Current(key)' = Current(key) BY CurrentSame DEF Quiet
<1>2. Disturbed(key) => Disturbed(key)' BY QuietDisturbed
<1>3. Alone(key)'
  <2>1. \A a : a \in Writers(key)' => a \in Writers(key) BY QuietDisturbed
  <2>2. \A s \in Servers : \A x \in server'[s].todo : x.key = key => x \in server[s].todo BY DEF Quiet, MovesQuiet
  <2>3. history'.clean[key] = history.clean[key] /\ history'.expect[key] = history.expect[key] BY DEF Quiet, PastSame
  <2> QED BY <2>1, <2>2, <2>3 DEF Ordered, Alone
<1>4. StoredAs(key)' BY <1>1, <1>2 DEF Ordered, StoredAs, Quiet, PastSame
<1>5. ASSUME NEW a \in Actors, Writes(task'[a], key) PROVE SavedAs(task[a], key)'
  <2>1. PICK t, u : t = task[a] /\ u = task'[a] OBVIOUS
  <2>2. Alike(t, u) /\ server'[u.server].backend = server[u.server].backend
    BY <1>5, <2>1 DEF Quiet, TaskQuiet, BackendQuiet
  <2>3. Writes(t, key) BY <1>5, <2>1, <2>2 DEF Writes, Alike
  <2>4. SavedAs(t, key) BY <2>1, <2>3 DEF Ordered
  <2>5. SavedAs(u, key)' BY <2>2, <2>4, QuietSaved DEF Quiet, PastSame
  <2> QED BY <2>1, <2>5
<1>6. ASSUME NEW s \in Servers, NEW x \in server'[s].todo, x.key = key PROVE MovedAs(s, x)'
  <2>1. x \in server[s].todo /\ (x \in server'[s].moving => x \in server[s].moving)
    BY <1>6 DEF Quiet, MovesQuiet
  <2>2. MovedAs(s, x) BY <1>6, <2>1 DEF Ordered
  <2> QED BY <1>6, <2>1, <2>2 DEF MovedAs, Quiet, StoreSame, PastSame
<1>7. ASSUME NEW h \in Slots, Reads(task'[h], key) PROVE ReadAs(task[h], key)'
  <2>1. PICK t, u : t = task[h] /\ u = task'[h] OBVIOUS
  <2>2. Alike(t, u) BY <1>7, <2>1 DEF Quiet, TaskQuiet, Actors
  <2>3. Reads(t, key) BY <1>7, <2>1, <2>2 DEF Reads, Alike
  <2>4. ReadAs(t, key) BY <2>1, <2>3 DEF Ordered
  <2>5. ReadAs(u, key)' BY <1>2, <2>2, <2>4, QuietRead DEF Quiet, PastSame
  <2> QED BY <2>1, <2>5
<1> QED BY <1>3, <1>4, <1>5, <1>6, <1>7 DEF Ordered

(* alone at a key *)
LEMMA Loner ==
  ASSUME TypeInv, WorkInv, NEW key, Ordered(key), history.clean[key], NEW a \in Actors, Writes(task[a], key)
  PROVE  /\ \A b \in Actors : Writes(task[b], key) => b = a
         /\ \A s \in Servers : \A x \in server[s].todo : x.key # key
         /\ task[a].pc \notin {"write", "audit"} => ~Disturbed(key)
<1>1. \A b, d \in Writers(key) : b = d BY DEF Ordered, Alone
<1>2. a \in Writers(key) BY WritersFacts
<1>3. ASSUME NEW b \in Actors, Writes(task[b], key) PROVE b = a
  <2>1. b \in Writers(key) BY <1>3, WritersFacts
  <2> QED BY <1>1, <1>2, <2>1
<1>4. ASSUME NEW s \in Servers, NEW x \in server[s].todo PROVE x.key # key
  <2> SUFFICES ASSUME x.key = key PROVE FALSE OBVIOUS
  <2>1. s \in Writers(key) BY WritersFacts
  <2>2. s = a BY <1>1, <1>2, <2>1
  <2>3. Working(a) BY DEF Writes, Working
  <2>4. server[s].stage = "seeding" BY <2>2, <2>3, WorkingFacts
  <2>5. server[s].todo = {} BY <2>4 DEF WorkInv, Ready
  <2> QED BY <2>5
<1>5. task[a].pc \notin {"write", "audit"} => ~Disturbed(key) BY <1>3 DEF Disturbed
<1> QED BY <1>3, <1>4, <1>5

LEMMA LonerServer ==
  ASSUME TypeInv, WorkInv, NEW key, Ordered(key), history.clean[key],
         NEW s \in Servers, NEW x \in server[s].todo, x.key = key
  PROVE  /\ \A b \in Actors : ~Writes(task[b], key)
         /\ \A q \in Servers : \A y \in server[q].todo : y.key = key => q = s /\ y = x
         /\ ~Disturbed(key)
<1>1. \A b, d \in Writers(key) : b = d BY DEF Ordered, Alone
<1>2. s \in Writers(key) BY WritersFacts
<1>3. ASSUME NEW b \in Actors, Writes(task[b], key) PROVE FALSE BY <1>3, Loner
<1>4. ASSUME NEW q \in Servers, NEW y \in server[q].todo, y.key = key PROVE q = s /\ y = x
  <2>1. q \in Writers(key) BY <1>4, WritersFacts
  <2>2. q = s BY <1>1, <1>2, <2>1
  <2> QED BY <1>4, <2>2 DEF Ordered, Alone
<1>5. ~Disturbed(key) BY <1>3 DEF Disturbed
<1> QED BY <1>3, <1>4, <1>5

(* nobody writes *)
LEMMA NoWriters ==
  ASSUME TypeInv, WorkInv, NEW key, Writers(key) = {}
  PROVE  /\ \A b \in Actors : ~Writes(task[b], key)
         /\ \A s \in Servers : \A x \in server[s].todo : x.key # key
         /\ ~Disturbed(key)
<1>1. \A b \in Actors : ~Writes(task[b], key) BY WritersFacts
<1>2. \A s \in Servers : \A x \in server[s].todo : x.key # key BY WritersFacts
<1>3. \A s \in Servers : server[s].moving \subseteq server[s].todo BY DEF WorkInv, Ready
<1> QED BY <1>1, <1>2, <1>3 DEF Disturbed, MovesAt

(* others that save at a key which is not clean, or no longer *)
LEMMA SavedUnclean ==
  ASSUME NEW key, NEW t, SavedAs(t, key), ~history'.clean[key]
  PROVE  SavedAs(t, key)'
  BY DEF SavedAs

(* a save goes on *)
LEMMA TurnOrdered ==
  ASSUME TypeInv, WorkInv, NEW key, Ordered(key), NEW a \in Actors, NEW u,
         Writes(task[a], key), u.op = task[a].op, u.key = key,
         task' = [task EXCEPT ![a] = u], server' = server, PastSame(key),
         StoreSame(key) \/ u.pc \in {"write", "audit"},
         u.pc \in {"write", "audit"} \/ task[a].pc \notin {"write", "audit"},
         Writes(u, key) => SavedAs(u, key)'
  PROVE  Ordered(key)'
<1>1. \A b \in Actors : task'[b] = IF b = a THEN u ELSE task[b] BY DEF TypeInv
<1>2. Disturbed(key) => Disturbed(key)'
  <2>1. ASSUME NEW b \in Actors, Writes(task[b], key), task[b].pc \in {"write", "audit"}
        PROVE  Writes(task'[b], key) /\ task'[b].pc \in {"write", "audit"}
    BY <1>1, <2>1 DEF Writes
  <2>2. \A s \in Servers : MovesAt(s, key)' <=> MovesAt(s, key) BY DEF MovesAt
  <2> QED BY <2>1, <2>2 DEF Disturbed, PastSame
<1>3. u.pc \in {"write", "audit"} => Disturbed(key)' BY <1>1 DEF Disturbed, Writes
<1>4. history'.clean[key] = history.clean[key] /\ history'.expect[key] = history.expect[key]
      /\ history'.version[key] = history.version[key]
  BY DEF PastSame
<1>5. Alone(key)'
  <2>1. ASSUME NEW b, b \in Writers(key)' PROVE b \in Writers(key)
    <3>1. \/ b \in Actors /\ Writes(task'[b], key)
          \/ b \in Servers /\ \E x \in server[b].todo : x.key = key
      BY <2>1 DEF Writers, Writes, Working, Actors
    <3>2. b \in Actors /\ Writes(task'[b], key) => Writes(task[b], key) BY <1>1
    <3> QED BY <3>1, <3>2, WritersFacts
  <2> QED BY <1>4, <2>1 DEF Ordered, Alone
<1>6. StoredAs(key)'
  <2>1. CASE u.pc \in {"write", "audit"} BY <1>3, <2>1 DEF StoredAs
  <2>2. CASE StoreSame(key)
    <3>1. Current(key)' = Current(key) BY <2>2, CurrentSame
    <3> QED BY <1>2, <1>4, <3>1 DEF Ordered, StoredAs
  <2> QED BY <2>1, <2>2
<1>7. ASSUME NEW b \in Actors, Writes(task'[b], key) PROVE SavedAs(task[b], key)'
  <2>1. CASE b = a BY <1>1, <1>7, <2>1
  <2>2. CASE b # a
    <3>1. PICK t : t = task[b] /\ t = task'[b] BY <1>1, <2>2
    <3>2. Writes(t, key) /\ SavedAs(t, key) BY <1>7, <3>1 DEF Ordered
    <3>3. ~history.clean[key] BY <2>2, <3>1, <3>2, Loner
    <3>4. SavedAs(t, key)' BY <1>4, <3>2, <3>3, SavedUnclean
    <3> QED BY <3>1, <3>4
  <2> QED BY <2>1, <2>2
<1>8. ASSUME NEW s \in Servers, NEW x \in server'[s].todo, x.key = key PROVE MovedAs(s, x)'
  <2>1. ~history.clean[key] BY <1>8, Loner
  <2> QED BY <1>4, <1>8, <2>1 DEF MovedAs
<1>9. ASSUME NEW h \in Slots, Reads(task'[h], key) PROVE ReadAs(task[h], key)'
  <2>1. h # a BY <1>1, <1>9 DEF Reads, Writes, Writing
  <2>2. PICK t : t = task[h] /\ t = task'[h] BY <1>1, <2>1 DEF Actors
  <2>3. ReadAs(t, key) BY <1>9, <2>2 DEF Ordered
  <2>4. ReadAs(t, key)'
    <3>1. CASE u.pc \in {"write", "audit"} BY <1>3, <1>4, <2>3, <3>1 DEF ReadAs, Finds
    <3>2. CASE StoreSame(key) BY <1>2, <1>4, <2>3, <3>2, QuietRead DEF Alike
    <3> QED BY <3>1, <3>2
  <2> QED BY <2>2, <2>4
<1> QED BY <1>5, <1>6, <1>7, <1>8, <1>9 DEF Ordered

(* a save is over, or cut short *)
LEMMA DoneOrdered ==
  ASSUME TypeInv, TypeInv', NEW key \in Keys, Ordered(key),
         \A b \in Actors : task'[b] = task[b] \/ (~Writes(task'[b], key) /\ ~Reads(task'[b], key)),
         \A s \in Servers : \A x \in server'[s].todo : x.key = key => x \in server[s].todo,
         history'.clean[key] = history.clean[key],
         history'.version[key] = history.version[key] + 1,
         \A c \in history'.expect[key] : Current(key)' = c,
         history.clean[key] => /\ \A b \in Actors : ~Writes(task'[b], key)
                               /\ \A s \in Servers : \A x \in server'[s].todo : x.key # key
  PROVE  Ordered(key)'
<1>1. Alone(key)'
  <2>1. ASSUME NEW b, b \in Writers(key)' PROVE b \in Writers(key)
    <3>1. \/ b \in Actors /\ Writes(task'[b], key)
          \/ b \in Servers /\ \E x \in server'[b].todo : x.key = key
      BY <2>1 DEF Writers, Writes, Working, Actors
    <3>2. b \in Actors /\ Writes(task'[b], key) => Writes(task[b], key) OBVIOUS
    <3> QED BY <3>1, <3>2, WritersFacts
  <2> QED BY <2>1 DEF Ordered, Alone
<1>2. StoredAs(key)' BY DEF StoredAs
<1>3. ASSUME NEW b \in Actors, Writes(task'[b], key) PROVE SavedAs(task[b], key)'
  <2>1. PICK t : t = task[b] /\ t = task'[b] BY <1>3
  <2>2. SavedAs(t, key) BY <1>3, <2>1 DEF Ordered
  <2>3. SavedAs(t, key)' BY <1>3, <2>2, SavedUnclean
  <2> QED BY <2>1, <2>3
<1>4. ASSUME NEW s \in Servers, NEW x \in server'[s].todo, x.key = key PROVE MovedAs(s, x)'
  BY <1>4 DEF MovedAs
<1>5. ASSUME NEW h \in Slots, Reads(task'[h], key) PROVE ReadAs(task[h], key)'
  <2>1. PICK t : t = task[h] /\ t = task'[h] BY <1>5 DEF Actors
  <2>2. ReadAs(t, key) BY <1>5, <2>1 DEF Ordered
  <2>3. t.since \in Nat \cup {None} /\ history.version[key] \in Nat BY <2>1 DEF TypeInv, TaskType, HistoryType, Actors
  <2>4. t.since # history'.version[key] /\ (t.since # None => t.since <= history'.version[key])
    BY <2>2, <2>3, NoneAssumption DEF ReadAs
  <2>5. ReadAs(t, key)' BY <2>4 DEF ReadAs
  <2> QED BY <2>1, <2>5
<1> QED BY <1>1, <1>2, <1>3, <1>4, <1>5 DEF Ordered

(* a write begins *)
LEMMA EntersFacts ==
  ASSUME TypeInv, WorkInv, NEW key, history'.clean[key] = (Writers(key) = {}),
         \A b \in Actors : Writes(task[b], key) => task'[b] = task[b],
         \A s \in Servers : \A x \in server[s].moving : x.key = key => x \in server'[s].moving
  PROVE  /\ Disturbed(key) => Disturbed(key)'
         /\ history'.clean[key] => /\ \A b \in Actors : ~Writes(task[b], key)
                                   /\ \A s \in Servers : \A x \in server[s].todo : x.key # key
                                   /\ ~Disturbed(key)
<1>1. history'.clean[key] => /\ \A b \in Actors : ~Writes(task[b], key)
                             /\ \A s \in Servers : \A x \in server[s].todo : x.key # key
                             /\ ~Disturbed(key)
  BY NoWriters
<1>2. ASSUME NEW b \in Actors, Writes(task[b], key), task[b].pc \in {"write", "audit"} PROVE Disturbed(key)'
  BY <1>2 DEF Disturbed
<1>3. ASSUME NEW s \in Servers, MovesAt(s, key) PROVE Disturbed(key)'
  <2>1. PICK x \in server[s].moving : x.key = key BY <1>3 DEF MovesAt
  <2>2. x \in server[s].todo BY DEF WorkInv, Ready
  <2>3. s \in Writers(key) BY <2>1, <2>2, WritersFacts
  <2>4. MovesAt(s, key)' BY <2>1 DEF MovesAt
  <2> QED BY <2>3, <2>4 DEF Disturbed
<1>4. Disturbed(key) => Disturbed(key)' BY <1>2, <1>3 DEF Disturbed
<1> QED BY <1>1, <1>4

(* what a request finds when it begins, with nobody writing *)
LEMMA BegunMakes ==
  ASSUME TypeInv, NEW key, StoreSame(key), NEW t, NEW u, ~t.checked,
         t.key = key, Follows(t, u, Current(key)) \/ Waits(t, u), Writes(u, key)
  PROVE  Makes(u, key, Current(key))'
<1>1. PICK c : c = Current(key) /\ c = Current(key)' BY CurrentSame
<1>2. InVaultAt(key)' = InVaultAt(key) BY CurrentSame
<1>3. CASE Follows(t, u, c)
  <2>1. u.op = t.op /\ u.patch = t.patch /\ u.pc \in {"read", "save", "write"}
    BY <1>3 DEF Follows, Same, Writes
  <2>2. CASE u.pc = "read" BY <1>1, <1>3, <2>2 DEF Follows, Makes
  <2>3. CASE u.pc \in {"save", "write"}
    <3>1. t.op # "seed" /\ u.checked = t.checked /\ u.credential = Merged(c, t.patch) BY <1>3, <2>3 DEF Follows
    <3>2. u.credential = Effect(u, c) BY <2>1, <3>1 DEF Effect
    <3> QED BY <1>1, <2>1, <2>3, <3>1, <3>2 DEF Makes
  <2> QED BY <2>1, <2>2, <2>3
<1>4. CASE Waits(t, u)
  <2>1. u.pc = "load" /\ ~u.checked BY <1>4 DEF Waits, Writes
  <2>2. u.credential.config = Current(t.key).config BY <1>4 DEF Waits
  <2>3. u.credential.config = c.config BY <1>1, <2>2
  <2>4. InVaultAt(key) BY <1>4 DEF Waits, InVaultAt
  <2> QED BY <1>1, <1>2, <2>1, <2>3, <2>4 DEF Makes
<1> QED BY <1>1, <1>3, <1>4

LEMMA BeginsTurn ==
  ASSUME TypeInv, VaultInv, NEW a \in Actors, NEW t, Begins(a, t)
  PROVE  \E u : /\ \A b \in Actors : task'[b] = IF b = a THEN u ELSE task[b]
                /\ Follows(t, u, Current(t.key)) \/ Waits(t, u)
                /\ \A k : ~Writes(task[a], k) /\ ~Reads(task[a], k)
                /\ t.key \in Keys /\ ~t.checked /\ task[a].pc = "idle"
                /\ u.key = t.key /\ u.op = t.op /\ u.since = t.since
                /\ t.since = IF Writers(t.key) = {} THEN history.version[t.key] ELSE None
<1>1. PICK u : u = Fetched(t) OBVIOUS
<1>2. t \in TaskType /\ t.key \in Keys /\ ~t.checked /\ task[a].pc = "idle" /\ task' = [task EXCEPT ![a] = u]
      /\ t.since = IF Writers(t.key) = {} THEN history.version[t.key] ELSE None
  BY <1>1 DEF Begins, Starting
<1>3. Follows(t, u, Current(t.key)) \/ Waits(t, u) BY <1>1, <1>2, FetchedFacts
<1>4. u.key = t.key /\ u.op = t.op /\ u.since = t.since BY <1>3 DEF Follows, Waits, Same
<1>5. \A b \in Actors : task'[b] = IF b = a THEN u ELSE task[b] BY <1>2 DEF TypeInv
<1>6. \A k : ~Writes(task[a], k) /\ ~Reads(task[a], k) BY <1>2 DEF Writes, Reads
<1> QED BY <1>2, <1>3, <1>4, <1>5, <1>6

LEMMA BeginsWriteOrdered ==
  ASSUME TypeInv, WorkInv, VaultInv, NEW a \in Actors, NEW t, Begins(a, t), t.op # "get", Ordered(t.key)
  PROVE  Ordered(t.key)'
<1> PICK key \in Keys : key = t.key BY BeginsTurn
<1>1. PICK u : /\ \A b \in Actors : task'[b] = IF b = a THEN u ELSE task[b]
               /\ Follows(t, u, Current(t.key)) \/ Waits(t, u)
               /\ \A k : ~Writes(task[a], k) /\ ~Reads(task[a], k)
               /\ t.key \in Keys /\ ~t.checked /\ task[a].pc = "idle"
               /\ u.key = t.key /\ u.op = t.op /\ u.since = t.since
               /\ t.since = IF Writers(t.key) = {} THEN history.version[t.key] ELSE None
  BY BeginsTurn
<1>2. db' = db /\ server' = server /\ StoreSame(key) BY DEF Begins, StoreSame
<1>3. /\ history'.expect = history.expect /\ history'.version = history.version
      /\ history'.clean[key] = (Writers(key) = {})
  BY DEF Begins, Enters
<1>4. \A b \in Actors : Writes(task[b], key) => task'[b] = task[b] BY <1>1
<1>5. /\ Disturbed(key) => Disturbed(key)'
      /\ history'.clean[key] => /\ \A b \in Actors : ~Writes(task[b], key)
                                /\ \A s \in Servers : \A x \in server[s].todo : x.key # key
                                /\ ~Disturbed(key)
  BY <1>2, <1>3, <1>4, EntersFacts
<1>6. Current(key)' = Current(key) BY <1>2, CurrentSame
<1>7. Alone(key)'
  <2>1. ASSUME history'.clean[key], NEW b, b \in Writers(key)' PROVE b = a
    <3>1. \/ b \in Actors /\ Writes(task'[b], key)
          \/ b \in Servers /\ \E x \in server[b].todo : x.key = key
      BY <1>2, <2>1 DEF Writers, Writes, Working, Actors
    <3> QED BY <1>1, <1>5, <2>1, <3>1
  <2> QED BY <1>2, <1>3, <2>1 DEF Ordered, Alone
<1>8. StoredAs(key)' BY <1>3, <1>5, <1>6 DEF Ordered, StoredAs
<1>9. ASSUME NEW b \in Actors, Writes(task'[b], key) PROVE SavedAs(task[b], key)'
  <2>1. CASE b # a
    <3>1. PICK v : v = task[b] /\ v = task'[b] BY <1>1, <2>1
    <3>2. Writes(v, key) /\ SavedAs(v, key) BY <1>9, <3>1 DEF Ordered
    <3>3. ~history'.clean[key] BY <1>5, <3>1, <3>2
    <3>4. SavedAs(v, key)' BY <3>2, <3>3, SavedUnclean
    <3> QED BY <3>1, <3>4
  <2>2. CASE b = a
    <3>1. Writes(u, key) /\ u = task'[b] BY <1>1, <1>9, <2>2
    <3>2. u.pc \in {"save", "write"} /\ Overwrites(u) => u.credential = u.patch
      <4> SUFFICES ASSUME u.pc \in {"save", "write"}, Overwrites(u) PROVE u.credential = u.patch OBVIOUS
      <4>1. u.patch = t.patch /\ u.credential = Merged(Current(key), t.patch)
        BY <1>1 DEF Follows, Waits, Same
      <4>2. Current(key) \in Credentials /\ t.patch \in PatchType /\ Whole(t.patch)
        BY <4>1, CurrentFacts DEF Begins, Starting, TaskType, Overwrites
      <4> QED BY <4>1, <4>2, MergedFacts
    <3>3. ASSUME history'.clean[key] PROVE Orderly(u, key)'
      <4>1. \A c \in history'.expect[key] : c = Current(key) BY <1>3, <1>5, <3>3 DEF Ordered, StoredAs
      <4>2. Makes(u, key, Current(key))' BY <1>1, <1>2, <3>1, BegunMakes
      <4>3. \A c \in history'.expect[key] : Makes(u, key, c)'
        <5>1. PICK d : d = Current(key) /\ d = Current(key)' BY <1>6
        <5>2. Makes(u, key, d)' BY <4>2, <5>1
        <5> QED BY <4>1, <5>1, <5>2
      <4>4. u.pc # "audit" /\ ~(u.pc = "write" /\ u.credential.secrets # NoSecrets /\ server[u.server].backend = "vault")
        BY <1>1 DEF Follows, Waits, Same
      <4> QED BY <1>2, <4>3, <4>4 DEF Orderly
    <3>4. SavedAs(u, key)' BY <3>2, <3>3 DEF SavedAs
    <3> QED BY <3>1, <3>4
  <2> QED BY <2>1, <2>2
<1>10. ASSUME NEW s \in Servers, NEW x \in server'[s].todo, x.key = key PROVE MovedAs(s, x)'
  BY <1>2, <1>5, <1>10 DEF MovedAs
<1>11. ASSUME NEW h \in Slots, Reads(task'[h], key) PROVE ReadAs(task[h], key)'
  <2>1. h # a BY <1>1, <1>11 DEF Reads
  <2>2. PICK v : v = task[h] /\ v = task'[h] BY <1>1, <2>1 DEF Actors
  <2>3. ReadAs(v, key) BY <1>11, <2>2 DEF Ordered
  <2>4. ReadAs(v, key)' BY <1>2, <1>3, <1>5, <2>3, QuietRead DEF Alike
  <2> QED BY <2>2, <2>4
<1> QED BY <1>7, <1>8, <1>9, <1>10, <1>11 DEF Ordered

(* a read goes on *)
LEMMA ReadTurnOrdered ==
  ASSUME TypeInv, NEW key, Ordered(key), NEW a \in Actors, NEW u,
         \A b \in Actors : task'[b] = IF b = a THEN u ELSE task[b], u.op = "get", ~Writes(task[a], key),
         db' = db, server' = server, SameOrder(history'), Reads(u, key) => ReadAs(u, key)
  PROVE  Ordered(key)'
<1>1. \A b \in Actors : Writes(task'[b], key) <=> b # a /\ Writes(task[b], key) BY DEF Writes, Writing
<1>2. StoreSame(key) /\ PastSame(key) BY DEF StoreSame, PastSame, SameOrder
<1>3. Disturbed(key)' <=> Disturbed(key)
  <2>1. \A s \in Servers : MovesAt(s, key)' <=> MovesAt(s, key) BY DEF MovesAt
  <2>2. \A b \in Actors : Writes(task'[b], key) /\ task'[b].pc \in {"write", "audit"} <=>
                          Writes(task[b], key) /\ task[b].pc \in {"write", "audit"}
    BY <1>1
  <2> QED BY <1>2, <2>1, <2>2 DEF Disturbed, PastSame
<1>4. Current(key)' = Current(key) BY <1>2, CurrentSame
<1>5. Alone(key)'
  <2>1. ASSUME NEW b, b \in Writers(key)' PROVE b \in Writers(key)
    <3>1. \/ b \in Actors /\ Writes(task'[b], key)
          \/ b \in Servers /\ \E x \in server[b].todo : x.key = key
      BY <2>1 DEF Writers, Writes, Working, Actors
    <3> QED BY <1>1, <3>1, WritersFacts
  <2> QED BY <1>2, <2>1 DEF Ordered, Alone, PastSame
<1>6. StoredAs(key)' BY <1>2, <1>3, <1>4 DEF Ordered, StoredAs, PastSame
<1>7. ASSUME NEW b \in Actors, Writes(task'[b], key) PROVE SavedAs(task[b], key)'
  <2>1. PICK v : v = task[b] /\ v = task'[b] BY <1>1, <1>7
  <2>2. SavedAs(v, key) BY <1>7, <2>1 DEF Ordered
  <2>3. SavedAs(v, key)' BY <1>2, <2>2, QuietSaved DEF Alike, PastSame
  <2> QED BY <2>1, <2>3
<1>8. ASSUME NEW s \in Servers, NEW x \in server'[s].todo, x.key = key PROVE MovedAs(s, x)'
  <2>1. MovedAs(s, x) BY <1>8 DEF Ordered
  <2> QED BY <1>2, <1>8, <2>1 DEF MovedAs, PastSame
<1>9. ASSUME NEW h \in Slots, Reads(task'[h], key) PROVE ReadAs(task[h], key)'
  <2>1. PICK v : v = task'[h] /\ ReadAs(v, key)
    <3>1. CASE h = a BY <1>9, <3>1
    <3>2. CASE h # a
      <4>1. PICK v : v = task[h] /\ v = task'[h] BY <3>2 DEF Actors
      <4> QED BY <1>9, <4>1 DEF Ordered
    <3> QED BY <3>1, <3>2
  <2>2. ReadAs(v, key)' BY <1>2, <1>3, <2>1, QuietRead DEF Alike, PastSame
  <2> QED BY <2>1, <2>2
<1> QED BY <1>5, <1>6, <1>7, <1>8, <1>9 DEF Ordered

LEMMA BeginsReadOrdered ==
  ASSUME TypeInv, WorkInv, VaultInv, NEW a \in Actors, NEW t, Begins(a, t), t.op = "get", Ordered(t.key)
  PROVE  Ordered(t.key)'
<1> PICK key \in Keys : key = t.key BY BeginsTurn
<1>1. PICK u : /\ \A b \in Actors : task'[b] = IF b = a THEN u ELSE task[b]
               /\ Follows(t, u, Current(t.key)) \/ Waits(t, u)
               /\ \A k : ~Writes(task[a], k) /\ ~Reads(task[a], k)
               /\ t.key \in Keys /\ ~t.checked /\ task[a].pc = "idle"
               /\ u.key = t.key /\ u.op = t.op /\ u.since = t.since
               /\ t.since = IF Writers(t.key) = {} THEN history.version[t.key] ELSE None
  BY BeginsTurn
<1>2. db' = db /\ server' = server /\ SameOrder(history') BY DEF Begins
<1>3. history.version[key] \in Nat BY DEF TypeInv, HistoryType
<1>4. u.since # None => u.since <= history.version[key] BY <1>1, <1>3
<1>5. ASSUME u.since = history.version[key], NEW c \in history.expect[key] PROVE Finds(u, key, c)
  <2>1. Writers(key) = {} BY <1>1, <1>3, <1>5, NoneAssumption
  <2>2. ~Disturbed(key) BY <2>1, NoWriters
  <2>3. Current(key) = c BY <1>5, <2>2 DEF Ordered, StoredAs
  <2>4. u.pc = "load" => u.credential.config = c.config /\ InVaultAt(key)
    BY <1>1, <2>3 DEF Follows, Waits, InVaultAt
  <2>5. u.pc = "answered" => u.credential = c BY <1>1, <2>3 DEF Follows, Waits
  <2> QED BY <2>4, <2>5 DEF Finds
<1>6. ReadAs(u, key) BY <1>4, <1>5 DEF ReadAs
<1> QED BY <1>1, <1>2, <1>6, ReadTurnOrdered

(* a request goes on, for the other keys *)
LEMMA QuietTurn ==
  ASSUME NEW key, StoreSame(key), PastSame(key), NEW a \in Actors, NEW u,
         \A b \in Actors : task'[b] = IF b = a THEN u ELSE task[b], TaskQuiet(task[a], u, key), Ordered(key),
         \A s \in Servers : /\ server'[s].backend = server[s].backend /\ server'[s].todo = server[s].todo
                            /\ server'[s].moving = server[s].moving,
         \A b \in Actors : Writes(task'[b], key) => task'[b].server \in Servers
  PROVE  Ordered(key)'
<1>1. \A b \in Actors : TaskQuiet(task[b], task'[b], key) BY DEF TaskQuiet, Alike
<1>2. \A s \in Servers : MovesQuiet(s, key) BY DEF MovesQuiet
<1>3. BackendQuiet(key) BY DEF BackendQuiet
<1> QED BY <1>1, <1>2, <1>3, QuietOrdered DEF Quiet
LEMMA WritesServer ==
  ASSUME TypeInv, WorkInv, NEW key, NEW b \in Actors, Writes(task[b], key)
  PROVE  task[b].server \in Servers
<1>1. Working(b) BY DEF Writes, Working
<1> QED BY <1>1, WorkingFacts
LEMMA WritesServerLater ==
  ASSUME TypeInv', WorkInv', NEW key, NEW b \in Actors, Writes(task'[b], key)
  PROVE  task'[b].server \in Servers
  BY DEF Writes, WorkInv, Fits

LEMMA BeginsOrder ==
  ASSUME TypeInv, WorkInv, WorkInv', TypeInv', VaultInv, OrderInv, NEW a \in Actors, NEW t, Begins(a, t)
  PROVE  OrderInv'
<1>1. PICK u : /\ \A b \in Actors : task'[b] = IF b = a THEN u ELSE task[b]
               /\ Follows(t, u, Current(t.key)) \/ Waits(t, u)
               /\ \A k : ~Writes(task[a], k) /\ ~Reads(task[a], k)
               /\ t.key \in Keys /\ ~t.checked /\ task[a].pc = "idle"
               /\ u.key = t.key /\ u.op = t.op /\ u.since = t.since
               /\ t.since = IF Writers(t.key) = {} THEN history.version[t.key] ELSE None
  BY BeginsTurn
<1>2. Ordered(t.key)' BY <1>1, BeginsWriteOrdered, BeginsReadOrdered DEF OrderInv
<1>3. ASSUME NEW key \in Keys, key # t.key PROVE Ordered(key)'
  <2>1. db' = db /\ server' = server /\ StoreSame(key) /\ PastSame(key)
    BY <1>3 DEF Begins, StoreSame, PastSame, Enters, SameOrder
  <2>2. TaskQuiet(task[a], u, key) BY <1>1, <1>3 DEF TaskQuiet, Writes, Reads
  <2>3. \A b \in Actors : Writes(task'[b], key) => task'[b].server \in Servers BY WritesServerLater
  <2> QED BY <1>1, <2>1, <2>2, <2>3, QuietTurn DEF OrderInv
<1>4. ASSUME NEW key \in Keys PROVE Ordered(key)' BY <1>2, <1>3
<1> QED BY <1>4 DEF OrderInv

LEMMA ListsOrder ==
  ASSUME TypeInv, TypeInv', WorkInv', OrderInv, NEW a \in Actors, NEW t, Lists(a, t)
  PROVE  OrderInv'
<1> SUFFICES ASSUME NEW key \in Keys PROVE Ordered(key)' BY DEF OrderInv
<1>1. \A b \in Actors : task'[b] = IF b = a THEN t ELSE task[b] BY DEF Lists, TypeInv
<1>2. server' = server /\ StoreSame(key) /\ PastSame(key) BY DEF Lists, StoreSame, PastSame
<1>3. TaskQuiet(task[a], t, key) BY DEF Lists, TaskQuiet, Writes, Reads
<1>4. \A b \in Actors : Writes(task'[b], key) => task'[b].server \in Servers BY WritesServerLater
<1> QED BY <1>1, <1>2, <1>3, <1>4, QuietTurn DEF OrderInv

LEMMA EndsOrder ==
  ASSUME TypeInv, TypeInv', WorkInv', OrderInv, NEW a \in Actors, Ends(a)
  PROVE  OrderInv'
<1> SUFFICES ASSUME NEW key \in Keys PROVE Ordered(key)' BY DEF OrderInv
<1>1. PICK u : u = Idle OBVIOUS
<1>2. \A b \in Actors : task'[b] = IF b = a THEN u ELSE task[b] BY <1>1 DEF Ends, TypeInv
<1>3. StoreSame(key) /\ PastSame(key) BY DEF Ends, StoreSame, PastSame
<1>4. TaskQuiet(task[a], u, key) BY <1>1, IdleTyped DEF Ends, TaskQuiet, Writes, Reads
<1>5. \A s \in Servers : /\ server'[s].backend = server[s].backend /\ server'[s].todo = server[s].todo
                         /\ server'[s].moving = server[s].moving
  <2>1. CASE a \in Slots BY <2>1 DEF Ends
  <2>2. CASE a \in Servers BY <2>2 DEF Ends, TypeInv
  <2> QED BY <2>1, <2>2 DEF Actors
<1>6. \A b \in Actors : Writes(task'[b], key) => task'[b].server \in Servers BY WritesServerLater
<1> QED BY <1>2, <1>3, <1>4, <1>5, <1>6, QuietTurn DEF OrderInv

(* the store and what is done to it as it was, a process goes on *)
LEMMA ServerOrder ==
  ASSUME TypeInv, WorkInv, OrderInv, task' = task, db' = db, history' = history,
         NEW s \in Servers, NEW r, server' = [server EXCEPT ![s] = r],
         server[s].stage \notin {"up", "seeding"}, r.todo = server[s].todo, r.moving = server[s].moving
  PROVE  OrderInv'
<1> SUFFICES ASSUME NEW key \in Keys PROVE Ordered(key)' BY DEF OrderInv
<1>1. StoreSame(key) /\ PastSame(key) BY DEF StoreSame, PastSame
<1>2. \A q \in Servers : server'[q] = IF q = s THEN r ELSE server[q] BY DEF TypeInv
<1>3. \A b \in Actors : TaskQuiet(task[b], task'[b], key) BY DEF TaskQuiet, Alike
<1>4. \A q \in Servers : MovesQuiet(q, key) BY <1>2 DEF MovesQuiet
<1>5. BackendQuiet(key)
  <2> SUFFICES ASSUME NEW b \in Actors, Writes(task[b], key)
               PROVE  server'[task[b].server].backend = server[task[b].server].backend
    BY DEF BackendQuiet
  <2>1. Working(b) BY DEF Writes, Working
  <2>2. task[b].server \in Servers /\ task[b].server # s BY <2>1, WorkingFacts
  <2> QED BY <1>2, <2>2
<1> QED BY <1>1, <1>3, <1>4, <1>5, QuietOrdered DEF Quiet, OrderInv

LEMMA StartUpOrder ==
  ASSUME TypeInv, WorkInv, OrderInv, NEW s \in Servers, StartUp(s)
  PROVE  OrderInv'
<1>1. UNCHANGED <<db, task, history>> /\ server[s].stage = "down" BY StartUpTyped
<1>2. PICK r \in ServerType :
              /\ server' = [server EXCEPT ![s] = r]
              /\ r.backend \in scenario.backends /\ r.todo = {} /\ r.moving = {}
              /\ r.stage = IF r.backend = "vault" /\ scenario.migrates THEN "selecting" ELSE "building"
  BY StartUpTyped
<1>3. server[s].todo = {} /\ server[s].moving = {} BY <1>1 DEF WorkInv, Ready
<1> QED BY <1>1, <1>2, <1>3, ServerOrder
LEMMA BuildOrder ==
  ASSUME TypeInv, WorkInv, OrderInv, NEW s \in Servers, Build(s)
  PROVE  OrderInv'
<1>1. /\ UNCHANGED <<db, task, history>>
      /\ server[s].stage = "building" \/ (server[s].stage = "migrating" /\ server[s].todo = {})
  BY BuildTyped
<1>2. PICK r \in ServerType :
              /\ server' = [server EXCEPT ![s] = r]
              /\ r.backend = server[s].backend /\ r.todo = server[s].todo /\ r.moving = server[s].moving
              /\ r.stage \in {"up", "seeding", "stopped"} /\ (r.stage = "seeding" => r.seeds # {})
  BY BuildTyped
<1> QED BY <1>1, <1>2, ServerOrder

LEMMA ApartOrder ==
  ASSUME TypeInv, OrderInv, Apart
  PROVE  OrderInv'
<1> SUFFICES ASSUME NEW key \in Keys PROVE Ordered(key)' BY DEF OrderInv
<1>1. Quiet(key)
  BY DEF Apart, SameOrder, Quiet, StoreSame, PastSame, TaskQuiet, Alike, MovesQuiet, BackendQuiet
<1> QED BY <1>1, QuietOrdered DEF OrderInv
LEMMA TabConnectOrder ==
  ASSUME TypeInv, OrderInv, TabConnect
  PROVE  OrderInv'
<1> SUFFICES ASSUME NEW key \in Keys PROVE Ordered(key)' BY DEF OrderInv
<1>1. UNCHANGED <<db, server, history>> /\ \A a \in Actors : task'[a] = Orphan(a) BY TabConnectTyped
<1>2. \A a \in Actors : Alike(task[a], task'[a]) BY <1>1, OrphanFacts DEF Alike
<1>3. Quiet(key) BY <1>1, <1>2 DEF Quiet, StoreSame, PastSame, TaskQuiet, MovesQuiet, BackendQuiet
<1> QED BY <1>3, QuietOrdered DEF OrderInv

(* a save that goes on from what it has found *)
LEMMA FollowsSaved ==
  ASSUME TypeInv, WorkInv, NEW key \in Keys, Ordered(key), NEW a \in Actors, Writes(task[a], key),
         NEW d \in Credentials, history.clean[key] => \A c \in history.expect[key] : c = d,
         NEW u, Follows(task[a], u, d), Writes(u, key), server' = server, PastSame(key)
  PROVE  SavedAs(u, key)'
<1>1. PICK t : t = task[a] OBVIOUS
<1>2. Follows(t, u, d) /\ Writes(t, key) /\ SavedAs(t, key) BY <1>1 DEF Ordered
<1>3. u.op = t.op /\ u.server = t.server /\ u.patch = t.patch /\ u.pc \in {"read", "save", "write"}
  BY <1>2 DEF Follows, Same, Writes
<1>4. t.patch \in PatchType BY <1>1 DEF TypeInv, TaskType
<1>5. ASSUME u.pc \in {"save", "write"}, Overwrites(u) PROVE u.credential = u.patch
  <2>1. u.credential = Merged(d, t.patch) /\ Whole(t.patch) BY <1>2, <1>3, <1>5 DEF Follows, Overwrites
  <2> QED BY <1>3, <1>4, <2>1, MergedFacts
<1>6. ASSUME history.clean[key], NEW c \in history.expect[key] PROVE Makes(u, key, c)'
  <2>1. c = d /\ Makes(t, key, c) BY <1>2, <1>6 DEF SavedAs, Orderly
  <2>2. CASE u.pc = "read" BY <1>2, <2>1, <2>2 DEF Follows, Makes
  <2>3. CASE u.pc \in {"save", "write"}
    <3>1. /\ u.checked = t.checked /\ (t.op = "seed" => t.checked)
          /\ u.credential = Merged(c, t.patch)
      BY <1>2, <2>1, <2>3 DEF Follows
    <3>2. t.op = "seed" => c.secrets = NoSecrets BY <2>1, <3>1 DEF Makes
    <3>3. u.credential = Effect(u, c) BY <1>3, <3>1, <3>2 DEF Effect
    <3> QED BY <1>3, <2>3, <3>2, <3>3 DEF Makes
  <2> QED BY <1>3, <2>2, <2>3
<1>7. u.pc # "audit" /\ ~(u.pc = "write" /\ u.credential.secrets # NoSecrets /\ server[u.server].backend = "vault")
  BY <1>2, <1>3 DEF Follows
<1>8. history'.clean[key] => Orderly(u, key)' BY <1>6, <1>7 DEF Orderly, PastSame
<1> QED BY <1>5, <1>8 DEF SavedAs

(* the other keys *)
LEMMA OthersTurn ==
  ASSUME TypeInv, TypeInv', WorkInv', NEW key \in Keys, Ordered(key), NEW a \in Actors, NEW u,
         task' = [task EXCEPT ![a] = u], server' = server, u.key = task[a].key, key # task[a].key,
         StoreSame(key), PastSame(key)
  PROVE  Ordered(key)'
<1>1. \A b \in Actors : task'[b] = IF b = a THEN u ELSE task[b] BY DEF TypeInv
<1>2. TaskQuiet(task[a], u, key) BY DEF TaskQuiet, Writes, Reads
<1>3. \A b \in Actors : Writes(task'[b], key) => task'[b].server \in Servers BY WritesServerLater
<1> QED BY <1>1, <1>2, <1>3, QuietTurn

LEMMA RereadOrder ==
  ASSUME TypeInv, TypeInv', WorkInv, WorkInv', VaultInv, OrderInv, NEW a \in Actors, Reread(a)
  PROVE  OrderInv'
<1>1. PICK key \in Keys : key = task[a].key BY RereadFacts
<1>2. PICK u : /\ u = Fetched(task[a]) /\ task' = [task EXCEPT ![a] = u]
               /\ Follows(task[a], u, Current(task[a].key)) \/ Waits(task[a], u)
  BY RereadFacts
<1>3. task[a].op = "seed" /\ task[a].checked /\ task[a].pc = "read" BY RereadFacts DEF Reread
<1>4. server' = server /\ \A k : StoreSame(k) /\ PastSame(k) BY DEF Reread, StoreSame, PastSame
<1>5. u.key = key /\ u.op = task[a].op BY <1>1, <1>2 DEF Follows, Waits, Same
<1>6. Ordered(key)'
  <2>1. Writes(task[a], key) BY <1>1, <1>3 DEF Writes, Writing
  <2>2. Ordered(key) BY DEF OrderInv
  <2>3. ASSUME history.clean[key] PROVE \A c \in history.expect[key] : c = Current(key)
    BY <1>3, <2>1, <2>2, <2>3, Loner DEF Ordered, StoredAs
  <2>4. Current(key) \in Credentials BY CurrentFacts
  <2>5. ASSUME Writes(u, key) PROVE SavedAs(u, key)'
    <3>1. CASE Follows(task[a], u, Current(task[a].key))
      BY <1>1, <1>4, <2>1, <2>2, <2>3, <2>4, <2>5, <3>1, FollowsSaved
    <3>2. CASE Waits(task[a], u)
      <4>1. u.pc = "load" /\ u.checked = task[a].checked BY <2>5, <3>2 DEF Waits, Writes
      <4>2. u.credential.config = Current(key).config /\ InVaultAt(key) BY <1>1, <3>2 DEF Waits, InVaultAt
      <4>3. InVaultAt(key)' BY <1>4, <4>2, CurrentSame
      <4>4. SavedAs(task[a], key) BY <2>1, <2>2 DEF Ordered
      <4>5. ASSUME history.clean[key], NEW c \in history.expect[key] PROVE Makes(u, key, c)'
        <5>1. c = Current(key) /\ Makes(task[a], key, c) BY <2>3, <4>4, <4>5 DEF SavedAs, Orderly
        <5>2. c.secrets = NoSecrets BY <1>3, <5>1 DEF Makes
        <5> QED BY <4>1, <4>2, <4>3, <5>1, <5>2 DEF Makes
      <4>6. history'.clean[key] => Orderly(u, key)' BY <1>4, <4>1, <4>5 DEF Orderly, PastSame
      <4> QED BY <4>1, <4>6 DEF SavedAs
    <3> QED BY <1>2, <3>1, <3>2
  <2> QED BY <1>2, <1>3, <1>4, <1>5, <2>1, <2>2, <2>5, TurnOrdered
<1>7. ASSUME NEW k \in Keys, k # key PROVE Ordered(k)'
  BY <1>1, <1>2, <1>4, <1>5, <1>7, OthersTurn DEF OrderInv
<1> QED BY <1>6, <1>7 DEF OrderInv

LEMMA LoadOrder ==
  ASSUME TypeInv, TypeInv', WorkInv, WorkInv', VaultInv, OrderInv, NEW a \in Actors, Load(a)
  PROVE  OrderInv'
<1>1. Working(a) /\ task[a].pc = "load" BY DEF Load, Working
<1>2. PICK key \in Keys : key = task[a].key BY <1>1, WorkingFacts
<1>3. task[a].op \in Writing \cup {"get"} /\ task[a] \in TaskType BY <1>1, WorkingFacts
<1>4. db' = db /\ server' = server /\ SameOrder(history') /\ \A k : StoreSame(k) /\ PastSame(k)
  BY DEF Load, StoreSame, PastSame, SameOrder
<1>5. PICK u \in TaskType :
           /\ task' = [task EXCEPT ![a] = u]
           /\ \/ db.vault[task[a].key] = None /\ u = Repace(task[a], "failed")
              \/ /\ db.vault[task[a].key] \in Secrets
                 /\ Follows(task[a], u, [config |-> task[a].credential.config, secrets |-> db.vault[task[a].key]])
  BY LoadFacts
<1>6. \/ u.pc = "failed" /\ Same(task[a], u)
      \/ /\ db.vault[key] \in Secrets
         /\ Follows(task[a], u, [config |-> task[a].credential.config, secrets |-> db.vault[key]])
  BY <1>2, <1>3, <1>5, Repaced DEF Pcs
<1>7. u.key = key /\ u.op = task[a].op /\ u.since = task[a].since BY <1>2, <1>6 DEF Follows, Same
<1>8. \A b \in Actors : task'[b] = IF b = a THEN u ELSE task[b] BY <1>5 DEF TypeInv
<1>9. Ordered(key) BY DEF OrderInv
<1>10. ASSUME db.vault[key] \in Secrets, NEW c, Current(key) = c, InVaultAt(key), task[a].credential.config = c.config
       PROVE  c = [config |-> task[a].credential.config, secrets |-> db.vault[key]]
  <2>1. None # InVault /\ InVault.kind = "vault" BY NoneAssumption, Names DEF InVault, Backends
  <2>2. db.rows[key] # None /\ db.rows[key].ref = InVault BY <1>10 DEF InVaultAt
  <2>3. c \in Credentials /\ c.secrets = db.vault[key] BY <1>10, <2>1, <2>2, CurrentFacts
  <2> QED BY <1>10, <2>3 DEF Credentials
<1>11. Ordered(key)'
  <2>1. CASE task[a].op \in Writing
    <3>1. Writes(task[a], key) BY <1>1, <1>2, <2>1 DEF Writes
    <3>2. ASSUME Writes(u, key) PROVE SavedAs(u, key)'
      <4>1. PICK d \in Credentials : d = [config |-> task[a].credential.config, secrets |-> db.vault[key]]
        BY <1>3, <1>6, <3>2 DEF Credentials, TaskType, Writes
      <4>2. Follows(task[a], u, d) BY <1>6, <3>2, <4>1 DEF Writes
      <4>3. ASSUME history.clean[key], NEW c \in history.expect[key] PROVE c = d
        <5>1. ~Disturbed(key) BY <1>1, <1>9, <3>1, <4>3, Loner
        <5>2. Current(key) = c BY <1>9, <5>1, <4>3 DEF Ordered, StoredAs
        <5>3. Makes(task[a], key, c) BY <1>9, <3>1, <4>3 DEF Ordered, SavedAs, Orderly
        <5>4. task[a].credential.config = c.config /\ InVaultAt(key) BY <1>1, <5>3 DEF Makes
        <5>5. db.vault[key] \in Secrets BY <1>6, <3>2 DEF Writes
        <5> QED BY <1>10, <4>1, <5>2, <5>4, <5>5
      <4> QED BY <1>4, <1>9, <3>1, <3>2, <4>2, <4>3, FollowsSaved
    <3> QED BY <1>1, <1>2, <1>4, <1>5, <1>7, <1>9, <3>1, <3>2, TurnOrdered
  <2>2. CASE task[a].op = "get"
    <3>1. ~Writes(task[a], key) BY <2>2 DEF Writes, Writing
    <3>2. ASSUME Reads(u, key) PROVE ReadAs(u, key)
      <4>1. /\ db.vault[key] \in Secrets
            /\ Follows(task[a], u, [config |-> task[a].credential.config, secrets |-> db.vault[key]])
        BY <1>6, <3>2 DEF Reads
      <4>2. u.pc = "answered" /\ u.credential = [config |-> task[a].credential.config, secrets |-> db.vault[key]]
        BY <2>2, <4>1 DEF Follows
      <4>3. Reads(task[a], key) BY <1>1, <1>2, <2>2 DEF Reads
      <4>4. a \in Slots BY <1>1, <2>2, WorkingFacts DEF Actors
      <4>5. ReadAs(task[a], key) BY <1>9, <4>3, <4>4 DEF Ordered
      <4>6. ASSUME u.since = history.version[key], NEW c \in history.expect[key] PROVE Finds(u, key, c)
        <5> SUFFICES ASSUME ~Disturbed(key) PROVE u.credential = c BY <4>2 DEF Finds
        <5>1. Finds(task[a], key, c) BY <1>7, <4>5, <4>6 DEF ReadAs
        <5>2. task[a].credential.config = c.config /\ InVaultAt(key) BY <1>1, <5>1 DEF Finds
        <5>3. Current(key) = c BY <1>9, <4>6 DEF Ordered, StoredAs
        <5> QED BY <1>10, <4>1, <4>2, <5>2, <5>3
      <4> QED BY <1>7, <4>5, <4>6 DEF ReadAs
    <3> QED BY <1>4, <1>7, <1>8, <1>9, <2>2, <3>1, <3>2, ReadTurnOrdered
  <2> QED BY <1>3, <2>1, <2>2
<1>12. ASSUME NEW k \in Keys, k # key PROVE Ordered(k)'
  BY <1>2, <1>4, <1>5, <1>7, <1>12, OthersTurn DEF OrderInv
<1> QED BY <1>11, <1>12 DEF OrderInv

LEMMA SaveSecretsOrder ==
  ASSUME TypeInv, TypeInv', WorkInv, WorkInv', OrderInv, NEW a \in Actors, SaveSecrets(a)
  PROVE  OrderInv'
<1>1. Working(a) /\ task[a].pc = "save" BY DEF SaveSecrets, Working
<1>2. PICK key \in Keys, x \in Secrets : key = task[a].key /\ x = task[a].credential.secrets BY SaveSecretsTyped
<1>3. db'.rows = db.rows /\ db'.vault = [db.vault EXCEPT ![key] = x] BY <1>2, SaveSecretsTyped
<1>4. PICK t \in TaskType : t = task[a] BY DEF TypeInv
<1>5. PICK u : u = Repace(t, "write") OBVIOUS
<1>6. task' = [task EXCEPT ![a] = u] BY <1>4, <1>5, SaveSecretsTyped
<1>7. u.pc = "write" /\ Same(t, u) /\ u.credential = t.credential /\ u.checked = t.checked
  BY <1>5, Repaced DEF Pcs
<1>8. server' = server /\ \A k : PastSame(k) BY DEF SaveSecrets, PastSame
<1>9. t.op \in Writing BY <1>1, <1>4, WorkingFacts
<1>10. db.vault \in [Keys -> Secrets \cup {None}] BY DEF TypeInv, DbType
<1>11. Writes(t, key) /\ Writes(task[a], key) BY <1>1, <1>2, <1>4, <1>9 DEF Writes
<1>12. Ordered(key) /\ SavedAs(t, key) BY <1>4, <1>11 DEF OrderInv, Ordered
<1>13. SavedAs(u, key)'
  <2>1. u.op = t.op /\ u.patch = t.patch BY <1>7 DEF Same
  <2>2. Overwrites(u) <=> Overwrites(t) BY <2>1 DEF Overwrites
  <2>3. ASSUME NEW c, Makes(t, key, c) PROVE Makes(u, key, c)'
    <3>1. Effect(u, c) = Effect(t, c) BY <2>1 DEF Effect
    <3> QED BY <1>1, <1>4, <1>7, <2>1, <2>3, <3>1 DEF Makes
  <2>4. db'.vault[key] = u.credential.secrets BY <1>2, <1>3, <1>4, <1>7, <1>10
  <2>5. ASSUME Orderly(t, key) PROVE Orderly(u, key)' BY <1>7, <1>8, <2>3, <2>4, <2>5 DEF Orderly, PastSame
  <2> QED BY <1>1, <1>4, <1>7, <1>8, <1>12, <2>1, <2>2, <2>5 DEF SavedAs, PastSame
<1>14. Ordered(key)'
  BY <1>1, <1>2, <1>4, <1>6, <1>7, <1>8, <1>11, <1>12, <1>13, TurnOrdered DEF Same
<1>15. ASSUME NEW k \in Keys, k # key PROVE Ordered(k)'
  <2>1. StoreSame(k) BY <1>3, <1>10, <1>15 DEF StoreSame
  <2>2. u.key = task[a].key BY <1>4, <1>7 DEF Same
  <2> QED BY <1>2, <1>6, <1>8, <1>15, <2>1, <2>2, OthersTurn DEF OrderInv
<1> QED BY <1>14, <1>15 DEF OrderInv

LEMMA WriteRowOrder ==
  ASSUME TypeInv, TypeInv', WorkInv, WorkInv', VaultInv, OrderInv, NEW a \in Actors, WriteRow(a)
  PROVE  OrderInv'
<1>1. Working(a) /\ task[a].pc = "write" BY DEF WriteRow, Working
<1>2. PICK key \in Keys : key = task[a].key BY WriteRowTyped
<1>3. PICK t \in TaskType : t = task[a] BY DEF TypeInv
<1>4. PICK row \in RowType : /\ row = Row(t) /\ row.config = t.credential.config
                             /\ row.ref = Ref(server[t.server].backend, t.credential.secrets)
  BY <1>1, <1>3, WorkingFacts, RowFacts
<1>5. db'.vault = db.vault /\ db'.rows = [db.rows EXCEPT ![key] = row] BY <1>2, <1>3, <1>4, WriteRowTyped
<1>6. PICK u : u = Repace(t, "audit") OBVIOUS
<1>7. task' = [task EXCEPT ![a] = u] BY <1>3, <1>6, WriteRowTyped
<1>8. u.pc = "audit" /\ Same(t, u) /\ u.credential = t.credential /\ u.checked = t.checked
  BY <1>6, Repaced DEF Pcs
<1>9. server' = server /\ \A k : PastSame(k) BY DEF WriteRow, PastSame
<1>10. t.op \in Writing /\ t.server \in Servers BY <1>1, <1>3, WorkingFacts
<1>11. db.rows \in [Keys -> RowType \cup {None}] BY DEF TypeInv, DbType
<1>12. Writes(t, key) /\ Writes(task[a], key) BY <1>1, <1>2, <1>3, <1>10 DEF Writes
<1>13. Ordered(key) /\ SavedAs(t, key) BY <1>3, <1>12 DEF OrderInv, Ordered
<1>14. ASSUME Orderly(t, key) PROVE Current(key)' = t.credential
  <2>1. db'.rows[key] = row /\ db'.vault[key] = db.vault[key] BY <1>5, <1>11
  <2>2. row # None BY <1>4, NoneAssumption DEF RowType, RefType
  <2>3. PICK e \in Secrets : e = t.credential.secrets BY DEF TaskType, Credentials
  <2>4. PICK b \in Backends : b = server[t.server].backend BY <1>10 DEF TypeInv, ServerType
  <2>5. /\ Ref(b, e) = None <=> e = NoSecrets
        /\ Ref(b, e) # None => IF b = "vault" THEN Ref(b, e) = InVault ELSE Ref(b, e) = Encrypted(e)
    BY RefFacts
  <2>6. row.config = t.credential.config /\ row.ref = Ref(b, e) BY <1>4, <2>3, <2>4
  <2>7. Current(key)' = [config |-> row.config,
                         secrets |-> IF row.ref = None THEN NoSecrets
                                     ELSE IF row.ref.kind = "vault" THEN db.vault[key] ELSE row.ref.secrets]
    BY <2>1, <2>2 DEF Current
  <2>8. Current(key)' = [config |-> t.credential.config, secrets |-> e]
    <3>1. CASE e = NoSecrets BY <2>5, <2>6, <2>7, <3>1
    <3>2. CASE e # NoSecrets /\ b = "vault"
      <4>1. db.vault[key] = e BY <1>1, <1>3, <1>14, <2>3, <2>4, <3>2 DEF Orderly
      <4>2. row.ref = InVault /\ row.ref # None BY <2>5, <2>6, <3>2
      <4> QED BY <2>6, <2>7, <4>1, <4>2 DEF InVault
    <3>3. CASE e # NoSecrets /\ b # "vault"
      <4>1. row.ref = Encrypted(e) /\ row.ref # None BY <2>5, <2>6, <3>3
      <4> QED BY <2>6, <2>7, <4>1 DEF Encrypted
    <3> QED BY <3>1, <3>2, <3>3
  <2> QED BY <2>3, <2>8 DEF TaskType, Credentials
<1>15. SavedAs(u, key)'
  <2>1. u.op = t.op /\ u.patch = t.patch BY <1>8 DEF Same
  <2>2. Overwrites(u) <=> Overwrites(t) BY <2>1 DEF Overwrites
  <2>3. ASSUME Orderly(t, key) PROVE Orderly(u, key)'
    <3>1. Current(key)' = t.credential BY <1>14, <2>3
    <3>2. ASSUME NEW c, Makes(t, key, c) PROVE Makes(u, key, c)'
      <4>1. Effect(u, c) = Effect(t, c) BY <2>1 DEF Effect
      <4> QED BY <1>1, <1>3, <1>8, <2>1, <3>1, <3>2, <4>1 DEF Makes
    <3>3. Overwrites(u) => Current(key)' = u.patch BY <1>1, <1>3, <1>13, <2>1, <2>2, <3>1 DEF SavedAs
    <3> QED BY <1>8, <1>9, <2>3, <3>2, <3>3 DEF Orderly, PastSame
  <2> QED BY <1>8, <1>9, <1>13, <2>3 DEF SavedAs, PastSame
<1>16. Ordered(key)'
  BY <1>1, <1>2, <1>3, <1>7, <1>8, <1>9, <1>12, <1>13, <1>15, TurnOrdered DEF Same
<1>17. ASSUME NEW k \in Keys, k # key PROVE Ordered(k)'
  <2>1. StoreSame(k) BY <1>5, <1>11, <1>17 DEF StoreSame
  <2>2. u.key = task[a].key BY <1>3, <1>8 DEF Same
  <2> QED BY <1>2, <1>7, <1>9, <1>17, <2>1, <2>2, OthersTurn DEF OrderInv
<1> QED BY <1>16, <1>17 DEF OrderInv

LEMMA SavesOrder ==
  ASSUME TypeInv, TypeInv', WorkInv, WorkInv', OrderInv, NEW a \in Actors, Saves(a)
  PROVE  OrderInv'
<1>1. Working(a) /\ task[a].pc = "audit" BY DEF Saves, Working
<1>2. PICK key \in Keys : key = task[a].key BY SavesTyped
<1>3. PICK t \in TaskType : t = task[a] BY DEF TypeInv
<1>4. PICK u : u = Repace(t, "answered") OBVIOUS
<1>5. task' = [task EXCEPT ![a] = u] BY <1>3, <1>4, SavesTyped
<1>6. u.pc = "answered" /\ Same(t, u) BY <1>4, Repaced DEF Pcs
<1>7. server' = server /\ \A k : StoreSame(k) BY DEF Saves, StoreSame
<1>8. t.op \in Writing BY <1>1, <1>3, WorkingFacts
<1>9. Writes(t, key) /\ Writes(task[a], key) BY <1>1, <1>2, <1>3, <1>8 DEF Writes
<1>10. Ordered(key) /\ SavedAs(t, key) BY <1>3, <1>9 DEF OrderInv, Ordered
<1>11. /\ history'.clean = history.clean
       /\ \A k \in Keys :
            /\ history'.version[k] = IF k = key THEN history.version[k] + 1 ELSE history.version[k]
            /\ history'.expect[k] = IF k = key THEN IF history.clean[k] THEN Made(t) ELSE {} ELSE history.expect[k]
  BY <1>2, <1>3, SavesTyped
<1>12. \A b \in Actors : task'[b] = IF b = a THEN u ELSE task[b] BY <1>5 DEF TypeInv
<1>13. ~Writes(u, key) /\ ~Reads(u, key) BY <1>6, <1>8 DEF Writes, Reads, Same, Writing
<1>14. ASSUME NEW c \in history'.expect[key] PROVE Current(key)' = c
  <2>1. history.clean[key] /\ c \in Made(t) BY <1>11, <1>14
  <2>2. Orderly(t, key) BY <1>10, <2>1 DEF SavedAs
  <2>3. Current(key)' = Current(key) BY <1>7, CurrentSame
  <2>4. CASE Overwrites(t)
    BY <1>1, <1>3, <2>1, <2>2, <2>3, <2>4 DEF Orderly, Made, Overwrites
  <2>5. CASE ~Overwrites(t)
    <3>1. PICK d \in history.expect[key] : c = Effect(t, d)
      BY <1>2, <1>3, <2>1, <2>5 DEF Made, Overwrites
    <3> QED BY <1>1, <1>3, <2>2, <2>3, <3>1 DEF Orderly, Makes
  <2> QED BY <2>4, <2>5
<1>15. Ordered(key)'
  <2>1. history.clean[key] => /\ \A b \in Actors : ~Writes(task'[b], key)
                              /\ \A s \in Servers : \A x \in server'[s].todo : x.key # key
    BY <1>7, <1>9, <1>10, <1>12, <1>13, Loner
  <2>2. \A b \in Actors : task'[b] = task[b] \/ (~Writes(task'[b], key) /\ ~Reads(task'[b], key)) BY <1>12, <1>13
  <2>3. history'.version[key] = history.version[key] + 1 /\ history'.clean[key] = history.clean[key] BY <1>11
  <2> QED BY <1>7, <1>10, <1>14, <2>1, <2>2, <2>3, DoneOrdered
<1>16. ASSUME NEW k \in Keys, k # key PROVE Ordered(k)'
  <2>1. PastSame(k) BY <1>11, <1>16 DEF PastSame
  <2>2. u.key = task[a].key BY <1>3, <1>6 DEF Same
  <2> QED BY <1>2, <1>5, <1>7, <1>16, <2>1, <2>2, OthersTurn DEF OrderInv
<1> QED BY <1>15, <1>16 DEF OrderInv

LEMMA FailsOrder ==
  ASSUME TypeInv, TypeInv', WorkInv, WorkInv', OrderInv, NEW a \in Actors, Fails(a)
  PROVE  OrderInv'
<1>1. Working(a) /\ task[a].pc \in {"load", "save", "write", "audit"} BY DEF Fails, Working
<1>2. PICK key \in Keys : key = task[a].key BY FailsTyped
<1>3. PICK t \in TaskType : t = task[a] BY DEF TypeInv
<1>4. PICK u : u = Repace(t, "failed") OBVIOUS
<1>5. task' = [task EXCEPT ![a] = u] BY <1>3, <1>4, FailsTyped
<1>6. u.pc = "failed" /\ Same(t, u) BY <1>4, Repaced DEF Pcs
<1>7. server' = server BY DEF Fails
<1>8. t.op \in Writing \cup {"get"} /\ (t.pc = "save" => t.op \in Writing) BY <1>1, <1>3, WorkingFacts
<1>9. \A b \in Actors : task'[b] = IF b = a THEN u ELSE task[b] BY <1>5 DEF TypeInv
<1>10. \A k : ~Writes(u, k) /\ ~Reads(u, k) BY <1>6 DEF Writes, Reads
<1>11. u.key = task[a].key BY <1>3, <1>6 DEF Same
<1>12. CASE t.op \in Writing
  <2>1. Doubts(history', {key}) BY <1>2, <1>3, <1>12, FailsTyped
  <2>2. Writes(task[a], key) BY <1>1, <1>2, <1>3, <1>12 DEF Writes
  <2>3. Ordered(key)'
    <3>1. Ordered(key) BY DEF OrderInv
    <3>2. history.clean[key] => /\ \A b \in Actors : ~Writes(task'[b], key)
                                /\ \A s \in Servers : \A x \in server'[s].todo : x.key # key
      BY <1>7, <1>9, <1>10, <2>2, <3>1, Loner
    <3>3. \A b \in Actors : task'[b] = task[b] \/ (~Writes(task'[b], key) /\ ~Reads(task'[b], key)) BY <1>9, <1>10
    <3>4. /\ history'.version[key] = history.version[key] + 1 /\ history'.clean[key] = history.clean[key]
          /\ history'.expect[key] = {}
      BY <2>1 DEF Doubts
    <3> QED BY <1>7, <3>1, <3>2, <3>3, <3>4, DoneOrdered
  <2>4. ASSUME NEW k \in Keys, k # key PROVE Ordered(k)'
    <3>1. PastSame(k) BY <2>1, <2>4 DEF PastSame, Doubts
    <3>2. /\ db'.rows = db.rows
          /\ db' = db \/ db'.vault = [db.vault EXCEPT ![key] = task[a].credential.secrets]
      BY <1>2, FailsTyped
    <3>3. db.vault \in [Keys -> Secrets \cup {None}] BY DEF TypeInv, DbType
    <3>4. StoreSame(k) BY <2>4, <3>2, <3>3 DEF StoreSame
    <3> QED BY <1>2, <1>5, <1>7, <1>11, <2>4, <3>1, <3>4, OthersTurn DEF OrderInv
  <2> QED BY <2>3, <2>4 DEF OrderInv
<1>13. CASE t.op = "get"
  <2>1. "get" \notin Writing BY DEF Writing
  <2>2. history' = history /\ db' = db BY <1>3, <1>8, <1>13, <2>1, FailsTyped
  <2> SUFFICES ASSUME NEW k \in Keys PROVE Ordered(k)' BY DEF OrderInv
  <2>3. StoreSame(k) /\ PastSame(k) BY <2>2 DEF StoreSame, PastSame
  <2>4. TaskQuiet(task[a], u, k) BY <1>3, <1>10, <1>13, <2>1 DEF TaskQuiet, Writes
  <2>5. \A b \in Actors : Writes(task'[b], k) => task'[b].server \in Servers BY WritesServerLater
  <2> QED BY <1>7, <1>9, <2>3, <2>4, <2>5, QuietTurn DEF OrderInv
<1> QED BY <1>8, <1>12, <1>13

LEMMA MigrateSelectOrder ==
  ASSUME TypeInv, TypeInv', WorkInv, OrderInv, NEW s \in Servers, MigrateSelect(s)
  PROVE  OrderInv'
<1>1. UNCHANGED <<db, task>> /\ server[s].stage = "selecting" /\ Enters(history', {x.key : x \in Legacy})
  BY MigrateSelectTyped
<1>2. PICK r \in ServerType :
        /\ server' = [server EXCEPT ![s] = r]
        /\ r.backend = server[s].backend /\ r.todo = Legacy /\ r.moving = server[s].moving
        /\ r.stage = "migrating"
  BY MigrateSelectTyped
<1>3. \A q \in Servers : server'[q] = IF q = s THEN r ELSE server[q] BY <1>2 DEF TypeInv
<1>4. server[s].todo = {} /\ server[s].moving = {} BY <1>1 DEF WorkInv, Ready
<1>5. \A k : StoreSame(k) BY <1>1 DEF StoreSame
<1>6. ASSUME NEW key \in Keys, key \in {x.key : x \in Legacy} PROVE Ordered(key)'
  <2>1. Ordered(key) BY DEF OrderInv
  <2>2. /\ history'.expect[key] = history.expect[key] /\ history'.version[key] = history.version[key]
        /\ history'.clean[key] = (Writers(key) = {})
    BY <1>1, <1>6 DEF Enters
  <2>3. /\ Disturbed(key) => Disturbed(key)'
        /\ history'.clean[key] => /\ \A b \in Actors : ~Writes(task[b], key)
                                  /\ \A q \in Servers : \A x \in server[q].todo : x.key # key
                                  /\ ~Disturbed(key)
    BY <1>1, <1>2, <1>3, <2>2, EntersFacts
  <2>4. Current(key)' = Current(key) BY <1>5, CurrentSame
  <2>5. Alone(key)'
    <3>1. ASSUME history'.clean[key], NEW b, b \in Writers(key)' PROVE b = s
      <4>1. \/ b \in Actors /\ Writes(task[b], key)
            \/ b \in Servers /\ \E x \in server'[b].todo : x.key = key
        BY <1>1, <3>1 DEF Writers, Writes, Working, Actors
      <4> QED BY <1>3, <2>3, <3>1, <4>1
    <3>2. ASSUME NEW q \in Servers, NEW x \in server'[q].todo, NEW y \in server'[q].todo, x.key = key, y.key = key
          PROVE  x = y
      <4>1. CASE q = s BY <1>2, <1>3, <3>2, <4>1, LegacyFacts
      <4>2. CASE q # s BY <1>3, <2>1, <3>2, <4>2 DEF Ordered, Alone
      <4> QED BY <4>1, <4>2
    <3> QED BY <2>1, <2>2, <3>1, <3>2 DEF Ordered, Alone
  <2>6. StoredAs(key)' BY <2>1, <2>2, <2>3, <2>4 DEF Ordered, StoredAs
  <2>7. ASSUME NEW b \in Actors, Writes(task'[b], key) PROVE SavedAs(task[b], key)'
    <3>1. PICK t : t = task[b] /\ t = task'[b] BY <1>1
    <3>2. SavedAs(t, key) /\ ~history'.clean[key] BY <2>1, <2>3, <2>7, <3>1 DEF Ordered
    <3>3. SavedAs(t, key)' BY <3>2, SavedUnclean
    <3> QED BY <3>1, <3>3
  <2>8. ASSUME NEW q \in Servers, NEW x \in server'[q].todo, x.key = key PROVE MovedAs(q, x)'
    <3>1. CASE q = s
      <4>1. db.rows[key] # None /\ db.rows[key].ref = Encrypted(x.secrets) BY <1>2, <1>3, <2>8, <3>1, LegacyFacts
      <4>2. server'[q].moving = {} BY <1>2, <1>3, <1>4, <3>1
      <4> QED BY <1>1, <2>8, <4>1, <4>2 DEF MovedAs, Encrypted
    <3>2. CASE q # s BY <1>3, <2>3, <2>8, <3>2 DEF MovedAs
    <3> QED BY <3>1, <3>2
  <2>9. ASSUME NEW h \in Slots, Reads(task'[h], key) PROVE ReadAs(task[h], key)'
    <3>1. PICK t : t = task[h] /\ t = task'[h] BY <1>1
    <3>2. ReadAs(t, key) BY <2>1, <2>9, <3>1 DEF Ordered
    <3>3. ReadAs(t, key)' BY <1>5, <2>2, <2>3, <3>2, QuietRead DEF Alike
    <3> QED BY <3>1, <3>3
  <2> QED BY <2>5, <2>6, <2>7, <2>8, <2>9 DEF Ordered
<1>7. ASSUME NEW key \in Keys, key \notin {x.key : x \in Legacy} PROVE Ordered(key)'
  <2>1. PastSame(key) BY <1>1, <1>7 DEF PastSame, Enters
  <2>2. \A b \in Actors : TaskQuiet(task[b], task'[b], key) BY <1>1 DEF TaskQuiet, Alike
  <2>3. \A q \in Servers : MovesQuiet(q, key) BY <1>2, <1>3, <1>7 DEF MovesQuiet
  <2>4. BackendQuiet(key)
    <3> SUFFICES ASSUME NEW b \in Actors, Writes(task[b], key)
                 PROVE  server'[task[b].server].backend = server[task[b].server].backend
      BY <1>1 DEF BackendQuiet
    <3>1. task[b].server \in Servers BY WritesServer
    <3> QED BY <1>2, <1>3, <3>1
  <2> QED BY <1>5, <2>1, <2>2, <2>3, <2>4, QuietOrdered DEF Quiet, OrderInv
<1>8. ASSUME NEW key \in Keys PROVE Ordered(key)' BY <1>6, <1>7
<1> QED BY <1>8 DEF OrderInv

(* a migration goes on, for the other keys *)
LEMMA OthersMove ==
  ASSUME TypeInv, WorkInv, OrderInv, NEW key \in Keys, StoreSame(key), PastSame(key), task' = task,
         NEW s \in Servers, NEW r, server' = [server EXCEPT ![s] = r], r.backend = server[s].backend,
         MovesQuiet(s, key)
  PROVE  Ordered(key)'
<1>1. \A q \in Servers : server'[q] = IF q = s THEN r ELSE server[q] BY DEF TypeInv
<1>2. \A b \in Actors : TaskQuiet(task[b], task'[b], key) BY DEF TaskQuiet, Alike
<1>3. \A q \in Servers : MovesQuiet(q, key) BY <1>1 DEF MovesQuiet
<1>4. BackendQuiet(key)
  <2> SUFFICES ASSUME NEW b \in Actors, Writes(task[b], key)
               PROVE  server'[task[b].server].backend = server[task[b].server].backend
    BY DEF BackendQuiet
  <2>1. task[b].server \in Servers BY WritesServer
  <2> QED BY <1>1, <2>1
<1> QED BY <1>2, <1>3, <1>4, QuietOrdered DEF Quiet, OrderInv

LEMMA MigrateSaveOrder ==
  ASSUME TypeInv, TypeInv', WorkInv, OrderInv, NEW s \in Servers, MigrateSave(s)
  PROVE  OrderInv'
<1>1. /\ UNCHANGED <<task, history>> /\ server[s].stage = "migrating" /\ server[s].moving = {}
  BY MigrateSaveTyped
<1>2. PICK x \in server[s].todo :
        /\ x \in MoveType
        /\ db'.rows = db.rows /\ db'.vault = [db.vault EXCEPT ![x.key] = x.secrets]
        /\ \E r \in ServerType :
             /\ server' = [server EXCEPT ![s] = r]
             /\ r.backend = server[s].backend /\ r.todo = server[s].todo /\ r.moving = {x}
             /\ r.stage = server[s].stage /\ r.seeds = server[s].seeds
  BY MigrateSaveTyped
<1>3. PICK r \in ServerType :
        /\ server' = [server EXCEPT ![s] = r]
        /\ r.backend = server[s].backend /\ r.todo = server[s].todo /\ r.moving = {x}
  BY <1>2
<1>4. \A q \in Servers : server'[q] = IF q = s THEN r ELSE server[q] BY <1>3 DEF TypeInv
<1>5. PICK key \in Keys : key = x.key BY <1>2 DEF MoveType
<1>6. db.vault \in [Keys -> Secrets \cup {None}] BY DEF TypeInv, DbType
<1>7. \A q \in Servers : server'[q].todo = server[q].todo BY <1>3, <1>4
<1>8. Ordered(key) /\ MovedAs(s, x) BY <1>5 DEF OrderInv, Ordered
<1>9. Ordered(key)'
  <2>1. Alone(key)'
    <3>1. Writers(key)' = Writers(key) BY <1>1, <1>7 DEF Writers, Working
    <3> QED BY <1>1, <1>7, <1>8, <3>1 DEF Ordered, Alone
  <2>2. CASE history.clean[key]
    <3>1. /\ \A b \in Actors : ~Writes(task[b], key)
          /\ \A q \in Servers : \A y \in server[q].todo : y.key = key => q = s /\ y = x
          /\ ~Disturbed(key)
      BY <1>5, <1>8, <2>2, LonerServer
    <3>2. db.rows[key] # None /\ db.rows[key].ref = Encrypted(x.secrets) BY <1>5, <1>8, <2>2 DEF MovedAs
    <3>3. Current(key)' = Current(key) BY <1>2, <3>2 DEF Current, Encrypted
    <3>4. StoredAs(key)' BY <1>1, <1>8, <3>1, <3>3 DEF Ordered, StoredAs
    <3>5. \A b \in Actors : Writes(task'[b], key) => SavedAs(task[b], key)' BY <1>1, <3>1
    <3>6. ASSUME NEW q \in Servers, NEW y \in server'[q].todo, y.key = key PROVE MovedAs(q, y)'
      <4>1. q = s /\ y = x BY <1>7, <3>1, <3>6
      <4>2. db'.vault[key] = x.secrets /\ db'.rows[key] = db.rows[key] BY <1>2, <1>5, <1>6
      <4> QED BY <1>5, <3>2, <4>1, <4>2 DEF MovedAs, Encrypted
    <3>7. ASSUME NEW h \in Slots, Reads(task'[h], key) PROVE ReadAs(task[h], key)'
      <4>1. PICK t : t = task[h] /\ t = task'[h] BY <1>1
      <4>2. ReadAs(t, key) BY <1>8, <3>7, <4>1 DEF Ordered
      <4>3. \A c : Finds(t, key, c) => Finds(t, key, c)' BY <1>2, <3>1 DEF Finds, InVaultAt
      <4>4. ReadAs(t, key)' BY <1>1, <4>2, <4>3 DEF ReadAs
      <4> QED BY <4>1, <4>4
    <3> QED BY <2>1, <3>4, <3>5, <3>6, <3>7 DEF Ordered
  <2>3. CASE ~history.clean[key]
    <3>1. Disturbed(key)'
      <4>1. MovesAt(s, key)' BY <1>3, <1>4, <1>5 DEF MovesAt
      <4> QED BY <1>1, <2>3, <4>1 DEF Disturbed
    <3>2. StoredAs(key)' BY <3>1 DEF StoredAs
    <3>3. ASSUME NEW b \in Actors, Writes(task'[b], key) PROVE SavedAs(task[b], key)'
      <4>1. PICK t : t = task[b] /\ t = task'[b] BY <1>1
      <4>2. SavedAs(t, key) BY <1>8, <3>3, <4>1 DEF Ordered
      <4>3. SavedAs(t, key)' BY <1>1, <2>3, <4>2, SavedUnclean
      <4> QED BY <4>1, <4>3
    <3>4. ASSUME NEW q \in Servers, NEW y \in server'[q].todo, y.key = key PROVE MovedAs(q, y)'
      BY <1>1, <2>3, <3>4 DEF MovedAs
    <3>5. ASSUME NEW h \in Slots, Reads(task'[h], key) PROVE ReadAs(task[h], key)'
      <4>1. PICK t : t = task[h] /\ t = task'[h] BY <1>1
      <4>2. ReadAs(t, key) BY <1>8, <3>5, <4>1 DEF Ordered
      <4>3. \A c : Finds(t, key, c)' BY <3>1 DEF Finds
      <4>4. ReadAs(t, key)' BY <1>1, <4>2, <4>3 DEF ReadAs
      <4> QED BY <4>1, <4>4
    <3> QED BY <2>1, <3>2, <3>3, <3>4, <3>5 DEF Ordered
  <2> QED BY <2>2, <2>3
<1>10. ASSUME NEW k \in Keys, k # key PROVE Ordered(k)'
  <2>1. StoreSame(k) /\ PastSame(k) BY <1>1, <1>2, <1>5, <1>6, <1>10 DEF StoreSame, PastSame
  <2>2. MovesQuiet(s, k) BY <1>1, <1>3, <1>4, <1>5, <1>10 DEF MovesQuiet
  <2> QED BY <1>1, <1>3, <2>1, <2>2, OthersMove
<1> QED BY <1>9, <1>10 DEF OrderInv

LEMMA MigrateWriteOrder ==
  ASSUME TypeInv, TypeInv', WorkInv, VaultInv, OrderInv, NEW s \in Servers, MigrateWrite(s)
  PROVE  OrderInv'
<1>1. PICK x \in server[s].moving :
              /\ x \in MoveType
              /\ db'.vault = db.vault
              /\ db'.rows = [db.rows EXCEPT ![x.key] = [config |-> db.rows[x.key].config, ref |-> InVault]]
              /\ \E r \in ServerType :
                   /\ server' = [server EXCEPT ![s] = r]
                   /\ r.backend = server[s].backend /\ r.todo = server[s].todo \ {x} /\ r.moving = {}
                   /\ r.stage = server[s].stage /\ r.seeds = server[s].seeds
              /\ history'.writes = history.writes /\ history'.clean = history.clean
              /\ history'.version = history.version
              /\ \A k \in Keys : history'.expect[k] = IF k = x.key /\ ~history.clean[k] THEN {} ELSE history.expect[k]
  BY MigrateWriteTyped
<1>2. task' = task BY MigrateWriteTyped
<1>3. PICK r \in ServerType :
        /\ server' = [server EXCEPT ![s] = r]
        /\ r.backend = server[s].backend /\ r.todo = server[s].todo \ {x} /\ r.moving = {}
  BY <1>1
<1>4. \A q \in Servers : server'[q] = IF q = s THEN r ELSE server[q] BY <1>3 DEF TypeInv
<1>5. PICK key \in Keys : key = x.key BY <1>1 DEF MoveType
<1>6. x \in server[s].todo BY MovingFacts
<1>7. \A q \in Servers : \A y \in server'[q].todo : y \in server[q].todo /\ (q = s => y # x) BY <1>3, <1>4
<1>8. Ordered(key) /\ MovedAs(s, x) BY <1>5, <1>6 DEF OrderInv, Ordered
<1>9. db.rows \in [Keys -> RowType \cup {None}] BY DEF TypeInv, DbType
<1>10. db'.rows[key] = [config |-> db.rows[key].config, ref |-> InVault] BY <1>1, <1>5, <1>9
<1>11. Ordered(key)'
  <2>1. ASSUME NEW b, b \in Writers(key)' PROVE b \in Writers(key)
    <3>1. \/ b \in Actors /\ Writes(task[b], key)
          \/ b \in Servers /\ \E y \in server'[b].todo : y.key = key
      BY <1>2, <2>1 DEF Writers, Writes, Working, Actors
    <3> QED BY <1>7, <3>1, WritersFacts
  <2>2. CASE history.clean[key]
    <3>1. /\ \A b \in Actors : ~Writes(task[b], key)
          /\ \A q \in Servers : \A y \in server[q].todo : y.key = key => q = s /\ y = x
          /\ ~Disturbed(key)
      BY <1>5, <1>6, <1>8, <2>2, LonerServer
    <3>2. db.rows[key] # None /\ db.rows[key].ref = Encrypted(x.secrets) /\ db.vault[key] = x.secrets
      BY <1>5, <1>8, <2>2 DEF MovedAs
    <3>3. None # InVault /\ None # Encrypted(x.secrets)
      BY <1>1, NoneAssumption, Names DEF InVault, Encrypted, Backends, MoveType
    <3>4. Current(key)' = Current(key)
      <4>1. None # db'.rows[key]
        <5>1. PICK row \in RowType : row = db.rows[key] BY <3>2, RowTyped
        <5>2. row.config \in Configs /\ InVault \in RefType \cup {None}
          BY Names DEF RowType, InVault, RefType, Backends
        <5>3. [config |-> row.config, ref |-> InVault] \in RowType BY <5>2 DEF RowType
        <5> QED BY <1>10, <5>1, <5>3, NoneAssumption DEF RowType, RefType
      <4>2. Current(key)' = [config |-> db.rows[key].config, secrets |-> db.vault[key]]
        BY <1>1, <1>10, <3>3, <4>1 DEF Current, InVault
      <4>3. Current(key) = [config |-> db.rows[key].config, secrets |-> x.secrets]
        BY <3>2, <3>3 DEF Current, Encrypted
      <4> QED BY <3>2, <4>2, <4>3
    <3>5. history'.expect[key] = history.expect[key] BY <1>1, <2>2
    <3>6. Alone(key)' BY <1>1, <1>7, <1>8, <2>1, <3>5 DEF Ordered, Alone
    <3>7. StoredAs(key)' BY <1>8, <3>1, <3>4, <3>5 DEF Ordered, StoredAs
    <3>8. \A b \in Actors : Writes(task'[b], key) => SavedAs(task[b], key)' BY <1>2, <3>1
    <3>9. \A q \in Servers : \A y \in server'[q].todo : y.key = key => MovedAs(q, y)' BY <1>7, <3>1
    <3>10. ASSUME NEW h \in Slots, Reads(task'[h], key) PROVE ReadAs(task[h], key)'
      <4>1. PICK t : t = task[h] /\ t = task'[h] BY <1>2
      <4>2. ReadAs(t, key) BY <1>8, <3>10, <4>1 DEF Ordered
      <4>3. ~InVaultAt(key) BY <3>2 DEF InVaultAt, InVault, Encrypted
      <4>4. \A c : Finds(t, key, c) => Finds(t, key, c)' BY <3>1, <4>3 DEF Finds
      <4>5. ReadAs(t, key)' BY <1>1, <3>5, <4>2, <4>4 DEF ReadAs
      <4> QED BY <4>1, <4>5
    <3> QED BY <3>6, <3>7, <3>8, <3>9, <3>10 DEF Ordered
  <2>3. CASE ~history.clean[key]
    <3>1. history'.expect[key] = {} /\ ~history'.clean[key] BY <1>1, <1>5, <2>3
    <3>2. Alone(key)' BY <1>7, <1>8, <3>1 DEF Ordered, Alone
    <3>3. StoredAs(key)' BY <3>1 DEF StoredAs
    <3>4. ASSUME NEW b \in Actors, Writes(task'[b], key) PROVE SavedAs(task[b], key)'
      <4>1. PICK t : t = task[b] /\ t = task'[b] BY <1>2
      <4>2. SavedAs(t, key) BY <1>8, <3>4, <4>1 DEF Ordered
      <4>3. SavedAs(t, key)' BY <3>1, <4>2, SavedUnclean
      <4> QED BY <4>1, <4>3
    <3>5. ASSUME NEW q \in Servers, NEW y \in server'[q].todo, y.key = key PROVE MovedAs(q, y)'
      BY <3>1, <3>5 DEF MovedAs
    <3>6. ASSUME NEW h \in Slots, Reads(task'[h], key) PROVE ReadAs(task[h], key)'
      <4>1. PICK t : t = task[h] /\ t = task'[h] BY <1>2
      <4>2. ReadAs(t, key) BY <1>8, <3>6, <4>1 DEF Ordered
      <4>3. ReadAs(t, key)' BY <1>1, <3>1, <4>2 DEF ReadAs
      <4> QED BY <4>1, <4>3
    <3> QED BY <3>2, <3>3, <3>4, <3>5, <3>6 DEF Ordered
  <2> QED BY <2>2, <2>3
<1>12. ASSUME NEW k \in Keys, k # key PROVE Ordered(k)'
  <2>1. StoreSame(k) BY <1>1, <1>5, <1>9, <1>12 DEF StoreSame
  <2>2. PastSame(k) BY <1>1, <1>5, <1>12 DEF PastSame
  <2>3. \A y \in server[s].moving : y = x BY DEF WorkInv, Ready
  <2>4. MovesQuiet(s, k) BY <1>3, <1>4, <1>5, <1>12, <2>3 DEF MovesQuiet
  <2> QED BY <1>2, <1>3, <2>1, <2>2, <2>4, OthersMove
<1> QED BY <1>11, <1>12 DEF OrderInv

LEMMA CrashOrder ==
  ASSUME TypeInv, TypeInv', WorkInv, OrderInv, NEW s \in Servers, Crash(s)
  PROVE  OrderInv'
<1>1. /\ db' = db /\ server' = [server EXCEPT ![s] = Fresh]
      /\ \A a \in Actors : task'[a] = AfterCrash(s, a)
      /\ Doubts(history', LostKeys(s))
  BY CrashTyped
<1>2. \A q \in Servers : server'[q] = IF q = s THEN Fresh ELSE server[q] BY <1>1 DEF TypeInv
<1>3. Fresh.todo = {} /\ Fresh.moving = {} BY DEF Fresh
<1>4. s \in Actors BY DEF Actors
<1>5. ASSUME NEW b \in Actors
      PROVE  \/ b # s /\ b \notin Lost(s) /\ task'[b] = task[b]
             \/ (b = s \/ b \in Lost(s)) /\ \A k : ~Writes(task'[b], k) /\ ~Reads(task'[b], k)
  <2>1. CASE b = s BY <1>1, <2>1, IdleTyped DEF AfterCrash, Writes, Reads
  <2>2. CASE b # s /\ b \in Lost(s)
    <3>1. task[b] \in TaskType BY DEF TypeInv
    <3>2. task'[b].pc = "failed" BY <1>1, <2>2, <3>1, Repaced DEF AfterCrash, Pcs
    <3> QED BY <2>2, <3>2 DEF Writes, Reads
  <2>3. CASE b # s /\ b \notin Lost(s) BY <1>1, <2>3 DEF AfterCrash
  <2> QED BY <2>1, <2>2, <2>3
<1>6. ASSUME NEW b \in Actors, NEW key, Writes(task[b], key), task[b].server = s
      PROVE  b \in Lost(s) /\ key \in LostKeys(s)
  <2>1. b \in Lost(s) BY <1>6 DEF Lost, Writes, Working
  <2> QED BY <1>6, <2>1 DEF LostKeys, Writes
<1>7. ASSUME NEW key, Writes(task[s], key) PROVE task[s].server = s
  <2>1. Working(s) BY <1>7 DEF Writes, Working
  <2> QED BY <1>4, <2>1, WorkingFacts
<1>8. ASSUME NEW key \in Keys, key \in LostKeys(s) PROVE Ordered(key)'
  <2>1. Ordered(key) BY DEF OrderInv
  <2>2. /\ history'.version[key] = history.version[key] + 1 /\ history'.clean[key] = history.clean[key]
        /\ history'.expect[key] = {}
    BY <1>1, <1>8 DEF Doubts
  <2>3. \A b \in Actors : task'[b] = task[b] \/ (~Writes(task'[b], key) /\ ~Reads(task'[b], key)) BY <1>5
  <2>4. \A q \in Servers : \A x \in server'[q].todo : x \in server[q].todo BY <1>2, <1>3
  <2>5. ASSUME history.clean[key]
        PROVE  /\ \A b \in Actors : ~Writes(task'[b], key)
               /\ \A q \in Servers : \A x \in server'[q].todo : x.key # key
    <3>1. PICK a \in Lost(s) : task[a].op \in Writing /\ task[a].key = key BY <1>8, <2>5 DEF LostKeys
    <3>2. a \in Actors /\ Writes(task[a], key) BY <3>1 DEF Lost, Working, Writes
    <3>3. \A b \in Actors : Writes(task[b], key) => b = a BY <2>1, <2>5, <3>2, Loner
    <3>4. \A q \in Servers : \A x \in server[q].todo : x.key # key BY <2>1, <2>5, <3>2, Loner
    <3>5. \A b \in Actors : ~Writes(task'[b], key) BY <1>5, <3>1, <3>3
    <3> QED BY <2>4, <3>4, <3>5
  <2> QED BY <2>1, <2>2, <2>3, <2>4, <2>5, DoneOrdered
<1>9. ASSUME NEW key \in Keys, key \notin LostKeys(s) PROVE Ordered(key)'
  <2>1. StoreSame(key) /\ PastSame(key) BY <1>1, <1>9 DEF StoreSame, PastSame, Doubts
  <2>2. ASSUME NEW b \in Actors PROVE TaskQuiet(task[b], task'[b], key)
    <3>1. CASE b # s /\ b \notin Lost(s) /\ task'[b] = task[b] BY <3>1 DEF TaskQuiet, Alike
    <3>2. CASE (b = s \/ b \in Lost(s)) /\ \A k : ~Writes(task'[b], k) /\ ~Reads(task'[b], k)
      <4>1. b \in Lost(s) => task[b].server = s BY DEF Lost
      <4>2. ~Writes(task[b], key) BY <1>6, <1>7, <1>9, <3>2, <4>1
      <4> QED BY <3>2, <4>2 DEF TaskQuiet
    <3> QED BY <1>5, <3>1, <3>2
  <2>3. ASSUME NEW q \in Servers PROVE MovesQuiet(q, key)
    <3>1. CASE q # s BY <1>2, <3>1 DEF MovesQuiet
    <3>2. CASE q = s
      <4>1. ASSUME NEW x \in server[s].moving, x.key = key PROVE history.clean[key]
        <5>1. x \in server[s].todo BY MovingFacts
        <5> QED BY <1>9, <4>1, <5>1 DEF LostKeys
      <4> QED BY <1>2, <1>3, <3>2, <4>1 DEF MovesQuiet
    <3> QED BY <3>1, <3>2
  <2>4. BackendQuiet(key)
    <3> SUFFICES ASSUME NEW b \in Actors, Writes(task'[b], key)
                 PROVE  server'[task'[b].server].backend = server[task'[b].server].backend
      BY DEF BackendQuiet
    <3>1. b # s /\ b \notin Lost(s) /\ task'[b] = task[b] BY <1>5
    <3>2. Writes(task[b], key) BY <3>1
    <3>3. task[b].server \in Servers /\ task[b].server # s BY <1>6, <3>1, <3>2, WritesServer
    <3> QED BY <1>2, <3>1, <3>3
  <2> QED BY <2>1, <2>2, <2>3, <2>4, QuietOrdered DEF Quiet, OrderInv
<1>10. ASSUME NEW key \in Keys PROVE Ordered(key)' BY <1>8, <1>9
<1> QED BY <1>10 DEF OrderInv

-----------------------------------------------------------------------------
LEMMA RequestOrder ==
  ASSUME Basics, Basics', OrderInv, NEW h \in Slots, Request(h)
  PROVE  OrderInv'
<1>1. h \in Actors BY DEF Actors
<1>2. ASSUME NEW a \in Actors, NEW t, Begins(a, t) PROVE OrderInv' BY <1>2, BeginsOrder DEF Basics
<1>3. CASE Answered(h) \/ TabAnswered(h)
  <2>1. Ends(h) BY <1>3, AnsweredTyped, TabAnsweredTyped DEF Basics
  <2> QED BY <1>1, <2>1, EndsOrder DEF Basics
<1>4. ASSUME NEW s \in Servers, Put(h, s) \/ Get(h, s) \/ Disconnect(h, s) \/ Callback(h, s) PROVE OrderInv'
  <2>1. \E t : Begins(h, t) BY <1>4, PutTyped, GetTyped, DisconnectTyped, CallbackTyped DEF Basics
  <2> QED BY <1>1, <1>2, <2>1
<1>5. ASSUME NEW s \in Servers, TabSends(h, s) PROVE OrderInv'
  <2>1. (\E t : Lists(h, t)) \/ (\E t : Begins(h, t)) BY <1>5, TabSendsTyped DEF Basics
  <2> QED BY <1>1, <1>2, <2>1, ListsOrder DEF Basics
<1> QED BY <1>3, <1>4, <1>5 DEF Request

LEMMA StepsOrder ==
  ASSUME Basics, Basics', OrderInv, NEW a \in Actors, Steps(a)
  PROVE  OrderInv'
<1>1. CASE Reread(a) BY <1>1, RereadOrder DEF Basics
<1>2. CASE Load(a) BY <1>2, LoadOrder DEF Basics
<1>3. CASE SaveSecrets(a) BY <1>3, SaveSecretsOrder DEF Basics
<1>4. CASE WriteRow(a) BY <1>4, WriteRowOrder DEF Basics
<1>5. CASE Saves(a) BY <1>5, SavesOrder DEF Basics
<1>6. CASE Fails(a) BY <1>6, FailsOrder DEF Basics
<1> QED BY <1>1, <1>2, <1>3, <1>4, <1>5, <1>6 DEF Steps

LEMMA ProcessOrder ==
  ASSUME Basics, Basics', OrderInv, NEW s \in Servers, Process(s)
  PROVE  OrderInv'
<1>1. s \in Actors BY DEF Actors
<1>2. CASE StartUp(s) BY <1>2, StartUpOrder DEF Basics
<1>3. CASE MigrateSelect(s) BY <1>3, MigrateSelectOrder DEF Basics
<1>4. CASE MigrateSave(s) BY <1>4, MigrateSaveOrder DEF Basics
<1>5. CASE MigrateWrite(s) BY <1>5, MigrateWriteOrder DEF Basics
<1>6. CASE Build(s) BY <1>6, BuildOrder DEF Basics
<1>7. CASE Seed(s)
  <2>1. \E p \in Providers : \E t : Begins(s, t) BY <1>7, SeedTyped DEF Basics
  <2> QED BY <1>1, <2>1, BeginsOrder DEF Basics
<1>8. CASE Seeded(s)
  <2>1. Ends(s) BY <1>8, SeededTyped DEF Basics
  <2> QED BY <1>1, <2>1, EndsOrder DEF Basics
<1>9. CASE Crash(s) BY <1>9, CrashOrder DEF Basics
<1> QED BY <1>2, <1>3, <1>4, <1>5, <1>6, <1>7, <1>8, <1>9 DEF Process

LEMMA PageOrder ==
  ASSUME Basics, OrderInv, Page \/ OauthStart \/ Tick
  PROVE  OrderInv'
<1>1. CASE TabConnect BY <1>1, TabConnectOrder DEF Basics
<1>2. CASE Visit \/ Choose \/ Edit \/ Save \/ TabDisconnect \/ OauthStart \/ Tick
  <2>1. Apart
    BY <1>2, VisitTyped, ChooseTyped, EditTyped, SaveTyped, TabDisconnectTyped, OauthStartTyped, TickTyped DEF Basics
  <2> QED BY <2>1, ApartOrder DEF Basics
<1> QED BY <1>1, <1>2 DEF Page

LEMMA StepOrder ==
  ASSUME Basics, Basics', OrderInv, [Next]_vars
  PROVE  OrderInv'
<1>1. ASSUME NEW h \in Slots, Request(h) PROVE OrderInv' BY <1>1, RequestOrder
<1>2. ASSUME NEW a \in Actors, Steps(a) PROVE OrderInv' BY <1>2, StepsOrder
<1>3. ASSUME NEW s \in Servers, Process(s) PROVE OrderInv' BY <1>3, ProcessOrder
<1>4. CASE Page \/ OauthStart \/ Tick BY <1>4, PageOrder
<1>5. CASE UNCHANGED vars
  <2>1. Apart BY <1>5 DEF vars, Apart, SameOrder
  <2> QED BY <2>1, ApartOrder DEF Basics
<1> QED BY <1>1, <1>2, <1>3, <1>4, <1>5 DEF Next, Actors

LEMMA InitOrder ==
  ASSUME Init
  PROVE  OrderInv
<1>1. PICK x \in Scenarios :
  /\ db = [rows |-> [key \in Keys |-> StoredRow(x.rows[key], x.kept)],
           vault |-> [key \in Keys |->
             IF x.rows[key] # None /\ Ref(x.kept, x.rows[key].secrets) = InVault THEN x.rows[key].secrets ELSE None]]
  /\ server = [s \in Servers |-> Fresh]
  /\ task = [a \in Slots \cup Servers |-> Idle]
  /\ history = [writes |-> 0, mixed |-> FALSE, clean |-> [key \in Keys |-> TRUE],
                version |-> [key \in Keys |-> 0],
                expect |-> [key \in Keys |-> {IF x.rows[key] = None THEN NoCredential ELSE x.rows[key]}]]
  BY DEF Init
<1>2. \A key \in Keys :
        /\ x.rows[key] \in {None} \cup Credentials /\ x.rows[key] \in {None} \cup Stored0(key[2])
        /\ db.rows[key] = None <=> x.rows[key] = None
        /\ db.rows[key] # None => /\ db.rows[key].config = x.rows[key].config
                                  /\ db.rows[key].ref = Ref(x.kept, x.rows[key].secrets)
                                  /\ x.rows[key].secrets \in Secrets
        /\ db.vault[key] = IF x.rows[key] # None /\ Ref(x.kept, x.rows[key].secrets) = InVault
                           THEN x.rows[key].secrets ELSE None
  BY <1>1, InitDb
<1>3. \A a \in Actors : task[a].pc = "idle" BY <1>1, IdleTyped DEF Actors
<1>4. \A s \in Servers : server[s].todo = {} /\ server[s].moving = {} BY <1>1 DEF Fresh
<1>5. Basics BY InitBasics
<1> SUFFICES ASSUME NEW key \in Keys PROVE Ordered(key) BY DEF OrderInv
<1>6. history.expect[key] = {IF x.rows[key] = None THEN NoCredential ELSE x.rows[key]} BY <1>1
<1>7. \A a \in Actors : ~Writes(task[a], key) /\ ~Reads(task[a], key) BY <1>3 DEF Writes, Reads
<1>8. Alone(key)
  <2>1. Writers(key) = {} BY <1>4, <1>7, WritersFacts
  <2> QED BY <1>4, <1>6, <2>1 DEF Alone
<1>9. StoredAs(key)
  <2>1. CASE x.rows[key] = None BY <1>2, <1>6, <2>1 DEF StoredAs, Current
  <2>2. CASE x.rows[key] # None
    <3>1. PICK c \in Credentials : c = x.rows[key] BY <1>2, <2>2
    <3>2. PICK b \in Backends, e \in Secrets : b = x.kept /\ e = c.secrets
      BY <1>2, <2>2, <3>1, ScenariosAssumption DEF Scenario
    <3>3. /\ Ref(b, e) = None <=> e = NoSecrets
          /\ Ref(b, e) # None => IF b = "vault" THEN Ref(b, e) = InVault ELSE Ref(b, e) = Encrypted(e)
      BY RefFacts
    <3>4. /\ db.rows[key] # None /\ db.rows[key].config = c.config /\ db.rows[key].ref = Ref(b, e)
          /\ Ref(b, e) = InVault => db.vault[key] = e
      BY <1>2, <2>2, <3>1, <3>2
    <3>5. Current(key).config = c.config /\ Current(key) \in Credentials
      BY <1>5, <3>4, CurrentFacts DEF Basics
    <3>6. Current(key).secrets = e BY <3>3, <3>4 DEF Current, InVault, Encrypted
    <3>7. Current(key) = c BY <3>2, <3>5, <3>6 DEF Credentials
    <3> QED BY <1>6, <2>2, <3>1, <3>7 DEF StoredAs
  <2> QED BY <2>1, <2>2
<1> QED BY <1>4, <1>7, <1>8, <1>9 DEF Ordered, Actors

(* The whole invariant. *)
LEMMA OrderHolds == Spec => [](Basics /\ OrderInv)
<1>1. Init => Basics /\ OrderInv BY InitBasics, InitOrder
<1>2. (Basics /\ OrderInv) /\ [Next]_vars => (Basics /\ OrderInv)' BY StepBasics, StepOrder
<1> QED BY <1>1, <1>2, PTL DEF Spec

(* Requests that do not overlap are one after the other.  The four steps   *)
(* of upsertCredential and the two of getCredential are held together by   *)
(* nothing, and still a save that no other joins makes what it would make  *)
(* at once, a seeding leaves what the user saved, a migration changes      *)
(* nothing, and a read that no write overlaps answers what is stored.      *)
THEOREM SavesAreInOrder == Spec => []InOrder
<1>1. Basics /\ OrderInv => InOrder
  <2> SUFFICES ASSUME Basics, OrderInv PROVE InOrder OBVIOUS
  <2>1. TypeOK
    <3>1. scenario.faults \in Nat /\ scenario.requests \in [Kinds -> Nat] BY DEF Basics, TypeInv, Scenario
    <3>2. ASSUME NEW key \in Keys, db.rows[key] # None
          PROVE  /\ DOMAIN db.rows[key] = {"config", "ref"}
                 /\ db.rows[key].ref # None => db.rows[key].ref.kind \in {"encrypted", "vault"}
      <4>1. PICK row \in RowType : row = db.rows[key] BY <3>2, RowTyped DEF Basics
      <4>2. row.ref # None => row.ref \in RefType BY DEF RowType
      <4> QED BY <4>1, <4>2 DEF RowType, RefType, Backends
    <3>3. ASSUME NEW s \in Servers
          PROVE  /\ server[s].stage \in {"down", "selecting", "migrating", "building", "seeding", "up", "stopped"}
                 /\ server[s].moving \subseteq server[s].todo
      BY DEF Basics, TypeInv, ServerType, Stages, WorkInv, Ready
    <3>4. \A a \in Slots \cup Servers :
            task[a].pc \in {"idle", "read", "load", "save", "write", "audit", "answered", "failed"}
      BY DEF Basics, TypeInv, Actors, TaskType, Pcs
    <3>5. ASSUME NEW key \in Keys PROVE Cardinality(history.expect[key]) <= 1
      <4>1. \A c, d \in history.expect[key] : c = d BY DEF OrderInv, Ordered, Alone
      <4>2. CASE history.expect[key] = {} BY <4>2, FS_EmptySet
      <4>3. CASE history.expect[key] # {}
        <5>1. PICK c : history.expect[key] = {c} BY <4>1, <4>3
        <5>2. Cardinality(history.expect[key]) = 1 BY <5>1, FS_Singleton
        <5> QED BY <5>2
      <4> QED BY <4>2, <4>3
    <3>6. tab.provider \in Providers /\ time \in 0 .. MaxTime BY TimeAssumption DEF Basics, TypeInv, TabType
    <3> QED BY <3>1, <3>2, <3>3, <3>4, <3>5, <3>6 DEF TypeOK
  <2>2. SavesInOrder
    <3> SUFFICES ASSUME NEW key \in Keys, Writers(key) = {}, NEW c \in history.expect[key] PROVE Current(key) = c
      BY DEF SavesInOrder
    <3>1. ~Disturbed(key) BY NoWriters DEF Basics
    <3> QED BY <3>1 DEF OrderInv, Ordered, StoredAs
  <2>3. ReadsInOrder
    <3> SUFFICES ASSUME NEW h \in Slots, task[h].pc = "answered", task[h].op = "get", Writers(task[h].key) = {},
                        task[h].since = history.version[task[h].key], NEW c \in history.expect[task[h].key]
                 PROVE  task[h].credential = c
      BY DEF ReadsInOrder
    <3>1. PICK key \in Keys : key = task[h].key BY DEF Basics, WorkInv, Fits, Actors
    <3>2. ~Disturbed(key) BY <3>1, NoWriters DEF Basics
    <3>3. Reads(task[h], key) BY <3>1 DEF Reads
    <3>4. ReadAs(task[h], key) BY <3>3 DEF OrderInv, Ordered
    <3>5. Finds(task[h], key, c) BY <3>1, <3>4 DEF ReadAs
    <3> QED BY <3>2, <3>5 DEF Finds
  <2> QED BY <2>1, <2>2, <2>3 DEF InOrder
<1> QED BY <1>1, OrderHolds, PTL
=============================================================================
