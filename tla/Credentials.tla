---------------------------- MODULE Credentials ----------------------------
(***************************************************************************)
(* Stored credentials.  Server processes share the rows of the database    *)
(* and Vault; a row has the config and a reference to the secrets, which   *)
(* are inside the reference (encrypted) or in Vault under the subject and  *)
(* the provider.  A save reads the row, reads the secrets, writes the      *)
(* secrets and writes the row, with nothing that holds the four together.  *)
(* Saves come from the API, from Google's OAuth callback, from the         *)
(* environment and the migration of each start-up, and from a browser tab  *)
(* on the credentials page.                                                *)
(*                                                                         *)
(* Postgres and the encryption key are configured; the signature of the    *)
(* OAuth state verifies; messages on the page, the validation of the JSON  *)
(* of its advanced mode and the audit entries are left out.                *)
(***************************************************************************)
EXTENDS Integrations

CONSTANTS
  Servers,        \* server processes
  Slots,          \* requests being answered
  System,         \* the subject whose credentials a process starts with
  User,           \* the account that is seeded, and uses the page
  StateTTL, MaxTime, \* of the OAuth state, and a bound on the clock
  Scenarios       \* what a behaviour is about, see ScenariosAssumption

Subjects == {System, User}
Keys == Subjects \X Providers
Kinds == {"put", "get", "start", "callback", "disconnect", "visit", "choose", "edit", "save"}
Writing == {"put", "callback", "disconnect", "seed"}

Backends == {"encrypted", "vault"}
Credentials == [config : Configs, secrets : Secrets]

(* what there is of a provider at first was written by nobody here *)
First0(p) == {None} \cup [by : {0}, for : {p}, ok : BOOLEAN]
Stored0(p) == [config : [ConfigNames -> First0(p)], secrets : [SecretNames -> First0(p)]]
Scenario == [
  servers : SUBSET Servers,
  backends : SUBSET Backends,       \* a process may start with
  migrates : BOOLEAN,               \* FTN_VAULT_MIGRATE_LEGACY
  seeds : BOOLEAN,                  \* FTN_SEED_USER_CREDENTIALS_FROM_ENV
  env : [EnvNames -> {None} \cup Values],
  rows : [Keys -> {None} \cup Credentials], \* the credentials stored at first
  kept : Backends,                  \* and where
  requests : [Kinds -> Nat],
  providers : SUBSET Providers,     \* that requests and the tab are about
  keys : SUBSET [config : BOOLEAN, secrets : BOOLEAN], \* what a PUT has
  clock : BOOLEAN,
  faults : Nat]                     \* crashes and errors

ASSUME TimeAssumption == StateTTL \in Nat /\ MaxTime \in Nat
ASSUME ActorsAssumption == Slots \cap Servers = {} /\ System # User
ASSUME NoneAssumption ==
  /\ None \notin Values /\ None \notin Configs /\ None \notin Secrets /\ None \notin Credentials
  /\ None \notin Keys /\ None \notin Nat /\ None \notin [kind : Backends, secrets : Secrets]
  /\ None \notin [config : Configs, ref : [kind : Backends, secrets : Secrets] \cup {None}]
ASSUME ScenariosAssumption ==
  /\ Scenarios \subseteq Scenario
  /\ \A x \in Scenarios :
       /\ \A p \in Providers : \A setting \in Settings[p] : x.env[setting] \in First0(p)
       /\ \A key \in Keys : x.rows[key] \in {None} \cup Stored0(key[2])

VARIABLES
  scenario, \* the scenario, its requests and faults counted down
  db,       \* the rows, and Vault
  server,   \* the memory of each process
  task,     \* what each request does, and the seeding of each process
  flow,     \* the consents asked of Google
  tab,      \* the page
  time,     \* the minute of the clock
  history   \* what a store that did one save at a time would have

vars == <<scenario, db, server, task, flow, tab, time, history>>
-----------------------------------------------------------------------------
NoPatch == [config |-> None, secrets |-> None]
Idle ==
  [pc |-> "idle", op |-> None, server |-> None, key |-> None, patch |-> NoPatch, from |-> None,
   checked |-> FALSE, credential |-> NoCredential, items |-> {}, since |-> None]
Fresh == [stage |-> "down", backend |-> "encrypted", todo |-> {}, moving |-> {}, seeds |-> {}]
Closed ==
  [open |-> FALSE, provider |-> "stripe", late |-> FALSE, form |-> NoForm, draft |-> NoCredential, email |-> FALSE,
   items |-> {}, listed |-> None, wants |-> {}, busy |-> FALSE, edited |-> FALSE, failed |-> FALSE, since |-> None]

(* a reference holds the secrets, or says that they are in Vault *)
Encrypted(secrets) == [kind |-> "encrypted", secrets |-> secrets]
InVault == [kind |-> "vault", secrets |-> NoSecrets]
Ref(backend, secrets) ==
  IF secrets = NoSecrets THEN None ELSE IF backend = "vault" THEN InVault ELSE Encrypted(secrets)

NoRows == [key \in Keys |-> None]
StoredRow(credential, kept) ==
  IF credential = None THEN None
  ELSE [config |-> credential.config, ref |-> Ref(kept, credential.secrets)]

(* the rows of the scenario are in the database from then on *)
Init == \E x \in Scenarios :
  /\ scenario = [x EXCEPT !.rows = NoRows]
  /\ db = [rows |-> [key \in Keys |-> StoredRow(x.rows[key], x.kept)],
           vault |-> [key \in Keys |->
             IF x.rows[key] # None /\ Ref(x.kept, x.rows[key].secrets) = InVault THEN x.rows[key].secrets ELSE None]]
  /\ server = [s \in Servers |-> Fresh]
  /\ task = [a \in Slots \cup Servers |-> Idle]
  /\ flow = <<>>
  /\ tab = Closed
  /\ time = 0
  /\ history = [writes |-> 0, mixed |-> FALSE, clean |-> [key \in Keys |-> TRUE],
                version |-> [key \in Keys |-> 0],
                expect |-> [key \in Keys |-> {IF x.rows[key] = None THEN NoCredential ELSE x.rows[key]}]]

Up(s) == server[s].stage = "up"

(* what is stored under a key *)
Current(key) ==
  LET row == db.rows[key] IN
  IF row = None THEN NoCredential
  ELSE [config |-> row.config,
        secrets |-> IF row.ref = None THEN NoSecrets
                    ELSE IF row.ref.kind = "vault" THEN db.vault[key] ELSE row.ref.secrets]

Working(a) == task[a].pc \notin {"idle", "answered", "failed"}

(* who is about to write under a key *)
Writers(key) ==
  {a \in Slots \cup Servers : Working(a) /\ task[a].op \in Writing /\ task[a].key = key} \cup
  {s \in Servers : \E x \in server[s].todo : x.key = key}

(* a write begins; it ends well, with what it makes of the credential, or  *)
(* in an error, and then what is stored is anyone's guess *)
Begun(keys) ==
  [history EXCEPT !.clean = [key \in Keys |-> IF key \in keys THEN Writers(key) = {} ELSE @[key]]]
Ended(key, made) == [history EXCEPT !.expect[key] = IF history.clean[key] THEN made ELSE {}]
Doubted(keys) ==
  [history EXCEPT !.expect = [key \in Keys |-> IF key \in keys THEN {} ELSE @[key]],
                  !.version = [key \in Keys |-> IF key \in keys THEN @[key] + 1 ELSE @[key]]]

Merged(credential, patch) ==
  [config |-> IF patch.config = None THEN credential.config ELSE patch.config,
   secrets |-> IF patch.secrets = None THEN credential.secrets ELSE patch.secrets]
Whole(patch) == patch.config # None /\ patch.secrets # None

-----------------------------------------------------------------------------
(* A request, and the seeding of a process, step by step. *)

(* the secrets are known: what a read answers, what a save does next *)
Continued(t, secrets) ==
  LET found == [t.credential EXCEPT !.secrets = secrets]
      saved == Merged(found, t.patch)
      looks == t.op = "seed" /\ ~t.checked
  IN IF t.op = "get" \/ (looks /\ secrets # NoSecrets) THEN [t EXCEPT !.credential = found, !.pc = "answered"]
     ELSE IF looks THEN [t EXCEPT !.credential = found, !.pc = "read", !.checked = TRUE]
     ELSE [t EXCEPT !.credential = saved,
             !.pc = IF saved.secrets # NoSecrets /\ server[t.server].backend = "vault" THEN "save" ELSE "write"]

(* the row is read; a reference to Vault is kept for the next step, and    *)
(* cannot be read by a process that has no Vault *)
Fetched(t) ==
  LET row == db.rows[t.key]
      found == [t EXCEPT !.credential = IF row = None THEN NoCredential ELSE [@ EXCEPT !.config = row.config]]
  IN IF row = None \/ row.ref = None THEN Continued(found, NoSecrets)
     ELSE IF row.ref.kind = "encrypted" THEN Continued(found, row.ref.secrets)
     ELSE [found EXCEPT !.pc = IF server[t.server].backend = "vault" THEN "load" ELSE "failed"]

New(s, op, key, patch, from) ==
  [pc |-> "read", op |-> op, server |-> s, key |-> key, patch |-> patch, from |-> from, checked |-> FALSE,
   credential |-> NoCredential, items |-> {}, since |-> IF Writers(key) = {} THEN history.version[key] ELSE None]

(* a request arrives and reads the row *)
Starts(h, s, op, key, patch, from) ==
  /\ Up(s) /\ task[h] = Idle
  /\ task' = [task EXCEPT ![h] = Fetched(New(s, op, key, patch, from))]

Counted(kind) ==
  /\ scenario.requests[kind] > 0
  /\ scenario' = [scenario EXCEPT !.requests[kind] = @ - 1]

(* the values a client of the API writes *)
Written(p, n, config, secrets) ==
  LET value(x, place) ==
        IF x \in {y \in Settings[p] : Places[y][1].place = place} THEN Value(n, p, TRUE) ELSE None
  IN [config |-> IF config THEN [x \in ConfigNames |-> value(x, "config")] ELSE None,
      secrets |-> IF secrets THEN [x \in SecretNames |-> value(x, "secrets")] ELSE None]

Put(h, s) ==
  /\ Counted("put")
  /\ \E p \in scenario.providers, k \in scenario.keys :
       /\ k.config \/ k.secrets
       /\ Starts(h, s, "put", <<User, p>>, Written(p, history.writes + 1, k.config, k.secrets), "api")
       /\ history' = [Begun({<<User, p>>}) EXCEPT !.writes = @ + 1]
  /\ UNCHANGED <<db, server, flow, tab, time>>

(* a read of the API, of the state of the integrations, or of an activity *)
Get(h, s) ==
  /\ Counted("get")
  /\ \E p \in scenario.providers : Starts(h, s, "get", <<User, p>>, NoPatch, "api")
  /\ UNCHANGED <<db, server, flow, tab, time, history>>

Sheets(subject) == <<subject, "google_sheets">>
Disconnected ==
  [config |-> [NoConfig EXCEPT !.authType = Value(0, "google_sheets", TRUE)], secrets |-> NoSecrets]

Disconnect(h, s) ==
  /\ Counted("disconnect")
  /\ Starts(h, s, "disconnect", Sheets(User), Disconnected, "api")
  /\ history' = Begun({Sheets(User)})
  /\ UNCHANGED <<db, server, flow, tab, time>>

Reread(a) ==
  /\ task[a].pc = "read"
  /\ task' = [task EXCEPT ![a] = Fetched(task[a])]
  /\ UNCHANGED <<scenario, db, server, flow, tab, time, history>>

Load(a) ==
  /\ task[a].pc = "load"
  /\ LET secrets == db.vault[task[a].key]
     IN task' = [task EXCEPT ![a] = IF secrets = None THEN [@ EXCEPT !.pc = "failed"] ELSE Continued(@, secrets)]
  /\ UNCHANGED <<scenario, db, server, flow, tab, time, history>>

(* all the providers of a subject under one path *)
StoredBySubject(vault, key, secrets) ==
  [k \in Keys |-> IF k[1] = key[1] /\ (k = key \/ vault[k] # None) THEN secrets ELSE vault[k]]
Stored(vault, key, secrets) == [vault EXCEPT ![key] = secrets]

SaveSecrets(a) ==
  /\ task[a].pc = "save"
  /\ db' = [db EXCEPT !.vault = Stored(@, task[a].key, task[a].credential.secrets)]
  /\ task' = [task EXCEPT ![a].pc = "write"]
  /\ UNCHANGED <<scenario, server, flow, tab, time, history>>

Row(t) == [config |-> t.credential.config, ref |-> Ref(server[t.server].backend, t.credential.secrets)]

WriteRow(a) ==
  /\ task[a].pc = "write"
  /\ db' = [db EXCEPT !.rows[task[a].key] = Row(task[a])]
  /\ task' = [task EXCEPT ![a].pc = "audit"]
  /\ UNCHANGED <<scenario, server, flow, tab, time, history>>

(* what one save makes of a credential, were it alone *)
Effect(t, credential) ==
  IF t.op = "seed" /\ credential.secrets # NoSecrets THEN credential ELSE Merged(credential, t.patch)

Made(t) ==
  IF Whole(t.patch) /\ t.op # "seed" THEN {t.patch} ELSE {Effect(t, c) : c \in history.expect[t.key]}

(* the save is over: its audit entry is written, or the next one is seeded *)
Saves(a) ==
  /\ task[a].pc = "audit"
  /\ task' = [task EXCEPT ![a].pc = "answered"]
  /\ history' = [Ended(task[a].key, Made(task[a])) EXCEPT !.version[task[a].key] = @ + 1]
  /\ UNCHANGED <<scenario, db, server, flow, tab, time>>

Answered(h) ==
  /\ task[h].pc \in {"answered", "failed"} /\ task[h].from = "api"
  /\ task' = [task EXCEPT ![h] = Idle]
  /\ UNCHANGED <<scenario, db, server, flow, tab, time, history>>

Fault == scenario.faults > 0 /\ scenario' = [scenario EXCEPT !.faults = @ - 1]

(* Postgres or Vault answers with an error, or too late: Vault may have    *)
(* stored the secrets *)
Fails(a) ==
  /\ Fault
  /\ task[a].pc \in {"load", "save", "write", "audit"}
  /\ task' = [task EXCEPT ![a].pc = "failed"]
  /\ history' = IF task[a].op \in Writing THEN Doubted({task[a].key}) ELSE history
  /\ \/ UNCHANGED db
     \/ task[a].pc = "save" /\ db' = [db EXCEPT !.vault = Stored(@, task[a].key, task[a].credential.secrets)]
  /\ UNCHANGED <<server, flow, tab, time>>

-----------------------------------------------------------------------------
(* Google: the state that goes to the consent page and comes back carries  *)
(* the subject and an expiry; a code is exchanged once. *)
Signed(subject) == [subject |-> subject, exp |-> time + StateTTL, token |-> 0, at |-> 0]

OauthStart ==
  /\ Counted("start")
  /\ \E s \in Servers : Up(s)
  /\ \E subject \in Subjects : flow' = Append(flow, Signed(subject))
  /\ UNCHANGED <<db, server, task, tab, time, history>>

Expired(f) == time > flow[f].exp

Consented(n) ==
  [config |-> [NoConfig EXCEPT !.authType = Value(n, "google_sheets", TRUE),
                               !.connectedEmail = Value(n, "google_sheets", TRUE)],
   secrets |-> [NoSecrets EXCEPT !.refreshToken = Value(n, "google_sheets", TRUE)]]

(* the callback is a public route: its request has no subject of its own *)
OwnerOfRequest(f) == System
(* whose credential the tokens are saved in *)
Owner(f) == flow[f].subject

Exchanged(h, s, f) ==
  LET n == history.writes + 1
      key == Sheets(Owner(f))
  IN /\ Starts(h, s, "callback", key, Consented(n), "api")
     /\ flow' = [flow EXCEPT ![f].token = n, ![f].at = time]
     /\ history' = [Begun({key}) EXCEPT !.writes = n]

(* with an expired state, or a code already exchanged, nothing happens *)
Callback(h, s) ==
  /\ Counted("callback")
  /\ \E f \in DOMAIN flow : flow[f].token = 0 /\ ~Expired(f) /\ Exchanged(h, s, f)
  /\ UNCHANGED <<db, server, tab, time>>

Tick ==
  /\ scenario.clock /\ time < MaxTime
  /\ time' = time + 1
  /\ UNCHANGED <<scenario, db, server, task, flow, tab, history>>

-----------------------------------------------------------------------------
(* Start-up: legacy secrets are moved to Vault, the integrations of the    *)
(* system are built, the user is given the credentials of the environment. *)
StartUp(s) ==
  /\ s \in scenario.servers /\ server[s].stage = "down"
  /\ \E b \in scenario.backends :
       server' = [server EXCEPT ![s] = [Fresh EXCEPT !.backend = b,
                    !.stage = IF b = "vault" /\ scenario.migrates THEN "selecting" ELSE "building"]]
  /\ UNCHANGED <<scenario, db, task, flow, tab, time, history>>

(* the first row already in Vault ends the migration *)
LegacyBeforeManaged ==
  {[key |-> key, secrets |-> db.rows[key].ref.secrets] :
     key \in {k \in Keys : /\ db.rows[k] # None /\ db.rows[k].ref # None /\ db.rows[k].ref.kind = "encrypted"
                          /\ \A j \in Keys : db.rows[j] # None => db.rows[j].ref # InVault}}
(* the rows whose secrets are not in Vault *)
Legacy ==
  {[key |-> key, secrets |-> db.rows[key].ref.secrets] :
     key \in {k \in Keys : db.rows[k] # None /\ db.rows[k].ref # None /\ db.rows[k].ref.kind = "encrypted"}}

MigrateSelect(s) ==
  /\ server[s].stage = "selecting"
  /\ server' = [server EXCEPT ![s].stage = "migrating", ![s].todo = Legacy]
  /\ history' = Begun({x.key : x \in Legacy})
  /\ UNCHANGED <<scenario, db, task, flow, tab, time>>

MigrateSave(s) ==
  /\ server[s].stage = "migrating" /\ server[s].moving = {}
  /\ \E x \in server[s].todo :
       /\ db' = [db EXCEPT !.vault = Stored(@, x.key, x.secrets)]
       /\ server' = [server EXCEPT ![s].moving = {x}]
  /\ UNCHANGED <<scenario, task, flow, tab, time, history>>

MigrateWrite(s) ==
  /\ \E x \in server[s].moving :
       /\ db' = [db EXCEPT !.rows[x.key].ref = InVault]
       /\ server' = [server EXCEPT ![s].moving = {}, ![s].todo = @ \ {x}]
       /\ history' = Ended(x.key, history.expect[x.key])
  /\ UNCHANGED <<scenario, task, flow, tab, time>>

SeedOrder == [stripe |-> 1, notifications |-> 2, twilio |-> 3, kyc |-> 4, google_sheets |-> 5]
FirstOf(seeds) == CHOOSE p \in seeds : \A q \in seeds : SeedOrder[p] <= SeedOrder[q]

(* a secret of the system that cannot be read, or a malformed service      *)
(* account, and the process does not start *)
Build(s) ==
  LET readable(key) == \/ db.rows[key] = None \/ db.rows[key].ref = None
                       \/ db.rows[key].ref.kind = "encrypted" \/ server[s].backend = "vault"
      sheets == SheetsAuth(Current(Sheets(System)), scenario.env)
      seeds == {p \in Providers : scenario.seeds /\ Seeds(p, scenario.env)}
  IN
  /\ server[s].stage = "building" \/ (server[s].stage = "migrating" /\ server[s].todo = {})
  /\ server' = [server EXCEPT ![s] =
       IF (\A p \in Providers : readable(<<System, p>>)) /\ (sheets = None \/ sheets.ok)
       THEN [@ EXCEPT !.seeds = seeds, !.stage = IF seeds = {} THEN "up" ELSE "seeding"]
       ELSE [@ EXCEPT !.stage = "stopped"]]
  /\ UNCHANGED <<scenario, db, task, flow, tab, time, history>>

Seed(s) ==
  LET p == FirstOf(server[s].seeds) IN
  /\ server[s].stage = "seeding" /\ task[s] = Idle
  /\ task' = [task EXCEPT ![s] = Fetched(New(s, "seed", <<User, p>>, SeedPatch(p, scenario.env), "start-up"))]
  /\ history' = Begun({<<User, p>>})
  /\ UNCHANGED <<scenario, db, server, flow, tab, time>>

(* an error ends the seeding, not the process *)
Seeded(s) ==
  /\ task[s].pc \in {"answered", "failed"}
  /\ LET left == IF task[s].pc = "failed" THEN {} ELSE server[s].seeds \ {task[s].key[2]}
     IN server' = [server EXCEPT ![s].seeds = left, ![s].stage = IF left = {} THEN "up" ELSE @]
  /\ task' = [task EXCEPT ![s] = Idle]
  /\ UNCHANGED <<scenario, db, flow, tab, time, history>>

Crash(s) ==
  LET lost == {a \in Slots \cup Servers : Working(a) /\ task[a].server = s}
      keys == {task[a].key : a \in {b \in lost : task[b].op \in Writing}}
      moved == {x.key : x \in server[s].todo}
  IN
  /\ Fault
  /\ server[s].stage \notin {"down", "stopped"}
  /\ server' = [server EXCEPT ![s] = Fresh]
  /\ task' = [a \in Slots \cup Servers |->
       IF a = s THEN Idle ELSE IF a \in lost THEN [task[a] EXCEPT !.pc = "failed"] ELSE task[a]]
  /\ history' = Doubted(keys \cup {k \in moved : ~history.clean[k]})
  /\ UNCHANGED <<db, flow, tab, time>>

-----------------------------------------------------------------------------
(* The page.  It loads the credential of the provider it shows and the     *)
(* list of all; what it asks for leaves in any order. *)
Wants(op, p, patch) == [op |-> op, provider |-> p, patch |-> patch]
Asked(op) == {h \in Slots : task[h] # Idle /\ task[h].from = "tab" /\ task[h].op = op}
Loading == Asked("get") # {} \/ \E w \in tab.wants : w.op = "get"
Settled == tab.open /\ tab.wants = {} /\ \A h \in Slots : task[h] = Idle \/ task[h].from # "tab"

(* /credentials, or the redirect of the callback with its provider: the    *)
(* first provider is loaded all the same *)
Visit ==
  /\ Counted("visit") /\ ~tab.open
  /\ \E p \in scenario.providers :
       tab' = [Closed EXCEPT !.open = TRUE, !.provider = p,
                 !.wants = {Wants("list", "stripe", NoPatch), Wants("get", "stripe", NoPatch), Wants("get", p, NoPatch)}]
  /\ UNCHANGED <<db, server, task, flow, time, history>>

Chosen(p) == [tab EXCEPT !.provider = p, !.wants = @ \cup {Wants("get", p, NoPatch)}]

Choose ==
  /\ Counted("choose") /\ tab.open
  /\ \E p \in scenario.providers \ {tab.provider} : tab' = Chosen(p)
  /\ UNCHANGED <<db, server, task, flow, time, history>>

Edit ==
  /\ Counted("edit") /\ tab.open
  /\ \E f \in Fields[tab.provider] :
       tab' = [tab EXCEPT !.edited = TRUE,
         !.form[f.at.key] = Value(history.writes + 1, tab.provider, TRUE)]
  /\ history' = [history EXCEPT !.writes = @ + 1]
  /\ UNCHANGED <<db, server, task, flow, time>>

(* the form, or the two documents of the advanced mode; the form leaves    *)
(* out what it does not show, and either replaces the credential *)
Save ==
  /\ Counted("save") /\ tab.open /\ ~tab.busy
  /\ \E advanced \in BOOLEAN :
       /\ ~advanced => ~OauthConnect(tab.provider) /\ ~HasErrors(tab.provider, tab.form)
       /\ tab' = [tab EXCEPT !.busy = TRUE, !.since = None,
            !.wants = @ \cup {Wants("put", tab.provider,
                                    IF advanced THEN tab.draft ELSE Saved(tab.provider, tab.form))}]
  /\ history' = [history EXCEPT !.mixed = @ \/ Loading \/ tab.late]
  /\ UNCHANGED <<db, server, task, flow, time>>

Connected == tab.provider \in tab.items \/ tab.email

TabDisconnect ==
  /\ Counted("disconnect") /\ tab.open /\ ~tab.busy
  /\ OauthConnect(tab.provider) /\ Connected
  /\ tab' = [tab EXCEPT !.busy = TRUE, !.since = None, !.wants = @ \cup {Wants("disconnect", tab.provider, Disconnected)}]
  /\ UNCHANGED <<db, server, task, flow, time, history>>

(* the page leaves for Google, and comes back to be loaded again *)
TabConnect ==
  /\ Counted("start") /\ tab.open /\ OauthConnect(tab.provider)
  /\ \E s \in Servers : Up(s)
  /\ flow' = Append(flow, Signed(User))
  /\ tab' = Closed
  /\ task' = [a \in Slots \cup Servers |->
       IF task[a] # Idle /\ task[a].from = "tab" THEN [task[a] EXCEPT !.from = "api"] ELSE task[a]]
  /\ UNCHANGED <<db, server, time, history>>

List(s) == [New(s, "list", Sheets(User), NoPatch, "tab") EXCEPT !.pc = "answered",
              !.items = {p \in Providers : db.rows[<<User, p>>] # None /\ db.rows[<<User, p>>].ref # None}]

TabSends(h, s) ==
  \E w \in tab.wants :
    /\ Up(s) /\ task[h] = Idle
    /\ tab' = [tab EXCEPT !.wants = @ \ {w}]
    /\ IF w.op = "list"
       THEN task' = [task EXCEPT ![h] = List(s)] /\ UNCHANGED history
       ELSE /\ Starts(h, s, w.op, <<User, w.provider>>, w.patch, "tab")
            /\ history' = IF w.op = "get" THEN history ELSE Begun({<<User, w.provider>>})
    /\ UNCHANGED <<scenario, db, server, flow, time>>

(* what the answer has is added to what the form has *)
FilledOver(t) ==
  LET p == t.key[2]
      found == IF t.pc = "answered" THEN t.credential ELSE NoCredential
  IN [tab EXCEPT !.late = p # tab.provider, !.form = [k \in FieldKeys |-> IF Shows(p, k) THEN FormOf(p, found)[k] ELSE @[k]], !.draft = found, !.edited = FALSE,
        !.email = found.config.connectedEmail # None, !.failed = t.pc = "failed", !.since = t.since]
(* the answer fills the form of the provider that was asked for, whatever  *)
(* is shown by now; an error empties it *)
Filled(t) ==
  LET p == t.key[2]
      found == IF t.pc = "answered" THEN t.credential ELSE NoCredential
  IN [tab EXCEPT !.late = p # tab.provider, !.form = FormOf(p, found), !.draft = found, !.edited = FALSE,
        !.email = found.config.connectedEmail # None, !.failed = t.pc = "failed", !.since = t.since]

(* the list is asked for again after a save or a disconnection, and the    *)
(* page knows the version a disconnection made, were it alone *)
TabAnswered(h) ==
  LET t == task[h]
      list == Wants("list", "stripe", NoPatch)
  IN
  /\ t.pc \in {"answered", "failed"} /\ t.from = "tab"
  /\ task' = [task EXCEPT ![h] = Idle]
  /\ tab' = IF t.op = "get" THEN Filled(t)
            ELSE IF t.pc = "failed" THEN [tab EXCEPT !.failed = TRUE, !.busy = FALSE]
            ELSE IF t.op = "list" THEN [tab EXCEPT !.items = t.items, !.listed = t.since, !.busy = FALSE]
            ELSE IF t.op = "put" THEN [tab EXCEPT !.wants = @ \cup {list}]
            ELSE [tab EXCEPT !.email = FALSE, !.wants = @ \cup {list},
                    !.since = IF ~OauthConnect(tab.provider) THEN @ ELSE IF t.since = None THEN None ELSE t.since + 1]
  /\ UNCHANGED <<scenario, db, server, flow, time, history>>

-----------------------------------------------------------------------------
Request(h) ==
  \/ Answered(h) \/ TabAnswered(h)
  \/ \E s \in Servers : Put(h, s) \/ Get(h, s) \/ Disconnect(h, s) \/ Callback(h, s) \/ TabSends(h, s)
Steps(a) == Reread(a) \/ Load(a) \/ SaveSecrets(a) \/ WriteRow(a) \/ Saves(a) \/ Fails(a)
Process(s) ==
  \/ StartUp(s) \/ MigrateSelect(s) \/ MigrateSave(s) \/ MigrateWrite(s) \/ Build(s)
  \/ Seed(s) \/ Seeded(s) \/ Crash(s)
Page == Visit \/ Choose \/ Edit \/ Save \/ TabDisconnect \/ TabConnect

Next ==
  \/ \E h \in Slots : Request(h)
  \/ \E a \in Slots \cup Servers : Steps(a)
  \/ \E s \in Servers : Process(s)
  \/ Page \/ OauthStart \/ Tick

Spec == Init /\ [][Next]_vars
-----------------------------------------------------------------------------
(* The variables have the shape the code gives them: a reference is inside *)
(* the row or in Vault, a request is at one of its steps. *)
TypeOK ==
  /\ scenario.faults \in Nat /\ scenario.requests \in [Kinds -> Nat]
  /\ \A key \in Keys : db.rows[key] # None =>
       /\ DOMAIN db.rows[key] = {"config", "ref"}
       /\ db.rows[key].ref # None => db.rows[key].ref.kind \in {"encrypted", "vault"}
  /\ \A s \in Servers :
       /\ server[s].stage \in {"down", "selecting", "migrating", "building", "seeding", "up", "stopped"}
       /\ server[s].moving \subseteq server[s].todo
  /\ \A a \in Slots \cup Servers :
       task[a].pc \in {"idle", "read", "load", "save", "write", "audit", "answered", "failed"}
  /\ \A key \in Keys : Cardinality(history.expect[key]) <= 1
  /\ tab.provider \in Providers /\ time \in 0 .. MaxTime

(* Saves that do not overlap are one after the other: while nobody writes  *)
(* under a key, it has what the saves made of it, each whole, in order;    *)
(* seeding leaves what the user saved, migration leaves everything, and a  *)
(* save under another key is not seen (app/credentials.ts upsertCredential *)
(* and migrateLegacyCredentialSecretsToVault, seed-user-credentials).      *)
SavesInOrder ==
  \A key \in Keys : Writers(key) = {} => \A c \in history.expect[key] : Current(key) = c

(* A read that no write overlaps answers what the saves before it made,    *)
(* although it takes config and secrets at two moments (getCredential).    *)
ReadsInOrder ==
  \A h \in Slots :
    (/\ task[h].pc = "answered" /\ task[h].op = "get" /\ Writers(task[h].key) = {}
     /\ task[h].since = history.version[task[h].key])
    => \A c \in history.expect[task[h].key] : task[h].credential = c

(* A row never refers to secrets that are not in Vault, whatever crashes   *)
(* and errors cut a save or the migration short. *)
ReferencesHold == \A key \in Keys : db.rows[key] # None /\ db.rows[key].ref = InVault => db.vault[key] # None

(* Where every process uses Vault and migrates, one that serves leaves no  *)
(* secrets in the database (migrateLegacyCredentialSecretsToVault). *)
NoSecretsLeft ==
  scenario.backends = {"vault"} /\ scenario.migrates /\ (\E s \in Servers : server[s].stage \in {"seeding", "up"})
  => \A key \in Keys : db.rows[key] # None /\ db.rows[key].ref # None => db.rows[key].ref = InVault

(* The tokens of a consent are stored for the subject who asked for it,    *)
(* and only if it came back in time (google-sheets/oauth.ts, the state is  *)
(* all that links the callback to a user). *)
ConsentsKept ==
  \A f \in DOMAIN flow : flow[f].token # 0 =>
    /\ flow[f].at <= flow[f].exp
    /\ \A key \in Keys, k \in SecretNames :
         LET v == Current(key).secrets[k] IN v # None /\ v.by = flow[f].token => key[1] = flow[f].subject

(* An integration is shown as configured when its activities have what     *)
(* they need, provided no value is malformed, the account of Twilio is not *)
(* half of one and half of the other, a sender number is there, and the    *)
(* service account has one of the names the state looks at                 *)
(* (integrations-status.ts and bootstrap/integrations.ts read the same     *)
(* places, each in its own code). *)
StatusHonest ==
  \A key \in Keys :
    LET p == key[2]
        c == Current(key)
    IN WellFormed(p, c, scenario.env) =>
         \/ Configured(p, c, scenario.env) <=> Works(p, c, scenario.env)
         \/ p = "twilio" /\ (Setting(c, scenario.env, "fromNumber") = None \/ MixedAccount(c, scenario.env))
         \/ p = "google_sheets" /\ At(c, Sec("googleServiceAccountJson")) # None

(* Saving the form as it was loaded changes no setting, where the form     *)
(* shows all the credential has and finds no error; what it does not show, *)
(* SMTP for one, it deletes (CredentialsPage.tsx, handleSave). *)
FormKeepsSettings ==
  \A key \in Keys :
    LET p == key[2]
        c == Current(key)
    IN ~OauthConnect(p) /\ ~HasErrors(p, FormOf(p, c)) /\ ShownWhole(p, c) =>
         \A setting \in Settings[p] : Own(Saved(p, FormOf(p, c)), setting) = Own(c, setting)

(* A page with nothing under way shows the credential of its provider, and *)
(* offers to disconnect what is connected, unless an answer came after the *)
(* one of the provider shown, an answer was an error, the user typed, or   *)
(* somebody else saved (CredentialsPage.tsx, its two effects). *)
PageShowsStored ==
  LET key == <<User, tab.provider>> IN
  (/\ Settled /\ ~tab.failed /\ ~tab.edited /\ ~tab.late
   /\ Writers(key) = {} /\ tab.since = history.version[key])
  => \A c \in history.expect[key] :
       /\ tab.form = FormOf(tab.provider, c)
       /\ OauthConnect(tab.provider) /\ tab.listed = tab.since =>
            (Connected <=> c.secrets # NoSecrets \/ c.config.connectedEmail # None)

(* The page saves the values of one provider under another only when it is *)
(* saved while a credential loads, or after a late answer: the advanced    *)
(* mode sends the document it has, whoever it is of. *)
MixedOnlyIfLate ==
  history.mixed \/ \A key \in Keys : LET c == Current(key) IN
    /\ \A k \in ConfigNames : c.config[k] = None \/ c.config[k].for = key[2]
    /\ \A k \in SecretNames : c.secrets[k] = None \/ c.secrets[k].for = key[2]

(* Requests that do not overlap are one after the other, for those who     *)
(* write and for those who read. *)
InOrder == TypeOK /\ SavesInOrder /\ ReadsInOrder

(* Secrets are where their row says, and nowhere else.                     *)
SecretsInPlace == ReferencesHold /\ NoSecretsLeft

(* The page shows what is stored, and saving what it shows changes nothing *)
(* and mixes nothing. *)
PageHonest == PageShowsStored /\ FormKeepsSettings /\ MixedOnlyIfLate
=============================================================================
