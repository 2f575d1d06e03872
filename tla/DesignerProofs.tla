--------------------------- MODULE DesignerProofs ---------------------------
(***************************************************************************)
(* What is proved of Designer for every value of its constants.  Init      *)
(* implies an inductive invariant and every action keeps it.  The          *)
(* invariant says, besides the types,                                      *)
(*                                                                         *)
(*   - who holds the lock of the migrations and what is left to apply;     *)
(*   - that what is stored, registered, kept for a run or about to be      *)
(*     written was saved;                                                  *)
(*   - which requests and ticks may be under way at a process, and what    *)
(*     holds between their steps;                                          *)
(*   - which run of the day a row remembers while its schedule stays the   *)
(*     same.                                                               *)
(***************************************************************************)
EXTENDS Designer, FiniteSetTheorems, TLAPS

-----------------------------------------------------------------------------
(* The types. *)
Stages == {"down", "migrating", "loading", "serving"}
TemplateKinds == {"system", "edited"}
Asked == {"list", "edit", "restore", "use"}
Pcs == {"idle", "lookup", "write", "fetch", "start", "count", "seed", "store", "take"}
Places == 1 .. Len(Templates)
TemplateRows == [Places -> TemplateKinds \cup {None}]
RowTable == [Ids -> Rows \cup {None}]
Memory == [Ids -> Payload \cup {None}]
Catalog == [Ids -> [Versions -> Graphs \cup {None}]]
Definitions == [1 .. MaxRuns -> Graphs \cup {None}]

DbType == [lock : Servers \cup {None}, schema : SUBSET MigrationVersions,
           rows : RowTable, templates : TemplateRows]
ServerType == [stage : Stages, left : SUBSET MigrationVersions, memory : Memory,
               catalog : Catalog, definitions : Definitions, templates : TemplateRows]
SlotType == [pc : Pcs, at : Servers \cup {None}, kind : Asked \cup {None},
             id : Ids \cup {None}, payload : Payload \cup {None}, instant : BOOLEAN,
             creates : BOOLEAN, late : BOOLEAN, template : Nat, todo : Nat]
TickType == [pc : {"idle", "listed", "due", "record", "fail"}, rows : RowTable, now : Nat,
             knows : SUBSET (Ids \X Nat), began : Nat, at : Ids \cup {None}]
RunType == [id : Ids, version : Versions, executed : SUBSET Graphs,
            status : {"running", "given up"}, by : {"request", "schedule"}, again : BOOLEAN]
HistoryType == [saved : SUBSET (Ids \X Payload), created : SUBSET Ids, late : BOOLEAN,
                recorded : SUBSET (Ids \X Nat), conflicts : Nat, partial : BOOLEAN,
                unsaved : SUBSET Ids]

TypeInv ==
  /\ scenario \in Scenario
  /\ db \in DbType
  /\ server \in [Servers -> ServerType]
  /\ slot \in [Slots -> SlotType]
  /\ tick \in [Servers -> [Overlaps -> TickType]]
  /\ runs \in Seq(RunType) /\ Len(runs) <= MaxRuns
  /\ time \in Nat
  /\ history \in HistoryType

-----------------------------------------------------------------------------
(* Start-up.  Only the holder of the lock changes the schema, so what it   *)
(* has left is what the schema lacks. *)
StartupInv ==
  /\ history.conflicts = 0
  /\ \A s \in Servers :
       /\ server[s].stage = "migrating" <=> db.lock = s
       /\ server[s].stage = "migrating" => server[s].left = MigrationVersions \ db.schema
       /\ server[s].stage \in {"loading", "serving"} => db.schema = MigrationVersions
       /\ server[s].stage # "down" => s \in scenario.servers

-----------------------------------------------------------------------------
(* Requests and ticks under way are at processes that serve, and know      *)
(* whom they are about. *)
Sensible(q) ==
  /\ q.pc # "idle" => q.at \in scenario.servers /\ Serving(q.at)
  /\ q.pc \in {"lookup", "write"} => q.id \in Ids /\ q.payload \in Payload
  /\ q.pc \in {"fetch", "start"} => q.id \in Ids
  /\ q.pc \in {"count", "seed", "store", "take"} => q.template \in Places /\ q.kind \in Asked
  /\ q.pc = "seed" => q.todo \in Places
ShapeInv == \A h \in Slots : Sensible(slot[h])

-----------------------------------------------------------------------------
(* Everything that is stored or can be executed was saved. *)
Saves(i) == {e \in history.saved : e[1] = i}
WasSaved(i, v, g) == \E e \in history.saved : e[1] = i /\ e[2].version = v /\ e[2].graph = g

SavedInv ==
  /\ \A i \in Ids : db.rows[i] # None => <<i, db.rows[i].payload>> \in history.saved
  /\ \A h \in Slots : slot[h].pc = "write" => <<slot[h].id, slot[h].payload>> \in history.saved
  /\ \A s \in Servers, i \in Ids, v \in Versions :
       server[s].catalog[i][v] # None => WasSaved(i, v, server[s].catalog[i][v])
  /\ \A s \in Servers, r \in 1 .. MaxRuns :
       server[s].definitions[r] # None =>
         r \in DOMAIN runs /\ WasSaved(runs[r].id, runs[r].version, server[s].definitions[r])
  /\ \A r \in DOMAIN runs :
       /\ Saves(runs[r].id) # {}
       /\ \A g \in runs[r].executed : WasSaved(runs[r].id, runs[r].version, g)

(* A process that is alone knows every workflow that has a row or is about *)
(* to have one, and a workflow that was saved has, unless a write failed. *)
Writes(h, i) == slot[h].pc = "write" /\ slot[h].id = i
Kept(i) == db.rows[i] # None \/ \E h \in Slots : Writes(h, i)
AloneInv ==
  /\ GivenUpOnlyIfReplaced
  /\ \A s \in Servers : scenario.servers = {s} =>
       \A i \in Ids :
         /\ Saves(i) # {} /\ i \notin history.unsaved => Kept(i)
         /\ Serving(s) /\ Kept(i) => Known(s, i) # {}

-----------------------------------------------------------------------------
(* A workflow whose creation was answered has a row, and a later creation  *)
(* never gets as far as its write. *)
CreateInv ==
  /\ \A i \in history.created : db.rows[i] # None
  /\ \A h \in Slots :
       /\ slot[h].pc = "lookup" /\ slot[h].late => slot[h].id \in history.created
       /\ slot[h].pc = "write" /\ slot[h].creates => ~slot[h].late
  /\ ~history.late

-----------------------------------------------------------------------------
(* The templates behind a seeding are there, an edit is stored only when   *)
(* there are templates, and a user has some of them only while somebody    *)
(* seeds. *)
Complete == \A t \in Places : db.templates[t] # None
TemplatesInv ==
  /\ \A h \in Slots :
       /\ slot[h].pc = "seed" => \A t \in Places : t < slot[h].todo => db.templates[t] # None
       /\ slot[h].pc = "store" => ~Unseeded \/ history.partial
       /\ slot[h].pc = "take" => server[slot[h].at].templates[slot[h].template] # None
  /\ ~history.partial => Unseeded \/ Complete \/ \E h \in Slots : slot[h].pc = "seed"

-----------------------------------------------------------------------------
(* The clock of a tick lies between its beginning and now, and its rows    *)
(* are rows as they were when it began. *)
ClockInv ==
  /\ \A i \in Ids : db.rows[i] # None /\ db.rows[i].lastRun # None => db.rows[i].lastRun <= time
  /\ \A s \in Servers, n \in Overlaps :
       LET t == tick[s][n] IN t.pc # "idle" =>
         /\ Serving(s)
         /\ t.began <= t.now /\ t.now <= time /\ time < t.began + DayLength
         /\ t.knows \subseteq history.recorded
         /\ \A i \in Ids : t.rows[i] # None =>
              /\ db.rows[i] # None /\ <<i, t.rows[i].payload>> \in history.saved
              /\ t.rows[i].lastRun # None => t.rows[i].lastRun <= t.began
         /\ t.pc \in {"record", "fail"} => t.at \in Ids /\ db.rows[t.at] # None

(* While the schedule of a workflow stays the same, its runs are recorded  *)
(* at one minute of the day; a row then remembers the latest day that was  *)
(* recorded, for a tick that would overwrite it with an earlier one would  *)
(* have lasted a day. *)
Fixed(i) == \A e, f \in Saves(i) : e[2].schedule = f[2].schedule
AtMinute(i, now) == \A e \in Saves(i) : e[2].schedule.minute = now % DayLength
Remembers(row, d) == row.lastRun # None /\ d <= Day(row.lastRun)
DayInv ==
  /\ \A e \in history.recorded : db.rows[e[1]] # None
  /\ \A i \in Ids : Fixed(i) =>
       /\ \A d \in Nat : <<i, d>> \in history.recorded =>
            /\ Remembers(db.rows[i], d)
            /\ \E w \in 0 .. time : Day(w) = d /\ AtMinute(i, w)
       /\ \A s \in Servers, n \in Overlaps :
            LET t == tick[s][n] IN t.pc # "idle" =>
              /\ t.rows[i] # None => \A d \in Nat : <<i, d>> \in t.knows => Remembers(t.rows[i], d)
              /\ t.pc = "record" /\ t.at = i => AtMinute(i, t.now)
       /\ \A r \in DOMAIN runs : runs[r].id = i => ~runs[r].again

Inv == TypeInv /\ StartupInv /\ ShapeInv /\ SavedInv /\ AloneInv /\ CreateInv /\ TemplatesInv
         /\ ClockInv /\ DayInv

-----------------------------------------------------------------------------
(* One process, changed. *)
SameServer(q, r) ==
  /\ r.stage = q.stage /\ r.left = q.left /\ r.memory = q.memory /\ r.catalog = q.catalog
  /\ r.definitions = q.definitions /\ r.templates = q.templates

LEMMA FreshType == Fresh \in ServerType
<1>1. Nowhere \in Memory BY DEF Nowhere, Memory
<1>2. NoCatalog \in Catalog BY DEF NoCatalog, Catalog
<1>3. NoTemplates \in TemplateRows BY DEF NoTemplates, TemplateRows, Places
<1>4. [r \in 1 .. MaxRuns |-> None] \in Definitions BY DEF Definitions
<1> QED BY <1>1, <1>2, <1>3, <1>4 DEF Fresh, ServerType, Stages

LEMMA RegisteredType ==
  ASSUME NEW c \in Catalog, NEW i \in Ids, NEW p \in Payload
  PROVE  /\ Registered(c, i, p) \in Catalog
         /\ \A j \in Ids, v \in Versions :
              Registered(c, i, p)[j][v] = IF j = i /\ v = p.version THEN p.graph ELSE c[j][v]
<1>1. p.version \in Versions /\ p.graph \in Graphs BY DEF Payload
<1> QED BY <1>1 DEF Registered, Catalog

LEMMA EntersServer ==
  ASSUME TypeInv, NEW s \in Servers, NEW i \in Ids, NEW p \in Payload, Enters(s, i, p)
  PROVE  /\ server' \in [Servers -> ServerType]
         /\ \A z \in Servers : z # s => server'[z] = server[z]
         /\ server'[s].stage = server[s].stage /\ server'[s].left = server[s].left
         /\ server'[s].catalog = Registered(server[s].catalog, i, p)
         /\ server'[s].definitions = server[s].definitions
         /\ server'[s].templates = server[s].templates
<1> DEFINE m == [server[s].memory EXCEPT ![i] = p]
           c == Registered(server[s].catalog, i, p)
           r == [server[s] EXCEPT !.memory = m, !.catalog = c]
<1>1. server \in [Servers -> ServerType] /\ server[s] \in ServerType BY DEF TypeInv
<1>2. m \in Memory /\ c \in Catalog BY <1>1, RegisteredType DEF ServerType, Memory
<1>3. server' = [server EXCEPT ![s] = r] BY DEF Enters
<1> HIDE DEF m, c
<1>4. r \in ServerType BY <1>1, <1>2 DEF ServerType
<1>5. r.stage = server[s].stage /\ r.left = server[s].left /\ r.catalog = c
      /\ r.definitions = server[s].definitions /\ r.templates = server[s].templates
  BY <1>1 DEF ServerType
<1> HIDE DEF r
<1> QED BY <1>1, <1>3, <1>4, <1>5 DEF c

-----------------------------------------------------------------------------
(* What no step does but those that start a process or end it. *)
Steady ==
  /\ scenario'.servers = scenario.servers
  /\ history'.conflicts = history.conflicts
  /\ db'.lock = db.lock /\ db'.schema = db.schema
  /\ \A s \in Servers : server'[s].stage = server[s].stage /\ server'[s].left = server[s].left

LEMMA SteadyServing ==
  ASSUME Steady, NEW s \in Servers
  PROVE  Serving(s)' <=> Serving(s)
  BY DEF Steady, Serving

LEMMA ScenarioFacts ==
  ASSUME TypeInv
  PROVE  scenario.servers \subseteq Servers /\ scenario.payloads \subseteq Payload
  BY DEF TypeInv, Scenario

LEMMA FaultEffect ==
  ASSUME TypeInv, Fault
  PROVE  scenario' \in Scenario /\ scenario'.servers = scenario.servers
<1>1. scenario \in Scenario BY DEF TypeInv
<1>2. scenario.faults - 1 \in Nat BY <1>1 DEF Scenario, Fault
<1>3. scenario' = [scenario EXCEPT !.faults = scenario.faults - 1] BY DEF Fault
<1> QED BY <1>1, <1>2, <1>3 DEF Scenario

LEMMA AsksEffect ==
  ASSUME TypeInv, NEW h \in Slots, NEW s \in Servers, NEW kind \in Kinds, NEW request,
         request \in SlotType, Asks(h, s, kind, request)
  PROVE  /\ scenario' \in Scenario /\ scenario'.servers = scenario.servers
         /\ slot' \in [Slots -> SlotType]
         /\ slot[h].pc = "idle" /\ Serving(s)
         /\ slot' = [slot EXCEPT ![h] = [request EXCEPT !.at = s]]
<1>1. scenario \in Scenario /\ slot \in [Slots -> SlotType] BY DEF TypeInv
<1>2. PICK n : n = scenario.requests[kind] OBVIOUS
<1>3. n \in Nat /\ n > 0 BY <1>1, <1>2 DEF Scenario, Asks
<1> DEFINE k == [scenario.requests EXCEPT ![kind] = n - 1]
<1>4. k \in [Kinds -> Nat] BY <1>1, <1>3 DEF Scenario
<1>5. scenario' = [scenario EXCEPT !.requests = k] BY <1>2 DEF Asks
<1> HIDE DEF k
<1>6. scenario' \in Scenario /\ scenario'.servers = scenario.servers BY <1>1, <1>4, <1>5 DEF Scenario
<1>7. [request EXCEPT !.at = s] \in SlotType BY DEF SlotType
<1>8. slot' = [slot EXCEPT ![h] = [request EXCEPT !.at = s]] BY DEF Asks
<1>9. slot' \in [Slots -> SlotType] BY <1>1, <1>7, <1>8
<1> QED BY <1>6, <1>8, <1>9 DEF Asks

LEMMA IdleType ==
  Idle \in SlotType /\ Idle.pc = "idle"
  BY ZenonT(40) DEF Idle, SlotType, Pcs

LEMMA CreationType ==
  ASSUME NEW pc \in Pcs, NEW i \in Ids, NEW p \in Payload, NEW instant \in BOOLEAN,
         NEW late \in BOOLEAN, NEW r, r = Creation(pc, i, p, instant, late)
  PROVE  /\ r \in SlotType /\ r.pc = pc /\ r.id = i /\ r.payload = p
         /\ r.creates /\ (r.late <=> late)
  BY DEF Creation, Idle, SlotType

LEMMA ForWorkflowType ==
  ASSUME NEW pc \in Pcs, NEW i \in Ids, NEW r, r = ForWorkflow(pc, i)
  PROVE  /\ r \in SlotType /\ r.pc = pc /\ r.id = i /\ ~r.creates
  BY DEF ForWorkflow, Idle, SlotType

LEMMA ForTemplateType ==
  ASSUME NEW pc \in Pcs, NEW kind \in Asked, NEW t \in Places, NEW r, r = ForTemplate(pc, kind, t)
  PROVE  r \in SlotType /\ r.pc = pc /\ r.kind = kind /\ r.template = t
<1>1. t \in Nat BY TemplatesAssumption DEF Places
<1> QED BY <1>1 DEF ForTemplate, Idle, SlotType

-----------------------------------------------------------------------------
(* Every action keeps the types, and most are steady. *)
LEMMA LockType ==
  ASSUME TypeInv, NEW s \in Servers, Lock(s)
  PROVE  TypeInv'
<1>1. server' \in [Servers -> ServerType] BY ZenonT(40) DEF Lock, TypeInv, ServerType, Stages, DbType
<1>2. db' \in DbType BY DEF Lock, TypeInv, DbType
<1> QED BY <1>1, <1>2 DEF Lock, TypeInv

LEMMA MigrateType ==
  ASSUME TypeInv, StartupInv, NEW s \in Servers, Migrate(s)
  PROVE  /\ TypeInv'
         /\ history' = history
         /\ \E m \in server[s].left :
              /\ server' = [server EXCEPT ![s].left = @ \ {m}]
              /\ db' = [db EXCEPT !.schema = @ \cup {m}]
<1>1. server[s].stage = "migrating" /\ server[s].left = MigrationVersions \ db.schema
  BY DEF Migrate, StartupInv
<1>2. PICK m \in server[s].left :
        /\ server' = [server EXCEPT ![s].left = @ \ {m}]
        /\ db' = [db EXCEPT !.schema = @ \cup {m}]
        /\ UNCHANGED history
  BY <1>1 DEF Migrate
<1>3. m \in MigrationVersions BY <1>1
<1>4. server' \in [Servers -> ServerType] BY <1>2 DEF TypeInv, ServerType
<1>5. db' \in DbType BY <1>2, <1>3 DEF TypeInv, DbType
<1> QED BY <1>2, <1>4, <1>5 DEF TypeInv, Migrate

LEMMA UnlockType ==
  ASSUME TypeInv, NEW s \in Servers, Unlock(s)
  PROVE  TypeInv'
<1>1. server' \in [Servers -> ServerType] BY DEF Unlock, TypeInv, ServerType, Stages
<1>2. db' \in DbType BY DEF Unlock, TypeInv, DbType
<1> QED BY <1>1, <1>2 DEF Unlock, TypeInv

LEMMA RowPayload ==
  ASSUME TypeInv, NEW i \in Ids, db.rows[i] # None
  PROVE  db.rows[i] \in Rows /\ db.rows[i].payload \in Payload /\ db.rows[i].payload # None
<1>1. db.rows[i] \in Rows BY DEF TypeInv, DbType, RowTable
<1> QED BY <1>1, NoneAssumption DEF Rows

LEMMA StoredType ==
  ASSUME TypeInv, NEW i \in Ids
  PROVE  /\ Stored(i) \in Payload \cup {None}
         /\ Stored(i) # None <=> db.rows[i] # None
  BY RowPayload DEF Stored

LEMMA LoadType ==
  ASSUME TypeInv, NEW s \in Servers, Load(s)
  PROVE  TypeInv'
<1> DEFINE m == [i \in Ids |-> IF db.rows[i] = None THEN None ELSE db.rows[i].payload]
           c == LoadedCatalog(db.rows)
           t == LoadedTemplates(db.templates)
<1>1. m \in Memory BY RowPayload DEF Memory
<1>2. c \in Catalog BY RowPayload DEF LoadedCatalog, Catalog, Payload
<1>3. t \in TemplateRows BY DEF LoadedTemplates, TypeInv, DbType
<1>4. server' = [server EXCEPT ![s].stage = "serving", ![s].memory = m, ![s].catalog = c,
                               ![s].templates = t]
  BY DEF Load
<1> HIDE DEF m, c, t
<1> DEFINE r == [server[s] EXCEPT !.stage = "serving", !.memory = m, !.catalog = c, !.templates = t]
<1>5. server \in [Servers -> ServerType] /\ server[s] \in ServerType BY DEF TypeInv
<1>6. r \in ServerType BY <1>1, <1>2, <1>3, <1>5 DEF ServerType, Stages
<1>7. server' = [server EXCEPT ![s] = r] BY <1>4
<1> HIDE DEF r
<1>8. server' \in [Servers -> ServerType] BY <1>5, <1>6, <1>7
<1> QED BY <1>8 DEF Load, TypeInv

LEMMA EntersHistory ==
  ASSUME TypeInv, NEW s \in Servers, NEW i \in Ids, NEW p \in Payload, Enters(s, i, p)
  PROVE  /\ history' \in HistoryType
         /\ history'.saved = history.saved \cup {<<i, p>>}
         /\ history'.created = history.created /\ history'.late = history.late
         /\ history'.recorded = history.recorded /\ history'.conflicts = history.conflicts
         /\ history'.partial = history.partial /\ history'.unsaved = history.unsaved
<1> DEFINE v == history.saved \cup {<<i, p>>}
<1>1. history \in HistoryType BY DEF TypeInv
<1>2. v \in SUBSET (Ids \X Payload) BY <1>1 DEF HistoryType
<1>3. history' = [history EXCEPT !.saved = v] BY DEF Enters
<1> HIDE DEF v
<1>4. history' \in HistoryType BY <1>1, <1>2, <1>3 DEF HistoryType
<1>5. history'.saved = v /\ history'.created = history.created /\ history'.late = history.late
      /\ history'.recorded = history.recorded /\ history'.conflicts = history.conflicts
      /\ history'.partial = history.partial /\ history'.unsaved = history.unsaved
  BY <1>1, <1>3 DEF HistoryType
<1> QED BY <1>4, <1>5 DEF v

LEMMA CreateType ==
  ASSUME TypeInv, NEW h \in Slots, Create(h)
  PROVE  TypeInv' /\ Steady
<1>1. PICK s \in scenario.servers, i \in Ids, p \in scenario.payloads :
        /\ Asks(h, s, "create", Creation("lookup", i, p, p.schedule = Instant, i \in history.created))
        /\ UNCHANGED <<db, server, tick, runs, time, history>>
  BY DEF Create
<1>2. s \in Servers /\ p \in Payload /\ "create" \in Kinds /\ "lookup" \in Pcs
  BY ScenarioFacts DEF Kinds, Pcs
<1>3. Creation("lookup", i, p, p.schedule = Instant, i \in history.created) \in SlotType
  <2>1. (p.schedule = Instant) \in BOOLEAN /\ (i \in history.created) \in BOOLEAN OBVIOUS
  <2> QED BY <1>2, <2>1, ZenonT(40) DEF Creation, Idle, SlotType
<1>4. scenario' \in Scenario /\ scenario'.servers = scenario.servers /\ slot' \in [Slots -> SlotType]
  BY <1>1, <1>2, <1>3, AsksEffect
<1> QED BY <1>1, <1>4 DEF TypeInv, Steady

LEMMA LookupType ==
  ASSUME TypeInv, ShapeInv, NEW h \in Slots, Lookup(h)
  PROVE  TypeInv' /\ Steady
<1> DEFINE q == slot[h]
<1>1. q \in SlotType /\ q.pc = "lookup" /\ q.at \in Servers /\ q.id \in Ids /\ q.payload \in Payload
  BY ScenarioFacts DEF Lookup, TypeInv, ShapeInv, Sensible
<1> DEFINE r == IF Stored(q.id) # None THEN Idle ELSE [q EXCEPT !.pc = "write"]
<1>a. slot' = [slot EXCEPT ![h] = r] BY DEF Lookup
<1>b. [q EXCEPT !.pc = "write"] \in SlotType BY <1>1 DEF SlotType, Pcs
<1>c. r \in SlotType BY <1>b, IdleType
<1> HIDE DEF r
<1>2. slot' \in [Slots -> SlotType] BY <1>a, <1>c DEF TypeInv
<1>3. CASE Stored(q.id) # None
  <2>1. server' = [server EXCEPT ![q.at].memory[q.id] = Stored(q.id)] /\ UNCHANGED history
    BY <1>3 DEF Lookup
  <2>2. Stored(q.id) \in Payload \cup {None} BY <1>1, StoredType
  <2>3. server' \in [Servers -> ServerType] BY <1>1, <2>1, <2>2 DEF TypeInv, ServerType, Memory
  <2>4. \A s \in Servers : server'[s].stage = server[s].stage /\ server'[s].left = server[s].left
    BY <1>1, <2>1 DEF TypeInv, ServerType
  <2> QED BY <1>2, <2>1, <2>3, <2>4 DEF Lookup, TypeInv, Steady
<1>4. CASE Stored(q.id) = None
  <2>1. Enters(q.at, q.id, q.payload) BY <1>4 DEF Lookup
  <2>2. server' \in [Servers -> ServerType] /\ history' \in HistoryType
    BY <1>1, <2>1, EntersServer, EntersHistory
  <2>3. \A s \in Servers : server'[s].stage = server[s].stage /\ server'[s].left = server[s].left
    BY <1>1, <2>1, EntersServer
  <2>4. history'.conflicts = history.conflicts BY <1>1, <2>1, EntersHistory
  <2> QED BY <1>2, <2>2, <2>3, <2>4 DEF Lookup, TypeInv, Steady
<1> QED BY <1>3, <1>4

LEMMA UpdateType ==
  ASSUME TypeInv, NEW h \in Slots, Update(h)
  PROVE  TypeInv' /\ Steady
<1>1. PICK s \in scenario.servers, i \in Ids, p \in scenario.payloads :
        /\ Asks(h, s, "update", [ForWorkflow("write", i) EXCEPT !.payload = p])
        /\ Enters(s, i, p)
        /\ UNCHANGED <<db, tick, runs, time>>
  BY DEF Update
<1>2. s \in Servers /\ p \in Payload /\ "update" \in Kinds /\ "write" \in Pcs
  BY ScenarioFacts DEF Kinds, Pcs
<1>3. PICK r : r = ForWorkflow("write", i) OBVIOUS
<1>4. [r EXCEPT !.payload = p] \in SlotType BY <1>2, <1>3, ForWorkflowType DEF SlotType
<1>5. scenario' \in Scenario /\ scenario'.servers = scenario.servers /\ slot' \in [Slots -> SlotType]
  BY <1>1, <1>2, <1>3, <1>4, AsksEffect
<1>6. server' \in [Servers -> ServerType] /\ history' \in HistoryType
      /\ history'.conflicts = history.conflicts
  BY <1>1, <1>2, EntersServer, EntersHistory
<1>7. \A z \in Servers : server'[z].stage = server[z].stage /\ server'[z].left = server[z].left
  BY <1>1, <1>2, EntersServer
<1> QED BY <1>1, <1>5, <1>6, <1>7 DEF TypeInv, Steady

CreatedHistory(i, late) == [history EXCEPT !.created = @ \cup {i}, !.late = @ \/ late]
LEMMA HistoryCreated ==
  ASSUME TypeInv, NEW i \in Ids, NEW late \in BOOLEAN, NEW hist, hist = CreatedHistory(i, late)
  PROVE  /\ hist \in HistoryType
         /\ hist.created = history.created \cup {i} /\ (hist.late <=> history.late \/ late)
         /\ hist.saved = history.saved /\ hist.recorded = history.recorded
         /\ hist.conflicts = history.conflicts /\ hist.partial = history.partial
         /\ hist.unsaved = history.unsaved
<1> DEFINE c == history.created \cup {i}
<1>1. PICK b \in BOOLEAN : b = (history.late \/ late) OBVIOUS
<1>2. history \in HistoryType BY DEF TypeInv
<1>3. c \in SUBSET Ids BY <1>2 DEF HistoryType
<1>4. hist = [history EXCEPT !.created = c, !.late = b] BY <1>1 DEF CreatedHistory
<1> HIDE DEF c
<1>5. hist \in HistoryType BY <1>2, <1>3, <1>4 DEF HistoryType
<1>6. hist.created = c /\ hist.late = b /\ hist.saved = history.saved
      /\ hist.recorded = history.recorded
      /\ hist.conflicts = history.conflicts /\ hist.partial = history.partial
      /\ hist.unsaved = history.unsaved
  BY <1>2, <1>4 DEF HistoryType
<1> QED BY <1>1, <1>5, <1>6 DEF c

LEMMA WriteType ==
  ASSUME TypeInv, ShapeInv, NEW h \in Slots, Write(h)
  PROVE  TypeInv' /\ Steady
<1> DEFINE q == slot[h]
           w == IF db.rows[q.id] = None THEN Row(q.payload)
                ELSE [db.rows[q.id] EXCEPT !.payload = q.payload]
           r == IF q.instant THEN [ForWorkflow("start", q.id) EXCEPT !.at = q.at] ELSE Idle
<1>1. q \in SlotType /\ q.pc = "write" /\ q.at \in Servers /\ q.id \in Ids /\ q.payload \in Payload
      /\ q.late \in BOOLEAN
  BY ScenarioFacts DEF Write, TypeInv, ShapeInv, Sensible, SlotType
<1>2. w \in Rows
  <2>1. Row(q.payload) \in Rows BY <1>1 DEF Row, Rows
  <2>2. db.rows[q.id] # None => db.rows[q.id] \in Rows BY <1>1, RowPayload
  <2> QED BY <1>1, <2>1, <2>2 DEF Rows
<1>3. db' = [db EXCEPT !.rows[q.id] = w] BY DEF Write
<1>4. db' \in DbType /\ db'.lock = db.lock /\ db'.schema = db.schema
  <2> HIDE DEF w, q
  <2> QED BY <1>1, <1>2, <1>3 DEF TypeInv, DbType, RowTable
<1>5. r \in SlotType
  <2>1. PICK f : f = ForWorkflow("start", q.id) OBVIOUS
  <2>2. f \in SlotType BY <1>1, <2>1, ForWorkflowType DEF Pcs
  <2>3. [f EXCEPT !.at = q.at] \in SlotType BY <1>1, <2>2 DEF SlotType
  <2> QED BY <2>1, <2>3, IdleType
<1>6. slot' = [slot EXCEPT ![h] = r] BY DEF Write
<1>7. slot' \in [Slots -> SlotType]
  <2> HIDE DEF r
  <2> QED BY <1>5, <1>6 DEF TypeInv
<1>8. history' \in HistoryType /\ history'.conflicts = history.conflicts
  <2>1. CASE q.creates
    <3>1. history' = [history EXCEPT !.created = @ \cup {q.id}, !.late = @ \/ q.late]
      BY <2>1 DEF Write
    <3>2. PICK i \in Ids : i = q.id BY <1>1
    <3>3. PICK late \in BOOLEAN : late = q.late BY <1>1
    <3>4. history' = CreatedHistory(i, late) BY <3>1, <3>2, <3>3 DEF CreatedHistory
    <3> QED BY <3>4, HistoryCreated
  <2>2. CASE ~q.creates BY <2>2 DEF Write, TypeInv
  <2> QED BY <2>1, <2>2
<1> QED BY <1>4, <1>7, <1>8 DEF Write, TypeInv, Steady

LEMMA TestRunType ==
  ASSUME TypeInv, NEW h \in Slots, TestRun(h)
  PROVE  TypeInv' /\ Steady
<1>1. PICK s \in scenario.servers, i \in Ids :
        /\ Asks(h, s, "run", ForWorkflow(IF server[s].memory[i] = None THEN "fetch" ELSE "start", i))
        /\ UNCHANGED <<db, server, tick, runs, time, history>>
  BY DEF TestRun
<1>2. PICK pc \in Pcs : pc = IF server[s].memory[i] = None THEN "fetch" ELSE "start" BY DEF Pcs
<1>3. PICK f : f = ForWorkflow(pc, i) OBVIOUS
<1>4. f \in SlotType BY <1>3, ForWorkflowType
<1>5. s \in Servers /\ "run" \in Kinds BY ScenarioFacts DEF Kinds
<1>6. scenario' \in Scenario /\ scenario'.servers = scenario.servers /\ slot' \in [Slots -> SlotType]
  BY <1>1, <1>2, <1>3, <1>4, <1>5, AsksEffect
<1> QED BY <1>1, <1>6 DEF TypeInv, Steady

LEMMA FetchType ==
  ASSUME TypeInv, ShapeInv, NEW h \in Slots, Fetch(h)
  PROVE  TypeInv' /\ Steady
<1> DEFINE q == slot[h]
           r == IF Stored(q.id) = None THEN Idle ELSE [q EXCEPT !.pc = "start"]
<1>1. q \in SlotType /\ q.at \in Servers /\ q.id \in Ids
  BY ScenarioFacts DEF Fetch, TypeInv, ShapeInv, Sensible
<1>2. slot' = [slot EXCEPT ![h] = r] BY DEF Fetch
<1>3. [q EXCEPT !.pc = "start"] \in SlotType BY <1>1 DEF SlotType, Pcs
<1>4. r \in SlotType BY <1>3, IdleType
<1> HIDE DEF r
<1>5. slot' \in [Slots -> SlotType] BY <1>2, <1>4 DEF TypeInv
<1>6. Stored(q.id) \in Payload \cup {None} BY <1>1, StoredType
<1>7. /\ server' \in [Servers -> ServerType]
      /\ \A s \in Servers : server'[s].stage = server[s].stage /\ server'[s].left = server[s].left
  <2>1. CASE Stored(q.id) = None BY <2>1 DEF Fetch, TypeInv
  <2>2. CASE Stored(q.id) # None
    <3>1. server' = [server EXCEPT ![q.at].memory[q.id] = Stored(q.id)] BY <2>2 DEF Fetch
    <3>2. server' \in [Servers -> ServerType] BY <1>1, <1>6, <3>1 DEF TypeInv, ServerType, Memory
    <3>3. \A s \in Servers : server'[s].stage = server[s].stage /\ server'[s].left = server[s].left
      BY <1>1, <3>1 DEF TypeInv, ServerType
    <3> QED BY <3>2, <3>3
  <2> QED BY <2>1, <2>2
<1> QED BY <1>5, <1>7 DEF Fetch, TypeInv, Steady

LEMMA LatestKnown ==
  ASSUME NEW s \in Servers, NEW i \in Ids, Known(s, i) # {}
  PROVE  Latest(s, i) \in Known(s, i) /\ Latest(s, i) \in Versions
<1>1. Known(s, i) \in SUBSET Versions BY DEF Known
<1>2. \E v \in Known(s, i) : \A w \in Known(s, i) : w <= v BY <1>1, VersionsAssumption
<1>3. Latest(s, i) \in Known(s, i) BY <1>2 DEF Latest
<1> QED BY <1>1, <1>3

LEMMA StartsRunEffect ==
  ASSUME TypeInv, NEW s \in Servers, NEW i \in Ids, Known(s, i) # {},
         NEW by \in {"request", "schedule"}, NEW again \in BOOLEAN, StartsRun(s, i, by, again)
  PROVE  /\ runs' \in Seq(RunType) /\ Len(runs') <= MaxRuns /\ Len(runs') = Len(runs) + 1
         /\ \A r \in DOMAIN runs : r \in DOMAIN runs' /\ runs'[r] = runs[r]
         /\ \A r \in DOMAIN runs' \ DOMAIN runs : r = Len(runs) + 1
         /\ LET r == Len(runs) + 1 IN
            /\ runs'[r].id = i /\ runs'[r].version = Latest(s, i) /\ runs'[r].executed = {}
            /\ runs'[r].status = "running" /\ (runs'[r].again <=> again)
         /\ server' \in [Servers -> ServerType]
         /\ server' = [server EXCEPT ![s].definitions[Len(runs) + 1] =
                         server[s].catalog[i][Latest(s, i)]]
<1> DEFINE run == [id |-> i, version |-> Latest(s, i), executed |-> {},
                   status |-> "running", by |-> by, again |-> again]
           g == server[s].catalog[i][Latest(s, i)]
           n == Len(runs) + 1
<1>1. Latest(s, i) \in Versions BY LatestKnown
<1>2. run \in RunType BY <1>1 DEF RunType
<1>3. runs \in Seq(RunType) /\ Len(runs) \in Nat /\ Len(runs) < MaxRuns
      /\ runs' = Append(runs, run)
  BY DEF TypeInv, StartsRun
<1>4. run.id = i /\ run.version = Latest(s, i) /\ run.executed = {} /\ run.status = "running"
      /\ (run.again <=> again)
  OBVIOUS
<1> HIDE DEF run
<1>5. /\ runs' \in Seq(RunType) /\ Len(runs') = Len(runs) + 1 /\ runs'[Len(runs) + 1] = run
      /\ \A r \in 1 .. Len(runs) : runs'[r] = runs[r]
      /\ DOMAIN runs = 1 .. Len(runs) /\ DOMAIN runs' = 1 .. Len(runs')
  BY <1>2, <1>3
<1>6. g \in Graphs \cup {None} /\ n \in 1 .. MaxRuns
  BY <1>1, <1>3, BoundsAssumption DEF TypeInv, ServerType, Catalog
<1>7. server' = [server EXCEPT ![s].definitions[n] = g] BY DEF StartsRun
<1>8. server' \in [Servers -> ServerType]
  <2> HIDE DEF g, n
  <2> QED BY <1>6, <1>7 DEF TypeInv, ServerType, Definitions
<1> QED BY <1>3, <1>4, <1>5, <1>7, <1>8, BoundsAssumption

LEMMA StartsRunServer ==
  ASSUME TypeInv, NEW s \in Servers, NEW g, NEW n,
         server' = [server EXCEPT ![s].definitions[n] = g]
  PROVE  /\ \A z \in Servers :
              /\ server'[z].stage = server[z].stage /\ server'[z].left = server[z].left
              /\ server'[z].memory = server[z].memory /\ server'[z].catalog = server[z].catalog
              /\ server'[z].templates = server[z].templates
         /\ \A z \in Servers, m \in 1 .. MaxRuns :
              server'[z].definitions[m] = IF z = s /\ m = n THEN g ELSE server[z].definitions[m]
  BY DEF TypeInv, ServerType, Definitions

Keeps(s, n, g) == server' = [server EXCEPT ![s].definitions[n] = g]
LEMMA KeepsServer ==
  ASSUME TypeInv, NEW s \in Servers, NEW g, NEW n, Keeps(s, n, g)
  PROVE  /\ \A z \in Servers : server'[z].catalog = server[z].catalog
         /\ \A z \in Servers, m \in 1 .. MaxRuns :
              server'[z].definitions[m] = IF z = s /\ m = n THEN g ELSE server[z].definitions[m]
  BY DEF Keeps, TypeInv, ServerType, Definitions

LEMMA StartRunType ==
  ASSUME TypeInv, ShapeInv, NEW h \in Slots, StartRun(h)
  PROVE  TypeInv' /\ Steady
<1> DEFINE q == slot[h]
<1>1. q \in SlotType /\ q.at \in Servers /\ q.id \in Ids
  BY ScenarioFacts DEF StartRun, TypeInv, ShapeInv, Sensible
<1>2. slot' \in [Slots -> SlotType] BY IdleType DEF StartRun, TypeInv
<1>3. CASE Known(q.at, q.id) = {} BY <1>2, <1>3 DEF StartRun, TypeInv, Steady
<1>4. CASE Known(q.at, q.id) # {}
  <2>1. StartsRun(q.at, q.id, "request", FALSE) BY <1>4 DEF StartRun
  <2>2. /\ runs' \in Seq(RunType) /\ Len(runs') <= MaxRuns
        /\ server' \in [Servers -> ServerType]
        /\ server' = [server EXCEPT ![q.at].definitions[Len(runs) + 1] =
                         server[q.at].catalog[q.id][Latest(q.at, q.id)]]
    BY <1>1, <1>4, <2>1, StartsRunEffect
  <2>3. \A z \in Servers : server'[z].stage = server[z].stage /\ server'[z].left = server[z].left
    BY <1>1, <2>2, StartsRunServer
  <2> QED BY <1>2, <2>2, <2>3 DEF StartRun, TypeInv, Steady
<1> QED BY <1>3, <1>4

LEMMA TemplatesServer ==
  ASSUME TypeInv, NEW s \in Servers, NEW m \in TemplateRows,
         server' = [server EXCEPT ![s].templates = m]
  PROVE  /\ server' \in [Servers -> ServerType]
         /\ server'[s].templates = m
         /\ \A z \in Servers : z # s => server'[z] = server[z]
         /\ \A z \in Servers :
              /\ server'[z].stage = server[z].stage /\ server'[z].left = server[z].left
              /\ server'[z].memory = server[z].memory /\ server'[z].catalog = server[z].catalog
              /\ server'[z].definitions = server[z].definitions
  BY DEF TypeInv, ServerType

LEMMA TemplateServer ==
  ASSUME TypeInv, NEW s \in Servers, NEW t \in Places, NEW k \in TemplateKinds,
         server' = [server EXCEPT ![s].templates[t] = k]
  PROVE  /\ server' \in [Servers -> ServerType]
         /\ \A z \in Servers : z # s => server'[z] = server[z]
         /\ \A z \in Servers :
              /\ server'[z].stage = server[z].stage /\ server'[z].left = server[z].left
              /\ server'[z].memory = server[z].memory /\ server'[z].catalog = server[z].catalog
              /\ server'[z].definitions = server[z].definitions
         /\ \A u \in Places : server'[s].templates[u] = IF u = t THEN k ELSE server[s].templates[u]
<1> DEFINE m == [server[s].templates EXCEPT ![t] = k]
<1>1. server[s].templates \in TemplateRows BY DEF TypeInv, ServerType
<1>2. m \in TemplateRows BY <1>1 DEF TemplateRows
<1>3. server' = [server EXCEPT ![s].templates = m] OBVIOUS
<1>4. \A u \in Places : m[u] = IF u = t THEN k ELSE server[s].templates[u]
  BY <1>1 DEF TemplateRows
<1> HIDE DEF m
<1> QED BY <1>2, <1>3, <1>4, TemplatesServer, ZenonT(40)

LEMMA TemplateRequestType ==
  ASSUME TypeInv, NEW h \in Slots, NEW kind \in {"list", "edit", "use"}, TemplateRequest(h, kind)
  PROVE  TypeInv' /\ Steady
<1>1. PICK s \in scenario.servers, t \in 1 .. Len(Templates) :
        /\ Asks(h, s, kind, ForTemplate("count", kind, t))
        /\ UNCHANGED <<db, server, tick, runs, time, history>>
  BY DEF TemplateRequest
<1>2. s \in Servers /\ kind \in Kinds /\ kind \in Asked /\ t \in Places /\ "count" \in Pcs
  BY ScenarioFacts DEF Kinds, Asked, Places, Pcs
<1>3. PICK f : f = ForTemplate("count", kind, t) OBVIOUS
<1>4. f \in SlotType BY <1>2, <1>3, ForTemplateType
<1>5. scenario' \in Scenario /\ scenario'.servers = scenario.servers /\ slot' \in [Slots -> SlotType]
  BY <1>1, <1>2, <1>3, <1>4, AsksEffect
<1> QED BY <1>1, <1>5 DEF TypeInv, Steady

LEMMA RestoreTemplateType ==
  ASSUME TypeInv, NEW h \in Slots, RestoreTemplate(h)
  PROVE  TypeInv' /\ Steady
<1>1. PICK s \in scenario.servers, t \in 1 .. Len(Templates) :
        /\ Asks(h, s, "restore", ForTemplate("store", "restore", t))
        /\ server' = [server EXCEPT ![s].templates[t] = "system"]
        /\ history' = [history EXCEPT !.partial = @ \/ Unseeded]
        /\ UNCHANGED <<db, tick, runs, time>>
  BY DEF RestoreTemplate
<1>2. s \in Servers /\ "restore" \in Kinds /\ "restore" \in Asked /\ t \in Places /\ "store" \in Pcs
      /\ "system" \in TemplateKinds
  BY ScenarioFacts DEF Kinds, Asked, Places, Pcs, TemplateKinds
<1>3. PICK f : f = ForTemplate("store", "restore", t) OBVIOUS
<1>4. f \in SlotType BY <1>2, <1>3, ForTemplateType
<1>5. scenario' \in Scenario /\ scenario'.servers = scenario.servers /\ slot' \in [Slots -> SlotType]
  BY <1>1, <1>2, <1>3, <1>4, AsksEffect
<1>6. /\ server' \in [Servers -> ServerType]
      /\ \A z \in Servers : server'[z].stage = server[z].stage /\ server'[z].left = server[z].left
  BY <1>1, <1>2, TemplateServer
<1>7. PICK b \in BOOLEAN : b = (history.partial \/ Unseeded) OBVIOUS
<1>8. history' = [history EXCEPT !.partial = b] BY <1>1, <1>7
<1>9. history' \in HistoryType /\ history'.conflicts = history.conflicts
  BY <1>8 DEF TypeInv, HistoryType
<1> QED BY <1>1, <1>5, <1>6, <1>9 DEF TypeInv, Steady

LEMMA OpenedType ==
  ASSUME NEW q \in SlotType
  PROVE  Opened(q) \in SlotType
<1>1. [q EXCEPT !.pc = "take"] \in SlotType /\ [q EXCEPT !.pc = "store"] \in SlotType
  BY DEF SlotType, Pcs
<1> QED BY <1>1, IdleType DEF Opened

LEMMA OpenedMemoryType ==
  ASSUME TypeInv, NEW q \in SlotType, q.template \in Places, NEW memory \in TemplateRows
  PROVE  OpenedMemory(q, memory) \in TemplateRows
<1>1. db.templates \in TemplateRows BY DEF TypeInv, DbType
<1>2. PICK read : read = IF memory[q.template] = None THEN db.templates[q.template]
                         ELSE memory[q.template]
  OBVIOUS
<1>3. read \in TemplateKinds \cup {None} /\ "edited" \in TemplateKinds
  BY <1>1, <1>2 DEF TemplateRows, TemplateKinds
<1>4. /\ [memory EXCEPT ![q.template] = read] \in TemplateRows
      /\ [memory EXCEPT ![q.template] = "edited"] \in TemplateRows
  BY <1>3 DEF TemplateRows
<1> QED BY <1>2, <1>4 DEF OpenedMemory

LEMMA CountTemplatesType ==
  ASSUME TypeInv, ShapeInv, NEW h \in Slots, CountTemplates(h)
  PROVE  TypeInv' /\ Steady
<1> DEFINE q == slot[h]
<1>1. q \in SlotType /\ q.at \in Servers /\ q.template \in Places
  BY ScenarioFacts DEF CountTemplates, TypeInv, ShapeInv, Sensible
<1>2. CASE Unseeded
  <2>1. 1 \in Places /\ "system" \in TemplateKinds
    BY <1>1, TemplatesAssumption DEF Places, TemplateKinds
  <2>2. server' = [server EXCEPT ![q.at].templates[1] = "system"]
        /\ slot' = [slot EXCEPT ![h].pc = "seed", ![h].todo = 1]
    BY <1>2 DEF CountTemplates
  <2>3. /\ server' \in [Servers -> ServerType]
        /\ \A z \in Servers : server'[z].stage = server[z].stage /\ server'[z].left = server[z].left
    BY <1>1, <2>1, <2>2, TemplateServer
  <2> DEFINE r == [q EXCEPT !.pc = "seed", !.todo = 1]
  <2>a. r \in SlotType BY <1>1 DEF SlotType, Pcs
  <2>b. slot' = [slot EXCEPT ![h] = r] BY <2>2
  <2> HIDE DEF r
  <2>4. slot' \in [Slots -> SlotType] BY <2>a, <2>b DEF TypeInv
  <2> QED BY <2>3, <2>4 DEF CountTemplates, TypeInv, Steady
<1>3. CASE ~Unseeded
  <2>1. PICK m : m = OpenedMemory(q, server[q.at].templates) OBVIOUS
  <2>2. server' = [server EXCEPT ![q.at].templates = m] /\ slot' = [slot EXCEPT ![h] = Opened(q)]
    BY <1>3, <2>1 DEF CountTemplates
  <2>3. server[q.at].templates \in TemplateRows BY <1>1 DEF TypeInv, ServerType
  <2>4. m \in TemplateRows BY <1>1, <2>1, <2>3, OpenedMemoryType
  <2>5. /\ server' \in [Servers -> ServerType]
        /\ \A z \in Servers : server'[z].stage = server[z].stage /\ server'[z].left = server[z].left
    BY <1>1, <2>2, <2>4, TemplatesServer
  <2>6. slot' \in [Slots -> SlotType] BY <1>1, <2>2, OpenedType DEF TypeInv
  <2> QED BY <2>5, <2>6 DEF CountTemplates, TypeInv, Steady
<1> QED BY <1>2, <1>3

LEMMA TemplateDb ==
  ASSUME TypeInv, NEW t \in Places, NEW k \in TemplateKinds,
         db' = [db EXCEPT !.templates[t] = k]
  PROVE  /\ db' \in DbType /\ db'.lock = db.lock /\ db'.schema = db.schema /\ db'.rows = db.rows
         /\ \A u \in Places : db'.templates[u] = IF u = t THEN k ELSE db.templates[u]
  BY DEF TypeInv, DbType, TemplateRows

LEMMA SeedType ==
  ASSUME TypeInv, ShapeInv, NEW h \in Slots, Seed(h)
  PROVE  TypeInv' /\ Steady
<1> DEFINE q == slot[h]
<1>1. q \in SlotType /\ q.at \in Servers /\ q.template \in Places /\ q.todo \in Places
  BY ScenarioFacts DEF Seed, TypeInv, ShapeInv, Sensible
<1>2. "system" \in TemplateKinds BY DEF TemplateKinds
<1>3. db' \in DbType /\ db'.lock = db.lock /\ db'.schema = db.schema
  BY <1>1, <1>2, TemplateDb DEF Seed
<1>4. CASE SeedsMore(h)
  <2>1. q.todo + 1 \in Places BY <1>1, <1>4, TemplatesAssumption DEF Places, SeedsMore
  <2>2. server' = [server EXCEPT ![q.at].templates[q.todo + 1] = "system"]
        /\ slot' = [slot EXCEPT ![h].todo = @ + 1]
    BY <1>4 DEF Seed
  <2>3. /\ server' \in [Servers -> ServerType]
        /\ \A z \in Servers : server'[z].stage = server[z].stage /\ server'[z].left = server[z].left
    BY <1>1, <1>2, <2>1, <2>2, TemplateServer
  <2> DEFINE r == [q EXCEPT !.todo = q.todo + 1]
  <2>a. r \in SlotType BY <1>1 DEF SlotType
  <2>b. slot' = [slot EXCEPT ![h] = r] BY <2>2
  <2> HIDE DEF r
  <2>4. slot' \in [Slots -> SlotType] BY <2>a, <2>b DEF TypeInv
  <2> QED BY <1>3, <2>3, <2>4 DEF Seed, TypeInv, Steady
<1>5. CASE ~SeedsMore(h)
  <2>1. PICK m : m = OpenedMemory(q, server[q.at].templates) OBVIOUS
  <2>2. server' = [server EXCEPT ![q.at].templates = m] /\ slot' = [slot EXCEPT ![h] = Opened(q)]
    BY <1>5, <2>1 DEF Seed
  <2>3. server[q.at].templates \in TemplateRows BY <1>1 DEF TypeInv, ServerType
  <2>4. m \in TemplateRows BY <1>1, <2>1, <2>3, OpenedMemoryType
  <2>5. /\ server' \in [Servers -> ServerType]
        /\ \A z \in Servers : server'[z].stage = server[z].stage /\ server'[z].left = server[z].left
    BY <1>1, <2>2, <2>4, TemplatesServer
  <2>6. slot' \in [Slots -> SlotType] BY <1>1, <2>2, OpenedType DEF TypeInv
  <2> QED BY <1>3, <2>5, <2>6 DEF Seed, TypeInv, Steady
<1> QED BY <1>4, <1>5

LEMMA StoreTemplateType ==
  ASSUME TypeInv, ShapeInv, NEW h \in Slots, StoreTemplate(h)
  PROVE  TypeInv' /\ Steady
<1> DEFINE q == slot[h]
<1>1. q \in SlotType /\ q.template \in Places
  BY DEF StoreTemplate, TypeInv, ShapeInv, Sensible
<1>2. PICK k \in TemplateKinds : k = IF q.kind = "edit" THEN "edited" ELSE "system" BY DEF TemplateKinds
<1>3. db' \in DbType /\ db'.lock = db.lock /\ db'.schema = db.schema
  BY <1>1, <1>2, TemplateDb DEF StoreTemplate
<1>4. slot' \in [Slots -> SlotType] BY IdleType DEF StoreTemplate, TypeInv
<1> QED BY <1>3, <1>4 DEF StoreTemplate, TypeInv, Steady

LEMMA UseTemplateType ==
  ASSUME TypeInv, ShapeInv, TemplatesInv, NEW h \in Slots, UseTemplate(h)
  PROVE  TypeInv' /\ Steady
<1> DEFINE q == slot[h]
           k == server[q.at].templates[q.template]
<1>1. q \in SlotType /\ q.pc = "take" /\ q.at \in Servers /\ q.template \in Places
  BY ScenarioFacts DEF UseTemplate, TypeInv, ShapeInv, Sensible
<1>2. k \in TemplateKinds
  <2>1. k \in TemplateKinds \cup {None} BY <1>1 DEF TypeInv, ServerType, TemplateRows
  <2> QED BY <1>1, <2>1 DEF TemplatesInv
<1>3. PICK p \in Payload : p = Drawn[k] BY <1>2, TemplatesAssumption DEF TemplateKinds
<1>4. PICK i \in Ids :
        slot' = [slot EXCEPT ![h] = IF server[q.at].memory[i] # None THEN Idle
                 ELSE [Creation("lookup", i, p, FALSE, i \in history.created) EXCEPT !.at = q.at]]
  BY <1>3 DEF UseTemplate
<1>5. Creation("lookup", i, p, FALSE, i \in history.created) \in SlotType
  <2>1. (i \in history.created) \in BOOLEAN /\ "lookup" \in Pcs BY DEF Pcs
  <2> QED BY <2>1, ZenonT(40) DEF Creation, Idle, SlotType
<1>6. PICK c : c = Creation("lookup", i, p, FALSE, i \in history.created) OBVIOUS
<1>7. [c EXCEPT !.at = q.at] \in SlotType BY <1>1, <1>5, <1>6 DEF SlotType
<1>8. slot' \in [Slots -> SlotType] BY <1>4, <1>6, <1>7, IdleType DEF TypeInv
<1> QED BY <1>8 DEF UseTemplate, TypeInv, Steady

LEMMA TickFacts ==
  ASSUME TypeInv, NEW s \in Servers, NEW n \in Overlaps
  PROVE  tick[s][n] \in TickType
  BY DEF TypeInv

LEMMA TickStep ==
  ASSUME TypeInv, NEW s \in Servers, NEW n \in Overlaps, NEW r \in TickType,
         tick' = [tick EXCEPT ![s][n] = r]
  PROVE  /\ tick' \in [Servers -> [Overlaps -> TickType]]
         /\ tick'[s][n] = r
         /\ \A z \in Servers, m \in Overlaps : z # s \/ m # n => tick'[z][m] = tick[z][m]
  BY DEF TypeInv

LEMMA NoTickType ==
  NoTick \in TickType /\ NoTick.pc = "idle"
<1>1. Nowhere \in RowTable BY DEF Nowhere, RowTable
<1> QED BY <1>1, ZenonT(40) DEF NoTick, TickType

LEMMA DayType ==
  ASSUME NEW t \in Nat
  PROVE  Day(t) \in Nat
  BY ClockAssumption DEF Day

LEMMA ListRowsType ==
  ASSUME TypeInv, NEW s \in Servers, NEW n \in Overlaps, ListRows(s, n)
  PROVE  /\ TypeInv' /\ Steady
         /\ [pc |-> "listed", rows |-> db.rows, now |-> time, knows |-> history.recorded,
             began |-> time, at |-> None] \in TickType
<1> DEFINE r == [pc |-> "listed", rows |-> db.rows, now |-> time, knows |-> history.recorded,
                 began |-> time, at |-> None]
<1>1. db.rows \in RowTable /\ time \in Nat /\ history.recorded \in SUBSET (Ids \X Nat)
  BY DEF TypeInv, DbType, HistoryType
<1>2. r \in TickType BY <1>1 DEF TickType
<1>3. tick' = [tick EXCEPT ![s][n] = r] BY DEF ListRows
<1> HIDE DEF r
<1>4. tick' \in [Servers -> [Overlaps -> TickType]] BY <1>2, <1>3, TickStep
<1> QED BY <1>2, <1>4 DEF ListRows, TypeInv, Steady, r

LEMMA ReadClockType ==
  ASSUME TypeInv, NEW s \in Servers, NEW n \in Overlaps, ReadClock(s, n)
  PROVE  /\ TypeInv' /\ Steady
         /\ [tick[s][n] EXCEPT !.pc = "due", !.now = time] \in TickType
         /\ tick' = [tick EXCEPT ![s][n] = [tick[s][n] EXCEPT !.pc = "due", !.now = time]]
<1> DEFINE r == [tick[s][n] EXCEPT !.pc = "due", !.now = time]
<1>1. time \in Nat BY DEF TypeInv
<1>2. r \in TickType BY <1>1, TickFacts DEF TickType
<1>3. tick' = [tick EXCEPT ![s][n] = r] BY DEF ReadClock
<1> HIDE DEF r
<1>4. tick' \in [Servers -> [Overlaps -> TickType]] BY <1>2, <1>3, TickStep
<1> QED BY <1>2, <1>3, <1>4 DEF ReadClock, TypeInv, Steady, r

(* A due row leaves the rows of its tick. *)
Without(rows, i) == [rows EXCEPT ![i] = None]
Taken(t, i, pc) == [t EXCEPT !.rows[i] = None, !.at = i, !.pc = pc]
LEMMA TakenType ==
  ASSUME NEW t \in TickType, NEW i \in Ids, NEW pc \in {"record", "fail"}, NEW r, r = Taken(t, i, pc)
  PROVE  /\ r \in TickType /\ r.at = i /\ r.pc = pc /\ r.now = t.now /\ r.began = t.began
         /\ r.knows = t.knows /\ r.rows = Without(t.rows, i)
<1> DEFINE w == [t.rows EXCEPT ![i] = None]
<1>1. w \in RowTable BY DEF TickType, RowTable
<1>2. r = [t EXCEPT !.rows = w, !.at = i, !.pc = pc] BY DEF Taken
<1> HIDE DEF w
<1>3. r \in TickType BY <1>1, <1>2 DEF TickType
<1>4. /\ r.at = i /\ r.pc = pc /\ r.now = t.now /\ r.began = t.began
      /\ r.knows = t.knows /\ r.rows = w
  BY <1>2 DEF TickType
<1> QED BY <1>3, <1>4 DEF w, Without

(* What starting a due row does, told once. *)
Turns(s, n, r) == tick' = [tick EXCEPT ![s][n] = r]
LEMMA StartDueEffect ==
  ASSUME TypeInv, NEW s \in Servers, NEW n \in Overlaps, StartDue(s, n)
  PROVE  /\ TypeInv' /\ Steady
         /\ \E i \in Due(tick[s][n]), r \in TickType :
              /\ i \in Ids /\ Turns(s, n, r)
              /\ r.at = i /\ r.pc \in {"record", "fail"} /\ r.now = tick[s][n].now
              /\ r.began = tick[s][n].began /\ r.knows = tick[s][n].knows
              /\ r.rows[i] = None /\ \A j \in Ids : j # i => r.rows[j] = tick[s][n].rows[j]
              /\ \/ UNCHANGED <<runs, server>>
                 \/ /\ Known(s, i) # {}
                    /\ StartsRun(s, i, "schedule", <<i, Day(tick[s][n].now)>> \in tick[s][n].knows)
<1> DEFINE t == tick[s][n]
<1>1. PICK i \in Due(t) :
        /\ tick' = [tick EXCEPT ![s][n] = [@ EXCEPT !.rows[i] = None, !.at = i,
                                   !.pc = IF Known(s, i) = {} THEN "fail" ELSE "record"]]
        /\ IF Known(s, i) = {} THEN UNCHANGED <<runs, server>>
           ELSE StartsRun(s, i, "schedule", <<i, Day(t.now)>> \in t.knows)
  BY DEF StartDue
<1>2. i \in Ids /\ t \in TickType BY <1>1, TickFacts DEF Due
<1>3. PICK pc \in {"record", "fail"} : pc = IF Known(s, i) = {} THEN "fail" ELSE "record" OBVIOUS
<1>4. PICK r : r = Taken(t, i, pc) OBVIOUS
<1>5. /\ r \in TickType /\ r.at = i /\ r.pc = pc /\ r.now = t.now /\ r.began = t.began
      /\ r.knows = t.knows
      /\ r.rows[i] = None /\ \A j \in Ids : j # i => r.rows[j] = t.rows[j]
  <2>1. PICK u : u = t OBVIOUS
  <2>2. u \in TickType /\ r = Taken(u, i, pc) BY <1>2, <1>4, <2>1
  <2>3. r \in TickType /\ r.at = i /\ r.pc = pc /\ r.now = u.now /\ r.began = u.began
    BY <1>2, <1>3, <2>2, TakenType
  <2>4. r.knows = u.knows BY <1>2, <1>3, <2>2, TakenType
  <2>5. r.rows[i] = None /\ \A j \in Ids : j # i => r.rows[j] = u.rows[j]
    <3>1. r.rows = Without(u.rows, i) BY <1>2, <1>3, <2>2, TakenType
    <3> QED BY <1>2, <2>2, <3>1 DEF Without, TickType, RowTable
  <2> QED BY <2>1, <2>3, <2>4, <2>5
<1>6. tick' = [tick EXCEPT ![s][n] = r] BY <1>1, <1>3, <1>4 DEF Taken
<1>7. tick' \in [Servers -> [Overlaps -> TickType]] BY <1>5, <1>6, TickStep
<1>8. TypeInv' /\ Steady
  <2>1. CASE Known(s, i) = {} BY <1>1, <1>7, <2>1 DEF StartDue, TypeInv, Steady
  <2>2. CASE Known(s, i) # {}
    <3> DEFINE Result == /\ runs' \in Seq(RunType) /\ Len(runs') <= MaxRuns
                         /\ server' \in [Servers -> ServerType]
                         /\ server' = [server EXCEPT ![s].definitions[Len(runs) + 1] =
                                          server[s].catalog[i][Latest(s, i)]]
    <3>1. ASSUME NEW again \in BOOLEAN, StartsRun(s, i, "schedule", again)
          PROVE  Result
      BY <1>2, <2>2, <3>1, StartsRunEffect
    <3>2. StartsRun(s, i, "schedule", <<i, Day(t.now)>> \in t.knows) BY <1>1, <2>2
    <3>a. (<<i, Day(t.now)>> \in t.knows) \in BOOLEAN OBVIOUS
    <3> HIDE DEF Result
    <3>b. Result BY <3>1, <3>2, <3>a
    <3>3. /\ runs' \in Seq(RunType) /\ Len(runs') <= MaxRuns
          /\ server' \in [Servers -> ServerType]
          /\ server' = [server EXCEPT ![s].definitions[Len(runs) + 1] =
                           server[s].catalog[i][Latest(s, i)]]
      BY <3>b DEF Result
    <3>4. \A z \in Servers : server'[z].stage = server[z].stage /\ server'[z].left = server[z].left
      BY <3>3, StartsRunServer
    <3> QED BY <1>7, <3>3, <3>4 DEF StartDue, TypeInv, Steady
  <2> QED BY <2>1, <2>2
<1>9. \/ UNCHANGED <<runs, server>>
      \/ Known(s, i) # {} /\ StartsRun(s, i, "schedule", <<i, Day(t.now)>> \in t.knows)
  BY <1>1
<1>10. /\ i \in Due(t) /\ i \in Ids /\ r \in TickType /\ Turns(s, n, r)
       /\ r.pc \in {"record", "fail"}
  BY <1>1, <1>2, <1>3, <1>5, <1>6 DEF Turns
<1> HIDE DEF t
<1>11. TypeInv' /\ Steady
       /\ \E j \in Due(t), u \in TickType :
              /\ j \in Ids /\ Turns(s, n, u)
              /\ u.at = j /\ u.pc \in {"record", "fail"} /\ u.now = t.now
              /\ u.began = t.began /\ u.knows = t.knows
              /\ u.rows[j] = None /\ \A k \in Ids : k # j => u.rows[k] = t.rows[k]
              /\ \/ UNCHANGED <<runs, server>>
                 \/ /\ Known(s, j) # {}
                    /\ StartsRun(s, j, "schedule", <<j, Day(t.now)>> \in t.knows)
  BY <1>5, <1>8, <1>9, <1>10
<1> QED BY <1>11 DEF t

LEMMA RecordRunEffect ==
  ASSUME TypeInv, ClockInv, NEW s \in Servers, NEW n \in Overlaps, RecordRun(s, n)
  PROVE  /\ TypeInv' /\ Steady
         /\ tick' = [tick EXCEPT ![s][n] = [tick[s][n] EXCEPT !.pc = "due"]]
         /\ [tick[s][n] EXCEPT !.pc = "due"] \in TickType
         /\ LET i == tick[s][n].at IN
            /\ i \in Ids /\ db.rows[i] # None
            /\ db'.rows[i].payload = db.rows[i].payload /\ db'.rows[i] # None
            /\ db'.rows[i].lastRun = tick[s][n].now
            /\ \A j \in Ids : j # i => db'.rows[j] = db.rows[j]
            /\ db'.templates = db.templates
            /\ history'.recorded = history.recorded \cup {<<i, Day(tick[s][n].now)>>}
            /\ history'.saved = history.saved /\ history'.created = history.created
            /\ history'.late = history.late /\ history'.partial = history.partial
            /\ history'.unsaved = history.unsaved
<1> DEFINE t == tick[s][n]
           i == tick[s][n].at
           row == [db.rows[i] EXCEPT !.lastRun = t.now, !.failed = FALSE]
           rows == [db.rows EXCEPT ![i] = row]
           recorded == history.recorded \cup {<<i, Day(t.now)>>}
           r == [t EXCEPT !.pc = "due"]
<1>1. t \in TickType /\ t.now \in Nat BY TickFacts DEF TickType
<1>2. i \in Ids /\ db.rows[i] # None BY DEF RecordRun, ClockInv
<1>3. db.rows[i] \in Rows /\ db.rows \in RowTable BY <1>2, RowPayload DEF TypeInv, DbType
<1>4. row \in Rows /\ row.payload = db.rows[i].payload /\ row.lastRun = t.now
  BY <1>1, <1>3 DEF Rows
<1>5. row # None BY <1>4, NoneAssumption
<1>6. db' = [db EXCEPT !.rows = rows] BY DEF RecordRun, Moment
<1>7. rows \in RowTable /\ rows[i] = row /\ \A j \in Ids : j # i => rows[j] = db.rows[j]
  <2> HIDE DEF row
  <2> QED BY <1>2, <1>3, <1>4 DEF RowTable
<1>8. db' \in DbType /\ db'.rows = rows /\ db'.lock = db.lock /\ db'.schema = db.schema
      /\ db'.templates = db.templates
  <2> HIDE DEF rows
  <2> QED BY <1>6, <1>7 DEF TypeInv, DbType
<1>9. Day(t.now) \in Nat BY <1>1, DayType
<1>10. recorded \in SUBSET (Ids \X Nat) BY <1>2, <1>9 DEF TypeInv, HistoryType
<1>11. history' = [history EXCEPT !.recorded = recorded] BY DEF RecordRun
<1>12. /\ history' \in HistoryType /\ history'.recorded = recorded
       /\ history'.saved = history.saved /\ history'.created = history.created
       /\ history'.late = history.late /\ history'.partial = history.partial
       /\ history'.unsaved = history.unsaved /\ history'.conflicts = history.conflicts
  <2> HIDE DEF recorded
  <2> QED BY <1>10, <1>11 DEF TypeInv, HistoryType
<1>13. r \in TickType BY <1>1 DEF TickType
<1>14. tick' = [tick EXCEPT ![s][n] = r] BY DEF RecordRun
<1>15. tick' \in [Servers -> [Overlaps -> TickType]]
  <2> HIDE DEF r
  <2> QED BY <1>13, <1>14, TickStep
<1>16. TypeInv' /\ Steady
  <2> HIDE DEF r, rows, recorded
  <2> QED BY <1>8, <1>12, <1>15 DEF RecordRun, TypeInv, Steady
<1> HIDE DEF rows, recorded, row
<1>17. /\ db'.rows[i].payload = db.rows[i].payload /\ db'.rows[i] # None
       /\ db'.rows[i].lastRun = t.now
       /\ \A j \in Ids : j # i => db'.rows[j] = db.rows[j]
  BY <1>4, <1>5, <1>7, <1>8
<1> QED BY <1>2, <1>8, <1>12, <1>13, <1>14, <1>16, <1>17 DEF recorded

LEMMA RecordFailureEffect ==
  ASSUME TypeInv, ClockInv, NEW s \in Servers, NEW n \in Overlaps, RecordFailure(s, n)
  PROVE  /\ TypeInv' /\ Steady
         /\ tick' = [tick EXCEPT ![s][n] = [tick[s][n] EXCEPT !.pc = "due"]]
         /\ [tick[s][n] EXCEPT !.pc = "due"] \in TickType
         /\ \A j \in Ids :
              /\ db'.rows[j] # None <=> db.rows[j] # None
              /\ db.rows[j] # None => /\ db'.rows[j].payload = db.rows[j].payload
                                      /\ db'.rows[j].lastRun = db.rows[j].lastRun
         /\ db'.templates = db.templates
<1> DEFINE t == tick[s][n]
           i == tick[s][n].at
           row == [db.rows[i] EXCEPT !.failed = TRUE]
           rows == [db.rows EXCEPT ![i] = row]
           r == [t EXCEPT !.pc = "due"]
<1>1. t \in TickType BY TickFacts
<1>2. i \in Ids /\ db.rows[i] # None BY DEF RecordFailure, ClockInv
<1>3. db.rows[i] \in Rows /\ db.rows \in RowTable BY <1>2, RowPayload DEF TypeInv, DbType
<1>4. row \in Rows /\ row.payload = db.rows[i].payload /\ row.lastRun = db.rows[i].lastRun
  BY <1>3 DEF Rows
<1>5. row # None BY <1>4, NoneAssumption
<1>6. db' = [db EXCEPT !.rows = rows] BY DEF RecordFailure
<1>7. rows \in RowTable /\ rows[i] = row /\ \A j \in Ids : j # i => rows[j] = db.rows[j]
  <2> HIDE DEF row
  <2> QED BY <1>2, <1>3, <1>4 DEF RowTable
<1>8. db' \in DbType /\ db'.rows = rows /\ db'.lock = db.lock /\ db'.schema = db.schema
      /\ db'.templates = db.templates
  <2> HIDE DEF rows
  <2> QED BY <1>6, <1>7 DEF TypeInv, DbType
<1>9. r \in TickType BY <1>1 DEF TickType
<1>10. tick' = [tick EXCEPT ![s][n] = r] BY DEF RecordFailure
<1>11. tick' \in [Servers -> [Overlaps -> TickType]]
  <2> HIDE DEF r
  <2> QED BY <1>9, <1>10, TickStep
<1>12. TypeInv' /\ Steady
  <2> HIDE DEF r, rows
  <2> QED BY <1>8, <1>11 DEF RecordFailure, TypeInv, Steady
<1> HIDE DEF rows, row
<1>13. \A j \in Ids :
         /\ db'.rows[j] # None <=> db.rows[j] # None
         /\ db.rows[j] # None => /\ db'.rows[j].payload = db.rows[j].payload
                                 /\ db'.rows[j].lastRun = db.rows[j].lastRun
  BY <1>2, <1>4, <1>5, <1>7, <1>8
<1> QED BY <1>8, <1>9, <1>10, <1>12, <1>13

LEMMA EndTickType ==
  ASSUME TypeInv, NEW s \in Servers, NEW n \in Overlaps, EndTick(s, n)
  PROVE  TypeInv' /\ Steady
<1>1. tick' \in [Servers -> [Overlaps -> TickType]] BY NoTickType, TickStep DEF EndTick
<1> QED BY <1>1 DEF EndTick, TypeInv, Steady

LEMMA FailedRecordType ==
  ASSUME TypeInv, NEW s \in Servers, NEW n \in Overlaps, FailedRecord(s, n)
  PROVE  /\ TypeInv' /\ Steady
         /\ tick' = [tick EXCEPT ![s][n] = [tick[s][n] EXCEPT !.pc = "fail"]]
         /\ [tick[s][n] EXCEPT !.pc = "fail"] \in TickType
<1> DEFINE r == [tick[s][n] EXCEPT !.pc = "fail"]
<1>1. r \in TickType BY TickFacts DEF TickType
<1>2. tick' = [tick EXCEPT ![s][n] = r] BY DEF FailedRecord
<1>3. tick' \in [Servers -> [Overlaps -> TickType]]
  <2> HIDE DEF r
  <2> QED BY <1>1, <1>2, TickStep
<1>4. scenario' \in Scenario /\ scenario'.servers = scenario.servers BY FaultEffect DEF FailedRecord
<1> QED BY <1>1, <1>2, <1>3, <1>4 DEF FailedRecord, TypeInv, Steady

LEMMA AdvanceType ==
  ASSUME TypeInv, Advance
  PROVE  TypeInv' /\ Steady
  BY DEF Advance, TypeInv, Steady

(* A definition that is found is of a graph that was registered. *)
LEMMA DefinitionType ==
  ASSUME TypeInv, NEW s \in Servers, NEW r \in DOMAIN runs
  PROVE  /\ r \in 1 .. MaxRuns /\ runs[r] \in RunType
         /\ Definition(s, r) \in Graphs \cup {None}
<1>1. r \in 1 .. MaxRuns /\ runs[r] \in RunType BY BoundsAssumption DEF TypeInv
<1>2. server[s].definitions[r] \in Graphs \cup {None} BY <1>1, ZenonT(40) DEF TypeInv, ServerType, Definitions
<1>3. runs[r].id \in Ids /\ runs[r].version \in Versions BY <1>1 DEF RunType
<1>4. server[s].catalog[runs[r].id][runs[r].version] \in Graphs \cup {None}
  BY <1>3 DEF TypeInv, ServerType, Catalog
<1> QED BY <1>1, <1>2, <1>4 DEF Definition

LEMMA TickRunEffect ==
  ASSUME TypeInv, NEW s \in Servers, TickRun(s)
  PROVE  /\ TypeInv' /\ Steady /\ Serving(s)
         /\ \E r \in DOMAIN runs :
              /\ DOMAIN runs' = DOMAIN runs
              /\ \A k \in DOMAIN runs :
                   /\ k # r => runs'[k] = runs[k]
                   /\ runs'[k].id = runs[k].id /\ runs'[k].version = runs[k].version
                   /\ (runs'[k].again <=> runs[k].again)
              /\ \/ /\ Definition(s, r) = None /\ UNCHANGED server
                    /\ runs'[r].executed = runs[r].executed
                 \/ /\ Definition(s, r) \in Graphs /\ Definition(s, r) # None
                    /\ runs'[r].executed = runs[r].executed \cup {Definition(s, r)}
                    /\ runs'[r].status = runs[r].status
                    /\ server' = [server EXCEPT ![s].definitions[r] = Definition(s, r)]
<1>1. PICK r \in DOMAIN runs :
        IF Definition(s, r) = None
          THEN runs' = [runs EXCEPT ![r].status = "given up"] /\ UNCHANGED server
          ELSE /\ runs' = [runs EXCEPT ![r].executed = @ \cup {Definition(s, r)}]
               /\ server' = [server EXCEPT ![s].definitions[r] = Definition(s, r)]
  BY DEF TickRun
<1>2. r \in 1 .. MaxRuns /\ runs[r] \in RunType /\ Definition(s, r) \in Graphs \cup {None}
  BY DefinitionType
<1>3. runs \in Seq(RunType) /\ Len(runs) \in Nat BY DEF TypeInv
<1>4. PICK g : g = Definition(s, r) OBVIOUS
<1>5. CASE g = None
  <2> DEFINE run == [runs[r] EXCEPT !.status = "given up"]
  <2>1. run \in RunType /\ run.id = runs[r].id /\ run.version = runs[r].version
        /\ run.again = runs[r].again /\ run.executed = runs[r].executed
    BY <1>2 DEF RunType
  <2>2. runs' = [runs EXCEPT ![r] = run] /\ UNCHANGED server BY <1>1, <1>4, <1>5
  <2> HIDE DEF run
  <2>3. runs' \in Seq(RunType) /\ Len(runs') = Len(runs) /\ DOMAIN runs' = DOMAIN runs
        /\ runs'[r] = run /\ \A k \in DOMAIN runs : k # r => runs'[k] = runs[k]
    BY <1>3, <2>1, <2>2
  <2>4. TypeInv' /\ Steady BY <2>2, <2>3 DEF TickRun, TypeInv, Steady
  <2> QED BY <1>4, <1>5, <2>1, <2>2, <2>3, <2>4 DEF TickRun
<1>6. CASE g # None
  <2> DEFINE x == runs[r].executed \cup {g}
             run == [runs[r] EXCEPT !.executed = x]
  <2>0. x \in SUBSET Graphs BY <1>2, <1>4, <1>6 DEF RunType
  <2>1. run \in RunType /\ run.id = runs[r].id /\ run.version = runs[r].version
        /\ run.again = runs[r].again /\ run.executed = x /\ run.status = runs[r].status
    <3> HIDE DEF x
    <3> QED BY <1>2, <2>0 DEF RunType
  <2>2. runs' = [runs EXCEPT ![r] = run] /\ server' = [server EXCEPT ![s].definitions[r] = g]
    BY <1>1, <1>4, <1>6
  <2> HIDE DEF run
  <2>3. runs' \in Seq(RunType) /\ Len(runs') = Len(runs) /\ DOMAIN runs' = DOMAIN runs
        /\ runs'[r] = run /\ \A k \in DOMAIN runs : k # r => runs'[k] = runs[k]
    BY <1>3, <2>1, <2>2
  <2>4. server' \in [Servers -> ServerType] BY <1>2, <1>4, <2>2, ZenonT(40) DEF TypeInv, ServerType, Definitions
  <2>5. \A z \in Servers : server'[z].stage = server[z].stage /\ server'[z].left = server[z].left
    BY <2>2, StartsRunServer
  <2>6. TypeInv' /\ Steady BY <2>3, <2>4, <2>5 DEF TickRun, TypeInv, Steady
  <2>7. g \in Graphs BY <1>2, <1>4, <1>6
  <2> QED BY <1>4, <1>6, <2>1, <2>2, <2>3, <2>6, <2>7 DEF TickRun
<1> QED BY <1>5, <1>6

LEMMA InterruptedEffect ==
  ASSUME TypeInv, ShapeInv, NEW hs \in SUBSET Slots, history' = Interrupted(hs)
  PROVE  /\ history' \in HistoryType
         /\ history'.saved = history.saved /\ history'.created = history.created
         /\ history'.late = history.late /\ history'.recorded = history.recorded
         /\ history'.conflicts = history.conflicts
         /\ history.unsaved \subseteq history'.unsaved
         /\ \A h \in hs : slot[h].pc = "write" => slot[h].id \in history'.unsaved
         /\ history.partial => history'.partial
         /\ \A h \in hs : slot[h].pc = "seed" => history'.partial
<1> DEFINE u == history.unsaved \cup {slot[h].id : h \in {g \in hs : slot[g].pc = "write"}}
<1>1. PICK b \in BOOLEAN : b = (history.partial \/ \E h \in hs : slot[h].pc = "seed") OBVIOUS
<1>2. history' = [history EXCEPT !.partial = b, !.unsaved = u] BY <1>1 DEF Interrupted
<1>3. u \in SUBSET Ids BY DEF TypeInv, HistoryType, ShapeInv, Sensible
<1>4. history.unsaved \subseteq u /\ \A h \in hs : slot[h].pc = "write" => slot[h].id \in u
  OBVIOUS
<1> HIDE DEF u
<1>5. /\ history' \in HistoryType
      /\ history'.saved = history.saved /\ history'.created = history.created
      /\ history'.late = history.late /\ history'.recorded = history.recorded
      /\ history'.conflicts = history.conflicts /\ history'.unsaved = u /\ history'.partial = b
  BY <1>2, <1>3 DEF TypeInv, HistoryType
<1> QED BY <1>1, <1>4, <1>5

LEMMA FailedWriteEffect ==
  ASSUME TypeInv, ShapeInv, NEW h \in Slots, FailedWrite(h)
  PROVE  /\ TypeInv' /\ Steady
         /\ slot' = [slot EXCEPT ![h] = Idle]
         /\ history'.saved = history.saved /\ history'.created = history.created
         /\ history'.late = history.late /\ history'.recorded = history.recorded
         /\ history.unsaved \subseteq history'.unsaved
         /\ slot[h].pc = "write" => slot[h].id \in history'.unsaved
         /\ history.partial => history'.partial
         /\ slot[h].pc = "seed" => history'.partial
<1>1. history' = Interrupted({h}) /\ {h} \in SUBSET Slots BY DEF FailedWrite
<1>2. slot' = [slot EXCEPT ![h] = Idle] BY DEF FailedWrite
<1>3. slot' \in [Slots -> SlotType] BY <1>2, IdleType DEF TypeInv
<1>4. scenario' \in Scenario /\ scenario'.servers = scenario.servers BY FaultEffect DEF FailedWrite
<1>5. /\ history' \in HistoryType
      /\ history'.saved = history.saved /\ history'.created = history.created
      /\ history'.late = history.late /\ history'.recorded = history.recorded
      /\ history'.conflicts = history.conflicts
      /\ history.unsaved \subseteq history'.unsaved
      /\ slot[h].pc = "write" => slot[h].id \in history'.unsaved
      /\ history.partial => history'.partial
      /\ slot[h].pc = "seed" => history'.partial
  BY <1>1, InterruptedEffect
<1> QED BY <1>2, <1>3, <1>4, <1>5 DEF FailedWrite, TypeInv, Steady

At(s) == {h \in Slots : slot[h].pc # "idle" /\ slot[h].at = s}
LEMMA CrashEffect ==
  ASSUME TypeInv, ShapeInv, NEW s \in Servers, Crash(s)
  PROVE  /\ TypeInv' /\ scenario'.servers = scenario.servers
         /\ server' = [server EXCEPT ![s] = Fresh]
         /\ \A h \in At(s) : slot'[h] = Idle
         /\ \A h \in Slots \ At(s) : slot'[h] = slot[h]
         /\ \A n \in Overlaps : tick'[s][n] = NoTick
         /\ \A z \in Servers \ {s} : tick'[z] = tick[z]
         /\ db'.schema = db.schema /\ db'.rows = db.rows /\ db'.templates = db.templates
         /\ db'.lock = IF db.lock = s THEN None ELSE db.lock
         /\ runs' = runs /\ time' = time
         /\ history'.saved = history.saved /\ history'.created = history.created
         /\ history'.late = history.late /\ history'.recorded = history.recorded
         /\ history'.conflicts = history.conflicts
         /\ history.unsaved \subseteq history'.unsaved
         /\ \A h \in At(s) : slot[h].pc = "write" => slot[h].id \in history'.unsaved
         /\ history.partial => history'.partial
         /\ \A h \in At(s) : slot[h].pc = "seed" => history'.partial
<1>1. /\ server' = [server EXCEPT ![s] = Fresh]
      /\ slot' = [h \in Slots |-> IF h \in At(s) THEN Idle ELSE slot[h]]
      /\ tick' = [tick EXCEPT ![s] = [n \in Overlaps |-> NoTick]]
      /\ db' = [db EXCEPT !.lock = IF @ = s THEN None ELSE @]
      /\ history' = Interrupted(At(s))
      /\ UNCHANGED <<runs, time>>
  BY DEF Crash, At
<1>2. scenario' \in Scenario /\ scenario'.servers = scenario.servers BY FaultEffect DEF Crash
<1>3. server' \in [Servers -> ServerType] BY <1>1, FreshType DEF TypeInv
<1>4. /\ slot' \in [Slots -> SlotType]
      /\ \A h \in At(s) : slot'[h] = Idle
      /\ \A h \in Slots \ At(s) : slot'[h] = slot[h]
  BY <1>1, IdleType DEF TypeInv, At
<1>5. /\ tick' \in [Servers -> [Overlaps -> TickType]]
      /\ \A n \in Overlaps : tick'[s][n] = NoTick
      /\ \A z \in Servers \ {s} : tick'[z] = tick[z]
  BY <1>1, NoTickType DEF TypeInv
<1>6. /\ db' \in DbType
      /\ db'.schema = db.schema /\ db'.rows = db.rows /\ db'.templates = db.templates
      /\ db'.lock = IF db.lock = s THEN None ELSE db.lock
  BY <1>1 DEF TypeInv, DbType
<1>7. At(s) \in SUBSET Slots BY DEF At
<1>8. /\ history' \in HistoryType
      /\ history'.saved = history.saved /\ history'.created = history.created
      /\ history'.late = history.late /\ history'.recorded = history.recorded
      /\ history'.conflicts = history.conflicts
      /\ history.unsaved \subseteq history'.unsaved
      /\ \A h \in At(s) : slot[h].pc = "write" => slot[h].id \in history'.unsaved
      /\ history.partial => history'.partial
      /\ \A h \in At(s) : slot[h].pc = "seed" => history'.partial
  BY <1>1, <1>7, InterruptedEffect
<1>9. TypeInv' BY <1>1, <1>2, <1>3, <1>4, <1>5, <1>6, <1>8 DEF TypeInv
<1> QED BY <1>1, <1>2, <1>4, <1>5, <1>6, <1>8, <1>9

-----------------------------------------------------------------------------
(* Every step that neither starts a process nor ends one. *)
Works ==
  \/ \E h \in Slots :
       \/ Create(h) \/ Lookup(h) \/ Update(h) \/ Write(h) \/ TestRun(h) \/ Fetch(h) \/ StartRun(h)
       \/ ListTemplates(h) \/ EditTemplate(h) \/ OpenTemplate(h) \/ RestoreTemplate(h)
       \/ CountTemplates(h) \/ Seed(h) \/ StoreTemplate(h) \/ UseTemplate(h) \/ FailedWrite(h)
  \/ \E s \in Servers, n \in Overlaps :
       \/ ListRows(s, n) \/ ReadClock(s, n) \/ StartDue(s, n) \/ RecordRun(s, n)
       \/ RecordFailure(s, n) \/ EndTick(s, n) \/ FailedRecord(s, n)
  \/ \E s \in Servers : TickRun(s)
  \/ Advance

LEMMA NextSplit ==
  ASSUME TypeInv, Next
  PROVE  \/ Works
         \/ \E s \in scenario.servers :
              Lock(s) \/ Migrate(s) \/ Unlock(s) \/ Load(s) \/ Crash(s)
<1>1. scenario.servers \subseteq Servers /\ scenario.overlaps \subseteq Overlaps
  BY DEF TypeInv, Scenario
<1> QED BY <1>1 DEF Next, Works, StartsUp, Ticks, Answers

LEMMA WorksTypes ==
  ASSUME TypeInv, ShapeInv, TemplatesInv, ClockInv, Works
  PROVE  TypeInv' /\ Steady
<1>1. ASSUME NEW h \in Slots, ListTemplates(h) \/ EditTemplate(h) \/ OpenTemplate(h)
      PROVE  TypeInv' /\ Steady
  BY <1>1, TemplateRequestType DEF ListTemplates, EditTemplate, OpenTemplate
<1> QED BY <1>1, CreateType, LookupType, UpdateType, WriteType, TestRunType, FetchType,
           StartRunType, RestoreTemplateType, CountTemplatesType, SeedType, StoreTemplateType,
           UseTemplateType, FailedWriteEffect, ListRowsType, ReadClockType, StartDueEffect,
           RecordRunEffect, RecordFailureEffect, EndTickType, FailedRecordType, TickRunEffect,
           AdvanceType
        DEF Works

-----------------------------------------------------------------------------
(* Start-up. *)
LEMMA SteadyStartup ==
  ASSUME StartupInv, Steady
  PROVE  StartupInv'
  BY DEF StartupInv, Steady

LEMMA LockStartup ==
  ASSUME TypeInv, StartupInv, NEW s \in scenario.servers, Lock(s)
  PROVE  StartupInv'
<1>1. s \in Servers BY ScenarioFacts
<1>2. \A z \in Servers : server[z].stage # "migrating" BY NoneAssumption DEF StartupInv, Lock, LockFree
<1>3. db'.lock = s /\ db'.schema = db.schema BY DEF Lock, TypeInv, DbType
<1>4. server'[s].stage = "migrating" /\ server'[s].left = MigrationVersions \ db.schema
      /\ \A z \in Servers : z # s => server'[z] = server[z]
  BY <1>1 DEF Lock, TypeInv, ServerType
<1> QED BY <1>1, <1>2, <1>3, <1>4 DEF Lock, StartupInv

LEMMA MigrateStartup ==
  ASSUME TypeInv, StartupInv, NEW s \in scenario.servers, Migrate(s)
  PROVE  StartupInv'
<1>1. s \in Servers BY ScenarioFacts
<1>2. PICK m \in server[s].left :
        /\ server' = [server EXCEPT ![s].left = @ \ {m}]
        /\ db' = [db EXCEPT !.schema = @ \cup {m}]
  BY <1>1, MigrateType
<1>3. server[s].stage = "migrating" BY DEF Migrate
<1>4. \A z \in Servers : z # s => server[z].stage # "migrating" BY <1>1, <1>3 DEF StartupInv
<1>5. db'.lock = db.lock /\ db'.schema = db.schema \cup {m} BY <1>2 DEF TypeInv, DbType
<1>6. server'[s].stage = "migrating" /\ server'[s].left = server[s].left \ {m}
      /\ \A z \in Servers : z # s => server'[z] = server[z]
  BY <1>1, <1>2, <1>3 DEF TypeInv, ServerType
<1>7. m \in MigrationVersions /\ db.schema \subseteq MigrationVersions /\ m \notin db.schema
  BY <1>1, <1>2, <1>3 DEF StartupInv, TypeInv, DbType
<1>8. history' = history /\ scenario' = scenario BY <1>1, MigrateType DEF Migrate
<1> QED BY <1>1, <1>3, <1>4, <1>5, <1>6, <1>7, <1>8 DEF StartupInv

LEMMA UnlockStartup ==
  ASSUME TypeInv, StartupInv, NEW s \in scenario.servers, Unlock(s)
  PROVE  StartupInv'
<1>1. s \in Servers BY ScenarioFacts
<1>2. db.lock = s /\ db.schema = MigrationVersions
  BY <1>1 DEF StartupInv, Unlock, TypeInv, DbType
<1>3. db'.lock = None /\ db'.schema = db.schema BY DEF Unlock, TypeInv, DbType
<1>4. server'[s].stage = "loading" /\ \A z \in Servers : z # s => server'[z] = server[z]
  BY <1>1 DEF Unlock, TypeInv, ServerType
<1>5. \A z \in Servers : z # s => server[z].stage # "migrating" BY <1>1, <1>2 DEF StartupInv
<1> QED BY <1>1, <1>2, <1>3, <1>4, <1>5, NoneAssumption DEF StartupInv, Unlock

LEMMA LoadServer ==
  ASSUME TypeInv, NEW s \in Servers, Load(s)
  PROVE  /\ server'[s].stage = "serving" /\ server'[s].catalog = LoadedCatalog(db.rows)
         /\ server'[s].definitions = server[s].definitions
         /\ \A z \in Servers : z # s => server'[z] = server[z]
<1> DEFINE m == [i \in Ids |-> IF db.rows[i] = None THEN None ELSE db.rows[i].payload]
           c == LoadedCatalog(db.rows)
           t == LoadedTemplates(db.templates)
           r == [server[s] EXCEPT !.stage = "serving", !.memory = m, !.catalog = c, !.templates = t]
<1>1. server' = [server EXCEPT ![s] = r] BY DEF Load
<1> HIDE DEF m, c, t
<1>2. r.stage = "serving" /\ r.catalog = c /\ r.definitions = server[s].definitions
  BY DEF TypeInv, ServerType
<1> HIDE DEF r
<1> QED BY <1>1, <1>2 DEF TypeInv, c

LEMMA LoadStartup ==
  ASSUME TypeInv, StartupInv, NEW s \in scenario.servers, Load(s)
  PROVE  StartupInv'
<1>1. s \in Servers BY ScenarioFacts
<1>2. server'[s].stage = "serving" /\ \A z \in Servers : z # s => server'[z] = server[z]
  BY <1>1, LoadServer
<1> QED BY <1>1, <1>2 DEF StartupInv, Load

LEMMA CrashStartup ==
  ASSUME TypeInv, StartupInv, ShapeInv, NEW s \in scenario.servers, Crash(s)
  PROVE  StartupInv'
<1>1. s \in Servers BY ScenarioFacts
<1>2. server'[s].stage = "down" /\ \A z \in Servers : z # s => server'[z] = server[z]
  BY <1>1, CrashEffect DEF Fresh, TypeInv
<1>3. /\ db'.schema = db.schema /\ db'.lock = IF db.lock = s THEN None ELSE db.lock
      /\ history'.conflicts = history.conflicts /\ scenario'.servers = scenario.servers
  BY <1>1, CrashEffect
<1> QED BY <1>1, <1>2, <1>3, NoneAssumption DEF StartupInv

-----------------------------------------------------------------------------
(* Requests. *)
LEMMA ShapeMove ==
  ASSUME TypeInv, ShapeInv, Steady, NEW h \in Slots, NEW r, Sensible(r),
         slot' = [slot EXCEPT ![h] = r]
  PROVE  ShapeInv'
<1>1. \A g \in Slots : Sensible(slot'[g]) BY DEF ShapeInv, TypeInv
<1>2. ASSUME NEW q, Sensible(q) PROVE Sensible(q)'
  <2>1. q.pc # "idle" => q.at \in Servers BY <1>2, ScenarioFacts DEF Sensible
  <2> QED BY <1>2, <2>1, SteadyServing DEF Sensible, Steady
<1>3. \A g \in Slots : Sensible(slot[g])'
  <2> SUFFICES ASSUME NEW g \in Slots PROVE Sensible(slot[g])' OBVIOUS
  <2>1. PICK q : q = slot'[g] OBVIOUS
  <2>2. Sensible(q)' BY <1>1, <1>2, <2>1
  <2> QED BY <2>1, <2>2 DEF Sensible
<1> QED BY <1>3 DEF ShapeInv

LEMMA SensibleIdle == Sensible(Idle)
  BY IdleType DEF Sensible

(* What a new request is: the record the action gives, and where. *)
LEMMA PlacedEffect ==
  ASSUME NEW request \in SlotType, NEW s \in Servers, NEW r, r = [request EXCEPT !.at = s]
  PROVE  /\ r.pc = request.pc /\ r.at = s /\ r.kind = request.kind /\ r.id = request.id
         /\ r.payload = request.payload /\ r.instant = request.instant
         /\ r.creates = request.creates /\ r.late = request.late
         /\ r.template = request.template /\ r.todo = request.todo
         /\ r \in SlotType
  BY DEF SlotType

LEMMA CreateSlot ==
  ASSUME TypeInv, NEW h \in Slots, Create(h)
  PROVE  \E r \in SlotType, s \in scenario.servers, p \in Payload :
           /\ slot' = [slot EXCEPT ![h] = r] /\ Serving(s)
           /\ r.pc = "lookup" /\ r.at = s /\ r.id \in Ids /\ r.payload = p
           /\ r.late => r.id \in history.created
<1>1. PICK s \in scenario.servers, i \in Ids, p \in scenario.payloads :
        Asks(h, s, "create", Creation("lookup", i, p, p.schedule = Instant, i \in history.created))
  BY DEF Create
<1>2. s \in Servers /\ p \in Payload /\ "create" \in Kinds /\ "lookup" \in Pcs
  BY ScenarioFacts DEF Kinds, Pcs
<1>3. ASSUME NEW a \in BOOLEAN, NEW b \in BOOLEAN
      PROVE  LET c == Creation("lookup", i, p, a, b) IN
             c \in SlotType /\ c.pc = "lookup" /\ c.id = i /\ c.payload = p /\ (c.late <=> b)
  BY <1>2, CreationType
<1>4. (p.schedule = Instant) \in BOOLEAN /\ (i \in history.created) \in BOOLEAN OBVIOUS
<1>5. PICK c : c = Creation("lookup", i, p, p.schedule = Instant, i \in history.created) OBVIOUS
<1>6. c \in SlotType /\ c.pc = "lookup" /\ c.id = i /\ c.payload = p
      /\ (c.late <=> i \in history.created)
  BY <1>3, <1>4, <1>5
<1>7. Asks(h, s, "create", c) BY <1>1, <1>5
<1>8. slot' = [slot EXCEPT ![h] = [c EXCEPT !.at = s]] /\ Serving(s)
  BY <1>2, <1>6, <1>7, AsksEffect
<1>9. PICK r : r = [c EXCEPT !.at = s] OBVIOUS
<1>10. r.pc = "lookup" /\ r.at = s /\ r.id = i /\ r.payload = p /\ (r.late <=> i \in history.created)
       /\ r \in SlotType
  BY <1>2, <1>6, <1>9, PlacedEffect
<1> QED BY <1>2, <1>8, <1>9, <1>10

LEMMA UpdateSlot ==
  ASSUME TypeInv, NEW h \in Slots, Update(h)
  PROVE  \E r \in SlotType, s \in scenario.servers, i \in Ids, p \in Payload :
           /\ slot' = [slot EXCEPT ![h] = r] /\ Serving(s) /\ slot[h].pc = "idle"
           /\ r.pc = "write" /\ r.at = s /\ r.id = i /\ r.payload = p /\ ~r.creates
           /\ Enters(s, i, p)
<1>1. PICK s \in scenario.servers, i \in Ids, p \in scenario.payloads :
        /\ Asks(h, s, "update", [ForWorkflow("write", i) EXCEPT !.payload = p])
        /\ Enters(s, i, p)
  BY DEF Update
<1>2. s \in Servers /\ p \in Payload /\ "update" \in Kinds /\ "write" \in Pcs
  BY ScenarioFacts DEF Kinds, Pcs
<1>3. PICK f : f = ForWorkflow("write", i) OBVIOUS
<1>4. f \in SlotType /\ f.pc = "write" /\ f.id = i /\ ~f.creates BY <1>2, <1>3, ForWorkflowType
<1>5. PICK c : c = [f EXCEPT !.payload = p] OBVIOUS
<1>6. c \in SlotType /\ c.pc = "write" /\ c.id = i /\ c.payload = p /\ ~c.creates
  BY <1>2, <1>4, <1>5 DEF SlotType
<1>7. Asks(h, s, "update", c) BY <1>1, <1>3, <1>5
<1>8. slot' = [slot EXCEPT ![h] = [c EXCEPT !.at = s]] /\ Serving(s) /\ slot[h].pc = "idle"
  BY <1>2, <1>6, <1>7, AsksEffect
<1>9. PICK r : r = [c EXCEPT !.at = s] OBVIOUS
<1>10. r \in SlotType /\ r.pc = "write" /\ r.at = s /\ r.id = i /\ r.payload = p /\ ~r.creates
  BY <1>2, <1>6, <1>9, PlacedEffect
<1> QED BY <1>1, <1>2, <1>8, <1>9, <1>10

LEMMA TestRunSlot ==
  ASSUME TypeInv, NEW h \in Slots, TestRun(h)
  PROVE  \E r \in SlotType, s \in scenario.servers :
           /\ slot' = [slot EXCEPT ![h] = r] /\ Serving(s)
           /\ r.pc \in {"fetch", "start"} /\ r.at = s /\ r.id \in Ids
<1>1. PICK s \in scenario.servers, i \in Ids :
        Asks(h, s, "run", ForWorkflow(IF server[s].memory[i] = None THEN "fetch" ELSE "start", i))
  BY DEF TestRun
<1>2. PICK pc \in {"fetch", "start"} : pc = IF server[s].memory[i] = None THEN "fetch" ELSE "start"
  OBVIOUS
<1>3. PICK f : f = ForWorkflow(pc, i) OBVIOUS
<1>4. pc \in Pcs BY <1>2 DEF Pcs
<1>5. f \in SlotType /\ f.pc = pc /\ f.id = i BY <1>3, <1>4, ForWorkflowType
<1>6. s \in Servers /\ "run" \in Kinds BY ScenarioFacts DEF Kinds
<1>7. Asks(h, s, "run", f) BY <1>1, <1>2, <1>3
<1>8. slot' = [slot EXCEPT ![h] = [f EXCEPT !.at = s]] /\ Serving(s)
  BY <1>5, <1>6, <1>7, AsksEffect
<1>9. PICK r : r = [f EXCEPT !.at = s] OBVIOUS
<1>10. r \in SlotType /\ r.pc = pc /\ r.at = s /\ r.id = i BY <1>5, <1>6, <1>9, PlacedEffect
<1> QED BY <1>2, <1>8, <1>9, <1>10

LEMMA TemplateSlot ==
  ASSUME TypeInv, NEW h \in Slots, NEW s \in scenario.servers, NEW kind \in Asked,
         NEW pc \in Pcs, NEW t \in Places, Asks(h, s, kind, ForTemplate(pc, kind, t))
  PROVE  \E r \in SlotType :
           /\ slot' = [slot EXCEPT ![h] = r] /\ Serving(s)
           /\ r.pc = pc /\ r.at = s /\ r.kind = kind /\ r.template = t
<1>1. s \in Servers /\ kind \in Kinds BY ScenarioFacts DEF Kinds, Asked
<1>2. PICK f : f = ForTemplate(pc, kind, t) OBVIOUS
<1>3. f \in SlotType /\ f.pc = pc /\ f.kind = kind /\ f.template = t BY <1>2, ForTemplateType
<1>4. slot' = [slot EXCEPT ![h] = [f EXCEPT !.at = s]] /\ Serving(s) BY <1>1, <1>2, <1>3, AsksEffect
<1>5. PICK r : r = [f EXCEPT !.at = s] OBVIOUS
<1>6. r \in SlotType /\ r.pc = pc /\ r.at = s /\ r.kind = kind /\ r.template = t
  BY <1>1, <1>3, <1>5, PlacedEffect
<1> QED BY <1>4, <1>5, <1>6

LEMMA StagedEffect ==
  ASSUME NEW q \in SlotType, NEW pc \in Pcs, NEW r, r = [q EXCEPT !.pc = pc]
  PROVE  /\ r \in SlotType /\ r.pc = pc /\ r.at = q.at /\ r.kind = q.kind /\ r.id = q.id
         /\ r.payload = q.payload /\ r.creates = q.creates /\ r.late = q.late
         /\ r.template = q.template /\ r.todo = q.todo
  BY DEF SlotType

LEMMA LookupSlot ==
  ASSUME TypeInv, ShapeInv, NEW h \in Slots, Lookup(h)
  PROVE  LET q == slot[h] IN
         /\ q \in SlotType /\ q.pc = "lookup" /\ q.at \in scenario.servers /\ q.at \in Servers
         /\ Serving(q.at) /\ q.id \in Ids /\ q.payload \in Payload
         /\ \/ /\ db.rows[q.id] # None /\ slot' = [slot EXCEPT ![h] = Idle]
               /\ server' = [server EXCEPT ![q.at].memory[q.id] = Stored(q.id)]
               /\ history' = history
            \/ /\ db.rows[q.id] = None /\ Enters(q.at, q.id, q.payload)
               /\ \E r \in SlotType :
                    /\ slot' = [slot EXCEPT ![h] = r]
                    /\ r.pc = "write" /\ r.at = q.at /\ r.id = q.id /\ r.payload = q.payload
                    /\ r.late = q.late
<1> DEFINE q == slot[h]
<1>1. q \in SlotType /\ q.pc = "lookup" /\ q.at \in scenario.servers /\ q.at \in Servers
      /\ Serving(q.at) /\ q.id \in Ids /\ q.payload \in Payload
  BY ScenarioFacts DEF Lookup, TypeInv, ShapeInv, Sensible
<1>2. Stored(q.id) # None <=> db.rows[q.id] # None BY <1>1, StoredType
<1>3. PICK r : r = [q EXCEPT !.pc = "write"] OBVIOUS
<1>4. r \in SlotType /\ r.pc = "write" /\ r.at = q.at /\ r.id = q.id /\ r.payload = q.payload
      /\ r.late = q.late
  BY <1>1, <1>3, StagedEffect DEF Pcs
<1>5. CASE db.rows[q.id] # None BY <1>1, <1>2, <1>5 DEF Lookup
<1>6. CASE db.rows[q.id] = None
  <2>1. Enters(q.at, q.id, q.payload) /\ slot' = [slot EXCEPT ![h] = r]
    BY <1>2, <1>3, <1>6 DEF Lookup
  <2> QED BY <1>1, <1>4, <1>6, <2>1
<1> QED BY <1>5, <1>6

LEMMA WriteEffect ==
  ASSUME TypeInv, ShapeInv, NEW h \in Slots, Write(h)
  PROVE  LET q == slot[h] IN
         /\ q \in SlotType /\ q.pc = "write" /\ q.at \in scenario.servers /\ q.at \in Servers
         /\ Serving(q.at) /\ q.id \in Ids /\ q.payload \in Payload
         /\ db'.rows[q.id] # None /\ db'.rows[q.id].payload = q.payload
         /\ db'.rows[q.id].lastRun = IF db.rows[q.id] = None THEN None ELSE db.rows[q.id].lastRun
         /\ \A j \in Ids : j # q.id => db'.rows[j] = db.rows[j]
         /\ db'.templates = db.templates
         /\ history'.saved = history.saved /\ history'.recorded = history.recorded
         /\ history'.partial = history.partial /\ history'.unsaved = history.unsaved
         /\ \/ q.creates /\ history'.created = history.created \cup {q.id}
               /\ (history'.late <=> history.late \/ q.late)
            \/ ~q.creates /\ history' = history
         /\ \E r \in SlotType :
              /\ slot' = [slot EXCEPT ![h] = r]
              /\ r = Idle \/ (r.pc = "start" /\ r.at = q.at /\ r.id = q.id)
<1> DEFINE q == slot[h]
           w == IF db.rows[q.id] = None THEN Row(q.payload)
                ELSE [db.rows[q.id] EXCEPT !.payload = q.payload]
           r == IF q.instant THEN [ForWorkflow("start", q.id) EXCEPT !.at = q.at] ELSE Idle
<1>1. q \in SlotType /\ q.pc = "write" /\ q.at \in scenario.servers /\ q.at \in Servers
      /\ Serving(q.at) /\ q.id \in Ids /\ q.payload \in Payload /\ q.late \in BOOLEAN
  BY ScenarioFacts DEF Write, TypeInv, ShapeInv, Sensible, SlotType
<1>2. w \in Rows /\ w.payload = q.payload
      /\ w.lastRun = IF db.rows[q.id] = None THEN None ELSE db.rows[q.id].lastRun
  <2>1. Row(q.payload) \in Rows /\ Row(q.payload).payload = q.payload
        /\ Row(q.payload).lastRun = None
    BY <1>1 DEF Row, Rows
  <2>2. db.rows[q.id] # None => db.rows[q.id] \in Rows BY <1>1, RowPayload
  <2> QED BY <1>1, <2>1, <2>2 DEF Rows
<1>3. w # None BY <1>2, NoneAssumption
<1>4. db' = [db EXCEPT !.rows[q.id] = w] BY DEF Write
<1>5. /\ db'.rows[q.id] = w /\ \A j \in Ids : j # q.id => db'.rows[j] = db.rows[j]
      /\ db'.templates = db.templates
  <2> HIDE DEF w, q
  <2> QED BY <1>1, <1>2, <1>4 DEF TypeInv, DbType, RowTable
<1>6. r \in SlotType /\ (r = Idle \/ (r.pc = "start" /\ r.at = q.at /\ r.id = q.id))
  <2>1. PICK f : f = ForWorkflow("start", q.id) OBVIOUS
  <2>2. f \in SlotType /\ f.pc = "start" /\ f.id = q.id BY <1>1, <2>1, ForWorkflowType DEF Pcs
  <2>3. PICK g : g = [f EXCEPT !.at = q.at] OBVIOUS
  <2>4. g \in SlotType /\ g.pc = "start" /\ g.at = q.at /\ g.id = q.id
    BY <1>1, <2>2, <2>3, PlacedEffect
  <2>5. r = IF q.instant THEN g ELSE Idle BY <2>1, <2>3
  <2> HIDE DEF r
  <2>6. CASE q.instant
    <3>1. r = g BY <2>5, <2>6
    <3> QED BY <2>4, <3>1
  <2>7. CASE ~q.instant
    <3>1. r = Idle BY <2>5, <2>7
    <3> QED BY <3>1, IdleType
  <2> QED BY <2>6, <2>7
<1>7. slot' = [slot EXCEPT ![h] = r] BY DEF Write
<1>8. \E x \in SlotType :
        /\ slot' = [slot EXCEPT ![h] = x]
        /\ x = Idle \/ (x.pc = "start" /\ x.at = q.at /\ x.id = q.id)
  <2> HIDE DEF r
  <2> QED BY <1>6, <1>7
<1>9. /\ history'.saved = history.saved /\ history'.recorded = history.recorded
      /\ history'.partial = history.partial /\ history'.unsaved = history.unsaved
      /\ \/ q.creates /\ history'.created = history.created \cup {q.id}
            /\ (history'.late <=> history.late \/ q.late)
         \/ ~q.creates /\ history' = history
  <2>1. CASE q.creates
    <3>1. PICK i \in Ids : i = q.id BY <1>1
    <3>2. PICK late \in BOOLEAN : late = q.late BY <1>1
    <3>3. history' = CreatedHistory(i, late) BY <2>1, <3>1, <3>2 DEF Write, CreatedHistory
    <3>4. /\ history'.created = history.created \cup {i} /\ (history'.late <=> history.late \/ late)
          /\ history'.saved = history.saved /\ history'.recorded = history.recorded
          /\ history'.partial = history.partial /\ history'.unsaved = history.unsaved
      BY <3>3, HistoryCreated
    <3> QED BY <2>1, <3>1, <3>2, <3>4
  <2>2. CASE ~q.creates BY <2>2 DEF Write
  <2> QED BY <2>1, <2>2
<1> HIDE DEF w, r
<1> QED BY <1>1, <1>2, <1>3, <1>5, <1>8, <1>9

LEMMA FetchSlot ==
  ASSUME TypeInv, ShapeInv, NEW h \in Slots, Fetch(h)
  PROVE  LET q == slot[h] IN
         /\ q.at \in scenario.servers /\ q.at \in Servers /\ Serving(q.at) /\ q.id \in Ids
         /\ \E r \in SlotType :
              /\ slot' = [slot EXCEPT ![h] = r]
              /\ r = Idle \/ (r.pc = "start" /\ r.at = q.at /\ r.id = q.id)
         /\ \/ UNCHANGED server
            \/ server' = [server EXCEPT ![q.at].memory[q.id] = Stored(q.id)]
<1> DEFINE q == slot[h]
<1>1. q \in SlotType /\ q.at \in scenario.servers /\ q.at \in Servers
      /\ Serving(q.at) /\ q.id \in Ids
  BY ScenarioFacts DEF Fetch, TypeInv, ShapeInv, Sensible
<1>2. PICK r : r = [q EXCEPT !.pc = "start"] OBVIOUS
<1>3. r \in SlotType /\ r.pc = "start" /\ r.at = q.at /\ r.id = q.id
  BY <1>1, <1>2, StagedEffect DEF Pcs
<1>4. CASE Stored(q.id) = None
  <2>1. slot' = [slot EXCEPT ![h] = Idle] /\ UNCHANGED server BY <1>4 DEF Fetch
  <2>2. PICK x : x = Idle OBVIOUS
  <2>3. x \in SlotType /\ slot' = [slot EXCEPT ![h] = x] BY <2>1, <2>2, IdleType
  <2>4. \E y \in SlotType :
          /\ slot' = [slot EXCEPT ![h] = y]
          /\ y = Idle \/ (y.pc = "start" /\ y.at = q.at /\ y.id = q.id)
    BY <2>2, <2>3
  <2> QED BY <1>1, <2>1, <2>4
<1>5. CASE Stored(q.id) # None
  <2>1. slot' = [slot EXCEPT ![h] = r] /\ server' = [server EXCEPT ![q.at].memory[q.id] = Stored(q.id)]
    BY <1>2, <1>5 DEF Fetch
  <2> QED BY <1>1, <1>3, <2>1
<1> QED BY <1>4, <1>5

LEMMA OpenedEffect ==
  ASSUME NEW q \in SlotType, NEW r, r = Opened(q), q.kind \in Asked
  PROVE  /\ r \in SlotType
         /\ \/ r = Idle
            \/ /\ r.pc \in {"take", "store"} /\ r.at = q.at /\ r.template = q.template /\ r.kind = q.kind
               /\ r.pc = "take" =>
                    /\ q.kind = "use"
                    /\ server[q.at].templates[q.template] # None \/ db.templates[q.template] # None
<1>1. r \in SlotType BY OpenedType
<1>2. CASE r = Idle BY <1>1, <1>2
<1>3. CASE r # Idle
  <2>1. PICK pc \in {"take", "store"} : pc = IF q.kind = "use" THEN "take" ELSE "store" OBVIOUS
  <2>2. r = [q EXCEPT !.pc = pc] BY <1>3, <2>1 DEF Opened
  <2>3. r.pc = pc /\ r.at = q.at /\ r.template = q.template /\ r.kind = q.kind
    BY <2>1, <2>2, StagedEffect DEF Pcs
  <2>4. pc = "take" =>
          /\ q.kind = "use"
          /\ server[q.at].templates[q.template] # None \/ db.templates[q.template] # None
    BY <1>3, <2>1 DEF Opened
  <2> QED BY <1>1, <2>1, <2>3, <2>4
<1> QED BY <1>2, <1>3

(* A template that is opened is in memory, when there is one at all. *)
LEMMA OpenedMemoryEffect ==
  ASSUME TypeInv, NEW q \in SlotType, q.template \in Places, NEW memory \in TemplateRows,
         NEW m, m = OpenedMemory(q, memory)
  PROVE  /\ m \in TemplateRows
         /\ \A t \in Places : memory[t] # None => m[t] # None
         /\ q.kind = "use" /\ (memory[q.template] # None \/ db.templates[q.template] # None)
              => m[q.template] # None
<1> DEFINE t == q.template
<1>1. m \in TemplateRows BY OpenedMemoryType
<1>2. PICK read : read = IF memory[t] = None THEN db.templates[t] ELSE memory[t] OBVIOUS
<1>3. CASE q.kind = "list" BY <1>1, <1>3 DEF OpenedMemory
<1>4. CASE q.kind = "use"
  <2>1. m = [memory EXCEPT ![t] = read] BY <1>2, <1>4 DEF OpenedMemory
  <2>2. m[t] = read /\ \A u \in Places : u # t => m[u] = memory[u] BY <2>1 DEF TemplateRows
  <2> QED BY <1>1, <1>2, <2>2
<1>5. CASE q.kind \notin {"list", "use"}
  <2>1. m = [memory EXCEPT ![t] = "edited"] BY <1>5 DEF OpenedMemory
  <2>2. m[t] = "edited" /\ \A u \in Places : u # t => m[u] = memory[u] BY <2>1 DEF TemplateRows
  <2> QED BY <1>1, <1>5, <2>2, NoneAssumption
<1> QED BY <1>3, <1>4, <1>5

LEMMA CountTemplatesEffect ==
  ASSUME TypeInv, ShapeInv, NEW h \in Slots, CountTemplates(h)
  PROVE  LET q == slot[h] IN
         /\ q \in SlotType /\ q.pc = "count" /\ q.at \in scenario.servers /\ q.at \in Servers
         /\ Serving(q.at) /\ q.template \in Places /\ q.kind \in Asked
         /\ \A z \in Servers, t \in Places :
              server[z].templates[t] # None => server'[z].templates[t] # None
         /\ \A z \in Servers : server'[z].catalog = server[z].catalog
                               /\ server'[z].definitions = server[z].definitions
         /\ \E r \in SlotType :
              /\ slot' = [slot EXCEPT ![h] = r]
              /\ \/ /\ Unseeded /\ r.pc = "seed" /\ r.todo = 1 /\ r.at = q.at
                    /\ r.template = q.template /\ r.kind = q.kind
                 \/ ~Unseeded /\ r = Idle
                 \/ /\ ~Unseeded /\ r.pc \in {"take", "store"} /\ r.at = q.at
                    /\ r.template = q.template /\ r.kind = q.kind
                    /\ r.pc = "take" => server'[q.at].templates[q.template] # None
<1> DEFINE q == slot[h]
<1>1. q \in SlotType /\ q.pc = "count" /\ q.at \in scenario.servers /\ q.at \in Servers
      /\ Serving(q.at) /\ q.template \in Places /\ q.kind \in Asked
  BY ScenarioFacts DEF CountTemplates, TypeInv, ShapeInv, Sensible
<1>2. CASE Unseeded
  <2>1. 1 \in Places /\ "system" \in TemplateKinds
    BY <1>1, TemplatesAssumption DEF Places, TemplateKinds
  <2>2. server' = [server EXCEPT ![q.at].templates[1] = "system"]
        /\ slot' = [slot EXCEPT ![h].pc = "seed", ![h].todo = 1]
    BY <1>2 DEF CountTemplates
  <2>3. /\ \A z \in Servers, t \in Places :
             server[z].templates[t] # None => server'[z].templates[t] # None
        /\ \A z \in Servers : server'[z].catalog = server[z].catalog
                               /\ server'[z].definitions = server[z].definitions
    BY <1>1, <2>1, <2>2, TemplateServer, NoneAssumption, SMTT(30)
  <2> DEFINE r == [q EXCEPT !.pc = "seed", !.todo = 1]
  <2>4. r \in SlotType /\ r.pc = "seed" /\ r.todo = 1 /\ r.at = q.at
        /\ r.template = q.template /\ r.kind = q.kind
    BY <1>1 DEF SlotType, Pcs
  <2>5. slot' = [slot EXCEPT ![h] = r] BY <2>2
  <2> HIDE DEF r
  <2> QED BY <1>1, <1>2, <2>3, <2>4, <2>5
<1>3. CASE ~Unseeded
  <2>1. PICK m : m = OpenedMemory(q, server[q.at].templates) OBVIOUS
  <2>2. PICK r : r = Opened(q) OBVIOUS
  <2>3. server' = [server EXCEPT ![q.at].templates = m] /\ slot' = [slot EXCEPT ![h] = r]
    BY <1>3, <2>1, <2>2 DEF CountTemplates
  <2>4. server[q.at].templates \in TemplateRows BY <1>1 DEF TypeInv, ServerType
  <2>5. /\ m \in TemplateRows
        /\ \A t \in Places : server[q.at].templates[t] # None => m[t] # None
        /\ q.kind = "use" /\ (server[q.at].templates[q.template] # None
                              \/ db.templates[q.template] # None)
             => m[q.template] # None
    BY <1>1, <2>1, <2>4, OpenedMemoryEffect
  <2>6. /\ server'[q.at].templates = m
        /\ \A z \in Servers : z # q.at => server'[z] = server[z]
        /\ \A z \in Servers : server'[z].catalog = server[z].catalog
                               /\ server'[z].definitions = server[z].definitions
    BY <1>1, <2>3, <2>5, TemplatesServer, ZenonT(40)
  <2>7. /\ r \in SlotType
        /\ \/ r = Idle
           \/ /\ r.pc \in {"take", "store"} /\ r.at = q.at /\ r.template = q.template /\ r.kind = q.kind
              /\ r.pc = "take" =>
                   /\ q.kind = "use"
                   /\ server[q.at].templates[q.template] # None \/ db.templates[q.template] # None
    BY <1>1, <2>2, OpenedEffect
  <2>8. r.pc = "take" => r = Idle \/ server'[q.at].templates[q.template] # None
    BY <2>5, <2>6, <2>7
  <2>9. \A z \in Servers, t \in Places :
          server[z].templates[t] # None => server'[z].templates[t] # None
    BY <2>5, <2>6
  <2> QED BY <1>1, <1>3, <2>3, <2>6, <2>7, <2>8, <2>9
<1> QED BY <1>2, <1>3

LEMMA SeedEffect ==
  ASSUME TypeInv, ShapeInv, NEW h \in Slots, Seed(h)
  PROVE  LET q == slot[h] IN
         /\ q \in SlotType /\ q.pc = "seed" /\ q.at \in scenario.servers /\ q.at \in Servers
         /\ Serving(q.at) /\ q.template \in Places /\ q.kind \in Asked /\ q.todo \in Places
         /\ db'.rows = db.rows
         /\ \A t \in Places :
              /\ db.templates[t] # None => db'.templates[t] # None
              /\ t = q.todo => db'.templates[t] # None
         /\ \A z \in Servers, t \in Places :
              server[z].templates[t] # None => server'[z].templates[t] # None
         /\ \A z \in Servers : server'[z].catalog = server[z].catalog
                               /\ server'[z].definitions = server[z].definitions
         /\ \E r \in SlotType :
              /\ slot' = [slot EXCEPT ![h] = r]
              /\ \/ /\ r.pc = "seed" /\ r.todo = q.todo + 1 /\ r.todo \in Places /\ r.at = q.at
                    /\ r.template = q.template /\ r.kind = q.kind
                 \/ q.todo = Len(Templates) /\ r = Idle
                 \/ /\ q.todo = Len(Templates)
                    /\ r.pc \in {"take", "store"} /\ r.at = q.at
                    /\ r.template = q.template /\ r.kind = q.kind
                    /\ r.pc = "take" => server'[q.at].templates[q.template] # None
<1> DEFINE q == slot[h]
<1>1. q \in SlotType /\ q.pc = "seed" /\ q.at \in scenario.servers /\ q.at \in Servers
      /\ Serving(q.at) /\ q.template \in Places /\ q.kind \in Asked /\ q.todo \in Places
  BY ScenarioFacts DEF Seed, TypeInv, ShapeInv, Sensible
<1>2. "system" \in TemplateKinds /\ db' = [db EXCEPT !.templates[q.todo] = "system"]
  BY DEF TemplateKinds, Seed
<1>3. /\ db'.rows = db.rows
      /\ \A t \in Places :
           /\ db.templates[t] # None => db'.templates[t] # None
           /\ t = q.todo => db'.templates[t] # None
  BY <1>1, <1>2, TemplateDb, NoneAssumption
<1>4. CASE SeedsMore(h)
  <2>1. q.todo + 1 \in Places BY <1>1, <1>4, TemplatesAssumption DEF Places, SeedsMore
  <2>2. server' = [server EXCEPT ![q.at].templates[q.todo + 1] = "system"]
        /\ slot' = [slot EXCEPT ![h].todo = @ + 1]
    BY <1>4 DEF Seed
  <2>3. /\ \A z \in Servers, t \in Places :
             server[z].templates[t] # None => server'[z].templates[t] # None
        /\ \A z \in Servers : server'[z].catalog = server[z].catalog
                               /\ server'[z].definitions = server[z].definitions
    BY <1>1, <1>2, <2>1, <2>2, TemplateServer, NoneAssumption, SMTT(30)
  <2> DEFINE r == [q EXCEPT !.todo = q.todo + 1]
  <2>4. r \in SlotType /\ r.pc = "seed" /\ r.todo = q.todo + 1 /\ r.at = q.at
        /\ r.template = q.template /\ r.kind = q.kind
    BY <1>1 DEF SlotType, Pcs
  <2>5. slot' = [slot EXCEPT ![h] = r] BY <2>2
  <2> HIDE DEF r
  <2> QED BY <1>1, <1>3, <2>1, <2>3, <2>4, <2>5
<1>5. CASE ~SeedsMore(h)
  <2>0. q.todo = Len(Templates) BY <1>1, <1>5, TemplatesAssumption DEF Places, SeedsMore
  <2>1. PICK m : m = OpenedMemory(q, server[q.at].templates) OBVIOUS
  <2>2. PICK r : r = Opened(q) OBVIOUS
  <2>3. server' = [server EXCEPT ![q.at].templates = m] /\ slot' = [slot EXCEPT ![h] = r]
    BY <1>5, <2>1, <2>2 DEF Seed
  <2>4. server[q.at].templates \in TemplateRows BY <1>1 DEF TypeInv, ServerType
  <2>5. /\ m \in TemplateRows
        /\ \A t \in Places : server[q.at].templates[t] # None => m[t] # None
        /\ q.kind = "use" /\ (server[q.at].templates[q.template] # None
                              \/ db.templates[q.template] # None)
             => m[q.template] # None
    BY <1>1, <2>1, <2>4, OpenedMemoryEffect
  <2>6. /\ server'[q.at].templates = m
        /\ \A z \in Servers : z # q.at => server'[z] = server[z]
        /\ \A z \in Servers : server'[z].catalog = server[z].catalog
                               /\ server'[z].definitions = server[z].definitions
    BY <1>1, <2>3, <2>5, TemplatesServer, ZenonT(40)
  <2>7. /\ r \in SlotType
        /\ \/ r = Idle
           \/ /\ r.pc \in {"take", "store"} /\ r.at = q.at /\ r.template = q.template /\ r.kind = q.kind
              /\ r.pc = "take" =>
                   /\ q.kind = "use"
                   /\ server[q.at].templates[q.template] # None \/ db.templates[q.template] # None
    BY <1>1, <2>2, OpenedEffect
  <2>8. r.pc = "take" => r = Idle \/ server'[q.at].templates[q.template] # None
    BY <2>5, <2>6, <2>7
  <2>9. \A z \in Servers, t \in Places :
          server[z].templates[t] # None => server'[z].templates[t] # None
    BY <2>5, <2>6
  <2> QED BY <1>1, <1>3, <2>0, <2>3, <2>6, <2>7, <2>8, <2>9
<1> QED BY <1>4, <1>5

LEMMA UseTemplateSlot ==
  ASSUME TypeInv, ShapeInv, TemplatesInv, NEW h \in Slots, UseTemplate(h)
  PROVE  \E r \in SlotType :
           /\ slot' = [slot EXCEPT ![h] = r] /\ slot[h].pc = "take"
           /\ \/ r = Idle
              \/ /\ r.pc = "lookup" /\ r.at \in scenario.servers /\ Serving(r.at)
                 /\ r.id \in Ids /\ r.payload \in Payload
                 /\ r.late => r.id \in history.created
<1> DEFINE q == slot[h]
           k == server[q.at].templates[q.template]
<1>1. q \in SlotType /\ q.pc = "take" /\ q.at \in Servers /\ q.template \in Places
      /\ q.at \in scenario.servers /\ Serving(q.at)
  BY ScenarioFacts DEF UseTemplate, TypeInv, ShapeInv, Sensible
<1>2. k \in TemplateKinds
  <2>1. k \in TemplateKinds \cup {None} BY <1>1 DEF TypeInv, ServerType, TemplateRows
  <2> QED BY <1>1, <2>1 DEF TemplatesInv
<1>3. PICK p \in Payload : p = Drawn[k] BY <1>2, TemplatesAssumption DEF TemplateKinds
<1>4. PICK i \in Ids :
        slot' = [slot EXCEPT ![h] = IF server[q.at].memory[i] # None THEN Idle
                 ELSE [Creation("lookup", i, p, FALSE, i \in history.created) EXCEPT !.at = q.at]]
  BY <1>3 DEF UseTemplate
<1>5. ASSUME NEW a \in BOOLEAN, NEW b \in BOOLEAN
      PROVE  LET c == Creation("lookup", i, p, a, b) IN
             c \in SlotType /\ c.pc = "lookup" /\ c.id = i /\ c.payload = p /\ (c.late <=> b)
  BY CreationType DEF Pcs
<1>6. FALSE \in BOOLEAN /\ (i \in history.created) \in BOOLEAN OBVIOUS
<1>7. PICK c : c = Creation("lookup", i, p, FALSE, i \in history.created) OBVIOUS
<1>8. c \in SlotType /\ c.pc = "lookup" /\ c.id = i /\ c.payload = p
      /\ (c.late <=> i \in history.created)
  BY <1>5, <1>6, <1>7
<1>9. PICK d : d = [c EXCEPT !.at = q.at] OBVIOUS
<1>10. d \in SlotType /\ d.pc = "lookup" /\ d.at = q.at /\ d.id = i /\ d.payload = p
       /\ (d.late <=> i \in history.created)
  BY <1>1, <1>8, <1>9, PlacedEffect
<1>11. CASE server[q.at].memory[i] # None
  <2>1. slot' = [slot EXCEPT ![h] = Idle] BY <1>4, <1>11
  <2> QED BY <1>1, <2>1, IdleType
<1>12. CASE server[q.at].memory[i] = None
  <2>1. slot' = [slot EXCEPT ![h] = d] BY <1>4, <1>7, <1>9, <1>12
  <2> QED BY <1>1, <1>10, <2>1
<1> QED BY <1>11, <1>12

LEMMA RestoreTemplateEffect ==
  ASSUME TypeInv, NEW h \in Slots, RestoreTemplate(h)
  PROVE  /\ \E r \in SlotType :
              /\ slot' = [slot EXCEPT ![h] = r]
              /\ r.pc = "store" /\ r.at \in scenario.servers /\ Serving(r.at)
              /\ r.template \in Places /\ r.kind \in Asked
         /\ \A z \in Servers, t \in Places :
              server[z].templates[t] # None => server'[z].templates[t] # None
         /\ \A z \in Servers : server'[z].catalog = server[z].catalog
                               /\ server'[z].definitions = server[z].definitions
         /\ history'.saved = history.saved /\ history'.recorded = history.recorded
         /\ history'.unsaved = history.unsaved /\ history'.created = history.created
         /\ history'.late = history.late
         /\ history'.partial <=> history.partial \/ Unseeded
<1>1. PICK s \in scenario.servers, t \in 1 .. Len(Templates) :
        /\ Asks(h, s, "restore", ForTemplate("store", "restore", t))
        /\ server' = [server EXCEPT ![s].templates[t] = "system"]
        /\ history' = [history EXCEPT !.partial = @ \/ Unseeded]
  BY DEF RestoreTemplate
<1>2. s \in Servers /\ "restore" \in Asked /\ t \in Places /\ "store" \in Pcs
      /\ "system" \in TemplateKinds
  BY ScenarioFacts DEF Asked, Places, Pcs, TemplateKinds
<1>3. PICK r \in SlotType :
        /\ slot' = [slot EXCEPT ![h] = r] /\ Serving(s)
        /\ r.pc = "store" /\ r.at = s /\ r.kind = "restore" /\ r.template = t
  BY <1>1, <1>2, TemplateSlot
<1>4. /\ \A z \in Servers, u \in Places :
              server[z].templates[u] # None => server'[z].templates[u] # None
      /\ \A z \in Servers : server'[z].catalog = server[z].catalog
                               /\ server'[z].definitions = server[z].definitions
  BY <1>1, <1>2, TemplateServer, NoneAssumption, SMTT(30)
<1>5. PICK b \in BOOLEAN : b = (history.partial \/ Unseeded) OBVIOUS
<1>6. history' = [history EXCEPT !.partial = b] BY <1>1, <1>5
<1>7. /\ history'.saved = history.saved /\ history'.recorded = history.recorded
      /\ history'.unsaved = history.unsaved /\ history'.created = history.created
      /\ history'.late = history.late /\ history'.partial = b
  BY <1>6 DEF TypeInv, HistoryType
<1> QED BY <1>2, <1>3, <1>4, <1>5, <1>7

LEMMA StoreTemplateEffect ==
  ASSUME TypeInv, ShapeInv, NEW h \in Slots, StoreTemplate(h)
  PROVE  /\ slot' = [slot EXCEPT ![h] = Idle] /\ slot[h].pc = "store"
         /\ db'.rows = db.rows
         /\ \A t \in Places : db.templates[t] # None => db'.templates[t] # None
<1> DEFINE q == slot[h]
<1>1. q \in SlotType /\ q.template \in Places
  BY DEF StoreTemplate, TypeInv, ShapeInv, Sensible
<1>2. PICK k \in TemplateKinds : k = IF q.kind = "edit" THEN "edited" ELSE "system" BY DEF TemplateKinds
<1>3. db' = [db EXCEPT !.templates[q.template] = k] BY <1>2 DEF StoreTemplate
<1>4. db'.rows = db.rows
      /\ \A t \in Places : db'.templates[t] = IF t = q.template THEN k ELSE db.templates[t]
  BY <1>1, <1>3, TemplateDb
<1>5. k # None BY <1>2, NoneAssumption DEF TemplateKinds
<1> QED BY <1>4, <1>5 DEF StoreTemplate

(* A template request of any kind only takes its slot. *)
LEMMA TemplateRequestSlot ==
  ASSUME TypeInv, NEW h \in Slots, ListTemplates(h) \/ EditTemplate(h) \/ OpenTemplate(h)
  PROVE  /\ \E r \in SlotType :
              /\ slot' = [slot EXCEPT ![h] = r]
              /\ r.pc = "count" /\ r.at \in scenario.servers /\ Serving(r.at)
              /\ r.template \in Places /\ r.kind \in Asked
         /\ UNCHANGED <<db, server, tick, runs, time, history>>
<1>1. PICK kind \in {"list", "edit", "use"} : TemplateRequest(h, kind)
  BY DEF ListTemplates, EditTemplate, OpenTemplate
<1>2. PICK s \in scenario.servers, t \in 1 .. Len(Templates) :
        /\ Asks(h, s, kind, ForTemplate("count", kind, t))
        /\ UNCHANGED <<db, server, tick, runs, time, history>>
  BY <1>1 DEF TemplateRequest
<1>3. kind \in Asked /\ t \in Places /\ "count" \in Pcs BY DEF Asked, Places, Pcs
<1>4. PICK r \in SlotType :
        /\ slot' = [slot EXCEPT ![h] = r] /\ Serving(s)
        /\ r.pc = "count" /\ r.at = s /\ r.kind = kind /\ r.template = t
  BY <1>2, <1>3, TemplateSlot
<1> QED BY <1>2, <1>3, <1>4

LEMMA AnswersShape ==
  ASSUME TypeInv, ShapeInv, TemplatesInv, Steady, NEW h \in Slots,
         \/ Create(h) \/ Lookup(h) \/ Update(h) \/ Write(h) \/ TestRun(h) \/ Fetch(h) \/ StartRun(h)
         \/ ListTemplates(h) \/ EditTemplate(h) \/ OpenTemplate(h) \/ RestoreTemplate(h)
         \/ CountTemplates(h) \/ Seed(h) \/ StoreTemplate(h) \/ UseTemplate(h) \/ FailedWrite(h)
  PROVE  ShapeInv'
<1> SUFFICES \E r : Sensible(r) /\ slot' = [slot EXCEPT ![h] = r] BY ShapeMove
<1>1. CASE Create(h) BY <1>1, CreateSlot DEF Sensible
<1>2. CASE Lookup(h) BY <1>2, LookupSlot, SensibleIdle DEF Sensible
<1>3. CASE Update(h) BY <1>3, UpdateSlot DEF Sensible
<1>4. CASE Write(h) BY <1>4, WriteEffect, SensibleIdle DEF Sensible
<1>5. CASE TestRun(h) BY <1>5, TestRunSlot DEF Sensible
<1>6. CASE Fetch(h) BY <1>6, FetchSlot, SensibleIdle DEF Sensible
<1>7. CASE StartRun(h) \/ StoreTemplate(h) \/ FailedWrite(h)
  BY <1>7, SensibleIdle DEF StartRun, StoreTemplate, FailedWrite
<1>8. CASE ListTemplates(h) \/ EditTemplate(h) \/ OpenTemplate(h)
  BY <1>8, TemplateRequestSlot DEF Sensible
<1>9. CASE RestoreTemplate(h) BY <1>9, RestoreTemplateEffect DEF Sensible
<1>10. CASE CountTemplates(h)
  <2>1. 1 \in Places
    <3>1. slot[h].template \in Places BY <1>10, CountTemplatesEffect
    <3> QED BY <3>1, TemplatesAssumption DEF Places
  <2> QED BY <1>10, <2>1, CountTemplatesEffect, SensibleIdle DEF Sensible
<1>11. CASE Seed(h) BY <1>11, SeedEffect, SensibleIdle DEF Sensible
<1>12. CASE UseTemplate(h) BY <1>12, UseTemplateSlot, SensibleIdle DEF Sensible
<1> QED BY <1>1, <1>2, <1>3, <1>4, <1>5, <1>6, <1>7, <1>8, <1>9, <1>10, <1>11, <1>12

LEMMA WorksShape ==
  ASSUME TypeInv, ShapeInv, TemplatesInv, ClockInv, Works
  PROVE  ShapeInv'
<1>1. Steady BY WorksTypes
<1>2. ASSUME UNCHANGED slot PROVE ShapeInv'
  <2>1. \A h \in Slots : slot[h].pc # "idle" => slot[h].at \in Servers
    BY ScenarioFacts DEF ShapeInv, Sensible
  <2> QED BY <1>1, <1>2, <2>1, SteadyServing DEF ShapeInv, Sensible, Steady
<1>3. CASE \E s \in Servers, n \in Overlaps :
             \/ ListRows(s, n) \/ ReadClock(s, n) \/ StartDue(s, n) \/ RecordRun(s, n)
             \/ RecordFailure(s, n) \/ EndTick(s, n) \/ FailedRecord(s, n)
  <2>1. UNCHANGED slot
    <3>1. ASSUME NEW s \in Servers, NEW n \in Overlaps,
                 ListRows(s, n) \/ ReadClock(s, n) \/ EndTick(s, n) \/ FailedRecord(s, n)
          PROVE  UNCHANGED slot
      BY <3>1 DEF ListRows, ReadClock, EndTick, FailedRecord
    <3>2. ASSUME NEW s \in Servers, NEW n \in Overlaps, RecordRun(s, n) \/ RecordFailure(s, n)
          PROVE  UNCHANGED slot
      BY <3>2 DEF RecordRun, RecordFailure
    <3>3. ASSUME NEW s \in Servers, NEW n \in Overlaps, StartDue(s, n)
          PROVE  UNCHANGED slot
      BY <3>3 DEF StartDue
    <3> QED BY <1>3, <3>1, <3>2, <3>3
  <2> QED BY <1>2, <2>1
<1>4. CASE Advance \/ \E s \in Servers : TickRun(s) BY <1>2, <1>4 DEF Advance, TickRun
<1> QED BY <1>1, <1>3, <1>4, AnswersShape DEF Works

LEMMA StartupShape ==
  ASSUME TypeInv, ShapeInv, NEW s \in scenario.servers,
         \/ Lock(s) \/ Load(s) \/ Crash(s) \/ Unlock(s)
         \/ StartupInv /\ Migrate(s)
  PROVE  ShapeInv'
<1>1. s \in Servers BY ScenarioFacts
<1>2. ASSUME UNCHANGED <<slot, scenario>>, server[s].stage # "serving",
             \A z \in Servers : z # s => server'[z] = server[z]
      PROVE  ShapeInv'
  <2>1. \A h \in Slots : slot[h].pc # "idle" =>
          slot[h].at \in Servers /\ slot[h].at # s /\ server'[slot[h].at] = server[slot[h].at]
    BY <1>2, ScenarioFacts DEF ShapeInv, Sensible, Serving
  <2> QED BY <1>2, <2>1 DEF ShapeInv, Sensible, Serving
<1>3. CASE Lock(s) BY <1>1, <1>2, <1>3 DEF Lock, TypeInv
<1>4. CASE Load(s) BY <1>1, <1>2, <1>4, LoadServer DEF Load
<1>5. CASE Unlock(s) BY <1>1, <1>2, <1>5 DEF Unlock, TypeInv
<1>6. CASE StartupInv /\ Migrate(s)
  <2>1. \E m : server' = [server EXCEPT ![s].left = @ \ {m}] BY <1>1, <1>6, MigrateType
  <2> QED BY <1>1, <1>2, <1>6, <2>1 DEF Migrate, TypeInv
<1>7. CASE Crash(s)
  <2>1. /\ \A h \in At(s) : slot'[h] = Idle
        /\ \A h \in Slots \ At(s) : slot'[h] = slot[h]
        /\ server' = [server EXCEPT ![s] = Fresh]
        /\ scenario'.servers = scenario.servers
    BY <1>1, <1>7, CrashEffect
  <2> SUFFICES ASSUME NEW h \in Slots PROVE Sensible(slot[h])' BY DEF ShapeInv
  <2>2. CASE h \in At(s)
    <3>1. slot'[h].pc = "idle" BY <2>1, <2>2, IdleType
    <3> QED BY <3>1 DEF Sensible
  <2>3. CASE h \notin At(s)
    <3>1. slot'[h] = slot[h] BY <2>1, <2>3
    <3>2. slot[h].pc # "idle" => slot[h].at \in Servers /\ slot[h].at # s
      BY <2>3, ScenarioFacts DEF At, ShapeInv, Sensible
    <3>3. slot[h].pc # "idle" => server'[slot[h].at] = server[slot[h].at]
      BY <2>1, <3>2 DEF TypeInv
    <3> QED BY <2>1, <3>1, <3>2, <3>3 DEF ShapeInv, Sensible, Serving
  <2> QED BY <2>2, <2>3
<1> QED BY <1>3, <1>4, <1>5, <1>6, <1>7

-----------------------------------------------------------------------------
(* What was saved.  Most steps leave apart what is stored, registered,     *)
(* kept for a run or about to be written. *)
SameRows ==
  \A i \in Ids : /\ db'.rows[i] # None <=> db.rows[i] # None
                 /\ db.rows[i] # None => db'.rows[i].payload = db.rows[i].payload
SameKnowledge ==
  \A s \in Servers : /\ server'[s].catalog = server[s].catalog
                     /\ server'[s].definitions = server[s].definitions
SameWrites ==
  \A h \in Slots : slot[h].pc = "write" \/ slot'[h].pc = "write" => slot'[h] = slot[h]
Apart ==
  /\ SameRows /\ SameKnowledge /\ SameWrites /\ runs' = runs
  /\ history'.saved = history.saved /\ history'.unsaved = history.unsaved

LEMMA ApartSaved ==
  ASSUME SavedInv, Apart
  PROVE  SavedInv'
<1>1. \A i, v, g : WasSaved(i, v, g)' <=> WasSaved(i, v, g) BY DEF Apart, WasSaved
<1>2. \A i : Saves(i)' = Saves(i) BY DEF Apart, Saves
<1>3. (\A i \in Ids : db.rows[i] # None => <<i, db.rows[i].payload>> \in history.saved)'
  BY DEF SavedInv, Apart, SameRows
<1>4. (\A h \in Slots : slot[h].pc = "write" => <<slot[h].id, slot[h].payload>> \in history.saved)'
  BY DEF SavedInv, Apart, SameWrites
<1>5. (\A s \in Servers, i \in Ids, v \in Versions :
         server[s].catalog[i][v] # None => WasSaved(i, v, server[s].catalog[i][v]))'
  BY DEF SavedInv, Apart, SameKnowledge, WasSaved
<1>6. (\A s \in Servers, r \in 1 .. MaxRuns :
         server[s].definitions[r] # None =>
           r \in DOMAIN runs /\ WasSaved(runs[r].id, runs[r].version, server[s].definitions[r]))'
  BY DEF SavedInv, Apart, SameKnowledge, WasSaved
<1>7. (\A r \in DOMAIN runs :
         /\ Saves(runs[r].id) # {}
         /\ \A g \in runs[r].executed : WasSaved(runs[r].id, runs[r].version, g))'
  BY DEF SavedInv, Apart, WasSaved, Saves
<1> QED BY <1>3, <1>4, <1>5, <1>6, <1>7 DEF SavedInv

LEMMA ApartMove ==
  ASSUME TypeInv, NEW h \in Slots, NEW r, slot' = [slot EXCEPT ![h] = r],
         slot[h].pc # "write", r.pc # "write"
  PROVE  SameWrites
  BY DEF TypeInv, SameWrites

LEMMA MemoryKnowledge ==
  ASSUME TypeInv, NEW s \in Servers, NEW i \in Ids, NEW p,
         server' = [server EXCEPT ![s].memory[i] = p]
  PROVE  SameKnowledge
  BY DEF TypeInv, ServerType, SameKnowledge

(* The actions that leave all this apart. *)
LEMMA CreateApart ==
  ASSUME TypeInv, NEW h \in Slots, Create(h)
  PROVE  Apart
<1>1. slot[h].pc = "idle" BY DEF Create, Asks
<1>2. SameWrites BY <1>1, CreateSlot, ApartMove
<1> QED BY <1>2 DEF Create, Apart, SameRows, SameKnowledge

LEMMA TestRunApart ==
  ASSUME TypeInv, NEW h \in Slots, TestRun(h)
  PROVE  Apart
<1>1. slot[h].pc = "idle" BY DEF TestRun, Asks
<1>2. SameWrites BY <1>1, TestRunSlot, ApartMove
<1> QED BY <1>2 DEF TestRun, Apart, SameRows, SameKnowledge

LEMMA FetchApart ==
  ASSUME TypeInv, ShapeInv, NEW h \in Slots, Fetch(h)
  PROVE  Apart
<1>1. slot[h].pc = "fetch" BY DEF Fetch
<1>2. SameWrites BY <1>1, FetchSlot, ApartMove, IdleType
<1>3. SameKnowledge
  <2>1. CASE UNCHANGED server BY <2>1 DEF SameKnowledge
  <2>2. CASE server' = [server EXCEPT ![slot[h].at].memory[slot[h].id] = Stored(slot[h].id)]
    BY <2>2, FetchSlot, MemoryKnowledge
  <2> QED BY <2>1, <2>2, FetchSlot
<1> QED BY <1>2, <1>3 DEF Fetch, Apart, SameRows

LEMMA TemplateRequestApart ==
  ASSUME TypeInv, NEW h \in Slots, ListTemplates(h) \/ EditTemplate(h) \/ OpenTemplate(h)
  PROVE  Apart
<1>1. slot[h].pc = "idle" BY DEF ListTemplates, EditTemplate, OpenTemplate, TemplateRequest, Asks
<1>2. SameWrites BY <1>1, TemplateRequestSlot, ApartMove
<1>3. UNCHANGED <<db, server, tick, runs, time, history>> BY TemplateRequestSlot
<1> QED BY <1>2, <1>3 DEF Apart, SameRows, SameKnowledge

LEMMA RestoreTemplateApart ==
  ASSUME TypeInv, NEW h \in Slots, RestoreTemplate(h)
  PROVE  Apart
<1>1. slot[h].pc = "idle" BY DEF RestoreTemplate, Asks
<1>2. SameWrites BY <1>1, RestoreTemplateEffect, ApartMove
<1>3. SameKnowledge /\ history'.saved = history.saved /\ history'.unsaved = history.unsaved
  BY RestoreTemplateEffect DEF SameKnowledge
<1> QED BY <1>2, <1>3 DEF RestoreTemplate, Apart, SameRows

LEMMA CountTemplatesApart ==
  ASSUME TypeInv, ShapeInv, NEW h \in Slots, CountTemplates(h)
  PROVE  Apart
<1>1. slot[h].pc = "count" BY DEF CountTemplates
<1>2. SameWrites BY <1>1, CountTemplatesEffect, ApartMove, IdleType
<1>3. SameKnowledge BY CountTemplatesEffect DEF SameKnowledge
<1> QED BY <1>2, <1>3 DEF CountTemplates, Apart, SameRows

LEMMA SeedApart ==
  ASSUME TypeInv, ShapeInv, NEW h \in Slots, Seed(h)
  PROVE  Apart
<1>1. slot[h].pc = "seed" BY DEF Seed
<1>2. SameWrites BY <1>1, SeedEffect, ApartMove, IdleType
<1>3. SameKnowledge BY SeedEffect DEF SameKnowledge
<1>4. SameRows BY SeedEffect DEF SameRows
<1> QED BY <1>2, <1>3, <1>4 DEF Seed, Apart

LEMMA StoreTemplateApart ==
  ASSUME TypeInv, ShapeInv, NEW h \in Slots, StoreTemplate(h)
  PROVE  Apart
<1>2. SameWrites BY StoreTemplateEffect, ApartMove, IdleType
<1>4. SameRows BY StoreTemplateEffect DEF SameRows
<1> QED BY <1>2, <1>4 DEF StoreTemplate, Apart, SameKnowledge

LEMMA UseTemplateApart ==
  ASSUME TypeInv, ShapeInv, TemplatesInv, NEW h \in Slots, UseTemplate(h)
  PROVE  Apart
<1>2. SameWrites BY UseTemplateSlot, ApartMove, IdleType
<1> QED BY <1>2 DEF UseTemplate, Apart, SameRows, SameKnowledge

LEMMA TicksApart ==
  ASSUME TypeInv, ClockInv, NEW s \in Servers, NEW n \in Overlaps,
         \/ ListRows(s, n) \/ ReadClock(s, n) \/ RecordRun(s, n)
         \/ RecordFailure(s, n) \/ EndTick(s, n) \/ FailedRecord(s, n)
  PROVE  Apart
<1>1. CASE ListRows(s, n) \/ ReadClock(s, n) \/ EndTick(s, n) \/ FailedRecord(s, n)
  BY <1>1 DEF ListRows, ReadClock, EndTick, FailedRecord, Apart, SameRows, SameKnowledge, SameWrites
<1>2. CASE RecordRun(s, n)
  <2>1. SameRows BY <1>2, RecordRunEffect DEF SameRows
  <2>2. history'.saved = history.saved /\ history'.unsaved = history.unsaved
    BY <1>2, RecordRunEffect
  <2> QED BY <1>2, <2>1, <2>2 DEF RecordRun, Apart, SameKnowledge, SameWrites
<1>3. CASE RecordFailure(s, n)
  <2>1. SameRows BY <1>3, RecordFailureEffect DEF SameRows
  <2> QED BY <1>3, <2>1 DEF RecordFailure, Apart, SameKnowledge, SameWrites
<1> QED BY <1>1, <1>2, <1>3

LEMMA StartsUpApart ==
  ASSUME TypeInv, StartupInv, NEW s \in Servers,
         Lock(s) \/ Migrate(s) \/ Unlock(s)
  PROVE  Apart
<1>1. CASE Lock(s)
  BY <1>1 DEF Lock, TypeInv, DbType, ServerType, Apart, SameRows, SameKnowledge, SameWrites
<1>2. CASE Unlock(s)
  BY <1>2 DEF Unlock, TypeInv, DbType, ServerType, Apart, SameRows, SameKnowledge, SameWrites
<1>3. CASE Migrate(s)
  <2>1. history' = history
        /\ \E m \in server[s].left :
              /\ server' = [server EXCEPT ![s].left = @ \ {m}]
              /\ db' = [db EXCEPT !.schema = @ \cup {m}]
    BY <1>3, MigrateType
  <2> QED BY <1>3, <2>1 DEF Migrate, TypeInv, DbType, ServerType, Apart, SameRows,
                            SameKnowledge, SameWrites
<1> QED BY <1>1, <1>2, <1>3

LEMMA AdvanceApart ==
  ASSUME Advance
  PROVE  Apart
  BY DEF Advance, Apart, SameRows, SameKnowledge, SameWrites

LEMMA LookupApart ==
  ASSUME TypeInv, ShapeInv, NEW h \in Slots, Lookup(h), db.rows[slot[h].id] # None
  PROVE  Apart
<1>1. slot[h].pc = "lookup" /\ slot' = [slot EXCEPT ![h] = Idle] /\ history' = history
      /\ slot[h].at \in Servers /\ slot[h].id \in Ids
      /\ server' = [server EXCEPT ![slot[h].at].memory[slot[h].id] = Stored(slot[h].id)]
  BY LookupSlot
<1>2. SameWrites BY <1>1, ApartMove, IdleType
<1>3. SameKnowledge BY <1>1, MemoryKnowledge
<1> QED BY <1>1, <1>2, <1>3 DEF Lookup, Apart, SameRows

(* The steps that do not. *)
LEMMA SavedGrows ==
  ASSUME history.saved \subseteq history'.saved
  PROVE  /\ \A i, v, g : WasSaved(i, v, g) => WasSaved(i, v, g)'
         /\ \A i : Saves(i) # {} => Saves(i)' # {}
  BY DEF WasSaved, Saves

(* a request enters a workflow and goes on to write it *)
EntersTo(h, s, i, p) ==
  /\ Enters(s, i, p) /\ slot[h].pc # "write"
  /\ \E r \in SlotType : /\ slot' = [slot EXCEPT ![h] = r]
                         /\ r.pc = "write" /\ r.at = s /\ r.id = i /\ r.payload = p
  /\ UNCHANGED <<db, tick, runs, time>>

LEMMA LookupEnters ==
  ASSUME TypeInv, ShapeInv, NEW h \in Slots, Lookup(h), db.rows[slot[h].id] = None
  PROVE  /\ EntersTo(h, slot[h].at, slot[h].id, slot[h].payload)
         /\ slot[h].at \in scenario.servers /\ slot[h].at \in Servers
         /\ slot[h].id \in Ids /\ slot[h].payload \in Payload
  BY LookupSlot DEF EntersTo, Lookup

LEMMA UpdateEnters ==
  ASSUME TypeInv, NEW h \in Slots, Update(h)
  PROVE  \E s \in scenario.servers, i \in Ids, p \in Payload : EntersTo(h, s, i, p)
  BY UpdateSlot DEF EntersTo, Update

LEMMA EntersSaved ==
  ASSUME TypeInv, SavedInv, NEW h \in Slots, NEW s \in Servers, NEW i \in Ids, NEW p \in Payload,
         EntersTo(h, s, i, p)
  PROVE  SavedInv'
<1>1. history'.saved = history.saved \cup {<<i, p>>} BY EntersHistory DEF EntersTo
<1>2. /\ \A j, v, g : WasSaved(j, v, g) => WasSaved(j, v, g)'
      /\ \A j : Saves(j) # {} => Saves(j)' # {}
  BY <1>1, SavedGrows
<1>3. (\A j \in Ids : db.rows[j] # None => <<j, db.rows[j].payload>> \in history.saved)'
  BY <1>1 DEF SavedInv, EntersTo
<1>4. (\A g \in Slots : slot[g].pc = "write" => <<slot[g].id, slot[g].payload>> \in history.saved)'
  BY <1>1 DEF SavedInv, EntersTo, TypeInv
<1>5. /\ \A z \in Servers : z # s => server'[z] = server[z]
      /\ server'[s].catalog = Registered(server[s].catalog, i, p)
      /\ server'[s].definitions = server[s].definitions
  BY EntersServer DEF EntersTo
<1>6. server[s].catalog \in Catalog BY DEF TypeInv, ServerType
<1>7. WasSaved(i, p.version, p.graph)'
  <2>1. PICK e : e = <<i, p>> OBVIOUS
  <2>2. e \in history'.saved /\ e[1] = i /\ e[2] = p BY <1>1, <2>1
  <2> QED BY <2>2 DEF WasSaved
<1>8. (\A z \in Servers, j \in Ids, v \in Versions :
         server[z].catalog[j][v] # None => WasSaved(j, v, server[z].catalog[j][v]))'
  <2> SUFFICES ASSUME NEW z \in Servers, NEW j \in Ids, NEW v \in Versions,
                      server'[z].catalog[j][v] # None
               PROVE  WasSaved(j, v, server[z].catalog[j][v])'
    OBVIOUS
  <2>1. PICK g : g = server'[z].catalog[j][v] OBVIOUS
  <2>2. WasSaved(j, v, g)'
    <3>1. CASE z = s /\ j = i /\ v = p.version
      <4>1. g = p.graph BY <1>5, <1>6, <2>1, <3>1, RegisteredType
      <4> QED BY <1>7, <3>1, <4>1
    <3>2. CASE ~(z = s /\ j = i /\ v = p.version)
      <4>1. g = server[z].catalog[j][v] BY <1>5, <1>6, <2>1, <3>2, RegisteredType
      <4>2. WasSaved(j, v, g) BY <2>1, <4>1 DEF SavedInv
      <4> QED BY <1>2, <4>2
    <3> QED BY <3>1, <3>2
  <2> QED BY <2>1, <2>2 DEF WasSaved
<1>9. \A z \in Servers : server'[z].definitions = server[z].definitions BY <1>5
<1>10. (\A z \in Servers, r \in 1 .. MaxRuns :
         server[z].definitions[r] # None =>
           r \in DOMAIN runs /\ WasSaved(runs[r].id, runs[r].version, server[z].definitions[r]))'
  BY <1>1, <1>9 DEF SavedInv, EntersTo, WasSaved
<1>11. (\A r \in DOMAIN runs :
         /\ Saves(runs[r].id) # {}
         /\ \A g \in runs[r].executed : WasSaved(runs[r].id, runs[r].version, g))'
  BY <1>1 DEF SavedInv, EntersTo, WasSaved, Saves
<1> QED BY <1>3, <1>4, <1>8, <1>10, <1>11 DEF SavedInv

LEMMA WriteSaved ==
  ASSUME TypeInv, ShapeInv, SavedInv, NEW h \in Slots, Write(h)
  PROVE  SavedInv'
<1>1. history'.saved = history.saved BY WriteEffect
<1>2. UNCHANGED <<server, runs>> BY DEF Write
<1>3. (\A j \in Ids : db.rows[j] # None => <<j, db.rows[j].payload>> \in history.saved)'
  BY <1>1, WriteEffect DEF SavedInv
<1>4. (\A g \in Slots : slot[g].pc = "write" => <<slot[g].id, slot[g].payload>> \in history.saved)'
  BY <1>1, WriteEffect, IdleType DEF SavedInv, TypeInv
<1>5. (\A s \in Servers, i \in Ids, v \in Versions :
         server[s].catalog[i][v] # None => WasSaved(i, v, server[s].catalog[i][v]))'
  BY <1>1, <1>2 DEF SavedInv, WasSaved
<1>6. (\A s \in Servers, r \in 1 .. MaxRuns :
         server[s].definitions[r] # None =>
           r \in DOMAIN runs /\ WasSaved(runs[r].id, runs[r].version, server[s].definitions[r]))'
  BY <1>1, <1>2 DEF SavedInv, WasSaved
<1>7. (\A r \in DOMAIN runs :
         /\ Saves(runs[r].id) # {}
         /\ \A g \in runs[r].executed : WasSaved(runs[r].id, runs[r].version, g))'
  BY <1>1, <1>2 DEF SavedInv, WasSaved, Saves
<1> QED BY <1>3, <1>4, <1>5, <1>6, <1>7 DEF SavedInv

(* a run is started; the rest is apart *)
LEMMA StartsRunSaved ==
  ASSUME TypeInv, SavedInv, NEW s \in Servers, NEW i \in Ids, Known(s, i) # {},
         NEW by \in {"request", "schedule"}, NEW again \in BOOLEAN, StartsRun(s, i, by, again),
         SameRows, SameWrites, history'.saved = history.saved
  PROVE  SavedInv'
<1> DEFINE n == Len(runs) + 1
           w == Latest(s, i)
           g == server[s].catalog[i][w]
<1>1. /\ runs' \in Seq(RunType) /\ Len(runs') <= MaxRuns /\ Len(runs') = Len(runs) + 1
      /\ \A r \in DOMAIN runs : r \in DOMAIN runs' /\ runs'[r] = runs[r]
      /\ \A r \in DOMAIN runs' \ DOMAIN runs : r = n
      /\ runs'[n].id = i /\ runs'[n].version = w /\ runs'[n].executed = {}
      /\ server' = [server EXCEPT ![s].definitions[n] = g]
  BY StartsRunEffect
<1>2. w \in Versions /\ g # None BY LatestKnown DEF Known
<1>3. WasSaved(i, w, g) BY <1>2 DEF SavedInv
<1>4. Saves(i) # {} BY <1>3 DEF WasSaved, Saves
<1>5. n \in DOMAIN runs' BY <1>1 DEF TypeInv
<1>6. /\ \A z \in Servers : server'[z].catalog = server[z].catalog
      /\ \A z \in Servers, m \in 1 .. MaxRuns :
           server'[z].definitions[m] = IF z = s /\ m = n THEN g ELSE server[z].definitions[m]
  <2>1. PICK x, m : x = g /\ m = n OBVIOUS
  <2>2. Keeps(s, m, x) BY <1>1, <2>1 DEF Keeps
  <2>3. /\ \A z \in Servers : server'[z].catalog = server[z].catalog
        /\ \A z \in Servers, k \in 1 .. MaxRuns :
              server'[z].definitions[k] = IF z = s /\ k = m THEN x ELSE server[z].definitions[k]
    BY <2>2, KeepsServer
  <2> HIDE DEF g, n
  <2> QED BY <2>1, <2>3
<1> HIDE DEF g, w, n
<1>7. \A j, v, x : WasSaved(j, v, x)' <=> WasSaved(j, v, x) BY DEF WasSaved
<1>8. (\A j \in Ids : db.rows[j] # None => <<j, db.rows[j].payload>> \in history.saved)'
  BY DEF SavedInv, SameRows
<1>9. (\A h \in Slots : slot[h].pc = "write" => <<slot[h].id, slot[h].payload>> \in history.saved)'
  BY DEF SavedInv, SameWrites
<1>10. (\A z \in Servers, j \in Ids, v \in Versions :
         server[z].catalog[j][v] # None => WasSaved(j, v, server[z].catalog[j][v]))'
  BY <1>6 DEF SavedInv, WasSaved
<1>11. (\A z \in Servers, r \in 1 .. MaxRuns :
         server[z].definitions[r] # None =>
           r \in DOMAIN runs /\ WasSaved(runs[r].id, runs[r].version, server[z].definitions[r]))'
  <2> SUFFICES ASSUME NEW z \in Servers, NEW r \in 1 .. MaxRuns, server'[z].definitions[r] # None
               PROVE  r \in DOMAIN runs'
                      /\ WasSaved(runs[r].id, runs[r].version, server[z].definitions[r])'
    OBVIOUS
  <2>1. CASE z = s /\ r = n
    <3>1. runs'[r].id = i /\ runs'[r].version = w /\ server'[z].definitions[r] = g
      BY <1>1, <1>6, <2>1
    <3> QED BY <1>3, <1>5, <2>1, <3>1 DEF WasSaved
  <2>2. CASE ~(z = s /\ r = n)
    <3>1. server'[z].definitions[r] = server[z].definitions[r] BY <1>6, <2>2
    <3>2. r \in DOMAIN runs /\ WasSaved(runs[r].id, runs[r].version, server[z].definitions[r])
      BY <3>1 DEF SavedInv
    <3>3. r \in DOMAIN runs' /\ runs'[r] = runs[r] BY <1>1, <3>2
    <3> QED BY <3>1, <3>2, <3>3 DEF WasSaved
  <2> QED BY <2>1, <2>2
<1>12. (\A r \in DOMAIN runs :
         /\ Saves(runs[r].id) # {}
         /\ \A x \in runs[r].executed : WasSaved(runs[r].id, runs[r].version, x))'
  <2> SUFFICES ASSUME NEW r \in DOMAIN runs'
               PROVE  /\ Saves(runs[r].id)' # {}
                      /\ \A x \in runs'[r].executed : WasSaved(runs[r].id, runs[r].version, x)'
    OBVIOUS
  <2>1. CASE r \in DOMAIN runs
    <3>1. runs'[r] = runs[r] BY <1>1, <2>1
    <3> QED BY <2>1, <3>1 DEF SavedInv, WasSaved, Saves
  <2>2. CASE r \notin DOMAIN runs
    <3>1. r = n BY <1>1, <2>2
    <3> QED BY <1>1, <1>4, <3>1 DEF Saves
  <2> QED BY <2>1, <2>2
<1> QED BY <1>8, <1>9, <1>10, <1>11, <1>12 DEF SavedInv

LEMMA StartRunSaved ==
  ASSUME TypeInv, ShapeInv, SavedInv, NEW h \in Slots, StartRun(h)
  PROVE  SavedInv'
<1> DEFINE q == slot[h]
<1>1. q.pc = "start" /\ q.at \in Servers /\ q.id \in Ids
  BY ScenarioFacts DEF StartRun, TypeInv, ShapeInv, Sensible
<1>2. SameWrites /\ SameRows /\ history' = history
  BY <1>1, ApartMove, IdleType DEF StartRun, SameRows
<1>3. CASE Known(q.at, q.id) = {}
  <2>1. Apart BY <1>2, <1>3 DEF StartRun, Apart, SameKnowledge
  <2> QED BY <2>1, ApartSaved
<1>4. CASE Known(q.at, q.id) # {}
  <2>1. StartsRun(q.at, q.id, "request", FALSE) BY <1>4 DEF StartRun
  <2> QED BY <1>1, <1>2, <1>4, <2>1, StartsRunSaved
<1> QED BY <1>3, <1>4

LEMMA StartDueSaved ==
  ASSUME TypeInv, SavedInv, NEW s \in Servers, NEW n \in Overlaps, StartDue(s, n)
  PROVE  SavedInv'
<1> DEFINE t == tick[s][n]
<1>1. PICK i \in Ids :
        \/ UNCHANGED <<runs, server>>
        \/ /\ Known(s, i) # {}
           /\ StartsRun(s, i, "schedule", <<i, Day(t.now)>> \in t.knows)
  BY StartDueEffect
<1>2. SameWrites /\ SameRows /\ history' = history BY DEF StartDue, SameRows, SameWrites
<1>3. CASE UNCHANGED <<runs, server>>
  <2>1. Apart BY <1>2, <1>3 DEF Apart, SameKnowledge
  <2> QED BY <2>1, ApartSaved
<1>4. CASE Known(s, i) # {} /\ StartsRun(s, i, "schedule", <<i, Day(t.now)>> \in t.knows)
  <2>1. ASSUME NEW again \in BOOLEAN, StartsRun(s, i, "schedule", again)
        PROVE  SavedInv'
    BY <1>2, <1>4, <2>1, StartsRunSaved
  <2>2. (<<i, Day(t.now)>> \in t.knows) \in BOOLEAN OBVIOUS
  <2> HIDE DEF SavedInv
  <2> QED BY <1>4, <2>1, <2>2
<1> QED BY <1>1, <1>3, <1>4

LEMMA DefinitionSaved ==
  ASSUME TypeInv, SavedInv, NEW s \in Servers, NEW r \in DOMAIN runs, Definition(s, r) # None
  PROVE  WasSaved(runs[r].id, runs[r].version, Definition(s, r))
<1>1. r \in 1 .. MaxRuns /\ runs[r].id \in Ids /\ runs[r].version \in Versions
  BY DefinitionType DEF RunType
<1>2. CASE server[s].definitions[r] # None BY <1>1, <1>2 DEF Definition, SavedInv
<1>3. CASE server[s].definitions[r] = None BY <1>1, <1>3 DEF Definition, SavedInv
<1> QED BY <1>2, <1>3

LEMMA TickRunSaved ==
  ASSUME TypeInv, SavedInv, NEW s \in Servers, TickRun(s)
  PROVE  SavedInv'
<1>1. PICK r \in DOMAIN runs :
        /\ DOMAIN runs' = DOMAIN runs
        /\ \A k \in DOMAIN runs :
             /\ k # r => runs'[k] = runs[k]
             /\ runs'[k].id = runs[k].id /\ runs'[k].version = runs[k].version
        /\ \/ /\ Definition(s, r) = None /\ UNCHANGED server
              /\ runs'[r].executed = runs[r].executed
           \/ /\ Definition(s, r) \in Graphs /\ Definition(s, r) # None
              /\ runs'[r].executed = runs[r].executed \cup {Definition(s, r)}
              /\ server' = [server EXCEPT ![s].definitions[r] = Definition(s, r)]
  BY TickRunEffect
<1>2. PICK g : g = Definition(s, r) OBVIOUS
<1>3. g # None => WasSaved(runs[r].id, runs[r].version, g) BY <1>2, DefinitionSaved
<1>4. \A j, v, x : WasSaved(j, v, x)' <=> WasSaved(j, v, x) BY DEF TickRun, WasSaved
<1>5. UNCHANGED <<db, slot, history>> BY DEF TickRun
<1>6. /\ \A z \in Servers : server'[z].catalog = server[z].catalog
      /\ \A z \in Servers, m \in 1 .. MaxRuns :
           \/ server'[z].definitions[m] = server[z].definitions[m]
           \/ z = s /\ m = r /\ g # None /\ server'[z].definitions[m] = g
  <2>1. CASE UNCHANGED server BY <2>1
  <2>2. CASE g # None /\ server' = [server EXCEPT ![s].definitions[r] = Definition(s, r)]
    <3>1. Keeps(s, r, g) BY <1>2, <2>2 DEF Keeps
    <3> QED BY <2>2, <3>1, KeepsServer
  <2> QED BY <1>1, <1>2, <2>1, <2>2
<1>7. \A k \in DOMAIN runs : \A x \in runs'[k].executed :
        x \in runs[k].executed \/ (k = r /\ g # None /\ x = g)
  BY <1>1, <1>2
<1>8. (\A z \in Servers, m \in 1 .. MaxRuns :
         server[z].definitions[m] # None =>
           m \in DOMAIN runs /\ WasSaved(runs[m].id, runs[m].version, server[z].definitions[m]))'
  <2> SUFFICES ASSUME NEW z \in Servers, NEW m \in 1 .. MaxRuns, server'[z].definitions[m] # None
               PROVE  m \in DOMAIN runs'
                      /\ WasSaved(runs[m].id, runs[m].version, server[z].definitions[m])'
    OBVIOUS
  <2>1. PICK x : x = server'[z].definitions[m] OBVIOUS
  <2>2. m \in DOMAIN runs /\ WasSaved(runs[m].id, runs[m].version, x)
    BY <1>3, <1>6, <2>1 DEF SavedInv
  <2>3. runs'[m].id = runs[m].id /\ runs'[m].version = runs[m].version BY <1>1, <2>2
  <2> QED BY <1>1, <1>5, <2>1, <2>2, <2>3 DEF WasSaved
<1>9. (\A k \in DOMAIN runs :
         /\ Saves(runs[k].id) # {}
         /\ \A x \in runs[k].executed : WasSaved(runs[k].id, runs[k].version, x))'
  <2> SUFFICES ASSUME NEW k \in DOMAIN runs
               PROVE  /\ Saves(runs[k].id)' # {}
                      /\ \A x \in runs'[k].executed : WasSaved(runs[k].id, runs[k].version, x)'
    BY <1>1
  <2>1. runs'[k].id = runs[k].id /\ runs'[k].version = runs[k].version BY <1>1
  <2>2. Saves(runs[k].id) # {} BY DEF SavedInv
  <2>3. \A x \in runs'[k].executed : WasSaved(runs[k].id, runs[k].version, x)
    BY <1>3, <1>7 DEF SavedInv
  <2> QED BY <1>5, <2>1, <2>2, <2>3 DEF WasSaved, Saves
<1>10. (\A j \in Ids : db.rows[j] # None => <<j, db.rows[j].payload>> \in history.saved)'
  BY <1>5 DEF SavedInv
<1>11. (\A h \in Slots : slot[h].pc = "write" => <<slot[h].id, slot[h].payload>> \in history.saved)'
  BY <1>5 DEF SavedInv
<1>12. (\A z \in Servers, j \in Ids, v \in Versions :
         server[z].catalog[j][v] # None => WasSaved(j, v, server[z].catalog[j][v]))'
  BY <1>5, <1>6 DEF SavedInv, WasSaved
<1> QED BY <1>8, <1>9, <1>10, <1>11, <1>12 DEF SavedInv

LEMMA LoadedCatalogEffect ==
  ASSUME TypeInv, NEW i \in Ids, NEW v \in Versions
  PROVE  /\ LoadedCatalog(db.rows)[i][v] # None =>
              /\ db.rows[i] # None /\ db.rows[i].payload.version = v
              /\ LoadedCatalog(db.rows)[i][v] = db.rows[i].payload.graph
         /\ db.rows[i] # None /\ db.rows[i].payload.version = v => LoadedCatalog(db.rows)[i][v] # None
<1>1. db.rows[i] # None => db.rows[i].payload.graph \in Graphs BY RowPayload DEF Payload
<1>2. LoadedCatalog(db.rows)[i][v] =
        IF db.rows[i] # None /\ db.rows[i].payload.version = v THEN db.rows[i].payload.graph ELSE None
  BY DEF LoadedCatalog
<1> QED BY <1>1, <1>2, NoneAssumption

LEMMA LoadSaved ==
  ASSUME TypeInv, SavedInv, NEW s \in Servers, Load(s)
  PROVE  SavedInv'
<1>1. /\ server'[s].catalog = LoadedCatalog(db.rows)
      /\ server'[s].definitions = server[s].definitions
      /\ \A z \in Servers : z # s => server'[z] = server[z]
  BY LoadServer
<1>2. UNCHANGED <<db, slot, runs, history>> BY DEF Load
<1>3. (\A z \in Servers, j \in Ids, v \in Versions :
         server[z].catalog[j][v] # None => WasSaved(j, v, server[z].catalog[j][v]))'
  <2> SUFFICES ASSUME NEW z \in Servers, NEW j \in Ids, NEW v \in Versions,
                      server'[z].catalog[j][v] # None
               PROVE  WasSaved(j, v, server[z].catalog[j][v])'
    OBVIOUS
  <2>1. PICK g : g = server'[z].catalog[j][v] OBVIOUS
  <2>2. CASE z = s
    <3>1. db.rows[j] # None /\ db.rows[j].payload.version = v /\ g = db.rows[j].payload.graph
      BY <1>1, <2>1, <2>2, LoadedCatalogEffect
    <3>2. PICK e : e = <<j, db.rows[j].payload>> OBVIOUS
    <3>3. e \in history.saved /\ e[1] = j /\ e[2] = db.rows[j].payload BY <3>1, <3>2 DEF SavedInv
    <3> QED BY <1>2, <2>1, <3>1, <3>3 DEF WasSaved
  <2>3. CASE z # s BY <1>1, <1>2, <2>3 DEF SavedInv, WasSaved
  <2> QED BY <2>2, <2>3
<1>4. \A z \in Servers : server'[z].definitions = server[z].definitions BY <1>1
<1>5. (\A z \in Servers, m \in 1 .. MaxRuns :
         server[z].definitions[m] # None =>
           m \in DOMAIN runs /\ WasSaved(runs[m].id, runs[m].version, server[z].definitions[m]))'
  BY <1>2, <1>4 DEF SavedInv, WasSaved
<1> QED BY <1>2, <1>3, <1>5 DEF SavedInv, WasSaved, Saves

LEMMA CrashSaved ==
  ASSUME TypeInv, ShapeInv, SavedInv, NEW s \in Servers, Crash(s)
  PROVE  SavedInv'
<1>1. /\ server' = [server EXCEPT ![s] = Fresh]
      /\ \A h \in At(s) : slot'[h] = Idle
      /\ \A h \in Slots \ At(s) : slot'[h] = slot[h]
      /\ db'.rows = db.rows /\ runs' = runs /\ history'.saved = history.saved
  BY CrashEffect
<1>2. /\ \A j \in Ids, v \in Versions : server'[s].catalog[j][v] = None
      /\ \A m \in 1 .. MaxRuns : server'[s].definitions[m] = None
      /\ \A z \in Servers : z # s => server'[z] = server[z]
  <2>1. server'[s] = Fresh BY <1>1 DEF TypeInv
  <2>2. Fresh.catalog = NoCatalog /\ Fresh.definitions = [r \in 1 .. MaxRuns |-> None]
    BY DEF Fresh
  <2>3. \A j \in Ids, v \in Versions : NoCatalog[j][v] = None BY DEF NoCatalog
  <2>4. \A z \in Servers : z # s => server'[z] = server[z] BY <1>1 DEF TypeInv
  <2> HIDE DEF NoCatalog
  <2>5. \A m \in 1 .. MaxRuns : Fresh.definitions[m] = None BY <2>2
  <2> QED BY <2>1, <2>2, <2>3, <2>4, <2>5
<1>3. (\A h \in Slots : slot[h].pc = "write" => <<slot[h].id, slot[h].payload>> \in history.saved)'
  BY <1>1, IdleType DEF SavedInv
<1>4. (\A z \in Servers, j \in Ids, v \in Versions :
         server[z].catalog[j][v] # None => WasSaved(j, v, server[z].catalog[j][v]))'
  BY <1>1, <1>2 DEF SavedInv, WasSaved
<1>5. (\A z \in Servers, m \in 1 .. MaxRuns :
         server[z].definitions[m] # None =>
           m \in DOMAIN runs /\ WasSaved(runs[m].id, runs[m].version, server[z].definitions[m]))'
  BY <1>1, <1>2 DEF SavedInv, WasSaved
<1>6. (\A j \in Ids : db.rows[j] # None => <<j, db.rows[j].payload>> \in history.saved)'
  BY <1>1 DEF SavedInv
<1>7. (\A r \in DOMAIN runs :
         /\ Saves(runs[r].id) # {}
         /\ \A g \in runs[r].executed : WasSaved(runs[r].id, runs[r].version, g))'
  BY <1>1 DEF SavedInv, WasSaved, Saves
<1> QED BY <1>3, <1>4, <1>5, <1>6, <1>7 DEF SavedInv

LEMMA FailedWriteSaved ==
  ASSUME TypeInv, ShapeInv, SavedInv, NEW h \in Slots, FailedWrite(h)
  PROVE  SavedInv'
<1>1. slot' = [slot EXCEPT ![h] = Idle] /\ history'.saved = history.saved BY FailedWriteEffect
<1>2. UNCHANGED <<db, server, runs>> BY DEF FailedWrite
<1>3. (\A g \in Slots : slot[g].pc = "write" => <<slot[g].id, slot[g].payload>> \in history.saved)'
  BY <1>1, IdleType DEF SavedInv, TypeInv
<1> QED BY <1>1, <1>2, <1>3 DEF SavedInv, WasSaved, Saves

-----------------------------------------------------------------------------
(* One process alone. *)
LEMMA KnownSame ==
  ASSUME NEW s \in Servers, server'[s].catalog = server[s].catalog
  PROVE  \A i : Known(s, i)' = Known(s, i)
  BY DEF Known

LEMMA OnlyServer ==
  ASSUME TypeInv, NEW s \in scenario.servers, Cardinality(scenario.servers) = 1
  PROVE  scenario.servers = {s}
<1>1. IsFiniteSet(scenario.servers) BY ScenarioFacts, ServersAssumption, FS_Subset
<1>2. \E x : scenario.servers = {x} BY <1>1, FS_Singleton
<1> QED BY <1>2

LEMMA GivenUpKept ==
  ASSUME GivenUpOnlyIfReplaced, scenario'.servers = scenario.servers,
         \A r \in DOMAIN runs' : runs'[r].status = "given up" =>
           r \in DOMAIN runs /\ runs[r].status = "given up"
           /\ runs'[r].id = runs[r].id /\ runs'[r].version = runs[r].version,
         history.unsaved \subseteq history'.unsaved, history.saved \subseteq history'.saved
  PROVE  GivenUpOnlyIfReplaced'
<1> SUFFICES ASSUME NEW r \in DOMAIN runs', runs'[r].status = "given up",
                    Cardinality(scenario'.servers) = 1
             PROVE  \/ runs'[r].id \in history'.unsaved
                    \/ \E e \in history'.saved : e[1] = runs'[r].id /\ e[2].version # runs'[r].version
  BY DEF GivenUpOnlyIfReplaced
<1>1. r \in DOMAIN runs /\ runs[r].status = "given up"
      /\ runs'[r].id = runs[r].id /\ runs'[r].version = runs[r].version
  OBVIOUS
<1>2. \/ runs[r].id \in history.unsaved
      \/ \E e \in history.saved : e[1] = runs[r].id /\ e[2].version # runs[r].version
  BY <1>1 DEF GivenUpOnlyIfReplaced
<1> QED BY <1>1, <1>2

LEMMA ApartAlone ==
  ASSUME AloneInv, Apart, scenario'.servers = scenario.servers,
         \A s \in Servers : Serving(s)' => Serving(s)
  PROVE  AloneInv'
<1>1. GivenUpOnlyIfReplaced' BY GivenUpKept DEF AloneInv, Apart
<1>2. \A i \in Ids : Kept(i)' <=> Kept(i) BY DEF Kept, Writes, Apart, SameRows, SameWrites
<1>3. \A s \in Servers : \A i : Known(s, i)' = Known(s, i) BY KnownSame DEF Apart, SameKnowledge
<1>4. \A i : Saves(i)' = Saves(i) BY DEF Apart, Saves
<1>5. history'.unsaved = history.unsaved BY DEF Apart
<1> SUFFICES ASSUME NEW s \in Servers, scenario'.servers = {s}, NEW i \in Ids
             PROVE  /\ Saves(i)' # {} /\ i \notin history'.unsaved => Kept(i)'
                    /\ Serving(s)' /\ Kept(i)' => Known(s, i)' # {}
  BY <1>1 DEF AloneInv
<1>6. /\ Saves(i) # {} /\ i \notin history.unsaved => Kept(i)
      /\ Serving(s) /\ Kept(i) => Known(s, i) # {}
  BY DEF AloneInv
<1> QED BY <1>2, <1>3, <1>4, <1>5, <1>6

LEMMA EntersAlone ==
  ASSUME TypeInv, AloneInv, Steady, NEW h \in Slots, NEW s \in scenario.servers, s \in Servers,
         NEW i \in Ids, NEW p \in Payload, EntersTo(h, s, i, p)
  PROVE  AloneInv'
<1>1. history'.saved = history.saved \cup {<<i, p>>} /\ history'.unsaved = history.unsaved
  BY EntersHistory DEF EntersTo
<1>2. GivenUpOnlyIfReplaced' BY <1>1, GivenUpKept DEF AloneInv, EntersTo, Steady
<1>3. server'[s].catalog = Registered(server[s].catalog, i, p) BY EntersServer DEF EntersTo
<1>4. server[s].catalog \in Catalog BY DEF TypeInv, ServerType
<1>5. p.version \in Versions /\ p.graph # None BY NoneAssumption DEF Payload
<1>6. \A j \in Ids, v \in Versions :
        server'[s].catalog[j][v] = IF j = i /\ v = p.version THEN p.graph ELSE server[s].catalog[j][v]
  BY <1>3, <1>4, RegisteredType
<1>7. Known(s, i)' # {} BY <1>5, <1>6 DEF Known
<1>8. \A j \in Ids : Known(s, j) # {} => Known(s, j)' # {} BY <1>5, <1>6 DEF Known
<1>9. Kept(i)' BY DEF Kept, Writes, EntersTo, TypeInv
<1>10. \A j \in Ids : j # i => (Kept(j)' <=> Kept(j)) BY DEF Kept, Writes, EntersTo, TypeInv
<1>11. \A j \in Ids : j # i => (Saves(j)' # {} => Saves(j) # {})
  <2> SUFFICES ASSUME NEW j \in Ids, j # i, NEW e \in Saves(j)' PROVE e \in Saves(j) OBVIOUS
  <2>1. e \in history'.saved /\ e[1] = j BY DEF Saves
  <2> QED BY <1>1, <2>1 DEF Saves
<1> SUFFICES ASSUME NEW z \in Servers, scenario'.servers = {z}, NEW j \in Ids
             PROVE  /\ Saves(j)' # {} /\ j \notin history'.unsaved => Kept(j)'
                    /\ Serving(z)' /\ Kept(j)' => Known(z, j)' # {}
  BY <1>2 DEF AloneInv
<1>12. scenario.servers = {z} /\ z = s BY DEF Steady
<1>13. Serving(z)' <=> Serving(z) BY SteadyServing
<1>14. /\ Saves(j) # {} /\ j \notin history.unsaved => Kept(j)
       /\ Serving(z) /\ Kept(j) => Known(z, j) # {}
  BY <1>12 DEF AloneInv
<1>15. CASE j = i BY <1>7, <1>9, <1>12, <1>15
<1>16. CASE j # i BY <1>1, <1>8, <1>10, <1>11, <1>12, <1>13, <1>14, <1>16
<1> QED BY <1>15, <1>16

LEMMA WriteAlone ==
  ASSUME TypeInv, ShapeInv, AloneInv, Steady, NEW h \in Slots, Write(h)
  PROVE  AloneInv'
<1>1. PICK i \in Ids : i = slot[h].id BY WriteEffect
<1>2. /\ slot[h].pc = "write" /\ db'.rows[i] # None
      /\ \A j \in Ids : j # i => db'.rows[j] = db.rows[j]
      /\ history'.saved = history.saved /\ history'.unsaved = history.unsaved
  BY <1>1, WriteEffect
<1>3. PICK r : slot' = [slot EXCEPT ![h] = r] /\ r.pc # "write" BY WriteEffect, IdleType
<1>4. UNCHANGED <<server, runs>> BY DEF Write
<1>5. GivenUpOnlyIfReplaced' BY <1>2, <1>4, GivenUpKept DEF AloneInv, Steady
<1>6. Kept(i) BY <1>1, <1>2 DEF Kept, Writes
<1>7. Kept(i)' BY <1>1, <1>2 DEF Kept
<1>8. \A j \in Ids : j # i => (Kept(j)' <=> Kept(j))
  BY <1>1, <1>2, <1>3 DEF Kept, Writes, TypeInv
<1>9. \A s \in Servers : \A j : Known(s, j)' = Known(s, j) BY <1>4, KnownSame
<1>10. \A j : Saves(j)' = Saves(j) BY <1>2 DEF Saves
<1> SUFFICES ASSUME NEW z \in Servers, scenario'.servers = {z}, NEW j \in Ids
             PROVE  /\ Saves(j)' # {} /\ j \notin history'.unsaved => Kept(j)'
                    /\ Serving(z)' /\ Kept(j)' => Known(z, j)' # {}
  BY <1>5 DEF AloneInv
<1>11. scenario.servers = {z} /\ (Serving(z)' <=> Serving(z)) BY SteadyServing DEF Steady
<1>12. /\ Saves(j) # {} /\ j \notin history.unsaved => Kept(j)
       /\ Serving(z) /\ Kept(j) => Known(z, j) # {}
  BY <1>11 DEF AloneInv
<1> QED BY <1>2, <1>6, <1>7, <1>8, <1>9, <1>10, <1>11, <1>12

(* starting a run, or ticking one, changes neither rows nor catalogs *)
LEMMA RunsAlone ==
  ASSUME AloneInv, Steady, SameRows, SameWrites, history'.saved = history.saved,
         history'.unsaved = history.unsaved, GivenUpOnlyIfReplaced',
         \A s \in Servers : server'[s].catalog = server[s].catalog
  PROVE  AloneInv'
<1>2. \A i \in Ids : Kept(i)' <=> Kept(i) BY DEF Kept, Writes, SameRows, SameWrites
<1>3. \A s \in Servers : \A i : Known(s, i)' = Known(s, i) BY KnownSame
<1>4. \A i : Saves(i)' = Saves(i) BY DEF Saves
<1> SUFFICES ASSUME NEW s \in Servers, scenario'.servers = {s}, NEW i \in Ids
             PROVE  /\ Saves(i)' # {} /\ i \notin history'.unsaved => Kept(i)'
                    /\ Serving(s)' /\ Kept(i)' => Known(s, i)' # {}
  BY DEF AloneInv
<1>5. Serving(s)' <=> Serving(s) BY SteadyServing
<1>6. /\ Saves(i) # {} /\ i \notin history.unsaved => Kept(i)
      /\ Serving(s) /\ Kept(i) => Known(s, i) # {}
  BY DEF AloneInv, Steady
<1> QED BY <1>2, <1>3, <1>4, <1>5, <1>6

LEMMA StartsRunAlone ==
  ASSUME TypeInv, AloneInv, Steady, NEW s \in Servers, NEW i \in Ids, Known(s, i) # {},
         NEW by \in {"request", "schedule"}, NEW again \in BOOLEAN, StartsRun(s, i, by, again),
         SameRows, SameWrites, history' = history
  PROVE  AloneInv'
<1>1. /\ \A r \in DOMAIN runs : r \in DOMAIN runs' /\ runs'[r] = runs[r]
      /\ \A r \in DOMAIN runs' \ DOMAIN runs : r = Len(runs) + 1
      /\ runs'[Len(runs) + 1].status = "running"
      /\ server' = [server EXCEPT ![s].definitions[Len(runs) + 1] =
                         server[s].catalog[i][Latest(s, i)]]
  BY StartsRunEffect
<1>2. \A r \in DOMAIN runs' : runs'[r].status = "given up" =>
           r \in DOMAIN runs /\ runs[r].status = "given up"
           /\ runs'[r].id = runs[r].id /\ runs'[r].version = runs[r].version
  BY <1>1
<1>3. GivenUpOnlyIfReplaced' BY <1>2, GivenUpKept DEF AloneInv, Steady
<1>4. \A z \in Servers : server'[z].catalog = server[z].catalog
  BY <1>1, StartsRunServer
<1> QED BY <1>3, <1>4, RunsAlone

LEMMA StartRunAlone ==
  ASSUME TypeInv, ShapeInv, AloneInv, Steady, NEW h \in Slots, StartRun(h)
  PROVE  AloneInv'
<1> DEFINE q == slot[h]
<1>1. q.pc = "start" /\ q.at \in Servers /\ q.id \in Ids
  BY ScenarioFacts DEF StartRun, TypeInv, ShapeInv, Sensible
<1>2. SameWrites /\ SameRows /\ history' = history
  BY <1>1, ApartMove, IdleType DEF StartRun, SameRows
<1>3. CASE Known(q.at, q.id) = {}
  <2>1. Apart BY <1>2, <1>3 DEF StartRun, Apart, SameKnowledge
  <2> QED BY <2>1, ApartAlone, SteadyServing DEF Steady
<1>4. CASE Known(q.at, q.id) # {}
  <2>1. StartsRun(q.at, q.id, "request", FALSE) BY <1>4 DEF StartRun
  <2> QED BY <1>1, <1>2, <1>4, <2>1, StartsRunAlone
<1> QED BY <1>3, <1>4

LEMMA StartDueAlone ==
  ASSUME TypeInv, AloneInv, Steady, NEW s \in Servers, NEW n \in Overlaps, StartDue(s, n)
  PROVE  AloneInv'
<1> DEFINE t == tick[s][n]
<1>1. PICK i \in Ids :
        \/ UNCHANGED <<runs, server>>
        \/ /\ Known(s, i) # {}
           /\ StartsRun(s, i, "schedule", <<i, Day(t.now)>> \in t.knows)
  BY StartDueEffect
<1>2. SameWrites /\ SameRows /\ history' = history BY DEF StartDue, SameRows, SameWrites
<1>3. CASE UNCHANGED <<runs, server>>
  <2>1. Apart BY <1>2, <1>3 DEF Apart, SameKnowledge
  <2> QED BY <2>1, ApartAlone, SteadyServing DEF Steady
<1>4. CASE Known(s, i) # {} /\ StartsRun(s, i, "schedule", <<i, Day(t.now)>> \in t.knows)
  <2>1. ASSUME NEW again \in BOOLEAN, StartsRun(s, i, "schedule", again)
        PROVE  AloneInv'
    BY <1>2, <1>4, <2>1, StartsRunAlone
  <2>2. (<<i, Day(t.now)>> \in t.knows) \in BOOLEAN OBVIOUS
  <2> HIDE DEF AloneInv
  <2> QED BY <1>4, <2>1, <2>2
<1> QED BY <1>1, <1>3, <1>4

LEMMA TickRunAlone ==
  ASSUME TypeInv, SavedInv, AloneInv, NEW s \in scenario.servers, TickRun(s)
  PROVE  AloneInv'
<1>1. s \in Servers BY ScenarioFacts
<1>2. PICK r \in DOMAIN runs :
        /\ DOMAIN runs' = DOMAIN runs
        /\ \A k \in DOMAIN runs :
             /\ k # r => runs'[k] = runs[k]
             /\ runs'[k].id = runs[k].id /\ runs'[k].version = runs[k].version
        /\ \/ Definition(s, r) = None /\ UNCHANGED server
           \/ /\ Definition(s, r) # None /\ runs'[r].status = runs[r].status
              /\ server' = [server EXCEPT ![s].definitions[r] = Definition(s, r)]
  BY <1>1, TickRunEffect
<1>3. Steady /\ Serving(s) BY <1>1, TickRunEffect
<1>4. SameRows /\ SameWrites /\ history' = history BY DEF TickRun, SameRows, SameWrites
<1>5. \A z \in Servers : server'[z].catalog = server[z].catalog
  <2>1. CASE UNCHANGED server BY <2>1
  <2>2. CASE server' = [server EXCEPT ![s].definitions[r] = Definition(s, r)]
    <3>1. Keeps(s, r, Definition(s, r)) BY <2>2 DEF Keeps
    <3> QED BY <1>1, <3>1, KeepsServer
  <2> QED BY <1>2, <2>1, <2>2
<1>6. \A k \in DOMAIN runs : runs[k] \in RunType BY DEF TypeInv
<1>7. ASSUME Definition(s, r) = None, Cardinality(scenario.servers) = 1
      PROVE  \/ runs[r].id \in history.unsaved
             \/ \E e \in history.saved : e[1] = runs[r].id /\ e[2].version # runs[r].version
  <2> SUFFICES ASSUME runs[r].id \notin history.unsaved
               PROVE  \E e \in history.saved : e[1] = runs[r].id /\ e[2].version # runs[r].version
    OBVIOUS
  <2>1. runs[r].id \in Ids /\ runs[r].version \in Versions BY <1>6 DEF RunType
  <2>2. scenario.servers = {s} BY <1>7, OnlyServer
  <2>3. Saves(runs[r].id) # {} BY DEF SavedInv
  <2>4. Known(s, runs[r].id) # {} BY <1>1, <1>3, <2>1, <2>2, <2>3 DEF AloneInv
  <2>5. PICK v \in Versions : server[s].catalog[runs[r].id][v] # None BY <2>4 DEF Known
  <2>6. WasSaved(runs[r].id, v, server[s].catalog[runs[r].id][v]) BY <1>1, <2>1, <2>5 DEF SavedInv
  <2>7. server[s].catalog[runs[r].id][runs[r].version] = None BY <1>7 DEF Definition
  <2>8. v # runs[r].version BY <2>5, <2>7
  <2> QED BY <2>6, <2>8 DEF WasSaved
<1>8. GivenUpOnlyIfReplaced'
  <2> SUFFICES ASSUME NEW k \in DOMAIN runs', runs'[k].status = "given up",
                      Cardinality(scenario'.servers) = 1
               PROVE  \/ runs'[k].id \in history'.unsaved
                      \/ \E e \in history'.saved :
                           e[1] = runs'[k].id /\ e[2].version # runs'[k].version
    BY DEF GivenUpOnlyIfReplaced
  <2>1. k \in DOMAIN runs /\ Cardinality(scenario.servers) = 1 BY <1>2, <1>3 DEF Steady
  <2>2. CASE k = r /\ Definition(s, r) = None BY <1>2, <1>4, <1>7, <2>1, <2>2
  <2>3. CASE ~(k = r /\ Definition(s, r) = None)
    <3>1. runs[k].status = "given up" BY <1>2, <2>1, <2>3
    <3>2. \/ runs[k].id \in history.unsaved
          \/ \E e \in history.saved : e[1] = runs[k].id /\ e[2].version # runs[k].version
      BY <2>1, <3>1 DEF AloneInv, GivenUpOnlyIfReplaced
    <3>3. runs'[k].id = runs[k].id /\ runs'[k].version = runs[k].version BY <1>2, <2>1
    <3> QED BY <1>4, <3>2, <3>3
  <2> QED BY <2>2, <2>3
<1> QED BY <1>3, <1>4, <1>5, <1>8, RunsAlone

(* A process that starts knows the rows; nobody writes yet, for requests    *)
(* are at processes that serve. *)
LEMMA LoadAlone ==
  ASSUME TypeInv, ShapeInv, AloneInv, NEW s \in scenario.servers, Load(s)
  PROVE  AloneInv'
<1>1. s \in Servers BY ScenarioFacts
<1>2. UNCHANGED <<scenario, db, slot, runs, history>> /\ ~Serving(s) BY DEF Load, Serving
<1>3. server'[s].catalog = LoadedCatalog(db.rows) BY <1>1, LoadServer
<1>4. GivenUpOnlyIfReplaced' BY <1>2 DEF AloneInv, GivenUpOnlyIfReplaced
<1>5. \A i : (Kept(i)' <=> Kept(i)) /\ Saves(i)' = Saves(i) BY <1>2 DEF Kept, Writes, Saves
<1> SUFFICES ASSUME NEW z \in Servers, scenario'.servers = {z}, NEW i \in Ids
             PROVE  /\ Saves(i)' # {} /\ i \notin history'.unsaved => Kept(i)'
                    /\ Serving(z)' /\ Kept(i)' => Known(z, i)' # {}
  BY <1>4 DEF AloneInv
<1>6. scenario.servers = {s} /\ z = s BY <1>2
<1>7. Saves(i) # {} /\ i \notin history.unsaved => Kept(i) BY <1>1, <1>6 DEF AloneInv
<1>8. \A h \in Slots : slot[h].pc # "write"
  <2> SUFFICES ASSUME NEW h \in Slots, slot[h].pc = "write" PROVE FALSE OBVIOUS
  <2>1. slot[h].at = s /\ Serving(slot[h].at) BY <1>6 DEF ShapeInv, Sensible
  <2> QED BY <1>2, <2>1
<1>9. ASSUME Kept(i) PROVE Known(s, i)' # {}
  <2>1. db.rows[i] # None BY <1>8, <1>9 DEF Kept, Writes
  <2>2. PICK v \in Versions : v = db.rows[i].payload.version BY <2>1, RowPayload DEF Payload
  <2>3. LoadedCatalog(db.rows)[i][v] # None BY <2>1, <2>2, LoadedCatalogEffect
  <2> QED BY <1>3, <2>3 DEF Known
<1> QED BY <1>2, <1>5, <1>6, <1>7, <1>9

LEMMA CrashAlone ==
  ASSUME TypeInv, ShapeInv, AloneInv, NEW s \in scenario.servers, Crash(s)
  PROVE  AloneInv'
<1>1. s \in Servers BY ScenarioFacts
<1>2. /\ scenario'.servers = scenario.servers
      /\ server' = [server EXCEPT ![s] = Fresh]
      /\ \A h \in At(s) : slot'[h] = Idle
      /\ \A h \in Slots \ At(s) : slot'[h] = slot[h]
      /\ db'.rows = db.rows /\ runs' = runs
      /\ history'.saved = history.saved
      /\ history.unsaved \subseteq history'.unsaved
      /\ \A h \in At(s) : slot[h].pc = "write" => slot[h].id \in history'.unsaved
  BY <1>1, CrashEffect
<1>3. GivenUpOnlyIfReplaced' BY <1>2, GivenUpKept DEF AloneInv
<1> SUFFICES ASSUME NEW z \in Servers, scenario'.servers = {z}, NEW i \in Ids
             PROVE  /\ Saves(i)' # {} /\ i \notin history'.unsaved => Kept(i)'
                    /\ Serving(z)' /\ Kept(i)' => Known(z, i)' # {}
  BY <1>3 DEF AloneInv
<1>4. scenario.servers = {s} /\ z = s BY <1>2
<1>5. ~Serving(s)' BY <1>1, <1>2 DEF Serving, Fresh, TypeInv
<1>6. ASSUME Saves(i)' # {}, i \notin history'.unsaved PROVE Kept(i)'
  <2>1. Saves(i) # {} BY <1>2, <1>6 DEF Saves
  <2>2. Kept(i) BY <1>1, <1>2, <1>4, <1>6, <2>1 DEF AloneInv
  <2>3. ASSUME NEW h \in Slots, Writes(h, i) PROVE Writes(h, i)'
    <3>1. h \notin At(s) BY <1>2, <1>6, <2>3 DEF Writes
    <3> QED BY <1>2, <2>3, <3>1 DEF Writes
  <2> QED BY <1>2, <2>2, <2>3 DEF Kept
<1> QED BY <1>4, <1>5, <1>6

LEMMA FailedWriteAlone ==
  ASSUME TypeInv, ShapeInv, AloneInv, NEW h \in Slots, FailedWrite(h)
  PROVE  AloneInv'
<1>1. /\ Steady /\ slot' = [slot EXCEPT ![h] = Idle]
      /\ history'.saved = history.saved
      /\ history.unsaved \subseteq history'.unsaved
      /\ slot[h].pc = "write" => slot[h].id \in history'.unsaved
  BY FailedWriteEffect
<1>2. UNCHANGED <<db, server, runs>> BY DEF FailedWrite
<1>3. GivenUpOnlyIfReplaced' BY <1>1, <1>2, GivenUpKept DEF AloneInv, Steady
<1>4. \A s \in Servers : \A j : Known(s, j)' = Known(s, j) BY <1>2, KnownSame
<1> SUFFICES ASSUME NEW z \in Servers, scenario'.servers = {z}, NEW i \in Ids
             PROVE  /\ Saves(i)' # {} /\ i \notin history'.unsaved => Kept(i)'
                    /\ Serving(z)' /\ Kept(i)' => Known(z, i)' # {}
  BY <1>3 DEF AloneInv
<1>5. scenario.servers = {z} /\ (Serving(z)' <=> Serving(z)) BY <1>1, SteadyServing DEF Steady
<1>6. /\ Saves(i) # {} /\ i \notin history.unsaved => Kept(i)
      /\ Serving(z) /\ Kept(i) => Known(z, i) # {}
  BY <1>5 DEF AloneInv
<1>7. Saves(i)' = Saves(i) BY <1>1 DEF Saves
<1>8. ASSUME NEW g \in Slots, Writes(g, i)' PROVE Writes(g, i)
  <2>1. g # h BY <1>1, <1>8, IdleType DEF Writes, TypeInv
  <2> QED BY <1>1, <1>8, <2>1 DEF Writes
<1>9. Kept(i)' => Kept(i) BY <1>2, <1>8 DEF Kept
<1>10. ASSUME NEW g \in Slots, Writes(g, i), i \notin history'.unsaved PROVE Writes(g, i)'
  <2>1. g # h BY <1>1, <1>10 DEF Writes
  <2> QED BY <1>1, <1>10, <2>1 DEF Writes, TypeInv
<1>11. Kept(i) /\ i \notin history'.unsaved => Kept(i)' BY <1>2, <1>10 DEF Kept
<1> QED BY <1>1, <1>4, <1>5, <1>6, <1>7, <1>9, <1>11

LEMMA StartupAlone ==
  ASSUME TypeInv, StartupInv, ShapeInv, AloneInv, NEW s \in scenario.servers,
         Lock(s) \/ Migrate(s) \/ Unlock(s) \/ Load(s) \/ Crash(s)
  PROVE  AloneInv'
<1>1. s \in Servers BY ScenarioFacts
<1>2. CASE Lock(s) \/ Migrate(s) \/ Unlock(s)
  <2>1. Apart BY <1>1, <1>2, StartsUpApart
  <2>2. scenario' = scenario BY <1>2 DEF Lock, Migrate, Unlock
  <2>3. ASSUME NEW z \in Servers, Serving(z)' PROVE Serving(z)
    <3>1. CASE z = s
      <4>1. server'[s].stage # "serving"
        BY <1>1, <1>2 DEF Lock, Migrate, Unlock, Fresh, TypeInv, StartupInv, ServerType
      <4> QED BY <2>3, <3>1, <4>1 DEF Serving
    <3>2. CASE z # s
      <4>1. server'[z] = server[z] BY <1>1, <1>2, <3>2 DEF Lock, Migrate, Unlock, TypeInv
      <4> QED BY <2>3, <4>1 DEF Serving
    <3> QED BY <3>1, <3>2
  <2> QED BY <2>1, <2>2, <2>3, ApartAlone
<1>3. CASE Load(s) BY <1>3, LoadAlone
<1>4. CASE Crash(s) BY <1>4, CrashAlone
<1> QED BY <1>2, <1>3, <1>4

(* Both parts, for every step that works. *)
LEMMA AnswersSaved ==
  ASSUME TypeInv, ShapeInv, TemplatesInv, SavedInv, AloneInv, Steady, NEW h \in Slots,
         \/ Create(h) \/ Lookup(h) \/ Update(h) \/ Write(h) \/ TestRun(h) \/ Fetch(h) \/ StartRun(h)
         \/ ListTemplates(h) \/ EditTemplate(h) \/ OpenTemplate(h) \/ RestoreTemplate(h)
         \/ CountTemplates(h) \/ Seed(h) \/ StoreTemplate(h) \/ UseTemplate(h) \/ FailedWrite(h)
  PROVE  SavedInv' /\ AloneInv'
<1>1. CASE Apart
  <2>1. AloneInv' BY <1>1, ApartAlone, SteadyServing DEF Steady
  <2> QED BY <1>1, <2>1, ApartSaved
<1>2. CASE \E s \in scenario.servers, i \in Ids, p \in Payload : EntersTo(h, s, i, p)
  <2>1. PICK s \in scenario.servers, i \in Ids, p \in Payload : EntersTo(h, s, i, p) BY <1>2
  <2>2. s \in Servers BY ScenarioFacts
  <2> QED BY <2>1, <2>2, EntersSaved, EntersAlone
<1>3. CASE Create(h) BY <1>1, <1>3, CreateApart
<1>4. CASE Lookup(h)
  <2>1. CASE db.rows[slot[h].id] = None
    <3>1. PICK q : q = slot[h] OBVIOUS
    <3>2. EntersTo(h, q.at, q.id, q.payload) /\ q.at \in scenario.servers /\ q.id \in Ids
          /\ q.payload \in Payload
      BY <1>4, <2>1, <3>1, LookupEnters
    <3> QED BY <1>2, <3>2
  <2>2. CASE db.rows[slot[h].id] # None BY <1>1, <1>4, <2>2, LookupApart
  <2> QED BY <2>1, <2>2
<1>5. CASE Update(h) BY <1>2, <1>5, UpdateEnters
<1>6. CASE Write(h) BY <1>6, WriteSaved, WriteAlone
<1>7. CASE TestRun(h) BY <1>1, <1>7, TestRunApart
<1>8. CASE Fetch(h) BY <1>1, <1>8, FetchApart
<1>9. CASE StartRun(h) BY <1>9, StartRunSaved, StartRunAlone
<1>10. CASE ListTemplates(h) \/ EditTemplate(h) \/ OpenTemplate(h)
  BY <1>1, <1>10, TemplateRequestApart
<1>11. CASE RestoreTemplate(h) BY <1>1, <1>11, RestoreTemplateApart
<1>12. CASE CountTemplates(h) BY <1>1, <1>12, CountTemplatesApart
<1>13. CASE Seed(h) BY <1>1, <1>13, SeedApart
<1>14. CASE StoreTemplate(h) BY <1>1, <1>14, StoreTemplateApart
<1>15. CASE UseTemplate(h) BY <1>1, <1>15, UseTemplateApart
<1>16. CASE FailedWrite(h) BY <1>16, FailedWriteSaved, FailedWriteAlone
<1> QED
  BY <1>3, <1>4, <1>5, <1>6, <1>7, <1>8, <1>9, <1>10, <1>11, <1>12, <1>13, <1>14, <1>15, <1>16

-----------------------------------------------------------------------------
(* Creations. *)
CreatesWell(q) ==
  /\ q.pc = "lookup" /\ q.late => q.id \in history.created
  /\ q.pc = "write" /\ q.creates => ~q.late
RowsStay == \A i \in Ids : db.rows[i] # None => db'.rows[i] # None
SameCreations == history'.created = history.created /\ history'.late = history.late

LEMMA CreateStays ==
  ASSUME TypeInv, CreateInv, RowsStay, SameCreations,
         \A h \in Slots : slot'[h] = slot[h] \/ CreatesWell(slot'[h])
  PROVE  CreateInv'
<1>1. (\A i \in history.created : db.rows[i] # None)'
  BY DEF CreateInv, RowsStay, SameCreations, TypeInv, HistoryType
<1>2. \A h \in Slots : CreatesWell(slot'[h]) BY DEF CreateInv, CreatesWell
<1>3. (\A h \in Slots :
         /\ slot[h].pc = "lookup" /\ slot[h].late => slot[h].id \in history.created
         /\ slot[h].pc = "write" /\ slot[h].creates => ~slot[h].late)'
  BY <1>2 DEF CreatesWell, SameCreations
<1> QED BY <1>1, <1>3 DEF CreateInv, SameCreations

LEMMA CreateMove ==
  ASSUME TypeInv, CreateInv, RowsStay, SameCreations, NEW h \in Slots, NEW r, CreatesWell(r),
         slot' = [slot EXCEPT ![h] = r]
  PROVE  CreateInv'
<1>1. \A g \in Slots : slot'[g] = slot[g] \/ CreatesWell(slot'[g]) BY DEF TypeInv
<1> QED BY <1>1, CreateStays

LEMMA IdleCreates == CreatesWell(Idle)
  BY IdleType DEF CreatesWell

LEMMA WriteCreates ==
  ASSUME TypeInv, ShapeInv, CreateInv, NEW h \in Slots, Write(h)
  PROVE  CreateInv'
<1>1. PICK q \in SlotType : q = slot[h] BY DEF TypeInv
<1>2. /\ q.pc = "write" /\ q.id \in Ids /\ db'.rows[q.id] # None
      /\ \A j \in Ids : j # q.id => db'.rows[j] = db.rows[j]
      /\ \/ q.creates /\ history'.created = history.created \cup {q.id}
            /\ (history'.late <=> history.late \/ q.late)
         \/ ~q.creates /\ history' = history
      /\ \E r \in SlotType :
           /\ slot' = [slot EXCEPT ![h] = r]
           /\ r = Idle \/ (r.pc = "start" /\ r.at = q.at /\ r.id = q.id)
  BY <1>1, WriteEffect
<1>3. PICK r \in SlotType : slot' = [slot EXCEPT ![h] = r] /\ r.pc \notin {"lookup", "write"}
  BY <1>2, IdleType
<1>4. \A i \in Ids : db.rows[i] # None => db'.rows[i] # None BY <1>2
<1>5. \A i \in history.created : i \in Ids BY DEF TypeInv, HistoryType
<1>6. (\A i \in history.created : db.rows[i] # None)'
  BY <1>2, <1>4, <1>5 DEF CreateInv
<1>7. q.creates => ~q.late BY <1>1, <1>2 DEF CreateInv
<1>8. ~history'.late BY <1>2, <1>7 DEF CreateInv
<1>9. (\A g \in Slots :
         /\ slot[g].pc = "lookup" /\ slot[g].late => slot[g].id \in history.created
         /\ slot[g].pc = "write" /\ slot[g].creates => ~slot[g].late)'
  <2> SUFFICES ASSUME NEW g \in Slots
               PROVE  /\ slot'[g].pc = "lookup" /\ slot'[g].late => slot'[g].id \in history'.created
                      /\ slot'[g].pc = "write" /\ slot'[g].creates => ~slot'[g].late
    OBVIOUS
  <2>1. CASE g = h BY <1>3, <2>1 DEF TypeInv
  <2>2. CASE g # h
    <3>1. slot'[g] = slot[g] BY <1>3, <2>2 DEF TypeInv
    <3>2. history.created \subseteq history'.created BY <1>2
    <3> QED BY <3>1, <3>2 DEF CreateInv
  <2> QED BY <2>1, <2>2
<1> QED BY <1>6, <1>8, <1>9 DEF CreateInv

LEMMA LookupCreates ==
  ASSUME TypeInv, ShapeInv, CreateInv, NEW h \in Slots, Lookup(h)
  PROVE  CreateInv'
<1>1. PICK q \in SlotType : q = slot[h] BY DEF TypeInv
<1>2. /\ q.pc = "lookup" /\ q.at \in Servers /\ q.id \in Ids /\ q.payload \in Payload
      /\ \/ slot' = [slot EXCEPT ![h] = Idle] /\ history' = history
         \/ /\ db.rows[q.id] = None /\ Enters(q.at, q.id, q.payload)
            /\ \E r \in SlotType :
                 slot' = [slot EXCEPT ![h] = r] /\ r.pc = "write" /\ r.late = q.late
  BY <1>1, LookupSlot
<1>3. RowsStay BY DEF Lookup, RowsStay
<1>4. CASE slot' = [slot EXCEPT ![h] = Idle] /\ history' = history
  BY <1>3, <1>4, IdleCreates, CreateMove DEF SameCreations
<1>5. CASE /\ db.rows[q.id] = None /\ Enters(q.at, q.id, q.payload)
           /\ \E r \in SlotType :
                slot' = [slot EXCEPT ![h] = r] /\ r.pc = "write" /\ r.late = q.late
  <2>1. ~q.late BY <1>1, <1>2, <1>5 DEF CreateInv
  <2>2. PICK r \in SlotType : slot' = [slot EXCEPT ![h] = r] /\ r.pc = "write" /\ ~r.late
    BY <1>5, <2>1
  <2>3. CreatesWell(r) BY <2>2 DEF CreatesWell
  <2>4. SameCreations BY <1>2, <1>5, EntersHistory DEF SameCreations
  <2> QED BY <1>3, <2>2, <2>3, <2>4, CreateMove
<1> QED BY <1>2, <1>4, <1>5

LEMMA AnswersCreate ==
  ASSUME TypeInv, ShapeInv, TemplatesInv, CreateInv, Steady, NEW h \in Slots,
         \/ Create(h) \/ Lookup(h) \/ Update(h) \/ Write(h) \/ TestRun(h) \/ Fetch(h) \/ StartRun(h)
         \/ ListTemplates(h) \/ EditTemplate(h) \/ OpenTemplate(h) \/ RestoreTemplate(h)
         \/ CountTemplates(h) \/ Seed(h) \/ StoreTemplate(h) \/ UseTemplate(h) \/ FailedWrite(h)
  PROVE  CreateInv'
<1>1. ASSUME UNCHANGED history PROVE SameCreations BY <1>1 DEF SameCreations
<1>2. ASSUME db'.rows = db.rows PROVE RowsStay BY <1>2 DEF RowsStay
<1>3. ASSUME NEW r \in SlotType, r.pc \notin {"lookup", "write"} PROVE CreatesWell(r)
  BY <1>3 DEF CreatesWell
<1>4. CASE Create(h)
  <2>1. UNCHANGED <<db, history>> BY <1>4 DEF Create
  <2>2. PICK r \in SlotType : /\ slot' = [slot EXCEPT ![h] = r] /\ r.pc = "lookup"
                              /\ r.late => r.id \in history.created
    BY <1>4, CreateSlot
  <2>3. CreatesWell(r) BY <2>2 DEF CreatesWell
  <2> QED BY <1>1, <1>2, <2>1, <2>2, <2>3, CreateMove
<1>5. CASE Lookup(h) BY <1>5, LookupCreates
<1>6. CASE Update(h)
  <2>1. PICK r \in SlotType, s \in scenario.servers, i \in Ids, p \in Payload :
          /\ slot' = [slot EXCEPT ![h] = r] /\ r.pc = "write" /\ ~r.creates /\ Enters(s, i, p)
    BY <1>6, UpdateSlot
  <2>2. CreatesWell(r) BY <2>1 DEF CreatesWell
  <2>3. SameCreations BY <2>1, EntersHistory, ScenarioFacts DEF SameCreations
  <2>4. db' = db BY <1>6 DEF Update
  <2> QED BY <1>2, <2>1, <2>2, <2>3, <2>4, CreateMove
<1>7. CASE Write(h) BY <1>7, WriteCreates
<1>8. CASE TestRun(h)
  <2>1. UNCHANGED <<db, history>> BY <1>8 DEF TestRun
  <2>2. PICK r \in SlotType : slot' = [slot EXCEPT ![h] = r] /\ r.pc \notin {"lookup", "write"}
    BY <1>8, TestRunSlot
  <2> QED BY <1>1, <1>2, <1>3, <2>1, <2>2, CreateMove
<1>9. CASE Fetch(h)
  <2>1. UNCHANGED <<db, history>> BY <1>9 DEF Fetch
  <2>2. PICK r \in SlotType : slot' = [slot EXCEPT ![h] = r] /\ r.pc \notin {"lookup", "write"}
    BY <1>9, FetchSlot, IdleType
  <2> QED BY <1>1, <1>2, <1>3, <2>1, <2>2, CreateMove
<1>10. CASE StartRun(h)
  <2>1. UNCHANGED <<db, history>> /\ slot' = [slot EXCEPT ![h] = Idle] BY <1>10 DEF StartRun
  <2> QED BY <1>1, <1>2, <2>1, IdleCreates, CreateMove
<1>11. CASE ListTemplates(h) \/ EditTemplate(h) \/ OpenTemplate(h)
  <2>1. UNCHANGED <<db, history>> BY <1>11, TemplateRequestSlot
  <2>2. PICK r \in SlotType : slot' = [slot EXCEPT ![h] = r] /\ r.pc \notin {"lookup", "write"}
    BY <1>11, TemplateRequestSlot
  <2> QED BY <1>1, <1>2, <1>3, <2>1, <2>2, CreateMove
<1>12. CASE RestoreTemplate(h)
  <2>1. db' = db BY <1>12 DEF RestoreTemplate
  <2>2. PICK r \in SlotType : slot' = [slot EXCEPT ![h] = r] /\ r.pc \notin {"lookup", "write"}
    BY <1>12, RestoreTemplateEffect
  <2>3. SameCreations BY <1>12, RestoreTemplateEffect DEF SameCreations
  <2> QED BY <1>2, <1>3, <2>1, <2>2, <2>3, CreateMove
<1>13. CASE CountTemplates(h)
  <2>1. UNCHANGED <<db, history>> BY <1>13 DEF CountTemplates
  <2>2. PICK r \in SlotType : slot' = [slot EXCEPT ![h] = r] /\ r.pc \notin {"lookup", "write"}
    BY <1>13, CountTemplatesEffect, IdleType
  <2> QED BY <1>1, <1>2, <1>3, <2>1, <2>2, CreateMove
<1>14. CASE Seed(h)
  <2>1. UNCHANGED history BY <1>14 DEF Seed
  <2>2. db'.rows = db.rows BY <1>14, SeedEffect
  <2>3. PICK r \in SlotType : slot' = [slot EXCEPT ![h] = r] /\ r.pc \notin {"lookup", "write"}
    BY <1>14, SeedEffect, IdleType
  <2> QED BY <1>1, <1>2, <1>3, <2>1, <2>2, <2>3, CreateMove
<1>15. CASE StoreTemplate(h)
  <2>1. UNCHANGED history BY <1>15 DEF StoreTemplate
  <2>2. db'.rows = db.rows /\ slot' = [slot EXCEPT ![h] = Idle] BY <1>15, StoreTemplateEffect
  <2> QED BY <1>1, <1>2, <2>1, <2>2, IdleCreates, CreateMove
<1>16. CASE UseTemplate(h)
  <2>1. UNCHANGED <<db, history>> BY <1>16 DEF UseTemplate
  <2>2. PICK r \in SlotType : /\ slot' = [slot EXCEPT ![h] = r]
                              /\ \/ r = Idle
                                 \/ r.pc = "lookup" /\ (r.late => r.id \in history.created)
    BY <1>16, UseTemplateSlot
  <2>3. CreatesWell(r) BY <2>2, IdleCreates DEF CreatesWell
  <2> QED BY <1>1, <1>2, <2>1, <2>2, <2>3, CreateMove
<1>17. CASE FailedWrite(h)
  <2>1. db' = db BY <1>17 DEF FailedWrite
  <2>2. SameCreations /\ slot' = [slot EXCEPT ![h] = Idle]
    BY <1>17, FailedWriteEffect DEF SameCreations
  <2> QED BY <1>2, <2>1, <2>2, IdleCreates, CreateMove
<1> QED
  BY <1>4, <1>5, <1>6, <1>7, <1>8, <1>9, <1>10, <1>11, <1>12, <1>13, <1>14, <1>15, <1>16, <1>17

(* Ticks and time leave requests alone, and a crash ends them. *)
LEMMA OthersCreate ==
  ASSUME TypeInv, CreateInv, RowsStay, SameCreations, slot' = slot
  PROVE  CreateInv'
<1>1. \A h \in Slots : slot'[h] = slot[h] \/ CreatesWell(slot'[h]) OBVIOUS
<1> QED BY <1>1, CreateStays

LEMMA TicksCreate ==
  ASSUME TypeInv, CreateInv, ClockInv, NEW s \in Servers, NEW n \in Overlaps,
         \/ ListRows(s, n) \/ ReadClock(s, n) \/ StartDue(s, n) \/ RecordRun(s, n)
         \/ RecordFailure(s, n) \/ EndTick(s, n) \/ FailedRecord(s, n)
  PROVE  CreateInv'
<1>1. ASSUME UNCHANGED <<db, history, slot>> PROVE CreateInv'
  BY <1>1, OthersCreate DEF RowsStay, SameCreations
<1>2. CASE ListRows(s, n) \/ ReadClock(s, n) \/ EndTick(s, n) \/ FailedRecord(s, n)
  BY <1>1, <1>2 DEF ListRows, ReadClock, EndTick, FailedRecord
<1>3. CASE StartDue(s, n) BY <1>1, <1>3 DEF StartDue
<1>4. CASE RecordRun(s, n)
  <2>1. slot' = slot BY <1>4 DEF RecordRun
  <2>2. RowsStay /\ SameCreations BY <1>4, RecordRunEffect DEF RowsStay, SameCreations
  <2> QED BY <2>1, <2>2, OthersCreate
<1>5. CASE RecordFailure(s, n)
  <2>1. slot' = slot /\ history' = history BY <1>5 DEF RecordFailure
  <2>2. RowsStay BY <1>5, RecordFailureEffect DEF RowsStay
  <2> QED BY <2>1, <2>2, OthersCreate DEF SameCreations
<1> QED BY <1>2, <1>3, <1>4, <1>5

LEMMA StartupCreate ==
  ASSUME TypeInv, StartupInv, ShapeInv, CreateInv, NEW s \in scenario.servers,
         Lock(s) \/ Migrate(s) \/ Unlock(s) \/ Load(s) \/ Crash(s)
  PROVE  CreateInv'
<1>1. s \in Servers BY ScenarioFacts
<1>2. CASE Lock(s) \/ Migrate(s) \/ Unlock(s)
  <2>1. slot' = slot BY <1>2 DEF Lock, Migrate, Unlock
  <2>2. SameCreations BY <1>1, <1>2, MigrateType DEF Lock, Unlock, SameCreations
  <2>3. RowsStay BY <1>1, <1>2, StartsUpApart DEF Apart, SameRows, RowsStay
  <2> QED BY <2>1, <2>2, <2>3, OthersCreate
<1>3. CASE Load(s) BY <1>3, OthersCreate DEF Load, RowsStay, SameCreations
<1>4. CASE Crash(s)
  <2>1. RowsStay /\ SameCreations BY <1>1, <1>4, CrashEffect DEF RowsStay, SameCreations
  <2>2. \A h \in Slots : slot'[h] = slot[h] \/ slot'[h] = Idle BY <1>1, <1>4, CrashEffect
  <2> QED BY <2>1, <2>2, IdleCreates, CreateStays
<1> QED BY <1>2, <1>3, <1>4

-----------------------------------------------------------------------------
(* Templates: what holds of one request, and of the rows of the user. *)
Settled(q) ==
  /\ q.pc = "seed" => \A t \in Places : t < q.todo => db.templates[t] # None
  /\ q.pc = "store" => ~Unseeded \/ history.partial
  /\ q.pc = "take" => server[q.at].templates[q.template] # None
Whole ==
  ~history.partial => Unseeded \/ Complete \/ \E h \in Slots : slot[h].pc = "seed"
Grows ==
  /\ \A t \in Places : db.templates[t] # None => db'.templates[t] # None
  /\ history.partial => history'.partial
MemoryStays(z) ==
  \A t \in Places : server[z].templates[t] # None => server'[z].templates[t] # None

LEMMA SettledStays ==
  ASSUME Grows, NEW q \in SlotType, Settled(q), Sensible(q), q.pc = "take" => MemoryStays(q.at)
  PROVE  Settled(q)'
<1>1. ~Unseeded => ~Unseeded' BY DEF Grows, Unseeded, Places
<1> QED BY <1>1 DEF Settled, Sensible, Grows, MemoryStays

LEMMA AllSettled ==
  ASSUME Whole', \A h \in Slots : \E q \in SlotType : q = slot'[h] /\ Settled(q)'
  PROVE  TemplatesInv'
<1> SUFFICES ASSUME NEW h \in Slots
             PROVE  (/\ slot[h].pc = "seed" => \A t \in Places : t < slot[h].todo => db.templates[t] # None
                     /\ slot[h].pc = "store" => ~Unseeded \/ history.partial
                     /\ slot[h].pc = "take" => server[slot[h].at].templates[slot[h].template] # None)'
  BY DEF TemplatesInv, Whole
<1>1. PICK q \in SlotType : q = slot'[h] /\ Settled(q)' OBVIOUS
<1> QED BY <1>1 DEF Settled

LEMMA WasSettled ==
  ASSUME TypeInv, ShapeInv, TemplatesInv, NEW h \in Slots, NEW q, q = slot[h]
  PROVE  /\ q \in SlotType /\ Settled(q) /\ Sensible(q)
         /\ q.pc # "idle" => q.at \in Servers /\ Serving(q.at)
  BY ScenarioFacts DEF TypeInv, ShapeInv, TemplatesInv, Settled, Sensible

LEMMA MoveSettled ==
  ASSUME TypeInv, ShapeInv, TemplatesInv, Grows, NEW h \in Slots, NEW r \in SlotType, Settled(r)',
         slot' = [slot EXCEPT ![h] = r], Whole',
         \A z \in Servers : Serving(z) => MemoryStays(z)
  PROVE  TemplatesInv'
<1> SUFFICES ASSUME NEW g \in Slots PROVE \E q \in SlotType : q = slot'[g] /\ Settled(q)'
  BY AllSettled
<1>1. CASE g = h BY <1>1 DEF TypeInv
<1>2. CASE g # h
  <2>1. PICK q : q = slot[g] OBVIOUS
  <2>2. q = slot'[g] BY <1>2, <2>1 DEF TypeInv
  <2> QED BY <2>1, <2>2, WasSettled, SettledStays
<1> QED BY <1>1, <1>2

LEMMA WholeStays ==
  ASSUME TypeInv, TemplatesInv, Grows, NEW h \in Slots, NEW r \in SlotType,
         slot' = [slot EXCEPT ![h] = r],
         Unseeded => Unseeded' \/ history'.partial \/ r.pc = "seed",
         slot[h].pc = "seed" => r.pc = "seed" \/ history'.partial
  PROVE  Whole'
<1> SUFFICES ASSUME ~history'.partial
             PROVE  Unseeded' \/ Complete' \/ \E g \in Slots : slot'[g].pc = "seed"
  BY DEF Whole
<1>1. CASE Unseeded BY <1>1 DEF TypeInv
<1>2. CASE Complete BY <1>2 DEF Complete, Grows
<1>3. ASSUME NEW g \in Slots, slot[g].pc = "seed" PROVE \E k \in Slots : slot'[k].pc = "seed"
  <2>1. CASE g = h BY <1>3, <2>1 DEF TypeInv
  <2>2. CASE g # h BY <1>3, <2>2 DEF TypeInv
  <2> QED BY <2>1, <2>2
<1> QED BY <1>1, <1>2, <1>3 DEF TemplatesInv, Grows

(* most requests do not touch templates *)
LEMMA AsideTemplates ==
  ASSUME TypeInv, ShapeInv, TemplatesInv, NEW h \in Slots, NEW r \in SlotType,
         slot' = [slot EXCEPT ![h] = r], r.pc \notin {"seed", "store", "take"},
         slot[h].pc # "seed" \/ history'.partial,
         db'.templates = db.templates, history.partial => history'.partial,
         \A z \in Servers : server'[z].templates = server[z].templates
  PROVE  TemplatesInv'
<1>1. Grows BY DEF Grows
<1>2. Unseeded' <=> Unseeded BY DEF Unseeded
<1>3. Whole' BY <1>1, <1>2, WholeStays
<1>4. Settled(r)' BY DEF Settled
<1>5. \A z \in Servers : MemoryStays(z) BY DEF MemoryStays
<1> QED BY <1>1, <1>3, <1>4, <1>5, MoveSettled

LEMMA MemoryTemplates ==
  ASSUME TypeInv, NEW s \in Servers, NEW i \in Ids, NEW p,
         server' = [server EXCEPT ![s].memory[i] = p]
  PROVE  \A z \in Servers : server'[z].templates = server[z].templates
  BY DEF TypeInv, ServerType

LEMMA EntersTemplates ==
  ASSUME TypeInv, NEW s \in Servers, NEW i \in Ids, NEW p \in Payload, Enters(s, i, p)
  PROVE  \A z \in Servers : server'[z].templates = server[z].templates
  BY EntersServer

LEMMA CountTemplatesTemplates ==
  ASSUME TypeInv, ShapeInv, TemplatesInv, NEW h \in Slots, CountTemplates(h)
  PROVE  TemplatesInv'
<1>1. PICK q \in SlotType : q = slot[h] BY DEF TypeInv
<1>2. UNCHANGED <<db, history>> BY DEF CountTemplates
<1>3. Grows /\ (Unseeded' <=> Unseeded) BY <1>2 DEF Grows, Unseeded
<1>4. q.pc = "count" /\ \A z \in Servers : MemoryStays(z)
  BY <1>1, CountTemplatesEffect DEF MemoryStays
<1>5. PICK r \in SlotType :
        /\ slot' = [slot EXCEPT ![h] = r]
        /\ \/ Unseeded /\ r.pc = "seed" /\ r.todo = 1
           \/ ~Unseeded /\ r = Idle
           \/ /\ ~Unseeded /\ r.pc \in {"take", "store"} /\ r.at = q.at /\ r.template = q.template
              /\ r.pc = "take" => server'[q.at].templates[q.template] # None
  BY <1>1, CountTemplatesEffect
<1>6. Whole' BY <1>1, <1>3, <1>4, <1>5, WholeStays
<1>7. \A t \in Places : ~(t < 1) BY TemplatesAssumption DEF Places
<1>8. Settled(r)' BY <1>3, <1>5, <1>7, IdleType DEF Settled
<1> QED BY <1>3, <1>4, <1>5, <1>6, <1>8, MoveSettled

LEMMA SeedTemplates ==
  ASSUME TypeInv, ShapeInv, TemplatesInv, NEW h \in Slots, Seed(h)
  PROVE  TemplatesInv'
<1>1. PICK q \in SlotType : q = slot[h] BY DEF TypeInv
<1>2. UNCHANGED history BY DEF Seed
<1>3. /\ q.pc = "seed" /\ q.todo \in Places
      /\ \A t \in Places : /\ db.templates[t] # None => db'.templates[t] # None
                           /\ t = q.todo => db'.templates[t] # None
      /\ \A z \in Servers : MemoryStays(z)
  BY <1>1, SeedEffect DEF MemoryStays
<1>4. Grows BY <1>2, <1>3 DEF Grows
<1>5. PICK r \in SlotType :
        /\ slot' = [slot EXCEPT ![h] = r]
        /\ \/ r.pc = "seed" /\ r.todo = q.todo + 1
           \/ q.todo = Len(Templates) /\ r = Idle
           \/ /\ q.todo = Len(Templates)
              /\ r.pc \in {"take", "store"} /\ r.at = q.at /\ r.template = q.template
              /\ r.pc = "take" => server'[q.at].templates[q.template] # None
  BY <1>1, SeedEffect
<1>6. \A t \in Places : t <= q.todo => db'.templates[t] # None
  <2> SUFFICES ASSUME NEW t \in Places, t <= q.todo PROVE db'.templates[t] # None OBVIOUS
  <2>1. t < q.todo \/ t = q.todo BY <1>3, TemplatesAssumption DEF Places
  <2>2. t < q.todo => db.templates[t] # None BY <1>1, <1>3 DEF TemplatesInv
  <2> QED BY <1>3, <2>1, <2>2
<1>7. ~Unseeded' BY <1>3 DEF Unseeded, Places
<1>8. q.todo = Len(Templates) => Complete'
  BY <1>6, TemplatesAssumption DEF Complete, Places
<1>9. Whole' BY <1>5, <1>8 DEF Whole, TypeInv
<1>10. Settled(r)'
  <2>1. r.pc = "seed" => \A t \in Places : t < r.todo => db'.templates[t] # None
    <3> SUFFICES ASSUME r.pc = "seed", NEW t \in Places, t < r.todo PROVE db'.templates[t] # None
      OBVIOUS
    <3>1. r.todo = q.todo + 1 BY <1>5, IdleType
    <3>2. t <= q.todo BY <1>3, <3>1, TemplatesAssumption DEF Places
    <3> QED BY <1>6, <3>2
  <2>2. r.pc = "take" => server'[r.at].templates[r.template] # None BY <1>5, IdleType
  <2> QED BY <1>7, <2>1, <2>2 DEF Settled
<1> QED BY <1>3, <1>4, <1>5, <1>9, <1>10, MoveSettled

LEMMA StoreTemplateTemplates ==
  ASSUME TypeInv, ShapeInv, TemplatesInv, NEW h \in Slots, StoreTemplate(h)
  PROVE  TemplatesInv'
<1>1. UNCHANGED <<server, history>> BY DEF StoreTemplate
<1>2. /\ slot' = [slot EXCEPT ![h] = Idle] /\ slot[h].pc = "store"
      /\ \A t \in Places : db.templates[t] # None => db'.templates[t] # None
  BY StoreTemplateEffect
<1>3. Grows BY <1>1, <1>2 DEF Grows
<1>4. Unseeded => history'.partial BY <1>1, <1>2 DEF TemplatesInv
<1>5. Whole' BY <1>2, <1>3, <1>4, IdleType, WholeStays
<1>6. Settled(Idle)' BY IdleType DEF Settled
<1>7. \A z \in Servers : MemoryStays(z) BY <1>1 DEF MemoryStays
<1> QED BY <1>2, <1>3, <1>5, <1>6, <1>7, IdleType, MoveSettled

LEMMA RestoreTemplateTemplates ==
  ASSUME TypeInv, ShapeInv, TemplatesInv, NEW h \in Slots, RestoreTemplate(h)
  PROVE  TemplatesInv'
<1>1. db' = db /\ slot[h].pc = "idle" BY DEF RestoreTemplate, Asks
<1>2. Unseeded' <=> Unseeded BY <1>1 DEF Unseeded
<1>3. PICK r \in SlotType : slot' = [slot EXCEPT ![h] = r] /\ r.pc = "store"
  BY RestoreTemplateEffect
<1>4. (history'.partial <=> history.partial \/ Unseeded) /\ \A z \in Servers : MemoryStays(z)
  BY RestoreTemplateEffect DEF MemoryStays
<1>5. Grows BY <1>1, <1>4 DEF Grows
<1>6. Whole' BY <1>1, <1>2, <1>3, <1>5, WholeStays
<1>7. Settled(r)' BY <1>2, <1>3, <1>4 DEF Settled
<1> QED BY <1>3, <1>4, <1>5, <1>6, <1>7, MoveSettled

LEMMA AnswersTemplates ==
  ASSUME TypeInv, ShapeInv, TemplatesInv, NEW h \in Slots,
         \/ Create(h) \/ Lookup(h) \/ Update(h) \/ Write(h) \/ TestRun(h) \/ Fetch(h) \/ StartRun(h)
         \/ ListTemplates(h) \/ EditTemplate(h) \/ OpenTemplate(h) \/ RestoreTemplate(h)
         \/ CountTemplates(h) \/ Seed(h) \/ StoreTemplate(h) \/ UseTemplate(h) \/ FailedWrite(h)
  PROVE  TemplatesInv'
<1>1. CASE Create(h)
  <2>1. UNCHANGED <<db, server, history>> /\ slot[h].pc = "idle" BY <1>1 DEF Create, Asks
  <2>2. PICK r \in SlotType : slot' = [slot EXCEPT ![h] = r] /\ r.pc = "lookup"
    BY <1>1, CreateSlot
  <2> QED BY <2>1, <2>2, AsideTemplates
<1>2. CASE Lookup(h)
  <2>1. PICK q \in SlotType : q = slot[h] BY DEF TypeInv
  <2>2. /\ q.pc = "lookup" /\ q.at \in Servers /\ q.id \in Ids /\ q.payload \in Payload
        /\ \/ /\ slot' = [slot EXCEPT ![h] = Idle] /\ history' = history
              /\ server' = [server EXCEPT ![q.at].memory[q.id] = Stored(q.id)]
           \/ /\ Enters(q.at, q.id, q.payload)
              /\ \E r \in SlotType : slot' = [slot EXCEPT ![h] = r] /\ r.pc = "write"
    BY <1>2, <2>1, LookupSlot
  <2>3. db' = db BY <1>2 DEF Lookup
  <2>4. CASE /\ slot' = [slot EXCEPT ![h] = Idle] /\ history' = history
             /\ server' = [server EXCEPT ![q.at].memory[q.id] = Stored(q.id)]
    <3>1. \A z \in Servers : server'[z].templates = server[z].templates
      BY <2>2, <2>4, MemoryTemplates
    <3> QED BY <2>1, <2>2, <2>3, <2>4, <3>1, IdleType, AsideTemplates
  <2>5. CASE /\ Enters(q.at, q.id, q.payload)
             /\ \E r \in SlotType : slot' = [slot EXCEPT ![h] = r] /\ r.pc = "write"
    <3>1. \A z \in Servers : server'[z].templates = server[z].templates
      BY <2>2, <2>5, EntersTemplates
    <3>2. history'.partial = history.partial BY <2>2, <2>5, EntersHistory
    <3> QED BY <2>1, <2>2, <2>3, <2>5, <3>1, <3>2, AsideTemplates
  <2> QED BY <2>2, <2>4, <2>5
<1>3. CASE Update(h)
  <2>1. PICK r \in SlotType, s \in scenario.servers, i \in Ids, p \in Payload :
          /\ slot' = [slot EXCEPT ![h] = r] /\ slot[h].pc = "idle" /\ r.pc = "write"
          /\ Enters(s, i, p)
    BY <1>3, UpdateSlot
  <2>2. s \in Servers BY ScenarioFacts
  <2>3. \A z \in Servers : server'[z].templates = server[z].templates
    BY <2>1, <2>2, EntersTemplates
  <2>4. history'.partial = history.partial BY <2>1, <2>2, EntersHistory
  <2>5. db' = db BY <1>3 DEF Update
  <2> QED BY <2>1, <2>3, <2>4, <2>5, AsideTemplates
<1>4. CASE Write(h)
  <2>1. UNCHANGED server BY <1>4 DEF Write
  <2>2. slot[h].pc = "write" /\ db'.templates = db.templates /\ history'.partial = history.partial
    BY <1>4, WriteEffect
  <2>3. PICK r \in SlotType : slot' = [slot EXCEPT ![h] = r] /\ r.pc \in {"idle", "start"}
    BY <1>4, WriteEffect, IdleType
  <2> QED BY <2>1, <2>2, <2>3, AsideTemplates
<1>5. CASE TestRun(h)
  <2>1. UNCHANGED <<db, server, history>> /\ slot[h].pc = "idle" BY <1>5 DEF TestRun, Asks
  <2>2. PICK r \in SlotType : slot' = [slot EXCEPT ![h] = r] /\ r.pc \in {"fetch", "start"}
    BY <1>5, TestRunSlot
  <2> QED BY <2>1, <2>2, AsideTemplates
<1>6. CASE Fetch(h)
  <2>1. PICK q \in SlotType : q = slot[h] BY DEF TypeInv
  <2>2. UNCHANGED <<db, history>> /\ q.pc = "fetch" BY <1>6, <2>1 DEF Fetch
  <2>3. PICK r \in SlotType : slot' = [slot EXCEPT ![h] = r] /\ r.pc \in {"idle", "start"}
    BY <1>6, FetchSlot, IdleType
  <2>4. /\ q.at \in Servers /\ q.id \in Ids
        /\ \/ UNCHANGED server
           \/ server' = [server EXCEPT ![q.at].memory[q.id] = Stored(q.id)]
    BY <1>6, <2>1, FetchSlot
  <2>5. \A z \in Servers : server'[z].templates = server[z].templates
    BY <2>4, MemoryTemplates
  <2> QED BY <2>1, <2>2, <2>3, <2>5, AsideTemplates
<1>7. CASE StartRun(h)
  <2>1. UNCHANGED <<db, history>> /\ slot' = [slot EXCEPT ![h] = Idle] /\ slot[h].pc = "start"
    BY <1>7 DEF StartRun
  <2>2. PICK s \in Servers, i \in Ids : s = slot[h].at /\ i = slot[h].id
    BY <2>1, ScenarioFacts DEF ShapeInv, Sensible
  <2>3. \/ UNCHANGED server
        \/ Keeps(s, Len(runs) + 1, server[s].catalog[i][Latest(s, i)])
    BY <1>7, <2>2 DEF StartRun, StartsRun, Keeps
  <2>4. \A z \in Servers : server'[z].templates = server[z].templates
    BY <2>3, StartsRunServer DEF Keeps
  <2> QED BY <2>1, <2>4, IdleType, AsideTemplates
<1>8. CASE ListTemplates(h) \/ EditTemplate(h) \/ OpenTemplate(h)
  <2>1. UNCHANGED <<db, server, history>> BY <1>8, TemplateRequestSlot
  <2>2. PICK r \in SlotType : slot' = [slot EXCEPT ![h] = r] /\ r.pc = "count"
    BY <1>8, TemplateRequestSlot
  <2>3. slot[h].pc = "idle"
    BY <1>8 DEF ListTemplates, EditTemplate, OpenTemplate, TemplateRequest, Asks
  <2> QED BY <2>1, <2>2, <2>3, AsideTemplates
<1>9. CASE RestoreTemplate(h) BY <1>9, RestoreTemplateTemplates
<1>10. CASE CountTemplates(h) BY <1>10, CountTemplatesTemplates
<1>11. CASE Seed(h) BY <1>11, SeedTemplates
<1>12. CASE StoreTemplate(h) BY <1>12, StoreTemplateTemplates
<1>13. CASE UseTemplate(h)
  <2>1. UNCHANGED <<db, server, history>> BY <1>13 DEF UseTemplate
  <2>2. PICK r \in SlotType : /\ slot' = [slot EXCEPT ![h] = r] /\ slot[h].pc = "take"
                              /\ r.pc \in {"idle", "lookup"}
    BY <1>13, UseTemplateSlot, IdleType
  <2> QED BY <2>1, <2>2, AsideTemplates
<1>14. CASE FailedWrite(h)
  <2>1. UNCHANGED <<db, server>> BY <1>14 DEF FailedWrite
  <2>2. /\ slot' = [slot EXCEPT ![h] = Idle] /\ (history.partial => history'.partial)
        /\ slot[h].pc = "seed" => history'.partial
    BY <1>14, FailedWriteEffect
  <2> QED BY <2>1, <2>2, IdleType, AsideTemplates
<1> QED
  BY <1>1, <1>2, <1>3, <1>4, <1>5, <1>6, <1>7, <1>8, <1>9, <1>10, <1>11, <1>12, <1>13, <1>14

(* Nobody else does, but a process that starts or ends. *)
LEMMA OthersTemplates ==
  ASSUME TypeInv, ShapeInv, TemplatesInv, slot' = slot, db'.templates = db.templates,
         history'.partial = history.partial,
         \A z \in Servers : Serving(z) => server'[z].templates = server[z].templates
  PROVE  TemplatesInv'
<1>1. Grows /\ (Unseeded' <=> Unseeded) /\ (Complete' <=> Complete)
  BY DEF Grows, Unseeded, Complete
<1>2. Whole' BY <1>1 DEF Whole, TemplatesInv
<1> SUFFICES ASSUME NEW h \in Slots PROVE \E q \in SlotType : q = slot'[h] /\ Settled(q)'
  BY <1>2, AllSettled
<1>3. PICK q : q = slot[h] OBVIOUS
<1>4. q \in SlotType /\ Settled(q) /\ Sensible(q) /\ (q.pc # "idle" => q.at \in Servers /\ Serving(q.at))
  BY <1>3, WasSettled
<1>5. q.pc = "take" => MemoryStays(q.at) BY <1>4 DEF MemoryStays
<1> QED BY <1>1, <1>3, <1>4, <1>5, SettledStays

LEMMA TicksTemplates ==
  ASSUME TypeInv, ShapeInv, TemplatesInv, ClockInv, NEW s \in Servers, NEW n \in Overlaps,
         \/ ListRows(s, n) \/ ReadClock(s, n) \/ StartDue(s, n) \/ RecordRun(s, n)
         \/ RecordFailure(s, n) \/ EndTick(s, n) \/ FailedRecord(s, n)
  PROVE  TemplatesInv'
<1>1. CASE ListRows(s, n) \/ ReadClock(s, n) \/ EndTick(s, n) \/ FailedRecord(s, n)
  BY <1>1, OthersTemplates DEF ListRows, ReadClock, EndTick, FailedRecord
<1>2. CASE StartDue(s, n)
  <2>1. UNCHANGED <<db, slot, history>> BY <1>2 DEF StartDue
  <2>2. PICK i \in Ids :
          \/ UNCHANGED <<runs, server>>
          \/ StartsRun(s, i, "schedule", <<i, Day(tick[s][n].now)>> \in tick[s][n].knows)
    BY <1>2, StartDueEffect
  <2>3. UNCHANGED server \/ Keeps(s, Len(runs) + 1, server[s].catalog[i][Latest(s, i)])
    BY <2>2 DEF StartsRun, Keeps
  <2>4. \A z \in Servers : server'[z].templates = server[z].templates
    BY <2>3, StartsRunServer DEF Keeps
  <2> QED BY <2>1, <2>4, OthersTemplates
<1>3. CASE RecordRun(s, n)
  <2>1. UNCHANGED <<server, slot>> BY <1>3 DEF RecordRun
  <2>2. db'.templates = db.templates /\ history'.partial = history.partial BY <1>3, RecordRunEffect
  <2> QED BY <2>1, <2>2, OthersTemplates
<1>4. CASE RecordFailure(s, n)
  <2>1. UNCHANGED <<server, slot, history>> BY <1>4 DEF RecordFailure
  <2>2. db'.templates = db.templates BY <1>4, RecordFailureEffect
  <2> QED BY <2>1, <2>2, OthersTemplates
<1> QED BY <1>1, <1>2, <1>3, <1>4

LEMMA TickRunTemplates ==
  ASSUME TypeInv, ShapeInv, TemplatesInv, NEW s \in Servers, TickRun(s)
  PROVE  TemplatesInv'
<1>1. UNCHANGED <<db, slot, history>> BY DEF TickRun
<1>2. PICK r \in DOMAIN runs : UNCHANGED server \/ Keeps(s, r, Definition(s, r))
  BY DEF TickRun, Keeps
<1>3. \A z \in Servers : server'[z].templates = server[z].templates
  BY <1>2, StartsRunServer DEF Keeps
<1> QED BY <1>1, <1>3, OthersTemplates

LEMMA CrashTemplates ==
  ASSUME TypeInv, ShapeInv, TemplatesInv, NEW s \in Servers, Crash(s)
  PROVE  TemplatesInv'
<1>1. /\ server' = [server EXCEPT ![s] = Fresh]
      /\ \A h \in At(s) : slot'[h] = Idle
      /\ \A h \in Slots \ At(s) : slot'[h] = slot[h]
      /\ db'.templates = db.templates
      /\ history.partial => history'.partial
      /\ \A h \in At(s) : slot[h].pc = "seed" => history'.partial
  BY CrashEffect
<1>2. Grows /\ (Unseeded' <=> Unseeded) /\ (Complete' <=> Complete)
  BY <1>1 DEF Grows, Unseeded, Complete
<1>3. Whole'
  <2> SUFFICES ASSUME ~history'.partial
               PROVE  Unseeded' \/ Complete' \/ \E h \in Slots : slot'[h].pc = "seed"
    BY DEF Whole
  <2>1. \A h \in Slots : slot[h].pc = "seed" => slot'[h].pc = "seed" BY <1>1
  <2> QED BY <1>1, <1>2, <2>1 DEF TemplatesInv
<1> SUFFICES ASSUME NEW h \in Slots PROVE \E q \in SlotType : q = slot'[h] /\ Settled(q)'
  BY <1>3, AllSettled
<1>4. CASE h \in At(s)
  <2>1. Settled(Idle)' BY IdleType DEF Settled
  <2> QED BY <1>1, <1>4, <2>1, IdleType
<1>5. CASE h \notin At(s)
  <2>1. PICK q : q = slot[h] OBVIOUS
  <2>2. q \in SlotType /\ Settled(q) /\ Sensible(q) /\ (q.pc # "idle" => q.at \in Servers)
    BY <2>1, WasSettled
  <2>3. q.pc # "idle" => q.at # s BY <1>5, <2>1 DEF At
  <2>4. q.pc = "take" => MemoryStays(q.at) BY <1>1, <2>2, <2>3 DEF MemoryStays, TypeInv
  <2> QED BY <1>1, <1>2, <1>5, <2>1, <2>2, <2>4, SettledStays
<1> QED BY <1>4, <1>5

LEMMA StartupTemplates ==
  ASSUME TypeInv, StartupInv, ShapeInv, TemplatesInv, NEW s \in scenario.servers,
         Lock(s) \/ Migrate(s) \/ Unlock(s) \/ Load(s) \/ Crash(s)
  PROVE  TemplatesInv'
<1>1. s \in Servers BY ScenarioFacts
<1>2. CASE Lock(s) \/ Migrate(s) \/ Unlock(s) \/ Load(s)
  <2>1. slot' = slot /\ ~Serving(s) BY <1>2 DEF Lock, Migrate, Unlock, Load, Serving
  <2>2. db'.templates = db.templates
    BY <1>1, <1>2, MigrateType DEF Lock, Unlock, Load, TypeInv, DbType
  <2>3. history' = history BY <1>1, <1>2, MigrateType DEF Lock, Unlock, Load
  <2>4. \A z \in Servers : z # s => server'[z] = server[z]
    BY <1>1, <1>2, LoadServer DEF Lock, Migrate, Unlock, TypeInv
  <2> QED BY <2>1, <2>2, <2>3, <2>4, OthersTemplates
<1>3. CASE Crash(s) BY <1>1, <1>3, CrashTemplates
<1> QED BY <1>2, <1>3

-----------------------------------------------------------------------------
(* Clocks: what holds of one tick. *)
Timely(t) ==
  /\ t.began <= t.now /\ t.now <= time /\ time < t.began + DayLength
  /\ t.knows \subseteq history.recorded
  /\ \A i \in Ids : t.rows[i] # None =>
       /\ db.rows[i] # None /\ <<i, t.rows[i].payload>> \in history.saved
       /\ t.rows[i].lastRun # None => t.rows[i].lastRun <= t.began
  /\ t.pc \in {"record", "fail"} => t.at \in Ids /\ db.rows[t.at] # None
LastRunsPast ==
  \A i \in Ids : db.rows[i] # None /\ db.rows[i].lastRun # None => db.rows[i].lastRun <= time
HistoryGrows ==
  history.recorded \subseteq history'.recorded /\ history.saved \subseteq history'.saved

LEMMA TimelyStays ==
  ASSUME RowsStay, HistoryGrows, time' = time, NEW t \in TickType, Timely(t)
  PROVE  Timely(t)'
  BY DEF Timely, RowsStay, HistoryGrows

LEMMA AllTimely ==
  ASSUME LastRunsPast',
         \A s \in Servers, n \in Overlaps : \E t \in TickType :
           t = tick'[s][n] /\ (t.pc # "idle" => Serving(s)' /\ Timely(t)')
  PROVE  ClockInv'
<1> SUFFICES ASSUME NEW s \in Servers, NEW n \in Overlaps
             PROVE  (LET t == tick[s][n] IN t.pc # "idle" =>
                      /\ Serving(s)
                      /\ t.began <= t.now /\ t.now <= time /\ time < t.began + DayLength
                      /\ t.knows \subseteq history.recorded
                      /\ \A i \in Ids : t.rows[i] # None =>
                           /\ db.rows[i] # None /\ <<i, t.rows[i].payload>> \in history.saved
                           /\ t.rows[i].lastRun # None => t.rows[i].lastRun <= t.began
                      /\ t.pc \in {"record", "fail"} => t.at \in Ids /\ db.rows[t.at] # None)'
  BY DEF ClockInv, LastRunsPast
<1>1. PICK t \in TickType : t = tick'[s][n] /\ (t.pc # "idle" => Serving(s)' /\ Timely(t)')
  OBVIOUS
<1> QED BY <1>1 DEF Timely

LEMMA WasTimely ==
  ASSUME TypeInv, ClockInv, NEW s \in Servers, NEW n \in Overlaps, NEW t, t = tick[s][n]
  PROVE  t \in TickType /\ (t.pc # "idle" => Serving(s) /\ Timely(t))
<1>1. t \in TickType BY TickFacts
<1> QED BY <1>1 DEF ClockInv, Timely

(* a step that is no tick's *)
LEMMA SameTicksClock ==
  ASSUME TypeInv, ClockInv, RowsStay, HistoryGrows, LastRunsPast', tick' = tick, time' = time,
         \A z \in Servers : Serving(z) => Serving(z)'
  PROVE  ClockInv'
<1> SUFFICES ASSUME NEW s \in Servers, NEW n \in Overlaps
             PROVE  \E t \in TickType :
                      t = tick'[s][n] /\ (t.pc # "idle" => Serving(s)' /\ Timely(t)')
  BY AllTimely
<1>1. PICK t : t = tick[s][n] OBVIOUS
<1>2. t \in TickType /\ (t.pc # "idle" => Serving(s) /\ Timely(t)) BY <1>1, WasTimely
<1> QED BY <1>1, <1>2, TimelyStays

(* a step of a tick *)
LEMMA MoveClock ==
  ASSUME TypeInv, ClockInv, RowsStay, HistoryGrows, LastRunsPast', time' = time, Steady,
         NEW s \in Servers, NEW n \in Overlaps, NEW r \in TickType,
         tick' = [tick EXCEPT ![s][n] = r], r.pc # "idle" => Serving(s) /\ Timely(r)'
  PROVE  ClockInv'
<1> SUFFICES ASSUME NEW z \in Servers, NEW m \in Overlaps
             PROVE  \E t \in TickType :
                      t = tick'[z][m] /\ (t.pc # "idle" => Serving(z)' /\ Timely(t)')
  BY AllTimely
<1>1. Serving(z)' <=> Serving(z) BY SteadyServing
<1>2. CASE z = s /\ m = n BY <1>1, <1>2, TickStep, ZenonT(40)
<1>3. CASE z # s \/ m # n
  <2>1. PICK t : t = tick[z][m] OBVIOUS
  <2>2. t \in TickType /\ (t.pc # "idle" => Serving(z) /\ Timely(t)) BY <2>1, WasTimely
  <2>3. tick'[z][m] = t BY <1>3, <2>1, TickStep
  <2> QED BY <1>1, <2>2, <2>3, TimelyStays
<1> QED BY <1>2, <1>3

LEMMA SameRowsPast ==
  ASSUME ClockInv, db'.rows = db.rows, time' = time
  PROVE  RowsStay /\ LastRunsPast'
  BY DEF ClockInv, RowsStay, LastRunsPast

LEMMA ListRowsClock ==
  ASSUME TypeInv, SavedInv, ClockInv, Steady, NEW s \in Servers, NEW n \in Overlaps, ListRows(s, n)
  PROVE  ClockInv'
<1> DEFINE list == [pc |-> "listed", rows |-> db.rows, now |-> time, knows |-> history.recorded,
                    began |-> time, at |-> None]
<1>0. PICK r : r = list OBVIOUS
<1>1. Serving(s) /\ UNCHANGED <<db, time, history>> /\ tick' = [tick EXCEPT ![s][n] = r]
  BY <1>0 DEF ListRows
<1>2. r \in TickType BY <1>0, ListRowsType
<1>3. Timely(r)
  <2>1. time \in Nat /\ DayLength \in Nat \ {0} BY ClockAssumption DEF TypeInv
  <2>2. time <= time /\ time < time + DayLength BY <2>1
  <2> QED BY <1>0, <2>2 DEF Timely, ClockInv, SavedInv
<1>4. RowsStay /\ LastRunsPast' /\ HistoryGrows BY <1>1, SameRowsPast DEF HistoryGrows
<1>5. Timely(r)' BY <1>1, <1>2, <1>3, <1>4, TimelyStays
<1> QED BY <1>1, <1>2, <1>4, <1>5, MoveClock

LEMMA ReadClockClock ==
  ASSUME TypeInv, ClockInv, NEW s \in Servers, NEW n \in Overlaps, ReadClock(s, n)
  PROVE  ClockInv'
<1>1. PICK t : t = tick[s][n] OBVIOUS
<1>2. t.pc = "listed" /\ UNCHANGED <<db, time, history>> BY <1>1 DEF ReadClock
<1>3. t \in TickType /\ Serving(s) /\ Timely(t) BY <1>1, <1>2, WasTimely
<1>a. PICK r : r = [t EXCEPT !.pc = "due", !.now = time] OBVIOUS
<1>4. Steady /\ r \in TickType /\ tick' = [tick EXCEPT ![s][n] = r] BY <1>1, <1>a, ReadClockType
<1>5. r.pc = "due" /\ r.now = time /\ r.began = t.began /\ r.knows = t.knows /\ r.rows = t.rows
  BY <1>3, <1>a DEF TickType
<1>6. RowsStay /\ LastRunsPast' /\ HistoryGrows BY <1>2, SameRowsPast DEF HistoryGrows
<1>7. t.began <= time /\ time <= time BY <1>3 DEF TypeInv, TickType, Timely
<1>8. Timely(r) BY <1>3, <1>5, <1>7 DEF Timely
<1>9. Timely(r)' BY <1>2, <1>4, <1>6, <1>8, TimelyStays
<1> QED BY <1>2, <1>3, <1>4, <1>6, <1>9, MoveClock

LEMMA StartDueClock ==
  ASSUME TypeInv, ClockInv, NEW s \in Servers, NEW n \in Overlaps, StartDue(s, n)
  PROVE  ClockInv'
<1> DEFINE t == tick[s][n]
<1>2. t.pc = "due" /\ UNCHANGED <<db, time, history>> BY DEF StartDue
<1>3. t \in TickType /\ Serving(s) /\ Timely(t) BY <1>2, WasTimely
<1>4. PICK i \in Due(t), r \in TickType :
        /\ i \in Ids /\ Turns(s, n, r)
        /\ r.at = i /\ r.pc \in {"record", "fail"} /\ r.now = t.now
        /\ r.began = t.began /\ r.knows = t.knows
        /\ r.rows[i] = None /\ \A j \in Ids : j # i => r.rows[j] = t.rows[j]
        /\ \/ UNCHANGED <<runs, server>>
           \/ /\ Known(s, i) # {}
              /\ StartsRun(s, i, "schedule", <<i, Day(t.now)>> \in t.knows)
  BY StartDueEffect
<1>5. RowsStay /\ LastRunsPast' /\ HistoryGrows BY <1>2, SameRowsPast DEF HistoryGrows
<1>6. t.rows[i] # None BY <1>4 DEF Due
<1>7. Timely(r) BY <1>3, <1>4, <1>6 DEF Timely
<1>8. Timely(r)' BY <1>2, <1>5, <1>7, TimelyStays
<1>9. Steady BY StartDueEffect
<1> QED BY <1>2, <1>3, <1>4, <1>5, <1>8, <1>9, MoveClock DEF Turns

(* a tick that goes on with its rows *)
LEMMA GoesOnClock ==
  ASSUME TypeInv, ClockInv, RowsStay, HistoryGrows, LastRunsPast', time' = time, Steady,
         NEW s \in Servers, NEW n \in Overlaps, NEW pc \in {"due", "fail"}, NEW t, t = tick[s][n],
         t.pc \in {"record", "fail"}, NEW r \in TickType, r = [t EXCEPT !.pc = pc],
         tick' = [tick EXCEPT ![s][n] = r]
  PROVE  ClockInv'
<1>1. t \in TickType /\ Serving(s) /\ Timely(t) BY WasTimely
<1>2. r.now = t.now /\ r.began = t.began /\ r.knows = t.knows /\ r.rows = t.rows /\ r.at = t.at
  BY <1>1 DEF TickType
<1>3. Timely(r) BY <1>1, <1>2 DEF Timely
<1>4. Timely(r)' BY <1>3, TimelyStays
<1> QED BY <1>1, <1>4, MoveClock

LEMMA TicksClock ==
  ASSUME TypeInv, SavedInv, ClockInv, NEW s \in Servers, NEW n \in Overlaps,
         \/ ListRows(s, n) \/ ReadClock(s, n) \/ StartDue(s, n) \/ RecordRun(s, n)
         \/ RecordFailure(s, n) \/ EndTick(s, n) \/ FailedRecord(s, n)
  PROVE  ClockInv'
<1>1. PICK t : t = tick[s][n] OBVIOUS
<1>2. CASE ListRows(s, n) BY <1>2, ListRowsType, ListRowsClock
<1>3. CASE ReadClock(s, n) BY <1>3, ReadClockClock
<1>4. CASE StartDue(s, n) BY <1>4, StartDueClock
<1>5. CASE RecordRun(s, n)
  <2>1. time' = time /\ t.pc = "record" BY <1>1, <1>5 DEF RecordRun
  <2>2. PICK r \in TickType : r = [t EXCEPT !.pc = "due"] /\ tick' = [tick EXCEPT ![s][n] = r]
    BY <1>1, <1>5, RecordRunEffect
  <2>3. RowsStay /\ HistoryGrows BY <1>5, RecordRunEffect DEF RowsStay, HistoryGrows
  <2>4. t \in TickType /\ Timely(t) BY <1>1, <2>1, WasTimely
  <2>5. LastRunsPast'
    <3>1. db'.rows[t.at].lastRun = t.now /\ \A j \in Ids : j # t.at => db'.rows[j] = db.rows[j]
      BY <1>1, <1>5, RecordRunEffect
    <3> QED BY <2>1, <2>4, <3>1 DEF LastRunsPast, ClockInv, Timely
  <2>6. Steady BY <1>5, RecordRunEffect
  <2> QED BY <1>1, <2>1, <2>2, <2>3, <2>5, <2>6, GoesOnClock
<1>6. CASE RecordFailure(s, n)
  <2>1. time' = time /\ history' = history /\ t.pc = "fail" BY <1>1, <1>6 DEF RecordFailure
  <2>2. PICK r \in TickType : r = [t EXCEPT !.pc = "due"] /\ tick' = [tick EXCEPT ![s][n] = r]
    BY <1>1, <1>6, RecordFailureEffect
  <2>3. RowsStay /\ HistoryGrows BY <1>6, <2>1, RecordFailureEffect DEF RowsStay, HistoryGrows
  <2>4. LastRunsPast' BY <1>6, <2>1, RecordFailureEffect DEF LastRunsPast, ClockInv
  <2>5. Steady BY <1>6, RecordFailureEffect
  <2> QED BY <1>1, <2>1, <2>2, <2>3, <2>4, <2>5, GoesOnClock
<1>7. CASE EndTick(s, n)
  <2>1. UNCHANGED <<db, time, history>> BY <1>7 DEF EndTick
  <2>2. tick' = [tick EXCEPT ![s][n] = NoTick] BY <1>7 DEF EndTick
  <2>3. RowsStay /\ LastRunsPast' /\ HistoryGrows BY <2>1, SameRowsPast DEF HistoryGrows
  <2>4. Steady BY <1>7, EndTickType
  <2> QED BY <2>1, <2>2, <2>3, <2>4, NoTickType, MoveClock
<1>8. CASE FailedRecord(s, n)
  <2>1. UNCHANGED <<db, time, history>> /\ t.pc = "record" BY <1>1, <1>8 DEF FailedRecord
  <2>2. PICK r \in TickType : r = [t EXCEPT !.pc = "fail"] /\ tick' = [tick EXCEPT ![s][n] = r]
    BY <1>1, <1>8, FailedRecordType
  <2>3. RowsStay /\ LastRunsPast' /\ HistoryGrows BY <2>1, SameRowsPast DEF HistoryGrows
  <2>4. Steady BY <1>8, FailedRecordType
  <2> QED BY <1>1, <2>1, <2>2, <2>3, <2>4, GoesOnClock
<1> QED BY <1>2, <1>3, <1>4, <1>5, <1>6, <1>7, <1>8

LEMMA AnswersClock ==
  ASSUME TypeInv, ShapeInv, TemplatesInv, ClockInv, Steady, NEW h \in Slots,
         \/ Create(h) \/ Lookup(h) \/ Update(h) \/ Write(h) \/ TestRun(h) \/ Fetch(h) \/ StartRun(h)
         \/ ListTemplates(h) \/ EditTemplate(h) \/ OpenTemplate(h) \/ RestoreTemplate(h)
         \/ CountTemplates(h) \/ Seed(h) \/ StoreTemplate(h) \/ UseTemplate(h) \/ FailedWrite(h)
  PROVE  ClockInv'
<1>1. \A z \in Servers : Serving(z) => Serving(z)' BY SteadyServing
<1>2. ASSUME db'.rows = db.rows, HistoryGrows, tick' = tick, time' = time PROVE ClockInv'
  BY <1>1, <1>2, SameRowsPast, SameTicksClock
<1>3. ASSUME UNCHANGED <<db, history, tick, time>> PROVE ClockInv'
  BY <1>2, <1>3 DEF HistoryGrows
<1>4. CASE Create(h) \/ TestRun(h) \/ Fetch(h) \/ StartRun(h)
  BY <1>3, <1>4 DEF Create, TestRun, Fetch, StartRun
<1>5. CASE ListTemplates(h) \/ EditTemplate(h) \/ OpenTemplate(h)
  BY <1>3, <1>5, TemplateRequestSlot
<1>6. CASE CountTemplates(h) \/ UseTemplate(h)
  BY <1>3, <1>6 DEF CountTemplates, UseTemplate
<1>7. CASE Lookup(h) \/ Update(h)
  <2>1. UNCHANGED <<db, tick, time>> BY <1>7 DEF Lookup, Update
  <2>2. HistoryGrows
    <3>1. \/ history' = history
          \/ \E s \in Servers, i \in Ids, p \in Payload : Enters(s, i, p)
      BY <1>7, LookupSlot, UpdateSlot, ScenarioFacts
    <3> QED BY <3>1, EntersHistory DEF HistoryGrows
  <2> QED BY <1>2, <2>1, <2>2
<1>8. CASE Write(h)
  <2>1. tick' = tick /\ time' = time BY <1>8 DEF Write
  <2>2. PICK i \in Ids : i = slot[h].id BY <1>8, WriteEffect
  <2>3. /\ db'.rows[i] # None
        /\ db'.rows[i].lastRun = IF db.rows[i] = None THEN None ELSE db.rows[i].lastRun
        /\ \A j \in Ids : j # i => db'.rows[j] = db.rows[j]
        /\ history'.saved = history.saved /\ history'.recorded = history.recorded
    BY <1>8, <2>2, WriteEffect
  <2>4. RowsStay /\ HistoryGrows BY <2>3 DEF RowsStay, HistoryGrows
  <2>5. LastRunsPast' BY <2>1, <2>3 DEF LastRunsPast, ClockInv
  <2> QED BY <1>1, <2>1, <2>4, <2>5, SameTicksClock
<1>9. CASE RestoreTemplate(h)
  <2>1. UNCHANGED <<db, tick, time>> BY <1>9 DEF RestoreTemplate
  <2> QED BY <1>2, <1>9, <2>1, RestoreTemplateEffect DEF HistoryGrows
<1>10. CASE Seed(h)
  <2>1. UNCHANGED <<history, tick, time>> BY <1>10 DEF Seed
  <2> QED BY <1>2, <1>10, <2>1, SeedEffect DEF HistoryGrows
<1>11. CASE StoreTemplate(h)
  <2>1. UNCHANGED <<history, tick, time>> BY <1>11 DEF StoreTemplate
  <2> QED BY <1>2, <1>11, <2>1, StoreTemplateEffect DEF HistoryGrows
<1>12. CASE FailedWrite(h)
  <2>1. UNCHANGED <<db, tick, time>> BY <1>12 DEF FailedWrite
  <2> QED BY <1>2, <1>12, <2>1, FailedWriteEffect DEF HistoryGrows
<1> QED BY <1>4, <1>5, <1>6, <1>7, <1>8, <1>9, <1>10, <1>11, <1>12

LEMMA AdvanceClock ==
  ASSUME TypeInv, ClockInv, Advance
  PROVE  ClockInv'
<1>1. UNCHANGED <<db, tick, history, server>> /\ time' = time + 1 BY DEF Advance
<1>2. time \in Nat BY DEF TypeInv
<1>3. \A i \in Ids : db.rows[i] # None => db.rows[i].lastRun \in {None} \cup Nat
  BY RowPayload DEF Rows
<1>4. LastRunsPast' BY <1>1, <1>2, <1>3 DEF LastRunsPast, ClockInv
<1> SUFFICES ASSUME NEW s \in Servers, NEW n \in Overlaps
             PROVE  \E t \in TickType :
                      t = tick'[s][n] /\ (t.pc # "idle" => Serving(s)' /\ Timely(t)')
  BY <1>4, AllTimely
<1>5. PICK t : t = tick[s][n] OBVIOUS
<1>6. t \in TickType /\ (t.pc # "idle" => Serving(s) /\ Timely(t)) BY <1>5, WasTimely
<1>7. t.pc # "idle" => time + 1 < t.began + DayLength BY <1>5 DEF Advance
<1>8. t.pc # "idle" => t.now <= time + 1 BY <1>2, <1>6 DEF Timely, TickType
<1>9. t.pc # "idle" => Timely(t)' BY <1>1, <1>6, <1>7, <1>8 DEF Timely
<1> QED BY <1>1, <1>5, <1>6, <1>9 DEF Serving

LEMMA TickRunClock ==
  ASSUME TypeInv, ClockInv, NEW s \in Servers, TickRun(s)
  PROVE  ClockInv'
<1>1. UNCHANGED <<db, tick, time, history>> BY DEF TickRun
<1>2. Steady BY TickRunEffect
<1> QED BY <1>1, <1>2, SteadyServing, SameRowsPast, SameTicksClock DEF HistoryGrows

LEMMA StartupClock ==
  ASSUME TypeInv, StartupInv, ShapeInv, ClockInv, NEW s \in scenario.servers,
         Lock(s) \/ Migrate(s) \/ Unlock(s) \/ Load(s) \/ Crash(s)
  PROVE  ClockInv'
<1>1. s \in Servers BY ScenarioFacts
<1>2. CASE Lock(s) \/ Migrate(s) \/ Unlock(s) \/ Load(s)
  <2>1. tick' = tick /\ time' = time /\ ~Serving(s)
    BY <1>2 DEF Lock, Migrate, Unlock, Load, Serving
  <2>2. history' = history BY <1>1, <1>2, MigrateType DEF Lock, Unlock, Load
  <2>3. db'.rows = db.rows
    BY <1>1, <1>2, MigrateType DEF Lock, Unlock, Load, TypeInv, DbType
  <2>4. \A z \in Servers : z # s => server'[z] = server[z]
    BY <1>1, <1>2, LoadServer DEF Lock, Migrate, Unlock, TypeInv
  <2>5. \A z \in Servers : Serving(z) => Serving(z)' BY <2>1, <2>4 DEF Serving
  <2> QED BY <2>1, <2>2, <2>3, <2>5, SameRowsPast, SameTicksClock DEF HistoryGrows
<1>3. CASE Crash(s)
  <2>1. /\ server' = [server EXCEPT ![s] = Fresh]
        /\ \A n \in Overlaps : tick'[s][n] = NoTick
        /\ \A z \in Servers \ {s} : tick'[z] = tick[z]
        /\ db'.rows = db.rows /\ time' = time
        /\ history'.saved = history.saved /\ history'.recorded = history.recorded
    BY <1>1, <1>3, CrashEffect
  <2>2. RowsStay /\ LastRunsPast' /\ HistoryGrows BY <2>1, SameRowsPast DEF HistoryGrows
  <2> SUFFICES ASSUME NEW z \in Servers, NEW n \in Overlaps
               PROVE  \E t \in TickType :
                        t = tick'[z][n] /\ (t.pc # "idle" => Serving(z)' /\ Timely(t)')
    BY <2>2, AllTimely
  <2>3. CASE z = s BY <2>1, <2>3, NoTickType
  <2>4. CASE z # s
    <3>1. PICK t : t = tick[z][n] OBVIOUS
    <3>2. t \in TickType /\ (t.pc # "idle" => Serving(z) /\ Timely(t)) BY <3>1, WasTimely
    <3>3. tick'[z][n] = t /\ (Serving(z)' <=> Serving(z))
      BY <2>1, <2>4, <3>1 DEF Serving, TypeInv
    <3> QED BY <2>1, <2>2, <3>2, <3>3, TimelyStays
  <2> QED BY <2>3, <2>4
<1> QED BY <1>2, <1>3

-----------------------------------------------------------------------------
(* Days. *)
LEMMA DivMod ==
  ASSUME NEW a \in Nat, NEW L \in Nat \ {0}
  PROVE  /\ a \div L \in Nat /\ a % L \in 0 .. L - 1
         /\ a = (L * (a \div L)) + (a % L)
  OBVIOUS

LEMMA MulMono ==
  ASSUME NEW p \in Nat, NEW q \in Nat, NEW L \in Nat, p <= q
  PROVE  L * p <= L * q
<1>1. PICK k \in Nat : q = p + k
  <2>1. q - p \in Nat /\ q = p + (q - p) OBVIOUS
  <2> QED BY <2>1
<1>2. L * k \in Nat OBVIOUS
<1>3. L * q = (L * p) + (L * k) BY <1>1
<1>4. L * p \in Nat OBVIOUS
<1> HIDE <1>1
<1> QED BY <1>2, <1>3, <1>4

(* the same minute of a later day is a day later at least *)
LEMMA Later ==
  ASSUME NEW a \in Nat, NEW b \in Nat, a % DayLength = b % DayLength, Day(a) < Day(b)
  PROVE  a + DayLength <= b
<1>1. DayLength \in Nat \ {0} BY ClockAssumption
<1> DEFINE d == a \div DayLength
           e == b \div DayLength
           r == a % DayLength
<1>2. d \in Nat /\ e \in Nat /\ r \in 0 .. DayLength - 1 BY <1>1, DivMod
<1>3. d < e BY DEF Day
<1>4. d + 1 <= e BY <1>2, <1>3
<1>5. a = (DayLength * d) + r /\ b = (DayLength * e) + r BY <1>1, DivMod
<1> HIDE DEF d, e, r
<1>6. DayLength * (d + 1) <= DayLength * e BY <1>1, <1>4, <1>2, MulMono
<1>7. DayLength * (d + 1) = (DayLength * d) + DayLength BY <1>1, <1>2
<1>8. DayLength * d \in Nat /\ DayLength * e \in Nat BY <1>1, <1>2
<1> QED BY <1>1, <1>2, <1>5, <1>6, <1>7, <1>8

LEMMA DayGrows ==
  ASSUME NEW a \in Nat, NEW b \in Nat, a <= b
  PROVE  Day(a) <= Day(b)
<1>1. DayLength \in Nat \ {0} BY ClockAssumption
<1> DEFINE d == a \div DayLength
           e == b \div DayLength
           r == a % DayLength
           q == b % DayLength
<1>2. d \in Nat /\ e \in Nat /\ r \in 0 .. DayLength - 1 /\ q \in 0 .. DayLength - 1
  BY <1>1, DivMod
<1>3. a = (DayLength * d) + r /\ b = (DayLength * e) + q BY <1>1, DivMod
<1> SUFFICES d <= e BY DEF Day
<1> HIDE DEF d, e, r, q
<1> SUFFICES ASSUME e + 1 <= d PROVE FALSE BY <1>2
<1>4. DayLength * (e + 1) <= DayLength * d BY <1>1, <1>2, MulMono
<1>5. DayLength * (e + 1) = (DayLength * e) + DayLength BY <1>1, <1>2
<1>6. DayLength * d \in Nat /\ DayLength * e \in Nat BY <1>1, <1>2
<1> QED BY <1>1, <1>2, <1>3, <1>4, <1>5, <1>6

(* What a row and a tick remember, one workflow at a time. *)
RecordsKept(i) ==
  \A d \in Nat : <<i, d>> \in history.recorded =>
    /\ Remembers(db.rows[i], d)
    /\ \E w \in 0 .. time : Day(w) = d /\ AtMinute(i, w)
Recalls(i, t) ==
  t.pc # "idle" =>
    /\ t.rows[i] # None => \A d \in Nat : <<i, d>> \in t.knows => Remembers(t.rows[i], d)
    /\ t.pc = "record" /\ t.at = i => AtMinute(i, t.now)
NotAgain(i) == \A r \in DOMAIN runs : runs[r].id = i => ~runs[r].again
RecordedRows == \A e \in history.recorded : db.rows[e[1]] # None

LEMMA DayParts ==
  ASSUME RecordedRows',
         \A i \in Ids : Fixed(i)' =>
           /\ RecordsKept(i)' /\ NotAgain(i)'
           /\ \A s \in Servers, n \in Overlaps :
                \E t \in TickType : t = tick'[s][n] /\ Recalls(i, t)'
  PROVE  DayInv'
<1>1. ASSUME NEW i \in Ids, Fixed(i)', NEW s \in Servers, NEW n \in Overlaps
      PROVE  (LET t == tick[s][n] IN t.pc # "idle" =>
                /\ t.rows[i] # None => \A d \in Nat : <<i, d>> \in t.knows => Remembers(t.rows[i], d)
                /\ t.pc = "record" /\ t.at = i => AtMinute(i, t.now))'
  <2>1. PICK t \in TickType : t = tick'[s][n] /\ Recalls(i, t)' BY <1>1
  <2> QED BY <2>1 DEF Recalls, Remembers, AtMinute
<1> QED BY <1>1 DEF DayInv, RecordedRows, RecordsKept, NotAgain

LEMMA WasDay ==
  ASSUME DayInv, NEW i \in Ids, Fixed(i)
  PROVE  /\ RecordedRows /\ RecordsKept(i) /\ NotAgain(i)
         /\ \A s \in Servers, n \in Overlaps : \A t : t = tick[s][n] => Recalls(i, t)
  BY DEF DayInv, RecordedRows, RecordsKept, NotAgain, Recalls

(* More saves: a schedule that is still the same was the same, and names    *)
(* the same minute. *)
LEMMA WasFixed ==
  ASSUME history.saved \subseteq history'.saved, NEW i \in Ids, Fixed(i)'
  PROVE  Fixed(i)
  BY DEF Fixed, Saves

LEMMA MinuteStays ==
  ASSUME history.saved \subseteq history'.saved, NEW i \in Ids, Fixed(i)', Saves(i) # {},
         NEW w, AtMinute(i, w)
  PROVE  AtMinute(i, w)'
<1>1. PICK f \in Saves(i) : TRUE OBVIOUS
<1>2. f[2].schedule.minute = w % DayLength BY <1>1 DEF AtMinute
<1>3. f \in Saves(i)' BY <1>1 DEF Saves
<1>4. \A e \in Saves(i)' : e[2].schedule = f[2].schedule BY <1>3 DEF Fixed
<1> QED BY <1>2, <1>4 DEF AtMinute

LEMMA RowSaved ==
  ASSUME SavedInv, NEW i \in Ids, db.rows[i] # None
  PROVE  Saves(i) # {}
<1>1. <<i, db.rows[i].payload>> \in history.saved BY DEF SavedInv
<1> QED BY <1>1 DEF Saves

LEMMA RecallsStays ==
  ASSUME TypeInv, SavedInv, ClockInv, DayInv, history.saved \subseteq history'.saved,
         NEW i \in Ids, Fixed(i)', NEW s \in Servers, NEW n \in Overlaps, NEW t, t = tick[s][n]
  PROVE  t \in TickType /\ Recalls(i, t)'
<1>1. Fixed(i) BY WasFixed
<1>2. t \in TickType /\ Recalls(i, t) BY <1>1, WasDay, TickFacts
<1>3. t.pc = "record" /\ t.at = i => Saves(i) # {} BY WasTimely, RowSaved DEF Timely
<1> QED BY <1>2, <1>3, MinuteStays DEF Recalls, Remembers

LastRunsKept ==
  \A i \in Ids : db.rows[i] # None => db'.rows[i] # None /\ db'.rows[i].lastRun = db.rows[i].lastRun
TicksRecall ==
  \A i \in Ids : Fixed(i)' => \A s \in Servers, n \in Overlaps :
    \E t \in TickType : t = tick'[s][n] /\ Recalls(i, t)'

LEMMA RecordsStay ==
  ASSUME TypeInv, SavedInv, DayInv, LastRunsKept, history.saved \subseteq history'.saved,
         history'.recorded = history.recorded, time' \in Nat, time <= time',
         NEW i \in Ids, Fixed(i)'
  PROVE  RecordsKept(i)'
<1> SUFFICES ASSUME NEW d \in Nat, <<i, d>> \in history'.recorded
             PROVE  /\ Remembers(db'.rows[i], d)
                    /\ \E w \in 0 .. time' : Day(w) = d /\ AtMinute(i, w)'
  BY DEF RecordsKept, Remembers
<1>1. <<i, d>> \in history.recorded OBVIOUS
<1>2. Fixed(i) BY WasFixed
<1>3. RecordsKept(i) /\ RecordedRows BY <1>2, WasDay
<1>4. db.rows[i] # None BY <1>1, <1>3 DEF RecordedRows
<1>5. Remembers(db.rows[i], d) BY <1>1, <1>3 DEF RecordsKept
<1>6. PICK w \in 0 .. time : Day(w) = d /\ AtMinute(i, w) BY <1>1, <1>3 DEF RecordsKept
<1>7. AtMinute(i, w)' BY <1>4, <1>6, RowSaved, MinuteStays
<1>8. w \in 0 .. time' BY <1>6 DEF TypeInv
<1> QED BY <1>4, <1>5, <1>6, <1>7, <1>8 DEF Remembers, LastRunsKept

LEMMA DayCalm ==
  ASSUME TypeInv, SavedInv, ClockInv, DayInv, LastRunsKept, TicksRecall,
         history.saved \subseteq history'.saved, history'.recorded = history.recorded,
         time' \in Nat, time <= time', \A i \in Ids : Fixed(i) /\ NotAgain(i) => NotAgain(i)'
  PROVE  DayInv'
<1>1. RecordedRows'
  <2> SUFFICES ASSUME NEW e \in history'.recorded PROVE db'.rows[e[1]] # None
    BY DEF RecordedRows
  <2>1. e \in history.recorded /\ e[1] \in Ids BY DEF TypeInv, HistoryType
  <2> QED BY <2>1 DEF DayInv, LastRunsKept
<1> SUFFICES ASSUME NEW i \in Ids, Fixed(i)'
             PROVE  RecordsKept(i)' /\ NotAgain(i)'
  BY <1>1, DayParts DEF TicksRecall
<1>2. Fixed(i) BY WasFixed
<1> QED BY <1>2, RecordsStay, WasDay

LEMMA SameTicksRecall ==
  ASSUME TypeInv, SavedInv, ClockInv, DayInv, history.saved \subseteq history'.saved, tick' = tick
  PROVE  TicksRecall
<1> SUFFICES ASSUME NEW i \in Ids, Fixed(i)', NEW s \in Servers, NEW n \in Overlaps
             PROVE  \E t \in TickType : t = tick'[s][n] /\ Recalls(i, t)'
  BY DEF TicksRecall
<1>1. PICK t : t = tick[s][n] OBVIOUS
<1> QED BY <1>1, RecallsStays

LEMMA MoveRecalls ==
  ASSUME TypeInv, SavedInv, ClockInv, DayInv, history.saved \subseteq history'.saved,
         NEW s \in Servers, NEW n \in Overlaps, NEW r \in TickType,
         tick' = [tick EXCEPT ![s][n] = r], \A i \in Ids : Fixed(i)' => Recalls(i, r)'
  PROVE  TicksRecall
<1> SUFFICES ASSUME NEW i \in Ids, Fixed(i)', NEW z \in Servers, NEW m \in Overlaps
             PROVE  \E t \in TickType : t = tick'[z][m] /\ Recalls(i, t)'
  BY DEF TicksRecall
<1>1. CASE z = s /\ m = n BY <1>1, TickStep, ZenonT(40)
<1>2. CASE z # s \/ m # n
  <2>1. PICK t : t = tick[z][m] OBVIOUS
  <2>2. tick'[z][m] = t BY <1>2, <2>1, TickStep
  <2> QED BY <2>1, <2>2, RecallsStays
<1> QED BY <1>1, <1>2

LEMMA AnswersDay ==
  ASSUME TypeInv, ShapeInv, TemplatesInv, SavedInv, ClockInv, DayInv, NEW h \in Slots,
         \/ Create(h) \/ Lookup(h) \/ Update(h) \/ Write(h) \/ TestRun(h) \/ Fetch(h) \/ StartRun(h)
         \/ ListTemplates(h) \/ EditTemplate(h) \/ OpenTemplate(h) \/ RestoreTemplate(h)
         \/ CountTemplates(h) \/ Seed(h) \/ StoreTemplate(h) \/ UseTemplate(h) \/ FailedWrite(h)
  PROVE  DayInv'
<1>1. tick' = tick /\ time' = time
  <2>1. ASSUME Create(h) \/ TestRun(h) \/ Fetch(h) \/ StartRun(h) \/ Lookup(h) \/ Update(h) \/ Write(h)
        PROVE  tick' = tick /\ time' = time
    BY <2>1 DEF Create, TestRun, Fetch, StartRun, Lookup, Update, Write
  <2>2. ASSUME RestoreTemplate(h) \/ CountTemplates(h) \/ Seed(h) \/ StoreTemplate(h)
               \/ UseTemplate(h) \/ FailedWrite(h)
        PROVE  tick' = tick /\ time' = time
    BY <2>2 DEF RestoreTemplate, CountTemplates, Seed, StoreTemplate, UseTemplate, FailedWrite
  <2> QED BY <2>1, <2>2, TemplateRequestSlot
<1>2. time \in Nat /\ time <= time BY DEF TypeInv
<1>3. ASSUME history.saved \subseteq history'.saved, history'.recorded = history.recorded,
             LastRunsKept, \A i \in Ids : Fixed(i) /\ NotAgain(i) => NotAgain(i)'
      PROVE  DayInv'
  BY <1>1, <1>2, <1>3, SameTicksRecall, DayCalm
<1>4. ASSUME UNCHANGED runs PROVE \A i \in Ids : Fixed(i) /\ NotAgain(i) => NotAgain(i)'
  BY <1>4 DEF NotAgain
<1>5. ASSUME db'.rows = db.rows PROVE LastRunsKept BY <1>5 DEF LastRunsKept
<1>6. CASE Create(h) \/ TestRun(h) \/ Fetch(h)
  <2>1. UNCHANGED <<db, runs, history>> BY <1>6 DEF Create, TestRun, Fetch
  <2> QED BY <1>3, <1>4, <1>5, <2>1
<1>7. CASE ListTemplates(h) \/ EditTemplate(h) \/ OpenTemplate(h)
  BY <1>3, <1>4, <1>5, <1>7, TemplateRequestSlot
<1>8. CASE CountTemplates(h) \/ UseTemplate(h)
  <2>1. UNCHANGED <<db, runs, history>> BY <1>8 DEF CountTemplates, UseTemplate
  <2> QED BY <1>3, <1>4, <1>5, <2>1
<1>9. CASE Lookup(h) \/ Update(h)
  <2>1. UNCHANGED <<db, runs>> BY <1>9 DEF Lookup, Update
  <2>2. \/ history' = history
        \/ \E s \in Servers, i \in Ids, p \in Payload : Enters(s, i, p)
    BY <1>9, LookupSlot, UpdateSlot, ScenarioFacts
  <2>3. history.saved \subseteq history'.saved /\ history'.recorded = history.recorded
    BY <2>2, EntersHistory
  <2> QED BY <1>3, <1>4, <1>5, <2>1, <2>3
<1>10. CASE Write(h)
  <2>1. UNCHANGED runs BY <1>10 DEF Write
  <2>2. PICK i \in Ids : i = slot[h].id BY <1>10, WriteEffect
  <2>3. /\ db'.rows[i] # None
        /\ db'.rows[i].lastRun = IF db.rows[i] = None THEN None ELSE db.rows[i].lastRun
        /\ \A j \in Ids : j # i => db'.rows[j] = db.rows[j]
        /\ history'.saved = history.saved /\ history'.recorded = history.recorded
    BY <1>10, <2>2, WriteEffect
  <2>4. LastRunsKept BY <2>3 DEF LastRunsKept
  <2> QED BY <1>3, <1>4, <2>1, <2>3, <2>4
<1>11. CASE StartRun(h)
  <2>1. UNCHANGED <<db, history>> /\ slot[h].pc = "start" BY <1>11 DEF StartRun
  <2>2. PICK s \in Servers, i \in Ids : s = slot[h].at /\ i = slot[h].id
    BY <2>1, ScenarioFacts DEF ShapeInv, Sensible
  <2>3. \/ UNCHANGED runs
        \/ Known(s, i) # {} /\ StartsRun(s, i, "request", FALSE)
    BY <1>11, <2>2 DEF StartRun
  <2>4. CASE UNCHANGED runs BY <1>3, <1>4, <1>5, <2>1, <2>4
  <2>5. CASE Known(s, i) # {} /\ StartsRun(s, i, "request", FALSE)
    <3>1. /\ \A r \in DOMAIN runs : runs'[r] = runs[r]
          /\ \A r \in DOMAIN runs' \ DOMAIN runs : r = Len(runs) + 1
          /\ ~runs'[Len(runs) + 1].again
      BY <2>5, StartsRunEffect
    <3>2. \A j \in Ids : NotAgain(j) => NotAgain(j)' BY <3>1 DEF NotAgain
    <3> QED BY <1>3, <1>5, <2>1, <3>2
  <2> QED BY <2>3, <2>4, <2>5
<1>12. CASE RestoreTemplate(h)
  <2>1. UNCHANGED <<db, runs>> BY <1>12 DEF RestoreTemplate
  <2> QED BY <1>3, <1>4, <1>5, <1>12, <2>1, RestoreTemplateEffect
<1>13. CASE Seed(h)
  <2>1. UNCHANGED <<runs, history>> BY <1>13 DEF Seed
  <2> QED BY <1>3, <1>4, <1>5, <1>13, <2>1, SeedEffect
<1>14. CASE StoreTemplate(h)
  <2>1. UNCHANGED <<runs, history>> BY <1>14 DEF StoreTemplate
  <2> QED BY <1>3, <1>4, <1>5, <1>14, <2>1, StoreTemplateEffect
<1>15. CASE FailedWrite(h)
  <2>1. UNCHANGED <<db, runs>> BY <1>15 DEF FailedWrite
  <2> QED BY <1>3, <1>4, <1>5, <1>15, <2>1, FailedWriteEffect
<1> QED BY <1>6, <1>7, <1>8, <1>9, <1>10, <1>11, <1>12, <1>13, <1>14, <1>15

(* A tick starts a row that its rows say has not run on that day.  When the *)
(* schedule has stayed the same, that day is not among the days the tick    *)
(* knows to be recorded. *)
LEMMA StartDueDay ==
  ASSUME TypeInv, SavedInv, ClockInv, DayInv, NEW s \in Servers, NEW n \in Overlaps, StartDue(s, n)
  PROVE  DayInv'
<1> DEFINE t == tick[s][n]
<1>1. t.pc = "due" /\ UNCHANGED <<db, time, history>> BY DEF StartDue
<1>2. t \in TickType /\ Serving(s) /\ Timely(t) BY <1>1, WasTimely
<1>3. PICK i \in Due(t), r \in TickType :
        /\ i \in Ids /\ Turns(s, n, r)
        /\ r.at = i /\ r.pc \in {"record", "fail"} /\ r.now = t.now
        /\ r.began = t.began /\ r.knows = t.knows
        /\ r.rows[i] = None /\ \A j \in Ids : j # i => r.rows[j] = t.rows[j]
        /\ \/ UNCHANGED <<runs, server>>
           \/ /\ Known(s, i) # {}
              /\ StartsRun(s, i, "schedule", <<i, Day(t.now)>> \in t.knows)
  BY StartDueEffect
<1>4. i \in Ids /\ t.rows[i] # None /\ ShouldFire(t.rows[i], t.now) BY <1>3 DEF Due
<1>5. t.rows[i] \in Rows BY <1>2, <1>4 DEF TickType, RowTable
<1>6. history.saved \subseteq history'.saved /\ history'.recorded = history.recorded BY <1>1
<1>7. Fixed(i) => AtMinute(i, t.now)
  <2> SUFFICES ASSUME Fixed(i), NEW e \in Saves(i)
               PROVE  e[2].schedule.minute = t.now % DayLength
    BY DEF AtMinute
  <2>1. <<i, t.rows[i].payload>> \in Saves(i) BY <1>2, <1>4 DEF Timely, Saves
  <2>2. e[2].schedule = t.rows[i].payload.schedule BY <2>1 DEF Fixed
  <2>3. t.now % DayLength = t.rows[i].payload.schedule.minute BY <1>4 DEF ShouldFire
  <2> QED BY <2>2, <2>3
<1>8. Fixed(i) => <<i, Day(t.now)>> \notin t.knows
  <2> SUFFICES ASSUME Fixed(i), <<i, Day(t.now)>> \in t.knows PROVE FALSE OBVIOUS
  <2>1. t.now \in Nat /\ t.began \in Nat BY <1>2 DEF TickType
  <2>2. Day(t.now) \in Nat BY <2>1, DayType
  <2>3. Remembers(t.rows[i], Day(t.now)) BY <1>1, <1>4, <2>2 DEF DayInv
  <2>4. PICK k \in Nat : k = t.rows[i].lastRun BY <1>5, <2>3 DEF Remembers, Rows
  <2>5. k # None BY <2>3, <2>4 DEF Remembers
  <2>6. k <= t.began /\ t.began <= t.now BY <1>2, <1>4, <2>4, <2>5 DEF Timely
  <2>7. Day(k) <= Day(t.now) BY <2>1, <2>6, DayGrows
  <2>8. Day(t.now) <= Day(k) BY <2>3, <2>4 DEF Remembers
  <2>9. Day(k) # Day(t.now) BY <1>4, <2>4, <2>5 DEF ShouldFire
  <2> QED BY <2>1, <2>2, <2>7, <2>8, <2>9, DayType
<1>9. \A j \in Ids : Fixed(j)' => Recalls(j, r)'
  <2> SUFFICES ASSUME NEW j \in Ids, Fixed(j)' PROVE Recalls(j, r)' OBVIOUS
  <2>1. Fixed(j) BY <1>6, WasFixed
  <2>2. Recalls(j, t) BY <2>1, WasDay
  <2>3. Recalls(j, r)
    <3>1. r.rows[j] # None => j # i BY <1>3
    <3>2. r.pc = "record" /\ r.at = j => AtMinute(j, r.now) BY <1>3, <1>7, <2>1
    <3> QED BY <1>1, <1>3, <2>2, <3>1, <3>2 DEF Recalls
  <2> QED BY <1>1, <2>3 DEF Recalls, Remembers, AtMinute, Saves
<1>10. TicksRecall BY <1>3, <1>6, <1>9, MoveRecalls DEF Turns
<1>11. \A j \in Ids : Fixed(j) /\ NotAgain(j) => NotAgain(j)'
  <2>1. CASE UNCHANGED <<runs, server>> BY <2>1 DEF NotAgain
  <2>2. CASE Known(s, i) # {} /\ StartsRun(s, i, "schedule", <<i, Day(t.now)>> \in t.knows)
    <3> DEFINE Result(b) == /\ \A k \in DOMAIN runs : runs'[k] = runs[k]
                            /\ \A k \in DOMAIN runs' \ DOMAIN runs : k = Len(runs) + 1
                            /\ runs'[Len(runs) + 1].id = i
                            /\ (runs'[Len(runs) + 1].again <=> b)
    <3>1. ASSUME NEW b \in BOOLEAN, StartsRun(s, i, "schedule", b) PROVE Result(b)
      BY <1>4, <2>2, <3>1, StartsRunEffect
    <3>2. (<<i, Day(t.now)>> \in t.knows) \in BOOLEAN OBVIOUS
    <3> HIDE DEF Result
    <3>3. Result(<<i, Day(t.now)>> \in t.knows) BY <2>2, <3>1, <3>2
    <3>4. /\ \A k \in DOMAIN runs : runs'[k] = runs[k]
          /\ \A k \in DOMAIN runs' \ DOMAIN runs : k = Len(runs) + 1
          /\ runs'[Len(runs) + 1].id = i
          /\ runs'[Len(runs) + 1].again <=> <<i, Day(t.now)>> \in t.knows
      BY <3>3 DEF Result
    <3> QED BY <1>8, <3>4 DEF NotAgain
  <2> QED BY <1>3, <2>1, <2>2
<1>12. LastRunsKept BY <1>1 DEF LastRunsKept
<1>13. time' \in Nat /\ time <= time' BY <1>1 DEF TypeInv
<1> QED BY <1>6, <1>10, <1>11, <1>12, <1>13, DayCalm

(* A tick that records a day never comes after one that recorded a later    *)
(* day: at the same minute that day would be a day away. *)
LEMMA RecordRunDay ==
  ASSUME TypeInv, SavedInv, ClockInv, DayInv, NEW s \in Servers, NEW n \in Overlaps, RecordRun(s, n)
  PROVE  DayInv'
<1>1. PICK t : t = tick[s][n] OBVIOUS
<1>2. t.pc = "record" /\ UNCHANGED <<server, time, runs>> BY <1>1 DEF RecordRun
<1>3. t \in TickType /\ Serving(s) /\ Timely(t) BY <1>1, <1>2, WasTimely
<1>4. PICK i \in Ids : i = t.at BY <1>2, <1>3 DEF Timely
<1>5. /\ db.rows[i] # None /\ db'.rows[i] # None /\ db'.rows[i].lastRun = t.now
      /\ \A j \in Ids : j # i => db'.rows[j] = db.rows[j]
      /\ history'.recorded = history.recorded \cup {<<i, Day(t.now)>>}
      /\ history'.saved = history.saved
  BY <1>1, <1>4, RecordRunEffect
<1>6. PICK r \in TickType : r = [t EXCEPT !.pc = "due"] /\ tick' = [tick EXCEPT ![s][n] = r]
  BY <1>1, RecordRunEffect
<1>7. r.pc = "due" /\ r.rows = t.rows /\ r.knows = t.knows BY <1>3, <1>6 DEF TickType
<1>8. t.now \in Nat /\ t.began \in Nat /\ time \in Nat /\ DayLength \in Nat \ {0}
      /\ t.began <= t.now /\ t.now <= time /\ time < t.began + DayLength
  BY <1>3, ClockAssumption DEF TypeInv, TickType, Timely
<1>9. t.now # None BY <1>8, NoneAssumption
<1>10. history.saved \subseteq history'.saved BY <1>5
<1>11. \A j : (Fixed(j)' <=> Fixed(j)) /\ \A w : AtMinute(j, w)' <=> AtMinute(j, w)
  BY <1>5 DEF Fixed, AtMinute, Saves
<1>12. TicksRecall
  <2>1. ASSUME NEW j \in Ids, Fixed(j)' PROVE Recalls(j, r)'
    <3>1. Recalls(j, t) BY <1>1, <1>11, <2>1, WasDay
    <3> QED BY <1>2, <1>7, <3>1 DEF Recalls, Remembers
  <2> QED BY <1>6, <1>10, <2>1, MoveRecalls
<1>13. RecordedRows'
  <2> SUFFICES ASSUME NEW e \in history'.recorded PROVE db'.rows[e[1]] # None
    BY DEF RecordedRows
  <2>1. CASE e = <<i, Day(t.now)>> BY <1>5, <2>1
  <2>2. CASE e \in history.recorded
    <3>1. e[1] \in Ids /\ db.rows[e[1]] # None BY <2>2 DEF TypeInv, HistoryType, DayInv
    <3> QED BY <1>5, <3>1
  <2> QED BY <1>5, <2>1, <2>2
<1> SUFFICES ASSUME NEW j \in Ids, Fixed(j)
             PROVE  RecordsKept(j)' /\ NotAgain(j)'
  BY <1>11, <1>12, <1>13, DayParts DEF TicksRecall
<1>14. RecordsKept(j) /\ NotAgain(j) BY WasDay
<1>15. NotAgain(j)' BY <1>2, <1>14 DEF NotAgain
<1>16. RecordsKept(j)'
  <2> SUFFICES ASSUME NEW d \in Nat, <<j, d>> \in history'.recorded
               PROVE  /\ Remembers(db'.rows[j], d)
                      /\ \E w \in 0 .. time : Day(w) = d /\ AtMinute(j, w)
    BY <1>2, <1>11 DEF RecordsKept, Remembers
  <2>1. CASE j # i
    <3>1. <<j, d>> \in history.recorded BY <1>5, <2>1
    <3> QED BY <1>5, <1>14, <2>1, <3>1 DEF RecordsKept, Remembers
  <2>2. CASE j = i
    <3>1. Recalls(i, t) BY <1>1, <2>2, WasDay
    <3>2. AtMinute(i, t.now) BY <1>2, <1>4, <3>1 DEF Recalls
    <3>3. Day(t.now) \in Nat BY <1>8, DayType
    <3>4. CASE <<i, d>> \in history.recorded
      <4>1. PICK w \in 0 .. time : Day(w) = d /\ AtMinute(i, w)
        BY <1>14, <2>2, <3>4 DEF RecordsKept
      <4>2. PICK e \in Saves(i) : TRUE BY <1>5, RowSaved
      <4>3. w % DayLength = t.now % DayLength BY <3>2, <4>1, <4>2 DEF AtMinute
      <4>4. ~(Day(t.now) < d)
        <5> SUFFICES ASSUME Day(t.now) < Day(w) PROVE FALSE BY <4>1
        <5>1. w \in Nat /\ w <= time BY <1>8, <4>1
        <5>2. t.now + DayLength <= w BY <1>8, <4>3, <5>1, Later
        <5> QED BY <1>8, <5>1, <5>2
      <4>5. d <= Day(t.now) BY <3>3, <4>4
      <4> QED BY <1>5, <1>9, <2>2, <4>1, <4>5 DEF Remembers
    <3>5. CASE d = Day(t.now)
      <4>1. Remembers(db'.rows[j], d) BY <1>5, <1>9, <2>2, <3>3, <3>5 DEF Remembers
      <4>2. t.now \in 0 .. time BY <1>8
      <4> QED BY <2>2, <3>2, <3>5, <4>1, <4>2
    <3> QED BY <1>5, <2>2, <3>4, <3>5
  <2> QED BY <2>1, <2>2
<1> QED BY <1>15, <1>16

LEMMA TicksDay ==
  ASSUME TypeInv, SavedInv, ClockInv, DayInv, NEW s \in Servers, NEW n \in Overlaps,
         \/ ListRows(s, n) \/ ReadClock(s, n) \/ StartDue(s, n) \/ RecordRun(s, n)
         \/ RecordFailure(s, n) \/ EndTick(s, n) \/ FailedRecord(s, n)
  PROVE  DayInv'
<1>1. PICK t : t = tick[s][n] OBVIOUS
<1>2. t \in TickType BY <1>1, TickFacts
<1>3. time \in Nat /\ time <= time BY DEF TypeInv
<1>4. ASSUME UNCHANGED <<time, history, runs>>, LastRunsKept, NEW r \in TickType,
             tick' = [tick EXCEPT ![s][n] = r],
             \A i \in Ids : Fixed(i) /\ Recalls(i, t) => Recalls(i, r)
      PROVE  DayInv'
  <2>1. history.saved \subseteq history'.saved /\ history'.recorded = history.recorded
        /\ time' = time
    BY <1>4
  <2>2. ASSUME NEW i \in Ids, Fixed(i)' PROVE Recalls(i, r)'
    <3>1. Fixed(i) BY <2>1, <2>2, WasFixed
    <3>2. Recalls(i, r) BY <1>1, <1>4, <3>1, WasDay
    <3> QED BY <1>4, <3>2 DEF Recalls, Remembers, AtMinute, Saves
  <2>3. TicksRecall BY <1>4, <2>1, <2>2, MoveRecalls
  <2>4. \A i \in Ids : Fixed(i) /\ NotAgain(i) => NotAgain(i)' BY <1>4 DEF NotAgain
  <2> QED BY <1>3, <1>4, <2>1, <2>3, <2>4, DayCalm
<1>5. CASE ListRows(s, n)
  <2>1. UNCHANGED <<db, time, history, runs>> BY <1>5 DEF ListRows
  <2>2. PICK r \in TickType :
          /\ r = [pc |-> "listed", rows |-> db.rows, now |-> time, knows |-> history.recorded,
                  began |-> time, at |-> None]
          /\ tick' = [tick EXCEPT ![s][n] = r]
    BY <1>5, ListRowsType DEF ListRows
  <2>3. r.pc = "listed" /\ r.rows = db.rows /\ r.knows = history.recorded BY <2>2
  <2>4. ASSUME NEW i \in Ids, Fixed(i) PROVE Recalls(i, r)
    <3>1. RecordsKept(i) BY <2>4, WasDay
    <3> QED BY <2>3, <3>1 DEF Recalls, RecordsKept
  <2>5. LastRunsKept BY <2>1 DEF LastRunsKept
  <2> QED BY <1>4, <2>1, <2>2, <2>4, <2>5
<1>6. CASE ReadClock(s, n)
  <2>1. UNCHANGED <<db, time, history, runs>> /\ t.pc = "listed" BY <1>1, <1>6 DEF ReadClock
  <2>2. PICK r \in TickType : r = [t EXCEPT !.pc = "due", !.now = time]
                              /\ tick' = [tick EXCEPT ![s][n] = r]
    BY <1>1, <1>6, ReadClockType
  <2>3. r.pc = "due" /\ r.rows = t.rows /\ r.knows = t.knows BY <1>2, <2>2 DEF TickType
  <2>4. \A i \in Ids : Recalls(i, t) => Recalls(i, r) BY <2>1, <2>3 DEF Recalls
  <2>5. LastRunsKept BY <2>1 DEF LastRunsKept
  <2> QED BY <1>4, <2>1, <2>2, <2>4, <2>5
<1>7. CASE StartDue(s, n) BY <1>7, StartDueDay
<1>8. CASE RecordRun(s, n) BY <1>8, RecordRunDay
<1>9. CASE RecordFailure(s, n)
  <2>1. UNCHANGED <<time, history, runs>> /\ t.pc = "fail" BY <1>1, <1>9 DEF RecordFailure
  <2>2. PICK r \in TickType : r = [t EXCEPT !.pc = "due"] /\ tick' = [tick EXCEPT ![s][n] = r]
    BY <1>1, <1>9, RecordFailureEffect
  <2>3. r.pc = "due" /\ r.rows = t.rows /\ r.knows = t.knows BY <1>2, <2>2 DEF TickType
  <2>4. \A i \in Ids : Recalls(i, t) => Recalls(i, r) BY <2>1, <2>3 DEF Recalls
  <2>5. LastRunsKept BY <1>9, RecordFailureEffect DEF LastRunsKept
  <2> QED BY <1>4, <2>1, <2>2, <2>4, <2>5
<1>10. CASE EndTick(s, n)
  <2>1. UNCHANGED <<db, time, history, runs>> /\ tick' = [tick EXCEPT ![s][n] = NoTick]
    BY <1>10 DEF EndTick
  <2>2. PICK r \in TickType : r = NoTick /\ r.pc = "idle" BY NoTickType
  <2>3. \A i \in Ids : Recalls(i, r) BY <2>2 DEF Recalls
  <2>4. LastRunsKept BY <2>1 DEF LastRunsKept
  <2> QED BY <1>4, <2>1, <2>2, <2>3, <2>4
<1>11. CASE FailedRecord(s, n)
  <2>1. UNCHANGED <<db, time, history, runs>> /\ t.pc = "record" BY <1>1, <1>11 DEF FailedRecord
  <2>2. PICK r \in TickType : r = [t EXCEPT !.pc = "fail"] /\ tick' = [tick EXCEPT ![s][n] = r]
    BY <1>1, <1>11, FailedRecordType
  <2>3. r.pc = "fail" /\ r.rows = t.rows /\ r.knows = t.knows BY <1>2, <2>2 DEF TickType
  <2>4. \A i \in Ids : Recalls(i, t) => Recalls(i, r) BY <2>1, <2>3 DEF Recalls
  <2>5. LastRunsKept BY <2>1 DEF LastRunsKept
  <2> QED BY <1>4, <2>1, <2>2, <2>4, <2>5
<1> QED BY <1>5, <1>6, <1>7, <1>8, <1>9, <1>10, <1>11

LEMMA AdvanceDay ==
  ASSUME TypeInv, SavedInv, ClockInv, DayInv, Advance
  PROVE  DayInv'
<1>1. UNCHANGED <<db, tick, runs, history>> /\ time' = time + 1 BY DEF Advance
<1>2. time' \in Nat /\ time <= time' BY <1>1 DEF TypeInv
<1>3. history.saved \subseteq history'.saved /\ history'.recorded = history.recorded BY <1>1
<1>4. TicksRecall BY <1>1, <1>3, SameTicksRecall
<1>5. LastRunsKept /\ \A i \in Ids : Fixed(i) /\ NotAgain(i) => NotAgain(i)'
  BY <1>1 DEF LastRunsKept, NotAgain
<1> QED BY <1>2, <1>3, <1>4, <1>5, DayCalm

LEMMA TickRunDay ==
  ASSUME TypeInv, SavedInv, ClockInv, DayInv, NEW s \in Servers, TickRun(s)
  PROVE  DayInv'
<1>1. UNCHANGED <<db, tick, time, history>> BY DEF TickRun
<1>2. time' \in Nat /\ time <= time' BY <1>1 DEF TypeInv
<1>3. history.saved \subseteq history'.saved /\ history'.recorded = history.recorded BY <1>1
<1>4. TicksRecall BY <1>1, <1>3, SameTicksRecall
<1>5. DOMAIN runs' = DOMAIN runs
      /\ \A k \in DOMAIN runs : runs'[k].id = runs[k].id /\ (runs'[k].again <=> runs[k].again)
  BY TickRunEffect
<1>6. LastRunsKept /\ \A i \in Ids : Fixed(i) /\ NotAgain(i) => NotAgain(i)'
  BY <1>1, <1>5 DEF LastRunsKept, NotAgain
<1> QED BY <1>2, <1>3, <1>4, <1>6, DayCalm

LEMMA StartupDay ==
  ASSUME TypeInv, StartupInv, ShapeInv, SavedInv, ClockInv, DayInv, NEW s \in scenario.servers,
         Lock(s) \/ Migrate(s) \/ Unlock(s) \/ Load(s) \/ Crash(s)
  PROVE  DayInv'
<1>1. s \in Servers BY ScenarioFacts
<1>2. CASE Lock(s) \/ Migrate(s) \/ Unlock(s) \/ Load(s)
  <2>1. tick' = tick /\ time' = time /\ runs' = runs BY <1>2 DEF Lock, Migrate, Unlock, Load
  <2>2. history' = history BY <1>1, <1>2, MigrateType DEF Lock, Unlock, Load
  <2>3. db'.rows = db.rows
    BY <1>1, <1>2, MigrateType DEF Lock, Unlock, Load, TypeInv, DbType
  <2>4. time' \in Nat /\ time <= time' BY <2>1 DEF TypeInv
  <2>5. history.saved \subseteq history'.saved /\ history'.recorded = history.recorded BY <2>2
  <2>6. TicksRecall BY <2>1, <2>5, SameTicksRecall
  <2>7. LastRunsKept /\ \A i \in Ids : Fixed(i) /\ NotAgain(i) => NotAgain(i)'
    BY <2>1, <2>3 DEF LastRunsKept, NotAgain
  <2> QED BY <2>4, <2>5, <2>6, <2>7, DayCalm
<1>3. CASE Crash(s)
  <2>1. /\ \A n \in Overlaps : tick'[s][n] = NoTick
        /\ \A z \in Servers \ {s} : tick'[z] = tick[z]
        /\ db'.rows = db.rows /\ runs' = runs /\ time' = time
        /\ history'.saved = history.saved /\ history'.recorded = history.recorded
    BY <1>1, <1>3, CrashEffect
  <2>2. time' \in Nat /\ time <= time' BY <2>1 DEF TypeInv
  <2>3. history.saved \subseteq history'.saved BY <2>1
  <2>4. TicksRecall
    <3> SUFFICES ASSUME NEW i \in Ids, Fixed(i)', NEW z \in Servers, NEW n \in Overlaps
                 PROVE  \E t \in TickType : t = tick'[z][n] /\ Recalls(i, t)'
      BY DEF TicksRecall
    <3>1. CASE z = s
      <4>1. Recalls(i, NoTick)' BY NoTickType DEF Recalls
      <4> QED BY <2>1, <3>1, <4>1, NoTickType
    <3>2. CASE z # s
      <4>1. PICK t : t = tick[z][n] OBVIOUS
      <4>2. tick'[z][n] = t BY <2>1, <3>2, <4>1
      <4> QED BY <2>3, <4>1, <4>2, RecallsStays
    <3> QED BY <3>1, <3>2
  <2>5. LastRunsKept /\ \A i \in Ids : Fixed(i) /\ NotAgain(i) => NotAgain(i)'
    BY <2>1 DEF LastRunsKept, NotAgain
  <2> QED BY <2>1, <2>2, <2>3, <2>4, <2>5, DayCalm
<1> QED BY <1>2, <1>3

-----------------------------------------------------------------------------
(* The invariant holds at first. *)
LEMMA RowType ==
  ASSUME NEW p \in Payload
  PROVE  Row(p) \in Rows /\ Row(p) # None /\ Row(p).payload = p /\ Row(p).lastRun = None
<1>1. Row(p) \in Rows BY DEF Row, Rows
<1> QED BY <1>1, NoneAssumption DEF Row

LEMMA InitRows ==
  ASSUME Init
  PROVE  /\ scenario \in Scenario
         /\ \A i \in Ids : /\ db.rows[i] \in Rows \cup {None}
                           /\ db.rows[i] # None <=> scenario.rows[i] # None
                           /\ db.rows[i] # None => /\ scenario.rows[i] \in Payload
                                                   /\ db.rows[i].payload = scenario.rows[i]
                                                   /\ db.rows[i].lastRun = None
         /\ \A e \in history.saved : e[1] \in Ids /\ e[2] = scenario.rows[e[1]] /\ e[2] \in Payload
                                     /\ db.rows[e[1]] # None /\ e = <<e[1], e[2]>>
<1>1. scenario \in Scenario BY ScenariosAssumption DEF Init
<1>2. \A i \in Ids : scenario.rows[i] \in Payload \cup {None} BY <1>1 DEF Scenario
<1>3. ASSUME NEW i \in Ids
      PROVE  /\ db.rows[i] \in Rows \cup {None}
             /\ db.rows[i] # None <=> scenario.rows[i] # None
             /\ db.rows[i] # None => /\ scenario.rows[i] \in Payload
                                     /\ db.rows[i].payload = scenario.rows[i]
                                     /\ db.rows[i].lastRun = None
  <2>1. PICK p : p = scenario.rows[i] OBVIOUS
  <2>2. db.rows[i] = IF p = None THEN None ELSE Row(p) BY <2>1 DEF Init
  <2> QED BY <1>2, <2>1, <2>2, RowType
<1>4. \A e \in history.saved : e[1] \in Ids /\ e[2] = scenario.rows[e[1]] /\ scenario.rows[e[1]] # None
                               /\ e = <<e[1], e[2]>>
  BY DEF Init
<1> QED BY <1>1, <1>2, <1>3, <1>4

LEMMA InitType ==
  ASSUME Init
  PROVE  TypeInv
<1>1. scenario \in Scenario BY InitRows
<1>2. db \in DbType
  <2>1. scenario.schema \in 0 .. Migrations BY <1>1 DEF Scenario
  <2>2. 1 .. scenario.schema \subseteq MigrationVersions
    BY <2>1, BoundsAssumption DEF MigrationVersions
  <2>3. NoTemplates \in TemplateRows BY DEF NoTemplates, TemplateRows, Places
  <2> DEFINE rows == [i \in Ids |-> IF scenario.rows[i] = None THEN None ELSE Row(scenario.rows[i])]
  <2>4. db = [lock |-> None, schema |-> 1 .. scenario.schema, rows |-> rows,
              templates |-> NoTemplates]
    BY DEF Init
  <2>5. rows = db.rows BY <2>4
  <2>6. rows \in RowTable BY <2>5, InitRows DEF RowTable
  <2> HIDE DEF rows
  <2> QED BY <2>2, <2>3, <2>4, <2>6 DEF DbType
<1>3. server \in [Servers -> ServerType] BY FreshType DEF Init
<1>4. slot \in [Slots -> SlotType] BY IdleType DEF Init
<1>5. tick \in [Servers -> [Overlaps -> TickType]] BY NoTickType DEF Init
<1>6. runs \in Seq(RunType) /\ Len(runs) <= MaxRuns BY BoundsAssumption DEF Init
<1>7. time \in Nat BY DEF Init
<1>8. history \in HistoryType
  <2>1. PICK saved : saved = history.saved OBVIOUS
  <2>2. saved \in SUBSET (Ids \X Payload) BY <2>1, InitRows
  <2>3. history = [saved |-> saved, created |-> {}, late |-> FALSE, recorded |-> {},
                   conflicts |-> 0, partial |-> FALSE, unsaved |-> {}]
    BY <2>1 DEF Init
  <2> QED BY <2>2, <2>3 DEF HistoryType
<1> QED BY <1>1, <1>2, <1>3, <1>4, <1>5, <1>6, <1>7, <1>8 DEF TypeInv

LEMMA InitInv ==
  ASSUME Init
  PROVE  Inv
<1>1. TypeInv BY InitType
<1>2. /\ db.lock = None /\ db.templates = NoTemplates /\ runs = << >> /\ time = 0
      /\ \A s \in Servers : server[s] = Fresh
      /\ \A h \in Slots : slot[h] = Idle
      /\ \A s \in Servers, n \in Overlaps : tick[s][n] = NoTick
      /\ history.created = {} /\ ~history.late /\ history.recorded = {}
      /\ history.conflicts = 0 /\ ~history.partial
  BY DEF Init
<1>3. /\ Fresh.stage = "down" /\ Fresh.catalog = NoCatalog
      /\ Fresh.definitions = [r \in 1 .. MaxRuns |-> None]
  BY DEF Fresh
<1>4. StartupInv BY <1>2, <1>3, NoneAssumption DEF StartupInv
<1>5. ShapeInv BY <1>2, IdleType DEF ShapeInv, Sensible
<1>6. ASSUME NEW i \in Ids, db.rows[i] # None PROVE <<i, db.rows[i].payload>> \in history.saved
  BY <1>6, InitRows DEF Init
<1>7. SavedInv
  <2>1. \A s \in Servers, i \in Ids, v \in Versions : server[s].catalog[i][v] = None
    BY <1>2, <1>3 DEF NoCatalog
  <2>2. \A s \in Servers, r \in 1 .. MaxRuns : server[s].definitions[r] = None BY <1>2, <1>3
  <2>3. \A h \in Slots : slot[h].pc = "idle" BY <1>2, IdleType
  <2> QED BY <1>2, <1>6, <2>1, <2>2, <2>3 DEF SavedInv
<1>8. AloneInv
  <2>1. GivenUpOnlyIfReplaced
    <3>1. runs = << >> /\ DOMAIN runs = {} BY <1>2
    <3> QED BY <3>1 DEF GivenUpOnlyIfReplaced
  <2>2. \A i \in Ids : Saves(i) # {} => Kept(i) BY InitRows DEF Saves, Kept
  <2>3. \A s \in Servers : ~Serving(s) BY <1>2, <1>3 DEF Serving
  <2> QED BY <2>1, <2>2, <2>3 DEF AloneInv
<1>9. CreateInv BY <1>2, IdleType DEF CreateInv
<1>10. TemplatesInv BY <1>2, IdleType DEF TemplatesInv, Unseeded, NoTemplates
<1>11. ClockInv
  <2>1. \A i \in Ids : db.rows[i] # None => db.rows[i].lastRun = None BY InitRows
  <2> QED BY <1>2, <2>1, NoTickType DEF ClockInv
<1>12. DayInv BY <1>2, NoTickType DEF DayInv
<1> QED BY <1>1, <1>4, <1>5, <1>7, <1>8, <1>9, <1>10, <1>11, <1>12 DEF Inv

-----------------------------------------------------------------------------
(* Every step keeps it. *)
LEMMA AnswersKeep ==
  ASSUME Inv, NEW h \in Slots,
         \/ Create(h) \/ Lookup(h) \/ Update(h) \/ Write(h) \/ TestRun(h) \/ Fetch(h) \/ StartRun(h)
         \/ ListTemplates(h) \/ EditTemplate(h) \/ OpenTemplate(h) \/ RestoreTemplate(h)
         \/ CountTemplates(h) \/ Seed(h) \/ StoreTemplate(h) \/ UseTemplate(h) \/ FailedWrite(h)
  PROVE  Inv'
<1>1. /\ TypeInv /\ StartupInv /\ ShapeInv /\ SavedInv /\ AloneInv /\ CreateInv /\ TemplatesInv
      /\ ClockInv /\ DayInv
  BY DEF Inv
<1>2. Works BY DEF Works
<1>3. TypeInv' /\ Steady BY <1>1, <1>2, WorksTypes
<1>4. StartupInv' BY <1>1, <1>3, SteadyStartup
<1>5. ShapeInv' BY <1>1, <1>2, WorksShape
<1>6. SavedInv' /\ AloneInv' BY <1>1, <1>3, AnswersSaved
<1>7. CreateInv' BY <1>1, <1>3, AnswersCreate
<1>8. TemplatesInv' BY <1>1, AnswersTemplates
<1>9. ClockInv' BY <1>1, <1>3, AnswersClock
<1>10. DayInv' BY <1>1, AnswersDay
<1> QED BY <1>3, <1>4, <1>5, <1>6, <1>7, <1>8, <1>9, <1>10 DEF Inv

LEMMA TicksKeep ==
  ASSUME Inv, NEW s \in Servers, NEW n \in Overlaps,
         \/ ListRows(s, n) \/ ReadClock(s, n) \/ StartDue(s, n) \/ RecordRun(s, n)
         \/ RecordFailure(s, n) \/ EndTick(s, n) \/ FailedRecord(s, n)
  PROVE  Inv'
<1>1. /\ TypeInv /\ StartupInv /\ ShapeInv /\ SavedInv /\ AloneInv /\ CreateInv /\ TemplatesInv
      /\ ClockInv /\ DayInv
  BY DEF Inv
<1>2. Works BY DEF Works
<1>3. TypeInv' /\ Steady BY <1>1, <1>2, WorksTypes
<1>4. StartupInv' BY <1>1, <1>3, SteadyStartup
<1>5. ShapeInv' BY <1>1, <1>2, WorksShape
<1>6. SavedInv' /\ AloneInv'
  <2>1. CASE StartDue(s, n) BY <1>1, <1>3, <2>1, StartDueSaved, StartDueAlone
  <2>2. CASE \/ ListRows(s, n) \/ ReadClock(s, n) \/ RecordRun(s, n)
             \/ RecordFailure(s, n) \/ EndTick(s, n) \/ FailedRecord(s, n)
    <3>1. Apart BY <1>1, <2>2, TicksApart
    <3>2. AloneInv' BY <1>1, <1>3, <3>1, ApartAlone, SteadyServing DEF Steady
    <3> QED BY <1>1, <3>1, <3>2, ApartSaved
  <2> QED BY <2>1, <2>2
<1>7. CreateInv' BY <1>1, TicksCreate
<1>8. TemplatesInv' BY <1>1, TicksTemplates
<1>9. ClockInv' BY <1>1, TicksClock
<1>10. DayInv' BY <1>1, TicksDay
<1> QED BY <1>3, <1>4, <1>5, <1>6, <1>7, <1>8, <1>9, <1>10 DEF Inv

LEMMA TickRunKeeps ==
  ASSUME Inv, NEW s \in Servers, TickRun(s)
  PROVE  Inv'
<1>1. /\ TypeInv /\ StartupInv /\ ShapeInv /\ SavedInv /\ AloneInv /\ CreateInv /\ TemplatesInv
      /\ ClockInv /\ DayInv
  BY DEF Inv
<1>2. Works BY DEF Works
<1>3. TypeInv' /\ Steady BY <1>1, <1>2, WorksTypes
<1>4. StartupInv' BY <1>1, <1>3, SteadyStartup
<1>5. ShapeInv' BY <1>1, <1>2, WorksShape
<1>6. s \in scenario.servers BY <1>1 DEF TickRun, Serving, StartupInv
<1>7. SavedInv' /\ AloneInv' BY <1>1, <1>6, TickRunSaved, TickRunAlone
<1>8. UNCHANGED <<db, slot, history>> BY DEF TickRun
<1>9. CreateInv' BY <1>1, <1>8, OthersCreate DEF RowsStay, SameCreations
<1>10. TemplatesInv' BY <1>1, TickRunTemplates
<1>11. ClockInv' BY <1>1, TickRunClock
<1>12. DayInv' BY <1>1, TickRunDay
<1> QED BY <1>3, <1>4, <1>5, <1>7, <1>9, <1>10, <1>11, <1>12 DEF Inv

LEMMA AdvanceKeeps ==
  ASSUME Inv, Advance
  PROVE  Inv'
<1>1. /\ TypeInv /\ StartupInv /\ ShapeInv /\ SavedInv /\ AloneInv /\ CreateInv /\ TemplatesInv
      /\ ClockInv /\ DayInv
  BY DEF Inv
<1>2. Works BY DEF Works
<1>3. TypeInv' /\ Steady BY <1>1, <1>2, WorksTypes
<1>4. StartupInv' BY <1>1, <1>3, SteadyStartup
<1>5. ShapeInv' BY <1>1, <1>2, WorksShape
<1>6. AloneInv' BY <1>1, <1>3, AdvanceApart, ApartAlone, SteadyServing DEF Steady
<1>7. SavedInv' BY <1>1, AdvanceApart, ApartSaved
<1>8. UNCHANGED <<db, server, slot, history>> BY DEF Advance
<1>9. CreateInv' BY <1>1, <1>8, OthersCreate DEF RowsStay, SameCreations
<1>10. TemplatesInv' BY <1>1, <1>8, OthersTemplates
<1>11. ClockInv' BY <1>1, AdvanceClock
<1>12. DayInv' BY <1>1, AdvanceDay
<1> QED BY <1>3, <1>4, <1>5, <1>6, <1>7, <1>9, <1>10, <1>11, <1>12 DEF Inv

LEMMA StartupKeeps ==
  ASSUME Inv, NEW s \in scenario.servers,
         Lock(s) \/ Migrate(s) \/ Unlock(s) \/ Load(s) \/ Crash(s)
  PROVE  Inv'
<1>1. /\ TypeInv /\ StartupInv /\ ShapeInv /\ SavedInv /\ AloneInv /\ CreateInv /\ TemplatesInv
      /\ ClockInv /\ DayInv
  BY DEF Inv
<1>2. s \in Servers BY <1>1, ScenarioFacts
<1>3. TypeInv' BY <1>1, <1>2, LockType, MigrateType, UnlockType, LoadType, CrashEffect
<1>4. StartupInv'
  BY <1>1, LockStartup, MigrateStartup, UnlockStartup, LoadStartup, CrashStartup
<1>5. ShapeInv' BY <1>1, StartupShape
<1>6. SavedInv' BY <1>1, <1>2, StartsUpApart, ApartSaved, LoadSaved, CrashSaved
<1>7. AloneInv' BY <1>1, StartupAlone
<1>8. CreateInv' BY <1>1, StartupCreate
<1>9. TemplatesInv' BY <1>1, StartupTemplates
<1>10. ClockInv' BY <1>1, StartupClock
<1>11. DayInv' BY <1>1, StartupDay
<1> QED BY <1>3, <1>4, <1>5, <1>6, <1>7, <1>8, <1>9, <1>10, <1>11 DEF Inv

LEMMA StutterKeeps ==
  ASSUME Inv, UNCHANGED vars
  PROVE  Inv'
<1>1. UNCHANGED <<scenario, db, server, slot, tick, runs, time, history>> BY DEF vars
<1>2. TypeInv' /\ StartupInv' BY <1>1 DEF Inv, TypeInv, StartupInv
<1>3. ShapeInv' BY <1>1 DEF Inv, ShapeInv, Sensible, Serving
<1>4. SavedInv' BY <1>1 DEF Inv, SavedInv, WasSaved, Saves
<1>5. AloneInv'
  <2>1. Apart BY <1>1 DEF Apart, SameRows, SameKnowledge, SameWrites
  <2>2. \A s \in Servers : Serving(s)' => Serving(s) BY <1>1 DEF Serving
  <2> QED BY <1>1, <2>1, <2>2, ApartAlone DEF Inv
<1>6. CreateInv' BY <1>1 DEF Inv, CreateInv
<1>7. TemplatesInv' BY <1>1 DEF Inv, TemplatesInv, Unseeded, Complete
<1>8. ClockInv' BY <1>1 DEF Inv, ClockInv, Serving
<1>9. DayInv' BY <1>1 DEF Inv, DayInv, Fixed, AtMinute, Remembers, Saves
<1> QED BY <1>2, <1>3, <1>4, <1>5, <1>6, <1>7, <1>8, <1>9 DEF Inv

(* The invariant of every behaviour: what the theorems below rest on. *)
THEOREM Invariant == Spec => []Inv
<1>1. Init => Inv BY InitInv
<1>2. Inv /\ [Next]_vars => Inv'
  <2> SUFFICES ASSUME Inv, [Next]_vars PROVE Inv' OBVIOUS
  <2>1. CASE UNCHANGED vars BY <2>1, StutterKeeps
  <2>2. CASE Next
    <3>1. TypeInv BY DEF Inv
    <3>2. CASE Works BY <3>2, AnswersKeep, TicksKeep, TickRunKeeps, AdvanceKeeps DEF Works
    <3>3. CASE \E s \in scenario.servers : Lock(s) \/ Migrate(s) \/ Unlock(s) \/ Load(s) \/ Crash(s)
      BY <3>3, StartupKeeps
    <3> QED BY <2>2, <3>1, <3>2, <3>3, NextSplit
  <2> QED BY <2>1, <2>2
<1> QED BY <1>1, <1>2, PTL DEF Spec

-----------------------------------------------------------------------------
(* However many processes start and end together, no migration is applied  *)
(* twice, and a process that loads or serves finds the schema complete     *)
(* (postgres-migrations.ts:276). *)
THEOREM StartupIsSerialized == Spec => []StartupSerialized
<1>1. Inv => StartupSerialized BY DEF Inv, StartupInv, StartupSerialized
<1> QED BY <1>1, Invariant, PTL

(* Whatever is saved meanwhile, a run executes only graphs that were saved *)
(* under its name and version; and a process that is alone gives a run up  *)
(* only when its workflow was saved under another version or a write of it *)
(* failed (inmemory-workflow-runtime.ts:164, designer-store.ts:56). *)
THEOREM RunsAreFaithful == Spec => []RunsFollowSaves
<1>1. Inv => RunsFollowSaves
  BY DEF Inv, SavedInv, AloneInv, RunsFollowSaves, RunKeepsVersion, WasSaved
<1> QED BY <1>1, Invariant, PTL

(* What is stored has its type and no run of the future; a creation that   *)
(* was answered is not answered again; and when nobody seeds, and no       *)
(* seeding was cut short or overtaken, a user has all templates or none    *)
(* (routes/designer.ts:117, designer-template-store.ts:105). *)
THEOREM StoreIsWhole == Spec => []StoreWhole
<1>1. Inv => TypeOK
  <2> SUFFICES ASSUME Inv PROVE TypeOK OBVIOUS
  <2>1. TypeInv /\ StartupInv /\ ClockInv BY DEF Inv
  <2>2. db.lock \in Servers \cup {None} /\ db.schema \subseteq MigrationVersions
        /\ db.templates \in [1 .. Len(Templates) -> {None, "system", "edited"}]
    BY <2>1 DEF TypeInv, DbType, TemplateRows, Places, TemplateKinds
  <2>3. db.lock # None => server[db.lock].stage = "migrating" BY <2>1, <2>2 DEF StartupInv
  <2>4. ASSUME NEW i \in Ids, db.rows[i] # None
        PROVE  /\ db.rows[i].payload \in Payload /\ db.rows[i].failed \in BOOLEAN
               /\ db.rows[i].lastRun \in {None} \cup 0 .. time
    <3>1. db.rows[i] \in Rows BY <2>1, <2>4, RowPayload
    <3>2. db.rows[i].lastRun # None => db.rows[i].lastRun <= time BY <2>1, <2>4 DEF ClockInv
    <3>3. time \in Nat BY <2>1 DEF TypeInv
    <3> QED BY <3>1, <3>2, <3>3 DEF Rows
  <2>5. ASSUME NEW s \in Servers
        PROVE  /\ server[s].stage \in {"down", "migrating", "loading", "serving"}
               /\ server[s].memory \in [Ids -> Payload \cup {None}]
               /\ server[s].catalog \in [Ids -> [Versions -> Graphs \cup {None}]]
               /\ server[s].definitions \in [1 .. MaxRuns -> Graphs \cup {None}]
               /\ server[s].templates \in [1 .. Len(Templates) -> {None, "system", "edited"}]
    <3>1. server[s] \in ServerType BY <2>1 DEF TypeInv
    <3> QED BY <3>1 DEF ServerType, Stages, Memory, Catalog, Definitions, TemplateRows, Places,
                        TemplateKinds
  <2>6. \A r \in DOMAIN runs : runs[r].id \in Ids /\ runs[r].version \in Versions
                               /\ runs[r].executed \subseteq Graphs
    <3>1. \A r \in DOMAIN runs : runs[r] \in RunType BY <2>1 DEF TypeInv
    <3> QED BY <3>1 DEF RunType
  <2> QED BY <2>2, <2>3, <2>4, <2>5, <2>6 DEF TypeOK
<1>2. Inv => CreateAnsweredOnce BY DEF Inv, CreateInv, CreateAnsweredOnce
<1>3. Inv => TemplatesWhole BY DEF Inv, TemplatesInv, TemplatesWhole, Complete, Places
<1>4. Inv => StoreWhole BY <1>1, <1>2, <1>3 DEF StoreWhole
<1> QED BY <1>4, Invariant, PTL

(* A tick that begins after the run of a day was recorded does not start   *)
(* it again, whichever ticks overlap, unless the schedule was changed      *)
(* (designer-scheduler.ts:25). *)
THEOREM DaysAreNotRepeated == Spec => []RecordedDayNotRepeated
<1>1. Inv => RecordedDayNotRepeated
  <2> SUFFICES ASSUME Inv, NEW r \in DOMAIN runs, runs[r].again
               PROVE  \E e, f \in history.saved :
                        e[1] = runs[r].id /\ f[1] = e[1] /\ e[2].schedule # f[2].schedule
    BY DEF RecordedDayNotRepeated
  <2>1. runs[r] \in RunType BY DEF Inv, TypeInv
  <2>2. runs[r].id \in Ids BY <2>1 DEF RunType
  <2>3. ~Fixed(runs[r].id) BY <2>2 DEF Inv, DayInv
  <2> QED BY <2>3 DEF Fixed, Saves
<1> QED BY <1>1, Invariant, PTL
=============================================================================
