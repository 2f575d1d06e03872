------------------------------ MODULE Designer ------------------------------
(***************************************************************************)
(* Workflows that users draw.  Several server processes share a database;  *)
(* each has in memory the stored workflows and templates it knows (read    *)
(* first, never refreshed), the catalog of definitions it can start, and   *)
(* the definition of every run it has started or ticked.  A process starts *)
(* by migrating the schema under an advisory lock and by loading what is   *)
(* stored; then it answers requests, runs the scheduler and ticks runs.    *)
(*                                                                         *)
(* What the nodes of a graph do is DesignerGraph's matter, how a start is  *)
(* admitted StartService's: a graph is a value here, a start one step.     *)
(* Payloads are accepted ones: a request that fails its validation changes *)
(* nothing.  Keys stand for a subject and an id.                           *)
(***************************************************************************)
EXTENDS Integers, Sequences, FiniteSets

CONSTANTS
  Servers,        \* server processes
  Slots,          \* requests answered at the same time
  Overlaps,       \* ticks of one scheduler that may overlap
  Ids,            \* stored workflows
  Versions,       \* their versions, in the order of localeCompare
  Graphs,         \* what their steps, examples and schemas may be
  None,           \* nothing there
  Templates,      \* the system templates, in the order they are seeded
  Drawn,          \* the workflow made from a template that is "system" or "edited"
  Migrations,     \* how many migrations the code has
  DayLength,      \* minutes of a day
  WeekLength,     \* days of a week
  MaxTime, MaxRuns, \* bounds on the clock and on the runs started
  Scenarios       \* what a behaviour is about, see ScenariosAssumption

Instant == [type |-> "instant"]
Daily(minute) == [type |-> "daily", minute |-> minute]
Weekly(days, minute) == [type |-> "weekly", minute |-> minute, weekdays |-> days]
Schedules == {Instant} \cup {Daily(m) : m \in 0 .. DayLength - 1}
               \cup {Weekly(d, m) : d \in SUBSET (0 .. WeekLength - 1) \ {{}}, m \in 0 .. DayLength - 1}
Payload == [version : Versions, graph : Graphs, schedule : Schedules]

Rows == [payload : Payload, lastRun : {None} \cup Nat, failed : BOOLEAN]
Kinds == {"create", "update", "run", "list", "edit", "restore", "use"}
Scenario == [
  servers : SUBSET Servers,
  schema : 0 .. Migrations,              \* migrations applied at first
  rows : [Ids -> Payload \cup {None}],   \* workflows stored at first
  payloads : SUBSET Payload,             \* what requests may save
  requests : [Kinds -> Nat],
  ticks : BOOLEAN,                       \* whether workers tick runs
  clock : BOOLEAN,                       \* whether schedulers tick and time passes
  overlaps : SUBSET Overlaps,
  faults : Nat]                          \* crashes and failed writes

ASSUME ClockAssumption == DayLength \in Nat \ {0} /\ WeekLength \in Nat \ {0}
ASSUME BoundsAssumption == Migrations \in Nat /\ MaxTime \in Nat /\ MaxRuns \in Nat
ASSUME ServersAssumption == IsFiniteSet(Servers)
ASSUME VersionsAssumption ==
  /\ Versions \subseteq Nat
  /\ \A S \in SUBSET Versions : S # {} => \E v \in S : \A w \in S : w <= v
ASSUME NoneAssumption ==
  /\ None \notin Servers /\ None \notin Graphs /\ None \notin Payload /\ None \notin Rows
  /\ None \notin {"system", "edited"} /\ None \notin Nat
ASSUME TemplatesAssumption ==
  Len(Templates) \in Nat /\ Drawn \in [{"system", "edited"} -> Payload]
ASSUME ScenariosAssumption == Scenarios \subseteq Scenario

VARIABLES
  scenario, \* the scenario, its requests and faults counted down
  db,       \* the database: lock, schema, rows of workflows, templates
  server,   \* the memory of each process
  slot,     \* what each request does
  tick,     \* what each tick of a scheduler does
  runs,     \* the runs started
  time,     \* the minute of the clock
  history   \* what was saved, created, recorded, interrupted; for the properties

vars == <<scenario, db, server, slot, tick, runs, time, history>>

(* a request nobody makes, and the fields that requests fill in *)
Idle == [pc |-> "idle", at |-> None, kind |-> None, id |-> None, payload |-> None,
         instant |-> FALSE, creates |-> FALSE, late |-> FALSE, template |-> 0, todo |-> 0]
Creation(pc, i, p, instant, late) ==
  [Idle EXCEPT !.pc = pc, !.id = i, !.payload = p, !.instant = instant,
               !.creates = TRUE, !.late = late]
ForWorkflow(pc, i) == [Idle EXCEPT !.pc = pc, !.id = i]
ForTemplate(pc, kind, t) == [Idle EXCEPT !.pc = pc, !.kind = kind, !.template = t]
Nowhere == [i \in Ids |-> None]
NoCatalog == [i \in Ids |-> [v \in Versions |-> None]]
NoTemplates == [t \in 1 .. Len(Templates) |-> None]
Fresh == [stage |-> "down", left |-> {}, memory |-> Nowhere, catalog |-> NoCatalog,
          definitions |-> [r \in 1 .. MaxRuns |-> None], templates |-> NoTemplates]
NoTick == [pc |-> "idle", rows |-> Nowhere, now |-> 0, knows |-> {}, began |-> 0, at |-> None]
Row(p) == [payload |-> p, lastRun |-> None, failed |-> FALSE]

Init ==
  /\ scenario \in Scenarios
  /\ db = [lock |-> None, schema |-> 1 .. scenario.schema,
           rows |-> [i \in Ids |-> IF scenario.rows[i] = None THEN None ELSE Row(scenario.rows[i])],
           templates |-> NoTemplates]
  /\ server = [s \in Servers |-> Fresh]
  /\ slot = [h \in Slots |-> Idle]
  /\ tick = [s \in Servers |-> [n \in Overlaps |-> NoTick]]
  /\ runs = << >>
  /\ time = 0
  /\ history = [saved |-> {<<i, scenario.rows[i]>> : i \in {j \in Ids : scenario.rows[j] # None}},
                created |-> {}, late |-> FALSE, recorded |-> {}, conflicts |-> 0,
                partial |-> FALSE, unsaved |-> {}]

Serving(s) == server[s].stage = "serving"

-----------------------------------------------------------------------------
(* Start-up: runPostgresMigrations, loadAllFromDatabase,                   *)
(* loadAllTemplatesFromDatabase. *)

(* the list of migrations, by their versions *)
MigrationVersions == 1 .. Migrations

(* the lock is not waited for *)
LockFreeAlways == TRUE

LockFree == db.lock = None

(* the advisory lock is taken, then the versions applied are read *)
Lock(s) ==
  /\ server[s].stage = "down" /\ LockFree
  /\ db' = [db EXCEPT !.lock = s]
  /\ server' = [server EXCEPT ![s].stage = "migrating", ![s].left = MigrationVersions \ db.schema]
  /\ UNCHANGED <<scenario, slot, tick, runs, time, history>>

(* One transaction per migration, in order; its version is a primary key,  *)
(* so that applying it twice fails and ends the process. *)
Migrate(s) ==
  /\ server[s].stage = "migrating"
  /\ \E m \in server[s].left :
       /\ \A n \in server[s].left : m <= n
       /\ IF m \in db.schema
          THEN /\ server' = [server EXCEPT ![s] = Fresh]
               /\ db' = [db EXCEPT !.lock = None]
               /\ history' = [history EXCEPT !.conflicts = @ + 1]
          ELSE /\ server' = [server EXCEPT ![s].left = @ \ {m}]
               /\ db' = [db EXCEPT !.schema = @ \cup {m}]
               /\ UNCHANGED history
  /\ UNCHANGED <<scenario, slot, tick, runs, time>>

Unlock(s) ==
  /\ server[s].stage = "migrating" /\ server[s].left = {}
  /\ server' = [server EXCEPT ![s].stage = "loading"]
  /\ db' = [db EXCEPT !.lock = None]
  /\ UNCHANGED <<scenario, slot, tick, runs, time, history>>

(* registerWorkflow overwrites the version it names and keeps the others *)
Registered(catalog, i, p) == [catalog EXCEPT ![i][p.version] = p.graph]

(* the rows are put in memory and not registered *)
LoadedNothing(rows) == NoCatalog

LoadedCatalog(rows) ==
  [i \in Ids |-> [v \in Versions |->
     IF rows[i] # None /\ rows[i].payload.version = v THEN rows[i].payload.graph ELSE None]]

LoadedTemplates(rows) == rows

(* every row is put in memory and registered; templates are cached *)
Load(s) ==
  /\ server[s].stage = "loading"
  /\ server' = [server EXCEPT
       ![s].stage = "serving",
       ![s].memory = [i \in Ids |-> IF db.rows[i] = None THEN None ELSE db.rows[i].payload],
       ![s].catalog = LoadedCatalog(db.rows),
       ![s].templates = LoadedTemplates(db.templates)]
  /\ UNCHANGED <<scenario, db, slot, tick, runs, time, history>>

-----------------------------------------------------------------------------
(* Requests for workflows. *)
Asks(h, s, kind, request) ==
  /\ slot[h].pc = "idle" /\ Serving(s)
  /\ scenario.requests[kind] > 0
  /\ scenario' = [scenario EXCEPT !.requests[kind] = @ - 1]
  /\ slot' = [slot EXCEPT ![h] = [request EXCEPT !.at = s]]

(* upsertStoredWorkflow: memory and catalog first, the row later *)
Enters(s, i, p) ==
  /\ server' = [server EXCEPT ![s].memory[i] = p, ![s].catalog = Registered(@, i, p)]
  /\ history' = [history EXCEPT !.saved = @ \cup {<<i, p>>}]

(* POST /designer/workflows: a workflow this process knows is refused      *)
(* (409); otherwise the database is asked. *)
Create(h) ==
  \E s \in scenario.servers, i \in Ids, p \in scenario.payloads :
    /\ server[s].memory[i] = None
    /\ Asks(h, s, "create", Creation("lookup", i, p, p.schedule = Instant, i \in history.created))
    /\ UNCHANGED <<db, server, tick, runs, time, history>>

Stored(i) == IF db.rows[i] = None THEN None ELSE db.rows[i].payload

(* A stored row is cached, not registered, and the request refused.  When  *)
(* there is none the workflow is put in memory and registered. *)
Lookup(h) ==
  LET q == slot[h] IN
  /\ q.pc = "lookup"
  /\ IF Stored(q.id) # None
     THEN /\ server' = [server EXCEPT ![q.at].memory[q.id] = Stored(q.id)]
          /\ slot' = [slot EXCEPT ![h] = Idle]
          /\ UNCHANGED history
     ELSE /\ Enters(q.at, q.id, q.payload)
          /\ slot' = [slot EXCEPT ![h].pc = "write"]
  /\ UNCHANGED <<scenario, db, tick, runs, time>>

(* PUT /designer/workflows/:id asks nobody whether the workflow exists *)
Update(h) ==
  \E s \in scenario.servers, i \in Ids, p \in scenario.payloads :
    /\ Asks(h, s, "update", [ForWorkflow("write", i) EXCEPT !.payload = p])
    /\ Enters(s, i, p)
    /\ UNCHANGED <<db, tick, runs, time>>

(* The row is written, its last scheduled run kept; a workflow that was    *)
(* created with an instant schedule is started before the answer. *)
Write(h) ==
  LET q == slot[h] IN
  /\ q.pc = "write"
  /\ db' = [db EXCEPT !.rows[q.id] =
       IF @ = None THEN Row(q.payload) ELSE [@ EXCEPT !.payload = q.payload]]
  /\ history' = IF q.creates
                THEN [history EXCEPT !.created = @ \cup {q.id}, !.late = @ \/ q.late]
                ELSE history
  /\ slot' = [slot EXCEPT ![h] = IF q.instant THEN [ForWorkflow("start", q.id) EXCEPT !.at = q.at]
                                 ELSE Idle]
  /\ UNCHANGED <<scenario, server, tick, runs, time>>

(* POST /designer/workflows/:id/test-run *)
TestRun(h) ==
  \E s \in scenario.servers, i \in Ids :
    /\ Asks(h, s, "run", ForWorkflow(IF server[s].memory[i] = None THEN "fetch" ELSE "start", i))
    /\ UNCHANGED <<db, server, tick, runs, time, history>>

Fetch(h) ==
  LET q == slot[h] IN
  /\ q.pc = "fetch"
  /\ IF Stored(q.id) = None
     THEN slot' = [slot EXCEPT ![h] = Idle] /\ UNCHANGED server  \* 404
     ELSE /\ server' = [server EXCEPT ![q.at].memory[q.id] = Stored(q.id)]
          /\ slot' = [slot EXCEPT ![h].pc = "start"]
  /\ UNCHANGED <<scenario, db, tick, runs, time, history>>

(* getLatestDescriptor: the last version in string order *)
Known(s, i) == {v \in Versions : server[s].catalog[i][v] # None}
Latest(s, i) == CHOOSE v \in Known(s, i) : \A w \in Known(s, i) : w <= v

(* enqueueWorkflowStart without a version, on this server: WorkflowStarted *)
(* names the version, the process keeps the definition *)
StartsRun(s, i, by, again) ==
  /\ Len(runs) < MaxRuns
  /\ runs' = Append(runs, [id |-> i, version |-> Latest(s, i), executed |-> {},
                           status |-> "running", by |-> by, again |-> again])
  /\ server' = [server EXCEPT ![s].definitions[Len(runs) + 1] =
                  server[s].catalog[i][Latest(s, i)]]

StartRun(h) ==
  LET q == slot[h] IN
  /\ q.pc = "start"
  /\ IF Known(q.at, q.id) = {}
     THEN UNCHANGED <<runs, server>>   \* Workflow not found: 400
     ELSE StartsRun(q.at, q.id, "request", FALSE)
  /\ slot' = [slot EXCEPT ![h] = Idle]
  /\ UNCHANGED <<scenario, db, tick, time, history>>

-----------------------------------------------------------------------------
(* Templates: each user has copies of the system templates, seeded by the  *)
(* first request that lists or opens them.  A template is "system" or      *)
(* "edited" (isCustom). *)
(* no row at all: the user has not been seeded *)
Unseeded == \A t \in 1 .. Len(Templates) : db.templates[t] = None

TemplateRequest(h, kind) ==
  \E s \in scenario.servers, t \in 1 .. Len(Templates) :
    /\ Asks(h, s, kind, ForTemplate("count", kind, t))
    /\ UNCHANGED <<db, server, tick, runs, time, history>>

(* GET /designer/templates and /designer/templates/:id *)
ListTemplates(h) == TemplateRequest(h, "list")

(* PUT /designer/templates/:id *)
EditTemplate(h) == TemplateRequest(h, "edit")

(* POST /designer/templates/:id/create-workflow *)
OpenTemplate(h) == TemplateRequest(h, "use")

(* POST /designer/templates/:id/restore does not ask whether the user has  *)
(* been seeded *)
RestoreTemplate(h) ==
  \E s \in scenario.servers, t \in 1 .. Len(Templates) :
    /\ Asks(h, s, "restore", ForTemplate("store", "restore", t))
    /\ server' = [server EXCEPT ![s].templates[t] = "system"]
    /\ history' = [history EXCEPT !.partial = @ \/ Unseeded]
    /\ UNCHANGED <<db, tick, runs, time>>

(* what a request goes on with when its user has templates *)
Opened(q) ==
  IF q.kind = "list" \/ (q.kind = "use" /\ server[q.at].templates[q.template] = None
                         /\ db.templates[q.template] = None)
  THEN Idle                       \* listed, or not found
  ELSE [q EXCEPT !.pc = IF q.kind = "use" THEN "take" ELSE "store"]

(* getUserTemplate caches the row when its memory has none; an edit is     *)
(* then put in memory *)
OpenedMemory(q, memory) ==
  LET t == q.template
      read == IF memory[t] = None THEN db.templates[t] ELSE memory[t]
  IN CASE q.kind = "list" -> memory
       [] q.kind = "use"  -> [memory EXCEPT ![t] = read]
       [] OTHER           -> [memory EXCEPT ![t] = "edited"]

(* the first seed is put in memory when the count is back *)
CountTemplates(h) ==
  LET q == slot[h] IN
  /\ q.pc = "count"
  /\ IF Unseeded
     THEN /\ server' = [server EXCEPT ![q.at].templates[1] = "system"]
          /\ slot' = [slot EXCEPT ![h].pc = "seed", ![h].todo = 1]
     ELSE /\ server' = [server EXCEPT ![q.at].templates = OpenedMemory(q, @)]
          /\ slot' = [slot EXCEPT ![h] = Opened(q)]
  /\ UNCHANGED <<scenario, db, tick, runs, time, history>>

(* the last template is not reached *)
SeedsEarly(h) == slot[h].todo + 1 < Len(Templates)

SeedsMore(h) == slot[h].todo < Len(Templates)

(* a row is written, over whatever is there, and the next one begun *)
Seed(h) ==
  LET q == slot[h] IN
  /\ q.pc = "seed"
  /\ db' = [db EXCEPT !.templates[q.todo] = "system"]
  /\ IF SeedsMore(h)
     THEN /\ server' = [server EXCEPT ![q.at].templates[q.todo + 1] = "system"]
          /\ slot' = [slot EXCEPT ![h].todo = @ + 1]
     ELSE /\ server' = [server EXCEPT ![q.at].templates = OpenedMemory(q, @)]
          /\ slot' = [slot EXCEPT ![h] = Opened(q)]
  /\ UNCHANGED <<scenario, tick, runs, time, history>>

StoreTemplate(h) ==
  LET q == slot[h] IN
  /\ q.pc = "store"
  /\ db' = [db EXCEPT !.templates[q.template] = IF q.kind = "edit" THEN "edited" ELSE "system"]
  /\ slot' = [slot EXCEPT ![h] = Idle]
  /\ UNCHANGED <<scenario, server, tick, runs, time, history>>

(* a workflow made from a template goes on as a creation that starts       *)
(* nothing *)
UseTemplate(h) ==
  LET q == slot[h] IN
  /\ q.pc = "take"
  /\ \E i \in Ids :
       slot' = [slot EXCEPT ![h] =
         IF server[q.at].memory[i] # None THEN Idle
         ELSE [Creation("lookup", i, Drawn[server[q.at].templates[q.template]], FALSE,
                        i \in history.created) EXCEPT !.at = q.at]]
  /\ UNCHANGED <<scenario, db, server, tick, runs, time, history>>

-----------------------------------------------------------------------------
(* The scheduler: setInterval begins a tick whether or not the last one is *)
(* over. *)
Day(t) == t \div DayLength

(* the day of the last run is not compared *)
ShouldFireAgain(row, now) ==
  LET schedule == row.payload.schedule IN
  /\ schedule # Instant /\ now % DayLength = schedule.minute
  /\ schedule.type = "weekly" => Day(now) % WeekLength \in schedule.weekdays

(* shouldFireScheduledWorkflow *)
ShouldFire(row, now) ==
  LET schedule == row.payload.schedule IN
  /\ schedule # Instant /\ now % DayLength = schedule.minute
  /\ schedule.type = "weekly" => Day(now) % WeekLength \in schedule.weekdays
  /\ row.lastRun = None \/ Day(row.lastRun) # Day(now)

(* listSchedulerRows *)
ListRows(s, n) ==
  /\ scenario.clock /\ Serving(s) /\ tick[s][n].pc = "idle"
  /\ tick' = [tick EXCEPT ![s][n] = [pc |-> "listed", rows |-> db.rows, now |-> time,
                                     knows |-> history.recorded, began |-> time, at |-> None]]
  /\ UNCHANGED <<scenario, db, server, slot, runs, time, history>>

(* "now" is read once, when the rows are there *)
ReadClock(s, n) ==
  LET t == tick[s][n] IN
  /\ t.pc = "listed"
  /\ tick' = [tick EXCEPT ![s][n].pc = "due", ![s][n].now = time]
  /\ UNCHANGED <<scenario, db, server, slot, runs, time, history>>

Due(t) == {i \in Ids : t.rows[i] # None /\ ShouldFire(t.rows[i], t.now)}

(* The next row that fires is started under its name, without a tenant; a  *)
(* name this process has not registered is an error of the row. *)
StartDue(s, n) ==
  LET t == tick[s][n] IN
  /\ t.pc = "due"
  /\ \E i \in Due(t) :
       /\ tick' = [tick EXCEPT ![s][n] = [@ EXCEPT !.rows[i] = None, !.at = i,
                                   !.pc = IF Known(s, i) = {} THEN "fail" ELSE "record"]]
       /\ IF Known(s, i) = {} THEN UNCHANGED <<runs, server>>
          ELSE StartsRun(s, i, "schedule", <<i, Day(t.now)>> \in t.knows)
  /\ UNCHANGED <<scenario, db, slot, time, history>>

Moment(t) == t.now

(* recordScheduledRun, which may overwrite what a faster tick recorded *)
RecordRun(s, n) ==
  LET t == tick[s][n] IN
  /\ t.pc = "record"
  /\ db' = [db EXCEPT !.rows[t.at].lastRun = Moment(t), !.rows[t.at].failed = FALSE]
  /\ history' = [history EXCEPT !.recorded = @ \cup {<<t.at, Day(t.now)>>}]
  /\ tick' = [tick EXCEPT ![s][n].pc = "due"]
  /\ UNCHANGED <<scenario, server, slot, runs, time>>

(* recordScheduledFailure leaves the last run as it is *)
RecordFailure(s, n) ==
  LET t == tick[s][n] IN
  /\ t.pc = "fail"
  /\ db' = [db EXCEPT !.rows[t.at].failed = TRUE]
  /\ tick' = [tick EXCEPT ![s][n].pc = "due"]
  /\ UNCHANGED <<scenario, server, slot, runs, time, history>>

EndTick(s, n) ==
  /\ tick[s][n].pc = "due" /\ Due(tick[s][n]) = {}
  /\ tick' = [tick EXCEPT ![s][n] = NoTick]
  /\ UNCHANGED <<scenario, db, server, slot, runs, time, history>>

(* a minute passes; no tick lasts a day *)
Advance ==
  /\ scenario.clock /\ time < MaxTime
  /\ \A s \in Servers, n \in Overlaps :
       tick[s][n].pc # "idle" => time + 1 < tick[s][n].began + DayLength
  /\ time' = time + 1
  /\ UNCHANGED <<scenario, db, server, slot, tick, runs, history>>

-----------------------------------------------------------------------------

(* resolveDefinitionEntry: the definition this process has kept for the    *)
(* run, or the one its catalog has now under the run's name and version    *)
Definition(s, r) ==
  IF server[s].definitions[r] # None THEN server[s].definitions[r]
  ELSE server[s].catalog[runs[r].id][runs[r].version]

(* Any process leases the task of a run.  Without a definition a run that  *)
(* has nothing pending cannot go on: the tick throws, the task is given up. *)
TickRun(s) ==
  /\ scenario.ticks /\ Serving(s)
  /\ \E r \in DOMAIN runs :
       /\ runs[r].status = "running"
       /\ IF Definition(s, r) = None
          THEN runs' = [runs EXCEPT ![r].status = "given up"] /\ UNCHANGED server
          ELSE /\ runs' = [runs EXCEPT ![r].executed = @ \cup {Definition(s, r)}]
               /\ server' = [server EXCEPT ![s].definitions[r] = Definition(s, r)]
  /\ UNCHANGED <<scenario, db, slot, tick, time, history>>

-----------------------------------------------------------------------------
Fault == scenario.faults > 0 /\ scenario' = [scenario EXCEPT !.faults = @ - 1]

Interrupted(hs) ==
  [history EXCEPT !.partial = @ \/ \E h \in hs : slot[h].pc = "seed",
                  !.unsaved = @ \cup {slot[h].id : h \in {g \in hs : slot[g].pc = "write"}}]

(* the database refuses a write: the request fails, memory keeps it; a     *)
(* scheduled run that is not recorded is an error of its row *)
FailedWrite(h) ==
  /\ slot[h].pc \in {"write", "seed", "store"} /\ Fault
  /\ slot' = [slot EXCEPT ![h] = Idle]
  /\ history' = Interrupted({h})
  /\ UNCHANGED <<db, server, tick, runs, time>>

FailedRecord(s, n) ==
  /\ tick[s][n].pc = "record" /\ Fault
  /\ tick' = [tick EXCEPT ![s][n].pc = "fail"]
  /\ UNCHANGED <<db, server, slot, runs, time, history>>

(* A process dies, at start-up too: its lock is released, its transaction  *)
(* undone.  A scheduler tick whose rows cannot be listed, or whose failure *)
(* cannot be recorded, is a rejection nobody handles and ends it as well.  *)
Crash(s) ==
  LET hs == {h \in Slots : slot[h].pc # "idle" /\ slot[h].at = s} IN
  /\ server[s].stage # "down" /\ Fault
  /\ server' = [server EXCEPT ![s] = Fresh]
  /\ slot' = [h \in Slots |-> IF h \in hs THEN Idle ELSE slot[h]]
  /\ tick' = [tick EXCEPT ![s] = [n \in Overlaps |-> NoTick]]
  /\ db' = [db EXCEPT !.lock = IF @ = s THEN None ELSE @]
  /\ history' = Interrupted(hs)
  /\ UNCHANGED <<runs, time>>

-----------------------------------------------------------------------------
StartsUp(s) == Lock(s) \/ Migrate(s) \/ Unlock(s) \/ Load(s)
Answers(h) ==
  \/ Create(h) \/ Lookup(h) \/ Update(h) \/ Write(h) \/ TestRun(h) \/ Fetch(h) \/ StartRun(h)
  \/ ListTemplates(h) \/ EditTemplate(h) \/ OpenTemplate(h) \/ RestoreTemplate(h)
  \/ CountTemplates(h) \/ Seed(h) \/ StoreTemplate(h) \/ UseTemplate(h)
Ticks(s, n) ==
  \/ ListRows(s, n) \/ ReadClock(s, n) \/ StartDue(s, n) \/ RecordRun(s, n)
  \/ RecordFailure(s, n) \/ EndTick(s, n) \/ FailedRecord(s, n)

Next ==
  \/ \E s \in scenario.servers : \/ StartsUp(s) \/ TickRun(s) \/ Crash(s)
                                \/ \E n \in scenario.overlaps : Ticks(s, n)
  \/ \E h \in Slots : Answers(h) \/ FailedWrite(h)
  \/ Advance

Spec == Init /\ [][Next]_vars
-----------------------------------------------------------------------------
(* The variables have their types; a lock is held by a process that        *)
(* migrates, and the last scheduled run of a row is not in the future. *)
TypeOK ==
  /\ db.lock \in Servers \cup {None} /\ db.schema \subseteq MigrationVersions
  /\ db.lock # None => server[db.lock].stage = "migrating"
  /\ \A i \in Ids : db.rows[i] # None =>
       /\ db.rows[i].payload \in Payload /\ db.rows[i].failed \in BOOLEAN
       /\ db.rows[i].lastRun \in {None} \cup 0 .. time
  /\ db.templates \in [1 .. Len(Templates) -> {None, "system", "edited"}]
  /\ \A s \in Servers :
       /\ server[s].stage \in {"down", "migrating", "loading", "serving"}
       /\ server[s].memory \in [Ids -> Payload \cup {None}]
       /\ server[s].catalog \in [Ids -> [Versions -> Graphs \cup {None}]]
       /\ server[s].definitions \in [1 .. MaxRuns -> Graphs \cup {None}]
       /\ server[s].templates \in [1 .. Len(Templates) -> {None, "system", "edited"}]
  /\ \A r \in DOMAIN runs : runs[r].id \in Ids /\ runs[r].version \in Versions
                           /\ runs[r].executed \subseteq Graphs

(* Processes that start together migrate one after the other: no migration *)
(* is applied twice, whoever dies in between, and none serves before the   *)
(* schema is complete (postgres-migrations.ts:276). *)
StartupSerialized ==
  /\ history.conflicts = 0
  /\ \A s \in Servers : server[s].stage \in {"loading", "serving"} => db.schema = MigrationVersions

(* Whatever is saved meanwhile, and whichever process ticks it, a run      *)
(* executes only definitions saved under its own version - though not      *)
(* always the same one: a version that is saved again with another graph   *)
(* reaches the processes that have not ticked the run                      *)
(* (inmemory-workflow-runtime.ts:164). *)
RunKeepsVersion ==
  \A r \in DOMAIN runs : \A g \in runs[r].executed :
    \E e \in history.saved : e[1] = runs[r].id /\ e[2].version = runs[r].version /\ e[2].graph = g

(* With one process, a running run is given up for want of its definition  *)
(* only when its workflow was saved under another version, or not saved at *)
(* all because the write failed; both lose the definition at the next      *)
(* restart (designer-store.ts:56). *)
GivenUpOnlyIfReplaced ==
  \A r \in DOMAIN runs :
    runs[r].status = "given up" /\ Cardinality(scenario.servers) = 1 =>
      \/ runs[r].id \in history.unsaved
      \/ \E e \in history.saved : e[1] = runs[r].id /\ e[2].version # runs[r].version

(* Once the creation of a workflow is answered, every later request to     *)
(* create it is refused, by every process; two at the same time both       *)
(* succeed (routes/designer.ts:117). *)
CreateAnsweredOnce == ~history.late

(* A tick of the scheduler that begins after the run of a day was recorded *)
(* does not start it again; ticks that overlap, on one process or on two,  *)
(* do (designer-scheduler.ts:25).  When the schedule is changed meanwhile, *)
(* a slow tick may overwrite the record of a later day with its own.       *)
RecordedDayNotRepeated ==
  \A r \in DOMAIN runs : runs[r].again =>
    \E e, f \in history.saved : e[1] = runs[r].id /\ f[1] = e[1] /\ e[2].schedule # f[2].schedule

(* When nobody is seeding, a user has all templates or none - unless a     *)
(* seeding was cut short, or a template was restored first: then the       *)
(* others are never seeded (designer-template-store.ts:105). *)
TemplatesWhole ==
  (\A h \in Slots : slot[h].pc # "seed") /\ ~history.partial =>
    Unseeded \/ \A t \in 1 .. Len(Templates) : db.templates[t] # None

(* What becomes of a run while its workflow is saved again: it executes    *)
(* what was saved under its version, or nothing was.                       *)
RunsFollowSaves == RunKeepsVersion /\ GivenUpOnlyIfReplaced

(* What the database keeps is whole: a creation is answered once, and the  *)
(* templates of a user are complete. *)
StoreWhole == TypeOK /\ CreateAnsweredOnce /\ TemplatesWhole
=============================================================================
