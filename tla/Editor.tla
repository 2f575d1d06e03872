------------------------------- MODULE Editor -------------------------------
(***************************************************************************)
(* The page on which a user draws workflows                                *)
(* (frontend/src/features/designer/DesignerPage.tsx), the server that      *)
(* stores them (Designer says more of it) and one run of what was stored,  *)
(* walked tick by tick as DesignerGraph says.  Answers arrive in any       *)
(* order, while the user goes on.                                          *)
(*                                                                         *)
(* A name stands for its slug; the id of a workflow is <<name, k>>, the    *)
(* k-th with that name.  Versions stay as they are: the page shows them in *)
(* its advanced mode only.                                                 *)
(***************************************************************************)
EXTENDS DesignerGraph

CONSTANTS
  Names,     \* what users call workflows
  MaxK,      \* workflows of one name
  Slots,     \* requests of the page in flight
  Results,   \* what an activity may return
  Scenarios  \* what a behaviour is about, see ScenariosAssumption

Ids == Names \X (1 .. MaxK)
Fields == {"kind", "next", "act", "uses", "then", "else", "path", "op", "right", "target",
           "tries", "backOff", "branches", "id"}
Asked == {"new", "open", "save", "test", "template", "restore", "create", "name", "type",
          "touch", "add", "remove", "edit", "entry", "others", "signal", "restart", "failures"}

ASSUME ScenariosAssumption ==
  \A x \in Scenarios :
    /\ \A i \in Ids : x.store[i] # None => Valid(x.store[i])
    /\ Valid(x.template)
    /\ x.inputs # {}
    /\ x.fields \in SUBSET Fields         \* what the user edits of a step
    /\ x.times \in [Asked -> Nat]         \* how often each thing happens
    /\ x.patient \in BOOLEAN             \* whether the user waits for answers

VARIABLES
  scenario, \* the scenario, what may still happen counted down
  page,     \* the page of the user
  calls,    \* its requests
  server,   \* the workflows and the template stored
  run,      \* the run of a stored workflow, if any
  history   \* what was lost, overwritten, renamed, removed; for the properties

vars == <<scenario, page, calls, server, run, history>>

(* handleNew: EMPTY_WORKFLOW *)
Empty == [id |-> None, steps |-> << >>, entry |-> None]

(* the page mounts and asks for the list *)
Init ==
  /\ scenario \in Scenarios
  /\ page = [mode |-> "list", current |-> None, target |-> "workflow", auto |-> TRUE,
             list |-> {}, error |-> FALSE, dirty |-> "no", origin |-> "new"]
  /\ \E h \in Slots : calls = [g \in Slots |->
       IF g = h THEN [pc |-> "sent", kind |-> "list", then |-> "none"] ELSE None]
  /\ server = [store |-> scenario.store, template |-> scenario.template]
  /\ run = None
  /\ history = [lost |-> {}, over |-> {}, renamed |-> FALSE, removed |-> FALSE, swapped |-> FALSE]

-----------------------------------------------------------------------------
(* What the user does. *)
Once(what) ==
  /\ scenario.times[what] > 0
  /\ scenario' = [scenario EXCEPT !.times[what] = @ - 1]

Editing == page.mode = "edit" /\ page.current # None

Calls(request) == \E h \in Slots : calls[h] = None /\ calls' = [calls EXCEPT ![h] = [pc |-> "sent"] @@ request]

(* an edit is "late" when an answer may still replace what is edited *)
Touched == IF page.dirty \in {"calm", "late"} THEN page.dirty
           ELSE IF \E h \in Slots : calls[h] # None THEN "late" ELSE "calm"

Changes(w) == page' = [page EXCEPT !.current = w, !.dirty = Touched]

New ==
  /\ Once("new")
  /\ page' = [page EXCEPT !.mode = "edit", !.current = Empty, !.target = "workflow",
                          !.auto = TRUE, !.error = FALSE, !.dirty = "no", !.origin = "new"]
  /\ UNCHANGED <<calls, server, run, history>>

(* handleEdit: what is shown stays until the answer *)
Open ==
  /\ Once("open")
  /\ \E i \in page.list : Calls([kind |-> "open", id |-> i, cause |-> "open"])
  /\ page' = [page EXCEPT !.error = FALSE, !.dirty = "no"]
  /\ UNCHANGED <<server, run, history>>

(* handleEditTemplate *)
OpenTemplate ==
  /\ Once("template")
  /\ Calls([kind |-> "template", then |-> "none"])
  /\ page' = [page EXCEPT !.error = FALSE, !.dirty = "no"]
  /\ UNCHANGED <<server, run, history>>

Closed == [page EXCEPT !.mode = "list", !.current = None, !.dirty = "no"]

Cancel ==
  /\ Editing
  /\ page' = Closed
  /\ UNCHANGED <<scenario, calls, server, run, history>>

(* uniqueProcessId *)
UniqueId(name, existing) ==
  <<name, CHOOSE k \in 1 .. MaxK : <<name, k>> \notin existing /\ \A j \in 1 .. k - 1 : <<name, j>> \in existing>>

Nameable(name) == \E k \in 1 .. MaxK : <<name, k>> \notin page.list

(* the name gives a new workflow its id, until somebody types one *)
Name ==
  /\ Editing /\ Once("name")
  /\ \E name \in {n \in Names : Nameable(n)} :
       IF page.target = "workflow" /\ page.auto
       THEN page' = [page EXCEPT !.current.id = UniqueId(name, page.list),
                                 !.dirty = Touched, !.origin = "named"]
       ELSE Changes(page.current)
  /\ UNCHANGED <<calls, server, run, history>>

(* the id is typed; the field of an id in the list is disabled *)
TypeId ==
  /\ Editing /\ page.target = "workflow" /\ page.current.id \notin page.list /\ Once("type")
  /\ \E i \in Ids : page' = [page EXCEPT !.current.id = i, !.auto = FALSE,
                                         !.dirty = Touched, !.origin = "typed"]
  /\ UNCHANGED <<calls, server, run, history>>

(* any other field: description, tags, schedule, test data *)
Touch ==
  /\ Editing /\ Once("touch") /\ Changes(page.current)
  /\ UNCHANGED <<calls, server, run, history>>

NextId(w) == "step-" \o ToString(Len(w.steps) + 1)

(* handleAddStep, handleAddGoogleSheetsStep: the id counts the steps *)
AddStep ==
  /\ Editing /\ Once("add")
  /\ LET w == page.current
         id == NextId(w)
     IN \E act \in {"", "sheets"} :
          Changes([w EXCEPT !.steps = Append(@, [Default(id) EXCEPT !.act = act]),
                            !.entry = IF @ = None THEN id ELSE @])
  /\ UNCHANGED <<calls, server, run, history>>

(* "next" goes on pointing at the step *)
WithoutUnfixed(w, id) ==
  LET steps == SelectSeq(w.steps, LAMBDA s : s.id # id) IN
  [w EXCEPT !.steps = steps,
            !.entry = IF @ # id THEN @ ELSE IF steps = << >> THEN None ELSE steps[1].id]

(* handleRemoveStep: every step of that id goes; "next" is repaired, the   *)
(* branches of a conditional, the target of a retry and the branches of a  *)
(* parallel step are not *)
Without(w, id) ==
  LET left == SelectSeq(w.steps, LAMBDA s : s.id # id)
      steps == [i \in DOMAIN left |-> [left[i] EXCEPT !.next = IF @ = id THEN None ELSE @]]
  IN
  [w EXCEPT !.steps = steps,
            !.entry = IF @ # id THEN @ ELSE IF steps = << >> THEN None ELSE steps[1].id]

RemoveStep ==
  /\ Editing /\ Once("remove")
  /\ \E id \in IdsOf(page.current) : Changes(Without(page.current, id))
  /\ history' = [history EXCEPT !.removed = TRUE]
  /\ UNCHANGED <<calls, server, run>>

(* what the three inputs of a condition make of it *)
Expression(s) ==
  IF s.path = None \/ s.right = << >> THEN << >> ELSE <<s.path, s.op>> \o s.right

(* what the page offers for a field of the step *)
Others(w, s) == IdsOf(w) \ {s.id}
Activities(w, s) == {t.id : t \in {x \in Range(w.steps) : x.id # s.id /\ x.kind = "activity"}}
Offered(w, s, field) ==
  CASE field = "kind"                        -> Kinds
    [] field = "id"                          -> StepIds
    [] field = "next"                        -> Others(w, s) \cup {None}
    [] field \in {"then", "else"} /\ s.kind = "conditional" -> Others(w, s) \cup {None}
    [] field = "act" /\ s.kind = "activity"  -> {"email", "charge"}
    [] field = "uses" /\ s.kind = "activity" -> StepIds \cup {None}
    [] field = "path" /\ s.kind = "conditional"  -> {None, "input"} \cup StepIds
    [] field = "op" /\ s.kind = "conditional"    -> Range(Operators)
    [] field = "right" /\ s.kind = "conditional" -> {<< >>, <<"1">>, <<"===", "1">>, <<">", "1">>}
    [] field = "target" /\ s.kind = "retry"      -> Activities(w, s) \cup {None}
    [] field = "tries" /\ s.kind = "retry"       -> 1 .. MaxTries + 1
    [] field = "backOff" /\ s.kind = "retry"     -> BOOLEAN
    [] field = "branches" /\ s.kind = "parallel" -> {<<b>> : b \in SUBSET Activities(w, s)}
    [] OTHER -> {}

(* handleStepFieldChange, handleStepKindChange: every step of that id; the *)
(* fields of the last kind are kept *)
With(w, id, field, value) ==
  LET changed(s) == [f \in DOMAIN s |-> IF f = field THEN value ELSE s[f]]
      edited(s) == IF field \in {"path", "op", "right"}
                   THEN [changed(s) EXCEPT !.expr = Expression(changed(s))] ELSE changed(s)
  IN [w EXCEPT !.steps = [i \in DOMAIN @ |-> IF @[i].id = id THEN edited(@[i]) ELSE @[i]]]

EditStep ==
  /\ Editing /\ Once("edit")
  /\ \E s \in Range(page.current.steps), field \in scenario.fields :
       \E value \in Offered(page.current, s, field) :
         /\ value # s[field]
         /\ Changes(With(page.current, s.id, field, value))
         /\ history' = [history EXCEPT !.renamed = @ \/ field = "id"]
  /\ UNCHANGED <<calls, server, run>>

(* the entry step of the advanced mode *)
ChooseEntry ==
  /\ Editing /\ Once("entry")
  /\ \E id \in IdsOf(page.current) : Changes([page.current EXCEPT !.entry = id])
  /\ UNCHANGED <<calls, server, run, history>>

(* handleSave: what is saved begins with its first step, and goes to PUT   *)
(* when the list has its id *)
Save ==
  LET w == page.current
      saved == [w EXCEPT !.entry = w.steps[1].id]
      put == w.id \in page.list
  IN
  /\ Editing /\ Once("save")
  /\ IF w.id = None \/ w.steps = << >> \/ w.entry \notin IdsOf(w)
     THEN page' = [page EXCEPT !.error = TRUE] /\ UNCHANGED <<calls, history>>
     ELSE /\ Calls([kind |-> IF page.target = "template" THEN "saveTemplate" ELSE "save",
                    put |-> put, payload |-> saved])
          /\ page' = [page EXCEPT !.error = FALSE, !.dirty = "sent"]
          /\ history' = IF page.target = "workflow" /\ put
                        THEN [history EXCEPT !.over = @ \cup {page.origin}] ELSE history
  /\ UNCHANGED <<server, run>>

TestRun ==
  /\ Editing /\ page.current.id \in page.list /\ Once("test")
  /\ Calls([kind |-> "test", id |-> page.current.id])
  /\ UNCHANGED <<page, server, run, history>>

RestoreTemplate ==
  /\ Editing /\ page.target = "template" /\ Once("restore")
  /\ Calls([kind |-> "restore"])
  /\ page' = [page EXCEPT !.error = FALSE, !.dirty = "no"]
  /\ UNCHANGED <<server, run, history>>

(* handleCreateProcessFromTemplate sends the name, not what is shown *)
CreateFromTemplate ==
  /\ Editing /\ page.target = "template" /\ Once("create")
  /\ \E name \in {n \in Names : Nameable(n)} :
       Calls([kind |-> "create", id |-> UniqueId(name, page.list)])
  /\ page' = [page EXCEPT !.error = FALSE]
  /\ UNCHANGED <<server, run, history>>

-----------------------------------------------------------------------------
(* What the server does. *)
Started(w, id) == \E x \in scenario.inputs :
  run' = [id |-> id, graph |-> w, input |-> x, signals |-> 0, pending |-> << >>,
          completed |-> << >>, called |-> << >>, path |-> << >>,
          outcome |-> "started"]

(* the first run that starts is the one that is followed *)
Starts(id) == IF run = None THEN Started(server.store[id], id) ELSE UNCHANGED run

(* POST /designer/workflows refuses an id that is stored (409) *)
Taken(q) == ~q.put /\ server.store[q.payload.id] # None

Stores(q) == [server EXCEPT !.store[q.payload.id] = q.payload]

(* a workflow created with an instant schedule runs at once *)
ServeSave(q) ==
  IF Taken(q) \/ ~Valid(q.payload) THEN UNCHANGED <<server, run>>
  ELSE /\ server' = Stores(q)
       /\ IF q.put \/ run # None THEN UNCHANGED run ELSE Started(q.payload, q.payload.id)

(* the answer to a request; None is an error *)
Answer(q) ==
  CASE q.kind = "list"         -> {i \in Ids : server.store[i] # None}
    [] q.kind = "open"         -> server.store[q.id]
    [] q.kind = "template"     -> server.template
    [] q.kind = "save"         -> IF Taken(q) \/ ~Valid(q.payload) THEN None ELSE "ok"
    [] q.kind = "saveTemplate" -> IF Valid(q.payload) THEN "ok" ELSE None
    [] q.kind = "create"       -> IF server.store[q.id] # None THEN None ELSE "ok"
    [] OTHER                   -> "ok"

Serve(h) ==
  LET q == calls[h] IN
  /\ q # None /\ q.pc = "sent"
  /\ calls' = [calls EXCEPT ![h] = [pc |-> "answered", answer |-> Answer(q)] @@ q]
  /\ CASE q.kind = "save" -> ServeSave(q)
       [] q.kind = "test" -> Starts(q.id) /\ UNCHANGED server
       [] q.kind = "saveTemplate" ->
            /\ server' = IF Valid(q.payload) THEN [server EXCEPT !.template = q.payload] ELSE server
            /\ UNCHANGED run
       [] q.kind = "restore" -> server' = [server EXCEPT !.template = scenario.template] /\ UNCHANGED run
       [] q.kind = "create" ->
            /\ server' = IF server.store[q.id] # None THEN server
                         ELSE [server EXCEPT !.store[q.id] = [server.template EXCEPT !.id = q.id]]
            /\ UNCHANGED run
       [] OTHER -> UNCHANGED <<server, run>>
  /\ UNCHANGED <<scenario, page, history>>

(* another session of the same user saves a workflow *)
OtherSaves ==
  /\ Once("others")
  /\ \E i \in Ids : server' = [server EXCEPT !.store[i] = [scenario.template EXCEPT !.id = i]]
  /\ UNCHANGED <<page, calls, run, history>>

-----------------------------------------------------------------------------
(* What the page does with an answer. *)
Free(h) == calls' = [calls EXCEPT ![h] = None]
Follows(h, request) == calls' = [calls EXCEPT ![h] = [pc |-> "sent"] @@ request]

(* what is edited is replaced, or closed *)
Loses(cause) == history' = IF page.dirty = "calm" THEN [history EXCEPT !.lost = @ \cup {cause}]
                           ELSE history

Shows(w, target) ==
  page' = [page EXCEPT !.mode = "edit", !.current = w, !.target = target, !.auto = FALSE,
                       !.dirty = "no", !.origin = "opened"]

Arrived(h, kind) == calls[h] # None /\ calls[h].pc = "answered" /\ calls[h].kind = kind
                    /\ calls[h].answer # None

OpenArrives(h) ==
  /\ Arrived(h, "open")
  /\ Shows(calls[h].answer, "workflow") /\ Loses(calls[h].cause) /\ Free(h)
  /\ UNCHANGED <<scenario, server, run>>

(* after a restore the lists are loaded again *)
TemplateArrives(h) ==
  /\ Arrived(h, "template")
  /\ Shows(calls[h].answer, "template") /\ Loses("template")
  /\ IF calls[h].then = "none" THEN Free(h) ELSE Follows(h, [kind |-> "list", then |-> "stay"])
  /\ UNCHANGED <<scenario, server, run>>

(* reloadLists loads the templates too *)
ListArrives(h) ==
  /\ Arrived(h, "list")
  /\ page' = [page EXCEPT !.list = calls[h].answer,
                          !.origin = IF @ = "named" THEN "late" ELSE @]
  /\ IF calls[h].then = "none" THEN Free(h)
     ELSE calls' = [calls EXCEPT ![h].pc = "reloaded"]
  /\ UNCHANGED <<scenario, server, run, history>>

(* A saved workflow closes the editor, whatever it shows by now; a saved   *)
(* template does not. *)
Reloaded(h) ==
  LET q == calls[h] IN
  /\ q # None /\ q.pc = "reloaded"
  /\ CASE q.then = "close" ->
            /\ page' = Closed /\ Loses("save") /\ Free(h)
       [] q.then = "open" ->
            /\ page' = [page EXCEPT !.error = FALSE]
            /\ Follows(h, [kind |-> "open", id |-> q.id, cause |-> "create"])
            /\ UNCHANGED history
       [] OTHER -> Free(h) /\ UNCHANGED <<page, history>>
  /\ UNCHANGED <<scenario, server, run>>

(* the rest of handleSave, handleCreateProcessFromTemplate and             *)
(* handleRestoreTemplate *)
Continuation(q) ==
  CASE q.kind = "save"         -> [kind |-> "list", then |-> "close"]
    [] q.kind = "saveTemplate" -> [kind |-> "list", then |-> "stay"]
    [] q.kind = "create"       -> [kind |-> "list", then |-> "open", id |-> q.id]
    [] q.kind = "restore"      -> [kind |-> "template", then |-> "stay"]

Continues(h) ==
  /\ \E kind \in {"save", "saveTemplate", "create", "restore"} : Arrived(h, kind)
  /\ Follows(h, Continuation(calls[h]))
  /\ UNCHANGED <<scenario, page, server, run, history>>

TestArrives(h) ==
  /\ Arrived(h, "test") /\ Free(h)
  /\ UNCHANGED <<scenario, page, server, run, history>>

InFlight(h) == \E g \in Slots \ {h} : calls[g] # None

(* a save that fails closes the editor as well *)
FailedClosed(h) == IF calls[h].kind = "save" THEN Closed ELSE [page EXCEPT !.error = TRUE]

(* what was to be saved is unsaved again, and still shown *)
Failed(h) ==
  [page EXCEPT !.error = calls[h].kind # "test" \/ @,
               !.dirty = IF @ = "sent" /\ calls[h].kind = "save"
                         THEN (IF InFlight(h) THEN "late" ELSE "calm") ELSE @]

(* An error, of the server or of the network - the server may have done    *)
(* what was asked.  A template that cannot be loaded after its restore     *)
(* does not keep the lists from loading. *)
Fails(h) ==
  LET q == calls[h] IN
  /\ q # None
  /\ IF q.pc = "answered" /\ q.answer = None THEN UNCHANGED scenario ELSE Once("failures")
  /\ page' = Failed(h)
  /\ history' = IF page.dirty \in {"sent", "calm"} /\ page.current # page'.current
                THEN [history EXCEPT !.lost = @ \cup {"failure"}] ELSE history
  /\ IF q.kind = "template" /\ q.then = "stay" THEN Follows(h, [kind |-> "list", then |-> "stay"])
     ELSE Free(h)
  /\ UNCHANGED <<server, run>>

-----------------------------------------------------------------------------
(* What the run does. *)
Running == run # None /\ run.outcome \in {"started", "suspended"}

Tick ==
  /\ Running
  /\ LET c == TickOf(run.graph, run) IN
     run' = [run EXCEPT !.pending = @ \o c.calls, !.called = @ \o c.calls, !.path = c.path,
                        !.outcome = c.outcome]
  /\ UNCHANGED <<scenario, page, calls, server, history>>

(* an activity ends; its failure is a result like any other *)
Complete ==
  /\ Running
  /\ \E n \in DOMAIN run.pending, r \in Results \cup {"error"} :
       run' = [run EXCEPT !.pending = RemoveAt(@, n),
                          !.completed = Append(@, [key |-> run.pending[n], result |-> r])]
  /\ UNCHANGED <<scenario, page, calls, server, history>>

Signal ==
  /\ Running /\ Once("signal")
  /\ run' = [run EXCEPT !.signals = @ + 1]
  /\ UNCHANGED <<page, calls, server, history>>

(* The process restarts: the version the run was started with is what is   *)
(* stored of it now. *)
Restart ==
  /\ Running /\ Once("restart")
  /\ run' = [run EXCEPT !.graph = server.store[run.id]]
  /\ history' = [history EXCEPT !.swapped = @ \/ run.graph # server.store[run.id]]
  /\ UNCHANGED <<page, calls, server>>

-----------------------------------------------------------------------------
User ==
  \/ New \/ Open \/ OpenTemplate \/ Cancel \/ Name \/ TypeId \/ Touch \/ AddStep \/ RemoveStep
  \/ EditStep \/ ChooseEntry \/ Save \/ TestRun \/ RestoreTemplate \/ CreateFromTemplate
Arrives(h) ==
  \/ OpenArrives(h) \/ TemplateArrives(h) \/ ListArrives(h) \/ Reloaded(h)
  \/ Continues(h) \/ TestArrives(h) \/ Fails(h)

Next ==
  \/ (scenario.patient => \A h \in Slots : calls[h] = None) /\ User
  \/ OtherSaves
  \/ \E h \in Slots : Serve(h) \/ Arrives(h)
  \/ Tick \/ Complete \/ Signal \/ Restart

Spec == Init /\ [][Next]_vars
-----------------------------------------------------------------------------
Stored == {server.store[i] : i \in {j \in Ids : server.store[j] # None}} \cup {server.template}

(* The variables have their types; what is stored was accepted.            *)
TypeOK ==
  /\ page.mode \in {"list", "edit"} /\ page.target \in {"workflow", "template"}
  /\ page.list \subseteq Ids /\ page.error \in BOOLEAN /\ page.dirty \in {"no", "sent", "calm", "late"}
  /\ page.origin \in {"new", "named", "late", "typed", "opened"}
  /\ page.mode = "list" => page.current = None
  /\ \A w \in Stored : Valid(w)
  /\ \A i \in Ids : server.store[i] # None => server.store[i].id = i
  /\ run # None => run.outcome \in {"started", "suspended", "returned", "threw", "endless"}

(* A run of what users have drawn never comes to a step that is not there, *)
(* although the server does not look at "next": the page repairs it when a *)
(* step is removed, the server refuses the other edges - unless the id of  *)
(* a step was edited, which repairs nothing (designer-runtime.ts:14). *)
ThrowsOnlyIfRenamed ==
  run # None /\ run.outcome = "threw" => history.renamed

(* Two steps have the same id - one of them is never executed, and both    *)
(* are edited and removed together - only after a step was removed, or its *)
(* id edited: the next id counts the steps (DesignerPage.tsx:298). *)
IdsUniqueUntilRemoved ==
  ~history.removed /\ ~history.renamed =>
    \A w \in Stored \cup ({page.current} \ {None}) : Cardinality(IdsOf(w)) = Len(w.steps)

(* A stored condition decides what its path, operator and value say,       *)
(* whatever a run has seen - unless the value has an operator in it, or    *)
(* the condition was never edited, when the page shows none of it          *)
(* (designer-expression.ts:112, DesignerPage.tsx:1123). *)
ConditionsHonest ==
  \A w \in Stored : \A s \in Range(w.steps) :
    s.kind = "conditional" /\ s.path # None /\ s.right # << >> /\ Found(s.right) = {} =>
      \A x \in Results \cup {"error"} :
        LET seen == [i \in StepIds |-> x] IN
        EvalCondition(s.expr, x, seen) = Holds(s.op, PathValue(<<s.path>>, x, seen), Literal(s.right))

(* how often a step of a graph calls its activity in one tick: a retry     *)
(* step without back-off as often as it tries, a parallel step as often as *)
(* its branches name it *)
Repeats(w, s) ==
  CASE s.kind = "retry"    -> IF s.backOff THEN 1 ELSE s.tries
    [] s.kind = "parallel" ->
         LET named == [n \in DOMAIN Named(s) |-> FindStep(w, Named(s)[n]).act]
         IN Max({1} \cup {Cardinality({m \in DOMAIN named : named[m] = a}) : a \in Range(named)})
    [] OTHER -> 1

(* However often a tick is repeated, an activity is scheduled for the same *)
(* input as often as one step calls it in one tick, and in most graphs     *)
(* once: a later tick, or a later step, finds it again.  A retry step      *)
(* without back-off and a parallel step do not find what the tick itself   *)
(* has scheduled (designer-runtime.ts:61, 76). *)
ScheduledOnce ==
  run # None /\ ~history.swapped =>
    \A k \in Range(run.called) :
      Cardinality({n \in DOMAIN run.called : run.called[n] = k})
        <= Max({1} \cup {Repeats(run.graph, s) : s \in Range(run.graph.steps)})

(* A tick goes the way of the one before it, and on: no decision is stored *)
(* but all are taken again alike - as long as the process keeps the graph; *)
(* after a restart a run goes on with the graph that was saved last        *)
(* (designer-runtime.ts:34). *)
GoesTheSameWay ==
  [][run # None /\ run' # None /\ ~history'.swapped => IsPrefix(run.path, run'.path)]_vars

(* A workflow the user did not open is overwritten only under an id that   *)
(* was typed, or given before the page's list of workflows arrived: the    *)
(* page decides by its list whether it saves a new one                     *)
(* (DesignerPage.tsx:278). *)
OverwritesOwn == history.over \subseteq {"opened", "typed", "late"}

(* Edits that were begun with no request in flight are lost only when the  *)
(* user cancels or opens something else - or makes a process from the      *)
(* template that is edited: the process is made from what is stored, and   *)
(* replaces what was edited (DesignerPage.tsx:183). *)
EditsKept == history.lost \subseteq {"create"}

(* Every step of a run is there, and is the one that was drawn. *)
StepsFound == ThrowsOnlyIfRenamed /\ IdsUniqueUntilRemoved

(* What users have drawn is theirs: neither overwritten nor lost, however  *)
(* late the answers come. *)
DrawingsKept == TypeOK /\ OverwritesOwn /\ EditsKept
=============================================================================
