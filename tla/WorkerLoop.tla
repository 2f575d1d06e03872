----------------------------- MODULE WorkerLoop -----------------------------
(***************************************************************************)
(* A run from its start to its end: which task leads to which tick.  Every *)
(* server process runs a workflow worker, an activity worker and a timer   *)
(* worker (infra/bootstrap/workers.ts) and answers API requests; they meet *)
(* in the event store and in three task queues.  The definition is a       *)
(* program of FtnDsl, so that what a run waits for, and who wakes it, are  *)
(* those of the code.                                                      *)
(*                                                                         *)
(* WorkflowRun takes a tick apart into its awaits; what it proves lets a   *)
(* tick read the run at one version here and append at another moment.     *)
(* The queues keep their at-least-once contract (AtLeastOnceQueue): a      *)
(* leased task returns to its queue when its worker dies, and may return   *)
(* while the worker lives, if its lease is recovered too early.            *)
(***************************************************************************)
EXTENDS FtnDsl

CONSTANTS
  Servers,         \* server processes
  MaxAttempts,     \* config.concurrencyRetryMaxAttempts
  Scenarios        \* what a run may be: its program, the signals clients send
                   \* (each once), whether one cancels it, and bounds on the
                   \* computations that throw in one tick, on the crashes, on the
                   \* leases recovered from a live worker, on the log (versions)
                   \* and on the servers

ASSUME MaxAttemptsAssumption == MaxAttempts \in Nat

VARIABLES
  program,     \* the definition of the run
  log,         \* the events of the run, by version, as RunState knows them
  stream,      \* the same events with what the ftn calls look up
  child,       \* the child run the definition starts, if any
  workflows,   \* ready workflow tasks: how many have each retryCount
  activities,  \* ready activity tasks, by the version of their event
  timers,      \* ready timer tasks, by the version of their event
  due,         \* timers whose wakeAt has passed
  deadLetters, \* tasks given up
  ticker, actor, waker, api, \* what each server's loops are doing
  dispatched,  \* dispatchedTimerKeys of each server's timer worker
  threw,       \* activities whose handler threw (for the properties only)
  budget,      \* the requests and faults of the scenario still to come
  lost         \* what crashes took between an append or a completed task and
               \* the enqueue that follows it (for the properties only)

queues == <<workflows, activities, timers>>
loops  == <<ticker, actor, waker, api>>
vars   == <<program, log, stream, child, queues, due, deadLetters, loops, dispatched, threw, budget, lost>>

Idle == [pc |-> "idle"]

StateOf(version) == StateAt(log, version)

Appends(events) ==
  /\ Len(log) + Len(events) <= budget.versions
  /\ stream' = stream \o events
  /\ log' = log \o AbstractLog(events)

(* an append without its version check *)
LatestAlways(v) == TRUE

(* the version check of appendEvents *)
Latest(v) == v = Len(log)

Put(r) == workflows' = [workflows EXCEPT ![r] = @ + 1]

Init ==
  /\ \E scenario \in Scenarios :
       /\ program = scenario.program
       /\ budget = [x \in DOMAIN scenario \ {"program"} |-> scenario[x]]
  /\ log = <<WorkflowStarted>> /\ stream = log
  /\ child = "none"
  /\ workflows = [r \in 0 .. MaxAttempts |-> 0]
  /\ activities = {} /\ timers = {} /\ due = {}
  /\ deadLetters = {}
  /\ ticker = [s \in Servers |-> Idle]
  /\ actor = [s \in Servers |-> Idle]
  /\ waker = [s \in Servers |-> Idle]
  /\ \E s \in budget.servers :  \* enqueueWorkflowStart has started the run
       api = [x \in Servers |-> IF x = s THEN [pc |-> "enqueue"] ELSE Idle]
  /\ dispatched = [s \in Servers |-> {}]
  /\ threw = {} /\ lost = {}

-----------------------------------------------------------------------------
(* WorkflowWorker.runOnce: lease a task and read the run; a run that is    *)
(* not running ends the tick, a cancellation request is all a tick handles *)
Lease(s) ==
  LET h == Len(log)
      status == StateOf(h).status
      work(r) == [pc |-> "execute", retry |-> r, held |-> TRUE, version |-> h,
                  events |-> << >>, outcome |-> "none",
                  activities |-> {}, timers |-> {}]
  IN
  /\ ticker[s].pc = "idle"
  /\ \E r \in 0 .. MaxAttempts :
       /\ workflows[r] > 0
       /\ workflows' = [workflows EXCEPT ![r] = @ - 1]
       /\ ticker' = [ticker EXCEPT ![s] =
            IF status # "running" THEN [work(r) EXCEPT !.pc = "finish"]
            ELSE IF CancelPending(log, h)
            THEN [work(r) EXCEPT !.pc = "append", !.outcome = "cancelled",
                                 !.events = <<WorkflowCancelled>>]
            ELSE work(r)]
  /\ UNCHANGED <<program, log, stream, child, activities, timers, due, deadLetters, actor, waker,
                 api, dispatched, threw, budget, lost>>

(* the definition is executed on the history read.  Starting a child run   *)
(* and enqueuing its task happen here, before anything is appended to this *)
(* run. *)
ExecuteDefinition(s) ==
  /\ ticker[s].pc = "execute"
  /\ \E failures \in 0 .. budget.failures :
       LET v == ticker[s].version
           tick == Execute(program, StateOf(v), SubSeq(stream, 1, v), child, failures)
       IN
       /\ ticker' = [ticker EXCEPT
            ![s].events = tick.events, ![s].outcome = tick.outcome,
            ![s].pc = IF tick.events = << >> THEN "complete" ELSE "append"]
       /\ child' = IF tick.startsChild THEN "running" ELSE child
  /\ UNCHANGED <<program, log, stream, queues, due, deadLetters, actor, waker, api,
                 dispatched, threw, budget, lost>>

(* tasks for all but the first of the events appended *)
NewTasksButFirst(v, type) == {i \in DOMAIN stream' : i > v + 1 /\ stream'[i].type = type}

(* the tasks built from the events appended after version v *)
NewTasks(v, type) == {i \in DOMAIN stream' : i > v /\ stream'[i].type = type}

(* the append of the tick, at the version it read *)
AppendTick(s) ==
  LET me == ticker[s] IN
  /\ me.pc = "append" /\ Latest(me.version)
  /\ Appends(me.events)
  /\ ticker' = [ticker EXCEPT
       ![s].version = Len(log'),
       ![s].activities = NewTasks(me.version, "ActivityScheduled"),
       ![s].timers = NewTasks(me.version, "TimerScheduled"),
       ![s].pc = IF me.outcome = "cancelled" THEN "finish" ELSE "enqueue"]
  /\ UNCHANGED <<program, child, queues, due, deadLetters, actor, waker, api,
                 dispatched, threw, budget, lost>>

(* the tasks of what was scheduled: activities in order, then timers *)
EnqueueTasks(s) ==
  LET me == ticker[s]
      first(set) == {i \in set : \A j \in set : i <= j}
  IN
  /\ me.pc = "enqueue"
  /\ activities' = activities \cup first(me.activities)
  /\ timers' = IF me.activities = {} THEN timers \cup first(me.timers) ELSE timers
  /\ ticker' = [ticker EXCEPT
       ![s].activities = @ \ first(@),
       ![s].timers = IF me.activities = {} THEN @ \ first(@) ELSE @,
       ![s].pc = IF me.activities \cup me.timers = {} THEN "complete" ELSE @]
  /\ UNCHANGED <<program, log, stream, child, workflows, due, deadLetters, actor, waker, api,
                 dispatched, threw, budget, lost>>

(* the definition did not suspend and nothing is pending *)
Complete(s) ==
  LET me == ticker[s]
      done == me.outcome # "suspended" /\ NothingPending(StateOf(me.version))
  IN
  /\ me.pc = "complete"
  /\ IF done THEN Latest(me.version) /\ Appends(<<WorkflowCompleted>>)
             ELSE UNCHANGED <<log, stream>>
  /\ ticker' = [ticker EXCEPT ![s].version = IF done THEN @ + 1 ELSE @,
                              ![s].pc = "finish"]
  /\ UNCHANGED <<program, child, queues, due, deadLetters, actor, waker, api,
                 dispatched, threw, budget, lost>>

(* completeTask, then another workflow task while anything is pending: two *)
(* calls, the second after the first *)
StillPolls(me) ==
  LET st == StateOf(me.version) IN
  st.status = "running" /\ (st.pending # {} \/ st.timers # {})

Finish(s) ==
  /\ ticker[s].pc = "finish"
  /\ ticker' = [ticker EXCEPT ![s] =
       IF StillPolls(@) THEN [pc |-> "requeue", retry |-> 0] ELSE Idle]
  /\ UNCHANGED <<program, log, stream, child, queues, due, deadLetters, actor, waker, api,
                 dispatched, threw, budget, lost>>

Requeue(s) ==
  /\ ticker[s].pc = "requeue"
  /\ Put(ticker[s].retry)
  /\ ticker' = [ticker EXCEPT ![s] = Idle]
  /\ UNCHANGED <<program, log, stream, child, activities, timers, due, deadLetters, actor, waker, api,
                 dispatched, threw, budget, lost>>

(* ConcurrencyError out of the tick: after a delay the task is completed   *)
(* and another one enqueued with one more retry, or it is given up *)
Conflict(s) ==
  LET me == ticker[s] IN
  /\ \/ me.pc = "append"
     \/ /\ me.pc = "complete"
        /\ me.outcome # "suspended" /\ NothingPending(StateOf(me.version))
  /\ ~Latest(me.version)
  /\ IF me.retry + 1 > MaxAttempts
     THEN /\ deadLetters' = deadLetters \cup {<<"workflows", 0>>}
          /\ ticker' = [ticker EXCEPT ![s] = Idle]
     ELSE /\ ticker' = [ticker EXCEPT ![s] = [pc |-> "requeue", retry |-> me.retry + 1]]
          /\ deadLetters' = deadLetters
  /\ UNCHANGED <<program, log, stream, child, queues, due, actor, waker, api,
                 dispatched, threw, budget, lost>>

-----------------------------------------------------------------------------
(* ActivityQueueWorker.runOnce: the handler executes and returns a result  *)
(* or throws; handleResult then reads the run *)
Execution(s) ==
  /\ actor[s].pc = "idle"
  /\ \E id \in activities, outcome \in {"ok", "error"} :
       /\ activities' = activities \ {id}
       /\ actor' = [actor EXCEPT ![s] =
            [pc |-> "load", id |-> id, outcome |-> outcome, held |-> TRUE]]
       /\ threw' = IF outcome = "error" THEN threw \cup {id} ELSE threw
  /\ UNCHANGED <<program, log, stream, child, workflows, timers, due, deadLetters, ticker, waker, api,
                 dispatched, budget, lost>>

LoadRun(s) ==
  LET me == actor[s] IN
  /\ me.pc = "load"
  /\ actor' = [actor EXCEPT ![s] =
       IF \E a \in StateOf(Len(log)).pending : a.id = me.id
       THEN [me EXCEPT !.pc = "append"] @@ [version |-> Len(log)]
       ELSE [me EXCEPT !.pc = "finish"]]
  /\ UNCHANGED <<program, log, stream, child, queues, due, deadLetters, ticker, waker, api,
                 dispatched, threw, budget, lost>>

(* the two results swapped *)
AppendResultSwapped(s) ==
  LET me == actor[s]
      at(pc, outcome) == [pc |-> pc, id |-> me.id, outcome |-> outcome, held |-> me.held]
  IN
  /\ me.pc = "append"
  /\ \/ /\ Latest(me.version)
        /\ Appends(<<IF me.outcome = "error" THEN ActivityCompleted(me.id)
                                          ELSE ActivityFailed(me.id)>>)
        /\ actor' = [actor EXCEPT ![s] = at("finish", me.outcome)]
        /\ deadLetters' = deadLetters
     \/ /\ ~Latest(me.version)
        /\ UNCHANGED <<log, stream>>
        /\ \/ /\ me.outcome = "ok"
              /\ actor' = [actor EXCEPT ![s] = at("load", "error")]
              /\ deadLetters' = deadLetters
           \/ /\ me.outcome = "error"
              /\ actor' = [actor EXCEPT ![s] = at("finish", "error")]
              /\ deadLetters' = deadLetters \cup {<<"activities", me.id>>}
  /\ UNCHANGED <<program, child, queues, due, ticker, waker, api,
                 dispatched, threw, budget, lost>>

(* a ConcurrencyError is caught like an error of the handler, and recorded *)
(* as one; a second one dead-letters the task *)
AppendResult(s) ==
  LET me == actor[s]
      at(pc, outcome) == [pc |-> pc, id |-> me.id, outcome |-> outcome, held |-> me.held]
  IN
  /\ me.pc = "append"
  /\ \/ /\ Latest(me.version)
        /\ Appends(<<IF me.outcome = "ok" THEN ActivityCompleted(me.id)
                                          ELSE ActivityFailed(me.id)>>)
        /\ actor' = [actor EXCEPT ![s] = at("finish", me.outcome)]
        /\ deadLetters' = deadLetters
     \/ /\ ~Latest(me.version)
        /\ UNCHANGED <<log, stream>>
        /\ \/ /\ me.outcome = "ok"
              /\ actor' = [actor EXCEPT ![s] = at("load", "error")]
              /\ deadLetters' = deadLetters
           \/ /\ me.outcome = "error"
              /\ actor' = [actor EXCEPT ![s] = at("finish", "error")]
              /\ deadLetters' = deadLetters \cup {<<"activities", me.id>>}
  /\ UNCHANGED <<program, child, queues, due, ticker, waker, api,
                 dispatched, threw, budget, lost>>

FinishActivity(s) ==
  /\ actor[s].pc = "finish"
  /\ actor' = [actor EXCEPT ![s] = Idle]
  /\ UNCHANGED <<program, log, stream, child, queues, due, deadLetters, ticker, waker, api,
                 dispatched, threw, budget, lost>>

-----------------------------------------------------------------------------
(* TimerWorker.runOnce: a timer that is not due is completed and enqueued  *)
(* again; a due one enqueues a workflow task, once per key and process *)
LeaseTimer(s) ==
  /\ waker[s].pc = "idle"
  /\ \E v \in timers :
       /\ timers' = timers \ {v}
       /\ IF v \notin due
          THEN /\ waker' = [waker EXCEPT ![s] = [pc |-> "requeue", key |-> v]]
               /\ dispatched' = dispatched
          ELSE IF v \in dispatched[s]
          THEN UNCHANGED <<waker, dispatched>>
          ELSE /\ waker' = [waker EXCEPT ![s] = [pc |-> "dispatch", key |-> v]]
               /\ dispatched' = [dispatched EXCEPT ![s] = @ \cup {v}]
  /\ UNCHANGED <<program, log, stream, child, workflows, activities, due, deadLetters, ticker, actor, api,
                 threw, budget, lost>>

RequeueTimer(s) ==
  /\ waker[s].pc = "requeue"
  /\ timers' = timers \cup {waker[s].key}
  /\ waker' = [waker EXCEPT ![s] = Idle]
  /\ UNCHANGED <<program, log, stream, child, workflows, activities, due, deadLetters, ticker, actor, api,
                 dispatched, threw, budget, lost>>

DispatchTimer(s) ==
  /\ waker[s].pc = "dispatch"
  /\ Put(0)
  /\ waker' = [waker EXCEPT ![s].pc = "finish"]
  /\ UNCHANGED <<program, log, stream, child, activities, timers, due, deadLetters, ticker, actor, api,
                 dispatched, threw, budget, lost>>

FinishTimer(s) ==
  /\ waker[s].pc = "finish"
  /\ waker' = [waker EXCEPT ![s] = Idle]
  /\ UNCHANGED <<program, log, stream, child, queues, due, deadLetters, ticker, actor, api,
                 dispatched, threw, budget, lost>>

-----------------------------------------------------------------------------
(* API requests: the run is read, an event appended at that version, and a *)
(* workflow task enqueued.  A conflict answers an error; the client then   *)
(* sends the request again, so the budget is spent by the append. *)
Request(s) ==
  /\ api[s].pc = "idle"
  /\ \/ \E n \in budget.signals :
          api' = [api EXCEPT ![s] =
            [pc |-> "append", event |-> SignalReceived(n), version |-> Len(log)]]
     \/ /\ budget.cancel /\ StateOf(Len(log)).status = "running"
        /\ api' = [api EXCEPT ![s] =
            [pc |-> "append", event |-> WorkflowCancelRequested, version |-> Len(log)]]
  /\ UNCHANGED <<program, log, stream, child, queues, due, deadLetters, ticker, actor, waker,
                 dispatched, threw, budget, lost>>

AppendRequest(s) ==
  LET me == api[s] IN
  /\ me.pc = "append"
  /\ IF Latest(me.version)
     THEN /\ Appends(<<me.event>>)
          /\ api' = [api EXCEPT ![s] = [pc |-> "enqueue"]]
          /\ budget' = IF me.event = WorkflowCancelRequested
                       THEN [budget EXCEPT !.cancel = FALSE]
                       ELSE [budget EXCEPT !.signals = @ \ {me.event.signal}]
     ELSE /\ api' = [api EXCEPT ![s] = Idle]
          /\ UNCHANGED <<program, log, stream, budget>>
  /\ UNCHANGED <<program, child, queues, due, deadLetters, ticker, actor, waker,
                 dispatched, threw, lost>>

(* a request that enqueues no task *)
EnqueueRequestSkipped(s) ==
  /\ api[s].pc = "enqueue"
  /\ api' = [api EXCEPT ![s] = Idle]
  /\ UNCHANGED <<program, log, stream, child, queues, due, deadLetters, ticker, actor,
                 waker, dispatched, threw, budget, lost>>

EnqueueRequest(s) ==
  /\ api[s].pc = "enqueue"
  /\ Put(0)
  /\ api' = [api EXCEPT ![s] = Idle]
  /\ UNCHANGED <<program, log, stream, child, activities, timers, due, deadLetters, ticker, actor, waker,
                 dispatched, threw, budget, lost>>

-----------------------------------------------------------------------------
(* time passes for a timer *)
TimerDue ==
  /\ \E v \in timers \cup {waker[s].key : s \in {x \in Servers : waker[x].pc = "requeue"}} :
       v \notin due /\ due' = due \cup {v}
  /\ UNCHANGED <<program, log, stream, child, queues, deadLetters, loops, dispatched, threw, budget, lost>>

(* the child run ends, on its own *)
ChildEnds ==
  /\ child = "running"
  /\ child' \in {"completed", "failed"}
  /\ UNCHANGED <<program, log, stream, queues, due, deadLetters, loops, dispatched, threw, budget, lost>>

(* the tasks a server has still to enqueue: those of an append, and the    *)
(* workflow task after a completed one or after a request *)
Unqueued(s) ==
  (IF ticker[s].pc = "enqueue" THEN ticker[s].activities ELSE {})
    \cup (IF ticker[s].pc = "requeue" \/ api[s].pc = "enqueue" THEN {0} ELSE {})

(* a server process dies and is restarted: its loops and its timer keys    *)
(* are lost, the queue delivers again what it had leased *)
Crash(s) ==
  LET leasedTick == "held" \in DOMAIN ticker[s] /\ ticker[s].held
      leasedActivity == "held" \in DOMAIN actor[s] /\ actor[s].held
  IN
  /\ budget.crashes > 0
  /\ budget' = [budget EXCEPT !.crashes = @ - 1]
  /\ IF leasedTick THEN Put(ticker[s].retry) ELSE workflows' = workflows
  /\ activities' = IF leasedActivity THEN activities \cup {actor[s].id} ELSE activities
  /\ timers' = IF waker[s].pc \in {"dispatch", "finish"}
               THEN timers \cup {waker[s].key} ELSE timers
  /\ ticker' = [ticker EXCEPT ![s] = Idle]
  /\ actor' = [actor EXCEPT ![s] = Idle]
  /\ waker' = [waker EXCEPT ![s] = Idle]
  /\ api' = [api EXCEPT ![s] = Idle]
  /\ dispatched' = [dispatched EXCEPT ![s] = {}]
  /\ lost' = lost \cup Unqueued(s)
  /\ UNCHANGED <<program, log, stream, child, due, deadLetters, threw>>

(* a lease is recovered while its worker is still busy with the task *)
Redeliver(s) ==
  /\ budget.redeliveries > 0
  /\ budget' = [budget EXCEPT !.redeliveries = @ - 1]
  /\ \/ /\ "held" \in DOMAIN ticker[s] /\ ticker[s].held
        /\ Put(ticker[s].retry)
        /\ ticker' = [ticker EXCEPT ![s].held = FALSE]
        /\ UNCHANGED <<activities, actor>>
     \/ /\ "held" \in DOMAIN actor[s] /\ actor[s].held
        /\ activities' = activities \cup {actor[s].id}
        /\ actor' = [actor EXCEPT ![s].held = FALSE]
        /\ UNCHANGED <<workflows, ticker>>
  /\ UNCHANGED <<program, log, stream, child, timers, due, deadLetters, waker, api, dispatched, threw, lost>>

Ticks(s) == \/ Lease(s) \/ AppendTick(s) \/ EnqueueTasks(s) \/ Complete(s)
            \/ Finish(s) \/ Requeue(s) \/ Conflict(s)
Acts(s) == Execution(s) \/ LoadRun(s) \/ AppendResult(s) \/ FinishActivity(s)
Wakes(s) == LeaseTimer(s) \/ RequeueTimer(s) \/ DispatchTimer(s) \/ FinishTimer(s)
Replies(s) == AppendRequest(s) \/ EnqueueRequest(s)

Next ==
  \/ \E s \in budget.servers : \/ Ticks(s) \/ ExecuteDefinition(s) \/ Acts(s) \/ Wakes(s)
                               \/ Request(s) \/ Replies(s)
                               \/ Crash(s) \/ Redeliver(s)
  \/ TimerDue \/ ChildEnds

Spec == Init /\ [][Next]_vars

(* The three loops of a server keep running (runForever), a request that   *)
(* is being answered is answered, time passes and a child run ends; clients *)
(* send the signals the definition waits for.  A definition that executes  *)
(* returns or suspends: nothing but that step and a crash leaves "execute". *)
FairSpec ==
  /\ Spec
  /\ \A s \in Servers : WF_vars(Ticks(s)) /\ WF_vars(Acts(s)) /\ WF_vars(Wakes(s))
                        /\ []<>(ticker[s].pc # "execute")
                        /\ WF_vars(Request(s)) /\ WF_vars(Replies(s))
  /\ WF_vars(TimerDue) /\ WF_vars(ChildEnds)

-----------------------------------------------------------------------------
Pcs == {"idle", "execute", "append", "enqueue", "complete", "finish", "requeue", "load", "dispatch"}

TypeOK ==
  /\ Len(log) \in 1 .. budget.versions /\ log = AbstractLog(stream)
  /\ \A i \in DOMAIN log : log[i] \in Event
  /\ child \in {"none", "running", "completed", "failed"}
  /\ \A r \in 0 .. MaxAttempts : workflows[r] >= 0
  /\ activities \cup threw \subseteq {i \in DOMAIN log : log[i].type = "ActivityScheduled"}
  /\ timers \cup due \subseteq {i \in DOMAIN log : stream[i].type = "TimerScheduled"}
  /\ \A s \in Servers : {ticker[s].pc, actor[s].pc, waker[s].pc, api[s].pc} \subseteq Pcs

(* something will tick the run without anyone's help: a workflow task, a   *)
(* tick in progress, or a request or timer about to enqueue one *)
Awake ==
  \/ \E r \in 0 .. MaxAttempts : workflows[r] > 0
  \/ timers # {}
  \/ \E s \in Servers : \/ ticker[s].pc # "idle"
                        \/ api[s].pc = "enqueue"
                        \/ waker[s].pc \in {"requeue", "dispatch"}

(* a tick at this moment would record something *)
Runnable ==
  LET st == StateOf(Len(log))
      tick == Execute(program, st, stream, child, 0)
  IN
  /\ st.status = "running"
  /\ \/ CancelPending(log, Len(log))
     \/ tick.events # << >>
     \/ tick.outcome # "suspended" /\ NothingPending(st)

(* the two steps after which the code lets a run wait although it could go *)
(* on: the outcome of a child is seen by the tick after the one that polls *)
(* it, and a retry that throws again after its back-off finds its timer    *)
(* recorded; nothing schedules another tick                                *)
WaitsForNobody ==
  \/ child # "none"
  \/ \E s \in Range(program) : s.op = "retry" /\ Contains(s.body, ComputeStep)

(* A run that can go on is not forgotten: whenever a tick would record     *)
(* something (a result, a signal or a cancellation has arrived, a retry is *)
(* due), a workflow task or somebody about to enqueue one exists, although *)
(* activity results enqueue nothing and workers poll only while something  *)
(* is pending.  Excused are a task given up after its retries, a task lost *)
(* in a crash, and the two steps above.                                    *)
RunnableHasTask ==
  Runnable => \/ Awake
              \/ <<"workflows", 0>> \in deadLetters \/ 0 \in lost
              \/ WaitsForNobody

(* A task is at one of its workers, in its queue or about to be enqueued   *)
ActivityOnItsWay(id) ==
  \/ id \in activities
  \/ \E s \in Servers : \/ actor[s].pc # "idle" /\ actor[s].id = id
                        \/ ticker[s].pc = "enqueue" /\ id \in ticker[s].activities

(* Nothing rebuilds tasks from the log, and still nothing is lost but what *)
(* a process holds when it dies between an append and the enqueue after it *)
(* (or between completing a task and enqueuing the next): every pending    *)
(* activity has its task, and every run that can go on has one, through    *)
(* redelivered leases, conflicts and crashes at any other moment.  Tasks   *)
(* given up are in the dead letters.                                       *)
OnlyTheWindowLoses ==
  /\ \A a \in StateOf(Len(log)).pending :
       ActivityOnItsWay(a.id) \/ <<"activities", a.id>> \in deadLetters \/ a.id \in lost
  /\ RunnableHasTask

Count(e) == Cardinality({i \in DOMAIN log : log[i] = e})

(* A definition that sleeps once schedules one timer, replay included. *)
SleepOnce == SelectSeq(program, LAMBDA s : s.op = "sleep") = <<SleepStep>> =>
               Count(TimerScheduled) <= 1

RECURSIVE Selected(_), CallsInTick(_, _), Numbered(_)

(* the activities on the path the conditions of a program choose *)
Selected(steps) ==
  UNION {CASE s.op = "activities"  -> Range(s.names)
           [] s.op \in {"retry", "forEach"} -> Selected(s.body)
           [] s.op = "conditional" ->
                Selected(IF s.condition = "then" THEN s.then ELSE s.else)
           [] OTHER -> {} : s \in Range(steps)}

(* the activities called with an attempt number, which nothing looks up *)
Numbered(steps) ==
  UNION {CASE s.op = "activities" -> IF s.attempt THEN Range(s.names) ELSE {}
           [] s.op \in {"retry", "forEach"} -> Numbered(s.body)
           [] s.op = "conditional" -> Numbered(s.then) \cup Numbered(s.else)
           [] OTHER -> {} : s \in Range(steps)}

(* how often one tick may call an activity it has not scheduled before: a  *)
(* retry without back-off repeats its body within the tick, everything     *)
(* else stops at the join                                                  *)
CallsInTick(steps, a) ==
  Max({0} \cup {CASE s.op = "activities" -> IF Contains(s.names, a) THEN 1 ELSE 0
           [] s.op = "retry" -> (IF s.backOff THEN 1 ELSE s.max) * CallsInTick(s.body, a)
           [] s.op = "forEach" -> CallsInTick(s.body, a)
           [] s.op = "conditional" ->
                Max({CallsInTick(s.then, a), CallsInTick(s.else, a)})
           [] OTHER -> 0 : s \in Range(steps)})

(* A tick that runs the definition again from its first line records no    *)
(* step a second time: attempts, back-off timers, branches, iterations,    *)
(* children and signal waits are each in the log at most once, and a child *)
(* has one outcome.  (A sleep is not among them: it has no step.)          *)
StepsRecordedOnce ==
  \A i, j \in DOMAIN stream :
     /\ i < j
     /\ \/ "step" \in DOMAIN stream[i] /\ "step" \in DOMAIN stream[j]
        \/ "ordinal" \in DOMAIN stream[i] /\ "ordinal" \in DOMAIN stream[j]
     => /\ stream[i] # stream[j]
        /\ {stream[i].type, stream[j].type} = {"ConditionalBranchChosen"}
             \/ {stream[i].type, stream[j].type}
                  = {"ChildWorkflowCompleted", "ChildWorkflowFailed"}
             => stream[i].step # stream[j].step

(* An activity called without an attempt number is scheduled as often as   *)
(* one tick calls it, whatever the number of ticks: once, or maxAttempts   *)
(* times inside ftn.retry without back-off, which does not see what the    *)
(* tick itself has scheduled.  An activity called with an attempt number   *)
(* (charge of order-processing) is scheduled anew by every tick and        *)
(* nothing is claimed of it.                                               *)
ScheduledAsCalled ==
  \A a \in {log[i].activity : i \in {x \in DOMAIN log : log[x].type = "ActivityScheduled"}} :
     a \notin Numbered(program) => Count(ActivityScheduled(a)) <= CallsInTick(program, a)

(* An activity of a branch the conditions do not choose is scheduled by a  *)
(* program that decides inside a loop only, and only after the loop has    *)
(* completed: the loop is skipped from then on, so that later calls take   *)
(* the ordinals, and the recorded branches, of the calls inside it.        *)
BranchesFollowed ==
  \A i \in DOMAIN log :
     log[i].type = "ActivityScheduled" /\ log[i].activity \notin Selected(program) =>
       /\ \E s \in Range(program) :
            s.op = "forEach" /\ \E b \in Range(s.body) : b.op = "conditional"
       /\ \E j \in 1 .. i - 1 : stream[j].type = "LoopCompleted"


(* A started run ends, once clients have sent what it waits for, whatever  *)
(* crashes, unless one of its tasks was lost or given up (it then waits    *)
(* for an operator).  A definition that calls an activity with an attempt  *)
(* number never gets past it, as every tick schedules it anew; the two     *)
(* steps of WaitsForNobody may wait forever.                               *)
RunEnds ==
  <>(\/ StateOf(Len(log)).status # "running"
     \/ deadLetters # {} \/ lost # {}
     \/ Numbered(program) # {} \/ WaitsForNobody)

(* A result is turned into a failure by a conflict only: an activity whose *)
(* handler never threw is recorded as failed only if something else was    *)
(* appended to the run after the activity was scheduled (the error of the  *)
(* append is caught like one of the handler, activity-worker.ts).          *)
FailedOnlyIfOvertaken ==
  \A i \in DOMAIN log :
     log[i].type = "ActivityFailed" /\ log[i].activityId \notin threw =>
       \E j \in log[i].activityId + 1 .. i - 1 : log[j].type # "ActivityScheduled"

Serial == INSTANCE SerialRun

(* The worker loop runs the definition as the serial run would: what the   *)
(* interpreter records is what RunState allows a tick to record, and every *)
(* append of the loop is one step of SerialRun.                            *)
RefinesSerialRun == Serial!SerialSpec
=============================================================================
