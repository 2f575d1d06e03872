------------------------------ MODULE RunState ------------------------------
(***************************************************************************)
(* The event-sourced state of one workflow run (core/events.ts,            *)
(* core/workflow-state.ts, core/default-engine.ts) and the decisions the   *)
(* runtime takes from it (infra/inmemory-workflow-runtime.ts).             *)
(*                                                                         *)
(* A run is a log of events; the version of an event is its place in the   *)
(* log and log[1] is always WorkflowStarted, the event that                *)
(* WorkflowRuntime.startWorkflow appends.  An activity is named by the     *)
(* version of its ActivityScheduled event, which stands for the random     *)
(* activityId of the code: both are fresh for every event.                 *)
(***************************************************************************)
EXTENDS Integers, Sequences, FiniteSets

CONSTANTS
  Activities,  \* the (name, input) pairs ftn.activity deduplicates by
  Retried,     \* those a definition calls with an attempt number (ftn.retry)
  Signals,     \* signal names
  Calls,       \* which DSL calls the definition makes: bounds the alphabet
  MaxBatch     \* bound on the events one tick records before a failure

ASSUME RetriedAssumption == Retried \subseteq Activities
ASSUME MaxBatchAssumption == MaxBatch \in Nat

Terminal == {"WorkflowCompleted", "WorkflowFailed", "WorkflowCancelled"}

(* Events without data.  StepRecorded stands for the events that only      *)
(* annotate steps or children: RetryAttemptStarted, RetryCompleted,        *)
(* RetryGivenUp, the TimerScheduled of a retry backoff or of a child poll, *)
(* ConditionalBranchChosen, LoopIterationStarted, LoopCompleted and        *)
(* ChildWorkflow*.  TimerScheduled is the one of ftn.sleep.                *)
WorkflowStarted         == [type |-> "WorkflowStarted"]
StepRecorded            == [type |-> "StepRecorded"]
TimerScheduled          == [type |-> "TimerScheduled"]
WorkflowCancelRequested == [type |-> "WorkflowCancelRequested"]
WorkflowCompleted       == [type |-> "WorkflowCompleted"]
WorkflowFailed          == [type |-> "WorkflowFailed"]
WorkflowCancelled       == [type |-> "WorkflowCancelled"]
ActivityScheduled(a)    == [type |-> "ActivityScheduled", activity |-> a]
ActivityCompleted(id)   == [type |-> "ActivityCompleted", activityId |-> id]
ActivityFailed(id)      == [type |-> "ActivityFailed", activityId |-> id]
SignalWaitStarted(n)    == [type |-> "SignalWaitStarted", signal |-> n]
SignalReceived(n)       == [type |-> "SignalReceived", signal |-> n]

EventWith(ids) ==
  {WorkflowStarted, StepRecorded, TimerScheduled, WorkflowCancelRequested,
   WorkflowCompleted, WorkflowFailed, WorkflowCancelled}
    \cup [type : {"ActivityScheduled"}, activity : Activities]
    \cup [type : {"ActivityCompleted", "ActivityFailed"}, activityId : ids]
    \cup [type : {"SignalWaitStarted", "SignalReceived"}, signal : Signals]

Event == EventWith(Nat)

Status == {"running", "completed", "failed", "cancelled"}

ActivityRef == [id : Nat, activity : Activities]

(* WorkflowState.  waits is the set of signal names awaited: the ordinal   *)
(* of a wait is the number of signals of that name received before it, so  *)
(* at most one wait of a name is outstanding.  timers holds the version of *)
(* the event of each entry of pendingTimers.                               *)
RunStates ==
  [version : Nat, status : Status, pending : SUBSET ActivityRef,
   completed : SUBSET ActivityRef, waits : SUBSET Signals, timers : SUBSET Nat]

(* initializeFromStartEvent *)
InitialState ==
  [version |-> 1, status |-> "running", pending |-> {}, completed |-> {},
   waits |-> {}, timers |-> {}]

Closes(e) == e.type \in Terminal

StatusOf(e) ==
  CASE e = WorkflowCompleted -> "completed"
    [] e = WorkflowFailed    -> "failed"
    [] e = WorkflowCancelled -> "cancelled"

ResultsOf(id) == {ActivityCompleted(id), ActivityFailed(id)}

(* applyEvent *)
ApplyEvent(st, e) ==
  LET next == [st EXCEPT !.version = @ + 1]
      done(id) == {a \in st.pending : a.id = id}
  IN
  CASE e.type = "ActivityScheduled" ->
         [next EXCEPT !.pending =
            @ \cup {[id |-> next.version, activity |-> e.activity]}]
    [] e.type \in {"ActivityCompleted", "ActivityFailed"} ->
         [next EXCEPT !.pending = @ \ done(e.activityId),
                      !.completed = @ \cup done(e.activityId)]
    [] e.type \in {"WorkflowCompleted", "WorkflowFailed"} ->
         [next EXCEPT !.status = StatusOf(e)]
    [] e.type = "WorkflowCancelled" ->
         [next EXCEPT !.status = "cancelled", !.pending = {},
                      !.waits = {}, !.timers = {}]
    [] e.type = "TimerScheduled" -> [next EXCEPT !.timers = @ \cup {next.version}]
    [] e.type = "SignalWaitStarted" -> [next EXCEPT !.waits = @ \cup {e.signal}]
    [] e.type = "SignalReceived" -> [next EXCEPT !.waits = @ \ {e.signal}]
    [] OTHER -> next

-----------------------------------------------------------------------------
(* The replay loop of DefaultWorkflowEngine.replay, from the base state st *)
(* over the events of versions st.version + 1 .. v.  It is written as what *)
(* the loop computes, field by field, rather than as a recursion, so that  *)
(* it can be reasoned about: EngineReplay checks that it is the fold of    *)
(* ApplyEvent for short logs, RunStateProofs proves it for all.            *)

(* Drops as a slip in the code would have it: results of one kind, or the  *)
(* cancellation, do not remove the activity.  Such variants stand before   *)
(* the definitions they vary; no definition uses them, they show which     *)
(* property notices the slip.                                              *)
DropsOnSuccess(e, id) == e \in {ActivityCompleted(id), WorkflowCancelled}

Drops(e, id)   == e \in ResultsOf(id) \cup {WorkflowCancelled}
Answers(e, n)  == e \in {SignalReceived(n), WorkflowCancelled}

(* the activities the loop can see pending: those of the base state and    *)
(* those scheduled by the events applied *)
Seen(st, log, v) ==
  st.pending \cup
    {[id |-> i, activity |-> log[i].activity] :
       i \in {k \in st.version + 1 .. v : log[k].type = "ActivityScheduled"}}

StillPending(st, log, v, a) ==
  \A j \in st.version + 1 .. v : j > a.id => ~Drops(log[j], a.id)

(* the last event of st.version + 1 .. v that closes the run with type t *)
ClosedAs(st, log, v, t) ==
  \E i \in st.version + 1 .. v :
     /\ log[i].type = t
     /\ \A j \in i + 1 .. v : ~Closes(log[j])

ReplayStatus(st, log, v) ==
  IF ClosedAs(st, log, v, "WorkflowCompleted") THEN "completed"
  ELSE IF ClosedAs(st, log, v, "WorkflowFailed") THEN "failed"
  ELSE IF ClosedAs(st, log, v, "WorkflowCancelled") THEN "cancelled"
  ELSE st.status

ReplayPending(st, log, v) ==
  {a \in Seen(st, log, v) : StillPending(st, log, v, a)}

ReplayCompleted(st, log, v) ==
  st.completed \cup
    {a \in Seen(st, log, v) :
       \E j \in st.version + 1 .. v :
          /\ j > a.id
          /\ log[j] \in ResultsOf(a.id)
          /\ StillPending(st, log, j - 1, a)}

ReplayWaits(st, log, v) ==
  {n \in Signals :
     \E i \in st.version .. v :
        /\ IF i = st.version THEN n \in st.waits ELSE log[i] = SignalWaitStarted(n)
        /\ \A j \in i + 1 .. v : ~Answers(log[j], n)}

ReplayTimers(st, log, v) ==
  {i \in st.timers \cup {k \in st.version + 1 .. v : log[k] = TimerScheduled} :
     \A j \in st.version + 1 .. v : j > i => log[j] # WorkflowCancelled}

Replay(st, log, v) ==
  [version   |-> v,
   status    |-> ReplayStatus(st, log, v),
   pending   |-> ReplayPending(st, log, v),
   completed |-> ReplayCompleted(st, log, v),
   waits     |-> ReplayWaits(st, log, v),
   timers    |-> ReplayTimers(st, log, v)]

(* the state of a run at version v, by replay of its whole history *)
StateAt(log, v) == Replay(InitialState, log, v)
Current(log) == StateAt(log, Len(log))

-----------------------------------------------------------------------------
(* What a tick may record.  The definition is user code, so a tick is any  *)
(* sequence of calls of the ftn API; what each call may push depends on    *)
(* the rehydrated state st and on the history log[1 .. h] the tick read.   *)

(* only what is pending is found *)
SchedulablePending(st, a) ==
  a \in Retried \/ \A p \in st.pending : p.activity # a

(* ftn.activity: with an attempt it always schedules, otherwise it reuses  *)
(* a pending or completed activity of the same name and input *)
Schedulable(st, a) ==
  \/ a \in Retried
  \/ \A p \in st.pending \cup st.completed : p.activity # a

(* ftn.signal, when no received signal matches: hasSignalWaitRecorded *)
WaitRecorded(log, h, n) ==
  \E i \in 1 .. h :
     /\ log[i] = SignalWaitStarted(n)
     /\ \A j \in i + 1 .. h : log[j] # SignalReceived(n)

CallEvents(st, log, h) ==
  {e \in {ActivityScheduled(a) : a \in {x \in Activities : Schedulable(st, x)}}
         \cup {SignalWaitStarted(n) : n \in {x \in Signals : ~WaitRecorded(log, h, x)}}
         \cup {TimerScheduled, StepRecorded} : e.type \in Calls}

(* newDomainEvents of a tick, before the outcome of the definition: a wait *)
(* is recorded once even within the tick *)
Batches(st, log, h) ==
  {b \in UNION {[1 .. k -> CallEvents(st, log, h)] : k \in 0 .. MaxBatch} :
     \A i, j \in DOMAIN b :
        b[i] = b[j] /\ b[i].type = "SignalWaitStarted" => i = j}

(* the batch without a definition: only ChildWorkflow* events, found by    *)
(* polling the children before the definition runs *)
IsBookkeeping(b) == \A i \in DOMAIN b : b[i] = StepRecorded

(* what the definition did: suspended (WorkflowSuspendedError), returned,  *)
(* threw any other error, or could not be resolved from the catalog *)
Outcomes == {"suspended", "returned", "threw", "noDefinition"}

Recorded(b, outcome) ==
  IF outcome = "threw" THEN Append(b, WorkflowFailed) ELSE b

(* only the last event is looked at *)
CancelPendingLast(log, h) == log[h] = WorkflowCancelRequested

CancelPending(log, h) ==
  /\ \E i \in 1 .. h : log[i] = WorkflowCancelRequested
  /\ \A i \in 1 .. h : log[i] # WorkflowCancelled

(* the condition without its activities *)
NothingPendingNoActivities(st) ==
  st.status = "running" /\ st.timers = {} /\ st.waits = {}

(* the condition under which the runtime appends WorkflowCompleted *)
NothingPending(st) ==
  /\ st.status = "running"
  /\ st.pending = {}
  /\ st.timers = {}
  /\ st.waits = {}
=============================================================================
