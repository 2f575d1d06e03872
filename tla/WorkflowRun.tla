----------------------------- MODULE WorkflowRun -----------------------------
(***************************************************************************)
(* One run executed by processes that share nothing but the event store,   *)
(* the snapshot store and the activity queue: workers that tick the run    *)
(* (WorkflowRuntime.runWorkflowTick), activity workers that record results *)
(* (ActivityWorker.handleTask, ActivityRuntime.handleResult) and API       *)
(* processes that record signals and cancellations (http/routes).  Every   *)
(* await of the code is a step boundary here; a process may crash at any   *)
(* of them and loses its local state.                                      *)
(*                                                                         *)
(* Which workflow task leads to which tick is left to WorkerLoop: here any *)
(* process may tick at any time, which the queue's at-least-once delivery  *)
(* and the self-polling of the workers allow.                              *)
(***************************************************************************)
EXTENDS SerialRun

CONSTANTS
  Procs,            \* processes, each doing one operation at a time
  Requests,         \* {"cancel"} where the API may cancel the run, else {}
  SnapshotInterval, \* config.snapshotInterval
  MaxVersion        \* bound on the length of the log

ASSUME SnapshotIntervalAssumption == SnapshotInterval \in Nat \ {0}

VARIABLES
  snapshot,    \* snapshot store: a RunState, or NoSnapshot
  tasks,       \* activity ids whose task is queued or leased
  deadLetters, \* activity ids whose task ended as a dead letter
  proc         \* local state of each process

vars == <<log, snapshot, tasks, deadLetters, proc>>

NoSnapshot == [version |-> 0]

Idle == [op |-> "idle"]

(* no base state when there is no snapshot *)
LoadedStateRaw == snapshot

(* rehydrateFromSnapshotBoundary and handleResult first load the latest    *)
(* snapshot; without one the replay starts from WorkflowStarted.           *)
LoadedState == IF snapshot = NoSnapshot THEN InitialState ELSE snapshot

(* An operation in progress, from its first await on.  st is the           *)
(* rehydrated state, base the version of the snapshot it started from      *)
(* (snapshotBaseVersion), seen the length of fullHistory, queue the        *)
(* activities whose task is still to be enqueued, outcome what the         *)
(* definition or the activity did, arg the activity id or signal name.     *)
Begin(op, arg, outcome) ==
  [op |-> op, pc |-> "loadEvents", arg |-> arg, st |-> LoadedState,
   base |-> snapshot.version, seen |-> 0, queue |-> {}, outcome |-> outcome]

Init ==
  /\ log = <<WorkflowStarted>>
  /\ snapshot = NoSnapshot
  /\ tasks = {}
  /\ deadLetters = {}
  /\ proc = [p \in Procs |-> Idle]

At(p, op, pc) == proc[p].op = op /\ proc[p].pc = pc

Goto(p, pc) == proc' = [proc EXCEPT ![p].pc = pc]

Finish(p) == proc' = [proc EXCEPT ![p] = Idle]

-----------------------------------------------------------------------------
(* an append without its version check *)
ConflictsNever(expected) == FALSE

(* EventStore.appendEvents: the version check and the insertion of all the *)
(* events are one step (a synchronous block in memory, a transaction under *)
(* an advisory lock in Postgres). *)
Conflicts(expected) == expected # Len(log)

Append_(expected, events) ==
  /\ ~Conflicts(expected)
  /\ Len(log) + Len(events) <= MaxVersion
  /\ log' = log \o events

(* An operation starts by reading the snapshot: a tick, the result of a    *)
(* delivered activity task (the activity has executed and succeeded or     *)
(* failed), a request to the API. *)
StartTick(p) ==
  /\ proc[p] = Idle
  /\ proc' = [proc EXCEPT ![p] = Begin("tick", 0, "none")]
  /\ UNCHANGED <<log, snapshot, tasks, deadLetters>>

StartActivity(p) ==
  /\ proc[p] = Idle
  /\ \E id \in tasks, outcome \in {"ok", "error"} :
       proc' = [proc EXCEPT ![p] = Begin("result", id, outcome)]
  /\ UNCHANGED <<log, snapshot, tasks, deadLetters>>

StartRequest(p) ==
  /\ proc[p] = Idle
  /\ \/ \E n \in Signals : proc' = [proc EXCEPT ![p] = Begin("signal", n, "none")]
     \/ /\ "cancel" \in Requests
        /\ proc' = [proc EXCEPT ![p] = Begin("cancel", 0, "none")]
  /\ UNCHANGED <<log, snapshot, tasks, deadLetters>>

(* the snapshot taken for the present, no event replayed over it *)
LoadEventsTrusting(p) ==
  /\ proc[p] # Idle /\ proc[p].pc = "loadEvents"
  /\ proc' = [proc EXCEPT
       ![p].st.version = Len(log),
       ![p].pc = IF proc[p].op = "tick" THEN "loadHistory" ELSE "append"]
  /\ UNCHANGED <<log, snapshot, tasks, deadLetters>>

(* second await: the events after the snapshot, replayed over it *)
LoadEvents(p) ==
  /\ proc[p] # Idle /\ proc[p].pc = "loadEvents"
  /\ proc' = [proc EXCEPT
       ![p].st = Replay(@, log, Len(log)),
       ![p].pc = IF proc[p].op = "tick" THEN "loadHistory" ELSE "append"]
  /\ UNCHANGED <<log, snapshot, tasks, deadLetters>>

(* runWorkflowTick reads the full history again; a run that is not running *)
(* any more ends the tick *)
LoadHistory(p) ==
  /\ proc[p] # Idle /\ At(p, "tick", "loadHistory")
  /\ IF proc[p].st.status # "running"
     THEN Finish(p)
     ELSE proc' = [proc EXCEPT ![p].seen = Len(log), ![p].pc = "append"]
  /\ UNCHANGED <<log, snapshot, tasks, deadLetters>>

(* an append at a version that is no longer the last: ConcurrencyError.    *)
(* A tick gives up (WorkflowWorker retries it later), a request answers an *)
(* error. *)
AppendConflict(p) ==
  /\ proc[p] # Idle
  /\ \/ proc[p].op \in {"tick", "signal", "cancel"} /\ proc[p].pc = "append"
     \/ At(p, "tick", "complete")
  /\ Conflicts(proc[p].st.version)
  /\ Finish(p)
  /\ UNCHANGED <<log, snapshot, tasks, deadLetters>>

(* the cancellation branch of runWorkflowTick *)
TickCancel(p) ==
  LET me == proc[p] IN
  /\ me # Idle /\ At(p, "tick", "append")
  /\ CancelPending(log, me.seen)
  /\ Append_(me.st.version, <<WorkflowCancelled>>)
  /\ Finish(p)
  /\ UNCHANGED <<snapshot, tasks, deadLetters>>

(* the definition runs on st and the history; what it recorded is appended *)
(* and applied to the state, and tasks are built for the activities it     *)
(* scheduled *)
TickExecute(p) ==
  LET me == proc[p] IN
  /\ me # Idle /\ At(p, "tick", "append")
  /\ ~CancelPending(log, me.seen)
  /\ \E b \in Batches(me.st, log, me.seen), outcome \in Outcomes :
       LET events == Recorded(b, outcome) IN
       /\ outcome = "noDefinition" => IsBookkeeping(b)
       /\ IF events = << >>
          THEN /\ proc' = [proc EXCEPT ![p].outcome = outcome,
                                       ![p].pc = "complete"]
               /\ log' = log
          ELSE /\ Append_(me.st.version, events)
               /\ proc' = [proc EXCEPT
                    ![p].st      = Replay(@, log', Len(log')),
                    ![p].queue   = {i \in Len(log) + 1 .. Len(log') :
                                      log'[i].type = "ActivityScheduled"},
                    ![p].outcome = outcome,
                    ![p].pc      = "enqueue"]
  /\ UNCHANGED <<snapshot, tasks, deadLetters>>

(* the tasks are enqueued one by one, in order, after the append *)
TickEnqueue(p) ==
  LET me == proc[p] IN
  /\ me # Idle /\ At(p, "tick", "enqueue")
  /\ IF me.queue = {}
     THEN Goto(p, "complete") /\ tasks' = tasks
     ELSE \E i \in me.queue :
            /\ \A j \in me.queue : i <= j
            /\ tasks' = tasks \cup {i}
            /\ proc' = [proc EXCEPT ![p].queue = @ \ {i}]
  /\ UNCHANGED <<log, snapshot, deadLetters>>

(* WorkflowCompleted is appended when the definition did not suspend and   *)
(* nothing is pending; without a definition that is an error *)
TickComplete(p) ==
  LET me == proc[p]
      done == me.outcome # "suspended" /\ NothingPending(me.st)
  IN
  /\ me # Idle /\ At(p, "tick", "complete")
  /\ \/ /\ ~done
        /\ Goto(p, "saveSnapshot")
        /\ log' = log
     \/ /\ done /\ me.outcome = "noDefinition"
        /\ Finish(p)
        /\ log' = log
     \/ /\ done /\ me.outcome # "noDefinition"
        /\ Append_(me.st.version, <<WorkflowCompleted>>)
        /\ proc' = [proc EXCEPT ![p].st = ApplyEvent(@, WorkflowCompleted),
                                ![p].pc = "saveSnapshot"]
  /\ UNCHANGED <<snapshot, tasks, deadLetters>>

(* a snapshot of the tick's state overwrites whatever snapshot is stored *)
TickSnapshot(p) ==
  LET me == proc[p] IN
  /\ me # Idle /\ At(p, "tick", "saveSnapshot")
  /\ snapshot' = IF me.st.version - me.base >= SnapshotInterval
                 THEN me.st ELSE snapshot
  /\ Finish(p)
  /\ UNCHANGED <<log, tasks, deadLetters>>

(* handleResult: an activity that is not pending is ignored *)
RecordResult(p) ==
  LET me == proc[p]
      pending == \E a \in me.st.pending : a.id = me.arg
  IN
  /\ me # Idle /\ At(p, "result", "append")
  /\ IF pending
     THEN Append_(me.st.version,
            IF me.outcome = "ok" THEN <<ActivityCompleted(me.arg)>>
                                 ELSE <<ActivityFailed(me.arg)>>)
     ELSE log' = log
  /\ Goto(p, "completeTask")
  /\ UNCHANGED <<snapshot, tasks, deadLetters>>

(* ConcurrencyError out of handleResult: handleTask's catch records the    *)
(* same activity as failed; a second conflict reaches ActivityQueueWorker, *)
(* which dead-letters the task before completing it *)
ResultConflict(p) ==
  LET me == proc[p] IN
  /\ me # Idle /\ At(p, "result", "append")
  /\ \E a \in me.st.pending : a.id = me.arg
  /\ Conflicts(me.st.version)
  /\ IF me.outcome = "ok"
     THEN /\ proc' = [proc EXCEPT ![p] = Begin("result", me.arg, "error")]
          /\ deadLetters' = deadLetters
     ELSE /\ Goto(p, "completeTask")
          /\ deadLetters' = deadLetters \cup {me.arg}
  /\ UNCHANGED <<log, snapshot, tasks>>

(* the task leaves the queue, unless its lease was recovered meanwhile: it *)
(* is then queued again and completeTask has no effect *)
CompleteTask(p) ==
  /\ proc[p] # Idle /\ At(p, "result", "completeTask")
  /\ tasks' \in {tasks, tasks \ {proc[p].arg}}
  /\ Finish(p)
  /\ UNCHANGED <<log, snapshot, deadLetters>>

(* POST .../signals: no check of the status *)
ReceiveSignal(p) ==
  /\ proc[p] # Idle /\ At(p, "signal", "append")
  /\ Append_(proc[p].st.version, <<SignalReceived(proc[p].arg)>>)
  /\ Finish(p)
  /\ UNCHANGED <<snapshot, tasks, deadLetters>>

(* POST .../cancel: 409 unless the rehydrated state is running *)
RequestCancel(p) ==
  /\ proc[p] # Idle /\ At(p, "cancel", "append")
  /\ IF proc[p].st.status = "running"
     THEN Append_(proc[p].st.version, <<WorkflowCancelRequested>>)
     ELSE log' = log
  /\ Finish(p)
  /\ UNCHANGED <<snapshot, tasks, deadLetters>>

(* a process dies between two awaits *)
Crash(p) ==
  /\ proc[p] # Idle
  /\ Finish(p)
  /\ UNCHANGED <<log, snapshot, tasks, deadLetters>>

Step(p) ==
  \/ StartTick(p) \/ StartActivity(p) \/ StartRequest(p)
  \/ LoadEvents(p) \/ LoadHistory(p)
  \/ AppendConflict(p)
  \/ TickCancel(p) \/ TickExecute(p) \/ TickEnqueue(p) \/ TickComplete(p)
  \/ TickSnapshot(p)
  \/ RecordResult(p) \/ ResultConflict(p) \/ CompleteTask(p)
  \/ ReceiveSignal(p) \/ RequestCancel(p)
  \/ Crash(p)

Next == \E p \in Procs : Step(p)

Spec == Init /\ [][Next]_vars

-----------------------------------------------------------------------------
Ops == {"tick", "result", "signal", "cancel"}

Pcs == {"loadEvents", "loadHistory", "append", "enqueue",
        "complete", "saveSnapshot", "completeTask"}

ProcState ==
  [op : Ops, pc : Pcs, arg : Nat \cup Signals, st : RunStates, base : Nat,
   seen : Nat, queue : SUBSET Nat, outcome : Outcomes \cup {"ok", "error", "none"}]

TypeOK ==
  /\ log \in Seq(Event) /\ Len(log) >= 1
  /\ snapshot \in RunStates \cup {NoSnapshot}
  /\ tasks \subseteq Nat
  /\ deadLetters \subseteq Nat
  /\ proc \in [Procs -> ProcState \cup {Idle}]

(* st is the state a replay of the whole history up to its version gives *)
Exact(st) == st.version \in DOMAIN log /\ st = StateAt(log, st.version)

(* Snapshot and replay agree (ENGINE_INVARIANTS 2): the stored snapshot    *)
(* and every state a process holds after rehydrating from a snapshot, or   *)
(* after applying what it appended, equal the replay of the whole history  *)
(* at the same version, however the writers of log and snapshot raced.     *)
RehydrationExact ==
  /\ snapshot = NoSnapshot \/ Exact(snapshot)
  /\ \A p \in Procs : proc[p] = Idle \/ Exact(proc[p].st)

(* A task is queued only for an activity the log has scheduled: no worker  *)
(* executes an activity of a tick that lost the race to append.            *)
TasksScheduled ==
  \A id \in tasks \cup deadLetters :
     id \in DOMAIN log /\ log[id].type = "ActivityScheduled"

(* What is held outside the log, by a process or the stores, is true of    *)
(* the log, at whichever await the others write to it.                     *)
HeldStateExact == RehydrationExact /\ TasksScheduled

(* The concurrent run behaves as the serial one: every append is one step  *)
(* of SerialRun, whose state is the log, and nothing else touches the log. *)
RefinesSerialRun == SerialSpec
=============================================================================
