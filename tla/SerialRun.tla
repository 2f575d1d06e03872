------------------------------ MODULE SerialRun ------------------------------
(***************************************************************************)
(* What the runtime promises about one run: although workers rehydrate     *)
(* from a snapshot, execute the definition and append at an expected       *)
(* version without holding any lock, the log grows as if every tick,       *)
(* activity result, signal and cancellation read the head of the log and   *)
(* appended to it in one step.  WorkflowRun is shown to implement this.    *)
(***************************************************************************)
EXTENDS RunState

VARIABLE log   \* the events of the run, by version

(* a start that only registers the definition in memory *)
SerialInitEmpty == log = << >>

SerialInit == log = <<WorkflowStarted>>

Record(events) == events # << >> /\ log' = log \o events

(* a tick that executes the definition *)
SerialTick ==
  LET st == Current(log) IN
  /\ st.status = "running"
  /\ ~CancelPending(log, Len(log))
  /\ \E b \in Batches(st, log, Len(log)), outcome \in Outcomes :
        /\ outcome = "noDefinition" => IsBookkeeping(b)
        /\ Record(Recorded(b, outcome))

(* a tick that finds nothing left to do *)
SerialComplete ==
  /\ NothingPending(Current(log))
  /\ ~CancelPending(log, Len(log))
  /\ Record(<<WorkflowCompleted>>)

(* a tick that finds a cancellation request *)
SerialCancel ==
  /\ Current(log).status = "running"
  /\ CancelPending(log, Len(log))
  /\ Record(<<WorkflowCancelled>>)

SerialResult ==
  \E a \in Current(log).pending :
     Record(<<ActivityCompleted(a.id)>>) \/ Record(<<ActivityFailed(a.id)>>)

SerialSignal == \E n \in Signals : Record(<<SignalReceived(n)>>)

SerialCancelRequest ==
  Current(log).status = "running" /\ Record(<<WorkflowCancelRequested>>)

SerialNext ==
  SerialTick \/ SerialComplete \/ SerialCancel
    \/ SerialResult \/ SerialSignal \/ SerialCancelRequest

SerialSpec == SerialInit /\ [][SerialNext]_log

-----------------------------------------------------------------------------
LogTypeOK == log \in Seq(Event) /\ Len(log) >= 1

(* A run is closed once: WorkflowCompleted, WorkflowFailed and             *)
(* WorkflowCancelled exclude each other and none is recorded twice, however *)
(* many workers tick the run (ENGINE_INVARIANTS 3).                        *)
ClosedOnce ==
  \A i, j \in DOMAIN log : Closes(log[i]) /\ Closes(log[j]) => i = j

(* Once a cancellation has been accepted, the run can only end cancelled:  *)
(* no later tick completes it, fails it or records another step of it.     *)
CancelWins ==
  \A i, j \in DOMAIN log :
     log[i] = WorkflowCancelRequested /\ i < j =>
       \/ log[j] \in {WorkflowCancelRequested, WorkflowCancelled}
       \/ log[j].type \in {"ActivityCompleted", "ActivityFailed", "SignalReceived"}

(* A closed run starts no more work: after the closing event only results  *)
(* of activities already scheduled and late signals are recorded.          *)
QuietAfterClose ==
  \A i, j \in DOMAIN log :
     Closes(log[i]) /\ i < j =>
       log[j].type \in {"ActivityCompleted", "ActivityFailed", "SignalReceived"}

(* An activity result is recorded at most once, and only for an activity   *)
(* scheduled before it, although tasks are delivered more than once.       *)
ResultOnce ==
  \A i \in DOMAIN log :
     log[i].type \in {"ActivityCompleted", "ActivityFailed"} =>
       /\ log[i].activityId \in 1 .. i - 1
       /\ log[log[i].activityId].type = "ActivityScheduled"
       /\ \A j \in 1 .. i - 1 : log[j] \notin ResultsOf(log[i].activityId)

(* A run that completed left nothing behind: every activity it scheduled   *)
(* has its result before the run closes.                                   *)
CompletedClean ==
  \A i \in DOMAIN log : log[i] = WorkflowCompleted =>
     \A k \in 1 .. i - 1 : log[k].type = "ActivityScheduled" =>
        \E j \in k + 1 .. i - 1 : log[j] \in ResultsOf(k)

(* A cancelled run has nothing pending, then or later (ENGINE_INVARIANTS 4: *)
(* cancelling clears activities, timers and signal waits).                 *)
CancelledClean ==
  \A v \in DOMAIN log :
     LET st == StateAt(log, v) IN
     st.status = "cancelled" => st.pending = {} /\ st.waits = {} /\ st.timers = {}

(* An activity called without an attempt number is never scheduled by a    *)
(* tick once an earlier tick has scheduled it: the deduplication by name   *)
(* and input survives concurrent ticks and replay from a snapshot.         *)
ScheduledOnce ==
  [][\A a \in Activities \ Retried :
       (\E i \in DOMAIN log : log[i] = ActivityScheduled(a)) =>
         \A j \in Len(log) + 1 .. Len(log') : log'[j] # ActivityScheduled(a)]_log

(* A run that has ended, or is about to be cancelled, cannot be revived:   *)
(* it closes once, nothing is done after it, and a cancellation wins.      *)
ClosesForGood == ClosedOnce /\ QuietAfterClose /\ CancelWins

(* Every activity is accounted for: one result each, and none is left      *)
(* behind by a run that has completed or was cancelled.                    *)
WorkAccounted == ResultOnce /\ CompletedClean /\ CancelledClean
=============================================================================
