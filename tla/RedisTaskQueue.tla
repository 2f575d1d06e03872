---------------------------- MODULE RedisTaskQueue ----------------------------
(***************************************************************************)
(* infra/redis-task-queue.ts for one queue name: a main list, a processing *)
(* list and two lease keys per leased task.  Every Redis command is one    *)
(* step (a pipeline is not a transaction, a script is), workers and        *)
(* recovery scans interleave between commands, a worker may crash between  *)
(* any two of them, and a lease key may expire at any time.                *)
(*                                                                         *)
(* A task stands for its JSON, taken to be unique: its id holds the run,   *)
(* the event or the time it was made for.  (A timer enqueued again and a   *)
(* dead letter put back have the JSON they had before.)  Of the value of   *)
(* a lease-data key only the age is kept: fresh until leasedAt is more     *)
(* than maxAgeMs ago, which any lease may reach.  A lease id is any one no *)
(* key and no process refers to.                                           *)
(***************************************************************************)
EXTENDS Integers, Sequences, SequencesExt

CONSTANTS
  Tasks,
  Workers,     \* callers of leaseNextTask and completeTask
  Scans,       \* recoverStaleProcessing calls that may overlap
  LeaseIds,    \* bounds the leases referred to at one time
  MaxCrashes,  \* bound on the worker crashes
  None         \* no lease

ASSUME NoneAssumption == None \notin LeaseIds \cup Tasks
ASSUME MaxCrashesAssumption == MaxCrashes \in Nat

VARIABLES
  main,         \* the list prefix:queue:name
  processing,   \* the list prefix:queue:name:processing
  leaseData,    \* prefix:lease:<leaseId>: absent, fresh or stale
  leaseByTask,  \* prefix:lease:bytask:<taskId>, a lease id or None
  worker,       \* local state of each worker
  scan,         \* local state of each recovery scan
  enqueued,     \* tasks ever enqueued
  handled,      \* tasks a worker has handled
  crashes

lists == <<main, processing>>
leases == <<leaseData, leaseByTask>>
vars == <<main, processing, leaseData, leaseByTask, worker, scan, enqueued,
          handled, crashes>>

NoWork == [pc |-> "idle", task |-> None, lease |-> None]
NoScan == [pc |-> "idle", items |-> << >>, ref |-> None]

Init ==
  /\ main = << >> /\ processing = << >>
  /\ leaseData = [l \in LeaseIds |-> "absent"]
  /\ leaseByTask = [t \in Tasks |-> None]
  /\ worker = [w \in Workers |-> NoWork]
  /\ scan = [s \in Scans |-> NoScan]
  /\ enqueued = {} /\ handled = {}
  /\ crashes = 0

Referenced ==
  {l \in LeaseIds :
     \/ leaseData[l] # "absent"
     \/ \E t \in Tasks : leaseByTask[t] = l
     \/ \E w \in Workers : worker[w].lease = l
     \/ \E s \in Scans : scan[s].ref = l}

NewLease == CHOOSE l \in LeaseIds : l \notin Referenced

Goto(w, pc) == worker' = [worker EXCEPT ![w].pc = pc]

-----------------------------------------------------------------------------
(* enqueue *)
Enqueue(t) ==
  /\ t \notin enqueued
  /\ main' = Append(main, t)
  /\ enqueued' = enqueued \cup {t}
  /\ UNCHANGED <<processing, leases, worker, scan, handled, crashes>>

(* leaseNextTask: LMOVE, then SET of the lease data, then SET of the       *)
(* pointer from the task to the lease *)
MoveToProcessing(w) ==
  /\ worker[w].pc = "idle"
  /\ main # << >>
  /\ main' = Tail(main)
  /\ processing' = Append(processing, Head(main))
  /\ worker' = [worker EXCEPT ![w] =
                  [pc |-> "moved", task |-> Head(main), lease |-> None]]
  /\ UNCHANGED <<leases, scan, enqueued, handled, crashes>>

SetLeaseData(w) ==
  /\ worker[w].pc = "moved"
  /\ Referenced # LeaseIds
  /\ leaseData' = [leaseData EXCEPT ![NewLease] = "fresh"]
  /\ worker' = [worker EXCEPT ![w].pc = "dataSet", ![w].lease = NewLease]
  /\ UNCHANGED <<lists, leaseByTask, scan, enqueued, handled, crashes>>

SetLeaseByTask(w) ==
  /\ worker[w].pc = "dataSet"
  /\ leaseByTask' = [leaseByTask EXCEPT ![worker[w].task] = worker[w].lease]
  /\ Goto(w, "leased")
  /\ UNCHANGED <<lists, leaseData, scan, enqueued, handled, crashes>>

(* the caller's work on the task it was given *)
Handle(w) ==
  /\ worker[w].pc = "leased"
  /\ handled' = handled \cup {worker[w].task}
  /\ Goto(w, "handled")
  /\ UNCHANGED <<lists, leases, scan, enqueued, crashes>>

(* completeTask: GET of the lease data, LREM and DEL.  Nothing is removed  *)
(* when the lease is gone. *)
GetLease(w) ==
  /\ worker[w].pc = "handled"
  /\ worker' = [worker EXCEPT ![w] =
                  IF leaseData[worker[w].lease] = "absent" THEN NoWork
                  ELSE [@ EXCEPT !.pc = "removing"]]
  /\ UNCHANGED <<lists, leases, scan, enqueued, handled, crashes>>

RemoveProcessed(w) ==
  /\ worker[w].pc = "removing"
  /\ processing' = RemoveFirst(processing, worker[w].task)
  /\ Goto(w, "deleting")
  /\ UNCHANGED <<main, leases, scan, enqueued, handled, crashes>>

DeleteLease(w) ==
  /\ worker[w].pc = "deleting"
  /\ leaseData' = [leaseData EXCEPT ![worker[w].lease] = "absent"]
  /\ leaseByTask' = [leaseByTask EXCEPT ![worker[w].task] = None]
  /\ worker' = [worker EXCEPT ![w] = NoWork]
  /\ UNCHANGED <<lists, scan, enqueued, handled, crashes>>

Crash(w) ==
  /\ worker[w].pc # "idle"
  /\ crashes < MaxCrashes
  /\ crashes' = crashes + 1
  /\ worker' = [worker EXCEPT ![w] = NoWork]
  /\ UNCHANGED <<lists, leases, scan, enqueued, handled>>

-----------------------------------------------------------------------------
(* recoverStaleProcessing: LRANGE, then for each item GET of the pointer,  *)
(* GET of the lease data and, if it must be recovered, the script of       *)
(* moveProcessingTaskToMainQueue. *)
ScanFrom(s, items) ==
  scan' = [scan EXCEPT ![s] =
             IF items = << >> THEN NoScan
             ELSE [pc |-> "byTask", items |-> items, ref |-> None]]

ListProcessing(s) ==
  /\ scan[s].pc = "idle"
  /\ processing # << >>
  /\ ScanFrom(s, processing)
  /\ UNCHANGED <<lists, leases, worker, enqueued, handled, crashes>>

(* a scan that leaves alone the tasks that have no lease *)
GetLeaseByTaskOnlyLeased(s) ==
  /\ scan[s].pc = "byTask"
  /\ LET ref == leaseByTask[Head(scan[s].items)] IN
     IF ref = None THEN ScanFrom(s, Tail(scan[s].items))
     ELSE scan' = [scan EXCEPT ![s].ref = ref, ![s].pc = "data"]
  /\ UNCHANGED <<lists, leases, worker, enqueued, handled, crashes>>

GetLeaseByTask(s) ==
  /\ scan[s].pc = "byTask"
  /\ LET ref == leaseByTask[Head(scan[s].items)] IN
     scan' = [scan EXCEPT ![s].ref = ref,
                          ![s].pc = IF ref = None THEN "move" ELSE "data"]
  /\ UNCHANGED <<lists, leases, worker, enqueued, handled, crashes>>

GetLeaseData(s) ==
  /\ scan[s].pc = "data"
  /\ IF leaseData[scan[s].ref] \in {"absent", "stale"}
     THEN scan' = [scan EXCEPT ![s].pc = "move"]
     ELSE ScanFrom(s, Tail(scan[s].items))
  /\ UNCHANGED <<lists, leases, worker, enqueued, handled, crashes>>

(* the script without its test that LREM removed something *)
MoveBackUnchecked(s) ==
  LET t == Head(scan[s].items) IN
  /\ scan[s].pc = "move"
  /\ processing' = RemoveFirst(processing, t)
  /\ main' = IF Contains(main, t) THEN main ELSE Append(main, t)
  /\ ScanFrom(s, Tail(scan[s].items))
  /\ UNCHANGED <<leases, worker, enqueued, handled, crashes>>

(* the script without its LREM *)
MoveBackUnremoved(s) ==
  LET t == Head(scan[s].items) IN
  /\ scan[s].pc = "move"
  /\ main' = IF Contains(processing, t) /\ ~Contains(main, t)
             THEN Append(main, t) ELSE main
  /\ ScanFrom(s, Tail(scan[s].items))
  /\ UNCHANGED <<processing, leases, worker, enqueued, handled, crashes>>

(* the script: only a task still in processing goes back to main, unless   *)
(* main already has it; the lease keys go if a lease was found.            *)
MoveBack(s) ==
  LET t == Head(scan[s].items)
      ref == scan[s].ref
      moved == Contains(processing, t)
      clear == moved /\ ref # None
  IN
  /\ scan[s].pc = "move"
  /\ processing' = RemoveFirst(processing, t)
  /\ main' = IF moved /\ ~Contains(main, t) THEN Append(main, t) ELSE main
  /\ leaseData' = IF clear THEN [leaseData EXCEPT ![ref] = "absent"] ELSE leaseData
  /\ leaseByTask' = IF clear THEN [leaseByTask EXCEPT ![t] = None] ELSE leaseByTask
  /\ ScanFrom(s, Tail(scan[s].items))
  /\ UNCHANGED <<worker, enqueued, handled, crashes>>

-----------------------------------------------------------------------------
(* time passes: a lease gets older than maxAgeMs, a key reaches its expiry *)
Age(l) ==
  /\ leaseData[l] = "fresh"
  /\ leaseData' = [leaseData EXCEPT ![l] = "stale"]
  /\ UNCHANGED <<lists, leaseByTask, worker, scan, enqueued, handled, crashes>>

ExpireData(l) ==
  /\ leaseData[l] # "absent"
  /\ leaseData' = [leaseData EXCEPT ![l] = "absent"]
  /\ UNCHANGED <<lists, leaseByTask, worker, scan, enqueued, handled, crashes>>

ExpireByTask(t) ==
  /\ leaseByTask[t] # None
  /\ leaseByTask' = [leaseByTask EXCEPT ![t] = None]
  /\ UNCHANGED <<lists, leaseData, worker, scan, enqueued, handled, crashes>>

WorkerStep(w) ==
  \/ MoveToProcessing(w) \/ SetLeaseData(w) \/ SetLeaseByTask(w)
  \/ Handle(w)
  \/ GetLease(w) \/ RemoveProcessed(w) \/ DeleteLease(w)

ScanStep(s) ==
  ListProcessing(s) \/ GetLeaseByTask(s) \/ GetLeaseData(s) \/ MoveBack(s)

Next ==
  \/ \E t \in Tasks : Enqueue(t) \/ ExpireByTask(t)
  \/ \E w \in Workers : WorkerStep(w) \/ Crash(w)
  \/ \E s \in Scans : ScanStep(s)
  \/ \E l \in LeaseIds : Age(l) \/ ExpireData(l)

Spec == Init /\ [][Next]_vars

(* Workers poll, recovery runs at an interval and leases get old: all of   *)
(* these go on for ever.  Nothing is assumed of enqueues, of crashes or of *)
(* the expiry of keys. *)
Fairness ==
  /\ \A w \in Workers : WF_vars(WorkerStep(w))
  /\ \A s \in Scans : WF_vars(ScanStep(s))
  /\ \A l \in LeaseIds : WF_vars(Age(l))

FairSpec == Spec /\ Fairness

-----------------------------------------------------------------------------
WorkerPcs == {"idle", "moved", "dataSet", "leased", "handled", "removing", "deleting"}
ScanPcs == {"idle", "byTask", "data", "move"}

TypeOK ==
  /\ main \in Seq(Tasks) /\ processing \in Seq(Tasks)
  /\ leaseData \in [LeaseIds -> {"absent", "fresh", "stale"}]
  /\ leaseByTask \in [Tasks -> LeaseIds \cup {None}]
  /\ worker \in [Workers -> [pc : WorkerPcs, task : Tasks \cup {None},
                             lease : LeaseIds \cup {None}]]
  /\ scan \in [Scans -> [pc : ScanPcs, items : Seq(Tasks),
                         ref : LeaseIds \cup {None}]]
  /\ enqueued \subseteq Tasks /\ handled \subseteq enqueued
  /\ crashes \in 0 .. MaxCrashes

(* A task is never in the queue twice, although recovery scans overlap     *)
(* with each other, with the workers they take tasks from and with those   *)
(* workers' late completions: LMOVE, LREM and the script each move it as   *)
(* one command.                                                            *)
OneCopy ==
  /\ \A i, j \in DOMAIN main : main[i] = main[j] => i = j
  /\ \A i, j \in DOMAIN processing : processing[i] = processing[j] => i = j
  /\ \A i \in DOMAIN main, j \in DOMAIN processing : main[i] # processing[j]

Held == ToSet(main) \cup ToSet(processing)

(* The queue is an at-least-once queue: a task leaves it only after it was *)
(* handled, whichever worker crashed and whichever scan took it back.      *)
Abstract == INSTANCE AtLeastOnceQueue WITH held <- Held

ImplementsAtLeastOnce == Abstract!QueueSpec

(* Every task that was enqueued is eventually handled: workers may crash   *)
(* while they hold it and lease keys may be lost, recovery brings it back. *)
EventuallyHandled == \A t \in Tasks : t \in enqueued ~> t \in handled
=============================================================================
