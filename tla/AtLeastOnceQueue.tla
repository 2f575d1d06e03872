-------------------------- MODULE AtLeastOnceQueue --------------------------
(***************************************************************************)
(* What a TaskQueue (modules/task-queue.ts) promises its callers about     *)
(* tasks whose serialisation is unique: a task that was enqueued stays in  *)
(* the queue until a worker has handled it, it may be handled more than    *)
(* once, and it is never dropped unhandled.  RedisTaskQueue implements it. *)
(***************************************************************************)
CONSTANT Tasks

VARIABLES
  enqueued,  \* tasks ever enqueued
  held,      \* tasks the queue still holds, waiting or leased
  handled    \* tasks a worker has handled at least once

queueVars == <<enqueued, held, handled>>

QueueInit == enqueued = {} /\ held = {} /\ handled = {}

Put(t) ==
  /\ t \notin enqueued
  /\ enqueued' = enqueued \cup {t}
  /\ held' = held \cup {t}
  /\ handled' = handled

(* a redelivered task may be handled again after it has left the queue *)
Deliver(t) ==
  /\ t \in enqueued
  /\ handled' = handled \cup {t}
  /\ UNCHANGED <<enqueued, held>>

Drop(t) ==
  /\ t \in handled
  /\ held' = held \ {t}
  /\ UNCHANGED <<enqueued, handled>>

QueueNext == \E t \in Tasks : Put(t) \/ Deliver(t) \/ Drop(t)

QueueSpec == QueueInit /\ [][QueueNext]_queueVars
=============================================================================
