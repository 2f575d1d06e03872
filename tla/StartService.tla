---------------------------- MODULE StartService ----------------------------
(***************************************************************************)
(* How runs come to be, and what becomes of the tasks that are given up.   *)
(*                                                                         *)
(* A request for a run is answered await by await: POST /workflows, with   *)
(* its idempotency key and the quota of its tenant; a trigger, with        *)
(* neither; the requests that put a given-up task back into the queue.     *)
(* Several server processes share the event store and the queue (Redis),   *)
(* each has idempotency keys and dead letters of its own, in memory.       *)
(*                                                                         *)
(* What a tick does is WorkerLoop's matter: here a worker leases the task  *)
(* of a run and either ends the run or gives the task up.  A request that  *)
(* is refused before its first await (no name, an invalid input) changes   *)
(* nothing and is left out.                                                *)
(***************************************************************************)
EXTENDS Integers, Sequences, FiniteSets

CONSTANTS
  Servers,      \* server processes
  Handlers,     \* requests that are answered at the same time
  Keys,         \* Idempotency-Key headers
  Inputs,       \* names and inputs of the runs asked for
  Tenants,      \* tenants of the requests
  None,         \* no key, no tenant
  Quota,        \* config.tenantMaxConcurrentRuns
  Capacity,     \* config.deadLetterMaxItems
  MaxRuns,      \* bound on the runs started
  Scenarios     \* what a behaviour is about: the servers that run, the keys, inputs
                \* and tenants of its requests, whether triggers come, and bounds on the runs, on the
                \* tasks given up, and on the crashes, errors and expiries

ASSUME QuotaAssumption == Quota \in Nat \ {0} /\ Capacity \in Nat \ {0}
ASSUME ScenariosAssumption ==
  /\ MaxRuns \in Nat
  /\ \A x \in Scenarios :
       /\ x.servers \subseteq Servers /\ x.keys \subseteq Keys \cup {None}
       /\ x.inputs \subseteq Inputs /\ x.tenants \subseteq Tenants \cup {None}
       /\ x.runs \in 0 .. MaxRuns /\ x.givenUp \in Nat /\ x.forgets \in Nat
       /\ x.triggers \in BOOLEAN
ASSUME HandlersAssumption ==
  Handlers # {} /\ IsFiniteSet(Handlers) /\ IsFiniteSet(Servers)
ASSUME NoneAssumption == None \notin Keys /\ None \notin Tenants

VARIABLES
  scenario,    \* the scenario, fixed
  runs,        \* the runs of the event store, in the order of their starts
  memory,      \* idempotencyStore of each server
  handler,     \* what each request does
  queue,       \* copies of the task of each run that are ready
  worker,      \* the task each server's worker holds
  deadLetters, \* deadLetters of each server, newest first
  givenUp,     \* tasks given up so far
  forgotten,   \* runs whose dead letter has left the memory it was in
  forgets      \* crashes, errors and expiries so far

vars == <<scenario, runs, memory, handler, queue, worker, deadLetters, givenUp, forgotten, forgets>>

Run == [tenant : Tenants \cup {None}, key : Keys \cup {None}, input : Inputs,
        counted : BOOLEAN, status : {"running", "ended"}, answered : BOOLEAN]
Entry == [id : Nat \ {0}, run : 1 .. MaxRuns, puts : Nat,
          requeued : BOOLEAN, acknowledged : BOOLEAN]
Hit == [run : 1 .. MaxRuns, tenant : Tenants \cup {None}, input : Inputs, fresh : BOOLEAN]

Idle == [pc |-> "idle"]
Free == [pc |-> "free"]
NoHit == [run |-> 0]

Ids == DOMAIN runs
Running(r) == runs[r].status = "running"
At(h) == handler[h].pc
Goes(h, pc) == handler' = [handler EXCEPT ![h].pc = pc]

Init ==
  /\ scenario \in Scenarios
  /\ runs = << >>
  /\ memory = [s \in Servers |-> [k \in Keys |-> NoHit]]
  /\ handler = [h \in Handlers |-> Idle]
  /\ queue = [r \in 1 .. MaxRuns |-> 0]
  /\ worker = [s \in Servers |-> Free]
  /\ deadLetters = [s \in Servers |-> << >>]
  /\ givenUp = 0 /\ forgotten = {} /\ forgets = 0

-----------------------------------------------------------------------------
(* A request for a run is accepted: until its first await nothing else     *)
(* happens in its process. *)
Accept(h, s, k, i, t, first) ==
  handler' = [handler EXCEPT ![h] =
    [pc |-> first, at |-> s, key |-> k, input |-> i, tenant |-> t,
     counted |-> TRUE, left |-> {}, found |-> 0, run |-> 0]]

(* the comparison without its last line *)
SamePayloadNoTenant(hit, i, t) == hit.input = i

SamePayload(hit, i, t) == hit.input = i /\ hit.tenant = t

(* getIdempotentWorkflowStart: an entry whose time has run out is no hit *)
Live(hit) == hit # NoHit /\ hit.fresh

(* POST /workflows: the key is looked up, an expired entry is deleted, the *)
(* answer of a live one repeated or refused.  Without a key this is also   *)
(* how the designer and its scheduler start runs. *)
Post(h) ==
  /\ At(h) = "idle"
  /\ \E s \in scenario.servers, k \in scenario.keys,
        i \in scenario.inputs, t \in scenario.tenants :
       LET hit == IF k = None THEN NoHit ELSE memory[s][k] IN
       IF Live(hit)
       THEN /\ SamePayload(hit, i, t)      \* otherwise 409
            /\ handler' = [handler EXCEPT ![h] =
                 [pc |-> "replied", at |-> s, key |-> k, input |-> i, tenant |-> t, run |-> hit.run]]
            /\ UNCHANGED memory
       ELSE /\ Accept(h, s, k, i, t, IF t = None THEN "start" ELSE "list")
            /\ memory' = IF k = None THEN memory ELSE [memory EXCEPT ![s][k] = NoHit]
  /\ UNCHANGED <<scenario, runs, queue, worker, deadLetters, givenUp, forgotten, forgets>>

(* An HTTP trigger starts its run at once: no key, no quota, though its    *)
(* run counts for the quota of others. *)
Trigger(h) ==
  /\ At(h) = "idle" /\ scenario.triggers
  /\ \E s \in scenario.servers, i \in scenario.inputs, t \in scenario.tenants :
       handler' = [handler EXCEPT ![h] =
         [pc |-> "start", at |-> s, key |-> None, input |-> i, tenant |-> t,
          counted |-> FALSE, left |-> {}, found |-> 0, run |-> 0]]
  /\ UNCHANGED <<scenario, runs, memory, queue, worker, deadLetters, givenUp, forgotten, forgets>>

(* countRunningRunsForTenant: the keys of all runs are listed ... *)
List(h) ==
  /\ At(h) = "list"
  /\ handler' = [handler EXCEPT ![h].left = Ids, ![h].pc = "count"]
  /\ UNCHANGED <<scenario, runs, memory, queue, worker, deadLetters, givenUp, forgotten, forgets>>

(* ... and the state of each is loaded, one after the other *)
Count(h) ==
  /\ At(h) = "count"
  /\ \E r \in handler[h].left :
       handler' = [handler EXCEPT ![h].left = @ \ {r},
         ![h].found = IF Running(r) /\ runs[r].tenant = handler[h].tenant THEN @ + 1 ELSE @]
  /\ UNCHANGED <<scenario, runs, memory, queue, worker, deadLetters, givenUp, forgotten, forgets>>

(* the quota compared with > *)
WithinQuotaOffByOne(h) == handler[h].tenant = None \/ handler[h].found <= Quota

WithinQuota(h) == handler[h].tenant = None \/ handler[h].found < Quota

(* the quota is exceeded: 400 *)
Refuse(h) ==
  /\ At(h) = "count" /\ handler[h].left = {}
  /\ ~WithinQuota(h)
  /\ handler' = [handler EXCEPT ![h] = Idle]
  /\ UNCHANGED <<scenario, runs, memory, queue, worker, deadLetters, givenUp, forgotten, forgets>>

(* runtime.startWorkflow appends WorkflowStarted to a new stream *)
Start(h) ==
  /\ \/ At(h) = "start"
     \/ At(h) = "count" /\ handler[h].left = {} /\ WithinQuota(h)
  /\ Len(runs) < scenario.runs
  /\ runs' = Append(runs, [tenant |-> handler[h].tenant, key |-> handler[h].key,
                           input |-> handler[h].input, counted |-> handler[h].counted,
                           status |-> "running", answered |-> FALSE])
  /\ handler' = [handler EXCEPT ![h].pc = "enqueue", ![h].run = Len(runs) + 1,
                                ![h].left = {}, ![h].found = 0]
  /\ UNCHANGED <<scenario, memory, queue, worker, deadLetters, givenUp, forgotten, forgets>>

(* the answer is not saved under its key *)
SaveNothing(h) == memory

Save(h) ==
  LET q == handler[h] IN
  IF q.key = None THEN memory
  ELSE [memory EXCEPT ![q.at][q.key] =
          [run |-> q.run, tenant |-> q.tenant, input |-> q.input, fresh |-> TRUE]]

(* the task of the run is enqueued; what follows, up to the answer, is one *)
(* step of the process, a save that overwrites what is there included      *)
Enqueue(h) ==
  /\ At(h) = "enqueue"
  /\ LET r == handler[h].run IN
       /\ queue' = [queue EXCEPT ![r] = @ + 1]
       /\ runs' = [runs EXCEPT ![r].answered = TRUE]
       /\ memory' = Save(h)
       /\ handler' = [handler EXCEPT ![h] =
            [pc |-> "replied", at |-> @.at, key |-> @.key, input |-> @.input,
             tenant |-> @.tenant, run |-> r]]
  /\ UNCHANGED <<scenario, worker, deadLetters, givenUp, forgotten, forgets>>

Reply(h) ==
  /\ At(h) = "replied"
  /\ handler' = [handler EXCEPT ![h] = Idle]
  /\ UNCHANGED <<scenario, runs, memory, queue, worker, deadLetters, givenUp, forgotten, forgets>>

-----------------------------------------------------------------------------
(* a worker leases the task of a run *)
Lease(s) ==
  /\ worker[s] = Free
  /\ \E r \in Ids :
       /\ queue[r] > 0
       /\ queue' = [queue EXCEPT ![r] = @ - 1]
       /\ worker' = [worker EXCEPT ![s] = [pc |-> "tick", run |-> r]]
  /\ UNCHANGED <<scenario, runs, memory, handler, deadLetters, givenUp, forgotten, forgets>>

(* the ticks of the run lead to its end; a run that has ended is left alone *)
Tick(s) ==
  /\ worker[s].pc = "tick"
  /\ runs' = [runs EXCEPT ![worker[s].run].status = "ended"]
  /\ worker' = [worker EXCEPT ![s].pc = "complete"]
  /\ UNCHANGED <<scenario, memory, handler, queue, deadLetters, givenUp, forgotten, forgets>>

Cut(list) == IF Len(list) > Capacity THEN SubSeq(list, 1, Capacity) ELSE list

(* runs whose entry, not put back yet, is in one list and not in the other *)
Dropped(list, kept) ==
  {list[i].run : i \in {j \in DOMAIN list :
     ~list[j].requeued /\ \A l \in DOMAIN kept : kept[l].id # list[j].id}}

(* the tick fails, or its retries run out: addDeadLetter puts the task in  *)
(* front of the list and cuts the list at its limit *)
GiveUp(s) ==
  LET entry == [id |-> givenUp + 1, run |-> worker[s].run, puts |-> 0,
                requeued |-> FALSE, acknowledged |-> FALSE]
      full == <<entry>> \o deadLetters[s]
  IN
  /\ worker[s].pc = "tick"
  /\ givenUp < scenario.givenUp
  /\ givenUp' = givenUp + 1
  /\ deadLetters' = [deadLetters EXCEPT ![s] = Cut(full)]
  /\ forgotten' = forgotten \cup Dropped(deadLetters[s], Cut(full))
  /\ worker' = [worker EXCEPT ![s].pc = "complete"]
  /\ UNCHANGED <<scenario, runs, memory, handler, queue, forgets>>

(* completeTask *)
Complete(s) ==
  /\ worker[s].pc = "complete"
  /\ worker' = [worker EXCEPT ![s] = Free]
  /\ UNCHANGED <<scenario, runs, memory, handler, queue, deadLetters, givenUp, forgotten, forgets>>

-----------------------------------------------------------------------------

Requeueable(entry) == ~entry.requeued

(* POST /dead-letters/:id/requeue: an entry that was put back is refused   *)
Requeue(h) ==
  /\ At(h) = "idle"
  /\ \E s \in Servers : \E i \in DOMAIN deadLetters[s] :
       /\ Requeueable(deadLetters[s][i])
       /\ handler' = [handler EXCEPT ![h] =
            [pc |-> "put", at |-> s, id |-> deadLetters[s][i].id, run |-> deadLetters[s][i].run]]
  /\ UNCHANGED <<scenario, runs, memory, queue, worker, deadLetters, givenUp, forgotten, forgets>>

(* the entry with this id, wherever it is by now *)
Marked(list, id, mark) ==
  [i \in DOMAIN list |-> IF list[i].id = id THEN mark[i] ELSE list[i]]

(* ... with one more task enqueued for it *)
PutAgain(list) == [i \in DOMAIN list |-> [list[i] EXCEPT !.puts = @ + 1]]

(* ... and put back: requeuedAt is set *)
Requeued(list) == [i \in DOMAIN list |-> [list[i] EXCEPT !.requeued = TRUE]]

(* the entry is marked and its task is not enqueued *)
RequeuePutForgotten(h) ==
  /\ At(h) = "put"
  /\ deadLetters' = [deadLetters EXCEPT ![handler[h].at] =
       Marked(@, handler[h].id, Requeued(PutAgain(@)))]
  /\ Goes(h, "mark")
  /\ UNCHANGED <<scenario, runs, memory, queue, worker, givenUp, forgotten, forgets>>

(* its task is enqueued ... *)
RequeuePut(h) ==
  /\ At(h) = "put"
  /\ queue' = [queue EXCEPT ![handler[h].run] = @ + 1]
  /\ deadLetters' = [deadLetters EXCEPT ![handler[h].at] =
       Marked(@, handler[h].id, PutAgain(@))]
  /\ Goes(h, "mark")
  /\ UNCHANGED <<scenario, runs, memory, worker, givenUp, forgotten, forgets>>

(* ... and the entry, if the list still has it, is marked *)
RequeueMark(h) ==
  /\ At(h) = "mark"
  /\ deadLetters' = [deadLetters EXCEPT ![handler[h].at] =
       Marked(@, handler[h].id, Requeued(@))]
  /\ handler' = [handler EXCEPT ![h] = Idle]
  /\ UNCHANGED <<scenario, runs, memory, queue, worker, givenUp, forgotten, forgets>>

(* POST /dead-letters/:id/ack, once per entry *)
Acknowledge(s) ==
  /\ \E i \in DOMAIN deadLetters[s] :
       /\ ~deadLetters[s][i].acknowledged
       /\ deadLetters' = [deadLetters EXCEPT ![s][i].acknowledged = TRUE]
  /\ UNCHANGED <<scenario, runs, memory, handler, queue, worker, givenUp, forgotten, forgets>>

-----------------------------------------------------------------------------
Forgets == forgets < scenario.forgets /\ forgets' = forgets + 1

(* the time of an idempotency key runs out *)
Expire(s) ==
  /\ Forgets
  /\ \E k \in Keys : /\ Live(memory[s][k])
                     /\ memory' = [memory EXCEPT ![s][k].fresh = FALSE]
  /\ UNCHANGED <<scenario, runs, handler, queue, worker, deadLetters, givenUp, forgotten>>

(* Redis or Postgres fails a request, which answers 400 or 500 and leaves  *)
(* what it has done as it is *)
Fails(h) ==
  /\ At(h) \in {"list", "count", "start", "enqueue", "put"}
  /\ Forgets
  /\ handler' = [handler EXCEPT ![h] = Idle]
  /\ UNCHANGED <<scenario, runs, memory, queue, worker, deadLetters, givenUp, forgotten>>

(* A server dies and starts again: its memory is gone, the task its worker *)
(* held comes back (RedisTaskQueue). *)
Crash(s) ==
  /\ Forgets
  /\ memory' = [memory EXCEPT ![s] = [k \in Keys |-> NoHit]]
  /\ handler' = [h \in Handlers |->
       IF handler[h] # Idle /\ handler[h].at = s THEN Idle ELSE handler[h]]
  /\ worker' = [worker EXCEPT ![s] = Free]
  /\ queue' = IF worker[s] = Free THEN queue ELSE [queue EXCEPT ![worker[s].run] = @ + 1]
  /\ deadLetters' = [deadLetters EXCEPT ![s] = << >>]
  /\ forgotten' = forgotten \cup Dropped(deadLetters[s], << >>)
  /\ UNCHANGED <<scenario, runs, givenUp>>

-----------------------------------------------------------------------------
Answers(h) ==
  \/ List(h) \/ Count(h) \/ Refuse(h) \/ Start(h) \/ Enqueue(h) \/ Reply(h)
  \/ RequeuePut(h) \/ RequeueMark(h)
Works(s) == Lease(s) \/ Tick(s) \/ Complete(s)

Next ==
  \/ \E h \in Handlers : Post(h) \/ Trigger(h) \/ Requeue(h) \/ Answers(h) \/ Fails(h)
  \/ \E s \in scenario.servers : Works(s) \/ GiveUp(s) \/ Acknowledge(s) \/ Expire(s) \/ Crash(s)

Spec == Init /\ [][Next]_vars

-----------------------------------------------------------------------------
(* The variables have their types. *)
TypeOK ==
  /\ runs \in Seq(Run) /\ Len(runs) <= MaxRuns
  /\ \A s \in Servers, k \in Keys : memory[s][k] \in Hit \cup {NoHit}
  /\ \A h \in Handlers :
       At(h) \in {"idle", "list", "count", "start", "enqueue", "replied", "put", "mark"}
  /\ queue \in [1 .. MaxRuns -> Nat]
  /\ \A s \in Servers : \/ worker[s] = Free
                        \/ worker[s].pc \in {"tick", "complete"} /\ worker[s].run \in Ids
  /\ \A s \in Servers : deadLetters[s] \in Seq(Entry) /\ Len(deadLetters[s]) <= Capacity
  /\ forgotten \subseteq Ids

(* The quota of a tenant is checked over all runs before the run is        *)
(* started, and nothing is reserved (workflow-start-service.ts:73): it is  *)
(* exceeded, but only by the requests that were answered at the same time, *)
(* however many come.  Runs that triggers start do not ask. *)
Counted(t) == {r \in Ids : runs[r].counted /\ Running(r) /\ runs[r].tenant = t}

QuotaOvershootBounded ==
  \A t \in Tenants : Cardinality(Counted(t)) <= Quota + Cardinality(Handlers) - 1

(* The answer of POST /workflows, a repeated one too, names a run that was *)
(* started for this input, this tenant and this key, although the entry it *)
(* is read from may have been overwritten by another request with its key  *)
(* (routes/workflows.ts:54). *)
AnswerHonest ==
  \A h \in Handlers : At(h) = "replied" =>
    LET r == runs[handler[h].run] IN
    /\ r.input = handler[h].input /\ r.tenant = handler[h].tenant
    /\ r.key = handler[h].key

(* A key starts more than one run: requests answered at the same time all  *)
(* miss it, another server does not know it, a restart or its expiry       *)
(* forgets it - and nothing else does (main.ts:141). *)
DuplicatesBounded ==
  \A k \in Keys :
    Cardinality({r \in Ids : runs[r].key = k})
      <= Cardinality(Handlers) * (Cardinality(scenario.servers) + forgets)

(* A run whose start was answered is not lost while it runs: its task is   *)
(* ready, held, or in a list of dead letters from where it can be put      *)
(* back, unless the list was cut or its process has died                   *)
(* (bootstrap/workers.ts:66). *)
AnsweredRunKept ==
  \A r \in Ids : runs[r].answered /\ Running(r) =>
    \/ queue[r] > 0
    \/ \E s \in Servers : worker[s] # Free /\ worker[s].run = r
    \/ \E s \in Servers : \E i \in DOMAIN deadLetters[s] :
         deadLetters[s][i].run = r /\ ~deadLetters[s][i].requeued
    \/ r \in forgotten

(* An entry is put back once, or by the requests that found it at the same *)
(* time: each enqueues its task before it marks it                         *)
(* (bootstrap/workers.ts:99). *)
EntryPutsBounded ==
  \A s \in Servers : \A i \in DOMAIN deadLetters[s] :
    deadLetters[s][i].puts <= Cardinality(Handlers)

(* What was given up is neither lost nor multiplied, within the bounds of  *)
(* the lists (bootstrap/workers.ts). *)
GivenUpTasksKept == TypeOK /\ AnsweredRunKept /\ EntryPutsBounded
=============================================================================
