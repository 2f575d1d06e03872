------------------------- MODULE StartServiceProofs -------------------------
(***************************************************************************)
(* What StartService promises of quotas, idempotency keys and given-up     *)
(* tasks, for any number of requests, servers, keys and tenants and any    *)
(* quota, capacity and scenario.                                           *)
(***************************************************************************)
EXTENDS StartService, FiniteSetTheorems, SequenceTheorems, WellFoundedInduction, TLAPS

(* A request is idle, on its way to a run, answered, or putting a given-up *)
(* task back. *)
Asking  == {"list", "count", "start"}
Putting == {"put", "mark"}

Asks ==
  [pc : Asking, at : Servers, key : Keys \cup {None}, input : Inputs,
   tenant : Tenants \cup {None}, counted : BOOLEAN,
   left : SUBSET (1 .. MaxRuns), found : Nat, run : {0}]
Started ==
  [pc : {"enqueue"}, at : Servers, key : Keys \cup {None}, input : Inputs,
   tenant : Tenants \cup {None}, counted : BOOLEAN,
   left : SUBSET (1 .. MaxRuns), found : Nat, run : 1 .. MaxRuns]
Replies ==
  [pc : {"replied"}, at : Servers, key : Keys \cup {None}, input : Inputs,
   tenant : Tenants \cup {None}, run : 1 .. MaxRuns]
Puts == [pc : Putting, at : Servers, id : Nat \ {0}, run : 1 .. MaxRuns]
Holds == [pc : {"tick", "complete"}, run : 1 .. MaxRuns]

TypeInv ==
  /\ scenario \in Scenarios
  /\ runs \in Seq(Run) /\ Len(runs) <= MaxRuns
  /\ memory \in [Servers -> [Keys -> Hit \cup {NoHit}]]
  /\ handler \in [Handlers -> {Idle} \cup Asks \cup Started \cup Replies \cup Puts]
  /\ queue \in [1 .. MaxRuns -> Nat]
  /\ worker \in [Servers -> {Free} \cup Holds]
  /\ deadLetters \in [Servers -> Seq(Entry)]
  /\ \A s \in Servers : Len(deadLetters[s]) <= Capacity
  /\ givenUp \in Nat /\ forgets \in Nat

(* The value of a handler tells its kind by its pc.                        *)
LEMMA Kinds ==
  ASSUME TypeInv, NEW h \in Handlers
  PROVE  /\ At(h) = "idle" <=> handler[h] = Idle
         /\ At(h) \in Asking <=> handler[h] \in Asks
         /\ At(h) = "enqueue" <=> handler[h] \in Started
         /\ At(h) = "replied" <=> handler[h] \in Replies
         /\ At(h) \in Putting <=> handler[h] \in Puts
<1>1. handler[h] \in {Idle} \cup Asks \cup Started \cup Replies \cup Puts
  BY DEF TypeInv
<1> QED BY <1>1 DEF At, Idle, Asks, Started, Replies, Puts, Asking, Putting

(* A record of a scenario has its parts.                                   *)
LEMMA ScenarioParts ==
  ASSUME TypeInv
  PROVE  /\ scenario.servers \subseteq Servers
         /\ scenario.keys \subseteq Keys \cup {None}
         /\ scenario.inputs \subseteq Inputs
         /\ scenario.tenants \subseteq Tenants \cup {None}
         /\ scenario.runs \in 0 .. MaxRuns
  BY ScenariosAssumption DEF TypeInv

(* The queue counts the tasks of every run there is.                       *)
LEMMA QueueParts ==
  ASSUME TypeInv
  PROVE  Ids \subseteq 1 .. MaxRuns /\ \A r \in 1 .. MaxRuns : queue[r] \in Nat
<1>1. runs \in Seq(Run) /\ Len(runs) <= MaxRuns /\ queue \in [1 .. MaxRuns -> Nat]
  BY DEF TypeInv
<1>2. MaxRuns \in Nat BY ScenariosAssumption
<1>3. Len(runs) \in Nat /\ Ids = 1 .. Len(runs) BY <1>1 DEF Ids
<1>4. Ids \subseteq 1 .. MaxRuns BY <1>1, <1>2, <1>3
<1>5. \A r \in 1 .. MaxRuns : queue[r] \in Nat BY <1>1
<1> QED BY <1>4, <1>5

(* A run is updated in place.                                              *)
LEMMA RunUpdate ==
  ASSUME NEW rs \in Seq(Run), NEW r, NEW x, r \in DOMAIN rs => x \in Run
  PROVE  [rs EXCEPT ![r] = x] \in Seq(Run) /\ Len([rs EXCEPT ![r] = x]) = Len(rs)
<1>1. Len(rs) \in Nat /\ DOMAIN rs = 1 .. Len(rs)
  OBVIOUS
<1> DEFINE new == [rs EXCEPT ![r] = x]
<1>2. DOMAIN new = 1 .. Len(rs) /\ \A i \in 1 .. Len(rs) : new[i] \in Run
  BY <1>1
<1>3. new = [i \in 1 .. Len(rs) |-> new[i]]
  BY <1>1, <1>2
<1>4. new \in [1 .. Len(rs) -> Run]
  BY <1>2, <1>3
<1> HIDE DEF new
<1>5. new \in Seq(Run) /\ Len(new) = Len(rs)
  BY <1>1, <1>2, <1>4
<1> QED BY <1>5 DEF new

(* Cutting a list keeps its front.                                         *)
LEMMA CutFront ==
  ASSUME NEW list \in Seq(Entry)
  PROVE  /\ Cut(list) \in Seq(Entry)
         /\ Len(Cut(list)) <= Capacity /\ Len(Cut(list)) <= Len(list)
         /\ DOMAIN Cut(list) \subseteq DOMAIN list
         /\ \A i \in DOMAIN Cut(list) : Cut(list)[i] = list[i]
         /\ list # << >> => 1 \in DOMAIN Cut(list)
<1>0. Capacity \in Nat \ {0} /\ Len(list) \in Nat
  BY QuotaAssumption
<1>1. CASE Len(list) > Capacity
  <2>1. Cut(list) = SubSeq(list, 1, Capacity) BY <1>1 DEF Cut
  <2>2. \A i \in 1 .. Capacity : list[i] \in Entry BY <1>0, <1>1
  <2>3. /\ Cut(list) \in Seq(Entry) /\ Len(Cut(list)) = Capacity
        /\ \A i \in 1 .. Capacity : Cut(list)[i] = list[i]
    BY <1>0, <1>1, <2>1, <2>2
  <2> QED BY <1>0, <1>1, <2>3
<1>2. CASE ~(Len(list) > Capacity)
  BY <1>0, <1>2 DEF Cut
<1> QED BY <1>1, <1>2

(* Marking an entry leaves the others and their order.                     *)
LEMMA MarkedList ==
  ASSUME NEW list \in Seq(Entry), NEW id, NEW mark \in [DOMAIN list -> Entry]
  PROVE  /\ Marked(list, id, mark) \in Seq(Entry)
         /\ Len(Marked(list, id, mark)) = Len(list)
         /\ DOMAIN Marked(list, id, mark) = DOMAIN list
         /\ \A i \in DOMAIN list :
              Marked(list, id, mark)[i] = IF list[i].id = id THEN mark[i] ELSE list[i]
<1>1. DOMAIN list = 1 .. Len(list) /\ Len(list) \in Nat
  OBVIOUS
<1>2. Marked(list, id, mark) \in [1 .. Len(list) -> Entry]
  BY <1>1 DEF Marked
<1> QED BY <1>1, <1>2 DEF Marked

(* The types are kept.                                                     *)
LEMMA TypeStep == TypeInv /\ [Next]_vars => TypeInv'
<1> SUFFICES ASSUME TypeInv, [Next]_vars PROVE TypeInv'
  OBVIOUS
<1>1. ASSUME NEW h \in Handlers, Post(h) PROVE TypeInv'
  <2>1. PICK s \in scenario.servers, k \in scenario.keys,
             i \in scenario.inputs, t \in scenario.tenants :
       LET hit == IF k = None THEN NoHit ELSE memory[s][k] IN
       IF Live(hit)
       THEN /\ SamePayload(hit, i, t)
            /\ handler' = [handler EXCEPT ![h] =
                 [pc |-> "replied", at |-> s, key |-> k, input |-> i, tenant |-> t, run |-> hit.run]]
            /\ UNCHANGED memory
       ELSE /\ Accept(h, s, k, i, t, IF t = None THEN "start" ELSE "list")
            /\ memory' = IF k = None THEN memory ELSE [memory EXCEPT ![s][k] = NoHit]
    BY <1>1 DEF Post
  <2> DEFINE hit == IF k = None THEN NoHit ELSE memory[s][k]
  <2>2. CASE Live(hit)
    <3>1. hit \in Hit BY <2>2, ScenarioParts DEF Live, TypeInv
    <3>2. handler' = [handler EXCEPT ![h] =
            [pc |-> "replied", at |-> s, key |-> k, input |-> i, tenant |-> t, run |-> hit.run]]
          /\ memory' = memory
      BY <2>1, <2>2
    <3>3. handler' \in [Handlers -> {Idle} \cup Asks \cup Started \cup Replies \cup Puts]
      BY <3>1, <3>2, ScenarioParts DEF TypeInv, Replies, Hit
    <3> QED BY <1>1, <3>2, <3>3 DEF TypeInv, Post
  <2>3. CASE ~Live(hit)
    <3>1. Accept(h, s, k, i, t, IF t = None THEN "start" ELSE "list")
          /\ memory' = IF k = None THEN memory ELSE [memory EXCEPT ![s][k] = NoHit]
      BY <2>1, <2>3
    <3>2. handler' \in [Handlers -> {Idle} \cup Asks \cup Started \cup Replies \cup Puts]
      BY <3>1, ScenarioParts DEF TypeInv, Accept, Asks, Asking
    <3>3. memory' \in [Servers -> [Keys -> Hit \cup {NoHit}]]
      BY <3>1, ScenarioParts DEF TypeInv
    <3> QED BY <1>1, <3>2, <3>3 DEF TypeInv, Post
  <2> QED BY <2>2, <2>3
<1>2. ASSUME NEW h \in Handlers, Trigger(h) PROVE TypeInv'
  BY <1>2, ScenarioParts DEF TypeInv, Trigger, Asks, Asking
<1>3. ASSUME NEW h \in Handlers, List(h) PROVE TypeInv'
  <2>1. handler[h] \in Asks BY <1>3, Kinds DEF List, Asking
  <2>2. handler' = [handler EXCEPT ![h] = [handler[h] EXCEPT !.left = Ids, !.pc = "count"]]
    BY <1>3 DEF List
  <2>3. Ids \in SUBSET (1 .. MaxRuns) BY ScenariosAssumption DEF Ids, TypeInv
  <2>4. [handler[h] EXCEPT !.left = Ids, !.pc = "count"] \in Asks
    BY <2>1, <2>3 DEF Asks, Asking
  <2> QED BY <1>3, <2>2, <2>4 DEF TypeInv, List
<1>4. ASSUME NEW h \in Handlers, Count(h) PROVE TypeInv'
  <2>1. handler[h] \in Asks BY <1>4, Kinds DEF Count, Asking
  <2>2. PICK r \in handler[h].left :
          handler' = [handler EXCEPT ![h] = [handler[h] EXCEPT !.left = handler[h].left \ {r},
            !.found = IF Running(r) /\ runs[r].tenant = handler[h].tenant
                      THEN handler[h].found + 1 ELSE handler[h].found]]
    BY <1>4 DEF Count
  <2>3. \A l \in SUBSET (1 .. MaxRuns), f \in Nat :
          [handler[h] EXCEPT !.left = l, !.found = f] \in Asks
    BY <2>1 DEF Asks
  <2>4. handler[h].left \in SUBSET (1 .. MaxRuns) /\ handler[h].found \in Nat
    BY <2>1 DEF Asks
  <2>5. handler' \in [Handlers -> {Idle} \cup Asks \cup Started \cup Replies \cup Puts]
    <3>1. (IF Running(r) /\ runs[r].tenant = handler[h].tenant
           THEN handler[h].found + 1 ELSE handler[h].found) \in Nat
      BY <2>4
    <3>2. handler[h].left \ {r} \in SUBSET (1 .. MaxRuns) BY <2>4
    <3> QED BY <2>2, <2>3, <3>1, <3>2 DEF TypeInv
  <2> QED BY <1>4, <2>5 DEF TypeInv, Count
<1>5. ASSUME NEW h \in Handlers, Refuse(h) PROVE TypeInv'
  BY <1>5 DEF TypeInv, Refuse
<1>6. ASSUME NEW h \in Handlers, Start(h) PROVE TypeInv'
  <2>1. handler[h] \in Asks BY <1>6, Kinds DEF Start, Asking
  <2>2. handler' = [handler EXCEPT ![h] =
          [handler[h] EXCEPT !.pc = "enqueue", !.run = Len(runs) + 1, !.left = {}, !.found = 0]]
    BY <1>6 DEF Start
  <2>3. Len(runs) \in Nat /\ Len(runs) < MaxRuns /\ MaxRuns \in Nat
    BY <1>6, ScenarioParts, ScenariosAssumption DEF Start, TypeInv
  <2>4. [handler[h] EXCEPT !.pc = "enqueue", !.run = Len(runs) + 1, !.left = {}, !.found = 0]
          \in Started
    <3>1. \A n \in 1 .. MaxRuns :
            [handler[h] EXCEPT !.pc = "enqueue", !.run = n, !.left = {}, !.found = 0] \in Started
      BY <2>1 DEF Asks, Started
    <3>2. Len(runs) + 1 \in 1 .. MaxRuns BY <2>3
    <3> QED BY <3>1, <3>2
  <2>5. runs' \in Seq(Run) /\ Len(runs') <= MaxRuns
    <3>1. [tenant |-> handler[h].tenant, key |-> handler[h].key, input |-> handler[h].input,
           counted |-> handler[h].counted, status |-> "running", answered |-> FALSE] \in Run
      BY <2>1 DEF Asks, Run
    <3> QED BY <1>6, <2>3, <3>1 DEF Start, TypeInv
  <2> QED BY <1>6, <2>2, <2>4, <2>5 DEF TypeInv, Start
<1>7. ASSUME NEW h \in Handlers, Enqueue(h) PROVE TypeInv'
  <2>1. handler[h] \in Started BY <1>7, Kinds DEF Enqueue
  <2> DEFINE r == handler[h].run
  <2>2. r \in 1 .. MaxRuns BY <2>1 DEF Started
  <2>3. queue' \in [1 .. MaxRuns -> Nat] BY <1>7, <2>2 DEF TypeInv, Enqueue
  <2>4. runs' \in Seq(Run) /\ Len(runs') = Len(runs)
    <3>1. runs' = [runs EXCEPT ![r].answered = TRUE] BY <1>7 DEF Enqueue
    <3> HIDE DEF r
    <3>2. r \in DOMAIN runs => [runs[r] EXCEPT !.answered = TRUE] \in Run
      <4>1. r \in DOMAIN runs => runs[r] \in Run BY DEF TypeInv
      <4> QED BY <4>1 DEF Run
    <3> QED BY <3>1, <3>2, RunUpdate DEF TypeInv
  <2>5. memory' \in [Servers -> [Keys -> Hit \cup {NoHit}]]
    <3>1. memory' = Save(h) BY <1>7 DEF Enqueue
    <3>2. [run |-> r, tenant |-> handler[h].tenant, input |-> handler[h].input, fresh |-> TRUE]
            \in Hit
      BY <2>1, <2>2 DEF Started, Hit
    <3> QED BY <2>1, <3>1, <3>2 DEF Save, TypeInv, Started
  <2>6. handler' \in [Handlers -> {Idle} \cup Asks \cup Started \cup Replies \cup Puts]
    <3>1. handler' = [handler EXCEPT ![h] =
            [pc |-> "replied", at |-> handler[h].at, key |-> handler[h].key,
             input |-> handler[h].input, tenant |-> handler[h].tenant, run |-> r]]
      BY <1>7 DEF Enqueue
    <3>2. [pc |-> "replied", at |-> handler[h].at, key |-> handler[h].key,
             input |-> handler[h].input, tenant |-> handler[h].tenant, run |-> r] \in Replies
      BY <2>1, <2>2 DEF Started, Replies
    <3> QED BY <3>1, <3>2 DEF TypeInv
  <2> QED BY <1>7, <2>3, <2>4, <2>5, <2>6 DEF TypeInv, Enqueue
<1>8. ASSUME NEW h \in Handlers, Reply(h) PROVE TypeInv'
  BY <1>8 DEF TypeInv, Reply
<1>9. ASSUME NEW h \in Handlers, Requeue(h) PROVE TypeInv'
  <2>0. PICK s \in Servers : \E i \in DOMAIN deadLetters[s] :
          handler' = [handler EXCEPT ![h] =
            [pc |-> "put", at |-> s, id |-> deadLetters[s][i].id, run |-> deadLetters[s][i].run]]
    BY <1>9 DEF Requeue
  <2>1. PICK i \in DOMAIN deadLetters[s] :
          handler' = [handler EXCEPT ![h] =
            [pc |-> "put", at |-> s, id |-> deadLetters[s][i].id, run |-> deadLetters[s][i].run]]
    BY <2>0
  <2>2. deadLetters[s][i] \in Entry BY DEF TypeInv
  <2>3. [pc |-> "put", at |-> s, id |-> deadLetters[s][i].id, run |-> deadLetters[s][i].run] \in Puts
    BY <2>2 DEF Entry, Puts, Putting
  <2> QED BY <1>9, <2>1, <2>3 DEF TypeInv, Requeue
<1>10. ASSUME NEW h \in Handlers, RequeuePut(h) PROVE TypeInv'
  <2>1. handler[h] \in Puts BY <1>10, Kinds DEF RequeuePut, Putting
  <2>2. handler' = [handler EXCEPT ![h] = [handler[h] EXCEPT !.pc = "mark"]]
    BY <1>10 DEF RequeuePut, Goes
  <2>3. [handler[h] EXCEPT !.pc = "mark"] \in Puts
    BY <2>1 DEF Puts, Putting
  <2>4. queue' \in [1 .. MaxRuns -> Nat]
    <3>1. handler[h].run \in 1 .. MaxRuns BY <2>1 DEF Puts
    <3> QED BY <1>10, <3>1 DEF RequeuePut, TypeInv
  <2> DEFINE s == handler[h].at
             list == deadLetters[s]
             mark == PutAgain(list)
  <2>5. s \in Servers /\ list \in Seq(Entry) /\ Len(list) <= Capacity BY <2>1 DEF TypeInv, Puts
  <2>6. mark \in [DOMAIN list -> Entry]
    <3>1. \A i \in DOMAIN list : list[i] \in Entry BY <2>5
    <3> QED BY <3>1 DEF Entry, PutAgain
  <2>7. deadLetters' = [deadLetters EXCEPT ![s] = Marked(list, handler[h].id, mark)]
    BY <1>10 DEF RequeuePut
  <2> HIDE DEF mark, list, s
  <2>8. Marked(list, handler[h].id, mark) \in Seq(Entry)
        /\ Len(Marked(list, handler[h].id, mark)) = Len(list)
    BY <2>5, <2>6, MarkedList
  <2>9. deadLetters' \in [Servers -> Seq(Entry)]
        /\ \A x \in Servers : Len(deadLetters'[x]) <= Capacity
    BY <2>5, <2>7, <2>8 DEF TypeInv
  <2> QED BY <1>10, <2>2, <2>3, <2>4, <2>9 DEF TypeInv, RequeuePut
<1>11. ASSUME NEW h \in Handlers, RequeueMark(h) PROVE TypeInv'
  <2>1. handler[h] \in Puts BY <1>11, Kinds DEF RequeueMark, Putting
  <2> DEFINE s == handler[h].at
             list == deadLetters[s]
             mark == Requeued(list)
  <2>2. s \in Servers /\ list \in Seq(Entry) /\ Len(list) <= Capacity BY <2>1 DEF TypeInv, Puts
  <2>3. mark \in [DOMAIN list -> Entry]
    <3>1. \A i \in DOMAIN list : list[i] \in Entry BY <2>2
    <3> QED BY <3>1 DEF Entry, Requeued
  <2>4. deadLetters' = [deadLetters EXCEPT ![s] = Marked(list, handler[h].id, mark)]
    BY <1>11 DEF RequeueMark
  <2> HIDE DEF mark, list, s
  <2>5. Marked(list, handler[h].id, mark) \in Seq(Entry)
        /\ Len(Marked(list, handler[h].id, mark)) = Len(list)
    BY <2>2, <2>3, MarkedList
  <2>6. deadLetters' \in [Servers -> Seq(Entry)]
        /\ \A x \in Servers : Len(deadLetters'[x]) <= Capacity
    BY <2>2, <2>4, <2>5 DEF TypeInv
  <2> QED BY <1>11, <2>6 DEF TypeInv, RequeueMark
<1>12. ASSUME NEW h \in Handlers, Fails(h) PROVE TypeInv'
  BY <1>12 DEF TypeInv, Fails, Forgets
<1>13. ASSUME NEW s \in scenario.servers, Lease(s) PROVE TypeInv'
  <2>1. PICK r \in Ids : /\ queue[r] > 0 /\ queue' = [queue EXCEPT ![r] = @ - 1]
                         /\ worker' = [worker EXCEPT ![s] = [pc |-> "tick", run |-> r]]
    BY <1>13 DEF Lease
  <2>2. r \in 1 .. MaxRuns BY QueueParts
  <2>3. queue' \in [1 .. MaxRuns -> Nat]
    <3>1. queue[r] \in Nat BY <2>2, QueueParts
    <3>2. queue[r] - 1 \in Nat BY <2>1, <3>1
    <3> QED BY <2>1, <3>2 DEF TypeInv
  <2>4. worker' \in [Servers -> {Free} \cup Holds] BY <2>1, <2>2, ScenarioParts DEF TypeInv, Holds
  <2> QED BY <1>13, <2>3, <2>4 DEF TypeInv, Lease
<1>14. ASSUME NEW s \in scenario.servers, Tick(s) PROVE TypeInv'
  <2>1. s \in Servers BY ScenarioParts
  <2>2. worker[s] \in Holds BY <1>14, <2>1 DEF TypeInv, Tick, Free
  <2>3. worker' = [worker EXCEPT ![s] = [worker[s] EXCEPT !.pc = "complete"]]
    BY <1>14 DEF Tick
  <2>4. [worker[s] EXCEPT !.pc = "complete"] \in Holds BY <2>2 DEF Holds
  <2> DEFINE r == worker[s].run
  <2>5. runs' = [runs EXCEPT ![r].status = "ended"] BY <1>14 DEF Tick
  <2> HIDE DEF r
  <2>6. runs' \in Seq(Run) /\ Len(runs') = Len(runs)
    <3>1. r \in DOMAIN runs => [runs[r] EXCEPT !.status = "ended"] \in Run
      <4>1. r \in DOMAIN runs => runs[r] \in Run BY DEF TypeInv
      <4> QED BY <4>1 DEF Run
    <3> QED BY <2>5, <3>1, RunUpdate DEF TypeInv
  <2> QED BY <1>14, <2>3, <2>4, <2>6 DEF TypeInv, Tick
<1>15. ASSUME NEW s \in scenario.servers, Complete(s) PROVE TypeInv'
  BY <1>15, ScenarioParts DEF TypeInv, Complete
<1>16. ASSUME NEW s \in scenario.servers, GiveUp(s) PROVE TypeInv'
  <2>1. s \in Servers BY ScenarioParts
  <2>2. worker[s] \in Holds BY <1>16, <2>1 DEF TypeInv, GiveUp, Free
  <2> DEFINE entry == [id |-> givenUp + 1, run |-> worker[s].run, puts |-> 0,
                       requeued |-> FALSE, acknowledged |-> FALSE]
             full == <<entry>> \o deadLetters[s]
  <2>3. worker' = [worker EXCEPT ![s] = [worker[s] EXCEPT !.pc = "complete"]]
        /\ deadLetters' = [deadLetters EXCEPT ![s] = Cut(full)]
    BY <1>16 DEF GiveUp
  <2>4. [worker[s] EXCEPT !.pc = "complete"] \in Holds BY <2>2 DEF Holds
  <2>5. entry \in Entry
    <3>1. worker[s].run \in 1 .. MaxRuns BY <2>2 DEF Holds
    <3>2. givenUp + 1 \in Nat \ {0} BY DEF TypeInv
    <3> QED BY <3>1, <3>2 DEF Entry
  <2>6. full \in Seq(Entry) BY <2>1, <2>5 DEF TypeInv
  <2> HIDE DEF full
  <2>7. Cut(full) \in Seq(Entry) /\ Len(Cut(full)) <= Capacity BY <2>6, CutFront
  <2>8. deadLetters' \in [Servers -> Seq(Entry)]
        /\ \A x \in Servers : Len(deadLetters'[x]) <= Capacity
    BY <2>1, <2>3, <2>7 DEF TypeInv
  <2>9. worker' \in [Servers -> {Free} \cup Holds] BY <2>1, <2>3, <2>4 DEF TypeInv
  <2> HIDE DEF entry
  <2>10. givenUp' \in Nat /\ UNCHANGED <<scenario, runs, memory, handler, queue, forgets>>
    BY <1>16 DEF TypeInv, GiveUp
  <2> QED BY <2>8, <2>9, <2>10 DEF TypeInv
<1>17. ASSUME NEW s \in scenario.servers, Acknowledge(s) PROVE TypeInv'
  <2>1. PICK i \in DOMAIN deadLetters[s] :
          deadLetters' = [deadLetters EXCEPT ![s] =
            [deadLetters[s] EXCEPT ![i] = [deadLetters[s][i] EXCEPT !.acknowledged = TRUE]]]
    BY <1>17 DEF Acknowledge
  <2> DEFINE list == deadLetters[s]
             next == [list EXCEPT ![i] = [list[i] EXCEPT !.acknowledged = TRUE]]
  <2>2. s \in Servers /\ list \in Seq(Entry) /\ Len(list) <= Capacity
      BY ScenarioParts DEF TypeInv
  <2>3. [list[i] EXCEPT !.acknowledged = TRUE] \in Entry
    <3>1. list[i] \in Entry BY <2>2
    <3> QED BY <3>1 DEF Entry
  <2>4. next \in Seq(Entry) /\ Len(next) = Len(list) BY <2>2, <2>3
  <2>5. deadLetters' = [deadLetters EXCEPT ![s] = next] BY <2>1
  <2> HIDE DEF next
  <2>6. deadLetters' \in [Servers -> Seq(Entry)]
        /\ \A x \in Servers : Len(deadLetters'[x]) <= Capacity
    BY <2>2, <2>4, <2>5 DEF TypeInv
  <2> QED BY <1>17, <2>6 DEF TypeInv, Acknowledge
<1>18. ASSUME NEW s \in scenario.servers, Expire(s) PROVE TypeInv'
  <2>1. PICK k \in Keys : Live(memory[s][k]) /\ memory' = [memory EXCEPT ![s] =
          [memory[s] EXCEPT ![k] = [memory[s][k] EXCEPT !.fresh = FALSE]]]
    BY <1>18 DEF Expire
  <2>2. s \in Servers /\ memory[s] \in [Keys -> Hit \cup {NoHit}] BY ScenarioParts DEF TypeInv
  <2>3. memory[s][k] \in Hit BY <2>1, <2>2 DEF Live
  <2>4. [memory[s][k] EXCEPT !.fresh = FALSE] \in Hit BY <2>3 DEF Hit
  <2>5. memory' \in [Servers -> [Keys -> Hit \cup {NoHit}]]
    BY <2>1, <2>2, <2>4 DEF TypeInv
  <2> QED BY <1>18, <2>5 DEF TypeInv, Expire, Forgets
<1>19. ASSUME NEW s \in scenario.servers, Crash(s) PROVE TypeInv'
  <2>1. s \in Servers BY ScenarioParts
  <2>2. memory' \in [Servers -> [Keys -> Hit \cup {NoHit}]]
    BY <1>19, <2>1 DEF Crash, TypeInv
  <2>3. handler' \in [Handlers -> {Idle} \cup Asks \cup Started \cup Replies \cup Puts]
    BY <1>19 DEF Crash, TypeInv
  <2>4. worker' \in [Servers -> {Free} \cup Holds]
    BY <1>19, <2>1 DEF Crash, TypeInv
  <2>5. queue' \in [1 .. MaxRuns -> Nat]
    <3>1. CASE worker[s] = Free BY <1>19, <3>1 DEF Crash, TypeInv
    <3>2. CASE worker[s] # Free
      <4>1. worker[s].run \in 1 .. MaxRuns BY <2>1, <3>2 DEF TypeInv, Holds
      <4> QED BY <1>19, <3>2, <4>1 DEF Crash, TypeInv
    <3> QED BY <3>1, <3>2
  <2>6. deadLetters' \in [Servers -> Seq(Entry)]
        /\ \A x \in Servers : Len(deadLetters'[x]) <= Capacity
    <3>1. << >> \in Seq(Entry) /\ Len(<< >>) = 0 OBVIOUS
    <3>2. deadLetters' = [deadLetters EXCEPT ![s] = << >>] BY <1>19 DEF Crash
    <3>3. 0 <= Capacity BY QuotaAssumption
    <3> QED BY <2>1, <3>1, <3>2, <3>3 DEF TypeInv
  <2> QED BY <1>19, <2>2, <2>3, <2>4, <2>5, <2>6 DEF TypeInv, Crash, Forgets
<1>20. CASE UNCHANGED vars
  BY <1>20 DEF TypeInv, vars
<1> QED
  BY <1>1, <1>2, <1>3, <1>4, <1>5, <1>6, <1>7, <1>8, <1>9, <1>10, <1>11, <1>12,
     <1>13, <1>14, <1>15, <1>16, <1>17, <1>18, <1>19, <1>20 DEF Next, Answers, Works

-----------------------------------------------------------------------------
(* What the steps do to the lists of dead letters: putting back and marking *)
(* change an entry in place, giving up adds one. *)
LEMMA PutList ==
  ASSUME TypeInv, NEW h \in Handlers, RequeuePut(h)
  PROVE  /\ handler[h] \in Puts
         /\ \A s \in Servers :
              /\ deadLetters'[s] \in Seq(Entry) /\ DOMAIN deadLetters'[s] = DOMAIN deadLetters[s]
              /\ \A i \in DOMAIN deadLetters[s] :
                   deadLetters'[s][i] =
                     IF s = handler[h].at /\ deadLetters[s][i].id = handler[h].id
                     THEN [deadLetters[s][i] EXCEPT !.puts = @ + 1] ELSE deadLetters[s][i]
<1>1. handler[h] \in Puts BY Kinds DEF RequeuePut, Putting
<1>2. deadLetters' = [deadLetters EXCEPT ![handler[h].at] =
        Marked(deadLetters[handler[h].at], handler[h].id, PutAgain(deadLetters[handler[h].at]))]
  BY DEF RequeuePut
<1>3. \A s \in Servers : \A i \in DOMAIN deadLetters[s] : deadLetters[s][i] \in Entry
  BY DEF TypeInv
<1>4. \A s \in Servers : PutAgain(deadLetters[s]) \in [DOMAIN deadLetters[s] -> Entry]
  BY <1>3 DEF PutAgain, Entry
<1>5. ASSUME NEW s \in Servers
      PROVE  /\ deadLetters'[s] \in Seq(Entry) /\ DOMAIN deadLetters'[s] = DOMAIN deadLetters[s]
             /\ \A i \in DOMAIN deadLetters[s] :
                  deadLetters'[s][i] =
                    IF s = handler[h].at /\ deadLetters[s][i].id = handler[h].id
                    THEN [deadLetters[s][i] EXCEPT !.puts = @ + 1] ELSE deadLetters[s][i]
  <2>1. deadLetters[s] \in Seq(Entry) BY DEF TypeInv
  <2>2. CASE s = handler[h].at
    <3>1. deadLetters'[s] = Marked(deadLetters[s], handler[h].id, PutAgain(deadLetters[s]))
      BY <1>2, <2>2 DEF TypeInv
    <3> DEFINE new == PutAgain(deadLetters[s])
    <3>2. new \in [DOMAIN deadLetters[s] -> Entry] BY <1>4
    <3>3. \A i \in DOMAIN deadLetters[s] : new[i] = [deadLetters[s][i] EXCEPT !.puts = @ + 1]
      BY DEF PutAgain
    <3> HIDE DEF new
    <3>4. /\ deadLetters'[s] \in Seq(Entry) /\ DOMAIN deadLetters'[s] = DOMAIN deadLetters[s]
          /\ \A i \in DOMAIN deadLetters[s] : deadLetters'[s][i] =
               IF deadLetters[s][i].id = handler[h].id THEN new[i] ELSE deadLetters[s][i]
      <4>1. deadLetters'[s] = Marked(deadLetters[s], handler[h].id, new) BY <3>1 DEF new
      <4> QED BY <2>1, <3>2, <4>1, MarkedList
    <3> QED BY <2>2, <3>3, <3>4
  <2>3. CASE s # handler[h].at
    BY <1>2, <2>1, <2>3 DEF TypeInv
  <2> QED BY <2>2, <2>3
<1> QED BY <1>1, <1>5

LEMMA MarkList ==
  ASSUME TypeInv, NEW h \in Handlers, RequeueMark(h)
  PROVE  /\ handler[h] \in Puts
         /\ \A s \in Servers :
              /\ deadLetters'[s] \in Seq(Entry) /\ DOMAIN deadLetters'[s] = DOMAIN deadLetters[s]
              /\ \A i \in DOMAIN deadLetters[s] :
                   deadLetters'[s][i] =
                     IF s = handler[h].at /\ deadLetters[s][i].id = handler[h].id
                     THEN [deadLetters[s][i] EXCEPT !.requeued = TRUE] ELSE deadLetters[s][i]
<1>1. handler[h] \in Puts BY Kinds DEF RequeueMark, Putting
<1>2. deadLetters' = [deadLetters EXCEPT ![handler[h].at] =
        Marked(deadLetters[handler[h].at], handler[h].id, Requeued(deadLetters[handler[h].at]))]
  BY DEF RequeueMark
<1>3. \A s \in Servers : \A i \in DOMAIN deadLetters[s] : deadLetters[s][i] \in Entry
  BY DEF TypeInv
<1>4. \A s \in Servers : Requeued(deadLetters[s]) \in [DOMAIN deadLetters[s] -> Entry]
  BY <1>3 DEF Requeued, Entry
<1>5. ASSUME NEW s \in Servers
      PROVE  /\ deadLetters'[s] \in Seq(Entry) /\ DOMAIN deadLetters'[s] = DOMAIN deadLetters[s]
             /\ \A i \in DOMAIN deadLetters[s] :
                  deadLetters'[s][i] =
                    IF s = handler[h].at /\ deadLetters[s][i].id = handler[h].id
                    THEN [deadLetters[s][i] EXCEPT !.requeued = TRUE] ELSE deadLetters[s][i]
  <2>1. deadLetters[s] \in Seq(Entry) BY DEF TypeInv
  <2>2. CASE s = handler[h].at
    <3>1. deadLetters'[s] = Marked(deadLetters[s], handler[h].id, Requeued(deadLetters[s]))
      BY <1>2, <2>2 DEF TypeInv
    <3> DEFINE new == Requeued(deadLetters[s])
    <3>2. new \in [DOMAIN deadLetters[s] -> Entry] BY <1>4
    <3>3. \A i \in DOMAIN deadLetters[s] : new[i] = [deadLetters[s][i] EXCEPT !.requeued = TRUE]
      BY DEF Requeued
    <3> HIDE DEF new
    <3>4. /\ deadLetters'[s] \in Seq(Entry) /\ DOMAIN deadLetters'[s] = DOMAIN deadLetters[s]
          /\ \A i \in DOMAIN deadLetters[s] : deadLetters'[s][i] =
               IF deadLetters[s][i].id = handler[h].id THEN new[i] ELSE deadLetters[s][i]
      <4>1. deadLetters'[s] = Marked(deadLetters[s], handler[h].id, new) BY <3>1 DEF new
      <4> QED BY <2>1, <3>2, <4>1, MarkedList
    <3> QED BY <2>2, <3>3, <3>4
  <2>3. CASE s # handler[h].at
    BY <1>2, <2>1, <2>3 DEF TypeInv
  <2> QED BY <2>2, <2>3
<1> QED BY <1>1, <1>5

(* the entry of a task given up, and the list it is put in front of *)
Entered(s) == [id |-> givenUp + 1, run |-> worker[s].run, puts |-> 0,
               requeued |-> FALSE, acknowledged |-> FALSE]
Full(s) == <<Entered(s)>> \o deadLetters[s]

LEMMA GiveUpList ==
  ASSUME TypeInv, NEW s \in Servers, GiveUp(s)
  PROVE  /\ worker[s] \in Holds /\ worker[s].pc = "tick"
         /\ Entered(s) \in Entry /\ Full(s) \in Seq(Entry)
         /\ \A i \in DOMAIN Full(s) :
              \/ i = 1 /\ Full(s)[i] = Entered(s)
              \/ i - 1 \in DOMAIN deadLetters[s] /\ Full(s)[i] = deadLetters[s][i - 1]
         /\ Full(s)[1] = Entered(s) /\ 1 \in DOMAIN Cut(Full(s))
         /\ deadLetters' = [deadLetters EXCEPT ![s] = Cut(Full(s))]
         /\ worker' = [worker EXCEPT ![s] = [pc |-> "complete", run |-> worker[s].run]]
         /\ forgotten' = forgotten \cup Dropped(deadLetters[s], Cut(Full(s)))
<1>1. worker[s] \in Holds /\ worker[s].pc = "tick"
  BY DEF TypeInv, GiveUp, Free
<1>2. Entered(s) \in Entry
  <2>1. worker[s].run \in 1 .. MaxRuns BY <1>1 DEF Holds
  <2>2. givenUp + 1 \in Nat \ {0} BY DEF TypeInv
  <2> QED BY <2>1, <2>2 DEF Entry, Entered
<1>3. deadLetters[s] \in Seq(Entry) BY DEF TypeInv
<1>4. /\ Full(s) \in Seq(Entry) /\ Full(s) # << >> /\ Full(s)[1] = Entered(s)
      /\ \A i \in DOMAIN Full(s) :
              \/ i = 1 /\ Full(s)[i] = Entered(s)
              \/ i - 1 \in DOMAIN deadLetters[s] /\ Full(s)[i] = deadLetters[s][i - 1]
  <2> DEFINE entry == Entered(s)
  <2>1. entry \in Entry BY <1>2
  <2>2. Full(s) = <<entry>> \o deadLetters[s] BY DEF Full
  <2> HIDE DEF entry
  <2>3. /\ Full(s) \in Seq(Entry) /\ Full(s) # << >> /\ Full(s)[1] = entry
        /\ \A i \in DOMAIN Full(s) :
              \/ i = 1 /\ Full(s)[i] = entry
              \/ i - 1 \in DOMAIN deadLetters[s] /\ Full(s)[i] = deadLetters[s][i - 1]
    BY <1>3, <2>1, <2>2
  <2> QED BY <2>3 DEF entry
<1>5. 1 \in DOMAIN Cut(Full(s)) BY <1>4, CutFront
<1>6. /\ deadLetters' = [deadLetters EXCEPT ![s] = Cut(Full(s))]
      /\ forgotten' = forgotten \cup Dropped(deadLetters[s], Cut(Full(s)))
  BY DEF GiveUp, Full, Entered
<1>7. worker' = [worker EXCEPT ![s] = [pc |-> "complete", run |-> worker[s].run]]
  <2>1. worker' = [worker EXCEPT ![s] = [worker[s] EXCEPT !.pc = "complete"]] BY DEF GiveUp
  <2>2. [worker[s] EXCEPT !.pc = "complete"] = [pc |-> "complete", run |-> worker[s].run]
    BY <1>1 DEF Holds
  <2> QED BY <2>1, <2>2
<1> QED BY <1>1, <1>2, <1>4, <1>5, <1>6, <1>7

(* Runs keep what they were asked for, and only end.                       *)
LEMMA RunsKept ==
  ASSUME TypeInv, [Next]_vars
  PROVE  /\ Ids \subseteq Ids'
         /\ \A r \in Ids : /\ runs'[r].key = runs[r].key
                           /\ runs'[r].tenant = runs[r].tenant
                           /\ runs'[r].input = runs[r].input
                           /\ runs'[r].counted = runs[r].counted
                           /\ runs'[r].status = "running" => runs[r].status = "running"
<1>0. runs \in Seq(Run) /\ DOMAIN runs = 1 .. Len(runs) /\ Len(runs) \in Nat
  BY DEF TypeInv
<1>1. CASE runs' = runs
  BY <1>1 DEF Ids
<1>2. ASSUME NEW h \in Handlers, Start(h)
      PROVE  /\ Ids \subseteq Ids'
             /\ \A r \in Ids : runs'[r] = runs[r]
  BY <1>0, <1>2 DEF Start, Ids
<1>3. ASSUME NEW h \in Handlers, Enqueue(h)
      PROVE  \E r : runs' = [runs EXCEPT ![r] = [runs[r] EXCEPT !.answered = TRUE]]
  BY <1>3 DEF Enqueue
<1>4. ASSUME NEW s \in Servers, Tick(s)
      PROVE  \E r : runs' = [runs EXCEPT ![r] = [runs[r] EXCEPT !.status = "ended"]]
  BY <1>4 DEF Tick
<1>5. ASSUME NEW r, \/ runs' = [runs EXCEPT ![r] = [runs[r] EXCEPT !.answered = TRUE]]
                    \/ runs' = [runs EXCEPT ![r] = [runs[r] EXCEPT !.status = "ended"]]
      PROVE  /\ DOMAIN runs' = DOMAIN runs
             /\ \A x \in Ids : /\ runs'[x].key = runs[x].key
                               /\ runs'[x].tenant = runs[x].tenant
                               /\ runs'[x].input = runs[x].input
                               /\ runs'[x].counted = runs[x].counted
                               /\ runs'[x].status = "running" => runs[x].status = "running"
  <2>1. DOMAIN runs' = DOMAIN runs BY <1>5
  <2>2. ASSUME NEW x \in Ids
        PROVE  /\ runs'[x].key = runs[x].key
               /\ runs'[x].tenant = runs[x].tenant
               /\ runs'[x].input = runs[x].input
               /\ runs'[x].counted = runs[x].counted
               /\ runs'[x].status = "running" => runs[x].status = "running"
    <3>1. runs[x] \in Run BY <1>0 DEF Ids
    <3>2. \/ runs'[x] = runs[x]
          \/ runs'[x] = [runs[x] EXCEPT !.answered = TRUE]
          \/ runs'[x] = [runs[x] EXCEPT !.status = "ended"]
      BY <1>5 DEF Ids
    <3> QED BY <3>1, <3>2 DEF Run
  <2> QED BY <2>1, <2>2
<1>6. \/ runs' = runs
      \/ \E h \in Handlers : Start(h) \/ Enqueue(h)
      \/ \E s \in Servers : Tick(s)
  BY ScenarioParts DEF Next, vars, Answers, Works, Post, Trigger, List, Count, Refuse, Reply, Requeue,
     RequeuePut, RequeueMark, Fails, Lease, Complete, GiveUp, Acknowledge, Expire, Crash
<1>7. CASE \E h \in Handlers : Start(h)
  BY <1>2, <1>7
<1>8. CASE \E h \in Handlers : Enqueue(h)
  BY <1>3, <1>5, <1>8 DEF Ids
<1>9. CASE \E s \in Servers : Tick(s)
  BY <1>4, <1>5, <1>9 DEF Ids
<1> QED BY <1>1, <1>6, <1>7, <1>8, <1>9

(* A run of the store was started for this key, input and tenant.          *)
Names(r, k, i, t) ==
  r \in Ids /\ runs[r].key = k /\ runs[r].input = i /\ runs[r].tenant = t

(* What refers to a run refers to one that exists, and an answer to one    *)
(* that was started for its request. *)
RefInv ==
  /\ \A s \in Servers, k \in Keys : memory[s][k] # NoHit =>
       Names(memory[s][k].run, k, memory[s][k].input, memory[s][k].tenant)
  /\ \A h \in Handlers : At(h) \in {"enqueue", "replied"} =>
       Names(handler[h].run, handler[h].key, handler[h].input, handler[h].tenant)
  /\ \A h \in Handlers : At(h) \in Putting => handler[h].run \in Ids
  /\ \A s \in Servers : worker[s] # Free => worker[s].run \in Ids
  /\ \A s \in Servers : \A i \in DOMAIN deadLetters[s] : deadLetters[s][i].run \in Ids
  /\ forgotten \subseteq Ids

(* A repeated answer is one that was saved for this request.               *)
LEMMA PostAnswer ==
  ASSUME TypeInv, RefInv, NEW h \in Handlers, Post(h)
  PROVE  \/ At(h)' \in {"list", "start"}
         \/ /\ At(h)' = "replied"
            /\ Names(handler'[h].run, handler'[h].key, handler'[h].input, handler'[h].tenant)
<1>1. PICK s \in scenario.servers, k \in scenario.keys,
           i \in scenario.inputs, t \in scenario.tenants :
       LET hit == IF k = None THEN NoHit ELSE memory[s][k] IN
       IF Live(hit)
       THEN /\ SamePayload(hit, i, t)
            /\ handler' = [handler EXCEPT ![h] =
                 [pc |-> "replied", at |-> s, key |-> k, input |-> i, tenant |-> t, run |-> hit.run]]
            /\ UNCHANGED memory
       ELSE /\ Accept(h, s, k, i, t, IF t = None THEN "start" ELSE "list")
            /\ memory' = IF k = None THEN memory ELSE [memory EXCEPT ![s][k] = NoHit]
  BY DEF Post
<1> DEFINE hit == IF k = None THEN NoHit ELSE memory[s][k]
<1>2. CASE Live(hit)
  <2>1. s \in Servers /\ k \in Keys /\ hit = memory[s][k] /\ hit # NoHit
    BY <1>2, ScenarioParts DEF Live
  <2>2. Names(hit.run, k, hit.input, hit.tenant)
    BY <2>1 DEF RefInv
  <2>3. SamePayload(hit, i, t) /\ handler'[h] =
          [pc |-> "replied", at |-> s, key |-> k, input |-> i, tenant |-> t, run |-> hit.run]
    BY <1>1, <1>2 DEF TypeInv
  <2> QED BY <2>2, <2>3 DEF SamePayload, At
<1>3. CASE ~Live(hit)
  BY <1>1, <1>3 DEF Accept, At, TypeInv
<1> QED BY <1>2, <1>3

(* References stay good as long as nothing is written but runs.            *)
LEMMA RefStep == TypeInv /\ RefInv /\ [Next]_vars => RefInv'
<1> SUFFICES ASSUME TypeInv, RefInv, [Next]_vars PROVE RefInv'
  OBVIOUS
<1>0. \A r, k, i, t : Names(r, k, i, t) => Names(r, k, i, t)'
  BY RunsKept DEF Names
<1>a. Ids \subseteq Ids'
  BY RunsKept
<1>b. TypeInv'
  BY TypeStep
<1>1. ASSUME NEW h \in Handlers, Post(h) PROVE RefInv'
  <2>1. \A x \in Handlers \ {h} : handler'[x] = handler[x]
    BY <1>1 DEF Post, Accept, TypeInv
  <2>2. At(h)' \in {"list", "start"}
        \/ (At(h)' = "replied" /\ Names(handler[h].run, handler[h].key, handler[h].input, handler[h].tenant)')
    BY <1>0, <1>1, PostAnswer DEF At
  <2>3. \A s \in Servers, k \in Keys : memory'[s][k] # NoHit => memory'[s][k] = memory[s][k]
    BY <1>1 DEF Post, TypeInv
  <2> QED BY <1>0, <1>a, <1>1, <2>1, <2>2, <2>3 DEF RefInv, Post, At, Putting
<1>2. ASSUME NEW h \in Handlers, Trigger(h) PROVE RefInv'
  BY <1>0, <1>a, <1>2 DEF RefInv, Trigger, At, Putting
<1>3. ASSUME NEW h \in Handlers, List(h) PROVE RefInv'
  <2>1. At(h)' = "count" /\ \A x \in Handlers \ {h} : handler'[x] = handler[x]
    BY <1>3 DEF List, TypeInv, At
  <2> QED BY <1>0, <1>a, <1>3, <2>1 DEF RefInv, List, At, Putting
<1>4. ASSUME NEW h \in Handlers, Count(h) PROVE RefInv'
  <2>1. At(h)' = "count" /\ \A x \in Handlers \ {h} : handler'[x] = handler[x]
    BY <1>4, Kinds DEF Count, TypeInv, At, Asking, Asks
  <2> QED BY <1>0, <1>a, <1>4, <2>1 DEF RefInv, Count, At, Putting
<1>5. ASSUME NEW h \in Handlers, Refuse(h) PROVE RefInv'
  BY <1>0, <1>a, <1>5 DEF RefInv, Refuse, At, Putting, Idle
<1>6. ASSUME NEW h \in Handlers, Start(h) PROVE RefInv'
  <2>1. handler[h] \in Asks BY <1>6, Kinds DEF Start, Asking
  <2>2. /\ At(h)' = "enqueue" /\ handler'[h].run = Len(runs) + 1
        /\ handler'[h].key = handler[h].key /\ handler'[h].input = handler[h].input
        /\ handler'[h].tenant = handler[h].tenant
        /\ \A x \in Handlers \ {h} : handler'[x] = handler[x]
    BY <1>6, <2>1 DEF Start, TypeInv, At, Asks
  <2>3. LET r == Len(runs) + 1 IN
          /\ r \in DOMAIN runs' /\ runs'[r].key = handler[h].key
          /\ runs'[r].input = handler[h].input /\ runs'[r].tenant = handler[h].tenant
    BY <1>6 DEF Start, TypeInv
  <2>4. Names(handler[h].run, handler[h].key, handler[h].input, handler[h].tenant)'
    BY <2>2, <2>3 DEF Names, Ids
  <2> QED BY ZenonT(60), <1>0, <1>a, <1>6, <2>2, <2>4 DEF RefInv, Start, At, Putting
<1>7. ASSUME NEW h \in Handlers, Enqueue(h) PROVE RefInv'
  <2>1. /\ At(h) = "enqueue" /\ At(h)' = "replied"
        /\ handler'[h].run = handler[h].run /\ handler'[h].key = handler[h].key
        /\ handler'[h].input = handler[h].input /\ handler'[h].tenant = handler[h].tenant
        /\ \A x \in Handlers \ {h} : handler'[x] = handler[x]
    BY <1>7, Kinds DEF Enqueue, TypeInv, At, Started, Replies
  <2>2. UNCHANGED <<worker, deadLetters, forgotten>>
    BY <1>7 DEF Enqueue
  <2>3. \A s \in Servers, k \in Keys : memory'[s][k] # NoHit =>
          Names(memory[s][k].run, k, memory[s][k].input, memory[s][k].tenant)'
    BY <1>0, <1>7, <2>1 DEF RefInv, Enqueue, Save, TypeInv
  <2> QED BY <1>0, <1>a, <2>1, <2>2, <2>3 DEF RefInv, At, Putting
<1>8. ASSUME NEW h \in Handlers, Reply(h) PROVE RefInv'
  BY <1>0, <1>a, <1>8 DEF RefInv, Reply, At, Putting, Idle
<1>9. ASSUME NEW h \in Handlers, Requeue(h) PROVE RefInv'
  BY <1>0, <1>a, <1>9 DEF RefInv, Requeue, At, Putting
<1>10. ASSUME NEW h \in Handlers, RequeuePut(h) PROVE RefInv'
  <2>1. handler[h] \in Puts BY <1>10, Kinds DEF RequeuePut, Putting
  <2>2. /\ At(h)' = "mark" /\ handler'[h].run = handler[h].run
        /\ \A x \in Handlers \ {h} : handler'[x] = handler[x]
    BY <1>10, <2>1 DEF RequeuePut, Goes, TypeInv, At, Puts
  <2>3. \A s \in Servers : \A i \in DOMAIN deadLetters'[s] : deadLetters'[s][i].run \in Ids
    <3>1. \A s \in Servers : \A i \in DOMAIN deadLetters[s] : deadLetters[s][i] \in Entry
      BY DEF TypeInv
    <3>2. ASSUME NEW s \in Servers, NEW i \in DOMAIN deadLetters[s]
          PROVE  deadLetters'[s][i].run = deadLetters[s][i].run
      <4>1. deadLetters'[s][i] =
              IF s = handler[h].at /\ deadLetters[s][i].id = handler[h].id
              THEN [deadLetters[s][i] EXCEPT !.puts = @ + 1] ELSE deadLetters[s][i]
        BY <1>10, PutList
      <4> QED BY <3>1, <4>1 DEF Entry
    <3>3. \A s \in Servers : DOMAIN deadLetters'[s] = DOMAIN deadLetters[s]
      BY <1>10, PutList
    <3> QED BY <3>2, <3>3 DEF RefInv
  <2> QED BY <1>0, <1>a, <1>10, <2>2, <2>3 DEF RefInv, RequeuePut, At, Putting
<1>11. ASSUME NEW h \in Handlers, RequeueMark(h) PROVE RefInv'
  <2>1. At(h)' = "idle" /\ \A x \in Handlers \ {h} : handler'[x] = handler[x]
    BY <1>11 DEF RequeueMark, Idle, At, TypeInv
  <2>2. \A s \in Servers : \A i \in DOMAIN deadLetters'[s] : deadLetters'[s][i].run \in Ids
    <3>1. \A s \in Servers : \A i \in DOMAIN deadLetters[s] : deadLetters[s][i] \in Entry
      BY DEF TypeInv
    <3>2. ASSUME NEW s \in Servers, NEW i \in DOMAIN deadLetters[s]
          PROVE  deadLetters'[s][i].run = deadLetters[s][i].run
      <4>1. deadLetters'[s][i] =
              IF s = handler[h].at /\ deadLetters[s][i].id = handler[h].id
              THEN [deadLetters[s][i] EXCEPT !.requeued = TRUE] ELSE deadLetters[s][i]
        BY <1>11, MarkList
      <4> QED BY <3>1, <4>1 DEF Entry
    <3>3. \A s \in Servers : DOMAIN deadLetters'[s] = DOMAIN deadLetters[s]
      BY <1>11, MarkList
    <3> QED BY <3>2, <3>3 DEF RefInv
  <2>3. UNCHANGED <<memory, runs, worker, forgotten>>
    BY <1>11 DEF RequeueMark
  <2> QED BY <1>0, <1>a, <2>1, <2>2, <2>3 DEF RefInv, At, Putting
<1>12. ASSUME NEW h \in Handlers, Fails(h) PROVE RefInv'
  BY <1>0, <1>a, <1>12 DEF RefInv, Fails, Forgets, At, Putting, Idle
<1>13. ASSUME NEW s \in scenario.servers, Lease(s) PROVE RefInv'
  BY <1>0, <1>a, <1>13 DEF RefInv, Lease, At
<1>14. ASSUME NEW s \in scenario.servers, Tick(s) PROVE RefInv'
  BY <1>0, <1>a, <1>14 DEF RefInv, Tick, At, Free
<1>15. ASSUME NEW s \in scenario.servers, Complete(s) PROVE RefInv'
  BY <1>0, <1>a, <1>15 DEF RefInv, Complete, At
<1>16. ASSUME NEW s \in scenario.servers, GiveUp(s) PROVE RefInv'
  <2>1. s \in Servers BY ScenarioParts
  <2>2. worker[s].run \in Ids BY <1>16, <2>1 DEF RefInv, GiveUp, Free
  <2>3. \A i \in DOMAIN Full(s) : Full(s)[i].run \in Ids
    <3>1. \A i \in DOMAIN Full(s) :
              \/ i = 1 /\ Full(s)[i] = Entered(s)
              \/ i - 1 \in DOMAIN deadLetters[s] /\ Full(s)[i] = deadLetters[s][i - 1]
      BY <1>16, <2>1, GiveUpList
    <3>2. Entered(s).run \in Ids BY <2>2 DEF Entered
    <3> QED BY <2>1, <3>1, <3>2 DEF RefInv
  <2>4. \A i \in DOMAIN Cut(Full(s)) : Cut(Full(s))[i].run \in Ids
    BY <1>16, <2>1, <2>3, GiveUpList, CutFront
  <2>5. Dropped(deadLetters[s], Cut(Full(s))) \subseteq Ids
    BY <2>1 DEF Dropped, RefInv
  <2>6. UNCHANGED <<scenario, runs, memory, handler, queue, forgets>>
    BY <1>16 DEF GiveUp
  <2>7. \A x \in Servers : worker'[x] # Free => worker'[x].run \in Ids
    <3>1. worker' = [worker EXCEPT ![s] = [pc |-> "complete", run |-> worker[s].run]]
      BY <1>16, <2>1, GiveUpList
    <3> QED BY <2>1, <2>2, <3>1 DEF RefInv, TypeInv
  <2>8. \A x \in Servers : \A i \in DOMAIN deadLetters'[x] : deadLetters'[x][i].run \in Ids
    <3>1. deadLetters' = [deadLetters EXCEPT ![s] = Cut(Full(s))]
      BY <1>16, <2>1, GiveUpList
    <3> QED BY <2>1, <2>4, <3>1 DEF RefInv, TypeInv
  <2>9. forgotten' \subseteq Ids
    BY <1>16, <2>1, <2>5, GiveUpList DEF RefInv
  <2> QED BY <1>0, <1>a, <2>6, <2>7, <2>8, <2>9 DEF RefInv, At
<1>17. ASSUME NEW s \in scenario.servers, Acknowledge(s) PROVE RefInv'
  BY <1>0, <1>a, <1>17 DEF RefInv, Acknowledge, At
<1>18. ASSUME NEW s \in scenario.servers, Expire(s) PROVE RefInv'
  BY <1>0, <1>a, <1>18 DEF RefInv, Expire, Live, At, NoHit
<1>19. ASSUME NEW s \in scenario.servers, Crash(s) PROVE RefInv'
  <2>1. s \in Servers BY ScenarioParts
  <2>2. /\ deadLetters' = [deadLetters EXCEPT ![s] = << >>]
        /\ worker' = [worker EXCEPT ![s] = Free]
        /\ memory' = [memory EXCEPT ![s] = [k \in Keys |-> NoHit]]
        /\ handler' = [h \in Handlers |->
             IF handler[h] # Idle /\ handler[h].at = s THEN Idle ELSE handler[h]]
        /\ forgotten' = forgotten \cup Dropped(deadLetters[s], << >>)
        /\ runs' = runs
    BY <1>19 DEF Crash
  <2>3. Dropped(deadLetters[s], << >>) \subseteq Ids
    BY <2>1 DEF Dropped, RefInv
  <2>4. \A x \in Servers : worker'[x] # Free => worker'[x].run \in Ids
    BY <2>2 DEF RefInv, TypeInv
  <2>5. \A x \in Servers : \A i \in DOMAIN deadLetters'[x] : deadLetters'[x][i].run \in Ids
    BY <2>2 DEF RefInv, TypeInv
  <2>6. \A x \in Servers, k \in Keys : memory'[x][k] # NoHit => memory'[x][k] = memory[x][k]
    BY <2>2 DEF TypeInv
  <2>7. \A h \in Handlers : handler'[h] = handler[h] \/ At(h)' = "idle"
    BY <2>2 DEF At, Idle
  <2> QED BY <1>0, <1>a, <2>2, <2>3, <2>4, <2>5, <2>6, <2>7 DEF RefInv, At, Putting
<1>20. CASE UNCHANGED vars
  BY <1>0, <1>a, <1>20 DEF RefInv, vars, At
<1> QED
  BY <1>1, <1>2, <1>3, <1>4, <1>5, <1>6, <1>7, <1>8, <1>9, <1>10, <1>11, <1>12,
     <1>13, <1>14, <1>15, <1>16, <1>17, <1>18, <1>19, <1>20 DEF Next, Answers, Works

LEMMA TypeInit == Init => TypeInv
<1> SUFFICES ASSUME Init PROVE TypeInv
  OBVIOUS
<1>1. MaxRuns \in Nat /\ Capacity \in Nat /\ scenario \in Scenarios
  BY ScenariosAssumption, QuotaAssumption DEF Init
<1>2. runs = << >> /\ runs \in Seq(Run) /\ Len(runs) = 0
  BY DEF Init
<1>3. deadLetters \in [Servers -> Seq(Entry)] /\ \A s \in Servers : Len(deadLetters[s]) = 0
  BY DEF Init
<1> QED BY <1>1, <1>2, <1>3 DEF Init, TypeInv

LEMMA RefInit == Init => RefInv
  BY DEF Init, RefInv, At, Idle, Free, Putting

(* The answer of POST /workflows, a repeated one too, names a run that was *)
(* started for this request (routes/workflows.ts:54). *)
THEOREM AnswersAreHonest == Spec => []AnswerHonest
<1>1. Init => TypeInv /\ RefInv
  BY TypeInit, RefInit
<1>2. TypeInv /\ RefInv /\ [Next]_vars => (TypeInv /\ RefInv)'
  BY TypeStep, RefStep
<1>3. TypeInv /\ RefInv => AnswerHonest
  BY DEF RefInv, AnswerHonest, Names
<1> QED BY <1>1, <1>2, <1>3, PTL DEF Spec

-----------------------------------------------------------------------------
(* the requests at a step (pc) of putting entry id of server s back        *)
Putters(s, id, pc) ==
  {h \in Handlers : At(h) = pc /\ handler[h].at = s /\ handler[h].id = id}

(* Entries are told apart by their ids, and each task put back is put back *)
(* by a request that is still to mark the entry, until one has. *)
EntryInv ==
  /\ \A s \in Servers : \A i \in DOMAIN deadLetters[s] : deadLetters[s][i].id <= givenUp
  /\ \A s \in Servers : \A i, j \in DOMAIN deadLetters[s] :
       deadLetters[s][i].id = deadLetters[s][j].id => i = j
  /\ \A h \in Handlers : At(h) \in Putting => handler[h].id <= givenUp
  /\ \A h \in Handlers : At(h) \in Putting =>
       \A i \in DOMAIN deadLetters[handler[h].at] :
         deadLetters[handler[h].at][i].id = handler[h].id =>
           deadLetters[handler[h].at][i].run = handler[h].run
  /\ \A s \in Servers : \A i \in DOMAIN deadLetters[s] :
       ~deadLetters[s][i].requeued =>
         deadLetters[s][i].puts <= Cardinality(Putters(s, deadLetters[s][i].id, "mark"))
  /\ \A s \in Servers : \A i \in DOMAIN deadLetters[s] :
       deadLetters[s][i].puts + Cardinality(Putters(s, deadLetters[s][i].id, "put"))
         <= Cardinality(Handlers)

LEMMA EntryInit == Init => EntryInv
  BY DEF Init, EntryInv, At, Idle, Putting

(* A part of the requests has a number, no more than all.                  *)
LEMMA Few ==
  ASSUME NEW S \in SUBSET Handlers
  PROVE  /\ IsFiniteSet(S) /\ Cardinality(S) \in Nat /\ Cardinality(Handlers) \in Nat
         /\ Cardinality(S) <= Cardinality(Handlers)
         /\ \A T \in SUBSET S : IsFiniteSet(T) /\ Cardinality(T) \in Nat
                                /\ Cardinality(T) <= Cardinality(S)
<1>1. IsFiniteSet(Handlers) BY HandlersAssumption
<1>2. IsFiniteSet(S) /\ Cardinality(S) <= Cardinality(Handlers)
  BY <1>1, FS_Subset
<1>3. \A T \in SUBSET S : IsFiniteSet(T) /\ Cardinality(T) <= Cardinality(S)
  BY <1>2, FS_Subset
<1> QED BY <1>1, <1>2, <1>3, FS_CardinalityType

(* Two parts that do not meet have together no more than all.              *)
LEMMA Apart ==
  ASSUME NEW S \in SUBSET Handlers, NEW T \in SUBSET Handlers, S \cap T = {}
  PROVE  Cardinality(S) + Cardinality(T) <= Cardinality(Handlers)
<1>1. IsFiniteSet(S) /\ IsFiniteSet(T)
      /\ Cardinality(S) \in Nat /\ Cardinality(T) \in Nat
  BY Few
<1>2. Cardinality(S \cup T) = Cardinality(S) + Cardinality(T) - Cardinality(S \cap T)
  BY <1>1, FS_Union
<1>3. Cardinality(S \cap T) = 0 BY FS_EmptySet
<1>4. S \cup T \in SUBSET Handlers OBVIOUS
<1>5. Cardinality(S \cup T) <= Cardinality(Handlers)
  BY <1>4, Few
<1> QED BY <1>1, <1>2, <1>3, <1>5

LEMMA PuttersFew ==
  \A s, id, pc : /\ Putters(s, id, pc) \in SUBSET Handlers
                 /\ IsFiniteSet(Putters(s, id, pc))
                 /\ Cardinality(Putters(s, id, pc)) \in Nat
                 /\ Cardinality(Putters(s, id, pc)) <= Cardinality(Handlers)
<1>1. \A s, id, pc : Putters(s, id, pc) \in SUBSET Handlers
  BY DEF Putters
<1> QED BY <1>1, Few

(* No request begins or leaves the putting back of an entry, and the lists *)
(* keep their entries. *)
LEMMA EntrySame ==
  ASSUME TypeInv, EntryInv, givenUp' = givenUp,
         \A h \in Handlers : At(h) \in Putting \/ At(h)' \in Putting => handler'[h] = handler[h],
         \A s \in Servers : DOMAIN deadLetters'[s] = DOMAIN deadLetters[s],
         \A s \in Servers : \A i \in DOMAIN deadLetters[s] :
           /\ deadLetters'[s][i].id = deadLetters[s][i].id
           /\ deadLetters'[s][i].run = deadLetters[s][i].run
           /\ deadLetters'[s][i].puts = deadLetters[s][i].puts
           /\ deadLetters'[s][i].requeued = deadLetters[s][i].requeued
  PROVE  EntryInv'
<1>1. \A s, id : /\ Putters(s, id, "mark")' = Putters(s, id, "mark")
                 /\ Putters(s, id, "put")' = Putters(s, id, "put")
  BY DEF Putters, At, Putting
<1>2. \A h \in Handlers : At(h)' \in Putting =>
        At(h) \in Putting /\ handler'[h] = handler[h] /\ handler[h].at \in Servers
  BY Kinds DEF At, Puts
<1>3. ASSUME NEW s \in Servers, NEW i \in DOMAIN deadLetters'[s]
      PROVE  /\ deadLetters'[s][i].id <= givenUp'
             /\ \A j \in DOMAIN deadLetters'[s] :
                  deadLetters'[s][i].id = deadLetters'[s][j].id => i = j
             /\ ~deadLetters'[s][i].requeued =>
                  deadLetters'[s][i].puts <= Cardinality(Putters(s, deadLetters[s][i].id, "mark")')
             /\ deadLetters'[s][i].puts + Cardinality(Putters(s, deadLetters[s][i].id, "put")')
                  <= Cardinality(Handlers)
             /\ deadLetters'[s][i].id = deadLetters[s][i].id
  BY <1>1 DEF EntryInv
<1>4. \A h \in Handlers : At(h)' \in Putting =>
        /\ handler'[h].id <= givenUp'
        /\ \A i \in DOMAIN deadLetters'[handler'[h].at] :
             deadLetters'[handler'[h].at][i].id = handler'[h].id =>
               deadLetters'[handler'[h].at][i].run = handler'[h].run
  BY <1>2 DEF EntryInv
<1> QED BY <1>3, <1>4 DEF EntryInv

(* One request moves: it joins those at its new step and leaves the others *)
(* it was with. *)
LEMMA OneMoves ==
  ASSUME NEW h \in Handlers, \A x \in Handlers \ {h} : handler'[x] = handler[x]
  PROVE  \A s, id, pc : Putters(s, id, pc)' =
           IF At(h)' = pc /\ handler'[h].at = s /\ handler'[h].id = id
           THEN Putters(s, id, pc) \cup {h} ELSE Putters(s, id, pc) \ {h}
  BY DEF Putters, At

(* A list loses entries, and requests give up that were to put one back    *)
(* but had not yet: what is left is as it was. *)
LEMMA EntryLoss ==
  ASSUME TypeInv, EntryInv, givenUp' = givenUp,
         \A h \in Handlers : At(h)' \in Putting => handler'[h] = handler[h],
         \A s \in Servers : \/ deadLetters'[s] = << >>
                            \/ /\ deadLetters'[s] = deadLetters[s]
                               /\ \A h \in Handlers : At(h) = "mark" /\ handler[h].at = s =>
                                    handler'[h] = handler[h]
  PROVE  EntryInv'
<1>1. \A h \in Handlers : At(h)' \in Putting =>
        At(h) \in Putting /\ handler'[h] = handler[h] /\ handler[h].at \in Servers
  BY Kinds DEF At, Puts
<1>2. \A s, id : /\ Putters(s, id, "put")' \in SUBSET Putters(s, id, "put")
                 /\ Putters(s, id, "mark")' \in SUBSET Putters(s, id, "mark")
  BY <1>1 DEF Putters, At, Putting
<1>3. ASSUME NEW s \in Servers, NEW i \in DOMAIN deadLetters'[s]
      PROVE  /\ deadLetters'[s][i].id <= givenUp'
             /\ \A j \in DOMAIN deadLetters'[s] :
                  deadLetters'[s][i].id = deadLetters'[s][j].id => i = j
             /\ ~deadLetters'[s][i].requeued => deadLetters'[s][i].puts
                  <= Cardinality(Putters(s, deadLetters[s][i].id, "mark")')
             /\ deadLetters'[s][i].puts + Cardinality(Putters(s, deadLetters[s][i].id, "put")')
                  <= Cardinality(Handlers)
  <2>1. deadLetters'[s] = deadLetters[s] /\ i \in DOMAIN deadLetters[s]
        /\ \A h \in Handlers : At(h) = "mark" /\ handler[h].at = s => handler'[h] = handler[h]
    BY <1>3
  <2>2. deadLetters[s][i].puts \in Nat
    <3>1. deadLetters[s][i] \in Entry BY <2>1 DEF TypeInv
    <3> QED BY <3>1 DEF Entry
  <2>3. \A id : Putters(s, id, "mark")' = Putters(s, id, "mark")
    BY <1>2, <2>1 DEF Putters, At
  <2>4. /\ Cardinality(Putters(s, deadLetters[s][i].id, "put")')
             <= Cardinality(Putters(s, deadLetters[s][i].id, "put"))
        /\ Cardinality(Putters(s, deadLetters[s][i].id, "put")') \in Nat
    <3>1. \A id : Cardinality(Putters(s, id, "put")') <= Cardinality(Putters(s, id, "put"))
                  /\ Cardinality(Putters(s, id, "put")') \in Nat
      BY <1>2, PuttersFew, Few
    <3> QED BY <2>1, <3>1
  <2>5. /\ Cardinality(Putters(s, deadLetters[s][i].id, "put")) \in Nat
        /\ Cardinality(Handlers) \in Nat
    BY PuttersFew, Few
  <2>6. /\ ~deadLetters[s][i].requeued => deadLetters[s][i].puts
             <= Cardinality(Putters(s, deadLetters[s][i].id, "mark"))
        /\ deadLetters[s][i].puts + Cardinality(Putters(s, deadLetters[s][i].id, "put"))
             <= Cardinality(Handlers)
    BY <2>1 DEF EntryInv
  <2>7. deadLetters[s][i].puts + Cardinality(Putters(s, deadLetters[s][i].id, "put")')
          <= Cardinality(Handlers)
    BY <2>2, <2>4, <2>5, <2>6
  <2>8. /\ deadLetters[s][i].id <= givenUp
        /\ \A j \in DOMAIN deadLetters[s] : deadLetters[s][i].id = deadLetters[s][j].id => i = j
    BY <2>1 DEF EntryInv
  <2> QED BY <2>1, <2>3, <2>6, <2>7, <2>8
<1>4. \A h \in Handlers : At(h)' \in Putting =>
        /\ handler'[h].id <= givenUp'
        /\ \A i \in DOMAIN deadLetters'[handler'[h].at] :
             deadLetters'[handler'[h].at][i].id = handler'[h].id =>
               deadLetters'[handler'[h].at][i].run = handler'[h].run
  BY <1>1 DEF EntryInv
<1> QED BY <1>3, <1>4 DEF EntryInv

LEMMA EntryStep == TypeInv /\ EntryInv /\ [Next]_vars => EntryInv'
<1> SUFFICES ASSUME TypeInv, EntryInv, [Next]_vars PROVE EntryInv'
  OBVIOUS
<1>a. \A s \in Servers : \A i \in DOMAIN deadLetters[s] : deadLetters[s][i] \in Entry
  BY DEF TypeInv
<1>b. \A s \in Servers : \A i, j \in DOMAIN deadLetters[s] :
        deadLetters[s][i].id = deadLetters[s][j].id => i = j
  BY DEF EntryInv
<1>1. ASSUME NEW h \in Handlers,
             Post(h) \/ Trigger(h) \/ List(h) \/ Count(h) \/ Refuse(h) \/ Start(h)
               \/ Enqueue(h) \/ Reply(h)
      PROVE EntryInv'
  <2>1. At(h) \notin Putting
    BY <1>1 DEF Post, Trigger, List, Count, Refuse, Start, Enqueue, Reply, Putting
  <2>2. At(h)' \notin Putting /\ \A x \in Handlers \ {h} : handler'[x] = handler[x]
    <3>1. CASE Post(h) BY <3>1 DEF Post, Accept, At, TypeInv, Putting
    <3>2. CASE Trigger(h) BY <3>2 DEF Trigger, At, TypeInv, Putting
    <3>3. CASE List(h) BY <3>3, Kinds DEF List, At, TypeInv, Putting, Asking, Asks
    <3>4. CASE Count(h) BY <3>4, Kinds DEF Count, At, TypeInv, Putting, Asking, Asks
    <3>5. CASE Refuse(h) BY <3>5 DEF Refuse, At, TypeInv, Putting, Idle
    <3>6. CASE Start(h) BY <3>6, Kinds DEF Start, At, TypeInv, Putting, Asking, Asks
    <3>7. CASE Enqueue(h) BY <3>7 DEF Enqueue, At, TypeInv, Putting
    <3>8. CASE Reply(h) BY <3>8 DEF Reply, At, TypeInv, Putting, Idle
    <3> QED BY <1>1, <3>1, <3>2, <3>3, <3>4, <3>5, <3>6, <3>7, <3>8
  <2>3. deadLetters' = deadLetters /\ givenUp' = givenUp
    BY <1>1 DEF Post, Trigger, List, Count, Refuse, Start, Enqueue, Reply
  <2>4. \A x \in Handlers : At(x) \in Putting \/ At(x)' \in Putting => handler'[x] = handler[x]
    BY <2>1, <2>2
  <2> QED BY <2>3, <2>4, EntrySame
<1>2. ASSUME NEW s \in Servers, Lease(s) \/ Tick(s) \/ Complete(s) \/ Expire(s)
      PROVE EntryInv'
  <2>1. deadLetters' = deadLetters /\ givenUp' = givenUp /\ handler' = handler
    BY <1>2 DEF Lease, Tick, Complete, Expire
  <2> QED BY <2>1, EntrySame
<1>3. ASSUME NEW s \in Servers, Acknowledge(s) PROVE EntryInv'
  <2>1. PICK k \in DOMAIN deadLetters[s] :
          deadLetters' = [deadLetters EXCEPT ![s] =
            [deadLetters[s] EXCEPT ![k] = [deadLetters[s][k] EXCEPT !.acknowledged = TRUE]]]
    BY <1>3 DEF Acknowledge
  <2>2. givenUp' = givenUp /\ handler' = handler BY <1>3 DEF Acknowledge
  <2>3. \A x \in Servers : DOMAIN deadLetters'[x] = DOMAIN deadLetters[x]
    BY <2>1 DEF TypeInv
  <2>4. \A x \in Servers : \A i \in DOMAIN deadLetters[x] :
           /\ deadLetters'[x][i].id = deadLetters[x][i].id
           /\ deadLetters'[x][i].run = deadLetters[x][i].run
           /\ deadLetters'[x][i].puts = deadLetters[x][i].puts
           /\ deadLetters'[x][i].requeued = deadLetters[x][i].requeued
    <3>1. \A x \in Servers : \A i \in DOMAIN deadLetters[x] :
            \/ deadLetters'[x][i] = deadLetters[x][i]
            \/ deadLetters'[x][i] = [deadLetters[x][i] EXCEPT !.acknowledged = TRUE]
      BY <2>1 DEF TypeInv
    <3>2. ASSUME NEW x \in Servers, NEW i \in DOMAIN deadLetters[x]
          PROVE  /\ deadLetters'[x][i].id = deadLetters[x][i].id
                 /\ deadLetters'[x][i].run = deadLetters[x][i].run
                 /\ deadLetters'[x][i].puts = deadLetters[x][i].puts
                 /\ deadLetters'[x][i].requeued = deadLetters[x][i].requeued
      <4> DEFINE e == deadLetters[x][i]
                 new == deadLetters'[x][i]
      <4>1. e \in Entry BY <1>a
      <4>2. new = e \/ new = [e EXCEPT !.acknowledged = TRUE] BY <3>1
      <4> HIDE DEF e, new
      <4>3. new.id = e.id /\ new.run = e.run /\ new.puts = e.puts /\ new.requeued = e.requeued
        BY <4>1, <4>2 DEF Entry
      <4> QED BY <4>3 DEF e, new
    <3> QED BY <3>2
  <2> QED BY <2>2, <2>3, <2>4, EntrySame
<1>4. ASSUME NEW h \in Handlers, Requeue(h) PROVE EntryInv'
  <2>1. PICK s \in Servers : \E i \in DOMAIN deadLetters[s] :
          /\ Requeueable(deadLetters[s][i])
          /\ handler' = [handler EXCEPT ![h] =
               [pc |-> "put", at |-> s, id |-> deadLetters[s][i].id, run |-> deadLetters[s][i].run]]
    BY <1>4 DEF Requeue
  <2>2. PICK k \in DOMAIN deadLetters[s] :
          /\ Requeueable(deadLetters[s][k])
          /\ handler' = [handler EXCEPT ![h] =
               [pc |-> "put", at |-> s, id |-> deadLetters[s][k].id, run |-> deadLetters[s][k].run]]
    BY <2>1
  <2> DEFINE id == deadLetters[s][k].id
  <2>3. deadLetters' = deadLetters /\ givenUp' = givenUp /\ At(h) = "idle"
    BY <1>4 DEF Requeue
  <2>4. /\ At(h)' = "put" /\ handler'[h].at = s /\ handler'[h].id = id
        /\ handler'[h].run = deadLetters[s][k].run
        /\ \A x \in Handlers \ {h} : handler'[x] = handler[x]
    BY <2>2 DEF TypeInv, At
  <2>5. \A x, n : /\ Putters(x, n, "mark")' = Putters(x, n, "mark")
                  /\ Putters(x, n, "put")' =
                       IF x = s /\ n = id THEN Putters(x, n, "put") \cup {h} ELSE Putters(x, n, "put")
    BY <2>3, <2>4 DEF Putters, At
  <2>6. \A x \in Handlers : At(x)' \in Putting =>
          /\ handler'[x].id <= givenUp'
          /\ \A i \in DOMAIN deadLetters'[handler'[x].at] :
               deadLetters'[handler'[x].at][i].id = handler'[x].id =>
                 deadLetters'[handler'[x].at][i].run = handler'[x].run
    <3>1. ASSUME NEW x \in Handlers \ {h}, At(x)' \in Putting
          PROVE  At(x) \in Putting /\ handler'[x] = handler[x]
      BY <2>4, <3>1 DEF At
    <3>2. id <= givenUp /\ \A i \in DOMAIN deadLetters[s] :
            deadLetters[s][i].id = id => i = k
      BY <1>b DEF EntryInv
    <3>3. CASE TRUE
      BY <2>3, <2>4, <3>1, <3>2 DEF EntryInv
    <3> QED BY <3>3
  <2>7. deadLetters[s][k].puts + Cardinality(Putters(s, id, "put") \cup {h}) <= Cardinality(Handlers)
    <3>1. deadLetters[s][k].puts <= Cardinality(Putters(s, id, "mark"))
      BY <2>2 DEF EntryInv, Requeueable
    <3>2. Cardinality(Putters(s, id, "put") \cup {h}) + Cardinality(Putters(s, id, "mark"))
            <= Cardinality(Handlers)
      <4>1. (Putters(s, id, "put") \cup {h}) \cap Putters(s, id, "mark") = {}
        BY <2>3 DEF Putters
      <4>2. Putters(s, id, "put") \cup {h} \in SUBSET Handlers
        BY DEF Putters
      <4> QED BY <4>1, <4>2, PuttersFew, Apart
    <3>3. /\ Cardinality(Putters(s, id, "put") \cup {h}) \in Nat
          /\ Cardinality(Putters(s, id, "mark")) \in Nat /\ Cardinality(Handlers) \in Nat
          /\ deadLetters[s][k].puts \in Nat
      <4>1. Putters(s, id, "put") \cup {h} \in SUBSET Handlers
        BY DEF Putters
      <4> QED BY <4>1, <1>a, PuttersFew, Few DEF Entry
    <3> QED BY <3>1, <3>2, <3>3
  <2>8. ASSUME NEW x \in Servers, NEW i \in DOMAIN deadLetters[x]
        PROVE  deadLetters[x][i].puts + Cardinality(Putters(x, deadLetters[x][i].id, "put")')
                 <= Cardinality(Handlers)
    <3>1. CASE x = s /\ deadLetters[x][i].id = id
      <4>1. i = k BY <1>b, <3>1
      <4> QED BY <2>3, <2>5, <2>7, <3>1, <4>1
    <3>2. CASE ~(x = s /\ deadLetters[x][i].id = id)
      <4>1. Putters(x, deadLetters[x][i].id, "put")' = Putters(x, deadLetters[x][i].id, "put")
        BY <2>3, <2>5, <3>2
      <4> QED BY <2>3, <4>1 DEF EntryInv
    <3> QED BY <3>1, <3>2
  <2>9. \A x \in Servers : \A i \in DOMAIN deadLetters[x] :
          ~deadLetters[x][i].requeued =>
            deadLetters[x][i].puts <= Cardinality(Putters(x, deadLetters[x][i].id, "mark")')
    BY <2>3, <2>5 DEF EntryInv
  <2> QED BY <2>3, <2>6, <2>8, <2>9 DEF EntryInv
<1>5. ASSUME NEW h \in Handlers, RequeuePut(h) PROVE EntryInv'
  <2>1. handler[h] \in Puts BY <1>5, PutList
  <2> DEFINE s == handler[h].at
             id == handler[h].id
  <2>2. /\ At(h) = "put" /\ At(h)' = "mark" /\ handler'[h].at = s /\ handler'[h].id = id
        /\ handler'[h].run = handler[h].run
        /\ \A x \in Handlers \ {h} : handler'[x] = handler[x]
    BY <1>5, <2>1 DEF RequeuePut, Goes, TypeInv, At, Puts
  <2>3. \A x, n : /\ Putters(x, n, "mark")' =
                       IF x = s /\ n = id THEN Putters(x, n, "mark") \cup {h} ELSE Putters(x, n, "mark")
                  /\ Putters(x, n, "put")' =
                       IF x = s /\ n = id THEN Putters(x, n, "put") \ {h} ELSE Putters(x, n, "put")
    BY <2>2 DEF Putters, At
  <2>4. h \in Putters(s, id, "put") /\ h \notin Putters(s, id, "mark")
    BY <2>2 DEF Putters
  <2>5. givenUp' = givenUp BY <1>5 DEF RequeuePut
  <2>6. \A x \in Servers : DOMAIN deadLetters'[x] = DOMAIN deadLetters[x]
    BY <1>5, PutList
  <2>7. ASSUME NEW x \in Servers, NEW i \in DOMAIN deadLetters[x]
        PROVE  /\ deadLetters'[x][i].id = deadLetters[x][i].id
               /\ deadLetters'[x][i].run = deadLetters[x][i].run
               /\ deadLetters'[x][i].requeued = deadLetters[x][i].requeued
               /\ deadLetters'[x][i].puts = IF x = s /\ deadLetters[x][i].id = id
                    THEN deadLetters[x][i].puts + 1 ELSE deadLetters[x][i].puts
               /\ deadLetters[x][i].puts \in Nat
    <3> DEFINE e == deadLetters[x][i]
               new == deadLetters'[x][i]
    <3>1. e \in Entry BY <1>a
    <3>2. new = IF x = s /\ e.id = id THEN [e EXCEPT !.puts = @ + 1] ELSE e BY <1>5, PutList
    <3> HIDE DEF e, new, s, id
    <3>3. /\ new.id = e.id /\ new.run = e.run /\ new.requeued = e.requeued /\ e.puts \in Nat
          /\ new.puts = IF x = s /\ e.id = id THEN e.puts + 1 ELSE e.puts
      BY <3>1, <3>2 DEF Entry
    <3> QED BY <3>3 DEF e, new
  <2>8. \A x \in Handlers : At(x)' \in Putting =>
          /\ handler'[x].id <= givenUp'
          /\ \A i \in DOMAIN deadLetters'[handler'[x].at] :
               deadLetters'[handler'[x].at][i].id = handler'[x].id =>
                 deadLetters'[handler'[x].at][i].run = handler'[x].run
    <3>1. ASSUME NEW x \in Handlers, At(x)' \in Putting
          PROVE  /\ At(x) \in Putting /\ handler'[x].id = handler[x].id
                 /\ handler'[x].at = handler[x].at /\ handler'[x].run = handler[x].run
                 /\ handler[x].at \in Servers
      <4>1. At(x) \in Putting /\ handler'[x].id = handler[x].id
            /\ handler'[x].at = handler[x].at /\ handler'[x].run = handler[x].run
        BY <2>2, <3>1 DEF At, Putting
      <4> QED BY <4>1, Kinds DEF Puts
    <3> QED BY <2>5, <2>6, <2>7, <3>1 DEF EntryInv
  <2>9. ASSUME NEW x \in Servers, NEW i \in DOMAIN deadLetters[x]
        PROVE  /\ ~deadLetters'[x][i].requeued => deadLetters'[x][i].puts
                    <= Cardinality(Putters(x, deadLetters[x][i].id, "mark")')
               /\ deadLetters'[x][i].puts + Cardinality(Putters(x, deadLetters[x][i].id, "put")')
                    <= Cardinality(Handlers)
    <3> DEFINE e == deadLetters[x][i]
               marks == Putters(x, e.id, "mark")
               puts == Putters(x, e.id, "put")
    <3>1. /\ ~e.requeued => e.puts <= Cardinality(marks)
          /\ e.puts + Cardinality(puts) <= Cardinality(Handlers)
      BY DEF EntryInv
    <3>2. /\ IsFiniteSet(marks) /\ Cardinality(marks) \in Nat
          /\ IsFiniteSet(puts) /\ Cardinality(puts) \in Nat
          /\ Cardinality(Handlers) \in Nat /\ e.puts \in Nat
      <4>1. e \in Entry BY <1>a
      <4> QED BY <4>1, PuttersFew, Few DEF Entry
    <3>3. CASE x = s /\ e.id = id
      <4>1. Cardinality(marks \cup {h}) = Cardinality(marks) + 1
        BY <2>4, <3>2, <3>3, FS_AddElement
      <4>2. Cardinality(puts \ {h}) = Cardinality(puts) - 1
        BY <2>4, <3>2, <3>3, FS_RemoveElement
      <4>3. Putters(x, deadLetters[x][i].id, "mark")' = marks \cup {h}
            /\ Putters(x, deadLetters[x][i].id, "put")' = puts \ {h}
        BY <2>3, <2>7, <3>3
      <4>4. deadLetters'[x][i].puts = e.puts + 1
            /\ deadLetters'[x][i].requeued = e.requeued
        BY <2>7, <3>3
      <4>5. Cardinality(Putters(x, deadLetters[x][i].id, "mark")') = Cardinality(marks) + 1
            /\ Cardinality(Putters(x, deadLetters[x][i].id, "put")') = Cardinality(puts) - 1
        BY <4>1, <4>2, <4>3
      <4> HIDE DEF e, marks, puts
      <4>6. e.requeued \/ e.puts + 1 <= Cardinality(marks) + 1
        BY <3>1, <3>2
      <4>7. (e.puts + 1) + (Cardinality(puts) - 1) <= Cardinality(Handlers)
        BY <3>1, <3>2
      <4> QED BY <4>4, <4>5, <4>6, <4>7
    <3>4. CASE ~(x = s /\ e.id = id)
      <4>1. Putters(x, deadLetters[x][i].id, "mark")' = marks
            /\ Putters(x, deadLetters[x][i].id, "put")' = puts
        BY <2>3, <2>7, <3>4
      <4> QED BY <2>7, <3>1, <3>4, <4>1
    <3> QED BY <3>3, <3>4
  <2>10. \A x \in Servers : \A i, j \in DOMAIN deadLetters'[x] :
           deadLetters'[x][i].id <= givenUp'
           /\ (deadLetters'[x][i].id = deadLetters'[x][j].id => i = j)
    BY <2>5, <2>6, <2>7 DEF EntryInv
  <2> QED BY <2>6, <2>8, <2>9, <2>10 DEF EntryInv
<1>6. ASSUME NEW h \in Handlers, RequeueMark(h) PROVE EntryInv'
  <2>1. handler[h] \in Puts BY <1>6, MarkList
  <2> DEFINE s == handler[h].at
             id == handler[h].id
  <2>2. /\ At(h) = "mark" /\ At(h)' = "idle"
        /\ \A x \in Handlers \ {h} : handler'[x] = handler[x]
    BY <1>6, <2>1 DEF RequeueMark, TypeInv, At, Idle
  <2>3. \A x, n : /\ Putters(x, n, "put")' = Putters(x, n, "put")
                  /\ ~(x = s /\ n = id) => Putters(x, n, "mark")' = Putters(x, n, "mark")
    BY <2>2 DEF Putters, At
  <2>4. givenUp' = givenUp BY <1>6 DEF RequeueMark
  <2>5. \A x \in Servers : DOMAIN deadLetters'[x] = DOMAIN deadLetters[x]
    BY <1>6, MarkList
  <2>6. ASSUME NEW x \in Servers, NEW i \in DOMAIN deadLetters[x]
        PROVE  /\ deadLetters'[x][i].id = deadLetters[x][i].id
               /\ deadLetters'[x][i].run = deadLetters[x][i].run
               /\ deadLetters'[x][i].puts = deadLetters[x][i].puts
               /\ IF x = s /\ deadLetters[x][i].id = id
                  THEN deadLetters'[x][i].requeued
                  ELSE deadLetters'[x][i].requeued = deadLetters[x][i].requeued
    <3> DEFINE e == deadLetters[x][i]
               new == deadLetters'[x][i]
    <3>1. e \in Entry BY <1>a
    <3>2. new = IF x = s /\ e.id = id THEN [e EXCEPT !.requeued = TRUE] ELSE e
      BY <1>6, MarkList
    <3> HIDE DEF e, new, s, id
    <3>3. /\ new.id = e.id /\ new.run = e.run /\ new.puts = e.puts
          /\ IF x = s /\ e.id = id THEN new.requeued ELSE new.requeued = e.requeued
      BY <3>1, <3>2 DEF Entry
    <3> QED BY <3>3 DEF e, new
  <2>7. \A x \in Handlers : At(x)' \in Putting =>
          /\ handler'[x].id <= givenUp'
          /\ \A i \in DOMAIN deadLetters'[handler'[x].at] :
               deadLetters'[handler'[x].at][i].id = handler'[x].id =>
                 deadLetters'[handler'[x].at][i].run = handler'[x].run
    <3>1. ASSUME NEW x \in Handlers, At(x)' \in Putting
          PROVE  At(x) \in Putting /\ handler'[x] = handler[x] /\ handler[x].at \in Servers
      <4>1. At(x) \in Putting /\ handler'[x] = handler[x]
        BY <2>2, <3>1 DEF At, Putting
      <4> QED BY <4>1, Kinds DEF Puts
    <3> QED BY <2>4, <2>5, <2>6, <3>1 DEF EntryInv
  <2>8. ASSUME NEW x \in Servers, NEW i \in DOMAIN deadLetters[x]
        PROVE  /\ ~deadLetters'[x][i].requeued => deadLetters'[x][i].puts
                    <= Cardinality(Putters(x, deadLetters[x][i].id, "mark")')
               /\ deadLetters'[x][i].puts + Cardinality(Putters(x, deadLetters[x][i].id, "put")')
                    <= Cardinality(Handlers)
    <3>1. /\ ~deadLetters[x][i].requeued => deadLetters[x][i].puts
                    <= Cardinality(Putters(x, deadLetters[x][i].id, "mark"))
          /\ deadLetters[x][i].puts + Cardinality(Putters(x, deadLetters[x][i].id, "put"))
                    <= Cardinality(Handlers)
      BY DEF EntryInv
    <3>2. Putters(x, deadLetters[x][i].id, "put")' = Putters(x, deadLetters[x][i].id, "put")
          /\ (~(x = s /\ deadLetters[x][i].id = id) =>
               Putters(x, deadLetters[x][i].id, "mark")' = Putters(x, deadLetters[x][i].id, "mark"))
      BY <2>3, <2>6
    <3> QED BY <2>6, <3>1, <3>2
  <2>9. \A x \in Servers : \A i, j \in DOMAIN deadLetters'[x] :
           deadLetters'[x][i].id <= givenUp'
           /\ (deadLetters'[x][i].id = deadLetters'[x][j].id => i = j)
    BY <2>4, <2>5, <2>6 DEF EntryInv
  <2> QED BY <2>5, <2>7, <2>8, <2>9 DEF EntryInv
<1>7. ASSUME NEW h \in Handlers, Fails(h) PROVE EntryInv'
  <2>1. /\ At(h) # "mark" /\ At(h)' = "idle"
        /\ \A x \in Handlers \ {h} : handler'[x] = handler[x]
    BY <1>7 DEF Fails, TypeInv, At, Idle
  <2>2. deadLetters' = deadLetters /\ givenUp' = givenUp
    BY <1>7 DEF Fails
  <2>3. \A x \in Handlers : (At(x)' \in Putting \/ At(x) = "mark") => handler'[x] = handler[x]
    BY <2>1 DEF At, Putting
  <2> QED BY <2>2, <2>3, EntryLoss
<1>8. ASSUME NEW s \in Servers, Crash(s) PROVE EntryInv'
  <2>1. /\ givenUp' = givenUp /\ deadLetters' = [deadLetters EXCEPT ![s] = << >>]
        /\ handler' = [h \in Handlers |->
             IF handler[h] # Idle /\ handler[h].at = s THEN Idle ELSE handler[h]]
    BY <1>8 DEF Crash
  <2>2. \A x \in Handlers : At(x)' \in Putting => handler'[x] = handler[x]
    BY <2>1 DEF At, Idle, Putting
  <2>3. ASSUME NEW x \in Servers
        PROVE  \/ deadLetters'[x] = << >>
               \/ /\ deadLetters'[x] = deadLetters[x]
                  /\ \A h \in Handlers : At(h) = "mark" /\ handler[h].at = x =>
                       handler'[h] = handler[h]
    <3>1. CASE x = s BY <2>1, <3>1 DEF TypeInv
    <3>2. CASE x # s BY <2>1, <3>2 DEF TypeInv, At
    <3> QED BY <3>1, <3>2
  <2> QED BY <2>1, <2>2, <2>3, EntryLoss
<1>9. ASSUME NEW s \in Servers, GiveUp(s) PROVE EntryInv'
  <2>1. givenUp' = givenUp + 1 /\ handler' = handler /\ givenUp \in Nat
    BY <1>9 DEF GiveUp, TypeInv
  <2>2. \A x, n, pc : Putters(x, n, pc)' = Putters(x, n, pc)
    BY <2>1 DEF Putters, At
  <2>3. deadLetters' = [deadLetters EXCEPT ![s] = Cut(Full(s))]
    BY <1>9, GiveUpList
  <2>4. /\ DOMAIN Cut(Full(s)) \subseteq DOMAIN Full(s) /\ Full(s) \in Seq(Entry)
        /\ \A i \in DOMAIN Cut(Full(s)) : Cut(Full(s))[i] = Full(s)[i]
    BY <1>9, GiveUpList, CutFront
  <2>5. \A i \in DOMAIN Full(s) :
              \/ i = 1 /\ Full(s)[i] = Entered(s)
              \/ i - 1 \in DOMAIN deadLetters[s] /\ Full(s)[i] = deadLetters[s][i - 1]
    BY <1>9, GiveUpList
  <2>6. ASSUME NEW i \in DOMAIN Cut(Full(s))
        PROVE  \/ i = 1 /\ Cut(Full(s))[i] = Entered(s)
               \/ i - 1 \in DOMAIN deadLetters[s] /\ Cut(Full(s))[i] = deadLetters[s][i - 1]
    BY <2>4, <2>5
  <2>7. Entered(s).id = givenUp + 1 /\ Entered(s).puts = 0 /\ ~Entered(s).requeued
    BY DEF Entered
  <2>8. \A i \in DOMAIN Cut(Full(s)) : i \in Int
    BY <2>4
  <2>9. \A x \in Servers : \A i \in DOMAIN deadLetters[x] :
          deadLetters[x][i].id \in Nat /\ deadLetters[x][i].id <= givenUp
    <3>1. \A x \in Servers : \A i \in DOMAIN deadLetters[x] : deadLetters[x][i].id \in Nat
      BY <1>a DEF Entry
    <3> QED BY <3>1 DEF EntryInv
  <2>10. ASSUME NEW i \in DOMAIN Cut(Full(s)), NEW j \in DOMAIN Cut(Full(s)),
                Cut(Full(s))[i].id = Cut(Full(s))[j].id
         PROVE  i = j
    <3>1. i \in Int /\ j \in Int BY <2>8
    <3>2. CASE i - 1 \in DOMAIN deadLetters[s] /\ Cut(Full(s))[i] = deadLetters[s][i - 1]
      <4>1. ~(j = 1 /\ Cut(Full(s))[j] = Entered(s)) BY <2>1, <2>7, <2>9, <2>10, <3>2
      <4>2. j - 1 \in DOMAIN deadLetters[s] /\ Cut(Full(s))[j] = deadLetters[s][j - 1]
        BY <2>6, <4>1
      <4>3. i - 1 = j - 1 BY <1>b, <2>10, <3>2, <4>2
      <4> QED BY <3>1, <4>3
    <3>3. CASE i = 1 /\ Cut(Full(s))[i] = Entered(s)
      <4>1. ~(j - 1 \in DOMAIN deadLetters[s] /\ Cut(Full(s))[j] = deadLetters[s][j - 1])
        BY <2>1, <2>7, <2>9, <2>10, <3>3
      <4> QED BY <2>6, <3>3, <4>1
    <3> QED BY <2>6, <3>2, <3>3
  <2>11. ASSUME NEW x \in Servers, NEW i \in DOMAIN deadLetters'[x]
         PROVE  /\ deadLetters'[x][i].id <= givenUp'
                /\ ~deadLetters'[x][i].requeued => deadLetters'[x][i].puts
                     <= Cardinality(Putters(x, deadLetters[x][i].id, "mark")')
                /\ deadLetters'[x][i].puts + Cardinality(Putters(x, deadLetters[x][i].id, "put")')
                     <= Cardinality(Handlers)
    <3>1. \/ x = s /\ deadLetters'[x][i] = Entered(s)
          \/ \E j \in DOMAIN deadLetters[x] : deadLetters'[x][i] = deadLetters[x][j]
      BY <2>3, <2>6 DEF TypeInv
    <3>2. CASE deadLetters'[x][i] = Entered(s)
      <4>1. \A n : /\ 0 <= Cardinality(Putters(x, n, "mark"))
                   /\ 0 + Cardinality(Putters(x, n, "put")) <= Cardinality(Handlers)
        BY PuttersFew, Few
      <4> QED BY <2>1, <2>2, <2>7, <3>2, <4>1
    <3>3. ASSUME NEW j \in DOMAIN deadLetters[x], deadLetters'[x][i] = deadLetters[x][j]
          PROVE  /\ deadLetters'[x][i].id <= givenUp'
                 /\ ~deadLetters'[x][i].requeued => deadLetters'[x][i].puts
                      <= Cardinality(Putters(x, deadLetters[x][i].id, "mark")')
                 /\ deadLetters'[x][i].puts + Cardinality(Putters(x, deadLetters[x][i].id, "put")')
                      <= Cardinality(Handlers)
      <4>1. deadLetters[x][j].id <= givenUp + 1 BY <2>1, <2>9
      <4>2. /\ ~deadLetters[x][j].requeued => deadLetters[x][j].puts
                 <= Cardinality(Putters(x, deadLetters[x][j].id, "mark"))
            /\ deadLetters[x][j].puts + Cardinality(Putters(x, deadLetters[x][j].id, "put"))
                 <= Cardinality(Handlers)
        BY DEF EntryInv
      <4>3. /\ Putters(x, deadLetters[x][i].id, "mark")' = Putters(x, deadLetters[x][j].id, "mark")
            /\ Putters(x, deadLetters[x][i].id, "put")' = Putters(x, deadLetters[x][j].id, "put")
        BY <2>2, <3>3
      <4> QED BY <2>1, <3>3, <4>1, <4>2, <4>3
    <3> QED BY <3>1, <3>2, <3>3
  <2>12. \A x \in Servers : \A i, j \in DOMAIN deadLetters'[x] :
           deadLetters'[x][i].id = deadLetters'[x][j].id => i = j
    <3>1. \A x \in Servers : deadLetters'[x] = IF x = s THEN Cut(Full(s)) ELSE deadLetters[x]
      BY <2>3 DEF TypeInv
    <3> QED BY <1>b, <2>10, <3>1
  <2>13. \A h \in Handlers : At(h)' \in Putting =>
           /\ handler'[h].id <= givenUp'
           /\ \A i \in DOMAIN deadLetters'[handler'[h].at] :
                deadLetters'[handler'[h].at][i].id = handler'[h].id =>
                  deadLetters'[handler'[h].at][i].run = handler'[h].run
    <3>1. ASSUME NEW h \in Handlers, At(h) \in Putting
          PROVE  /\ handler[h].id <= givenUp /\ handler[h].id \in Nat /\ handler[h].at \in Servers
                 /\ \A i \in DOMAIN deadLetters[handler[h].at] :
                      deadLetters[handler[h].at][i].id = handler[h].id =>
                        deadLetters[handler[h].at][i].run = handler[h].run
      <4>1. handler[h] \in Puts BY <3>1, Kinds
      <4> QED BY <3>1, <4>1 DEF EntryInv, Puts
    <3>2. ASSUME NEW h \in Handlers, At(h) \in Putting,
                 NEW i \in DOMAIN deadLetters'[handler[h].at],
                 deadLetters'[handler[h].at][i].id = handler[h].id
          PROVE  deadLetters'[handler[h].at][i].run = handler[h].run
      <4>1. \/ deadLetters'[handler[h].at][i] = Entered(s)
            \/ \E j \in DOMAIN deadLetters[handler[h].at] :
                 deadLetters'[handler[h].at][i] = deadLetters[handler[h].at][j]
        BY <2>3, <2>6, <3>1, <3>2 DEF TypeInv
      <4>2. deadLetters'[handler[h].at][i] # Entered(s)
        BY <2>1, <2>7, <3>1, <3>2
      <4> QED BY <3>1, <3>2, <4>1, <4>2
    <3>3. \A h \in Handlers : At(h)' \in Putting =>
            At(h) \in Putting /\ handler'[h] = handler[h] /\ handler[h].id <= givenUp'
      BY <2>1, <3>1 DEF At
    <3> QED BY <3>2, <3>3
  <2> QED BY <2>11, <2>12, <2>13 DEF EntryInv
<1>10. CASE UNCHANGED vars
  <2>1. deadLetters' = deadLetters /\ givenUp' = givenUp /\ handler' = handler
    BY <1>10 DEF vars
  <2> QED BY <2>1, EntrySame
<1> QED
  BY <1>1, <1>2, <1>3, <1>4, <1>5, <1>6, <1>7, <1>8, <1>9, <1>10, ScenarioParts
  DEF Next, Answers, Works

-----------------------------------------------------------------------------
(* A run whose task is not ready and not being handled has an entry that   *)
(* is not put back and that no request is about to mark. *)
Kept(r) ==
  \/ queue[r] > 0
  \/ \E s \in Servers : worker[s].pc = "tick" /\ worker[s].run = r
  \/ \E s \in Servers : \E i \in DOMAIN deadLetters[s] :
       /\ deadLetters[s][i].run = r /\ ~deadLetters[s][i].requeued
       /\ \A h \in Handlers : h \notin Putters(s, deadLetters[s][i].id, "mark")
  \/ r \in forgotten

KeptInv == \A r \in Ids : runs[r].answered /\ Running(r) => Kept(r)

LEMMA KeptInit == Init => KeptInv
  BY DEF Init, KeptInv, Ids

(* A run that is answered and runs was so before, or is answered now.      *)
LEMMA AnsweredBefore ==
  ASSUME TypeInv, RefInv, [Next]_vars, NEW r \in Ids', runs'[r].answered, runs'[r].status = "running"
  PROVE  \/ r \in Ids /\ runs[r].answered /\ Running(r)
         \/ \E h \in Handlers : Enqueue(h) /\ handler[h].run = r /\ r \in 1 .. MaxRuns
<1>0. runs \in Seq(Run) /\ DOMAIN runs = 1 .. Len(runs) /\ Len(runs) \in Nat
  BY DEF TypeInv
<1>1. CASE runs' = runs
  BY <1>1 DEF Ids, Running
<1>2. ASSUME NEW h \in Handlers, Start(h)
      PROVE  r \in Ids /\ runs[r].answered /\ Running(r)
  BY <1>0, <1>2 DEF Start, Ids, Running
<1>3. ASSUME NEW h \in Handlers, Enqueue(h), handler[h].run # r
      PROVE  r \in Ids /\ runs[r].answered /\ Running(r)
  BY <1>0, <1>3 DEF Enqueue, Ids, Running
<1>4. ASSUME NEW h \in Handlers, Enqueue(h), handler[h].run = r
      PROVE  r \in 1 .. MaxRuns
  BY <1>4, Kinds DEF Enqueue, Started
<1>5. ASSUME NEW s \in Servers, Tick(s)
      PROVE  r \in Ids /\ runs[r].answered /\ Running(r)
  <2>1. runs' = [runs EXCEPT ![worker[s].run] = [runs[worker[s].run] EXCEPT !.status = "ended"]]
    BY <1>5 DEF Tick
  <2>2. worker[s].run \in Ids BY <1>5 DEF Tick, RefInv, Free
  <2>3. runs[worker[s].run] \in Run BY <1>0, <2>2 DEF Ids
  <2>4. runs'[worker[s].run].status = "ended" BY <2>1, <2>2, <2>3 DEF Ids, Run
  <2>5. r # worker[s].run BY <2>4
  <2> QED BY <2>1, <2>5 DEF Ids, Running
<1>6. \/ runs' = runs
      \/ \E h \in Handlers : Start(h) \/ Enqueue(h)
      \/ \E s \in Servers : Tick(s)
  BY ScenarioParts DEF Next, vars, Answers, Works, Post, Trigger, List, Count, Refuse, Reply, Requeue,
     RequeuePut, RequeueMark, Fails, Lease, Complete, GiveUp, Acknowledge, Expire, Crash
<1> QED BY <1>1, <1>2, <1>3, <1>4, <1>5, <1>6

(* No request comes to mark an entry, and the lists keep their entries.    *)
LEMMA KeptSame ==
  ASSUME TypeInv, NEW r, Kept(r), queue[r] > 0 => queue'[r] > 0,
         \A s \in Servers : worker[s].pc = "tick" => worker'[s] = worker[s],
         \A h \in Handlers : At(h)' = "mark" => handler'[h] = handler[h],
         \A s \in Servers : DOMAIN deadLetters'[s] = DOMAIN deadLetters[s],
         \A s \in Servers : \A i \in DOMAIN deadLetters[s] :
           /\ deadLetters'[s][i].id = deadLetters[s][i].id
           /\ deadLetters'[s][i].run = deadLetters[s][i].run
           /\ deadLetters'[s][i].requeued = deadLetters[s][i].requeued,
         forgotten \subseteq forgotten'
  PROVE  Kept(r)'
<1>1. CASE queue[r] > 0 BY <1>1 DEF Kept
<1>2. CASE \E s \in Servers : worker[s].pc = "tick" /\ worker[s].run = r
  BY <1>2 DEF Kept
<1>3. CASE r \in forgotten BY <1>3 DEF Kept
<1>4. ASSUME NEW s \in Servers, NEW i \in DOMAIN deadLetters[s],
             deadLetters[s][i].run = r, ~deadLetters[s][i].requeued,
             \A h \in Handlers : h \notin Putters(s, deadLetters[s][i].id, "mark")
      PROVE  Kept(r)'
  <2>1. \A n : \A h \in Handlers : h \in Putters(s, n, "mark")' => h \in Putters(s, n, "mark")
    BY DEF Putters, At
  <2>2. \A h \in Handlers : h \notin Putters(s, deadLetters[s][i].id, "mark")'
    BY <1>4, <2>1
  <2>3. i \in DOMAIN deadLetters'[s] /\ deadLetters'[s][i].run = r /\ ~deadLetters'[s][i].requeued
    BY <1>4
  <2> QED BY <2>2, <2>3 DEF Kept
<1> QED BY <1>1, <1>2, <1>3, <1>4 DEF Kept

(* A run that goes on running is kept on.                                  *)
LEMMA KeptOn ==
  ASSUME TypeInv, RefInv, EntryInv, [Next]_vars,
         NEW r \in Ids, Kept(r), runs'[r].status = "running"
  PROVE  Kept(r)'
<1>0. r \in 1 .. MaxRuns /\ \A x \in 1 .. MaxRuns : queue[x] \in Nat
  BY QueueParts
<1>a. \A s \in Servers : \A i \in DOMAIN deadLetters[s] : deadLetters[s][i] \in Entry
  BY DEF TypeInv
<1>1. ASSUME NEW h \in Handlers,
             Post(h) \/ Trigger(h) \/ List(h) \/ Count(h) \/ Refuse(h) \/ Start(h)
               \/ Enqueue(h) \/ Reply(h) \/ Requeue(h) \/ Fails(h)
      PROVE  Kept(r)'
  <2>1. At(h)' # "mark" /\ \A x \in Handlers \ {h} : handler'[x] = handler[x]
    <3>1. CASE Post(h) BY <3>1 DEF Post, Accept, At, TypeInv
    <3>2. CASE Trigger(h) BY <3>2 DEF Trigger, At, TypeInv
    <3>3. CASE List(h) BY <3>3, Kinds DEF List, At, TypeInv, Asking, Asks
    <3>4. CASE Count(h) BY <3>4, Kinds DEF Count, At, TypeInv, Asking, Asks
    <3>5. CASE Refuse(h) BY <3>5 DEF Refuse, At, TypeInv, Idle
    <3>6. CASE Start(h) BY <3>6, Kinds DEF Start, At, TypeInv, Asking, Asks
    <3>7. CASE Enqueue(h) BY <3>7 DEF Enqueue, At, TypeInv
    <3>8. CASE Reply(h) BY <3>8 DEF Reply, At, TypeInv, Idle
    <3>9. CASE Requeue(h) BY <3>9 DEF Requeue, At, TypeInv
    <3>10. CASE Fails(h) BY <3>10 DEF Fails, At, TypeInv, Idle
    <3> QED BY <1>1, <3>1, <3>2, <3>3, <3>4, <3>5, <3>6, <3>7, <3>8, <3>9, <3>10
  <2>2. deadLetters' = deadLetters /\ worker' = worker /\ forgotten' = forgotten
    BY <1>1 DEF Post, Trigger, List, Count, Refuse, Start, Enqueue, Reply, Requeue, Fails
  <2>3. queue[r] > 0 => queue'[r] > 0
    <3>1. \/ queue' = queue
          \/ /\ handler[h].run \in 1 .. MaxRuns
             /\ queue' = [queue EXCEPT ![handler[h].run] = @ + 1]
      BY <1>1, Kinds DEF Post, Trigger, List, Count, Refuse, Start, Enqueue, Reply, Requeue, Fails, Started
    <3>2. queue[r] \in Nat /\ DOMAIN queue = 1 .. MaxRuns
      BY <1>0 DEF TypeInv
    <3>3. ASSUME NEW n, queue' = [queue EXCEPT ![n] = @ + 1], queue[r] > 0
          PROVE  queue'[r] > 0
      <4>1. queue'[r] = IF r = n THEN queue[r] + 1 ELSE queue[r] BY <1>0, <3>2, <3>3
      <4> QED BY <3>2, <3>3, <4>1
    <3> QED BY <3>1, <3>3
  <2>4. \A x \in Handlers : At(x)' = "mark" => handler'[x] = handler[x]
    BY <2>1
  <2> QED BY <2>2, <2>3, <2>4, KeptSame
<1>2. ASSUME NEW s \in Servers, Complete(s) \/ Expire(s) PROVE Kept(r)'
  <2>1. /\ deadLetters' = deadLetters /\ forgotten' = forgotten /\ queue' = queue /\ handler' = handler
        /\ \A x \in Servers : worker[x].pc = "tick" => worker'[x] = worker[x]
    BY <1>2 DEF Complete, Expire, TypeInv
  <2> QED BY <2>1, KeptSame
<1>3. ASSUME NEW s \in Servers, Acknowledge(s) PROVE Kept(r)'
  <2>1. PICK k \in DOMAIN deadLetters[s] :
          deadLetters' = [deadLetters EXCEPT ![s] =
            [deadLetters[s] EXCEPT ![k] = [deadLetters[s][k] EXCEPT !.acknowledged = TRUE]]]
    BY <1>3 DEF Acknowledge
  <2>2. forgotten' = forgotten /\ queue' = queue /\ handler' = handler /\ worker' = worker
    BY <1>3 DEF Acknowledge
  <2>3. \A x \in Servers : DOMAIN deadLetters'[x] = DOMAIN deadLetters[x]
    BY <2>1 DEF TypeInv
  <2>4. ASSUME NEW x \in Servers, NEW i \in DOMAIN deadLetters[x]
        PROVE  /\ deadLetters'[x][i].id = deadLetters[x][i].id
               /\ deadLetters'[x][i].run = deadLetters[x][i].run
               /\ deadLetters'[x][i].requeued = deadLetters[x][i].requeued
    <3> DEFINE e == deadLetters[x][i]
               new == deadLetters'[x][i]
    <3>1. e \in Entry BY <1>a
    <3>2. new = e \/ new = [e EXCEPT !.acknowledged = TRUE] BY <2>1 DEF TypeInv
    <3> HIDE DEF e, new
    <3>3. new.id = e.id /\ new.run = e.run /\ new.requeued = e.requeued
      BY <3>1, <3>2 DEF Entry
    <3> QED BY <3>3 DEF e, new
  <2> QED BY <2>2, <2>3, <2>4, KeptSame
<1>4. ASSUME NEW s \in Servers, Lease(s) PROVE Kept(r)'
  <2>1. PICK x \in Ids : /\ queue[x] > 0 /\ queue' = [queue EXCEPT ![x] = @ - 1]
                         /\ worker' = [worker EXCEPT ![s] = [pc |-> "tick", run |-> x]]
    BY <1>4 DEF Lease
  <2>2. CASE x = r
    <3>1. worker'[s].pc = "tick" /\ worker'[s].run = r BY <2>1, <2>2 DEF TypeInv
    <3> QED BY <3>1 DEF Kept
  <2>3. CASE x # r
    <3>1. queue[r] > 0 => queue'[r] > 0 BY <2>1, <2>3, <1>0 DEF TypeInv
    <3>2. \A y \in Servers : worker[y].pc = "tick" => worker'[y] = worker[y]
      BY <1>4, <2>1 DEF Lease, TypeInv, Free
    <3>3. deadLetters' = deadLetters /\ forgotten' = forgotten /\ handler' = handler
      BY <1>4 DEF Lease
    <3> QED BY <3>1, <3>2, <3>3, KeptSame
  <2> QED BY <2>2, <2>3
<1>5. ASSUME NEW s \in Servers, Tick(s) PROVE Kept(r)'
  <2>1. /\ worker[s].pc = "tick" /\ worker[s].run \in Ids
        /\ runs' = [runs EXCEPT ![worker[s].run] = [runs[worker[s].run] EXCEPT !.status = "ended"]]
        /\ worker' = [worker EXCEPT ![s] = [worker[s] EXCEPT !.pc = "complete"]]
        /\ deadLetters' = deadLetters /\ forgotten' = forgotten /\ handler' = handler
        /\ queue' = queue
    BY <1>5 DEF Tick, RefInv, Free
  <2>2. runs[worker[s].run] \in Run BY <2>1 DEF TypeInv, Ids
  <2>3. runs'[worker[s].run].status = "ended" BY <2>1, <2>2 DEF Ids, Run
  <2>4. r # worker[s].run BY <2>3
  <2>5. \A x \in Servers : worker[x].pc = "tick" /\ worker[x].run = r => worker'[x] = worker[x]
    BY <2>1, <2>4 DEF TypeInv
  <2>6. \A x, n : Putters(x, n, "mark")' = Putters(x, n, "mark")
    BY <2>1 DEF Putters, At
  <2>7. ASSUME NEW x \in Servers, NEW i \in DOMAIN deadLetters[x],
               \A y \in Handlers : y \notin Putters(x, deadLetters[x][i].id, "mark")
        PROVE  \A y \in Handlers : y \notin Putters(x, deadLetters[x][i].id, "mark")'
    BY <2>1, <2>6, <2>7
  <2> QED BY <2>1, <2>5, <2>7 DEF Kept
<1>6. ASSUME NEW h \in Handlers, RequeuePut(h) PROVE Kept(r)'
  <2>1. handler[h] \in Puts BY <1>6, PutList
  <2> DEFINE s == handler[h].at
             id == handler[h].id
  <2>2. /\ At(h) = "put" /\ handler'[h].at = s /\ handler'[h].id = id
        /\ s \in Servers /\ handler[h].run \in 1 .. MaxRuns
        /\ \A x \in Handlers \ {h} : handler'[x] = handler[x]
    BY <1>6, <2>1 DEF RequeuePut, Goes, TypeInv, At, Puts
  <2>3. /\ queue' = [queue EXCEPT ![handler[h].run] = @ + 1]
        /\ worker' = worker /\ forgotten' = forgotten
    BY <1>6 DEF RequeuePut
  <2>4. queue[r] > 0 \/ r = handler[h].run => queue'[r] > 0
    BY <1>0, <2>2, <2>3 DEF TypeInv
  <2>5. ASSUME NEW x \in Servers, NEW i \in DOMAIN deadLetters[x],
               deadLetters[x][i].run = r, ~deadLetters[x][i].requeued, r # handler[h].run,
               \A y \in Handlers : y \notin Putters(x, deadLetters[x][i].id, "mark")
        PROVE  Kept(r)'
    <3> DEFINE e == deadLetters[x][i]
    <3>1. ~(x = s /\ e.id = id)
      <4>1. x = s /\ e.id = id => e.run = handler[h].run
        BY <2>2 DEF EntryInv, Putting
      <4> QED BY <2>5, <4>1
    <3>2. deadLetters'[x][i] = e /\ i \in DOMAIN deadLetters'[x]
      BY <1>6, <3>1, PutList
    <3>3. \A y \in Handlers : y \in Putters(x, e.id, "mark")' => y \in Putters(x, e.id, "mark")
      <4>1. deadLetters'[x][i].id = e.id BY <3>2
      <4> QED BY <2>2, <3>1, <4>1 DEF Putters, At
    <3> QED BY <2>5, <3>2, <3>3 DEF Kept
  <2> QED BY <2>3, <2>4, <2>5 DEF Kept
<1>7. ASSUME NEW h \in Handlers, RequeueMark(h) PROVE Kept(r)'
  <2>1. handler[h] \in Puts BY <1>7, MarkList
  <2> DEFINE s == handler[h].at
             id == handler[h].id
  <2>2. /\ At(h) = "mark" /\ At(h)' = "idle"
        /\ \A x \in Handlers \ {h} : handler'[x] = handler[x]
    BY <1>7, <2>1 DEF RequeueMark, TypeInv, At, Idle
  <2>3. queue' = queue /\ worker' = worker /\ forgotten' = forgotten
    BY <1>7 DEF RequeueMark
  <2>4. ASSUME NEW x \in Servers, NEW i \in DOMAIN deadLetters[x],
               deadLetters[x][i].run = r, ~deadLetters[x][i].requeued,
               \A y \in Handlers : y \notin Putters(x, deadLetters[x][i].id, "mark")
        PROVE  Kept(r)'
    <3> DEFINE e == deadLetters[x][i]
    <3>1. ~(x = s /\ e.id = id)
      BY <2>2, <2>4 DEF Putters
    <3>2. deadLetters'[x][i] = e /\ i \in DOMAIN deadLetters'[x]
      BY <1>7, <3>1, MarkList
    <3>3. \A y \in Handlers : y \in Putters(x, e.id, "mark")' => y \in Putters(x, e.id, "mark")
      <4>1. deadLetters'[x][i].id = e.id BY <3>2
      <4> QED BY <2>2, <4>1 DEF Putters, At
    <3> QED BY <2>4, <3>2, <3>3 DEF Kept
  <2> QED BY <2>3, <2>4 DEF Kept
<1>8. ASSUME NEW s \in Servers, GiveUp(s) PROVE Kept(r)'
  <2>1. /\ worker' = [worker EXCEPT ![s] = [pc |-> "complete", run |-> worker[s].run]]
        /\ deadLetters' = [deadLetters EXCEPT ![s] = Cut(Full(s))]
        /\ forgotten' = forgotten \cup Dropped(deadLetters[s], Cut(Full(s)))
        /\ Full(s)[1] = Entered(s) /\ 1 \in DOMAIN Cut(Full(s)) /\ Full(s) \in Seq(Entry)
        /\ \A i \in DOMAIN Full(s) :
              \/ i = 1 /\ Full(s)[i] = Entered(s)
              \/ i - 1 \in DOMAIN deadLetters[s] /\ Full(s)[i] = deadLetters[s][i - 1]
    BY <1>8, GiveUpList
  <2>2. queue' = queue /\ handler' = handler /\ givenUp \in Nat BY <1>8 DEF GiveUp, TypeInv
  <2>3. /\ DOMAIN Cut(Full(s)) \subseteq DOMAIN Full(s)
        /\ \A i \in DOMAIN Cut(Full(s)) : Cut(Full(s))[i] = Full(s)[i]
    BY <2>1, CutFront
  <2>4. \A x, n : Putters(x, n, "mark")' = Putters(x, n, "mark")
    BY <2>2 DEF Putters, At
  <2>5. deadLetters'[s] = Cut(Full(s)) /\ \A x \in Servers \ {s} : deadLetters'[x] = deadLetters[x]
    BY <2>1 DEF TypeInv
  <2>6. CASE worker[s].run = r
    <3>1. 1 \in DOMAIN deadLetters'[s] /\ deadLetters'[s][1] = Entered(s)
      BY <2>1, <2>3, <2>5
    <3>2. Entered(s).run = r /\ ~Entered(s).requeued /\ Entered(s).id = givenUp + 1
      BY <2>6 DEF Entered
    <3>3. \A h \in Handlers : h \notin Putters(s, givenUp + 1, "mark")
      <4>1. \A h \in Handlers : At(h) = "mark" => handler[h].id \in Nat /\ handler[h].id <= givenUp
        BY Kinds DEF EntryInv, Putting, Puts
      <4> QED BY <2>2, <4>1 DEF Putters
    <3>4. \A h \in Handlers : h \notin Putters(s, deadLetters[s][1].id, "mark")'
      <4>1. deadLetters'[s][1].id = givenUp + 1 BY <3>1, <3>2
      <4> QED BY <2>4, <3>3, <4>1
    <3> QED BY <3>1, <3>2, <3>4 DEF Kept
  <2>7. CASE worker[s].run # r
    <3>1. ASSUME NEW x \in Servers, worker[x].pc = "tick", worker[x].run = r
          PROVE  worker'[x] = worker[x]
      BY <2>1, <2>7, <3>1 DEF TypeInv
    <3>2. ASSUME NEW i \in DOMAIN deadLetters[s],
                 deadLetters[s][i].run = r, ~deadLetters[s][i].requeued,
                 \A y \in Handlers : y \notin Putters(s, deadLetters[s][i].id, "mark")
          PROVE  Kept(r)'
      <4>1. CASE \A l \in DOMAIN Cut(Full(s)) : Cut(Full(s))[l].id # deadLetters[s][i].id
        <5>1. r \in Dropped(deadLetters[s], Cut(Full(s)))
          BY <3>2, <4>1 DEF Dropped
        <5> QED BY <2>1, <5>1 DEF Kept
      <4>2. ASSUME NEW l \in DOMAIN Cut(Full(s)), Cut(Full(s))[l].id = deadLetters[s][i].id
            PROVE  Kept(r)'
        <5>1. deadLetters[s][i].id \in Nat /\ deadLetters[s][i].id <= givenUp
          <6>1. deadLetters[s][i] \in Entry BY <1>a
          <6> QED BY <6>1 DEF EntryInv, Entry
        <5>2. Cut(Full(s))[l] # Entered(s) BY <2>2, <4>2, <5>1 DEF Entered
        <5>3. l - 1 \in DOMAIN deadLetters[s] /\ Cut(Full(s))[l] = deadLetters[s][l - 1]
          BY <2>1, <2>3, <5>2
        <5>4. l - 1 = i BY <4>2, <5>3 DEF EntryInv
        <5>5. l \in DOMAIN deadLetters'[s] /\ deadLetters'[s][l] = deadLetters[s][i]
          BY <2>5, <5>3, <5>4
        <5>6. \A y \in Handlers : y \notin Putters(s, deadLetters[s][l].id, "mark")'
          <6>1. deadLetters'[s][l].id = deadLetters[s][i].id BY <5>5
          <6> QED BY <2>4, <3>2, <6>1
        <5> QED BY <3>2, <5>5, <5>6 DEF Kept
      <4> QED BY <4>1, <4>2
    <3>3. ASSUME NEW x \in Servers, x # s, NEW i \in DOMAIN deadLetters[x],
                 deadLetters[x][i].run = r, ~deadLetters[x][i].requeued,
                 \A y \in Handlers : y \notin Putters(x, deadLetters[x][i].id, "mark")
          PROVE  Kept(r)'
      <4>1. deadLetters'[x] = deadLetters[x] BY <2>5, <3>3
      <4>2. \A y \in Handlers : y \notin Putters(x, deadLetters[x][i].id, "mark")'
        BY <2>4, <3>3, <4>1
      <4> QED BY <3>3, <4>1, <4>2 DEF Kept
    <3> QED BY <2>1, <2>2, <3>1, <3>2, <3>3 DEF Kept
  <2> QED BY <2>6, <2>7
<1>9. ASSUME NEW s \in Servers, Crash(s) PROVE Kept(r)'
  <2>1. /\ deadLetters' = [deadLetters EXCEPT ![s] = << >>]
        /\ worker' = [worker EXCEPT ![s] = Free]
        /\ queue' = IF worker[s] = Free THEN queue ELSE [queue EXCEPT ![worker[s].run] = @ + 1]
        /\ handler' = [h \in Handlers |->
             IF handler[h] # Idle /\ handler[h].at = s THEN Idle ELSE handler[h]]
        /\ forgotten' = forgotten \cup Dropped(deadLetters[s], << >>)
    BY <1>9 DEF Crash
  <2>2. queue[r] > 0 => queue'[r] > 0
    BY <1>0, <2>1 DEF TypeInv
  <2>3. ASSUME NEW x \in Servers, worker[x].pc = "tick", worker[x].run = r PROVE Kept(r)'
    <3>1. CASE x = s
      <4>1. worker[s] # Free BY <2>3, <3>1 DEF Free
      <4>2. queue'[r] > 0 BY <1>0, <2>1, <2>3, <3>1, <4>1 DEF TypeInv
      <4> QED BY <4>2 DEF Kept
    <3>2. CASE x # s
      <4>1. worker'[x] = worker[x] BY <2>1, <3>2 DEF TypeInv
      <4> QED BY <2>3, <4>1 DEF Kept
    <3> QED BY <3>1, <3>2
  <2>4. ASSUME NEW x \in Servers, NEW i \in DOMAIN deadLetters[x],
               deadLetters[x][i].run = r, ~deadLetters[x][i].requeued,
               \A y \in Handlers : y \notin Putters(x, deadLetters[x][i].id, "mark")
        PROVE  Kept(r)'
    <3>1. CASE x = s
      <4>1. r \in Dropped(deadLetters[s], << >>) BY <2>4, <3>1 DEF Dropped
      <4> QED BY <2>1, <4>1 DEF Kept
    <3>2. CASE x # s
      <4>1. deadLetters'[x] = deadLetters[x] BY <2>1, <3>2 DEF TypeInv
      <4>2. \A n : \A y \in Handlers : y \in Putters(x, n, "mark")' => y \in Putters(x, n, "mark")
        BY <2>1 DEF Putters, At, Idle
      <4>3. \A y \in Handlers : y \notin Putters(x, deadLetters[x][i].id, "mark")'
        BY <2>4, <4>1, <4>2
      <4> QED BY <2>4, <4>1, <4>3 DEF Kept
    <3> QED BY <3>1, <3>2
  <2> QED BY <2>1, <2>2, <2>3, <2>4 DEF Kept
<1>10. CASE UNCHANGED vars
  <2>1. /\ deadLetters' = deadLetters /\ forgotten' = forgotten /\ queue' = queue
        /\ handler' = handler /\ worker' = worker
    BY <1>10 DEF vars
  <2> QED BY <2>1, KeptSame
<1> QED
  BY <1>1, <1>2, <1>3, <1>4, <1>5, <1>6, <1>7, <1>8, <1>9, <1>10, ScenarioParts
  DEF Next, Answers, Works

LEMMA KeptStep == TypeInv /\ RefInv /\ EntryInv /\ KeptInv /\ [Next]_vars => KeptInv'
<1> SUFFICES ASSUME TypeInv, RefInv, EntryInv, KeptInv, [Next]_vars,
                    NEW r \in Ids', runs'[r].answered, runs'[r].status = "running"
             PROVE  Kept(r)'
  BY DEF KeptInv, Running
<1>1. CASE r \in Ids /\ runs[r].answered /\ Running(r)
  <2>1. Kept(r) BY <1>1 DEF KeptInv
  <2> QED BY <1>1, <2>1, KeptOn
<1>2. ASSUME NEW h \in Handlers, Enqueue(h), handler[h].run = r, r \in 1 .. MaxRuns
      PROVE  Kept(r)'
  <2>1. queue'[r] > 0 BY <1>2 DEF Enqueue, TypeInv
  <2> QED BY <2>1 DEF Kept
<1> QED BY <1>1, <1>2, AnsweredBefore

(* What was given up is neither lost nor multiplied, within the bounds of  *)
(* the lists (bootstrap/workers.ts). *)
THEOREM GivenUpTasksAreKept == Spec => []GivenUpTasksKept
<1> DEFINE Inv == TypeInv /\ RefInv /\ EntryInv /\ KeptInv
<1>1. Init => Inv
  BY TypeInit, RefInit, EntryInit, KeptInit
<1>2. Inv /\ [Next]_vars => Inv'
  BY TypeStep, RefStep, EntryStep, KeptStep
<1>3. Inv => GivenUpTasksKept
  <2> SUFFICES ASSUME Inv PROVE GivenUpTasksKept
    OBVIOUS
  <2>1. TypeOK
    <3>1. \A s \in Servers : \/ worker[s] = Free
                             \/ worker[s].pc \in {"tick", "complete"} /\ worker[s].run \in Ids
      BY DEF TypeInv, RefInv, Holds
    <3>2. \A h \in Handlers :
            At(h) \in {"idle", "list", "count", "start", "enqueue", "replied", "put", "mark"}
      BY DEF TypeInv, At, Idle, Asks, Started, Replies, Puts, Asking, Putting
    <3> QED BY <3>1, <3>2 DEF TypeInv, RefInv, TypeOK
  <2>2. AnsweredRunKept
    BY DEF KeptInv, Kept, AnsweredRunKept, Free
  <2>3. EntryPutsBounded
    <3> SUFFICES ASSUME NEW s \in Servers, NEW i \in DOMAIN deadLetters[s]
                 PROVE  deadLetters[s][i].puts <= Cardinality(Handlers)
      BY DEF EntryPutsBounded
    <3> DEFINE n == deadLetters[s][i].puts
               c == Cardinality(Putters(s, deadLetters[s][i].id, "put"))
    <3>1. n + c <= Cardinality(Handlers) BY DEF EntryInv
    <3>2. c \in Nat /\ Cardinality(Handlers) \in Nat BY PuttersFew, Few
    <3>3. n \in Nat
      <4>1. deadLetters[s][i] \in Entry BY DEF TypeInv
      <4> QED BY <4>1 DEF Entry
    <3> HIDE DEF n, c
    <3>4. n <= Cardinality(Handlers) BY <3>1, <3>2, <3>3
    <3> QED BY <3>4 DEF n
  <2> QED BY <2>1, <2>2, <2>3 DEF GivenUpTasksKept
<1> QED BY <1>1, <1>2, <1>3, PTL DEF Spec

-----------------------------------------------------------------------------
(* The requests that may still start a run with this key at this server:   *)
(* those that found no answer of the key and, while there is none, all but *)
(* those that have started theirs. *)
May(k, s, h) ==
  LET asks == handler[h] IN
  IF Live(memory[s][k])
  THEN asks.pc \in Asking /\ asks.at = s /\ asks.key = k
  ELSE ~(asks.pc = "enqueue" /\ asks.at = s /\ asks.key = k)

MayStart(k) == {sh \in scenario.servers \X Handlers : May(k, sh[1], sh[2])}
StartedWith(k) == {r \in Ids : runs[r].key = k}

ServersInv ==
  \A h \in Handlers : At(h) \in Asking \cup {"enqueue"} => handler[h].at \in scenario.servers

(* Each start of a run with a key uses up a request of a server, and only  *)
(* what is forgotten gives a server its requests back. *)
DuplicatesInv ==
  \A k \in Keys : Cardinality(StartedWith(k)) + Cardinality(MayStart(k))
    <= Cardinality(Handlers) * (Cardinality(scenario.servers) + forgets)

LEMMA ServersStep ==
  /\ Init => ServersInv
  /\ TypeInv /\ ServersInv /\ [Next]_vars => ServersInv'
<1>1. Init => ServersInv
  BY DEF Init, ServersInv, At, Idle, Asking
<1> SUFFICES ASSUME TypeInv, ServersInv, [Next]_vars PROVE ServersInv'
  BY <1>1
<1>2. scenario' = scenario
  BY DEF Next, vars, Answers, Works, Post, Trigger, List, Count, Refuse, Start, Enqueue, Reply, Requeue,
     RequeuePut, RequeueMark, Fails, Lease, Tick, Complete, GiveUp, Acknowledge, Expire, Crash
<1>3. ASSUME NEW h \in Handlers, Post(h) \/ Trigger(h)
      PROVE  /\ handler'[h].at \in scenario.servers
             /\ \A x \in Handlers \ {h} : handler'[x] = handler[x]
  BY <1>3 DEF Post, Trigger, Accept, TypeInv
<1>4. ASSUME NEW h \in Handlers, List(h) \/ Count(h) \/ Start(h)
      PROVE  /\ At(h) \in Asking /\ handler'[h].at = handler[h].at
             /\ \A x \in Handlers \ {h} : handler'[x] = handler[x]
  <2>1. At(h) \in Asking BY <1>4 DEF List, Count, Start, Asking
  <2>2. handler[h] \in Asks BY <2>1, Kinds
  <2>3. CASE List(h) BY <2>1, <2>2, <2>3 DEF List, TypeInv, Asks
  <2>4. CASE Count(h) BY <2>1, <2>2, <2>4 DEF Count, TypeInv, Asks
  <2>5. CASE Start(h) BY <2>1, <2>2, <2>5 DEF Start, TypeInv, Asks
  <2> QED BY <1>4, <2>3, <2>4, <2>5
<1>5. ASSUME NEW h \in Handlers,
             Refuse(h) \/ Enqueue(h) \/ Reply(h) \/ Requeue(h) \/ RequeuePut(h) \/ RequeueMark(h)
               \/ Fails(h)
      PROVE  /\ At(h)' \notin Asking \cup {"enqueue"}
             /\ \A x \in Handlers \ {h} : handler'[x] = handler[x]
  <2>1. CASE Refuse(h) \/ Enqueue(h) \/ Reply(h) \/ Requeue(h) \/ RequeueMark(h) \/ Fails(h)
    BY <2>1 DEF Refuse, Enqueue, Reply, Requeue, RequeueMark, Fails, TypeInv, At, Idle, Asking
  <2>2. CASE RequeuePut(h)
    BY <2>2, PutList DEF RequeuePut, Goes, TypeInv, At, Puts, Asking
  <2> QED BY <1>5, <2>1, <2>2
<1>6. ASSUME NEW s \in Servers,
             Lease(s) \/ Tick(s) \/ Complete(s) \/ GiveUp(s) \/ Acknowledge(s) \/ Expire(s)
      PROVE  handler' = handler
  BY <1>6 DEF Lease, Tick, Complete, GiveUp, Acknowledge, Expire
<1>7. ASSUME NEW s \in Servers, Crash(s)
      PROVE  \A x \in Handlers : handler'[x] = handler[x] \/ At(x)' = "idle"
  BY <1>7 DEF Crash, At, Idle
<1>8. \/ \E h \in Handlers : Post(h) \/ Trigger(h)
      \/ \E h \in Handlers : List(h) \/ Count(h) \/ Start(h)
      \/ \E h \in Handlers : Refuse(h) \/ Enqueue(h) \/ Reply(h) \/ Requeue(h) \/ RequeuePut(h)
           \/ RequeueMark(h) \/ Fails(h)
      \/ \E s \in Servers :
           Lease(s) \/ Tick(s) \/ Complete(s) \/ GiveUp(s) \/ Acknowledge(s) \/ Expire(s)
      \/ \E s \in Servers : Crash(s)
      \/ UNCHANGED vars
  BY ScenarioParts DEF Next, Answers, Works
<1>9. CASE \E h \in Handlers : Post(h) \/ Trigger(h)
  BY <1>2, <1>3, <1>9 DEF ServersInv, At
<1>10. CASE \E h \in Handlers : List(h) \/ Count(h) \/ Start(h)
  BY <1>2, <1>4, <1>10 DEF ServersInv, At
<1>11. CASE \E h \in Handlers : Refuse(h) \/ Enqueue(h) \/ Reply(h) \/ Requeue(h) \/ RequeuePut(h)
           \/ RequeueMark(h) \/ Fails(h)
  BY <1>2, <1>5, <1>11 DEF ServersInv, At
<1>12. CASE \E s \in Servers :
           Lease(s) \/ Tick(s) \/ Complete(s) \/ GiveUp(s) \/ Acknowledge(s) \/ Expire(s)
  BY <1>2, <1>6, <1>12 DEF ServersInv, At
<1>13. CASE \E s \in Servers : Crash(s)
  BY <1>2, <1>7, <1>13 DEF ServersInv, At, Asking
<1>14. CASE UNCHANGED vars
  BY <1>2, <1>14 DEF ServersInv, At, vars
<1> QED BY <1>8, <1>9, <1>10, <1>11, <1>12, <1>13, <1>14

(* Both sides of the bound are numbers.                                    *)
LEMMA Numbers ==
  ASSUME TypeInv, NEW k
  PROVE  /\ IsFiniteSet(StartedWith(k)) /\ Cardinality(StartedWith(k)) \in Nat
         /\ IsFiniteSet(MayStart(k)) /\ Cardinality(MayStart(k)) \in Nat
         /\ IsFiniteSet(Handlers) /\ Cardinality(Handlers) \in Nat
         /\ IsFiniteSet(scenario.servers) /\ Cardinality(scenario.servers) \in Nat
         /\ forgets \in Nat
<1>1. IsFiniteSet(scenario.servers) /\ IsFiniteSet(Handlers)
  BY ScenarioParts, HandlersAssumption, FS_Subset
<1>2. IsFiniteSet(scenario.servers \X Handlers)
  BY <1>1, FS_Product
<1>3. IsFiniteSet(MayStart(k))
  BY <1>2, FS_Subset DEF MayStart
<1>4. IsFiniteSet(StartedWith(k))
  <2>1. Len(runs) \in Nat /\ Ids = 1 .. Len(runs) BY DEF TypeInv, Ids
  <2>2. IsFiniteSet(Ids) BY <2>1, FS_Interval
  <2> QED BY <2>2, FS_Subset DEF StartedWith
<1> QED BY <1>1, <1>3, <1>4, FS_CardinalityType DEF TypeInv

LEMMA DuplicatesInit == Init => DuplicatesInv
<1> SUFFICES ASSUME Init, NEW k \in Keys
             PROVE  Cardinality(StartedWith(k)) + Cardinality(MayStart(k))
                      <= Cardinality(Handlers) * (Cardinality(scenario.servers) + forgets)
  BY DEF DuplicatesInv
<1>0. TypeInv BY TypeInit
<1>1. Cardinality(StartedWith(k)) = 0
  <2>1. StartedWith(k) = {} BY DEF Init, StartedWith, Ids
  <2> QED BY <2>1, FS_EmptySet
<1>2. /\ IsFiniteSet(scenario.servers \X Handlers)
      /\ Cardinality(scenario.servers \X Handlers)
           = Cardinality(scenario.servers) * Cardinality(Handlers)
  BY <1>0, Numbers, FS_Product
<1>3. Cardinality(MayStart(k)) <= Cardinality(scenario.servers \X Handlers)
  BY <1>2, FS_Subset DEF MayStart
<1>4. forgets = 0 BY DEF Init
<1> DEFINE a == Cardinality(Handlers)
           b == Cardinality(scenario.servers)
           m == Cardinality(MayStart(k))
<1>5. a \in Nat /\ b \in Nat /\ m \in Nat BY <1>0, Numbers
<1>6. m <= b * a BY <1>2, <1>3
<1> HIDE DEF a, b, m
<1>7. 0 + m <= a * (b + 0)
  BY <1>5, <1>6
<1> QED BY <1>1, <1>4, <1>7 DEF a, b, m

LEMMA BoundGrows ==
  ASSUME NEW a \in Nat, NEW b \in Nat, NEW f \in Nat, NEW g \in Nat, f <= g,
         NEW n \in Nat, NEW m \in Nat, NEW l \in Nat, n + m <= a * (b + f), l <= m
  PROVE  n + l <= a * (b + g)
<1>1. PICK d \in Nat : g = f + d
  <2>1. g - f \in Nat /\ g = f + (g - f) OBVIOUS
  <2> QED BY <2>1
<1>2. a * (b + g) = a * (b + f) + a * d
  BY <1>1
<1>3. a * d \in Nat /\ a * (b + f) \in Nat
  OBVIOUS
<1> QED BY <1>2, <1>3

(* No run is started, and no request may start one that could not before.  *)
LEMMA NoMore ==
  ASSUME TypeInv, TypeInv', DuplicatesInv, NEW k \in Keys,
         scenario' = scenario, forgets <= forgets', StartedWith(k)' = StartedWith(k),
         \A s \in scenario.servers, h \in Handlers : May(k, s, h)' => May(k, s, h)
  PROVE  Cardinality(StartedWith(k)') + Cardinality(MayStart(k)')
           <= Cardinality(Handlers) * (Cardinality(scenario.servers') + forgets')
<1>1. MayStart(k)' \subseteq MayStart(k)
  BY DEF MayStart
<1> DEFINE a == Cardinality(Handlers)
           b == Cardinality(scenario.servers)
           n == Cardinality(StartedWith(k))
           m == Cardinality(MayStart(k))
           m2 == Cardinality(MayStart(k)')
<1>2. m2 <= m
  BY <1>1, Numbers, FS_Subset
<1>3. a \in Nat /\ b \in Nat /\ n \in Nat /\ m \in Nat /\ forgets \in Nat
  BY Numbers
<1>4. m2 \in Nat /\ forgets' \in Nat
  <2>1. IsFiniteSet(MayStart(k)') BY <1>1, Numbers, FS_Subset
  <2> QED BY <2>1, FS_CardinalityType DEF TypeInv
<1>5. n + m <= a * (b + forgets)
  BY DEF DuplicatesInv
<1> HIDE DEF a, b, n, m, m2
<1>6. n + m2 <= a * (b + forgets')
  BY <1>2, <1>3, <1>4, <1>5, BoundGrows
<1> QED BY <1>6 DEF a, b, n, m2

(* Something is forgotten: one server has its requests back.               *)
LEMMA OneServerMore ==
  ASSUME TypeInv, TypeInv', DuplicatesInv, NEW k \in Keys, NEW s \in Servers,
         scenario' = scenario, forgets' = forgets + 1, StartedWith(k)' = StartedWith(k),
         \A x \in scenario.servers, h \in Handlers : May(k, x, h)' => May(k, x, h) \/ x = s
  PROVE  Cardinality(StartedWith(k)') + Cardinality(MayStart(k)')
           <= Cardinality(Handlers) * (Cardinality(scenario.servers') + forgets')
<1>1. MayStart(k)' \subseteq MayStart(k) \cup ({s} \X Handlers)
  BY DEF MayStart
<1> DEFINE a == Cardinality(Handlers)
           b == Cardinality(scenario.servers)
           n == Cardinality(StartedWith(k))
           m == Cardinality(MayStart(k))
           m2 == Cardinality(MayStart(k)')
<1>2. m2 <= m + a /\ m2 \in Nat
  <2> DEFINE all == {s} \X Handlers
             both == MayStart(k) \cup all
  <2>1. IsFiniteSet(all) /\ Cardinality(all) = 1 * a
    <3>1. IsFiniteSet({s}) /\ Cardinality({s}) = 1 BY FS_Singleton
    <3>2. IsFiniteSet(Handlers) BY Numbers
    <3> QED BY <3>1, <3>2, FS_Product
  <2>2. IsFiniteSet(MayStart(k)) BY Numbers
  <2>3. /\ IsFiniteSet(both)
        /\ Cardinality(both) = m + Cardinality(all) - Cardinality(MayStart(k) \cap all)
    BY <2>1, <2>2, FS_Union
  <2>4. Cardinality(MayStart(k) \cap all) \in Nat
    BY <2>2, FS_Intersection, FS_CardinalityType
  <2>5. m2 <= Cardinality(both) /\ IsFiniteSet(MayStart(k)')
    BY <1>1, <2>3, FS_Subset
  <2>6. m2 \in Nat /\ m \in Nat /\ a \in Nat
    BY <2>5, Numbers, FS_CardinalityType
  <2> HIDE DEF all, both, m, m2, a
  <2> QED BY <2>1, <2>3, <2>4, <2>5, <2>6
<1>3. a \in Nat /\ b \in Nat /\ n \in Nat /\ m \in Nat /\ forgets \in Nat
  BY Numbers
<1>4. n + m <= a * (b + forgets)
  BY DEF DuplicatesInv
<1> HIDE DEF a, b, n, m, m2
<1>5. a * (b + (forgets + 1)) = a * (b + forgets) + a /\ a * (b + forgets) \in Nat
  BY <1>3
<1>6. n + m2 <= a * (b + (forgets + 1))
  BY <1>2, <1>3, <1>4, <1>5
<1> QED BY <1>6 DEF a, b, n, m2

(* No run begins: the runs of a key stay the same.                         *)
LEMMA NoneStarted ==
  ASSUME TypeInv, NEW k,
         \/ runs' = runs
         \/ \E h \in Handlers : Enqueue(h)
         \/ \E s \in Servers : Tick(s)
  PROVE  StartedWith(k)' = StartedWith(k)
<1>0. runs \in Seq(Run) BY DEF TypeInv
<1>1. ASSUME NEW r, NEW x, runs' = [runs EXCEPT ![r] = x], r \in Ids => x.key = runs[r].key
      PROVE  StartedWith(k)' = StartedWith(k)
  BY <1>1 DEF StartedWith, Ids
<1>2. \A r \in Ids : runs[r] \in Run
  BY <1>0 DEF Ids
<1>3. ASSUME NEW h \in Handlers, Enqueue(h) PROVE StartedWith(k)' = StartedWith(k)
  <2> DEFINE r == handler[h].run
  <2>1. runs' = [runs EXCEPT ![r] = [runs[r] EXCEPT !.answered = TRUE]] BY <1>3 DEF Enqueue
  <2>2. r \in Ids => [runs[r] EXCEPT !.answered = TRUE].key = runs[r].key BY <1>2 DEF Run
  <2> QED BY <1>1, <2>1, <2>2
<1>4. ASSUME NEW s \in Servers, Tick(s) PROVE StartedWith(k)' = StartedWith(k)
  <2> DEFINE r == worker[s].run
  <2>1. runs' = [runs EXCEPT ![r] = [runs[r] EXCEPT !.status = "ended"]] BY <1>4 DEF Tick
  <2>2. r \in Ids => [runs[r] EXCEPT !.status = "ended"].key = runs[r].key BY <1>2 DEF Run
  <2> QED BY <1>1, <2>1, <2>2
<1>5. CASE runs' = runs
  BY <1>5 DEF StartedWith, Ids
<1> QED BY <1>3, <1>4, <1>5

LEMMA DuplicatesStep == TypeInv /\ ServersInv /\ DuplicatesInv /\ [Next]_vars => DuplicatesInv'
<1> SUFFICES ASSUME TypeInv, ServersInv, DuplicatesInv, [Next]_vars, NEW k \in Keys
             PROVE  Cardinality(StartedWith(k)') + Cardinality(MayStart(k)')
                      <= Cardinality(Handlers) * (Cardinality(scenario.servers') + forgets')
  BY DEF DuplicatesInv
<1> DEFINE Bounded == Cardinality(StartedWith(k)') + Cardinality(MayStart(k)')
                        <= Cardinality(Handlers) * (Cardinality(scenario.servers') + forgets')
<1>a. TypeInv' BY TypeStep
<1>b. forgets \in Nat /\ k # None BY NoneAssumption DEF TypeInv
<1>c. scenario.servers \subseteq Servers BY ScenarioParts
<1>d. scenario' = scenario
  BY ZenonT(40) DEF Next, vars, Answers, Works, Post, Trigger, List, Count, Refuse, Start, Enqueue, Reply, Requeue,
     RequeuePut, RequeueMark, Fails, Lease, Tick, Complete, GiveUp, Acknowledge, Expire, Crash
<1>1. ASSUME NEW h \in Handlers, Post(h) PROVE Bounded
  <2>1. PICK s \in scenario.servers, key \in scenario.keys,
             i \in scenario.inputs, t \in scenario.tenants :
       LET hit == IF key = None THEN NoHit ELSE memory[s][key] IN
       IF Live(hit)
       THEN /\ SamePayload(hit, i, t)
            /\ handler' = [handler EXCEPT ![h] =
                 [pc |-> "replied", at |-> s, key |-> key, input |-> i, tenant |-> t, run |-> hit.run]]
            /\ UNCHANGED memory
       ELSE /\ Accept(h, s, key, i, t, IF t = None THEN "start" ELSE "list")
            /\ memory' = IF key = None THEN memory ELSE [memory EXCEPT ![s][key] = NoHit]
    BY <1>1 DEF Post
  <2>2. /\ At(h) = "idle" /\ \A x \in Handlers \ {h} : handler'[x] = handler[x]
        /\ runs' = runs /\ forgets' = forgets
    BY <1>1 DEF Post, Accept, TypeInv
  <2>3. \A x \in Servers : Live(memory'[x][k]) <=> Live(memory[x][k])
    <3>1. \/ memory' = memory
          \/ ~Live(memory[s][key]) /\ memory' = [memory EXCEPT ![s][key] = NoHit]
      BY <2>1
    <3>2. CASE memory' = memory BY <3>2
    <3>3. CASE ~Live(memory[s][key]) /\ memory' = [memory EXCEPT ![s][key] = NoHit]
      <4>1. \A x \in Servers : memory'[x][k] = memory[x][k]
              \/ (x = s /\ k = key /\ memory'[x][k] = NoHit)
        BY <3>3 DEF TypeInv
      <4>2. ~Live(NoHit) BY DEF Live
      <4> QED BY <3>3, <4>1, <4>2
    <3> QED BY <3>1, <3>2, <3>3
  <2>4. \/ At(h)' = "replied"
        \/ /\ At(h)' \in {"start", "list"} /\ handler'[h].at = s /\ handler'[h].key = key
           /\ key = None \/ ~Live(memory[s][key])
    BY <2>1 DEF Accept, At, TypeInv
  <2>5. \A x \in scenario.servers : May(k, x, h)' => May(k, x, h)
    BY <1>b, <1>c, <2>2, <2>3, <2>4 DEF May, At, Asking
  <2>6. \A x \in scenario.servers, y \in Handlers \ {h} : May(k, x, y)' => May(k, x, y)
    BY <1>c, <2>2, <2>3 DEF May
  <2> QED BY <1>a, <1>b, <1>d, <2>2, <2>5, <2>6, NoMore, NoneStarted
<1>2. ASSUME NEW h \in Handlers, Trigger(h) PROVE Bounded
  <2>1. /\ At(h) = "idle" /\ At(h)' = "start" /\ handler'[h].key = None
        /\ \A x \in Handlers \ {h} : handler'[x] = handler[x]
        /\ runs' = runs /\ forgets' = forgets /\ memory' = memory
    BY <1>2 DEF Trigger, At, TypeInv
  <2>2. \A x \in scenario.servers, y \in Handlers : May(k, x, y)' => May(k, x, y)
    BY <1>b, <2>1 DEF May, At
  <2> QED BY <1>a, <1>b, <1>d, <2>1, <2>2, NoMore, NoneStarted
<1>3. ASSUME NEW h \in Handlers, List(h) \/ Count(h) PROVE Bounded
  <2>1. handler[h] \in Asks /\ At(h) \in Asking
    BY <1>3, Kinds DEF List, Count, Asking
  <2>2. /\ At(h)' \in Asking /\ handler'[h].at = handler[h].at /\ handler'[h].key = handler[h].key
        /\ \A x \in Handlers \ {h} : handler'[x] = handler[x]
        /\ runs' = runs /\ forgets' = forgets /\ memory' = memory
    <3>1. CASE List(h) BY <2>1, <3>1 DEF List, At, Asks, Asking, TypeInv
    <3>2. CASE Count(h) BY <2>1, <3>2 DEF Count, At, Asks, Asking, TypeInv
    <3> QED BY <1>3, <3>1, <3>2
  <2>3. \A x \in scenario.servers, y \in Handlers : May(k, x, y)' => May(k, x, y)
    BY <2>1, <2>2 DEF May, At, Asking
  <2> QED BY <1>a, <1>b, <1>d, <2>2, <2>3, NoMore, NoneStarted
<1>4. ASSUME NEW h \in Handlers, Refuse(h) \/ Reply(h) \/ Requeue(h) \/ RequeuePut(h) \/ RequeueMark(h)
      PROVE  Bounded
  <2>1. /\ At(h) # "enqueue" /\ At(h)' \notin Asking \cup {"enqueue"}
        /\ \A x \in Handlers \ {h} : handler'[x] = handler[x]
        /\ runs' = runs /\ forgets' = forgets /\ memory' = memory
    <3>1. CASE Refuse(h) \/ Reply(h) \/ Requeue(h) \/ RequeueMark(h)
      BY <3>1 DEF Refuse, Reply, Requeue, RequeueMark, TypeInv, At, Idle, Asking
    <3>2. CASE RequeuePut(h)
      BY <3>2, PutList DEF RequeuePut, Goes, TypeInv, At, Puts, Asking
    <3> QED BY <1>4, <3>1, <3>2
  <2>2. \A x \in scenario.servers, y \in Handlers : May(k, x, y)' => May(k, x, y)
    BY <2>1 DEF May, At, Asking
  <2> QED BY <1>a, <1>b, <1>d, <2>1, <2>2, NoMore, NoneStarted
<1>5. ASSUME NEW h \in Handlers, Enqueue(h) PROVE Bounded
  <2>1. handler[h] \in Started /\ At(h) = "enqueue" BY <1>5, Kinds DEF Enqueue
  <2>2. /\ At(h)' = "replied" /\ \A x \in Handlers \ {h} : handler'[x] = handler[x]
        /\ forgets' = forgets
    BY <1>5 DEF Enqueue, At, TypeInv
  <2>3. \A x \in Servers : IF x = handler[h].at /\ k = handler[h].key
          THEN Live(memory'[x][k]) ELSE memory'[x][k] = memory[x][k]
    BY <1>5, <1>b DEF Enqueue, Save, TypeInv, Live, NoHit
  <2>4. \A x \in scenario.servers, y \in Handlers : May(k, x, y)' => May(k, x, y)
    BY <1>c, <2>1, <2>2, <2>3 DEF May, At, Asking
  <2> QED BY <1>5, <1>a, <1>b, <1>d, <2>2, <2>4, NoMore, NoneStarted
<1>6. ASSUME NEW s \in Servers, Lease(s) \/ Tick(s) \/ Complete(s) \/ GiveUp(s) \/ Acknowledge(s)
      PROVE  Bounded
  <2>1. handler' = handler /\ memory' = memory /\ forgets' = forgets
        /\ (runs' = runs \/ Tick(s))
    BY <1>6 DEF Lease, Tick, Complete, GiveUp, Acknowledge
  <2>2. \A x \in scenario.servers, y \in Handlers : May(k, x, y)' => May(k, x, y)
    BY <2>1 DEF May
  <2> QED BY <1>a, <1>b, <1>d, <2>1, <2>2, NoMore, NoneStarted
<1>7. ASSUME NEW s \in Servers, Expire(s) PROVE Bounded
  <2>1. /\ handler' = handler /\ runs' = runs /\ forgets' = forgets + 1
        /\ \A x \in Servers \ {s} : memory'[x] = memory[x]
    BY <1>7 DEF Expire, Forgets, TypeInv
  <2>2. \A x \in scenario.servers, y \in Handlers : May(k, x, y)' => May(k, x, y) \/ x = s
    BY <1>c, <2>1 DEF May
  <2> QED BY <1>a, <1>d, <2>1, <2>2, OneServerMore, NoneStarted
<1>8. ASSUME NEW s \in Servers, Crash(s) PROVE Bounded
  <2>1. /\ runs' = runs /\ forgets' = forgets + 1
        /\ \A x \in Servers \ {s} : memory'[x] = memory[x]
        /\ handler' = [h \in Handlers |->
             IF handler[h] # Idle /\ handler[h].at = s THEN Idle ELSE handler[h]]
    BY <1>8 DEF Crash, Forgets, TypeInv
  <2>2. ASSUME NEW x \in scenario.servers, NEW y \in Handlers, May(k, x, y)', x # s
        PROVE  May(k, x, y)
    <3>1. memory'[x] = memory[x] BY <1>c, <2>1, <2>2
    <3>2. CASE handler'[y] = handler[y] BY <2>2, <3>1, <3>2 DEF May
    <3>3. CASE handler'[y] = Idle /\ handler[y].at = s
      BY <2>2, <3>1, <3>3 DEF May, Idle, Asking
    <3> QED BY <2>1, <3>2, <3>3
  <2>3. \A x \in scenario.servers, y \in Handlers : May(k, x, y)' => May(k, x, y) \/ x = s
    BY <2>2
  <2> QED BY <1>a, <1>d, <2>1, <2>3, OneServerMore, NoneStarted
<1>9. ASSUME NEW h \in Handlers, Fails(h) PROVE Bounded
  <2>1. /\ At(h)' = "idle" /\ \A x \in Handlers \ {h} : handler'[x] = handler[x]
        /\ runs' = runs /\ forgets' = forgets + 1 /\ memory' = memory
    BY <1>9 DEF Fails, Forgets, TypeInv, At, Idle
  <2>2. CASE At(h) = "enqueue"
    <3>1. handler[h].at \in Servers BY <1>c, <2>2 DEF ServersInv
    <3>2. \A x \in scenario.servers, y \in Handlers :
            May(k, x, y)' => May(k, x, y) \/ x = handler[h].at
      BY <2>1 DEF May, At, Asking
    <3> QED BY <1>a, <1>d, <2>1, <3>1, <3>2, OneServerMore, NoneStarted
  <2>3. CASE At(h) # "enqueue"
    <3>1. \A x \in scenario.servers, y \in Handlers : May(k, x, y)' => May(k, x, y)
      BY <2>1, <2>3 DEF May, At, Asking
    <3> QED BY <1>a, <1>b, <1>d, <2>1, <3>1, NoMore, NoneStarted
  <2> QED BY <2>2, <2>3
<1>10. ASSUME NEW h \in Handlers, Start(h) PROVE Bounded
  <2>1. handler[h] \in Asks /\ At(h) \in Asking /\ At(h) # "enqueue"
    BY <1>10, Kinds DEF Start, Asking
  <2> DEFINE s == handler[h].at
             run == [tenant |-> handler[h].tenant, key |-> handler[h].key,
                     input |-> handler[h].input, counted |-> handler[h].counted,
                     status |-> "running", answered |-> FALSE]
  <2>2. s \in scenario.servers BY <2>1 DEF ServersInv
  <2>3. /\ At(h)' = "enqueue" /\ handler'[h].at = s /\ handler'[h].key = handler[h].key
        /\ \A x \in Handlers \ {h} : handler'[x] = handler[x]
        /\ runs' = Append(runs, run) /\ forgets' = forgets /\ memory' = memory
    BY <1>10, <2>1 DEF Start, At, Asks, TypeInv
  <2>4. \A x \in scenario.servers, y \in Handlers :
          May(k, x, y)' => May(k, x, y) /\ ~(x = s /\ y = h /\ k = handler[h].key)
    BY <2>1, <2>3 DEF May, At, Asking
  <2>5. /\ Ids' = Ids \cup {Len(runs) + 1} /\ Len(runs) + 1 \notin Ids
        /\ runs'[Len(runs) + 1] = run /\ \A r \in Ids : runs'[r] = runs[r]
    <3>1. runs \in Seq(Run) BY DEF TypeInv
    <3> HIDE DEF run
    <3> QED BY <2>3, <3>1 DEF Ids
  <2>6. CASE k # handler[h].key
    <3>1. StartedWith(k)' = StartedWith(k)
      BY <2>5, <2>6 DEF StartedWith
    <3> QED BY <1>a, <1>b, <1>d, <2>3, <2>4, <3>1, NoMore
  <2>7. CASE k = handler[h].key
    <3>1. StartedWith(k)' = StartedWith(k) \cup {Len(runs) + 1}
          /\ Len(runs) + 1 \notin StartedWith(k)
      BY <2>5, <2>7 DEF StartedWith
    <3>2. Cardinality(StartedWith(k)') = Cardinality(StartedWith(k)) + 1
      BY <3>1, Numbers, FS_AddElement
    <3>3. MayStart(k)' \subseteq MayStart(k) \ {<<s, h>>}
      BY <1>d, <2>4, <2>7 DEF MayStart
    <3>4. <<s, h>> \in MayStart(k)
      <4>1. May(k, s, h) BY <2>1, <2>7 DEF May, At
      <4> QED BY <2>2, <4>1 DEF MayStart
    <3>5. /\ IsFiniteSet(MayStart(k) \ {<<s, h>>})
          /\ Cardinality(MayStart(k) \ {<<s, h>>}) = Cardinality(MayStart(k)) - 1
      BY <3>4, Numbers, FS_RemoveElement
    <3>6. Cardinality(MayStart(k)') <= Cardinality(MayStart(k)) - 1
          /\ Cardinality(MayStart(k)') \in Nat
      BY <3>3, <3>5, FS_Subset, FS_CardinalityType
    <3> DEFINE n == Cardinality(StartedWith(k))
               n2 == Cardinality(StartedWith(k)')
               m == Cardinality(MayStart(k))
               m2 == Cardinality(MayStart(k)')
               bound == Cardinality(Handlers) * (Cardinality(scenario.servers) + forgets)
    <3>7. n \in Nat /\ m \in Nat /\ bound \in Nat
      <4>1. \A a, b, c \in Nat : a * (b + c) \in Nat OBVIOUS
      <4> QED BY <4>1, Numbers
    <3>8. n + m <= bound BY DEF DuplicatesInv
    <3> HIDE DEF n, n2, m, m2, bound
    <3>9. n2 + m2 <= bound
      <4>1. n2 = n + 1 /\ m2 <= m - 1 /\ m2 \in Nat BY <3>2, <3>6 DEF n, n2, m, m2
      <4> QED BY <3>7, <3>8, <4>1
    <3> QED BY <1>d, <2>3, <3>9 DEF n2, m2, bound
  <2> QED BY <2>6, <2>7
<1>11. CASE UNCHANGED vars
  <2>1. runs' = runs /\ handler' = handler /\ memory' = memory /\ forgets' = forgets
    BY <1>11 DEF vars
  <2>2. \A x \in scenario.servers, y \in Handlers : May(k, x, y)' => May(k, x, y)
    BY <2>1 DEF May
  <2> QED BY <1>a, <1>b, <1>d, <2>1, <2>2, NoMore, NoneStarted
<1> QED
  BY <1>c, <1>1, <1>2, <1>3, <1>4, <1>5, <1>6, <1>7, <1>8, <1>9, <1>10, <1>11
  DEF Next, Answers, Works

(* A key starts one run for each request that may be answered at the same  *)
(* time at each server, and as many again for each time a server forgets   *)
(* (main.ts:141): no other request starts a second run with it. *)
THEOREM DuplicatesAreBounded == Spec => []DuplicatesBounded
<1> DEFINE Inv == TypeInv /\ ServersInv /\ DuplicatesInv
<1>1. Init => Inv
  BY TypeInit, ServersStep, DuplicatesInit
<1>2. Inv /\ [Next]_vars => Inv'
  BY TypeStep, ServersStep, DuplicatesStep
<1>3. Inv => DuplicatesBounded
  <2> SUFFICES ASSUME Inv, NEW k \in Keys
               PROVE  Cardinality(StartedWith(k))
                        <= Cardinality(Handlers) * (Cardinality(scenario.servers) + forgets)
    BY DEF DuplicatesBounded, StartedWith
  <2> DEFINE n == Cardinality(StartedWith(k))
             m == Cardinality(MayStart(k))
             bound == Cardinality(Handlers) * (Cardinality(scenario.servers) + forgets)
  <2>1. n \in Nat /\ m \in Nat /\ bound \in Nat
    <3>1. \A a, b, c \in Nat : a * (b + c) \in Nat OBVIOUS
    <3> QED BY <3>1, Numbers
  <2>2. n + m <= bound BY DEF DuplicatesInv
  <2> HIDE DEF n, m, bound
  <2>3. n <= bound BY <2>1, <2>2
  <2> QED BY <2>3 DEF n, bound
<1> QED BY <1>1, <1>2, <1>3, PTL DEF Spec

-----------------------------------------------------------------------------
(* the runs the quota of t counts that were started up to the m-th, and    *)
(* after it *)
UpTo(t, m)  == {r \in Counted(t) : r <= m}
After(t, m) == {r \in Counted(t) : r > m}

(* the requests for t whose list, of the first listed[h] runs, ends before *)
(* the m-th: they do not see it *)
Behind(t, m, listed) ==
  {h \in Handlers : At(h) = "count" /\ handler[h].tenant = t /\ listed[h] < m}

(* What a request has found so far is at least what its list holds and is  *)
(* still counted. *)
ListsHonest(listed) ==
  \A h \in Handlers : At(h) = "count" /\ handler[h].tenant \in Tenants =>
    /\ listed[h] <= Len(runs)
    /\ handler[h].left \subseteq 1 .. listed[h]
    /\ Cardinality(UpTo(handler[h].tenant, listed[h]) \ handler[h].left) <= handler[h].found

(* Who starts a run without asking is not counted.                         *)
Unasked == \A h \in Handlers : At(h) = "start" => handler[h].tenant = None \/ ~handler[h].counted

(* Once the first m runs fill the quota, only requests whose list ends     *)
(* before them go past it, each once. *)
Overshoot(listed) ==
  \A t \in Tenants, m \in 0 .. Len(runs) :
    Cardinality(UpTo(t, m)) >= Quota =>
      Cardinality(After(t, m)) + Cardinality(Behind(t, m, listed)) <= Cardinality(Handlers) - 1

QuotaInv(listed) == ListsHonest(listed) /\ Unasked /\ Overshoot(listed)

LEMMA LeastNat ==
  ASSUME NEW S \in SUBSET Nat, S # {}
  PROVE  \E x \in S : \A y \in S : x <= y
<1> DEFINE R == {ss \in Nat \X Nat : ss[1] < ss[2]}
<1>1. OpToRel(<, Nat) = R
  BY DEF OpToRel
<1>2. IsWellFoundedOn(R, Nat)
  BY NatLessThanWellFounded, <1>1
<1>3. PICK x \in S : \A y \in S : <<y, x>> \notin R
  <2> HIDE DEF R
  <2> QED BY <1>2, WFMin
<1>4. \A y \in S : ~(y < x)
  BY <1>3
<1>5. \A y \in S : x <= y
  BY <1>4
<1> QED BY <1>5

(* What is counted is finite, and so is every part of it.                  *)
LEMMA CountedParts ==
  ASSUME TypeInv, NEW t
  PROVE  /\ Len(runs) \in Nat /\ Ids = 1 .. Len(runs)
         /\ Counted(t) \in SUBSET (1 .. Len(runs))
         /\ \A S \in SUBSET Counted(t) :
              /\ IsFiniteSet(S) /\ Cardinality(S) \in Nat
              /\ \A T \in SUBSET S : Cardinality(T) <= Cardinality(S)
<1>1. Len(runs) \in Nat /\ Ids = 1 .. Len(runs) BY DEF TypeInv, Ids
<1>2. Counted(t) \in SUBSET (1 .. Len(runs)) BY <1>1 DEF Counted
<1>3. IsFiniteSet(Counted(t))
  <2>1. IsFiniteSet(1 .. Len(runs)) BY <1>1, FS_Interval
  <2> QED BY <1>2, <2>1, FS_Subset
<1>4. ASSUME NEW S \in SUBSET Counted(t)
      PROVE  /\ IsFiniteSet(S) /\ Cardinality(S) \in Nat
             /\ \A T \in SUBSET S : Cardinality(T) <= Cardinality(S)
  <2>1. IsFiniteSet(S) BY <1>3, FS_Subset
  <2> QED BY <2>1, FS_Subset, FS_CardinalityType
<1> QED BY <1>1, <1>2, <1>4

LEMMA BehindFew ==
  \A t, m, listed : /\ Behind(t, m, listed) \in SUBSET Handlers
                    /\ IsFiniteSet(Behind(t, m, listed))
                    /\ Cardinality(Behind(t, m, listed)) \in Nat
<1>1. \A t, m, listed : Behind(t, m, listed) \in SUBSET Handlers
  BY DEF Behind
<1> QED BY <1>1, Few

LEMMA QuotaInit == Init => \A listed \in [Handlers -> Nat] : QuotaInv(listed)
<1> SUFFICES ASSUME Init, NEW listed \in [Handlers -> Nat] PROVE QuotaInv(listed)
  OBVIOUS
<1>1. \A h \in Handlers : At(h) = "idle" BY DEF Init, At, Idle
<1>2. \A t, m : UpTo(t, m) = {} BY DEF Init, UpTo, Counted, Ids
<1>3. \A t, m : ~(Cardinality(UpTo(t, m)) >= Quota)
  BY <1>2, FS_EmptySet, QuotaAssumption
<1> QED BY <1>1, <1>3 DEF QuotaInv, ListsHonest, Unasked, Overshoot

(* While no run begins, what is counted only shrinks.                      *)
LEMMA CountedShrinks ==
  ASSUME TypeInv, [Next]_vars, NEW t
  PROVE  /\ \A r \in Counted(t)' : r \in Ids => r \in Counted(t)
         /\ Ids' = Ids \/ \E h \in Handlers : Start(h)
<1>1. \A r \in Counted(t)' : r \in Ids => r \in Counted(t)
  BY RunsKept DEF Counted, Running
<1>2. \/ runs' = runs
      \/ \E h \in Handlers : Start(h) \/ Enqueue(h)
      \/ \E s \in Servers : Tick(s)
  BY ScenarioParts DEF Next, vars, Answers, Works, Post, Trigger, List, Count, Refuse, Reply, Requeue,
     RequeuePut, RequeueMark, Fails, Lease, Complete, GiveUp, Acknowledge, Expire, Crash
<1>3. Ids' = Ids \/ \E h \in Handlers : Start(h)
  BY <1>2 DEF Enqueue, Tick, Ids
<1> QED BY <1>1, <1>3

(* While no run begins and no list gets shorter, the overshoot is bounded  *)
(* on. *)
LEMMA OvershootStays ==
  ASSUME TypeInv, TypeInv', NEW listed, NEW new, Overshoot(listed), Ids' = Ids,
         \A t \in Tenants : Counted(t)' \subseteq Counted(t),
         \A t \in Tenants, m \in 0 .. Len(runs) : Behind(t, m, new)' \subseteq Behind(t, m, listed)
  PROVE  Overshoot(new)'
<1>1. Len(runs') = Len(runs) /\ Len(runs) \in Nat
  BY DEF TypeInv, Ids
<1>2. ASSUME NEW t \in Tenants, NEW m \in 0 .. Len(runs), Cardinality(UpTo(t, m)') >= Quota
      PROVE  Cardinality(After(t, m)') + Cardinality(Behind(t, m, new)') <= Cardinality(Handlers) - 1
  <2>1. /\ UpTo(t, m) \in SUBSET Counted(t) /\ UpTo(t, m)' \in SUBSET UpTo(t, m)
        /\ After(t, m) \in SUBSET Counted(t) /\ After(t, m)' \in SUBSET After(t, m)
    BY DEF UpTo, After
  <2>2. /\ Cardinality(UpTo(t, m)') <= Cardinality(UpTo(t, m)) /\ Cardinality(UpTo(t, m)) \in Nat
        /\ Cardinality(After(t, m)') <= Cardinality(After(t, m)) /\ Cardinality(After(t, m)) \in Nat
        /\ Cardinality(UpTo(t, m)') \in Nat /\ Cardinality(After(t, m)') \in Nat
    <3>1. UpTo(t, m)' \in SUBSET Counted(t) /\ After(t, m)' \in SUBSET Counted(t)
      BY <2>1
    <3> QED BY <2>1, <3>1, CountedParts
  <2>3. /\ Cardinality(Behind(t, m, new)') <= Cardinality(Behind(t, m, listed))
        /\ Cardinality(Behind(t, m, new)') \in Nat /\ Cardinality(Behind(t, m, listed)) \in Nat
        /\ Cardinality(Handlers) \in Nat
    BY BehindFew, Few
  <2>4. Cardinality(UpTo(t, m)) >= Quota BY <1>2, <2>2, QuotaAssumption
  <2>5. Cardinality(After(t, m)) + Cardinality(Behind(t, m, listed)) <= Cardinality(Handlers) - 1
    BY <2>4 DEF Overshoot
  <2> QED BY <2>2, <2>3, <2>5
<1> QED BY <1>1, <1>2 DEF Overshoot

(* No run begins, and no request begins to count or goes on counting.      *)
LEMMA QuotaSame ==
  ASSUME TypeInv, TypeInv', NEW listed, QuotaInv(listed), Ids' = Ids,
         \A t \in Tenants : Counted(t)' \subseteq Counted(t),
         \A h \in Handlers : At(h)' = "count" => handler'[h] = handler[h],
         \A h \in Handlers : At(h)' = "start" =>
           handler'[h] = handler[h] \/ handler'[h].tenant = None \/ ~handler'[h].counted
  PROVE  QuotaInv(listed)'
<1>1. \A t \in Tenants, m \in 0 .. Len(runs) : Behind(t, m, listed)' \subseteq Behind(t, m, listed)
  BY DEF Behind, At
<1>2. Overshoot(listed)'
  BY <1>1, OvershootStays DEF QuotaInv
<1>3. Unasked'
  BY DEF QuotaInv, Unasked, At
<1>4. ASSUME NEW h \in Handlers, At(h)' = "count", handler'[h].tenant \in Tenants
      PROVE  /\ listed[h] <= Len(runs')
             /\ handler'[h].left \subseteq 1 .. listed[h]
             /\ Cardinality(UpTo(handler[h].tenant, listed[h])' \ handler'[h].left) <= handler'[h].found
  <2>1. Len(runs') = Len(runs) BY DEF TypeInv, Ids
  <2>2. handler'[h] = handler[h] /\ At(h) = "count" BY <1>4 DEF At
  <2> DEFINE t == handler[h].tenant
             seen == UpTo(t, listed[h]) \ handler[h].left
             seen2 == UpTo(t, listed[h])' \ handler'[h].left
  <2>3. /\ listed[h] <= Len(runs) /\ handler[h].left \subseteq 1 .. listed[h]
        /\ Cardinality(seen) <= handler[h].found
    BY <1>4, <2>2 DEF QuotaInv, ListsHonest
  <2>4. handler[h].found \in Nat BY <2>2, Kinds DEF Asks, Asking
  <2>5. seen \in SUBSET Counted(t) /\ seen2 \in SUBSET seen
    BY <1>4, <2>2 DEF UpTo
  <2>6. Cardinality(seen2) <= Cardinality(seen) /\ Cardinality(seen) \in Nat
        /\ Cardinality(seen2) \in Nat
    <3>1. seen2 \in SUBSET Counted(t) BY <2>5
    <3> QED BY <2>5, <3>1, CountedParts
  <2> HIDE DEF seen, seen2
  <2>7. Cardinality(seen2) <= handler[h].found BY <2>3, <2>4, <2>6
  <2> QED BY <2>1, <2>2, <2>3, <2>7 DEF seen2
<1> QED BY <1>2, <1>3, <1>4 DEF QuotaInv, ListsHonest

(* A request lists the runs: its list ends with the last.                  *)
LEMMA QuotaList ==
  ASSUME TypeInv, TypeInv', NEW listed \in [Handlers -> Nat], QuotaInv(listed),
         \A t \in Tenants : Counted(t)' \subseteq Counted(t), NEW h \in Handlers, List(h),
         NEW new, new[h] = Len(runs), \A x \in Handlers \ {h} : new[x] = listed[x]
  PROVE  QuotaInv(new)'
<1>0. /\ handler[h] \in Asks /\ runs' = runs /\ Len(runs) \in Nat /\ Ids = 1 .. Len(runs)
      /\ Ids' = Ids
  BY Kinds DEF List, Asking, TypeInv, Ids
<1>1. /\ At(h)' = "count" /\ handler'[h].left = Ids /\ handler'[h].tenant = handler[h].tenant
      /\ handler'[h].found \in Nat
      /\ \A x \in Handlers \ {h} : handler'[x] = handler[x]
  BY <1>0 DEF List, At, TypeInv, Asks
<1>2. new[h] = Len(runs) /\ \A x \in Handlers \ {h} : new[x] = listed[x]
  OBVIOUS
<1>3. ASSUME NEW t \in Tenants, NEW m \in 0 .. Len(runs)
      PROVE  Behind(t, m, new)' \subseteq Behind(t, m, listed)
  <2>1. h \notin Behind(t, m, new)' BY <1>0, <1>2 DEF Behind
  <2>2. \A x \in Handlers \ {h} : x \in Behind(t, m, new)' => x \in Behind(t, m, listed)
    BY <1>1, <1>2 DEF Behind, At
  <2>3. Behind(t, m, new)' \subseteq Handlers BY DEF Behind
  <2> QED BY <2>1, <2>2, <2>3
<1>4. Overshoot(new)'
  BY <1>0, <1>3, OvershootStays DEF QuotaInv
<1>5. Unasked'
  BY <1>1 DEF QuotaInv, Unasked, At
<1>6. \A t, m : UpTo(t, m)' = UpTo(t, m)
  BY <1>0 DEF UpTo, Counted, Ids, Running
<1>7. ASSUME NEW x \in Handlers, At(x)' = "count", handler'[x].tenant \in Tenants
      PROVE  /\ new[x] <= Len(runs')
             /\ handler'[x].left \subseteq 1 .. new[x]
             /\ Cardinality(UpTo(handler'[x].tenant, new[x]) \ handler'[x].left) <= handler'[x].found
  <2>1. CASE x = h
    <3>1. UpTo(handler'[h].tenant, new[h]) \ handler'[h].left = {}
      BY <1>1 DEF UpTo, Counted
    <3>2. Cardinality(UpTo(handler'[h].tenant, new[h]) \ handler'[h].left) = 0
      BY <3>1, FS_EmptySet
    <3>3. handler'[h].left \subseteq 1 .. new[h] BY <1>0, <1>1, <1>2
    <3>4. new[h] <= Len(runs') BY <1>0, <1>2
    <3>5. Cardinality(UpTo(handler'[h].tenant, new[h]) \ handler'[h].left) <= handler'[h].found
      BY <1>1, <3>2
    <3> QED BY <2>1, <3>3, <3>4, <3>5
  <2>2. CASE x # h
    <3>1. handler'[x] = handler[x] /\ new[x] = listed[x] /\ At(x) = "count"
      BY <1>1, <1>2, <1>7, <2>2 DEF At
    <3> QED BY <1>0, <1>7, <3>1 DEF QuotaInv, ListsHonest
  <2> QED BY <2>1, <2>2
<1>8. ListsHonest(new)'
  BY <1>6, <1>7 DEF ListsHonest
<1> QED BY <1>4, <1>5, <1>8 DEF QuotaInv

(* A request loads a run of its list and counts it, if it is to be counted.*)
LEMMA QuotaCount ==
  ASSUME TypeInv, TypeInv', NEW listed \in [Handlers -> Nat], QuotaInv(listed),
         \A t \in Tenants : Counted(t)' \subseteq Counted(t), NEW h \in Handlers, Count(h)
  PROVE  QuotaInv(listed)'
<1>0. /\ handler[h] \in Asks /\ runs' = runs /\ Ids' = Ids /\ At(h) = "count"
  BY Kinds DEF Count, Asking, Ids
<1>1. PICK r \in handler[h].left :
        handler' = [handler EXCEPT ![h] = [handler[h] EXCEPT !.left = handler[h].left \ {r},
            !.found = IF Running(r) /\ runs[r].tenant = handler[h].tenant
                      THEN handler[h].found + 1 ELSE handler[h].found]]
  BY DEF Count
<1>2. /\ At(h)' = "count" /\ handler'[h].left = handler[h].left \ {r}
      /\ handler'[h].tenant = handler[h].tenant
      /\ handler'[h].found = IF Running(r) /\ runs[r].tenant = handler[h].tenant
                             THEN handler[h].found + 1 ELSE handler[h].found
      /\ \A x \in Handlers \ {h} : handler'[x] = handler[x]
      /\ handler[h].found \in Nat
  BY <1>0, <1>1 DEF At, TypeInv, Asks
<1>3. \A t \in Tenants, m \in 0 .. Len(runs) : Behind(t, m, listed)' \subseteq Behind(t, m, listed)
  BY <1>0, <1>2 DEF Behind, At
<1>4. Overshoot(listed)'
  BY <1>0, <1>3, OvershootStays DEF QuotaInv
<1>5. Unasked'
  BY <1>2 DEF QuotaInv, Unasked, At
<1>6. \A t, m : UpTo(t, m)' = UpTo(t, m)
  BY <1>0 DEF UpTo, Counted, Ids, Running
<1>7. ASSUME NEW x \in Handlers, At(x)' = "count", handler'[x].tenant \in Tenants
      PROVE  /\ listed[x] <= Len(runs')
             /\ handler'[x].left \subseteq 1 .. listed[x]
             /\ Cardinality(UpTo(handler'[x].tenant, listed[x]) \ handler'[x].left) <= handler'[x].found
  <2>1. CASE x = h
    <3> DEFINE t == handler[h].tenant
               seen == UpTo(t, listed[h]) \ handler[h].left
               seen2 == UpTo(t, listed[h]) \ (handler[h].left \ {r})
    <3>1. /\ listed[h] <= Len(runs) /\ handler[h].left \subseteq 1 .. listed[h]
          /\ Cardinality(seen) <= handler[h].found
      BY <1>0, <1>2, <1>7, <2>1 DEF QuotaInv, ListsHonest
    <3>2. seen \in SUBSET Counted(t) /\ seen2 \in SUBSET Counted(t)
      BY DEF UpTo
    <3>3. IsFiniteSet(seen) /\ Cardinality(seen) \in Nat /\ Cardinality(seen2) \in Nat
      BY <3>2, CountedParts
    <3>4. Cardinality(seen2) <= handler'[h].found
      <4>1. CASE Running(r) /\ runs[r].tenant = t
        <5>1. seen2 \subseteq seen \cup {r} OBVIOUS
        <5>2. IsFiniteSet(seen \cup {r}) /\ Cardinality(seen \cup {r}) <= Cardinality(seen) + 1
          <6> HIDE DEF seen
          <6>1. /\ IsFiniteSet(seen \cup {r})
                /\ Cardinality(seen \cup {r}) =
                     IF r \in seen THEN Cardinality(seen) ELSE Cardinality(seen) + 1
            BY <3>3, FS_AddElement
          <6> QED BY <3>3, <6>1
        <5>3. Cardinality(seen2) <= Cardinality(seen \cup {r}) /\ Cardinality(seen \cup {r}) \in Nat
          BY <5>1, <5>2, FS_Subset, FS_CardinalityType
        <5>4. handler'[h].found = handler[h].found + 1 BY <1>2, <4>1
        <5> HIDE DEF seen, seen2
        <5> QED BY <1>2, <3>1, <3>3, <5>2, <5>3, <5>4
      <4>2. CASE ~(Running(r) /\ runs[r].tenant = t)
        <5>1. seen2 \subseteq seen
          BY <4>2 DEF UpTo, Counted
        <5>2. Cardinality(seen2) <= Cardinality(seen) BY <3>3, <5>1, FS_Subset
        <5>3. handler'[h].found = handler[h].found BY <1>2, <4>2
        <5> HIDE DEF seen, seen2
        <5> QED BY <1>2, <3>1, <3>3, <5>2, <5>3
      <4> QED BY <4>1, <4>2
    <3> QED BY <1>0, <1>2, <2>1, <3>1, <3>4
  <2>2. CASE x # h
    <3>1. handler'[x] = handler[x] /\ At(x) = "count"
      BY <1>2, <1>7, <2>2 DEF At
    <3> QED BY <1>0, <1>7, <3>1 DEF QuotaInv, ListsHonest
  <2> QED BY <2>1, <2>2
<1>8. ListsHonest(listed)'
  BY <1>6, <1>7 DEF ListsHonest
<1> QED BY <1>4, <1>5, <1>8 DEF QuotaInv

(* A run begins.  If it is counted, its request had not seen the quota     *)
(* filled: it was behind every run that fills it, and is no longer.        *)
LEMMA QuotaStart ==
  ASSUME TypeInv, TypeInv', NEW listed \in [Handlers -> Nat], QuotaInv(listed),
         \A t \in Tenants : \A r \in Counted(t)' : r \in Ids => r \in Counted(t),
         NEW h \in Handlers, Start(h)
  PROVE  QuotaInv(listed)'
<1> DEFINE n == Len(runs) + 1
           run == [tenant |-> handler[h].tenant, key |-> handler[h].key,
                   input |-> handler[h].input, counted |-> handler[h].counted,
                   status |-> "running", answered |-> FALSE]
<1>0. /\ handler[h] \in Asks /\ Len(runs) \in Nat /\ Ids = 1 .. Len(runs)
      /\ runs' = Append(runs, run) /\ runs \in Seq(Run)
  BY Kinds DEF Start, Asking, TypeInv, Ids
<1>1. Len(runs') = n /\ Ids' = 1 .. n /\ runs'[n] = run
  <2> HIDE DEF run
  <2> QED BY <1>0 DEF Ids
<1>2. /\ At(h)' = "enqueue" /\ \A x \in Handlers \ {h} : handler'[x] = handler[x]
  BY <1>0 DEF Start, At, TypeInv, Asks
<1>3. ASSUME NEW t \in Tenants
      PROVE  /\ Counted(t)' \subseteq Counted(t) \cup {n}
             /\ n \in Counted(t)' => handler[h].counted /\ handler[h].tenant = t
  <2>1. n \in Counted(t)' => run.counted /\ run.tenant = t
    BY <1>1 DEF Counted
  <2>2. Counted(t)' \subseteq 1 .. n BY <1>1 DEF Counted
  <2>3. \A r \in 1 .. n : r \in Ids \/ r = n BY <1>0
  <2> QED BY <2>1, <2>2, <2>3
<1>4. Unasked'
  BY <1>2 DEF QuotaInv, Unasked, At
<1>5. \A t \in Tenants, m \in 0 .. Len(runs) : UpTo(t, m)' \subseteq UpTo(t, m)
  <2>1. \A m \in 0 .. Len(runs) : ~(n <= m) BY <1>0
  <2> QED BY <1>3, <2>1 DEF UpTo
<1>6. ASSUME NEW x \in Handlers, At(x)' = "count", handler'[x].tenant \in Tenants
      PROVE  /\ listed[x] <= Len(runs')
             /\ handler'[x].left \subseteq 1 .. listed[x]
             /\ Cardinality(UpTo(handler[x].tenant, listed[x])' \ handler'[x].left) <= handler'[x].found
  <2>1. handler'[x] = handler[x] /\ At(x) = "count" BY <1>2, <1>6 DEF At
  <2> DEFINE t == handler[x].tenant
             seen == UpTo(t, listed[x]) \ handler[x].left
             seen2 == UpTo(t, listed[x])' \ handler'[x].left
  <2>2. /\ listed[x] <= Len(runs) /\ handler[x].left \subseteq 1 .. listed[x]
        /\ Cardinality(seen) <= handler[x].found /\ listed[x] \in Nat
    BY <1>6, <2>1 DEF QuotaInv, ListsHonest
  <2>3. handler[x].found \in Nat BY <2>1, Kinds DEF Asks, Asking
  <2>4. seen \in SUBSET Counted(t) /\ seen2 \in SUBSET seen
    <3>1. listed[x] \in 0 .. Len(runs) /\ t \in Tenants BY <1>0, <1>6, <2>1, <2>2
    <3>2. UpTo(t, listed[x])' \subseteq UpTo(t, listed[x])
      <4>1. handler'[x].tenant = t BY <2>1
      <4> QED BY <1>5, <3>1, <4>1
    <3> QED BY <2>1, <3>2 DEF UpTo
  <2>5. Cardinality(seen2) <= Cardinality(seen) /\ Cardinality(seen) \in Nat
        /\ Cardinality(seen2) \in Nat
    <3>1. seen2 \in SUBSET Counted(t) BY <2>4
    <3> QED BY <2>4, <3>1, CountedParts
  <2> HIDE DEF seen, seen2
  <2>6. Cardinality(seen2) <= handler[x].found BY <2>2, <2>3, <2>5
  <2>7. listed[x] <= Len(runs') BY <1>0, <1>1, <2>2
  <2> QED BY <2>1, <2>2, <2>6, <2>7 DEF seen2
<1>7. \A t, m : Behind(t, m, listed)' \subseteq Behind(t, m, listed) \ {h}
  BY <1>2 DEF Behind, At
<1>8. ASSUME NEW t \in Tenants, NEW m \in 0 .. Len(runs'), Cardinality(UpTo(t, m)') >= Quota
      PROVE  Cardinality(After(t, m)') + Cardinality(Behind(t, m, listed)') <= Cardinality(Handlers) - 1
  <2> DEFINE behind == Behind(t, m, listed)
             behind2 == Behind(t, m, listed)'
             after == After(t, m)
             after2 == After(t, m)'
             upto == UpTo(t, m)
             upto2 == UpTo(t, m)'
  <2>1. /\ Cardinality(behind) \in Nat /\ Cardinality(behind2) \in Nat
        /\ IsFiniteSet(behind) /\ IsFiniteSet(Handlers) /\ Cardinality(Handlers) \in Nat
    <3>1. IsFiniteSet(Handlers) /\ Cardinality(Handlers) \in Nat
      BY HandlersAssumption, FS_CardinalityType
    <3>2. Cardinality(behind2) \in Nat
      <4>1. behind2 \in SUBSET Handlers BY <1>7, BehindFew
      <4> QED BY <4>1, Few
    <3> QED BY <3>1, <3>2, BehindFew
  <2>2. Cardinality(behind2) <= Cardinality(Handlers) - 1
    <3>1. behind2 \subseteq Handlers \ {h} BY <1>7, BehindFew
    <3>2. Cardinality(Handlers \ {h}) = Cardinality(Handlers) - 1 /\ IsFiniteSet(Handlers \ {h})
      BY <2>1, FS_RemoveElement
    <3>3. Cardinality(behind2) <= Cardinality(Handlers \ {h})
      BY <3>1, <3>2, FS_Subset
    <3> QED BY <3>2, <3>3
  <2>3. CASE m = n
    <3>1. after2 = {} BY <1>0, <1>1, <2>3 DEF After, Counted
    <3>2. Cardinality(after2) = 0 BY <3>1, FS_EmptySet
    <3> QED BY <2>1, <2>2, <3>2
  <2>4. CASE m # n
    <3>1. m \in 0 .. Len(runs) BY <1>0, <1>1, <2>4
    <3>2. /\ upto \in SUBSET Counted(t) /\ upto2 \in SUBSET upto
          /\ after \in SUBSET Counted(t) /\ after2 \in SUBSET (after \cup {n})
      BY <1>3, <1>5, <3>1 DEF UpTo, After
    <3>3. /\ Cardinality(upto2) <= Cardinality(upto) /\ Cardinality(upto) \in Nat
          /\ Cardinality(upto2) \in Nat /\ Cardinality(after) \in Nat /\ IsFiniteSet(after)
      <4>1. upto2 \in SUBSET Counted(t) BY <3>2
      <4> QED BY <3>2, <4>1, CountedParts
    <3>4. Cardinality(upto) >= Quota BY <1>8, <3>3, QuotaAssumption
    <3>5. Cardinality(after) + Cardinality(behind) <= Cardinality(Handlers) - 1
      BY <3>1, <3>4 DEF QuotaInv, Overshoot
    <3>6. Cardinality(behind2) <= Cardinality(behind)
      BY <1>7, <2>1, FS_Subset
    <3>7. CASE n \notin after2
      <4>1. after2 \subseteq after BY <3>2, <3>7
      <4>2. Cardinality(after2) <= Cardinality(after) /\ Cardinality(after2) \in Nat
        BY <3>3, <4>1, FS_Subset, FS_CardinalityType
      <4> HIDE DEF after, after2, behind, behind2
      <4>3. Cardinality(after2) + Cardinality(behind2) <= Cardinality(Handlers) - 1
        BY <2>1, <3>3, <3>5, <3>6, <4>2
      <4> QED BY <4>3 DEF after2, behind2
    <3>8. CASE n \in after2
      <4>1. handler[h].counted /\ handler[h].tenant = t
        BY <1>3, <3>8 DEF After
      <4>2. handler[h].tenant # None BY <4>1, NoneAssumption
      <4>3. At(h) = "count" /\ handler[h].left = {} /\ handler[h].found < Quota
        BY <4>1, <4>2 DEF Start, WithinQuota, QuotaInv, Unasked
      <4>4. Cardinality(UpTo(t, listed[h])) < Quota
        <5>1. Cardinality(UpTo(t, listed[h]) \ {}) <= handler[h].found
          BY <4>1, <4>3 DEF QuotaInv, ListsHonest
        <5>2. UpTo(t, listed[h]) \ {} = UpTo(t, listed[h]) OBVIOUS
        <5>3. Cardinality(UpTo(t, listed[h])) \in Nat
          <6>1. UpTo(t, listed[h]) \in SUBSET Counted(t) BY DEF UpTo
          <6> QED BY <6>1, CountedParts
        <5>4. handler[h].found \in Nat BY <1>0 DEF Asks
        <5> QED BY <4>3, <5>1, <5>2, <5>3, <5>4, QuotaAssumption
      <4>5. listed[h] < m
        <5> SUFFICES ASSUME ~(listed[h] < m) PROVE FALSE
          OBVIOUS
        <5>1. listed[h] \in Nat /\ m \in Nat /\ m <= listed[h] BY <3>1
        <5>2. upto \in SUBSET UpTo(t, listed[h])
          <6>1. \A r \in Counted(t) : r \in Int BY CountedParts
          <6> QED BY <5>1, <6>1 DEF UpTo
        <5>3. Cardinality(upto) <= Cardinality(UpTo(t, listed[h]))
              /\ Cardinality(UpTo(t, listed[h])) \in Nat
          <6>1. UpTo(t, listed[h]) \in SUBSET Counted(t) BY DEF UpTo
          <6> QED BY <5>2, <6>1, CountedParts
        <5> QED BY <3>3, <3>4, <4>4, <5>3, QuotaAssumption
      <4>6. h \in behind BY <4>1, <4>3, <4>5 DEF Behind
      <4>7. IsFiniteSet(behind \ {h}) /\ Cardinality(behind \ {h}) = Cardinality(behind) - 1
        BY <2>1, <4>6, FS_RemoveElement
      <4>8. Cardinality(behind2) <= Cardinality(behind \ {h})
        BY <1>7, <4>7, FS_Subset
      <4>9. Cardinality(after2) <= Cardinality(after) + 1 /\ Cardinality(after2) \in Nat
        <5>1. n \notin after BY <1>0 DEF After, Counted
        <5>2. IsFiniteSet(after \cup {n}) /\ Cardinality(after \cup {n}) = Cardinality(after) + 1
          BY <3>3, <5>1, FS_AddElement
        <5>3. Cardinality(after2) <= Cardinality(after \cup {n}) /\ IsFiniteSet(after2)
          BY <3>2, <5>2, FS_Subset
        <5> QED BY <5>2, <5>3, FS_CardinalityType
      <4> HIDE DEF after, after2, behind, behind2
      <4>10. Cardinality(after2) + Cardinality(behind2) <= Cardinality(Handlers) - 1
        BY <2>1, <3>3, <3>5, <4>7, <4>8, <4>9
      <4> QED BY <4>10 DEF after2, behind2
    <3> QED BY <3>7, <3>8
  <2> QED BY <2>3, <2>4
<1>9. Overshoot(listed)'
  BY <1>8 DEF Overshoot
<1> QED BY <1>4, <1>6, <1>9 DEF QuotaInv, ListsHonest

LEMMA QuotaStep ==
  TypeInv /\ (\E listed \in [Handlers -> Nat] : QuotaInv(listed)) /\ [Next]_vars
    => (\E listed \in [Handlers -> Nat] : QuotaInv(listed))'
<1> SUFFICES ASSUME TypeInv, NEW listed \in [Handlers -> Nat], QuotaInv(listed), [Next]_vars
             PROVE  \E new \in [Handlers -> Nat] : QuotaInv(new)'
  OBVIOUS
<1>a. TypeInv' BY TypeStep
<1>b. \A t \in Tenants : \A r \in Counted(t)' : r \in Ids => r \in Counted(t)
  BY CountedShrinks
<1>1. ASSUME NEW h \in Handlers, Start(h) PROVE QuotaInv(listed)'
  BY <1>1, <1>a, <1>b, QuotaStart
<1>2. CASE Ids' = Ids
  <2>0. \A t \in Tenants : Counted(t)' \subseteq Counted(t)
    <3>1. \A t : Counted(t)' \subseteq Ids BY <1>2 DEF Counted
    <3> QED BY <1>b, <3>1
  <2>1. ASSUME NEW h \in Handlers, List(h)
        PROVE  \E new \in [Handlers -> Nat] : QuotaInv(new)'
    <3>1. Len(runs) \in Nat BY DEF TypeInv
    <3>2. [listed EXCEPT ![h] = Len(runs)] \in [Handlers -> Nat] BY <3>1
    <3>3. PICK new \in [Handlers -> Nat] :
            new[h] = Len(runs) /\ \A x \in Handlers \ {h} : new[x] = listed[x]
      BY <3>2
    <3>4. QuotaInv(new)' BY <1>a, <2>0, <2>1, <3>3, QuotaList
    <3> QED BY <3>4
  <2>2. ASSUME NEW h \in Handlers, Count(h) PROVE QuotaInv(listed)'
    BY <1>a, <2>0, <2>2, QuotaCount
  <2>3. ASSUME NEW h \in Handlers,
               Post(h) \/ Trigger(h) \/ Refuse(h) \/ Enqueue(h) \/ Reply(h) \/ Requeue(h)
                 \/ RequeuePut(h) \/ RequeueMark(h) \/ Fails(h)
        PROVE QuotaInv(listed)'
    <3>1. /\ At(h)' # "count"
          /\ At(h)' = "start" => handler'[h].tenant = None \/ ~handler'[h].counted
          /\ \A x \in Handlers \ {h} : handler'[x] = handler[x]
      <4>1. CASE Post(h) BY <4>1 DEF Post, Accept, At, TypeInv
      <4>2. CASE Trigger(h) BY <4>2 DEF Trigger, At, TypeInv
      <4>3. CASE Refuse(h) \/ Enqueue(h) \/ Reply(h) \/ Requeue(h) \/ RequeueMark(h) \/ Fails(h)
        BY <4>3 DEF Refuse, Enqueue, Reply, Requeue, RequeueMark, Fails, At, TypeInv, Idle
      <4>4. CASE RequeuePut(h)
        BY <4>4, PutList DEF RequeuePut, Goes, TypeInv, At, Puts
      <4> QED BY <2>3, <4>1, <4>2, <4>3, <4>4
    <3>2. \A x \in Handlers : At(x)' = "count" => handler'[x] = handler[x]
      BY <3>1
    <3>3. \A x \in Handlers : At(x)' = "start" =>
            handler'[x] = handler[x] \/ handler'[x].tenant = None \/ ~handler'[x].counted
      BY <3>1
    <3> QED BY <1>2, <1>a, <2>0, <3>2, <3>3, QuotaSame
  <2>4. ASSUME NEW s \in Servers,
               Lease(s) \/ Tick(s) \/ Complete(s) \/ GiveUp(s) \/ Acknowledge(s) \/ Expire(s)
        PROVE QuotaInv(listed)'
    <3>1. handler' = handler
      BY <2>4 DEF Lease, Tick, Complete, GiveUp, Acknowledge, Expire
    <3> QED BY <1>2, <1>a, <2>0, <3>1, QuotaSame
  <2>5. ASSUME NEW s \in Servers, Crash(s) PROVE QuotaInv(listed)'
    <3>1. \A x \in Handlers : handler'[x] = handler[x] \/ At(x)' = "idle"
      BY <2>5 DEF Crash, At, Idle
    <3>2. \A x \in Handlers : At(x)' \in {"count", "start"} => handler'[x] = handler[x]
      BY <3>1
    <3> QED BY <1>2, <1>a, <2>0, <3>2, QuotaSame
  <2>6. ASSUME UNCHANGED vars PROVE QuotaInv(listed)'
    <3>1. handler' = handler BY <2>6 DEF vars
    <3> QED BY <1>2, <1>a, <2>0, <3>1, QuotaSame
  <2> QED BY <1>1, <2>1, <2>2, <2>3, <2>4, <2>5, <2>6, ScenarioParts DEF Next, Answers, Works
<1> QED BY <1>1, <1>2, CountedShrinks

(* The quota of a tenant is exceeded, but only by the requests that were   *)
(* answered at the same time, however many come and however the counting   *)
(* of one is mixed with the starts of others                               *)
(* (workflow-start-service.ts:73). *)
THEOREM QuotaOvershootIsBounded == Spec => []QuotaOvershootBounded
<1> DEFINE Inv == TypeInv /\ \E listed \in [Handlers -> Nat] : QuotaInv(listed)
<1>1. Init => Inv
  <2>1. [h \in Handlers |-> 0] \in [Handlers -> Nat] OBVIOUS
  <2> QED BY <2>1, TypeInit, QuotaInit
<1>2. Inv /\ [Next]_vars => Inv'
  BY TypeStep, QuotaStep
<1>3. Inv => QuotaOvershootBounded
  <2> SUFFICES ASSUME TypeInv, NEW listed \in [Handlers -> Nat], QuotaInv(listed), NEW t \in Tenants
               PROVE  Cardinality(Counted(t)) <= Quota + Cardinality(Handlers) - 1
    BY DEF QuotaOvershootBounded
  <2> DEFINE size(m) == Cardinality(UpTo(t, m))
             S == {m \in 0 .. Len(runs) : size(m) >= Quota}
  <2>1. /\ Quota \in Nat \ {0} /\ Cardinality(Handlers) \in Nat /\ Cardinality(Handlers) # 0
        /\ Len(runs) \in Nat /\ Cardinality(Counted(t)) \in Nat
    BY QuotaAssumption, HandlersAssumption, FS_EmptySet, FS_CardinalityType, CountedParts
  <2>2. UpTo(t, Len(runs)) = Counted(t)
    BY CountedParts DEF UpTo
  <2>3. CASE ~(Cardinality(Counted(t)) >= Quota)
    BY <2>1, <2>3
  <2>4. CASE Cardinality(Counted(t)) >= Quota
    <3>1. S # {} /\ S \in SUBSET Nat BY <2>1, <2>2, <2>4
    <3>2. PICK m \in S : \A y \in S : m <= y BY <3>1, LeastNat
    <3>3. m \in 0 .. Len(runs) /\ m \in Nat /\ size(m) >= Quota BY <3>2
    <3>4. \A l : UpTo(t, l) \in SUBSET Counted(t) /\ After(t, l) \in SUBSET Counted(t)
      BY DEF UpTo, After
    <3>5. \A l : /\ IsFiniteSet(UpTo(t, l)) /\ Cardinality(UpTo(t, l)) \in Nat
                 /\ IsFiniteSet(After(t, l)) /\ Cardinality(After(t, l)) \in Nat
      BY <3>4, CountedParts
    <3>6. m # 0
      <4>1. UpTo(t, 0) = {} BY CountedParts DEF UpTo
      <4>2. Cardinality(UpTo(t, 0)) = 0 BY <4>1, FS_EmptySet
      <4> QED BY <2>1, <3>3, <4>2
    <3>7. ~(size(m - 1) >= Quota)
      <4>1. m - 1 \in 0 .. Len(runs) /\ ~(m <= m - 1) BY <3>3, <3>6
      <4> QED BY <3>2, <4>1
    <3>8. size(m) <= size(m - 1) + 1
      <4>1. UpTo(t, m) \subseteq UpTo(t, m - 1) \cup {m}
        <5>1. \A r \in Counted(t) : r \in Int BY CountedParts
        <5> QED BY <3>3, <5>1 DEF UpTo
      <4> DEFINE front == UpTo(t, m - 1)
      <4>2. IsFiniteSet(front) /\ Cardinality(front) \in Nat BY <3>5
      <4> HIDE DEF front
      <4>3. IsFiniteSet(front \cup {m}) /\ Cardinality(front \cup {m}) <= Cardinality(front) + 1
        <5>1. /\ IsFiniteSet(front \cup {m})
              /\ Cardinality(front \cup {m}) =
                   IF m \in front THEN Cardinality(front) ELSE Cardinality(front) + 1
          BY <4>2, FS_AddElement
        <5> QED BY <4>2, <5>1
      <4>4. Cardinality(UpTo(t, m)) <= Cardinality(front \cup {m}) /\ Cardinality(front \cup {m}) \in Nat
        BY <4>1, <4>3, FS_Subset, FS_CardinalityType DEF front
      <4>5. Cardinality(UpTo(t, m)) <= Cardinality(front) + 1
        BY <3>5, <4>2, <4>3, <4>4
      <4> QED BY <4>5 DEF front
    <3>9. Cardinality(After(t, m)) <= Cardinality(Handlers) - 1
      <4>1. Cardinality(After(t, m)) + Cardinality(Behind(t, m, listed)) <= Cardinality(Handlers) - 1
        BY <3>3 DEF QuotaInv, Overshoot
      <4> QED BY <2>1, <3>5, <4>1, BehindFew
    <3>10. Cardinality(Counted(t)) = size(m) + Cardinality(After(t, m))
      <4>1. /\ Counted(t) = UpTo(t, m) \cup After(t, m)
            /\ UpTo(t, m) \cap After(t, m) = {}
        <5>1. \A r \in Counted(t) : r \in Int BY CountedParts
        <5> QED BY <3>3, <5>1 DEF UpTo, After
      <4>2. Cardinality(UpTo(t, m) \cup After(t, m)) =
              size(m) + Cardinality(After(t, m)) - Cardinality(UpTo(t, m) \cap After(t, m))
        BY <3>5, FS_Union
      <4>3. Cardinality(UpTo(t, m) \cap After(t, m)) = 0 BY <4>1, FS_EmptySet
      <4> QED BY <3>5, <4>1, <4>2, <4>3
    <3>11. size(m) \in Nat /\ size(m - 1) \in Nat /\ Cardinality(After(t, m)) \in Nat
      BY <3>5
    <3> HIDE DEF size
    <3> QED BY <2>1, <3>7, <3>8, <3>9, <3>10, <3>11
  <2> QED BY <2>3, <2>4
<1> QED BY <1>1, <1>2, <1>3, PTL DEF Spec
=============================================================================
