-------------------------- MODULE RedisTaskQueueProofs --------------------------
(***************************************************************************)
(* Proofs about RedisTaskQueue: for any tasks, workers and overlapping     *)
(* recovery scans, no task is ever in the queue twice and none leaves it   *)
(* unhandled.  The inductive invariant adds to TypeOK and OneCopy what     *)
(* ties the processes to the lists: a worker past Handle has handled its   *)
(* task, and the queue only holds what was enqueued.                       *)
(***************************************************************************)
EXTENDS RedisTaskQueue, SequenceTheorems, TLAPS

(* no element twice *)
Once(s) == \A i, j \in DOMAIN s : s[i] = s[j] => i = j

Owned ==
  /\ Held \subseteq enqueued
  /\ \A w \in Workers :
       /\ worker[w].pc # "idle" => worker[w].task \in enqueued
       /\ worker[w].pc \in {"handled", "removing", "deleting"} =>
            worker[w].task \in handled
  /\ \A s \in Scans : scan[s].pc # "idle" => scan[s].items # << >>

QueueInv == TypeOK /\ OneCopy /\ Owned

ListsOK ==
  /\ main \in Seq(Tasks) /\ processing \in Seq(Tasks)
  /\ Once(main) /\ Once(processing)
  /\ ToSet(main) \cap ToSet(processing) = {}

-----------------------------------------------------------------------------
(* RPUSH of an element the list does not have *)
LEMMA AppendOnce ==
  ASSUME NEW S, NEW s \in Seq(S), NEW e \in S, Once(s), e \notin ToSet(s)
  PROVE  /\ Append(s, e) \in Seq(S)
         /\ Once(Append(s, e))
         /\ ToSet(Append(s, e)) = ToSet(s) \cup {e}
<1>1. /\ Append(s, e) \in Seq(S)
      /\ DOMAIN s = 1 .. Len(s)
      /\ Len(s) \in Nat
      /\ DOMAIN Append(s, e) = 1 .. Len(s) + 1
      /\ Append(s, e)[Len(s) + 1] = e
      /\ \A i \in 1 .. Len(s) : Append(s, e)[i] = s[i]
  OBVIOUS
<1>2. \A i \in 1 .. Len(s) : s[i] # e
  BY <1>1 DEF ToSet
<1>3. Once(Append(s, e))
  BY <1>1, <1>2 DEF Once
<1>4. ToSet(Append(s, e)) = ToSet(s) \cup {e}
  BY <1>1 DEF ToSet
<1> QED
  BY <1>1, <1>3, <1>4

(* LPOP *)
LEMMA TailOnce ==
  ASSUME NEW S, NEW s \in Seq(S), s # << >>, Once(s)
  PROVE  /\ Head(s) \in S /\ Head(s) \in ToSet(s)
         /\ Tail(s) \in Seq(S)
         /\ Once(Tail(s))
         /\ ToSet(Tail(s)) = ToSet(s) \ {Head(s)}
<1>1. /\ Head(s) = s[1] /\ Tail(s) \in Seq(S)
      /\ Len(s) \in Nat /\ Len(s) > 0
      /\ DOMAIN s = 1 .. Len(s)
      /\ DOMAIN Tail(s) = 1 .. Len(s) - 1
      /\ \A i \in 1 .. Len(s) - 1 : Tail(s)[i] = s[i + 1]
      /\ \A i \in 1 .. Len(s) : s[i] \in S
  OBVIOUS
<1>2. Once(Tail(s))
  BY <1>1 DEF Once
<1>3. ToSet(Tail(s)) \subseteq ToSet(s) \ {Head(s)}
  BY <1>1 DEF ToSet, Once
<1>4. ASSUME NEW x \in ToSet(s) \ {Head(s)} PROVE x \in ToSet(Tail(s))
  <2>1. PICK i \in 1 .. Len(s) : x = s[i]
    BY <1>1 DEF ToSet
  <2>2. i - 1 \in 1 .. Len(s) - 1 /\ (i - 1) + 1 = i
    BY <1>1, <2>1
  <2> QED
    BY <1>1, <2>1, <2>2 DEF ToSet
<1>5. Head(s) \in ToSet(s) /\ Head(s) \in S
  BY <1>1 DEF ToSet
<1>6. ToSet(Tail(s)) = ToSet(s) \ {Head(s)}
  BY <1>3, <1>4
<1> QED
  BY <1>1, <1>2, <1>5, <1>6

(* LREM 1 of an element the list has at most once *)
LEMMA RemoveOnce ==
  ASSUME NEW S, NEW s \in Seq(S), NEW e, Once(s)
  PROVE  /\ RemoveFirst(s, e) \in Seq(S)
         /\ Once(RemoveFirst(s, e))
         /\ ToSet(RemoveFirst(s, e)) = ToSet(s) \ {e}
<1> DEFINE n == Len(s)
<1>1. n \in Nat /\ DOMAIN s = 1 .. n /\ \A i \in 1 .. n : s[i] \in S
  OBVIOUS
<1>2. CASE ~ \E i \in 1 .. n : s[i] = e
  <2>1. RemoveFirst(s, e) = s
    BY <1>2 DEF RemoveFirst
  <2> QED
    BY <1>1, <1>2, <2>1 DEF ToSet
<1>3. CASE \E i \in 1 .. n : s[i] = e
  <2>1. PICK k \in 1 .. n : s[k] = e
    BY <1>3
  <2>2. {i \in 1 .. n : s[i] = e} = {k}
    BY <1>1, <2>1 DEF Once
  <2>3. Min({k}) = k
    BY <2>1, <1>1 DEF Min
  <2>4. SelectInSeq(s, LAMBDA v : v = e) = k
    BY <2>2, <2>3 DEF SelectInSeq
  <2> DEFINE r == RemoveAt(s, k)
  <2>5. RemoveFirst(s, e) = r
    BY <1>3, <2>4 DEF RemoveFirst
  <2>6. /\ r \in Seq(S)
        /\ DOMAIN r = 1 .. n - 1
        /\ \A i \in 1 .. n - 1 : r[i] = IF i < k THEN s[i] ELSE s[i + 1]
    <3> DEFINE a == SubSeq(s, 1, k - 1)
               b == SubSeq(s, k + 1, n)
    <3>1. /\ a \in Seq(S) /\ Len(a) = k - 1
          /\ \A i \in 1 .. k - 1 : a[i] = s[i]
      BY <1>1, <2>1
    <3>2. /\ b \in Seq(S) /\ Len(b) = n - k
          /\ \A i \in 1 .. n - k : b[i] = s[k + i]
      <4>1. k + 1 \in 1 .. n + 1 /\ k \in Nat
        BY <1>1, <2>1
      <4>2. /\ b \in Seq(S)
            /\ Len(b) = IF k + 1 <= n THEN n - (k + 1) + 1 ELSE 0
            /\ \A i \in 1 .. n - (k + 1) + 1 : b[i] = s[(k + 1) + i - 1]
        BY <1>1, <4>1, SubSeqProperties
      <4> HIDE DEF b, n
      <4>3. n - (k + 1) + 1 = n - k /\ (k + 1 <= n \/ n - k = 0)
        BY <1>1, <2>1, <4>1
      <4>4. ASSUME NEW i \in 1 .. n - k PROVE b[i] = s[k + i]
        <5>1. (k + 1) + i - 1 = k + i
          BY <1>1, <4>1
        <5> QED
          BY <4>2, <4>3, <5>1
      <4>5. Len(b) = n - k
        BY <1>1, <4>1, <4>2, <4>3
      <4> QED
        BY <4>2, <4>4, <4>5
    <3>3. /\ a \o b \in Seq(S)
          /\ Len(a \o b) = n - 1
          /\ \A i \in 1 .. n - 1 :
               (a \o b)[i] = IF i <= Len(a) THEN a[i] ELSE b[i - Len(a)]
      <4> HIDE DEF a, b
      <4>1. Len(a) + Len(b) = n - 1
        BY <1>1, <2>1, <3>1, <3>2
      <4>2. a \in Seq(S) /\ b \in Seq(S)
        BY <3>1, <3>2
      <4>3. /\ a \o b \in Seq(S)
            /\ Len(a \o b) = Len(a) + Len(b)
            /\ \A i \in 1 .. Len(a) + Len(b) :
                 (a \o b)[i] = IF i <= Len(a) THEN a[i] ELSE b[i - Len(a)]
        BY <4>2, ConcatProperties
      <4> QED
        BY <4>1, <4>3
    <3>4. ASSUME NEW i \in 1 .. n - 1
          PROVE (a \o b)[i] = IF i < k THEN s[i] ELSE s[i + 1]
      <4> HIDE DEF a, b
      <4>1. CASE i < k
        BY <1>1, <2>1, <3>1, <3>3, <4>1
      <4>2. CASE ~(i < k)
        <5>1. i - (k - 1) \in 1 .. n - k /\ k + (i - (k - 1)) = i + 1
          BY <1>1, <2>1, <4>2
        <5> QED
          BY <1>1, <2>1, <3>1, <3>2, <3>3, <4>2, <5>1
      <4> QED
        BY <4>1, <4>2
    <3>5. r = a \o b
      BY DEF RemoveAt
    <3> HIDE DEF a, b, r
    <3>6. DOMAIN r = 1 .. n - 1
      BY <3>3, <3>5
    <3> QED
      BY <3>3, <3>4, <3>5, <3>6
  <2> HIDE DEF r
  <2>7. Once(r)
    <3> DEFINE h(i) == IF i < k THEN i ELSE i + 1
    <3>1. \A i \in 1 .. n - 1 : h(i) \in 1 .. n /\ r[i] = s[h(i)]
      BY <1>1, <2>1, <2>6
    <3>2. \A i, j \in 1 .. n - 1 : h(i) = h(j) => i = j
      BY <1>1, <2>1
    <3> HIDE DEF h
    <3> QED
      BY <1>1, <2>6, <3>1, <3>2, SMTT(30) DEF Once
  <2>8. ToSet(r) \subseteq ToSet(s) \ {e}
    BY <1>1, <2>1, <2>6, SMTT(30) DEF ToSet, Once
  <2>9. ASSUME NEW x \in ToSet(s) \ {e} PROVE x \in ToSet(r)
    <3>1. PICK i \in 1 .. n : x = s[i] /\ i # k
      BY <1>1, <2>1 DEF ToSet
    <3>2. CASE i < k
      <4>1. i \in 1 .. n - 1 /\ r[i] = x
        BY <1>1, <2>1, <2>6, <3>1, <3>2
      <4> QED
        BY <2>6, <4>1 DEF ToSet
    <3>3. CASE i > k
      <4>1. i - 1 \in 1 .. n - 1 /\ (i - 1) + 1 = i /\ ~(i - 1 < k)
        BY <1>1, <2>1, <3>1, <3>3
      <4> QED
        BY <2>6, <3>1, <4>1 DEF ToSet
    <3> QED
      BY <1>1, <2>1, <3>1, <3>2, <3>3
  <2> QED
    BY <2>5, <2>6, <2>7, <2>8, <2>9
<1> QED
  BY <1>2, <1>3

(* LPOS *)
LEMMA ContainsToSet ==
  ASSUME NEW S, NEW s \in Seq(S), NEW e
  PROVE  Contains(s, e) <=> e \in ToSet(s)
BY DEF Contains, ToSet

LEMMA ListsOfInv ==
  ASSUME QueueInv PROVE ListsOK
BY DEF QueueInv, TypeOK, OneCopy, ListsOK, Once, ToSet

LEMMA InvOfLists ==
  ASSUME NEW m, NEW p, Once(m), Once(p), ToSet(m) \cap ToSet(p) = {}
  PROVE  /\ \A i, j \in DOMAIN m : m[i] = m[j] => i = j
         /\ \A i, j \in DOMAIN p : p[i] = p[j] => i = j
         /\ \A i \in DOMAIN m, j \in DOMAIN p : m[i] # p[j]
BY DEF Once, ToSet

-----------------------------------------------------------------------------
(* What each command does to the two lists, taken together. *)
LEMMA EnqueueLists ==
  ASSUME QueueInv, NEW t \in Tasks, Enqueue(t)
  PROVE  ListsOK' /\ Held' = Held \cup {t}
<1>1. ListsOK
  BY ListsOfInv
<1>2. t \notin ToSet(main) /\ t \notin ToSet(processing)
  BY DEF QueueInv, Owned, Held, Enqueue
<1>3. /\ main' \in Seq(Tasks) /\ Once(main') /\ ToSet(main') = ToSet(main) \cup {t}
  BY <1>1, <1>2, AppendOnce DEF Enqueue, ListsOK
<1>4. processing' = processing
  BY DEF Enqueue
<1> QED
  BY <1>1, <1>2, <1>3, <1>4 DEF ListsOK, Held

LEMMA MoveToProcessingLists ==
  ASSUME QueueInv, NEW w \in Workers, MoveToProcessing(w)
  PROVE  /\ ListsOK' /\ Held' = Held
         /\ Head(main) \in Tasks \cap enqueued
<1>1. ListsOK /\ main # << >>
  BY ListsOfInv DEF MoveToProcessing
<1> DEFINE t == Head(main)
<1>2. /\ t \in Tasks /\ t \in ToSet(main)
      /\ Tail(main) \in Seq(Tasks) /\ Once(Tail(main))
      /\ ToSet(Tail(main)) = ToSet(main) \ {t}
  BY <1>1, TailOnce DEF ListsOK
<1> HIDE DEF t
<1>3. t \notin ToSet(processing)
  BY <1>1, <1>2 DEF ListsOK
<1>4. /\ Append(processing, t) \in Seq(Tasks) /\ Once(Append(processing, t))
      /\ ToSet(Append(processing, t)) = ToSet(processing) \cup {t}
  BY <1>1, <1>2, <1>3, AppendOnce DEF ListsOK
<1>5. main' = Tail(main) /\ processing' = Append(processing, t)
  BY DEF MoveToProcessing, t
<1>6. ListsOK' /\ Held' = Held
  BY <1>1, <1>2, <1>3, <1>4, <1>5 DEF ListsOK, Held
<1>7. t \in enqueued
  BY <1>2 DEF QueueInv, Owned, Held
<1> QED
  BY <1>2, <1>6, <1>7 DEF t

LEMMA RemoveProcessedLists ==
  ASSUME QueueInv, NEW w \in Workers, RemoveProcessed(w)
  PROVE  /\ ListsOK' /\ Held' \in {Held, Held \ {worker[w].task}}
<1>1. ListsOK
  BY ListsOfInv
<1>2. /\ processing' \in Seq(Tasks) /\ Once(processing')
      /\ ToSet(processing') = ToSet(processing) \ {worker[w].task}
      /\ main' = main
  BY <1>1, RemoveOnce DEF RemoveProcessed, ListsOK
<1> QED
  BY <1>1, <1>2 DEF ListsOK, Held

(* the script keeps every task of the two lists *)
LEMMA MoveBackLists ==
  ASSUME QueueInv, NEW s \in Scans, MoveBack(s)
  PROVE  ListsOK' /\ Held' = Held
<1> DEFINE t == Head(scan[s].items)
<1>1. ListsOK
  BY ListsOfInv
<1>2. /\ RemoveFirst(processing, t) \in Seq(Tasks)
      /\ Once(RemoveFirst(processing, t))
      /\ ToSet(RemoveFirst(processing, t)) = ToSet(processing) \ {t}
  BY <1>1, RemoveOnce DEF ListsOK
<1>3. /\ Contains(processing, t) <=> t \in ToSet(processing)
      /\ Contains(main, t) <=> t \in ToSet(main)
  BY <1>1, ContainsToSet DEF ListsOK
<1>4. /\ processing' = RemoveFirst(processing, t)
      /\ main' = IF Contains(processing, t) /\ ~Contains(main, t)
                 THEN Append(main, t) ELSE main
  BY DEF MoveBack
<1>5. ToSet(processing) \subseteq Tasks
  BY <1>1 DEF ListsOK, ToSet
<1> HIDE DEF t
<1>6. CASE t \in ToSet(processing)
  <2>1. t \in Tasks /\ t \notin ToSet(main)
    BY <1>1, <1>5, <1>6 DEF ListsOK
  <2>2. /\ Append(main, t) \in Seq(Tasks) /\ Once(Append(main, t))
        /\ ToSet(Append(main, t)) = ToSet(main) \cup {t}
    BY <1>1, <2>1, AppendOnce DEF ListsOK
  <2>3. main' = Append(main, t)
    BY <1>3, <1>4, <1>6, <2>1
  <2> QED
    BY <1>1, <1>2, <1>4, <1>6, <2>1, <2>2, <2>3 DEF ListsOK, Held
<1>7. CASE t \notin ToSet(processing)
  <2>1. main' = main
    BY <1>3, <1>4, <1>7
  <2> QED
    BY <1>1, <1>2, <1>4, <1>7, <2>1 DEF ListsOK, Held
<1> QED
  BY <1>6, <1>7

-----------------------------------------------------------------------------
WorkerStates ==
  [Workers -> [pc : WorkerPcs, task : Tasks \cup {None}, lease : LeaseIds \cup {None}]]

ScanStates ==
  [Scans -> [pc : ScanPcs, items : Seq(Tasks), ref : LeaseIds \cup {None}]]

(* the types of the local states a step changes *)
LEMMA WorkerUpdates ==
  ASSUME NEW f \in WorkerStates, NEW w \in Workers, NEW pc \in WorkerPcs,
         NEW l \in LeaseIds \cup {None}
  PROVE  /\ [f EXCEPT ![w].pc = pc] \in WorkerStates
         /\ [f EXCEPT ![w].pc = pc, ![w].lease = l] \in WorkerStates
         /\ [f EXCEPT ![w] = NoWork] \in WorkerStates
BY ZenonT(30) DEF WorkerStates, NoWork, WorkerPcs

LEMMA ScanUpdates ==
  ASSUME NEW f \in ScanStates, NEW s \in Scans, NEW pc \in ScanPcs,
         NEW l \in LeaseIds \cup {None}, NEW items \in Seq(Tasks)
  PROVE  /\ [f EXCEPT ![s].pc = pc] \in ScanStates
         /\ [f EXCEPT ![s].ref = l, ![s].pc = pc] \in ScanStates
         /\ [f EXCEPT ![s] = IF items = << >> THEN NoScan
                ELSE [pc |-> "byTask", items |-> items, ref |-> None]] \in ScanStates
BY ZenonT(30) DEF ScanStates, NoScan, ScanPcs

LEMMA NewLeaseType ==
  ASSUME Referenced # LeaseIds PROVE NewLease \in LeaseIds
BY DEF Referenced, NewLease

(* a step of the contract, or none *)
AbstractStep == [Abstract!QueueNext]_(Abstract!queueVars)

Preserved == QueueInv' /\ AbstractStep

(* Every step keeps the invariant and is a step of the at-least-once queue. *)
LEMMA QueueStep ==
  ASSUME NoneAssumption, QueueInv, [Next]_vars PROVE Preserved
<1>1. ASSUME NEW t \in Tasks, Enqueue(t) PROVE Preserved
  <2>1. ListsOK' /\ Held' = Held \cup {t}
    BY <1>1, EnqueueLists
  <2>2. TypeOK'
    BY <1>1, <2>1 DEF Enqueue, QueueInv, TypeOK, ListsOK, lists, leases
  <2>3. Owned'
    BY <1>1, <2>1 DEF Enqueue, QueueInv, TypeOK, Owned, lists, leases, Goto,
         ScanFrom, WorkerPcs, ScanPcs, NoWork, NoScan
  <2>4. AbstractStep
    BY <1>1, <2>1 DEF Enqueue, QueueInv, TypeOK, Owned, AbstractStep,
         Abstract!QueueNext, Abstract!queueVars, Abstract!Put,
         Abstract!Deliver, Abstract!Drop, Goto, leases, lists
  <2> QED
    BY <2>1, <2>2, <2>3, <2>4, InvOfLists DEF Preserved, QueueInv, ListsOK,
         OneCopy
<1>2. ASSUME NEW w \in Workers, MoveToProcessing(w) PROVE Preserved
  <2>1. ListsOK' /\ Held' = Held /\ Head(main) \in Tasks \cap enqueued
    BY <1>2, MoveToProcessingLists
  <2>2. TypeOK'
    BY <1>2, <2>1 DEF MoveToProcessing, QueueInv, TypeOK, Owned, ListsOK,
         lists, leases, Goto, ScanFrom, WorkerPcs, ScanPcs, NoWork, NoScan
  <2>3. Owned'
    BY <1>2, <2>1 DEF MoveToProcessing, QueueInv, TypeOK, Owned, lists, leases,
         Goto, ScanFrom, WorkerPcs, ScanPcs, NoWork, NoScan
  <2>4. AbstractStep
    BY <1>2, <2>1 DEF MoveToProcessing, lists, AbstractStep,
         Abstract!queueVars, leases
  <2> QED
    BY <2>1, <2>2, <2>3, <2>4, InvOfLists DEF Preserved, QueueInv, ListsOK,
         OneCopy
<1>3. ASSUME NEW w \in Workers, SetLeaseData(w) PROVE Preserved
  <2>1. ListsOK' /\ Held' = Held
    BY <1>3, ListsOfInv DEF SetLeaseData, ListsOK, Held, lists
  <2>2. TypeOK'
    <3>1. worker \in WorkerStates /\ NewLease \in LeaseIds
      BY <1>3, NewLeaseType DEF QueueInv, TypeOK, WorkerStates, SetLeaseData
    <3>2. worker' \in WorkerStates
      BY <1>3, <3>1, WorkerUpdates DEF SetLeaseData, WorkerPcs
    <3>3. leaseData' \in [LeaseIds -> {"absent", "fresh", "stale"}]
      BY <1>3, <3>1 DEF SetLeaseData, QueueInv, TypeOK
    <3> QED
      BY <1>3, <2>1, <3>2, <3>3 DEF SetLeaseData, QueueInv, TypeOK, ListsOK,
           WorkerStates, lists
  <2>3. Owned'
    BY <1>3, <2>1 DEF SetLeaseData, QueueInv, TypeOK, Owned, lists, leases,
         Goto, ScanFrom, WorkerPcs, ScanPcs, NoWork, NoScan
  <2>4. AbstractStep
    BY <1>3, <2>1 DEF SetLeaseData, lists, AbstractStep, Abstract!queueVars,
         leases
  <2> QED
    BY <2>1, <2>2, <2>3, <2>4, InvOfLists DEF Preserved, QueueInv, ListsOK,
         OneCopy
<1>4. ASSUME NEW w \in Workers, SetLeaseByTask(w) PROVE Preserved
  <2>1. ListsOK' /\ Held' = Held
    BY <1>4, ListsOfInv DEF SetLeaseByTask, ListsOK, Held, lists
  <2>2. TypeOK'
    <3>1. worker \in WorkerStates
      BY DEF QueueInv, TypeOK, WorkerStates
    <3>2. worker' \in WorkerStates
      BY <1>4, <3>1, WorkerUpdates DEF SetLeaseByTask, Goto, WorkerPcs
    <3> QED
      BY <1>4, <2>1, <3>2 DEF SetLeaseByTask, QueueInv, TypeOK, Owned, ListsOK,
           WorkerStates, lists, leases
  <2>3. Owned'
    BY <1>4, <2>1 DEF SetLeaseByTask, QueueInv, TypeOK, Owned, lists, Goto
  <2>4. AbstractStep
    BY <1>4, <2>1 DEF SetLeaseByTask, lists, AbstractStep, Abstract!queueVars,
         leases
  <2> QED
    BY <2>1, <2>2, <2>3, <2>4, InvOfLists DEF Preserved, QueueInv, ListsOK,
         OneCopy
<1>5. ASSUME NEW w \in Workers, Handle(w) PROVE Preserved
  <2>1. ListsOK' /\ Held' = Held
    BY <1>5, ListsOfInv DEF Handle, ListsOK, Held, lists
  <2>2. TypeOK'
    <3>1. worker \in WorkerStates
      BY DEF QueueInv, TypeOK, WorkerStates
    <3>2. worker' \in WorkerStates
      BY <1>5, <3>1, WorkerUpdates DEF Handle, Goto, WorkerPcs
    <3> QED
      BY <1>5, <2>1, <3>2 DEF Handle, QueueInv, TypeOK, Owned, ListsOK,
           WorkerStates, lists, leases
  <2>3. Owned'
    BY <1>5, <2>1 DEF Handle, QueueInv, TypeOK, Owned, lists, leases, Goto,
         WorkerPcs
  <2>4. AbstractStep
    BY <1>5, <2>1 DEF Handle, QueueInv, TypeOK, Owned, AbstractStep,
         Abstract!QueueNext, Abstract!queueVars, Abstract!Put,
         Abstract!Deliver, Abstract!Drop, Goto, leases, lists
  <2> QED
    BY <2>1, <2>2, <2>3, <2>4, InvOfLists DEF Preserved, QueueInv, ListsOK,
         OneCopy
<1>6. ASSUME NEW w \in Workers, GetLease(w) PROVE Preserved
  <2>1. ListsOK' /\ Held' = Held
    BY <1>6, ListsOfInv DEF GetLease, ListsOK, Held, lists
  <2>2. TypeOK'
    BY <1>6, <2>1 DEF GetLease, QueueInv, TypeOK, Owned, ListsOK, lists,
         leases, Goto, ScanFrom, WorkerPcs, ScanPcs, NoWork, NoScan
  <2>3. Owned'
    BY <1>6, <2>1 DEF GetLease, QueueInv, TypeOK, Owned, lists, leases, Goto,
         ScanFrom, WorkerPcs, ScanPcs, NoWork, NoScan
  <2>4. AbstractStep
    BY <1>6, <2>1 DEF GetLease, lists, AbstractStep, Abstract!queueVars, leases
  <2> QED
    BY <2>1, <2>2, <2>3, <2>4, InvOfLists DEF Preserved, QueueInv, ListsOK,
         OneCopy
<1>7. ASSUME NEW w \in Workers, RemoveProcessed(w) PROVE Preserved
  <2>1. ListsOK' /\ Held' \in {Held, Held \ {worker[w].task}}
    BY <1>7, RemoveProcessedLists
  <2>2. TypeOK'
    <3>1. worker \in WorkerStates
      BY DEF QueueInv, TypeOK, WorkerStates
    <3>2. worker' \in WorkerStates
      BY <1>7, <3>1, WorkerUpdates DEF RemoveProcessed, Goto, WorkerPcs
    <3> QED
      BY <1>7, <2>1, <3>2 DEF RemoveProcessed, QueueInv, TypeOK, Owned,
           ListsOK, WorkerStates, lists, leases
  <2>3. Owned'
    BY <1>7, <2>1 DEF RemoveProcessed, QueueInv, TypeOK, Owned, leases, Goto,
         WorkerPcs
  <2>4. AbstractStep
    BY <1>7, <2>1 DEF RemoveProcessed, QueueInv, TypeOK, Owned, AbstractStep,
         Abstract!QueueNext, Abstract!queueVars, Abstract!Put,
         Abstract!Deliver, Abstract!Drop, Goto, leases, lists
  <2> QED
    BY <2>1, <2>2, <2>3, <2>4, InvOfLists DEF Preserved, QueueInv, ListsOK,
         OneCopy
<1>8. ASSUME NEW w \in Workers, DeleteLease(w) PROVE Preserved
  <2>1. ListsOK' /\ Held' = Held
    BY <1>8, ListsOfInv DEF DeleteLease, ListsOK, Held, lists
  <2>2. TypeOK'
    BY <1>8, <2>1 DEF DeleteLease, QueueInv, TypeOK, Owned, ListsOK, lists,
         leases, Goto, ScanFrom, WorkerPcs, ScanPcs, NoWork, NoScan
  <2>3. Owned'
    BY <1>8, <2>1 DEF DeleteLease, QueueInv, TypeOK, Owned, lists, leases,
         Goto, ScanFrom, WorkerPcs, ScanPcs, NoWork, NoScan
  <2>4. AbstractStep
    BY <1>8, <2>1 DEF DeleteLease, lists, AbstractStep, Abstract!queueVars, leases
  <2> QED
    BY <2>1, <2>2, <2>3, <2>4, InvOfLists DEF Preserved, QueueInv, ListsOK,
         OneCopy
<1>9. ASSUME NEW w \in Workers, Crash(w) PROVE Preserved
  <2>1. ListsOK' /\ Held' = Held
    BY <1>9, ListsOfInv DEF Crash, ListsOK, Held, lists
  <2>2. TypeOK'
    <3>1. worker \in WorkerStates
      BY DEF QueueInv, TypeOK, WorkerStates
    <3>2. worker' \in WorkerStates
      BY <1>9, <3>1, WorkerUpdates DEF Crash, Goto, WorkerPcs
    <3> QED
      BY <1>9, <2>1, <3>2, MaxCrashesAssumption DEF Crash, QueueInv, TypeOK,
           Owned, ListsOK, WorkerStates, lists, leases
  <2>3. Owned'
    BY <1>9, <2>1 DEF Crash, QueueInv, TypeOK, Owned, lists, leases, Goto,
         ScanFrom, WorkerPcs, ScanPcs, NoWork, NoScan
  <2>4. AbstractStep
    BY <1>9, <2>1 DEF Crash, lists, AbstractStep, Abstract!queueVars, leases
  <2> QED
    BY <2>1, <2>2, <2>3, <2>4, InvOfLists DEF Preserved, QueueInv, ListsOK,
         OneCopy
<1>10. ASSUME NEW s \in Scans, ListProcessing(s) PROVE Preserved
  <2>1. ListsOK' /\ Held' = Held
    BY <1>10, ListsOfInv DEF ListProcessing, ListsOK, Held, lists
  <2>2. TypeOK'
    BY <1>10, <2>1 DEF ListProcessing, QueueInv, TypeOK, Owned, ListsOK, lists,
         leases, Goto, ScanFrom, WorkerPcs, ScanPcs, NoWork, NoScan
  <2>3. Owned'
    BY <1>10, <2>1 DEF ListProcessing, QueueInv, TypeOK, Owned, lists, leases,
         Goto, ScanFrom, WorkerPcs, ScanPcs, NoWork, NoScan
  <2>4. AbstractStep
    BY <1>10, <2>1 DEF ListProcessing, lists, AbstractStep, Abstract!queueVars,
         leases
  <2> QED
    BY <2>1, <2>2, <2>3, <2>4, InvOfLists DEF Preserved, QueueInv, ListsOK,
         OneCopy
<1>11. ASSUME NEW s \in Scans, GetLeaseByTask(s) PROVE Preserved
  <2>1. ListsOK' /\ Held' = Held
    BY <1>11, ListsOfInv DEF GetLeaseByTask, ListsOK, Held, lists
  <2>2. TypeOK'
    BY <1>11, <2>1 DEF GetLeaseByTask, QueueInv, TypeOK, Owned, ListsOK, lists,
         leases, Goto, ScanFrom, WorkerPcs, ScanPcs, NoWork, NoScan
  <2>3. Owned'
    BY <1>11, <2>1 DEF GetLeaseByTask, QueueInv, TypeOK, Owned, lists, leases,
         Goto, ScanFrom, WorkerPcs, ScanPcs, NoWork, NoScan
  <2>4. AbstractStep
    BY <1>11, <2>1 DEF GetLeaseByTask, lists, AbstractStep, Abstract!queueVars,
         leases
  <2> QED
    BY <2>1, <2>2, <2>3, <2>4, InvOfLists DEF Preserved, QueueInv, ListsOK,
         OneCopy
<1>12. ASSUME NEW s \in Scans, GetLeaseData(s) PROVE Preserved
  <2>1. ListsOK' /\ Held' = Held
    BY <1>12, ListsOfInv DEF GetLeaseData, ListsOK, Held, lists
  <2> DEFINE rest == Tail(scan[s].items)
  <2>a. scan \in ScanStates /\ rest \in Seq(Tasks)
    BY <1>12 DEF GetLeaseData, QueueInv, TypeOK, Owned, ScanStates
  <2>b. \/ scan' = [scan EXCEPT ![s].pc = "move"]
        \/ scan' = [scan EXCEPT ![s] = IF rest = << >> THEN NoScan
               ELSE [pc |-> "byTask", items |-> rest, ref |-> None]]
    BY <1>12 DEF GetLeaseData, ScanFrom
  <2> HIDE DEF rest
  <2>2. TypeOK'
    <3>1. /\ [scan EXCEPT ![s].pc = "move"] \in ScanStates
          /\ [scan EXCEPT ![s] = IF rest = << >> THEN NoScan
                ELSE [pc |-> "byTask", items |-> rest, ref |-> None]] \in ScanStates
      BY <1>12, <2>a, ScanUpdates DEF ScanPcs
    <3>2. scan' \in ScanStates
      BY <2>b, <3>1
    <3> QED
      BY <1>12, <2>1, <3>2 DEF GetLeaseData, QueueInv, TypeOK, ListsOK,
           ScanStates, lists, leases
  <2>3. Owned'
    <3>1. \A x \in Scans : scan'[x].pc # "idle" => scan'[x].items # << >>
      <4>1. CASE scan' = [scan EXCEPT ![s].pc = "move"]
        BY <1>12, <2>a, <4>1 DEF GetLeaseData, QueueInv, Owned, ScanStates
      <4>2. CASE scan' = [scan EXCEPT ![s] = IF rest = << >> THEN NoScan
                    ELSE [pc |-> "byTask", items |-> rest, ref |-> None]]
        BY <2>a, <4>2 DEF QueueInv, Owned, ScanStates, NoScan
      <4> QED
        BY <2>b, <4>1, <4>2
    <3> QED
      BY <1>12, <2>1, <3>1 DEF GetLeaseData, QueueInv, Owned, lists, leases
  <2>4. AbstractStep
    BY <1>12, <2>1 DEF GetLeaseData, lists, AbstractStep, Abstract!queueVars,
         leases
  <2> QED
    BY <2>1, <2>2, <2>3, <2>4, InvOfLists DEF Preserved, QueueInv, ListsOK,
         OneCopy
<1>13. ASSUME NEW s \in Scans, MoveBack(s) PROVE Preserved
  <2>1. ListsOK' /\ Held' = Held
    BY <1>13, MoveBackLists
  <2>2. TypeOK'
    BY <1>13, <2>1 DEF MoveBack, QueueInv, TypeOK, Owned, ListsOK, lists,
         leases, Goto, ScanFrom, WorkerPcs, ScanPcs, NoWork, NoScan
  <2>3. Owned'
    BY <1>13, <2>1 DEF MoveBack, QueueInv, TypeOK, Owned, lists, leases, Goto,
         ScanFrom, WorkerPcs, ScanPcs, NoWork, NoScan
  <2>4. AbstractStep
    BY <1>13, <2>1 DEF MoveBack, lists, AbstractStep, Abstract!queueVars, leases
  <2> QED
    BY <2>1, <2>2, <2>3, <2>4, InvOfLists DEF Preserved, QueueInv, ListsOK,
         OneCopy
<1>14. ASSUME NEW l \in LeaseIds, Age(l) PROVE Preserved
  <2>1. ListsOK' /\ Held' = Held
    BY <1>14, ListsOfInv DEF Age, ListsOK, Held, lists
  <2>2. TypeOK'
    BY <1>14, <2>1 DEF Age, QueueInv, TypeOK, Owned, ListsOK, lists, leases,
         Goto, ScanFrom, WorkerPcs, ScanPcs, NoWork, NoScan
  <2>3. Owned'
    BY <1>14, <2>1 DEF Age, QueueInv, TypeOK, Owned, lists, leases, Goto,
         ScanFrom, WorkerPcs, ScanPcs, NoWork, NoScan
  <2>4. AbstractStep
    BY <1>14, <2>1 DEF Age, lists, AbstractStep, Abstract!queueVars, leases
  <2> QED
    BY <2>1, <2>2, <2>3, <2>4, InvOfLists DEF Preserved, QueueInv, ListsOK,
         OneCopy
<1>15. ASSUME NEW l \in LeaseIds, ExpireData(l) PROVE Preserved
  <2>1. ListsOK' /\ Held' = Held
    BY <1>15, ListsOfInv DEF ExpireData, ListsOK, Held, lists
  <2>2. TypeOK'
    BY <1>15, <2>1 DEF ExpireData, QueueInv, TypeOK, Owned, ListsOK, lists,
         leases, Goto, ScanFrom, WorkerPcs, ScanPcs, NoWork, NoScan
  <2>3. Owned'
    BY <1>15, <2>1 DEF ExpireData, QueueInv, TypeOK, Owned, lists, leases,
         Goto, ScanFrom, WorkerPcs, ScanPcs, NoWork, NoScan
  <2>4. AbstractStep
    BY <1>15, <2>1 DEF ExpireData, lists, AbstractStep, Abstract!queueVars, leases
  <2> QED
    BY <2>1, <2>2, <2>3, <2>4, InvOfLists DEF Preserved, QueueInv, ListsOK,
         OneCopy
<1>16. ASSUME NEW t \in Tasks, ExpireByTask(t) PROVE Preserved
  <2>1. ListsOK' /\ Held' = Held
    BY <1>16, ListsOfInv DEF ExpireByTask, ListsOK, Held, lists
  <2>2. TypeOK'
    BY <1>16, <2>1 DEF ExpireByTask, QueueInv, TypeOK, Owned, ListsOK, lists,
         leases, Goto, ScanFrom, WorkerPcs, ScanPcs, NoWork, NoScan
  <2>3. Owned'
    BY <1>16, <2>1 DEF ExpireByTask, QueueInv, TypeOK, Owned, lists, leases,
         Goto, ScanFrom, WorkerPcs, ScanPcs, NoWork, NoScan
  <2>4. AbstractStep
    BY <1>16, <2>1 DEF ExpireByTask, lists, AbstractStep, Abstract!queueVars,
         leases
  <2> QED
    BY <2>1, <2>2, <2>3, <2>4, InvOfLists DEF Preserved, QueueInv, ListsOK,
         OneCopy
<1>17. CASE UNCHANGED vars
  <2>1. QueueInv'
    BY <1>17 DEF QueueInv, TypeOK, OneCopy, Owned, Held, vars
  <2>2. AbstractStep
    BY <1>17 DEF AbstractStep, Abstract!queueVars, Held, vars
  <2> QED
    BY <2>1, <2>2 DEF Preserved
<1> QED
  BY <1>1, <1>2, <1>3, <1>4, <1>5, <1>6, <1>7, <1>8, <1>9, <1>10, <1>11, <1>12,
       <1>13, <1>14, <1>15, <1>16, <1>17 DEF Next, WorkerStep, ScanStep

(* Type correctness and, with it, the invariant that carries the other     *)
(* results, from the empty queue on. *)
THEOREM QueueInvariant == Spec => []QueueInv
<1>1. Init => QueueInv
  <2> SUFFICES ASSUME Init PROVE QueueInv
    OBVIOUS
  <2>1. main = << >> /\ processing = << >> /\ Held = {}
    BY DEF Init, Held, ToSet
  <2>2. TypeOK
    BY <2>1, MaxCrashesAssumption DEF Init, TypeOK, NoWork, NoScan, WorkerPcs,
         ScanPcs
  <2>3. OneCopy
    BY <2>1 DEF OneCopy
  <2>4. Owned
    BY <2>1 DEF Init, Owned, NoWork, NoScan
  <2> QED
    BY <2>2, <2>3, <2>4 DEF QueueInv
<1>2. QueueInv /\ [Next]_vars => QueueInv'
  BY QueueStep, NoneAssumption DEF Preserved
<1> QED
  BY <1>1, <1>2, PTL DEF Spec

(* The lists, keys and local states always have their types. *)
THEOREM QueueTypeOK == Spec => []TypeOK
BY QueueInvariant, PTL DEF QueueInv

(* No task is ever in the queue twice, for any number of workers and of    *)
(* overlapping recovery scans (redis-task-queue.ts:42-91). *)
THEOREM QueueOneCopy == Spec => []OneCopy
BY QueueInvariant, PTL DEF QueueInv

(* The Redis queue implements the at-least-once contract: whatever crashes, *)
(* expires or overlaps, a task leaves it only after it was handled. *)
THEOREM QueueImplementsAtLeastOnce == Spec => ImplementsAtLeastOnce
<1>1. Init => Abstract!QueueInit
  BY DEF Init, Abstract!QueueInit, Held, ToSet
<1>2. QueueInv /\ [Next]_vars => [Abstract!QueueNext]_(Abstract!queueVars)
  BY QueueStep, NoneAssumption DEF Preserved, AbstractStep
<1> QED
  BY <1>1, <1>2, QueueInvariant, PTL DEF Spec, ImplementsAtLeastOnce,
       Abstract!QueueSpec
=============================================================================
