------------------------- MODULE WorkflowRunProofs -------------------------
(***************************************************************************)
(* First the serial run: it keeps its promises, for every definition       *)
(* (Calls), any number of activities and signals, any batch and a run of   *)
(* any length.  Then the lock-free runtime: rehydration is exact at any    *)
(* time, and the version check of the append makes every append a step of  *)
(* SerialRun, for any number of processes and any snapshot interval.       *)
(***************************************************************************)
EXTENDS WorkflowRun, RunStateProofs

OneClose(l) ==
  \A i, j \in DOMAIN l : Closes(l[i]) /\ Closes(l[j]) => i = j

Late == {"ActivityCompleted", "ActivityFailed", "SignalReceived"}

CallTypes == {"ActivityScheduled", "SignalWaitStarted", "TimerScheduled", "StepRecorded"}

(* The inductive invariant: each of its parts needs the others, because    *)
(* what a tick may do depends on a status and on pending sets that are the *)
(* replay of the log so far.                                               *)
SerialInv ==
  /\ LogTypeOK
  /\ log[1] = WorkflowStarted
  /\ ClosedOnce
  /\ CancelWins
  /\ QuietAfterClose
  /\ ResultOnce
  /\ CompletedClean

(* A log that grows keeps its events where they were.                      *)
LEMMA Grow ==
  ASSUME NEW l \in Seq(Event), NEW es \in Seq(Event)
  PROVE  /\ l \o es \in Seq(Event)
         /\ Len(l \o es) = Len(l) + Len(es)
         /\ Len(l) \in Nat /\ Len(es) \in Nat
         /\ DOMAIN l = 1 .. Len(l)
         /\ DOMAIN (l \o es) = 1 .. Len(l) + Len(es)
         /\ \A i \in 1 .. Len(l) : (l \o es)[i] = l[i] /\ l[i] \in Event
         /\ \A i \in Len(l) + 1 .. Len(l) + Len(es) :
               (l \o es)[i] = es[i - Len(l)] /\ i - Len(l) \in 1 .. Len(es)
  OBVIOUS

(* A run whose status is running has no closing event: the converse of     *)
(* "a closing event sets the status", which needs that nothing reopens it. *)
LEMMA RunningOpen ==
  ASSUME NEW l \in Seq(Event), OneClose(l), NEW v \in DOMAIN l,
         StateAt(l, v).status = "running"
  PROVE  \A i \in 2 .. v : ~Closes(l[i])
<1> DEFINE T == {"WorkflowCompleted", "WorkflowFailed", "WorkflowCancelled"}
<1>1. \A t \in T : ~ClosedAs(InitialState, l, v, t)
  BY DEF StateAt, Replay, ReplayStatus
<1>2. ASSUME NEW i \in 2 .. v, Closes(l[i])
      PROVE  FALSE
  <2>1. l[i].type \in T BY <1>2 DEF Closes, Terminal
  <2>2. v \in Nat /\ v <= Len(l) /\ DOMAIN l = 1 .. Len(l) /\ Len(l) \in Nat
    OBVIOUS
  <2>3. \A j \in i + 1 .. v : ~Closes(l[j])
    BY <1>2, <2>2 DEF OneClose
  <2>4. ClosedAs(InitialState, l, v, l[i].type)
    BY <2>2, <2>3 DEF ClosedAs, InitialState
  <2> QED BY <1>1, <2>1, <2>4
<1> QED BY <1>2

(* What is pending was scheduled, and nothing since has dropped it.        *)
LEMMA PendingAt ==
  ASSUME NEW l \in Seq(Event), NEW v \in DOMAIN l, NEW a
  PROVE  a \in StateAt(l, v).pending <=>
           \E i \in 2 .. v :
              /\ l[i].type = "ActivityScheduled"
              /\ a = [id |-> i, activity |-> l[i].activity]
              /\ \A j \in i + 1 .. v : ~Drops(l[j], i)
<1>1. v \in Nat /\ 1 + 1 = 2 OBVIOUS
<1>2. a \in StateAt(l, v).pending <=>
        a \in Seen(InitialState, l, v) /\ StillPending(InitialState, l, v, a)
  BY DEF StateAt, Replay, ReplayPending
<1>3. a \in Seen(InitialState, l, v) <=>
        \E i \in 2 .. v : /\ l[i].type = "ActivityScheduled"
                          /\ a = [id |-> i, activity |-> l[i].activity]
  BY <1>1 DEF Seen, InitialState
<1>4. ASSUME NEW i \in 2 .. v, a = [id |-> i, activity |-> l[i].activity]
      PROVE  StillPending(InitialState, l, v, a) <=>
               \A j \in i + 1 .. v : ~Drops(l[j], i)
  BY <1>1, <1>4 DEF StillPending, InitialState
<1> QED BY <1>2, <1>3, <1>4

(* The type of an event tells whether it drops an activity.                *)
LEMMA DropsType ==
  ASSUME NEW e \in Event, NEW id
  PROVE  Drops(e, id) <=> \/ /\ e.type \in {"ActivityCompleted", "ActivityFailed"}
                             /\ e.activityId = id
                          \/ e.type = "WorkflowCancelled"
  BY EventFacts DEF Drops

(* What a tick records is an event, of a type a DSL call has.              *)
LEMMA BatchEvents ==
  ASSUME NEW st, NEW l, NEW h, NEW b \in Batches(st, l, h), NEW outcome
  PROVE  /\ b \in Seq(Event)
         /\ Recorded(b, outcome) \in Seq(Event)
         /\ \A i \in DOMAIN b : b[i] \in CallEvents(st, l, h)
         /\ \A i \in DOMAIN Recorded(b, outcome) :
               LET e == Recorded(b, outcome)[i] IN
               \/ e \in CallEvents(st, l, h) /\ e.type \in CallTypes
               \/ e = WorkflowFailed /\ i = Len(Recorded(b, outcome))
<1>1. CallEvents(st, l, h) \subseteq Event
      /\ \A e \in CallEvents(st, l, h) : e.type \in CallTypes
  BY DEF CallEvents, Event, EventWith, CallTypes, ActivityScheduled,
         SignalWaitStarted, TimerScheduled, StepRecorded
<1>2. PICK k \in 0 .. MaxBatch : b \in [1 .. k -> CallEvents(st, l, h)]
  BY DEF Batches
<1>3. k \in Nat BY MaxBatchAssumption
<1>4. b \in Seq(CallEvents(st, l, h)) /\ Len(b) = k /\ DOMAIN b = 1 .. k
  BY <1>2, <1>3
<1>5. b \in Seq(Event) BY <1>1, <1>2, <1>3
<1>6. WorkflowFailed \in Event BY DEF Event, EventWith
<1>7. CASE outcome = "threw"
  <2>1. Recorded(b, outcome) = Append(b, WorkflowFailed) BY <1>7 DEF Recorded
  <2> QED BY <1>1, <1>2, <1>4, <1>5, <1>6, <2>1
<1>8. CASE outcome # "threw"
  <2>1. Recorded(b, outcome) = b BY <1>8 DEF Recorded
  <2> QED BY <1>1, <1>2, <1>4, <1>5, <2>1
<1> QED BY <1>7, <1>8

(* While a run is open it has no closing event, and without a pending      *)
(* cancellation nobody has asked for one.                                  *)
LEMMA OpenRun ==
  ASSUME SerialInv, Current(log).status = "running"
  PROVE  /\ \A i \in DOMAIN log : ~Closes(log[i])
         /\ ~CancelPending(log, Len(log)) =>
              \A i \in DOMAIN log : log[i] # WorkflowCancelRequested
<1>1. log \in Seq(Event) /\ Len(log) \in Nat /\ Len(log) >= 1
      /\ DOMAIN log = 1 .. Len(log) /\ OneClose(log)
  BY DEF SerialInv, LogTypeOK, ClosedOnce, OneClose
<1>2. \A i \in 2 .. Len(log) : ~Closes(log[i])
  BY <1>1, RunningOpen DEF Current
<1>3. ~Closes(log[1])
  BY DEF SerialInv, Closes, Terminal, WorkflowStarted
<1>4. \A i \in DOMAIN log : ~Closes(log[i])
  BY <1>1, <1>2, <1>3
<1>5. \A i \in 1 .. Len(log) : log[i] # WorkflowCancelled
  BY <1>1, <1>4 DEF Closes, Terminal, WorkflowCancelled
<1> QED BY <1>1, <1>4, <1>5 DEF CancelPending

(* Recording events of a tick that does not complete the run keeps the     *)
(* invariant while the run is open and no cancellation is pending.         *)
LEMMA TickKeeps ==
  ASSUME SerialInv, NEW es \in Seq(Event), log' = log \o es,
         \A i \in DOMAIN log : ~Closes(log[i]) /\ log[i] # WorkflowCancelRequested,
         \A i \in DOMAIN es :
            \/ es[i].type \in CallTypes
            \/ es[i] = WorkflowFailed /\ i = Len(es)
  PROVE  SerialInv'
<1> DEFINE L == Len(log)
<1>1. log \in Seq(Event) BY DEF SerialInv, LogTypeOK
<1>2. /\ log' \in Seq(Event) /\ L \in Nat /\ L >= 1 /\ Len(es) \in Nat
      /\ Len(log') = L + Len(es)
      /\ DOMAIN log = 1 .. L /\ DOMAIN log' = 1 .. L + Len(es) /\ DOMAIN es = 1 .. Len(es)
      /\ \A i \in 1 .. L : log'[i] = log[i] /\ log[i] \in Event
      /\ \A i \in L + 1 .. L + Len(es) : log'[i] = es[i - L] /\ i - L \in 1 .. Len(es)
  BY <1>1, Grow DEF SerialInv, LogTypeOK
<1>3. ASSUME NEW i \in L + 1 .. L + Len(es)
      PROVE  \/ log'[i].type \in CallTypes
             \/ log'[i] = WorkflowFailed /\ i = L + Len(es)
  <2>1. i - L \in DOMAIN es /\ log'[i] = es[i - L] BY <1>2
  <2>2. i - L = Len(es) => i = L + Len(es) BY <1>2
  <2> QED BY <2>1, <2>2
<1>4. \A i \in DOMAIN log' :
         /\ log'[i] # WorkflowCancelRequested
         /\ Closes(log'[i]) => i = L + Len(es)
         /\ log'[i] # WorkflowCompleted
         /\ i > L => log'[i].type \notin {"ActivityCompleted", "ActivityFailed"}
  <2>1. ASSUME NEW i \in 1 .. L
        PROVE  log'[i] = log[i] /\ ~Closes(log'[i]) /\ log'[i] # WorkflowCompleted
               /\ log'[i] # WorkflowCancelRequested
    BY <1>2 DEF Closes, Terminal, WorkflowCompleted
  <2>2. ASSUME NEW i \in L + 1 .. L + Len(es)
        PROVE  /\ log'[i] # WorkflowCancelRequested
               /\ Closes(log'[i]) => i = L + Len(es)
               /\ log'[i] # WorkflowCompleted
               /\ log'[i].type \notin {"ActivityCompleted", "ActivityFailed"}
    <3>1. CASE log'[i].type \in CallTypes
      BY <3>1 DEF Closes, Terminal, CallTypes, WorkflowCancelRequested, WorkflowCompleted
    <3>2. CASE log'[i] = WorkflowFailed /\ i = L + Len(es)
      BY <3>2 DEF Closes, Terminal, WorkflowCancelRequested, WorkflowFailed, WorkflowCompleted
    <3> QED BY <1>3, <3>1, <3>2
  <2> QED BY <1>2, <2>1, <2>2
<1>5. LogTypeOK' /\ log'[1] = WorkflowStarted
  BY <1>2 DEF SerialInv, LogTypeOK
<1>6. ClosedOnce' /\ CancelWins' /\ CompletedClean'
  BY <1>4 DEF ClosedOnce, CancelWins, CompletedClean
<1>7. QuietAfterClose'
  <2>1. ASSUME NEW i \in DOMAIN log', NEW j \in DOMAIN log', Closes(log'[i]), i < j
        PROVE  FALSE
    BY <1>2, <1>4, <2>1, SMTT(30)
  <2> QED BY <2>1 DEF QuietAfterClose
<1>8. ResultOnce'
  <2>1. ASSUME NEW i \in DOMAIN log',
               log'[i].type \in {"ActivityCompleted", "ActivityFailed"}
        PROVE  /\ log'[i].activityId \in 1 .. i - 1
               /\ log'[log'[i].activityId].type = "ActivityScheduled"
               /\ \A j \in 1 .. i - 1 : log'[j] \notin ResultsOf(log'[i].activityId)
    <3>1. i \in 1 .. L BY <1>2, <1>4, <2>1
    <3> QED BY <1>2, <2>1, <3>1 DEF SerialInv, ResultOnce
  <2> QED BY <2>1 DEF ResultOnce
<1> QED BY <1>5, <1>6, <1>7, <1>8 DEF SerialInv

(* The events recorded alone: each keeps the invariant under the condition *)
(* the runtime records it under.                                           *)
LEMMA OneKeeps ==
  ASSUME SerialInv, NEW e \in Event, log' = log \o <<e>>,
         e.type \notin Late => \A i \in DOMAIN log : ~Closes(log[i]),
         e.type \notin Late \cup {"WorkflowCancelled", "WorkflowCancelRequested"} =>
           \A i \in DOMAIN log : log[i] # WorkflowCancelRequested,
         e.type \in {"ActivityCompleted", "ActivityFailed"} =>
           /\ e.activityId \in DOMAIN log
           /\ log[e.activityId].type = "ActivityScheduled"
           /\ \A j \in DOMAIN log : log[j] \notin ResultsOf(e.activityId),
         e = WorkflowCompleted =>
           \A k \in DOMAIN log : log[k].type = "ActivityScheduled" =>
             \E j \in k + 1 .. Len(log) : log[j] \in ResultsOf(k)
  PROVE  SerialInv'
<1> DEFINE L == Len(log)
<1>1. log \in Seq(Event) /\ <<e>> \in Seq(Event) /\ Len(<<e>>) = 1
  BY DEF SerialInv, LogTypeOK
<1>2. /\ log' \in Seq(Event) /\ L \in Nat /\ L >= 1 /\ Len(log') = L + 1
      /\ DOMAIN log = 1 .. L /\ DOMAIN log' = 1 .. L + 1
      /\ \A i \in 1 .. L : log'[i] = log[i] /\ log[i] \in Event
      /\ log'[L + 1] = e
  BY <1>1, Grow DEF SerialInv, LogTypeOK
<1>3. LogTypeOK' /\ log'[1] = WorkflowStarted
  BY <1>2 DEF SerialInv, LogTypeOK
<1>4. Closes(e) => e.type \notin Late
  BY DEF Closes, Terminal, Late
<1>5. ClosedOnce'
  BY <1>2, <1>4 DEF SerialInv, ClosedOnce
<1>6. CancelWins'
  <2>1. e.type = "WorkflowCancelled" => e = WorkflowCancelled BY EventFacts
  <2>2. e.type = "WorkflowCancelRequested" => e = WorkflowCancelRequested BY EventFacts
  <2> QED BY <1>2, <2>1, <2>2 DEF SerialInv, CancelWins, Late
<1>7. QuietAfterClose'
  BY <1>2 DEF SerialInv, QuietAfterClose, Late
<1>8. ResultOnce'
  <2>1. ASSUME NEW i \in DOMAIN log',
               log'[i].type \in {"ActivityCompleted", "ActivityFailed"}
        PROVE  /\ log'[i].activityId \in 1 .. i - 1
               /\ log'[log'[i].activityId].type = "ActivityScheduled"
               /\ \A j \in 1 .. i - 1 : log'[j] \notin ResultsOf(log'[i].activityId)
    <3>1. CASE i \in 1 .. L BY <1>2, <2>1, <3>1 DEF SerialInv, ResultOnce
    <3>2. CASE i = L + 1 BY <1>2, <2>1, <3>2, SMTT(30)
    <3>3. i \in 1 .. L \/ i = L + 1 BY <1>2, <2>1
    <3> QED BY <3>1, <3>2, <3>3
  <2> QED BY <2>1 DEF ResultOnce
<1>9. CompletedClean'
  <2>1. ASSUME NEW i \in DOMAIN log', log'[i] = WorkflowCompleted,
               NEW k \in 1 .. i - 1, log'[k].type = "ActivityScheduled"
        PROVE  \E j \in k + 1 .. i - 1 : log'[j] \in ResultsOf(k)
    <3>1. CASE i \in 1 .. L BY <1>2, <2>1, <3>1 DEF SerialInv, CompletedClean
    <3>2. CASE i = L + 1 BY <1>2, <2>1, <3>2
    <3> QED BY <1>2, <3>1, <3>2
  <2> QED BY <2>1 DEF CompletedClean
<1> QED BY <1>3, <1>5, <1>6, <1>7, <1>8, <1>9 DEF SerialInv

(* The six actions, one step each.                                         *)
LEMMA NextKeeps ==
  ASSUME SerialInv, SerialNext
  PROVE  SerialInv'
<1>0. /\ log \in Seq(Event) /\ Len(log) \in Nat /\ Len(log) \in DOMAIN log
      /\ DOMAIN log = 1 .. Len(log)
      /\ \A i \in DOMAIN log : log[i] \in Event
  BY DEF SerialInv, LogTypeOK
<1>1. CASE SerialTick
  <2>1. PICK b \in Batches(Current(log), log, Len(log)), outcome \in Outcomes :
          log' = log \o Recorded(b, outcome)
    BY <1>1 DEF SerialTick, Record
  <2>2. \A i \in DOMAIN log : ~Closes(log[i]) /\ log[i] # WorkflowCancelRequested
    BY <1>1, OpenRun DEF SerialTick
  <2> DEFINE es == Recorded(b, outcome)
  <2>3. /\ es \in Seq(Event)
        /\ \A i \in DOMAIN es : \/ es[i].type \in CallTypes
                                \/ es[i] = WorkflowFailed /\ i = Len(es)
    BY BatchEvents
  <2> QED BY <2>1, <2>2, <2>3, TickKeeps
<1>2. CASE SerialComplete
  <2> DEFINE e == WorkflowCompleted
  <2>1. log' = log \o <<e>> BY <1>2 DEF SerialComplete, Record
  <2>2. e \in Event /\ e.type = "WorkflowCompleted"
    BY DEF Event, EventWith, WorkflowCompleted
  <2>3. Current(log).status = "running" /\ Current(log).pending = {}
    BY <1>2 DEF SerialComplete, NothingPending
  <2>4. \A i \in DOMAIN log : ~Closes(log[i]) /\ log[i] # WorkflowCancelRequested
    BY <1>2, <2>3, OpenRun DEF SerialComplete
  <2>5. ASSUME NEW k \in DOMAIN log, log[k].type = "ActivityScheduled"
        PROVE  \E j \in k + 1 .. Len(log) : log[j] \in ResultsOf(k)
    <3>1. k # 1 BY <2>5 DEF SerialInv, WorkflowStarted
    <3>2. k \in 2 .. Len(log) BY <1>0, <3>1
    <3>3. PICK j \in k + 1 .. Len(log) : Drops(log[j], k)
      BY <1>0, <2>3, <2>5, <3>2, PendingAt DEF Current
    <3>4. j \in DOMAIN log BY <1>0
    <3>5. log[j] # WorkflowCancelled
      BY <2>4, <3>4 DEF Closes, Terminal, WorkflowCancelled
    <3> QED BY <3>3, <3>5 DEF Drops
  <2> HIDE DEF e
  <2> QED BY <2>1, <2>2, <2>4, <2>5, OneKeeps
<1>3. CASE SerialCancel
  <2> DEFINE e == WorkflowCancelled
  <2>1. log' = log \o <<e>> BY <1>3 DEF SerialCancel, Record
  <2>2. e \in Event /\ e.type = "WorkflowCancelled" /\ e # WorkflowCompleted
    BY DEF Event, EventWith, WorkflowCancelled, WorkflowCompleted
  <2>3. \A i \in DOMAIN log : ~Closes(log[i])
    BY <1>3, OpenRun DEF SerialCancel
  <2> HIDE DEF e
  <2> QED BY <2>1, <2>2, <2>3, OneKeeps
<1>4. CASE SerialResult
  <2>1. PICK a \in Current(log).pending :
          \/ log' = log \o <<ActivityCompleted(a.id)>>
          \/ log' = log \o <<ActivityFailed(a.id)>>
    BY <1>4 DEF SerialResult, Record
  <2>2. PICK e : log' = log \o <<e>> /\ e \in ResultsOf(a.id)
    BY <2>1 DEF ResultsOf
  <2>3. PICK i \in 2 .. Len(log) :
          /\ log[i].type = "ActivityScheduled"
          /\ a.id = i
          /\ \A j \in i + 1 .. Len(log) : ~Drops(log[j], i)
    BY <1>0, PendingAt DEF Current
  <2>4. /\ e \in Event /\ e.type \in {"ActivityCompleted", "ActivityFailed"}
        /\ e.activityId = i /\ e # WorkflowCompleted
    BY <1>0, <2>2, <2>3 DEF ResultsOf, Event, EventWith, ActivityCompleted,
                            ActivityFailed, WorkflowCompleted
  <2>5. i \in DOMAIN log BY <1>0
  <2>6. ASSUME NEW j \in DOMAIN log
        PROVE  log[j] \notin ResultsOf(i)
    <3>1. CASE j <= i
      <4>1. SUFFICES ASSUME log[j] \in ResultsOf(i) PROVE FALSE OBVIOUS
      <4>2. log[j].type \in {"ActivityCompleted", "ActivityFailed"}
            /\ log[j].activityId = i
        BY <4>1 DEF ResultsOf, ActivityCompleted, ActivityFailed
      <4>3. i \in 1 .. j - 1 BY <4>2 DEF SerialInv, ResultOnce
      <4> QED BY <1>0, <3>1, <4>3
    <3>2. CASE j > i
      BY <1>0, <2>3, <3>2 DEF Drops
    <3> QED BY <1>0, <3>1, <3>2
  <2> QED BY <2>2, <2>3, <2>4, <2>5, <2>6, OneKeeps DEF Late
<1>5. CASE SerialSignal
  <2>1. PICK n \in Signals : log' = log \o <<SignalReceived(n)>>
    BY <1>5 DEF SerialSignal, Record
  <2>2. PICK e : e = SignalReceived(n) OBVIOUS
  <2>3. e \in Event /\ e.type = "SignalReceived" /\ e # WorkflowCompleted
    BY <2>2 DEF Event, EventWith, SignalReceived, WorkflowCompleted
  <2> QED BY <2>1, <2>2, <2>3, OneKeeps DEF Late
<1>6. CASE SerialCancelRequest
  <2> DEFINE e == WorkflowCancelRequested
  <2>1. log' = log \o <<e>> BY <1>6 DEF SerialCancelRequest, Record
  <2>2. e \in Event /\ e.type = "WorkflowCancelRequested" /\ e # WorkflowCompleted
    BY DEF Event, EventWith, WorkflowCancelRequested, WorkflowCompleted
  <2>3. \A i \in DOMAIN log : ~Closes(log[i])
    BY <1>6, OpenRun DEF SerialCancelRequest
  <2> HIDE DEF e
  <2> QED BY <2>1, <2>2, <2>3, OneKeeps
<1> QED BY <1>1, <1>2, <1>3, <1>4, <1>5, <1>6 DEF SerialNext

(* The run starts in the invariant.                                        *)
LEMMA InitSerialInv == SerialInit => SerialInv
<1> SUFFICES ASSUME SerialInit PROVE SerialInv OBVIOUS
<1>1. log = <<WorkflowStarted>> /\ WorkflowStarted \in Event
  BY DEF SerialInit, Event, EventWith
<1>2. /\ log \in Seq(Event) /\ Len(log) = 1 /\ DOMAIN log = {1}
      /\ log[1] = WorkflowStarted
  BY <1>1
<1>3. log[1].type = "WorkflowStarted" BY <1>2 DEF WorkflowStarted
<1>4. ClosedOnce /\ CancelWins /\ QuietAfterClose
  BY <1>2 DEF ClosedOnce, CancelWins, QuietAfterClose
<1>5. ResultOnce /\ CompletedClean
  BY <1>2, <1>3 DEF ResultOnce, CompletedClean, WorkflowCompleted
<1> QED BY <1>2, <1>4, <1>5 DEF SerialInv, LogTypeOK

(* SerialInv is an invariant of the serial run.                            *)
THEOREM SerialInvariant == SerialSpec => []SerialInv
<1>1. SerialInv /\ [SerialNext]_log => SerialInv'
  <2> SUFFICES ASSUME SerialInv, [SerialNext]_log PROVE SerialInv' OBVIOUS
  <2>1. CASE SerialNext BY <2>1, NextKeeps
  <2>2. CASE UNCHANGED log
    BY <2>2 DEF SerialInv, LogTypeOK, ClosedOnce, CancelWins, QuietAfterClose,
                ResultOnce, CompletedClean
  <2> QED BY <2>1, <2>2
<1> QED BY <1>1, InitSerialInv, PTL DEF SerialSpec

(* The log is a sequence of events that is never empty.                    *)
THEOREM SerialTypeOK == SerialSpec => []LogTypeOK
  BY SerialInvariant, PTL DEF SerialInv

(* A run is closed once, whatever its activities, signals and definition.  *)
THEOREM SerialClosedOnce == SerialSpec => []ClosedOnce
  BY SerialInvariant, PTL DEF SerialInv

(* An accepted cancellation cannot be overtaken by a completion, a failure *)
(* or more work.                                                           *)
THEOREM SerialCancelWins == SerialSpec => []CancelWins
  BY SerialInvariant, PTL DEF SerialInv

(* After the closing event come only results and signals.                  *)
THEOREM SerialQuietAfterClose == SerialSpec => []QuietAfterClose
  BY SerialInvariant, PTL DEF SerialInv

(* An activity has one result, recorded after it was scheduled.            *)
THEOREM SerialResultOnce == SerialSpec => []ResultOnce
  BY SerialInvariant, PTL DEF SerialInv

(* A completed run left no activity without a result.                      *)
THEOREM SerialCompletedClean == SerialSpec => []CompletedClean
  BY SerialInvariant, PTL DEF SerialInv

(* A cancelled run has nothing pending at any later version: the closing   *)
(* event clears the sets and nothing after it fills them.                  *)
THEOREM SerialCancelledClean == SerialSpec => []CancelledClean
<1>1. ASSUME SerialInv, NEW v \in DOMAIN log, StateAt(log, v).status = "cancelled"
      PROVE  LET st == StateAt(log, v) IN
             st.pending = {} /\ st.waits = {} /\ st.timers = {}
  <2>0. /\ log \in Seq(Event) /\ v \in Nat /\ v <= Len(log) /\ Len(log) \in Nat
        /\ DOMAIN log = 1 .. Len(log)
    BY <1>1 DEF SerialInv, LogTypeOK
  <2>1. PICK c \in 2 .. v : log[c].type = "WorkflowCancelled"
    BY <1>1 DEF StateAt, Replay, ReplayStatus, ClosedAs, InitialState
  <2>2. c \in DOMAIN log /\ log[c] \in Event BY <2>0
  <2>3. log[c] = WorkflowCancelled /\ Closes(log[c])
    BY <2>1, <2>2, EventFacts DEF Closes, Terminal
  <2>4. ASSUME NEW j \in DOMAIN log,
               log[j].type \in {"ActivityScheduled", "SignalWaitStarted", "TimerScheduled"}
        PROVE  j < c
    <3>1. ~(c < j) BY <1>1, <2>2, <2>3, <2>4 DEF SerialInv, QuietAfterClose
    <3>2. j # c BY <2>1, <2>4
    <3> QED BY <2>0, <3>1, <3>2
  <2>5. ASSUME NEW a \in StateAt(log, v).pending PROVE FALSE
    <3>1. PICK i \in 2 .. v : /\ log[i].type = "ActivityScheduled"
                              /\ \A j \in i + 1 .. v : ~Drops(log[j], i)
      BY <2>0, <2>5, PendingAt
    <3>2. i < c BY <2>0, <2>4, <3>1
    <3> QED BY <2>3, <3>1, <3>2 DEF Drops
  <2>6. ASSUME NEW n \in StateAt(log, v).waits PROVE FALSE
    <3>1. PICK i \in 1 .. v :
             /\ IF i = 1 THEN n \in {} ELSE log[i] = SignalWaitStarted(n)
             /\ \A j \in i + 1 .. v : ~Answers(log[j], n)
      BY <2>6 DEF StateAt, Replay, ReplayWaits, InitialState
    <3>2. i \in DOMAIN log /\ log[i].type = "SignalWaitStarted"
      BY <2>0, <3>1 DEF SignalWaitStarted
    <3>3. i < c BY <2>4, <3>2
    <3> QED BY <2>3, <3>1, <3>3 DEF Answers
  <2>7. ASSUME NEW i \in StateAt(log, v).timers PROVE FALSE
    <3>1. /\ i \in 2 .. v /\ log[i] = TimerScheduled
          /\ \A j \in 2 .. v : j > i => log[j] # WorkflowCancelled
      BY <2>7 DEF StateAt, Replay, ReplayTimers, InitialState
    <3>2. i \in DOMAIN log /\ log[i].type = "TimerScheduled"
      BY <2>0, <3>1 DEF TimerScheduled
    <3>3. i < c BY <2>4, <3>2
    <3> QED BY <2>3, <3>1, <3>3
  <2> QED BY <2>5, <2>6, <2>7
<1>2. SerialInv => CancelledClean
  BY <1>1 DEF CancelledClean
<1> QED BY <1>2, SerialInvariant, PTL

(* A run closes once and for good, and a cancellation wins. *)
THEOREM SerialClosesForGood == SerialSpec => []ClosesForGood
<1>1. SerialInv => ClosesForGood BY DEF SerialInv, ClosesForGood
<1> QED BY <1>1, SerialInvariant, PTL

(* Every activity is accounted for, whatever ends the run. *)
THEOREM SerialWorkAccounted == SerialSpec => []WorkAccounted
  BY SerialInvariant, SerialCancelledClean, PTL DEF SerialInv, WorkAccounted

(* An activity the definition calls without an attempt number is never     *)
(* scheduled again by a later tick: in an open run its first scheduling is *)
(* still pending or, by ResultOnce, completed.                             *)
THEOREM SerialScheduledOnce == SerialSpec => ScheduledOnce
<1>1. ASSUME SerialInv, SerialNext, NEW x \in Activities \ Retried,
             NEW i \in DOMAIN log, log[i] = ActivityScheduled(x),
             NEW k \in Len(log) + 1 .. Len(log'), log'[k] = ActivityScheduled(x)
      PROVE  FALSE
  <2> DEFINE st == Current(log)
  <2>0. /\ log \in Seq(Event) /\ Len(log) \in Nat /\ DOMAIN log = 1 .. Len(log)
        /\ Len(log) \in DOMAIN log
    BY <1>1 DEF SerialInv, LogTypeOK
  <2>1. ActivityScheduled(x).type = "ActivityScheduled"
        /\ ActivityScheduled(x).activity = x
    BY DEF ActivityScheduled
  <2>2. CASE SerialTick
    <3>1. PICK b \in Batches(st, log, Len(log)), outcome \in Outcomes :
            log' = log \o Recorded(b, outcome)
      BY <2>2 DEF SerialTick, Record
    <3> DEFINE es == Recorded(b, outcome)
    <3>2. es \in Seq(Event) /\ \A j \in DOMAIN es :
             es[j] \in CallEvents(st, log, Len(log)) \/ es[j] = WorkflowFailed
      BY BatchEvents
    <3>3. k - Len(log) \in DOMAIN es /\ log'[k] = es[k - Len(log)]
      BY <2>0, <3>1, <3>2, Grow, <1>1
    <3>4. ActivityScheduled(x) \in CallEvents(st, log, Len(log))
      BY <1>1, <2>1, <3>2, <3>3 DEF WorkflowFailed
    <3>5. Schedulable(st, x)
      BY <2>1, <3>4 DEF CallEvents, ActivityScheduled, SignalWaitStarted,
                        TimerScheduled, StepRecorded
    <3> DEFINE a == [id |-> i, activity |-> x]
    <3>6. a \notin st.pending \cup st.completed BY <1>1, <3>5 DEF Schedulable
    <3>7. i \in 2 .. Len(log)
      <4>1. i # 1 BY <1>1, <2>1 DEF SerialInv, WorkflowStarted
      <4> QED BY <2>0, <4>1
    <3>8. log[i].type = "ActivityScheduled" /\ a = [id |-> i, activity |-> log[i].activity]
      BY <1>1, <2>1
    <3>9. PICK j \in i + 1 .. Len(log) : Drops(log[j], i)
      BY <2>0, <3>6, <3>7, <3>8, PendingAt DEF Current
    <3>10. j \in DOMAIN log /\ log[j] \in Event BY <2>0
    <3>11. log[j] \in ResultsOf(i)
      <4>1. ~Closes(log[j]) BY <1>1, <2>2, <3>10, OpenRun DEF SerialTick
      <4> QED BY <3>9, <4>1 DEF Drops, Closes, Terminal, WorkflowCancelled
    <3>12. ASSUME NEW m \in 1 .. j - 1 PROVE ~Drops(log[m], i)
      <4>1. log[j].type \in {"ActivityCompleted", "ActivityFailed"}
            /\ log[j].activityId = i
        BY <3>11 DEF ResultsOf, ActivityCompleted, ActivityFailed
      <4>2. log[m] \notin ResultsOf(i)
        BY <1>1, <3>10, <4>1 DEF SerialInv, ResultOnce
      <4>3. m \in DOMAIN log BY <2>0, <3>10
      <4>4. ~Closes(log[m]) BY <1>1, <2>2, <4>3, OpenRun DEF SerialTick
      <4> QED BY <4>2, <4>4 DEF Drops, Closes, Terminal, WorkflowCancelled
    <3>13. StillPending(InitialState, log, j - 1, a)
      <4>1. \A m \in 2 .. j - 1 : m \in 1 .. j - 1 BY <3>10
      <4> QED BY <3>12, <4>1 DEF StillPending, InitialState
    <3>14. a \in Seen(InitialState, log, Len(log))
      BY <3>7, <3>8 DEF Seen, InitialState
    <3>15. j \in 2 .. Len(log) /\ j > a.id BY <2>0, <3>7
    <3>16. a \in st.completed
      BY <3>11, <3>13, <3>14, <3>15
         DEF Current, StateAt, Replay, ReplayCompleted, InitialState
    <3> QED BY <3>6, <3>16
  <2>3. ASSUME NEW e \in Event, log' = log \o <<e>>, e.type # "ActivityScheduled"
        PROVE  FALSE
    <3>1. <<e>> \in Seq(Event) /\ Len(<<e>>) = 1 OBVIOUS
    <3>2. k = Len(log) + 1 /\ log'[k] = e BY <2>0, <2>3, <3>1, Grow
    <3> QED BY <1>1, <2>1, <2>3, <3>2
  <2>4. CASE ~SerialTick
    <3>1. PICK e : /\ log' = log \o <<e>>
                   /\ \/ e \in {WorkflowCompleted, WorkflowCancelled, WorkflowCancelRequested}
                      \/ \E a \in st.pending : e \in ResultsOf(a.id)
                      \/ \E n \in Signals : e = SignalReceived(n)
      BY <1>1, <2>4 DEF SerialNext, SerialComplete, SerialCancel, SerialResult, SerialSignal,
                        SerialCancelRequest, Record, ResultsOf
    <3>2. \A a \in st.pending : a.id \in Nat
      BY <2>0, PendingAt DEF Current
    <3>3. e \in Event /\ e.type # "ActivityScheduled"
      BY <3>1, <3>2 DEF ResultsOf, Event, EventWith, ActivityCompleted, ActivityFailed,
                        SignalReceived, WorkflowCompleted, WorkflowCancelled,
                        WorkflowCancelRequested
    <3> QED BY <2>3, <3>1, <3>3
  <2> QED BY <2>2, <2>4
<1>2. SerialInv /\ [SerialNext]_log =>
        [\A a \in Activities \ Retried :
           (\E i \in DOMAIN log : log[i] = ActivityScheduled(a)) =>
             \A j \in Len(log) + 1 .. Len(log') : log'[j] # ActivityScheduled(a)]_log
  BY <1>1
<1> QED BY <1>2, SerialInvariant, PTL DEF SerialSpec, ScheduledOnce

-----------------------------------------------------------------------------
Scheduled(id) == id \in DOMAIN log /\ log[id].type = "ActivityScheduled"

(* What holds of an operation in progress. *)
Good(me) ==
  /\ me \in ProcState
  /\ Exact(me.st)
  /\ \A i \in me.queue : Scheduled(i)
  /\ me.op = "signal" => me.arg \in Signals
  /\ me.op = "tick" /\ me.pc = "append" =>
       me.st.status = "running" /\ me.st.version <= me.seen /\ me.seen <= Len(log)
  /\ me.pc \in {"enqueue", "complete"} /\ me.st.version = Len(log) =>
       \A i \in DOMAIN log : log[i] # WorkflowCancelRequested

(* The inductive invariant.  It needs the invariant of the serial run:     *)
(* that a log closes once is what makes replay from a snapshot exact, and  *)
(* exactness is what makes an append at the head of the log a serial step. *)
WorkflowInv ==
  /\ SerialInv
  /\ snapshot = NoSnapshot \/ (snapshot \in RunStates /\ Exact(snapshot))
  /\ \A id \in tasks \cup deadLetters : Scheduled(id)
  /\ proc \in [Procs -> ProcState \cup {Idle}]
  /\ \A p \in Procs : proc[p] = Idle \/ Good(proc[p])

(* A state is exact in every longer log.                                   *)
LEMMA ExactGrows ==
  ASSUME LogTypeOK, NEW es \in Seq(Event), log' = log \o es, NEW st, Exact(st)
  PROVE  Exact(st)'
<1>1. log \in Seq(Event) BY DEF LogTypeOK
<1>2. st.version \in 1 .. Len(log) /\ st = StateAt(log, st.version)
      /\ st.version \in DOMAIN log'
  BY <1>1, Grow DEF Exact
<1>3. \A i \in 2 .. st.version : log'[i] = log[i]
  BY <1>1, <1>2, Grow
<1>4. Replay(InitialState, log', st.version) = Replay(InitialState, log, st.version)
  <2>1. InitialState.version + 1 = 2 BY DEF InitialState
  <2>2. st.version \in Nat BY <1>1, <1>2
  <2>3. \A i \in InitialState.version + 1 .. st.version : log'[i] = log[i]
    BY <1>3, <2>1
  <2> QED BY <2>2, <2>3, InitialStateType, ReplayAgree
<1> QED BY <1>2, <1>4 DEF Exact, StateAt

(* So is everything else that holds of an operation in progress.           *)
LEMMA GoodGrows ==
  ASSUME LogTypeOK, NEW es \in Seq(Event), log' = log \o es, NEW me, Good(me)
  PROVE  Good(me)'
<1>1. log \in Seq(Event) BY DEF LogTypeOK
<1>2. Exact(me.st)' BY ExactGrows DEF Good
<1>3. \A i \in me.queue : Scheduled(i)'
  BY <1>1, Grow DEF Good, Scheduled
<1>4. Len(log') >= Len(log) /\ Len(log) \in Nat /\ Len(log') \in Nat
      /\ me.st.version \in 1 .. Len(log)
  BY <1>1, Grow DEF Good, Exact
<1>5. me.st.version = Len(log') => log' = log
  <2>1. me.st.version = Len(log') => Len(es) = 0 BY <1>1, <1>4, Grow
  <2> QED BY <1>1, <2>1
<1>6. me.op = "tick" /\ me.pc = "append" =>
        me.st.status = "running" /\ me.st.version <= me.seen /\ me.seen <= Len(log')
  <2>1. me.seen \in Nat BY DEF Good, ProcState
  <2> QED BY <1>4, <2>1 DEF Good
<1>7. me.pc \in {"enqueue", "complete"} /\ me.st.version = Len(log') =>
        \A i \in DOMAIN log' : log'[i] # WorkflowCancelRequested
  BY <1>5 DEF Good
<1> QED BY <1>2, <1>3, <1>6, <1>7 DEF Good, ProcState

(* An exact state is a run state whose activities are known.               *)
LEMMA ExactType ==
  ASSUME LogTypeOK, NEW st, Exact(st)
  PROVE  st \in RunStates /\ KnownIds(st) /\ st.version \in 1 .. Len(log)
<1>1. log \in Seq(Event) BY DEF LogTypeOK
<1>2. st.version \in 1 .. Len(log) /\ st = Replay(InitialState, log, st.version)
  BY <1>1 DEF Exact, StateAt
<1>3. InitialState.version = 1 BY DEF InitialState
<1> QED BY <1>1, <1>2, <1>3, InitialStateType, ReplayType

(* The state without a snapshot is exact: it is the replay of no event.    *)
LEMMA LoadedExact ==
  ASSUME WorkflowInv
  PROVE  LoadedState \in RunStates /\ Exact(LoadedState)
<1>1. log \in Seq(Event) /\ 1 \in DOMAIN log BY DEF WorkflowInv, SerialInv, LogTypeOK
<1>2. InitialState.version = 1 BY DEF InitialState
<1>3. Exact(InitialState)
  BY <1>1, <1>2, InitialStateType, ReplayNone DEF Exact, StateAt
<1> QED BY <1>3, InitialStateType DEF WorkflowInv, LoadedState

(* A serial step appends events.                                           *)
LEMMA NextGrows ==
  ASSUME SerialInv, SerialNext \/ log' = log
  PROVE  \E es \in Seq(Event) : log' = log \o es
<1>0. log \in Seq(Event) /\ Len(log) \in DOMAIN log BY DEF SerialInv, LogTypeOK
<1>1. CASE log' = log
  <2>1. << >> \in Seq(Event) /\ log = log \o << >> BY <1>0
  <2> QED BY <1>1, <2>1
<1>2. CASE SerialTick
  <2>1. PICK b \in Batches(Current(log), log, Len(log)), outcome \in Outcomes :
          log' = log \o Recorded(b, outcome)
    BY <1>2 DEF SerialTick, Record
  <2> QED BY <2>1, BatchEvents
<1>3. CASE SerialNext /\ ~SerialTick
  <2>1. PICK e : /\ log' = log \o <<e>>
                 /\ \/ e \in {WorkflowCompleted, WorkflowCancelled, WorkflowCancelRequested}
                    \/ \E a \in Current(log).pending : e \in ResultsOf(a.id)
                    \/ \E n \in Signals : e = SignalReceived(n)
    BY <1>3 DEF SerialNext, SerialComplete, SerialCancel, SerialResult, SerialSignal,
                SerialCancelRequest, Record, ResultsOf
  <2>2. \A a \in Current(log).pending : a.id \in Nat
    BY <1>0, PendingAt DEF Current
  <2>3. e \in Event
    BY <2>1, <2>2 DEF ResultsOf, Event, EventWith, ActivityCompleted, ActivityFailed,
                      SignalReceived, WorkflowCompleted, WorkflowCancelled,
                      WorkflowCancelRequested
  <2>4. <<e>> \in Seq(Event) BY <2>3
  <2> QED BY <2>1, <2>4
<1> QED BY <1>1, <1>2, <1>3

(* What a process that passed the version check knows: its state is the    *)
(* current one.                                                            *)
LEMMA AtHead ==
  ASSUME WorkflowInv, NEW p \in Procs, proc[p] # Idle,
         ~Conflicts(proc[p].st.version)
  PROVE  Good(proc[p]) /\ proc[p].st.version = Len(log) /\ proc[p].st = Current(log)
  BY DEF WorkflowInv, Conflicts, Good, Exact, Current

(* Every step of a process is a serial step or leaves the log alone.       *)
LEMMA LogStep ==
  ASSUME WorkflowInv, NEW p \in Procs, Step(p)
  PROVE  SerialNext \/ log' = log
<1> DEFINE me == proc[p]
<1>0. Len(log) \in Nat BY DEF WorkflowInv, SerialInv, LogTypeOK
<1>1. CASE TickCancel(p)
  <2>1. me # Idle /\ ~Conflicts(me.st.version) /\ me.op = "tick" /\ me.pc = "append"
        /\ CancelPending(log, me.seen) /\ log' = log \o <<WorkflowCancelled>>
    BY <1>1 DEF TickCancel, At, Append_
  <2>2. Good(me) /\ me.st.version = Len(log) /\ me.st = Current(log) BY <2>1, AtHead
  <2>3. me.seen = Len(log) /\ Current(log).status = "running"
    BY <1>0, <2>1, <2>2 DEF Good, ProcState
  <2> QED BY <2>1, <2>3 DEF SerialNext, SerialCancel, Record
<1>2. CASE TickExecute(p)
  <2> SUFFICES ASSUME log' # log PROVE SerialTick BY DEF SerialNext
  <2>1. me # Idle /\ me.op = "tick" /\ me.pc = "append" /\ ~CancelPending(log, me.seen)
    BY <1>2 DEF TickExecute, At
  <2>2. PICK b \in Batches(me.st, log, me.seen), outcome \in Outcomes :
          /\ outcome = "noDefinition" => IsBookkeeping(b)
          /\ Recorded(b, outcome) # << >>
          /\ Append_(me.st.version, Recorded(b, outcome))
    BY <1>2 DEF TickExecute
  <2>3. ~Conflicts(me.st.version) /\ log' = log \o Recorded(b, outcome)
    BY <2>2 DEF Append_
  <2>4. Good(me) /\ me.st.version = Len(log) /\ me.st = Current(log)
    BY <2>1, <2>3, AtHead
  <2>5. me.seen = Len(log) /\ Current(log).status = "running"
    BY <1>0, <2>1, <2>4 DEF Good, ProcState
  <2> QED BY <2>1, <2>2, <2>3, <2>4, <2>5 DEF SerialTick, Record
<1>3. CASE TickComplete(p)
  <2> SUFFICES ASSUME log' # log PROVE SerialComplete BY DEF SerialNext
  <2>1. me # Idle /\ me.op = "tick" /\ me.pc = "complete" /\ NothingPending(me.st)
        /\ ~Conflicts(me.st.version) /\ log' = log \o <<WorkflowCompleted>>
    BY <1>3 DEF TickComplete, At, Append_
  <2>2. Good(me) /\ me.st.version = Len(log) /\ me.st = Current(log) BY <2>1, AtHead
  <2>3. \A i \in DOMAIN log : log[i] # WorkflowCancelRequested
    BY <2>1, <2>2 DEF Good
  <2>4. ~CancelPending(log, Len(log)) BY <2>3 DEF CancelPending
  <2> QED BY <2>1, <2>2, <2>4 DEF SerialComplete, Record
<1>4. CASE RecordResult(p)
  <2> SUFFICES ASSUME log' # log PROVE SerialResult BY DEF SerialNext
  <2>1. PICK a \in me.st.pending : a.id = me.arg
    BY <1>4 DEF RecordResult
  <2>2. /\ me # Idle /\ ~Conflicts(me.st.version)
        /\ \/ log' = log \o <<ActivityCompleted(a.id)>>
           \/ log' = log \o <<ActivityFailed(a.id)>>
    BY <1>4, <2>1 DEF RecordResult, At, Append_
  <2>3. me.st = Current(log) BY <2>2, AtHead
  <2> QED BY <2>2, <2>3 DEF SerialResult, Record
<1>5. CASE ReceiveSignal(p)
  <2>1. /\ me # Idle /\ ~Conflicts(me.st.version) /\ me.op = "signal"
        /\ log' = log \o <<SignalReceived(me.arg)>>
    BY <1>5 DEF ReceiveSignal, At, Append_
  <2>2. me.arg \in Signals BY <2>1, AtHead DEF Good
  <2> QED BY <2>1, <2>2 DEF SerialNext, SerialSignal, Record
<1>6. CASE RequestCancel(p)
  <2> SUFFICES ASSUME log' # log PROVE SerialCancelRequest BY DEF SerialNext
  <2>1. /\ me # Idle /\ ~Conflicts(me.st.version) /\ me.st.status = "running"
        /\ log' = log \o <<WorkflowCancelRequested>>
    BY <1>6 DEF RequestCancel, At, Append_
  <2>2. me.st = Current(log) BY <2>1, AtHead
  <2> QED BY <2>1, <2>2 DEF SerialCancelRequest, Record
<1>7. CASE ~(TickCancel(p) \/ TickExecute(p) \/ TickComplete(p) \/ RecordResult(p)
             \/ ReceiveSignal(p) \/ RequestCancel(p))
  BY <1>7 DEF Step, StartTick, StartActivity, StartRequest, LoadEvents, LoadHistory,
              AppendConflict, TickEnqueue, TickSnapshot, ResultConflict,
              CompleteTask, Crash
<1> QED BY <1>1, <1>2, <1>3, <1>4, <1>5, <1>6, <1>7

(* One process moves to x, the log grows: the others are as good as they   *)
(* were.                                                                   *)
LEMMA ProcKeeps ==
  ASSUME WorkflowInv, NEW p \in Procs, NEW es \in Seq(Event), log' = log \o es,
         NEW x, proc' = [proc EXCEPT ![p] = x], x = Idle \/ Good(x)'
  PROVE  /\ proc' \in [Procs -> ProcState \cup {Idle}]
         /\ \A q \in Procs : proc'[q] = Idle \/ Good(proc[q])'
<1>1. LogTypeOK BY DEF WorkflowInv, SerialInv
<1>2. x \in ProcState \cup {Idle} BY DEF Good
<1>3. proc' \in [Procs -> ProcState \cup {Idle}]
  BY <1>2 DEF WorkflowInv
<1>4. ASSUME NEW q \in Procs PROVE proc'[q] = Idle \/ Good(proc[q])'
  <2>1. PICK y : y = proc'[q] OBVIOUS
  <2>2. y = Idle \/ Good(y)'
    <3>1. CASE q = p
      <4>1. y = x BY <2>1, <3>1 DEF WorkflowInv
      <4> QED BY <4>1
    <3>2. CASE q # p
      <4>1. y = proc[q] BY <2>1, <3>2 DEF WorkflowInv
      <4>2. y = Idle \/ Good(y) BY <4>1 DEF WorkflowInv
      <4> QED BY <1>1, <4>2, GoodGrows
    <3> QED BY <3>1, <3>2
  <2> QED BY <2>1, <2>2 DEF Good, Exact, Scheduled
<1> QED BY <1>3, <1>4

(* A beginning operation is good.                                          *)
LEMMA BeginGood ==
  ASSUME WorkflowInv, NEW op \in Ops, NEW arg \in Nat \cup Signals,
         NEW outcome \in Outcomes \cup {"ok", "error", "none"},
         op = "signal" => arg \in Signals
  PROVE  Good(Begin(op, arg, outcome))
<1>1. LoadedState \in RunStates /\ Exact(LoadedState) BY LoadedExact
<1>2. snapshot.version \in Nat
  BY DEF WorkflowInv, NoSnapshot, RunStates
<1> DEFINE me == Begin(op, arg, outcome)
<1>3. /\ me \in ProcState /\ me.st = LoadedState /\ me.queue = {}
      /\ me.op = op /\ me.arg = arg /\ me.pc = "loadEvents"
  BY <1>1, <1>2 DEF Begin, ProcState, Pcs
<1> HIDE DEF me
<1>4. Good(me) BY <1>1, <1>3 DEF Good
<1> QED BY <1>4 DEF me

(* The parts of a step put together.                                       *)
LEMMA StepParts ==
  ASSUME WorkflowInv, SerialInv', NEW p \in Procs, NEW es \in Seq(Event), log' = log \o es,
         NEW x, proc' = [proc EXCEPT ![p] = x], x = Idle \/ Good(x)',
         snapshot' = snapshot \/ (snapshot' \in RunStates /\ Exact(snapshot)'),
         \A id \in tasks' \cup deadLetters' :
            id \in tasks \cup deadLetters \/ Scheduled(id)'
  PROVE  WorkflowInv'
<1>1. /\ proc' \in [Procs -> ProcState \cup {Idle}]
      /\ \A q \in Procs : proc'[q] = Idle \/ Good(proc[q])'
  BY ProcKeeps
<1>2. LogTypeOK /\ log \in Seq(Event) BY DEF WorkflowInv, SerialInv, LogTypeOK
<1>3. ASSUME NEW id \in tasks' \cup deadLetters' PROVE Scheduled(id)'
  <2>1. CASE Scheduled(id)'
    BY <2>1
  <2>2. CASE id \in tasks \cup deadLetters
    <3>1. id \in 1 .. Len(log) /\ log[id].type = "ActivityScheduled"
      BY <1>2, <2>2 DEF WorkflowInv, Scheduled
    <3>2. id \in DOMAIN log' /\ log'[id] = log[id] BY <1>2, <3>1, Grow
    <3> QED BY <3>1, <3>2 DEF Scheduled
  <2> QED BY <2>1, <2>2
<1>4. (snapshot = NoSnapshot \/ (snapshot \in RunStates /\ Exact(snapshot)))'
  <2>1. CASE snapshot' = snapshot
    <3>1. PICK y : y = snapshot OBVIOUS
    <3>2. y = NoSnapshot \/ (y \in RunStates /\ Exact(y)) BY <3>1 DEF WorkflowInv
    <3>3. y = NoSnapshot \/ (y \in RunStates /\ Exact(y)') BY <1>2, <3>2, ExactGrows
    <3> QED BY <2>1, <3>1, <3>3 DEF Exact, NoSnapshot
  <2>2. CASE snapshot' \in RunStates /\ Exact(snapshot)' BY <2>2
  <2> QED BY <2>1, <2>2
<1> QED BY <1>1, <1>3, <1>4 DEF WorkflowInv

(* An append of a tick leaves it with the current state of the longer log. *)
LEMMA AppendedExact ==
  ASSUME WorkflowInv, SerialInv', NEW es \in Seq(Event), log' = log \o es,
         NEW st, Exact(st)
  PROVE  /\ Replay(st, log', Len(log')) \in RunStates
         /\ Replay(st, log', Len(log')).version = Len(log')
         /\ Len(log') \in DOMAIN log'
         /\ Replay(st, log', Len(log')) = StateAt(log', Len(log'))
         /\ st = StateAt(log', st.version) /\ st.version \in DOMAIN log'
<1>1. LogTypeOK /\ log' \in Seq(Event) /\ Len(log') \in DOMAIN log'
  BY DEF WorkflowInv, SerialInv, LogTypeOK, ClosedOnce
<1>2. st.version \in DOMAIN log' /\ st = StateAt(log', st.version)
  BY <1>1, ExactGrows DEF Exact
<1> QED BY <1>1, <1>2, RehydrateExact DEF Current

(* Every step of every process keeps the invariant, one case per action.   *)
LEMMA StepKeeps ==
  ASSUME WorkflowInv, NEW p \in Procs, Step(p)
  PROVE  WorkflowInv'
<1> DEFINE me == proc[p]
<1>1. SerialNext \/ log' = log BY LogStep
<1>2. SerialInv'
  <2>1. CASE SerialNext BY <2>1, NextKeeps DEF WorkflowInv
  <2>2. CASE log' = log
    BY <2>2 DEF WorkflowInv, SerialInv, LogTypeOK, ClosedOnce, CancelWins,
                QuietAfterClose, ResultOnce, CompletedClean
  <2> QED BY <1>1, <2>1, <2>2
<1>3. PICK es \in Seq(Event) : log' = log \o es
  BY <1>1, NextGrows DEF WorkflowInv
<1>4. LogTypeOK /\ log \in Seq(Event) /\ Len(log) \in Nat /\ SerialInv
  BY DEF WorkflowInv, SerialInv, LogTypeOK
<1>5. proc \in [Procs -> ProcState \cup {Idle}] /\ (me # Idle => Good(me))
  BY DEF WorkflowInv
<1>6. CASE proc' = [proc EXCEPT ![p] = Idle] /\ snapshot' = snapshot
           /\ tasks' \cup deadLetters' \subseteq tasks \cup deadLetters
  BY <1>2, <1>3, <1>6, StepParts
<1>7. ASSUME NEW x, proc' = [proc EXCEPT ![p] = x], Good(x), snapshot' = snapshot,
             tasks' \cup deadLetters' \subseteq tasks \cup deadLetters
      PROVE  WorkflowInv'
  <2>1. Good(x)' BY <1>3, <1>4, <1>7, GoodGrows
  <2> QED BY <1>2, <1>3, <1>7, <2>1, StepParts
<1>8. CASE StartTick(p)
  <2>1. PICK x : x = Begin("tick", 0, "none") OBVIOUS
  <2>2. Good(x) BY <2>1, BeginGood DEF Ops
  <2> QED BY <1>7, <1>8, <2>1, <2>2 DEF StartTick
<1>9. CASE StartActivity(p)
  <2>1. PICK id \in tasks, outcome \in {"ok", "error"} :
          proc' = [proc EXCEPT ![p] = Begin("result", id, outcome)]
    BY <1>9 DEF StartActivity
  <2>2. id \in Nat BY <1>4 DEF WorkflowInv, Scheduled
  <2>3. PICK x : x = Begin("result", id, outcome) OBVIOUS
  <2>4. Good(x) BY <2>2, <2>3, BeginGood DEF Ops
  <2> QED BY <1>7, <1>9, <2>1, <2>3, <2>4 DEF StartActivity
<1>10. CASE StartRequest(p)
  <2>1. CASE \E n \in Signals : proc' = [proc EXCEPT ![p] = Begin("signal", n, "none")]
    <3>1. PICK n \in Signals : proc' = [proc EXCEPT ![p] = Begin("signal", n, "none")]
      BY <2>1
    <3>2. PICK x : x = Begin("signal", n, "none") OBVIOUS
    <3>3. Good(x) BY <3>2, BeginGood DEF Ops
    <3> QED BY <1>7, <1>10, <3>1, <3>2, <3>3 DEF StartRequest
  <2>2. CASE proc' = [proc EXCEPT ![p] = Begin("cancel", 0, "none")]
    <3>1. PICK x : x = Begin("cancel", 0, "none") OBVIOUS
    <3>2. Good(x) BY <3>1, BeginGood DEF Ops
    <3> QED BY <1>7, <1>10, <2>2, <3>1, <3>2 DEF StartRequest
  <2> QED BY <1>10, <2>1, <2>2 DEF StartRequest
<1>11. CASE LoadEvents(p)
  <2>1. PICK x : x = [me EXCEPT !.st = Replay(me.st, log, Len(log)),
                                !.pc = IF me.op = "tick" THEN "loadHistory" ELSE "append"]
    OBVIOUS
  <2>2. proc' = [proc EXCEPT ![p] = x] BY <1>5, <1>11, <2>1 DEF LoadEvents
  <2>3. Good(me) BY <1>5, <1>11 DEF LoadEvents
  <2>4. /\ Replay(me.st, log, Len(log)) = Current(log)
        /\ Current(log) \in RunStates /\ Current(log).version = Len(log)
    BY <1>4, <2>3, RehydrateExact DEF Good, Exact, SerialInv
  <2>5. /\ x \in ProcState /\ x.st = Current(log) /\ x.queue = me.queue /\ x.arg = me.arg
        /\ x.op = me.op
        /\ x.pc = IF me.op = "tick" THEN "loadHistory" ELSE "append"
    BY <2>1, <2>3, <2>4 DEF Good, ProcState, Pcs
  <2>6. Exact(x.st) BY <1>4, <2>4, <2>5 DEF Exact, Current, LogTypeOK
  <2>7. Good(x) BY <2>3, <2>5, <2>6 DEF Good
  <2> QED BY <1>7, <1>11, <2>2, <2>7 DEF LoadEvents
<1>12. CASE LoadHistory(p)
  <2>1. Good(me) BY <1>5, <1>12 DEF LoadHistory
  <2>2. CASE me.st.status # "running" BY <1>6, <1>12, <2>2 DEF LoadHistory, Finish
  <2>3. CASE me.st.status = "running"
    <3>1. PICK x : x = [me EXCEPT !.seen = Len(log), !.pc = "append"] OBVIOUS
    <3>2. proc' = [proc EXCEPT ![p] = x] BY <1>5, <1>12, <2>3, <3>1 DEF LoadHistory
    <3>3. /\ x \in ProcState /\ x.st = me.st /\ x.queue = me.queue /\ x.arg = me.arg
          /\ x.op = me.op /\ x.pc = "append" /\ x.seen = Len(log)
      BY <1>4, <2>1, <3>1 DEF Good, ProcState, Pcs
    <3>4. me.st.version <= Len(log) BY <1>4, <2>1 DEF Good, Exact
    <3>5. Good(x) BY <1>4, <2>1, <2>3, <3>3, <3>4 DEF Good
    <3> QED BY <1>7, <1>12, <3>2, <3>5 DEF LoadHistory
  <2> QED BY <2>2, <2>3
<1>13. CASE AppendConflict(p)
  BY <1>6, <1>13 DEF AppendConflict, Finish
<1>14. CASE TickCancel(p)
  BY <1>6, <1>14 DEF TickCancel, Finish
<1>15. CASE RecordResult(p)
  <2>1. Good(me) /\ me.op = "result" BY <1>5, <1>15 DEF RecordResult, At
  <2>2. PICK x : x = [me EXCEPT !.pc = "completeTask"] OBVIOUS
  <2>3. proc' = [proc EXCEPT ![p] = x] BY <1>5, <1>15, <2>2 DEF RecordResult, Goto
  <2>4. /\ x \in ProcState /\ x.st = me.st /\ x.queue = me.queue /\ x.arg = me.arg
        /\ x.op = me.op /\ x.pc = "completeTask"
    BY <2>1, <2>2 DEF Good, ProcState, Pcs
  <2>5. Good(x) BY <2>1, <2>4 DEF Good
  <2> QED BY <1>7, <1>15, <2>3, <2>5 DEF RecordResult
<1>16. CASE ReceiveSignal(p) \/ RequestCancel(p) \/ CompleteTask(p) \/ Crash(p)
  BY <1>6, <1>16 DEF ReceiveSignal, RequestCancel, CompleteTask, Crash, Finish
<1>17. CASE TickSnapshot(p)
  <2>1. Good(me) BY <1>5, <1>17 DEF TickSnapshot
  <2>2. log' = log BY <1>17 DEF TickSnapshot
  <2>3. snapshot' = snapshot \/ (snapshot' \in RunStates /\ Exact(snapshot)')
    BY <1>17, <2>1, <2>2 DEF TickSnapshot, Good, ProcState, Exact
  <2> QED BY <1>2, <1>3, <1>17, <2>3, StepParts DEF TickSnapshot, Finish
<1>18. CASE ResultConflict(p)
  <2>1. Good(me) BY <1>5, <1>18 DEF ResultConflict
  <2>2. CASE me.outcome = "ok"
    <3>1. PICK x : x = Begin("result", me.arg, "error") OBVIOUS
    <3>2. me.arg \in Nat \cup Signals BY <2>1 DEF Good, ProcState
    <3>3. Good(x) BY <3>1, <3>2, BeginGood DEF Ops
    <3> QED BY <1>7, <1>18, <2>2, <3>1, <3>3 DEF ResultConflict
  <2>3. CASE me.outcome # "ok"
    <3>1. PICK a \in me.st.pending : a.id = me.arg BY <1>18 DEF ResultConflict
    <3>2. me.st.version \in DOMAIN log /\ a \in StateAt(log, me.st.version).pending
      BY <2>1 DEF Good, Exact
    <3>3. PICK i \in 2 .. me.st.version :
            log[i].type = "ActivityScheduled" /\ a = [id |-> i, activity |-> log[i].activity]
      BY <1>4, <3>2, PendingAt
    <3>4. me.arg = i /\ i \in DOMAIN log BY <1>4, <3>1, <3>2, <3>3
    <3>5. Scheduled(i)' BY <1>18, <3>3, <3>4 DEF ResultConflict, Scheduled
    <3>6. \A id \in tasks' \cup deadLetters' :
             id \in tasks \cup deadLetters \/ Scheduled(id)'
      <4>1. tasks' \cup deadLetters' \subseteq tasks \cup deadLetters \cup {i}
        BY <1>18, <2>3, <3>4 DEF ResultConflict
      <4> QED BY <3>5, <4>1
    <3>7. PICK x : x = [me EXCEPT !.pc = "completeTask"] OBVIOUS
    <3>8. proc' = [proc EXCEPT ![p] = x]
      BY <1>5, <1>18, <2>3, <3>7 DEF ResultConflict, Goto
    <3>9. /\ x \in ProcState /\ x.st = me.st /\ x.queue = me.queue /\ x.arg = me.arg
          /\ x.op = me.op /\ x.pc = "completeTask"
      BY <2>1, <3>7 DEF Good, ProcState, Pcs
    <3>10. me.op = "result" BY <1>18 DEF ResultConflict, At
    <3>11. Good(x) BY <2>1, <3>9, <3>10 DEF Good
    <3>12. Good(x)' BY <1>3, <1>4, <3>11, GoodGrows
    <3> QED BY <1>2, <1>3, <1>18, <3>6, <3>8, <3>12, StepParts DEF ResultConflict
  <2> QED BY <2>2, <2>3
<1>19. CASE TickEnqueue(p)
  <2>1. Good(me) BY <1>5, <1>19 DEF TickEnqueue
  <2>2. me.pc = "enqueue" /\ log' = log BY <1>19 DEF TickEnqueue, At
  <2>3. CASE me.queue = {}
    <3>1. PICK x : x = [me EXCEPT !.pc = "complete"] OBVIOUS
    <3>2. proc' = [proc EXCEPT ![p] = x]
      BY <1>5, <1>19, <2>3, <3>1 DEF TickEnqueue, Goto
    <3>3. /\ x \in ProcState /\ x.st = me.st /\ x.queue = me.queue /\ x.arg = me.arg
          /\ x.op = me.op /\ x.pc = "complete"
      BY <2>1, <3>1 DEF Good, ProcState, Pcs
    <3>4. Good(x) BY <2>1, <2>2, <3>3 DEF Good
    <3> QED BY <1>7, <1>19, <2>3, <3>2, <3>4 DEF TickEnqueue
  <2>4. CASE me.queue # {}
    <3>1. PICK i \in me.queue : /\ tasks' = tasks \cup {i}
                                /\ proc' = [proc EXCEPT ![p].queue = @ \ {i}]
      BY <1>19, <2>4 DEF TickEnqueue
    <3>2. PICK x : x = [me EXCEPT !.queue = me.queue \ {i}] OBVIOUS
    <3>3. proc' = [proc EXCEPT ![p] = x] BY <1>5, <3>1, <3>2
    <3>4. /\ x \in ProcState /\ x.st = me.st /\ x.queue \subseteq me.queue /\ x.arg = me.arg
          /\ x.op = me.op /\ x.pc = me.pc
      BY <2>1, <3>2 DEF Good, ProcState
    <3>5. Good(x) BY <2>1, <2>2, <3>4 DEF Good
    <3>6. Good(x)' BY <1>3, <1>4, <3>5, GoodGrows
    <3>7. Scheduled(i)' BY <2>1, <2>2 DEF Good, Scheduled
    <3>8. snapshot' = snapshot /\ deadLetters' = deadLetters BY <1>19 DEF TickEnqueue
    <3>9. \A id \in tasks' \cup deadLetters' :
             id \in tasks \cup deadLetters \/ Scheduled(id)'
      BY <3>1, <3>7, <3>8
    <3> QED BY <1>2, <1>3, <3>3, <3>6, <3>8, <3>9, StepParts
  <2> QED BY <2>3, <2>4
<1>20. CASE TickExecute(p)
  <2>1. /\ Good(me) /\ me.op = "tick" /\ me.pc = "append" /\ ~CancelPending(log, me.seen)
        /\ snapshot' = snapshot /\ tasks' = tasks /\ deadLetters' = deadLetters
    BY <1>5, <1>20 DEF TickExecute, At
  <2>2. /\ me \in ProcState /\ me.st.status = "running" /\ me.st.version \in DOMAIN log
        /\ me.st.version <= me.seen /\ me.seen <= Len(log) /\ me.seen \in Nat
        /\ me.st = StateAt(log, me.st.version)
    BY <2>1 DEF Good, Exact, ProcState
  <2>3. me.st.version = Len(log) =>
          \A i \in DOMAIN log : log[i] # WorkflowCancelRequested
    <3> SUFFICES ASSUME me.st.version = Len(log)
                 PROVE  \A i \in DOMAIN log : log[i] # WorkflowCancelRequested
      OBVIOUS
    <3>1. me.seen = Len(log) /\ Current(log).status = "running"
      BY <1>4, <2>2 DEF Current
    <3> QED BY <1>4, <2>1, <3>1, OpenRun
  <2>4. PICK b \in Batches(me.st, log, me.seen), outcome \in Outcomes :
          IF Recorded(b, outcome) = << >>
          THEN /\ proc' = [proc EXCEPT ![p].outcome = outcome, ![p].pc = "complete"]
               /\ log' = log
          ELSE /\ Append_(me.st.version, Recorded(b, outcome))
               /\ proc' = [proc EXCEPT
                    ![p].st      = Replay(@, log', Len(log')),
                    ![p].queue   = {i \in Len(log) + 1 .. Len(log') :
                                      log'[i].type = "ActivityScheduled"},
                    ![p].outcome = outcome,
                    ![p].pc      = "enqueue"]
    BY <1>20 DEF TickExecute
  <2>5. CASE Recorded(b, outcome) = << >>
    <3>1. PICK x : x = [me EXCEPT !.outcome = outcome, !.pc = "complete"] OBVIOUS
    <3>2. proc' = [proc EXCEPT ![p] = x] BY <1>5, <2>4, <2>5, <3>1
    <3>3. /\ x \in ProcState /\ x.st = me.st /\ x.queue = me.queue /\ x.arg = me.arg
          /\ x.op = me.op /\ x.pc = "complete"
      BY <2>2, <3>1 DEF ProcState, Pcs
    <3>4. Good(x) BY <2>1, <2>3, <3>3 DEF Good
    <3> QED BY <1>7, <2>1, <3>2, <3>4
  <2>6. CASE Recorded(b, outcome) # << >>
    <3>1. me.st.version = Len(log) /\ log' = log \o Recorded(b, outcome)
      BY <2>4, <2>6 DEF Append_, Conflicts
    <3> DEFINE new == {i \in Len(log) + 1 .. Len(log') :
                         log'[i].type = "ActivityScheduled"}
    <3>2. PICK x : x = [me EXCEPT !.st = Replay(me.st, log', Len(log')), !.queue = new,
                                  !.outcome = outcome, !.pc = "enqueue"]
      OBVIOUS
    <3>3. proc' = [proc EXCEPT ![p] = x] BY <1>5, <2>4, <2>6, <3>2
    <3>4. PICK st : st = me.st OBVIOUS
    <3>5. /\ Replay(me.st, log', Len(log')) \in RunStates
          /\ Replay(me.st, log', Len(log')).version = Len(log')
          /\ Len(log') \in DOMAIN log'
          /\ Replay(me.st, log', Len(log')) = StateAt(log', Len(log'))
      BY <1>2, <1>3, <2>1, <3>4, AppendedExact DEF Good
    <3>6. log' \in Seq(Event) /\ Len(log') \in Nat /\ DOMAIN log' = 1 .. Len(log')
      BY <1>3, <1>4, Grow
    <3>7. /\ x \in ProcState /\ x.st = Replay(me.st, log', Len(log')) /\ x.queue = new
          /\ x.op = "tick" /\ x.pc = "enqueue"
      <4>1. new \subseteq Nat BY <1>4, <3>6
      <4> HIDE DEF new
      <4> QED BY <2>1, <2>2, <3>2, <3>5, <4>1 DEF ProcState, Pcs
    <3>8. Exact(x.st)' BY <3>5, <3>7 DEF Exact
    <3>9. \A i \in x.queue : Scheduled(i)' BY <1>4, <3>6, <3>7 DEF Scheduled
    <3>10. \A i \in DOMAIN log' : log'[i] # WorkflowCancelRequested
      <4>1. \A i \in DOMAIN Recorded(b, outcome) :
               Recorded(b, outcome)[i] # WorkflowCancelRequested
        BY BatchEvents DEF CallTypes, WorkflowCancelRequested, WorkflowFailed
      <4>2. Recorded(b, outcome) \in Seq(Event) BY BatchEvents
      <4>3. ASSUME NEW i \in DOMAIN log' PROVE log'[i] # WorkflowCancelRequested
        <5>1. CASE i <= Len(log)
          <6>1. i \in DOMAIN log /\ log'[i] = log[i] BY <1>4, <3>1, <4>2, <5>1, Grow
          <6> QED BY <2>3, <3>1, <6>1
        <5>2. CASE i > Len(log)
          <6>1. i - Len(log) \in DOMAIN Recorded(b, outcome)
                /\ log'[i] = Recorded(b, outcome)[i - Len(log)]
            BY <1>4, <3>1, <4>2, <5>2, Grow
          <6> QED BY <4>1, <6>1
        <5> QED BY <1>4, <3>6, <5>1, <5>2
      <4> QED BY <4>3
    <3>11. Good(x)' BY <3>7, <3>8, <3>9, <3>10 DEF Good, ProcState
    <3> QED BY <1>2, <1>3, <2>1, <3>3, <3>11, StepParts
  <2> QED BY <2>5, <2>6
<1>21. CASE TickComplete(p)
  <2>1. /\ Good(me) /\ me.op = "tick" /\ me.pc = "complete"
        /\ snapshot' = snapshot /\ tasks' = tasks /\ deadLetters' = deadLetters
    BY <1>5, <1>21 DEF TickComplete, At
  <2>2. CASE Goto(p, "saveSnapshot")
    <3>1. PICK x : x = [me EXCEPT !.pc = "saveSnapshot"] OBVIOUS
    <3>2. proc' = [proc EXCEPT ![p] = x] BY <1>5, <2>2, <3>1 DEF Goto
    <3>3. /\ x \in ProcState /\ x.st = me.st /\ x.queue = me.queue /\ x.arg = me.arg
          /\ x.op = me.op /\ x.pc = "saveSnapshot"
      BY <2>1, <3>1 DEF Good, ProcState, Pcs
    <3>4. Good(x) BY <2>1, <3>3 DEF Good
    <3> QED BY <1>7, <2>1, <3>2, <3>4
  <2>3. CASE Finish(p)
    BY <1>6, <2>1, <2>3 DEF Finish
  <2>4. CASE /\ Append_(me.st.version, <<WorkflowCompleted>>)
             /\ proc' = [proc EXCEPT ![p].st = ApplyEvent(@, WorkflowCompleted),
                                     ![p].pc = "saveSnapshot"]
    <3>1. me.st.version = Len(log) /\ log' = log \o <<WorkflowCompleted>>
      BY <2>4 DEF Append_, Conflicts
    <3>2. PICK x : x = [me EXCEPT !.st = ApplyEvent(me.st, WorkflowCompleted),
                                  !.pc = "saveSnapshot"]
      OBVIOUS
    <3>3. proc' = [proc EXCEPT ![p] = x] BY <1>5, <2>4, <3>2
    <3>4. PICK st : st = me.st OBVIOUS
    <3>5. Exact(st) /\ st \in RunStates /\ KnownIds(st) /\ st.version \in 1 .. Len(log)
      BY <1>4, <2>1, <3>4, ExactType DEF Good
    <3>6. /\ Replay(st, log', Len(log')) \in RunStates
          /\ Replay(st, log', Len(log')).version = Len(log')
          /\ Len(log') \in DOMAIN log'
          /\ Replay(st, log', Len(log')) = StateAt(log', Len(log'))
      BY <1>2, <1>3, <3>5, AppendedExact
    <3>7. /\ Len(log') = st.version + 1 /\ log'[st.version + 1] = WorkflowCompleted
          /\ WorkflowCompleted \in Event
      <4>1. WorkflowCompleted \in Event BY DEF Event, EventWith
      <4>2. <<WorkflowCompleted>> \in Seq(Event) /\ Len(<<WorkflowCompleted>>) = 1
        BY <4>1
      <4>3. Len(log') = Len(log) + 1 BY <1>4, <3>1, <4>2, Grow
      <4>4. log'[Len(log) + 1] = WorkflowCompleted BY <1>4, <3>1, <4>1
      <4> QED BY <3>1, <3>4, <4>1, <4>3, <4>4
    <3>8. Replay(st, log', Len(log')) = ApplyEvent(st, WorkflowCompleted)
      BY <3>5, <3>7, ReplayOne
    <3>9. /\ x \in ProcState /\ x.st = Replay(st, log', Len(log')) /\ x.queue = me.queue
          /\ x.op = "tick" /\ x.pc = "saveSnapshot"
      BY <2>1, <3>2, <3>4, <3>6, <3>8 DEF Good, ProcState, Pcs
    <3>10. Exact(x.st)' BY <3>6, <3>9 DEF Exact
    <3>11. PICK q : q = me OBVIOUS
    <3>12. Good(q)' BY <1>3, <1>4, <2>1, <3>11, GoodGrows
    <3>13. \A i \in x.queue : Scheduled(i)' BY <3>9, <3>11, <3>12 DEF Good
    <3>14. Good(x)' BY <3>9, <3>10, <3>13 DEF Good, ProcState
    <3> QED BY <1>2, <1>3, <2>1, <3>3, <3>14, StepParts
  <2> QED BY <1>21, <2>2, <2>3, <2>4 DEF TickComplete
<1> QED
  BY <1>8, <1>9, <1>10, <1>11, <1>12, <1>13, <1>14, <1>15, <1>16, <1>17, <1>18,
     <1>19, <1>20, <1>21 DEF Step

(* The run and its processes start in the invariant.                       *)
LEMMA InitWorkflowInv == Init => WorkflowInv
<1> SUFFICES ASSUME Init PROVE WorkflowInv OBVIOUS
<1>1. SerialInv BY InitSerialInv DEF Init, SerialInit
<1>2. /\ snapshot = NoSnapshot /\ tasks \cup deadLetters = {}
      /\ proc \in [Procs -> ProcState \cup {Idle}] /\ \A p \in Procs : proc[p] = Idle
  BY DEF Init
<1> QED BY <1>1, <1>2 DEF WorkflowInv

(* WorkflowInv is an invariant of the concurrent run.                      *)
THEOREM WorkflowInvariant == Spec => []WorkflowInv
<1>1. WorkflowInv /\ [Next]_vars => WorkflowInv'
  <2> SUFFICES ASSUME WorkflowInv, [Next]_vars PROVE WorkflowInv' OBVIOUS
  <2>1. CASE Next BY <2>1, StepKeeps DEF Next
  <2>2. CASE UNCHANGED vars
    BY <2>2 DEF vars, WorkflowInv, SerialInv, LogTypeOK, ClosedOnce, CancelWins,
                QuietAfterClose, ResultOnce, CompletedClean, Good, Exact, Scheduled
  <2> QED BY <2>1, <2>2
<1> QED BY <1>1, InitWorkflowInv, PTL DEF Spec

(* Type correctness of the concurrent run.                                 *)
THEOREM WorkflowTypeOK == Spec => []TypeOK
<1>1. WorkflowInv => TypeOK
  BY DEF WorkflowInv, SerialInv, LogTypeOK, Scheduled, TypeOK
<1> QED BY <1>1, WorkflowInvariant, PTL

(* Snapshot plus later events always equal the full replay, whoever wrote  *)
(* the snapshot last and whatever was appended meanwhile.                  *)
THEOREM WorkflowRehydrationExact == Spec => []RehydrationExact
<1>1. WorkflowInv => RehydrationExact
  BY DEF WorkflowInv, RehydrationExact, Good
<1> QED BY <1>1, WorkflowInvariant, PTL

(* Only activities the log scheduled ever have a task.                     *)
THEOREM WorkflowTasksScheduled == Spec => []TasksScheduled
<1>1. WorkflowInv => TasksScheduled
  BY DEF WorkflowInv, TasksScheduled, Scheduled
<1> QED BY <1>1, WorkflowInvariant, PTL

(* What processes and stores hold agrees with the log. *)
THEOREM WorkflowHeldStateExact == Spec => []HeldStateExact
  BY WorkflowRehydrationExact, WorkflowTasksScheduled, PTL DEF HeldStateExact

(* The runtime implements the serial run, step by step.                    *)
THEOREM WorkflowRefinesSerialRun == Spec => RefinesSerialRun
<1>1. Init => SerialInit BY DEF Init, SerialInit
<1>2. WorkflowInv /\ [Next]_vars => [SerialNext]_log
  <2> SUFFICES ASSUME WorkflowInv, [Next]_vars PROVE [SerialNext]_log OBVIOUS
  <2>1. CASE Next BY <2>1, LogStep DEF Next
  <2>2. CASE UNCHANGED vars BY <2>2 DEF vars
  <2> QED BY <2>1, <2>2
<1> QED BY <1>1, <1>2, WorkflowInvariant, PTL DEF Spec, RefinesSerialRun, SerialSpec

(* So the invariants of the serial run are invariants of the concurrent    *)
(* one: an accepted cancellation wins against every racing worker, a run   *)
(* closes once, activities have one result and none is scheduled twice.    *)
THEOREM WorkflowSafety ==
  Spec => [](ClosesForGood /\ WorkAccounted) /\ ScheduledOnce
  BY SerialClosesForGood, SerialWorkAccounted, SerialScheduledOnce,
     WorkflowRefinesSerialRun, PTL DEF RefinesSerialRun
=============================================================================
