------------------------------- MODULE FtnDsl -------------------------------
(***************************************************************************)
(* The ftn API of one tick (infra/inmemory-workflow-runtime.ts) as an      *)
(* interpreter.  A workflow definition is a program: a sequence of steps,  *)
(* run from its first step by every tick.  What a step does is decided by  *)
(* the rehydrated state, by the history the tick read and by the ordinal   *)
(* the step gets from the counters of the tick; it either goes on with the *)
(* next step, suspends the definition (WorkflowSuspendedError) or throws.  *)
(*                                                                         *)
(* RunState abstracts the events that only annotate steps as StepRecorded; *)
(* here they keep the data the calls look up, and Abstract maps an event   *)
(* to the one RunState knows.                                              *)
(***************************************************************************)
EXTENDS RunState, SequencesExt

(* steps of a program *)
ActivitiesStep(names)     == [op |-> "activities", names |-> names, attempt |-> FALSE]
AttemptStep(names)        == [op |-> "activities", names |-> names, attempt |-> TRUE]
SignalStep(n)             == [op |-> "signal", signal |-> n]
SleepStep                 == [op |-> "sleep"]
ChildStep                 == [op |-> "child"]
ComputeStep               == [op |-> "compute"]  \* user code that may throw
RetryStep(max, backOff, body) ==
  [op |-> "retry", max |-> max, backOff |-> backOff, body |-> body]
ForEachStep(items, limit, body) ==
  [op |-> "forEach", items |-> items, limit |-> limit, body |-> body]
ConditionalStep(condition, then, else) ==
  [op |-> "conditional", condition |-> condition, then |-> then, else |-> else]

(* the events RunState abstracts as StepRecorded, with what identifies the *)
(* step; a SignalWaitStarted also keeps its ordinal *)
RetryAttemptStarted(s, n)     == [type |-> "RetryAttemptStarted", step |-> s, attempt |-> n]
RetryCompleted(s)             == [type |-> "RetryCompleted", step |-> s]
RetryGivenUp(s)               == [type |-> "RetryGivenUp", step |-> s]
BackoffTimer(kind, s, n)      == [type |-> "TimerScheduled", kind |-> kind, step |-> s, after |-> n]
ConditionalBranchChosen(s, b) == [type |-> "ConditionalBranchChosen", step |-> s, branch |-> b]
LoopIterationStarted(s, i)    == [type |-> "LoopIterationStarted", step |-> s, index |-> i]
LoopCompleted(s)              == [type |-> "LoopCompleted", step |-> s]
ChildWorkflowStarted(s)       == [type |-> "ChildWorkflowStarted", step |-> s]
ChildWorkflowCompleted(s)     == [type |-> "ChildWorkflowCompleted", step |-> s]
ChildWorkflowFailed(s)        == [type |-> "ChildWorkflowFailed", step |-> s]
WaitStarted(n, k)             == [type |-> "SignalWaitStarted", signal |-> n, ordinal |-> k]

Abstract(e) ==
  CASE e.type = "SignalWaitStarted" -> SignalWaitStarted(e.signal)
    [] "step" \in DOMAIN e -> StepRecorded
    [] OTHER -> e

AbstractLog(log) == [i \in DOMAIN log |-> Abstract(log[i])]

-----------------------------------------------------------------------------
(* The context of a tick: the rehydrated state, the history read, the      *)
(* events recorded so far (newDomainEvents), the counters that number the  *)
(* steps, how many more computations throw in this tick, whether a child   *)
(* run was started, and how the definition stands. *)
Context(st, history, failures) ==
  [st |-> st, history |-> history, events |-> << >>, failures |-> failures,
   retries |-> 0, conditionals |-> 0, loops |-> 0, children |-> 0,
   signals |-> [n \in Signals |-> 0], startsChild |-> FALSE,
   outcome |-> "returned"]

Read(c, e) == \E i \in DOMAIN c.history : c.history[i] = e
Has(c, e)  == Read(c, e) \/ Contains(c.events, e)

Push(c, e)     == [c EXCEPT !.events = Append(@, e)]
PushOnce(c, e) == IF Has(c, e) THEN c ELSE Push(c, e)
Stop(c, how)   == [c EXCEPT !.outcome = how]
Suspend(c)     == Stop(c, "suspended")

(* ftn.activity for each name, then ftn.join of the handles: an activity   *)
(* called with an attempt number is always scheduled anew, and a join of   *)
(* it always suspends; a pending activity is found before a completed one  *)
RunActivities(c, s) ==
  LET matching(set, a) == \E p \in set : p.activity = a
      pending(a)  == matching(c.st.pending, a)
      known(a)    == pending(a) \/ matching(c.st.completed, a)
      scheduled   == SelectSeq(s.names, LAMBDA a : s.attempt \/ ~known(a))
      called      == [c EXCEPT !.events =
                       @ \o [i \in DOMAIN scheduled |-> ActivityScheduled(scheduled[i])]]
  IN
  IF ~s.attempt /\ \A a \in Range(s.names) : known(a) /\ ~pending(a)
  THEN called ELSE Suspend(called)

(* a signal is taken one too late *)
RunSignalNext(c, s) ==
  LET ordinal == c.signals[s.signal]
      received == {i \in DOMAIN c.history : c.history[i] = SignalReceived(s.signal)}
  IN
  IF ordinal + 1 < Cardinality(received)
  THEN [c EXCEPT !.signals[s.signal] = @ + 1]
  ELSE Suspend(PushOnce(c, WaitStarted(s.signal, ordinal)))

(* ftn.signal: the k-th call of a name in a tick takes the k-th signal of  *)
(* that name *)
RunSignal(c, s) ==
  LET ordinal == c.signals[s.signal]
      received == {i \in DOMAIN c.history : c.history[i] = SignalReceived(s.signal)}
  IN
  IF ordinal < Cardinality(received)
  THEN [c EXCEPT !.signals[s.signal] = @ + 1]
  ELSE Suspend(PushOnce(c, WaitStarted(s.signal, ordinal)))

(* ftn.sleep *)
RunSleep(c) == Suspend(Push(c, TimerScheduled))

RunCompute(c) ==
  IF c.failures > 0 THEN Stop([c EXCEPT !.failures = @ - 1], "threw") ELSE c

(* ftn.child: its outcome is looked up in the history read only; without a *)
(* record of it a child run is started, before this tick appends anything  *)
RunChild(c0) ==
  LET k == c0.children
      c == [c0 EXCEPT !.children = @ + 1]
      started == IF Read(c, ChildWorkflowStarted(k)) THEN c
                 ELSE [Push(c, ChildWorkflowStarted(k)) EXCEPT !.startsChild = TRUE]
  IN
  IF Read(c, ChildWorkflowCompleted(k)) THEN c
  ELSE IF Read(c, ChildWorkflowFailed(k)) THEN Stop(c, "threw")
  ELSE Suspend(PushOnce(started, BackoffTimer("child", k, 0)))

RECURSIVE Run(_, _), Attempts(_, _, _, _)


(* ftn.conditional: the branch in the history, or the one the condition    *)
(* gives now, which is recorded *)
RunConditional(c, s) ==
  LET k == c.conditionals
      chosen == {e \in Range(c.history) :
                   e.type = "ConditionalBranchChosen" /\ e.step = k}
      branch == IF chosen = {} THEN s.condition ELSE (CHOOSE e \in chosen : TRUE).branch
      numbered == [c EXCEPT !.conditionals = @ + 1]
  IN
  Run(IF branch = "then" THEN s.then ELSE s.else,
      IF chosen # {} THEN numbered
      ELSE Push(numbered, ConditionalBranchChosen(k, branch)))

(* ftn.forEach: a loop that completed is not run again *)
RunForEach(c, s) ==
  LET k == c.loops
      numbered == [c EXCEPT !.loops = @ + 1]
      iterate(d, i) ==
        IF d.outcome # "returned" THEN d
        ELSE Run(s.body, PushOnce(d, LoopIterationStarted(k, i)))
      looped == FoldLeft(iterate, numbered, [i \in 1 .. s.items |-> i])
  IN
  IF s.items > s.limit THEN Stop(numbered, "threw")
  ELSE IF Read(c, LoopCompleted(k)) THEN numbered
  ELSE IF looped.outcome # "returned" THEN looped
  ELSE Push(looped, LoopCompleted(k))

(* a step of the program *)
RunStep(s, c) ==
  CASE s.op = "activities"  -> RunActivities(c, s)
    [] s.op = "signal"      -> RunSignal(c, s)
    [] s.op = "sleep"       -> RunSleep(c)
    [] s.op = "compute"     -> RunCompute(c)
    [] s.op = "child"       -> RunChild(c)
    [] s.op = "retry"       -> Attempts([c EXCEPT !.retries = @ + 1], s, c.retries, 1)
    [] s.op = "conditional" -> RunConditional(c, s)
    [] s.op = "forEach"     -> RunForEach(c, s)

(* the steps of a program or of a body, until one stops the definition *)
Run(steps, c) ==
  FoldLeft(LAMBDA d, s : IF d.outcome = "returned" THEN RunStep(s, d) ELSE d, c, steps)

(* ftn.retry from attempt n: whatever the body throws is caught, the       *)
(* suspension of a join included; the last attempt throws it again *)
Attempts(c, s, k, n) ==
  LET tried == Run(s.body, PushOnce(c, RetryAttemptStarted(k, n))) IN
  IF tried.outcome = "returned" THEN PushOnce(tried, RetryCompleted(k))
  ELSE IF n = s.max THEN PushOnce(tried, RetryGivenUp(k))
  ELSE IF s.backOff THEN Suspend(PushOnce(tried, BackoffTimer("retry", k, n)))
  ELSE Attempts(Stop(tried, "returned"), s, k, n + 1)

(* the children polled before the definition runs: one that has ended is   *)
(* recorded, unless its outcome is in the history *)
PollChildren(c, child) ==
  LET open == {e.step : e \in {x \in Range(c.history) : x.type = "ChildWorkflowStarted"}}
      ended(k) == Read(c, ChildWorkflowCompleted(k)) \/ Read(c, ChildWorkflowFailed(k))
      poll(d, k) ==
        IF child = "completed" THEN Push(d, ChildWorkflowCompleted(k))
        ELSE IF child = "failed" THEN Push(d, ChildWorkflowFailed(k))
        ELSE d
  IN FoldLeft(poll, c, SetToSortSeq({k \in open : ~ended(k)}, <))

(* what a tick records and how its definition ended *)
Execute(program, st, history, child, failures) ==
  LET c == Run(program, PollChildren(Context(st, history, failures), child)) IN
  IF c.outcome = "threw" THEN Push(c, WorkflowFailed) ELSE c

=============================================================================
