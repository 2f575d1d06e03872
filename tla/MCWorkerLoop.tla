---------------------------- MODULE MCWorkerLoop ----------------------------
(* Definitions for the runs of WorkerLoop: the built-in workflows and      *)
(* small ones that use each call of the ftn API. *)
EXTENDS WorkerLoop

(* approval-flow (app/workflows.ts) *)
ApprovalFlow ==
  <<ActivitiesStep(<<"email">>), SignalStep("decision"),
    ActivitiesStep(<<"audit", "notify">>)>>

(* order-processing (app/workflows.ts): charge is called with the attempt *)
OrderProcessing ==
  <<RetryStep(3, TRUE, <<AttemptStep(<<"charge">>)>>), ActivitiesStep(<<"ship">>)>>

(* the retry step of the designer (app/designer-runtime.ts) *)
DesignerRetry(backOff) ==
  <<RetryStep(2, backOff, <<ActivitiesStep(<<"email">>)>>), ActivitiesStep(<<"notify">>)>>

(* two decisions *)
Decisions ==
  <<ConditionalStep("then", <<ActivitiesStep(<<"email">>)>>, <<ActivitiesStep(<<"charge">>)>>),
    ConditionalStep("else", <<ActivitiesStep(<<"charge">>)>>, <<ActivitiesStep(<<"notify">>)>>)>>

FirstDecision == SubSeq(Decisions, 1, 1)

Loop == <<ForEachStep(2, 2, <<ActivitiesStep(<<"email">>)>>), ActivitiesStep(<<"notify">>)>>

(* a decision inside a loop and one after it *)
LoopDecision ==
  <<ForEachStep(1, 1, <<ConditionalStep("then", <<ActivitiesStep(<<"email">>)>>, << >>)>>),
    ActivitiesStep(<<"notify">>),
    ConditionalStep("else", <<ActivitiesStep(<<"charge">>)>>, << >>)>>

Sleeper == <<SleepStep, ActivitiesStep(<<"notify">>)>>

Parent == <<ChildStep, ActivitiesStep(<<"notify">>)>>

FlakyRetry == <<RetryStep(3, TRUE, <<ComputeStep>>)>>

Answered == <<SignalStep("decision"), ActivitiesStep(<<"email">>)>>

Calm == [signals |-> {}, cancel |-> FALSE, failures |-> 0, crashes |-> 0, redeliveries |-> 0,
         versions |-> 16, servers |-> {"s1"}]

(* nothing goes wrong; clients send the signal an approval waits for *)
Quiet(p) == Calm @@ [program |-> p]
Bounded(versions, scenario) == [versions |-> versions] @@ scenario
Twice(scenario) == [servers |-> {"s1", "s2"}] @@ scenario
Faulty(scenario) == [crashes |-> 1, redeliveries |-> 1] @@ scenario
Signalled(p) == [signals |-> {"decision"}] @@ Quiet(p)

(* Two servers that tick a run at once, faults in programs that end, in    *)
(* order-processing, which does not, and in the two that may wait forever. *)
(* Only the log of order-processing meets its bound. *)
LiveScenarios ==
  {Signalled(ApprovalFlow), Twice(Signalled(Answered)),
   Twice([redeliveries |-> 1] @@ Quiet(FirstDecision))}
  \cup {[cancel |-> TRUE, crashes |-> 1] @@ Signalled(Answered)}
  \cup {Faulty(Quiet(p)) : p \in {Decisions, Loop, LoopDecision}}
  \cup {[crashes |-> 1] @@ Quiet(DesignerRetry(backOff)) : backOff \in BOOLEAN}
  \cup {Bounded(6, Quiet(OrderProcessing))}
  \cup {Faulty(Quiet(Parent)), Faulty([failures |-> 1] @@ Quiet(FlakyRetry))}

(* what the interpreter records, and what the loop makes of every fault at *)
(* once, against the serial run *)
FaultScenarios ==
  {Bounded(6, Quiet(OrderProcessing)), Bounded(7, Quiet(Parent)),
   Bounded(10, Quiet(LoopDecision)), Bounded(6, [failures |-> 1] @@ Quiet(FlakyRetry))}
  \cup {Bounded(6, Faulty([cancel |-> TRUE] @@ Signalled(Answered)))}

SleepScenarios == {Bounded(10, Quiet(Sleeper))}

ActivityNames == {"email", "audit", "notify", "charge", "ship"}
FewActivities == {"email", "notify", "charge"}
AllCalls == {"ActivityScheduled", "SignalWaitStarted", "TimerScheduled", "StepRecorded"}
=============================================================================
