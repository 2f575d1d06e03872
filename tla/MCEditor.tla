------------------------------ MODULE MCEditor ------------------------------
(***************************************************************************)
(* One scenario per question: runs of graphs with every kind of step,      *)
(* edits of a stored graph until it is saved and run, conditions drawn and *)
(* decided, requests of the page that overtake each other.                 *)
(***************************************************************************)
EXTENDS Editor

Never == [a \in Asked |-> 0]
Times(f) == f @@ Never

Step(id, kind, next) == [Default(id) EXCEPT !.kind = kind, !.next = next]
Activity(id, act, uses, next) == [Step(id, "activity", next) EXCEPT !.act = act, !.uses = uses]
Graph(steps) == [id |-> None, steps |-> steps, entry |-> steps[1].id]

A == <<"a", 1>>
Only(w) == [i \in Ids |-> IF i = A THEN [w EXCEPT !.id = A] ELSE None]
SystemTemplate == [Graph(<<Activity("step-1", "email", None, None)>>) EXCEPT !.id = <<"template", 1>>]

(* an activity, then another with the same input, then a decision on the   *)
(* first that may lead back *)
Polling == Graph(<<
  Activity("step-1", "email", None, "step-2"),
  [Step("step-2", "conditional", None) EXCEPT !.path = "step-1", !.right = <<"1">>,
      !.expr = <<"step-1", "===", "1">>, !.then = "step-3", !.else = "step-1"],
  Activity("step-3", "charge", "step-1", None)>>)

(* a signal is waited for in a round *)
Approval == Graph(<<
  Step("step-1", "signal", "step-2"),
  [Activity("step-2", "email", "step-1", "step-1") EXCEPT !.next = "step-1"],
  Step("step-3", "sleep", None)>>)

(* two branches, and a decision on one of them *)
Parallel == Graph(<<
  [Step("step-1", "parallel", "step-2") EXCEPT !.branches = <<{"step-3"}, {"step-4"}>>],
  [Step("step-2", "conditional", None) EXCEPT !.path = "step-3", !.op = ">=", !.right = <<"1">>,
      !.expr = <<"step-3", ">=", "1">>, !.then = "step-4", !.else = "step-5"],
  Activity("step-3", "email", None, None),
  Activity("step-4", "charge", None, None),
  Step("step-5", "sleep", None)>>)

Retrying(backOff) == Graph(<<
  [Step("step-1", "retry", "step-2") EXCEPT !.target = "step-3", !.backOff = backOff],
  Activity("step-2", "charge", "step-3", "step-4"),
  Activity("step-3", "email", None, None),
  Activity("step-4", "email", None, None)>>)

Mixed == Graph(<<
  [Step("step-1", "retry", "step-2") EXCEPT !.target = "step-3", !.backOff = TRUE],
  [Step("step-2", "parallel", None) EXCEPT !.branches = <<{"step-3", "step-4"}>>],
  Activity("step-3", "email", None, None),
  Activity("step-4", "charge", None, None)>>)

Two == Graph(<<Activity("step-1", "email", None, "step-2"), Activity("step-2", "charge", None, None)>>)

Decision == Graph(<<
  [Step("step-1", "conditional", None) EXCEPT !.then = "step-2"],
  Activity("step-2", "email", None, None)>>)

Quiet == [store |-> Only(Two), template |-> SystemTemplate, inputs |-> {"1"}, fields |-> {}, times |-> Never,
          patient |-> TRUE]

RunOf(w, signals) ==
  [store |-> Only(w), times |-> Times([open |-> 1, test |-> 1, signal |-> signals])] @@ Quiet

(* edges drawn, steps removed and added; ids edited; steps of other kinds *)
Drawing == [fields |-> {"next"},
            times |-> Times([open |-> 2, add |-> 1, remove |-> 1, edit |-> 1, save |-> 1, test |-> 1])] @@ Quiet

Renaming == [fields |-> {"next", "id"},
             times |-> Times([open |-> 2, edit |-> 2, entry |-> 1, save |-> 1, test |-> 1])] @@ Quiet

Kinded == [store |-> Only(Mixed), fields |-> {"kind", "target", "tries", "backOff", "branches", "act"},
           times |-> Times([open |-> 2, remove |-> 1, edit |-> 1, save |-> 1, test |-> 1])] @@ Quiet

Deciding == [store |-> Only(Decision), inputs |-> {"0", "1", "2"}, fields |-> {"path", "op", "right", "else"},
             times |-> Times([open |-> 2, edit |-> 3, save |-> 1, test |-> 1])] @@ Quiet

(* a graph saved under a run, and a restart *)
Swapped == [patient |-> FALSE, store |-> Only(Polling), fields |-> {"else"},
            times |-> Times([open |-> 2, edit |-> 1, save |-> 1, test |-> 1, restart |-> 1])] @@ Quiet

(* new workflows, and others; answers that overtake the user *)
Hurry == [patient |-> FALSE,
          times |-> Times([new |-> 1, open |-> 1, name |-> 1, touch |-> 1, add |-> 1, save |-> 1,
                           others |-> 1])] @@ Quiet

Typing == [patient |-> FALSE,
           times |-> Times([new |-> 1, name |-> 1, type |-> 1, add |-> 1, save |-> 2, failures |-> 1])] @@ Quiet

Templating == [patient |-> FALSE, times |-> Times([template |-> 1, restore |-> 1, create |-> 1, touch |-> 1, save |-> 1,
                                others |-> 1, failures |-> 1])] @@ Quiet

AllScenarios == {RunOf(Polling, 0), RunOf(Approval, 2), RunOf(Parallel, 0), RunOf(Retrying(TRUE), 0), RunOf(Retrying(FALSE), 0), Drawing, Renaming, Kinded, Deciding, Swapped, Hurry, Typing, Templating}

Requests == Permutations(Slots)
=============================================================================
