----------------------------- MODULE MCDesigner -----------------------------
(***************************************************************************)
(* One scenario per question: versions saved and restarts under running    *)
(* runs, creations that race, schedules over two days, templates seeded    *)
(* while they are used, processes that start together.                     *)
(***************************************************************************)
EXTENDS Designer, TLC

P(v, g, schedule) == [version |-> v, graph |-> g, schedule |-> schedule]
NoRequests == [k \in Kinds |-> 0]
Only(f) == f @@ NoRequests
Stopped == [i \in Ids |-> None]
SystemTemplates == <<"t1", "t2">>
FromTemplate == [system |-> P(1, "g1", Daily(1)), edited |-> P(1, "g2", Daily(1))]

Quiet == [servers |-> {"s1"}, schema |-> Migrations, rows |-> Stopped, payloads |-> {},
          requests |-> NoRequests, ticks |-> FALSE, clock |-> FALSE,
          overlaps |-> {1}, faults |-> 0]

VersionChange ==
  [payloads |-> {P(1, "g1", Daily(1)), P(1, "g2", Daily(1)), P(2, "g2", Daily(1))},
   requests |-> Only([update |-> 2, run |-> 2]), ticks |-> TRUE, faults |-> 1] @@ Quiet

VersionSpread ==
  [servers |-> {"s1", "s2"}, rows |-> [i \in Ids |-> P(1, "g1", Daily(1))],
   payloads |-> {P(1, "g2", Daily(1)), P(2, "g2", Daily(1))},
   requests |-> Only([update |-> 1, run |-> 1]), ticks |-> TRUE] @@ Quiet

CreateRace ==
  [servers |-> {"s1", "s2"}, payloads |-> {P(1, "g1", Instant), P(2, "g2", Daily(1))},
   requests |-> Only([create |-> 2, use |-> 1]), faults |-> 1] @@ Quiet

TwoDays ==
  [servers |-> {"s1", "s2"}, rows |-> [i \in Ids |-> P(1, "g1", Daily(1))],
   clock |-> TRUE, faults |-> 1] @@ Quiet

Overlap == [servers |-> {"s1"}, overlaps |-> {1, 2}] @@ TwoDays

Week ==
  [rows |-> [i \in Ids |-> P(1, "g1", Weekly({1}, 0))], payloads |-> {P(1, "g2", Daily(1))},
   requests |-> Only([update |-> 1]), clock |-> TRUE, overlaps |-> {1, 2}] @@ Quiet

Seeding ==
  [servers |-> {"s1", "s2"},
   requests |-> Only([list |-> 1, edit |-> 1, restore |-> 1, use |-> 1]), faults |-> 1] @@ Quiet

ColdStart == [servers |-> {"s1", "s2"}, schema |-> 0, faults |-> 2] @@ Quiet

AllScenarios == {VersionChange, VersionSpread, CreateRace, TwoDays, Overlap, Week, Seeding, ColdStart}

Requests == Permutations(Slots)
=============================================================================
