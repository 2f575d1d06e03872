--------------------------- MODULE MCStartService ---------------------------
(***************************************************************************)
(* Three scenarios that share nothing but the code: requests of one tenant *)
(* that race for its quota, requests with a key that race, expire and      *)
(* reach another server, and tasks that are given up and put back.         *)
(***************************************************************************)
EXTENDS StartService, TLC

QuotaRace ==
  [servers |-> {"s1"}, keys |-> {"none"}, inputs |-> {"i"}, tenants |-> {"t"},
   triggers |-> TRUE, runs |-> 3, givenUp |-> 0, forgets |-> 0]

KeyRace ==
  [servers |-> {"s1", "s2"}, keys |-> {"k"}, inputs |-> {"i"}, tenants |-> {"none", "t"},
   triggers |-> FALSE, runs |-> 2, givenUp |-> 0, forgets |-> 1]

KeyReuse ==
  [servers |-> {"s1"}, keys |-> {"k"}, inputs |-> {"i", "j"}, tenants |-> {"none"},
   triggers |-> FALSE, runs |-> 3, givenUp |-> 0, forgets |-> 0]

PutBack ==
  [servers |-> {"s1"}, keys |-> {"none"}, inputs |-> {"i"}, tenants |-> {"none"},
   triggers |-> FALSE, runs |-> 2, givenUp |-> 3, forgets |-> 1]

AllScenarios == {QuotaRace, KeyRace, KeyReuse, PutBack}

Requests == Permutations(Handlers)
=============================================================================
