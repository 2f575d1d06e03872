---------------------------- MODULE EngineReplay ----------------------------
(***************************************************************************)
(* DefaultWorkflowEngine on its own: events of any kind and in any order   *)
(* are applied one at a time, and at any version a snapshot may be taken.  *)
(* The declarative Replay of RunState must give what the loop of the       *)
(* engine gives, from the start event and from the snapshot alike.         *)
(***************************************************************************)
EXTENDS RunState

CONSTANT MaxApplied   \* bound on the length of the log

VARIABLES
  applied,     \* the events applied, in order
  reached,     \* the RunState the loop of replay has reached
  kept         \* the snapshot

engineVars == <<applied, reached, kept>>

EngineInit ==
  /\ applied = <<WorkflowStarted>>
  /\ reached = InitialState
  /\ kept = InitialState

(* one turn of the loop of replay *)
Apply ==
  /\ Len(applied) < MaxApplied
  /\ \E e \in EventWith(DOMAIN applied) :
        /\ applied' = Append(applied, e)
        /\ reached' = ApplyEvent(reached, e)
  /\ kept' = kept

Snapshot ==
  /\ kept' = reached
  /\ UNCHANGED <<applied, reached>>

EngineNext == Apply \/ Snapshot

EngineSpec == EngineInit /\ [][EngineNext]_engineVars

(* Replaying the whole history and replaying the events after a snapshot   *)
(* over that snapshot both give the state the engine reached by applying   *)
(* every event as it came (ENGINE_INVARIANTS 2), for any sequence of       *)
(* events, even those no run of the runtime produces.                      *)
ReplayAgrees ==
  /\ reached = StateAt(applied, Len(applied))
  /\ reached = Replay(kept, applied, Len(applied))
=============================================================================
