---------------------------- MODULE MCWorkflowRun ----------------------------
(* Instances of WorkflowRun for TLC: the processes are interchangeable. *)
EXTENDS WorkflowRun, TLC

Symmetry == Permutations(Procs)
=============================================================================
