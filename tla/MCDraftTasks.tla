---------------------------- MODULE MCDraftTasks ----------------------------
(* Small instances of the hosted draft queue. *)
EXTENDS DraftTasks, TLC
MCFaults == FaultKinds
\* Every machine runs the same loop.
Machines == Permutations(Workers)
=============================================================================
