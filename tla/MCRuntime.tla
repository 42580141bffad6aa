------------------------------ MODULE MCRuntime ------------------------------
(* Instances of AgentRuntime for TLC: one conversation. *)
EXTENDS AgentRuntime, TLC

OneThread == [e \in Executions |-> Nobody]
Symmetry == Permutations(Workers) \cup Permutations(Contents)
=============================================================================
