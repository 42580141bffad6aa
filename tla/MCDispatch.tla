----------------------------- MODULE MCDispatch -----------------------------
(* Small instances of Dispatch: all executions belong to one conversation. *)
EXTENDS Dispatch, TLC
MCThreadOf == [e \in Executions |-> "thread"]
MCSymmetry == Permutations(Workers)
=============================================================================
