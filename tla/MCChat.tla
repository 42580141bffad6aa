------------------------------- MODULE MCChat -------------------------------
(* Instances of ChatSession for TLC. *)
EXTENDS ChatSession, TLC

CONSTANTS e1, e2, t1, t2

OneThread == [e \in Executions |-> t1]
=============================================================================
