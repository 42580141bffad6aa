----------------------------- MODULE MCInventory -----------------------------
(* Instances of Inventory for TLC. *)
EXTENDS Inventory, TLC

Symmetry == Permutations(Jobs) \cup Permutations(Makers) \cup Permutations(Readings)

(* Bound: two jobs are under way only while they are extractions or          *)
(* assertions and no metadata is staged or on a screen; a refresh, or an     *)
(* enrichment from the command line, is alone.                               *)
OneConcern ==
    LET active == {j \in Jobs : jobs[j] # NoJob} IN
    Cardinality(active) > 1 =>
        /\ \A j \in active : jobs[j].kind \notin {"refresh", "cli"}
        /\ \A id \in Ids : pending[id] = {}
        /\ \A u \in Users : screens[u].pending = {}
=============================================================================
