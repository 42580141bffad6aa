---------------------------- MODULE MCEnrichment ----------------------------
(* The two ways to evidence, checked one at a time: a lookup of the supplier *)
(* and the web, or extractions from a supplied document, with two versions,  *)
(* two callers and the answers a model may give.                             *)
EXTENDS Enrichment, Lookup, TLC

CONSTANTS p1, p2, f1, n1, n2, m1, d1, d2
MCNames == p1 :> {n1, m1} @@ p2 :> {n1, n2, m1}
MCText == d1 :> {p1, p2} @@ d2 :> {p2}
MCGiven == d1 :> {p1} @@ d2 :> {p2}
KnownMaker == [code |-> n1, maker |-> m1, electrical |-> TRUE, linked |-> FALSE]
MCAsked ==
    {KnownMaker,
     [code |-> n1, maker |-> Unknown, electrical |-> TRUE, linked |-> TRUE],
     [code |-> n1, maker |-> Unknown, electrical |-> FALSE, linked |-> FALSE]}
(* A citation of each version, another code, no code, and what the rules     *)
(* forbid: a passage that was not given, an identity that is not cited.      *)
Citing(v, p) == {[value |-> v, cite |-> p]}
Proposal(code, p, cites, valid) ==
    [outcome |-> "proposal", clarified |-> FALSE, mismatch |-> NoPassage,
     fields |-> [code |-> Citing(code, p), maker |-> Citing(m1, p), other |-> {}],
     facts |-> IF cites = {} THEN {} ELSE {[name |-> f1, cites |-> cites, valid |-> valid]}]
NoMatch(p) == [outcome |-> "no_match", clarified |-> FALSE, mismatch |-> p,
               fields |-> NoFields, facts |-> {}]
MCModelAnswers ==
    {Proposal(n1, p1, {}, TRUE), Proposal(n1, p1, {p1}, FALSE), Proposal(n1, p2, {p2}, TRUE),
     Proposal(n2, p2, {p2}, TRUE), Proposal(n1, p2, {p1, p2}, TRUE), NoMatch(p2)}

(* Bound: extractions happen beside a lookup that has not begun, and a       *)
(* lookup before any of them.                                                *)
Quiet ==
    /\ now = 0 /\ request = KnownMaker /\ served = d1
    /\ cache.lease_until = 0 /\ \A c \in Callers : caller[c] = Idle
EvidenceInit ==
    Init /\ LookupInit /\ (config = [supplier |-> TRUE, search |-> TRUE] \/ Quiet)
EvidenceNext ==
    \/ stage = "start" /\ Next /\ UNCHANGED lookupVars
    \/ Quiet /\ LookupNext /\ UNCHANGED vars
EvidenceSpec == EvidenceInit /\ [][EvidenceNext]_<<vars, lookupVars>>

Symmetry == Permutations(Callers)
=============================================================================
