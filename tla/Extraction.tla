----------------------------- MODULE Extraction -----------------------------
(***************************************************************************)
(* ingestion/supplied_source.py and electrical_source.py: which answers of *)
(* the model about one manufacturer document become a result.              *)
(*                                                                         *)
(* A document is the passages of its text, of which some are given to the  *)
(* model; a passage is a citable text that names ordering codes and        *)
(* manufacturers.  The schema of the request narrows what the model can    *)
(* answer; nothing here relies on it.                                      *)
(***************************************************************************)
EXTENDS Integers, FiniteSets

CONSTANTS
    Passages,       \* texts that can be cited
    Codes,          \* ordering codes
    Manufacturers,
    Names,          \* passage -> the codes and manufacturers it names exactly
    FactNames,      \* the fields of the category's contract
    Documents,      \* versions of the document at the address
    Text,           \* version -> its passages
    Given,          \* version -> the passages select_excerpts gives the model
    ModelAnswers,   \* bound: what the model may answer
    NoPassage, Unknown

ASSUME ExcerptsAreText ==
    /\ Names \in [Passages -> SUBSET (Codes \cup Manufacturers)]
    /\ Text \in [Documents -> SUBSET Passages] /\ Given \in [Documents -> SUBSET Passages]
    /\ \A d \in Documents : Given[d] \subseteq Text[d]
    /\ NoPassage \notin Passages /\ Unknown \notin Manufacturers

(* What is asked: about a code, of a known or an unknown manufacturer, with  *)
(* electrical facts or metadata only, in a document that may be linked to    *)
(* the part.                                                                 *)
Requests == [code : Codes, maker : Manufacturers \cup {Unknown}, electrical : BOOLEAN,
             linked : BOOLEAN]
Linked(r) == r.linked /\ r.electrical

(* The model's answer.  A null field is absent; other stands for package     *)
(* and description.  A fact has its citations, and whether its name, basis,  *)
(* value and conditions pass validate_facts.                                 *)
Claims(values) == [value : values, cite : Passages]
Facts == [name : FactNames, cites : SUBSET Passages \ {{}}, valid : BOOLEAN]
Outcomes == {"proposal", "needs_clarification", "no_match"}
NoFields == [code |-> {}, maker |-> {}, other |-> {}]
Fields ==
    [code : {{}} \cup {{claim} : claim \in Claims(Codes)},
     maker : {{}} \cup {{claim} : claim \in Claims(Manufacturers)},
     other : {{}} \cup {{p} : p \in Passages}]
Answers ==
    [outcome : Outcomes, clarified : BOOLEAN, mismatch : Passages \cup {NoPassage},
     fields : Fields, facts : {{}} \cup {{f} : f \in Facts}]

ASSUME PossibleAnswers == ModelAnswers \subseteq Answers

Cited(fields) == {claim.cite : claim \in fields.code \cup fields.maker} \cup fields.other

-----------------------------------------------------------------------------
(* validate_candidate *)

(* A proposal names the part: with evidence that names it in turn, the exact *)
(* code unless the document is linked to the part, and the manufacturer if   *)
(* it is known.                                                              *)
Identified(a, r, d) ==
    /\ a.fields.code # {} /\ a.fields.maker # {}
    /\ \A claim \in a.fields.code \cup a.fields.maker : claim.value \in Names[claim.cite]
    /\ Linked(r) \/ \A claim \in a.fields.code : claim.value = r.code
    /\ r.maker = Unknown \/ \A claim \in a.fields.maker : claim.value = r.maker

(* Only no_match cites a mismatch; unresolved identities propose nothing.    *)
Unresolved(a) ==
    /\ a.outcome # "proposal"
    /\ a.fields = NoFields /\ a.facts = {}
    /\ a.outcome = "needs_clarification" => a.clarified
Valid(a, r, d) ==
    /\ a.mismatch # NoPassage => a.outcome = "no_match" /\ a.mismatch \in Given[d]
    /\ Unresolved(a) \/ (a.outcome = "proposal" /\ Identified(a, r, d))
    /\ Cited(a.fields) \subseteq Given[d]
    /\ ~r.electrical => a.facts = {}
    /\ \A fact \in a.facts : fact.cites \subseteq Given[d]

(* A no_match that cites nothing is a question; facts that fail validation   *)
(* are left out and reported.                                                *)
Result(a) ==
    [outcome |-> IF a.outcome = "no_match" /\ a.mismatch = NoPassage
                 THEN "needs_clarification" ELSE a.outcome,
     fields |-> a.fields,
     facts |-> {[name |-> fact.name, cites |-> fact.cites] : fact \in {f \in a.facts : f.valid}}]
Unreadable == [outcome |-> "needs_clarification", fields |-> NoFields, facts |-> {}]

(* extract: the results it may have; a document without text is not sent.    *)
Results(r, d) ==
    IF Text[d] = {} THEN {Unreadable}
    ELSE {Result(a) : a \in {a \in ModelAnswers : Valid(a, r, d)}}
=============================================================================
