------------------------------- MODULE Lookup -------------------------------
(***************************************************************************)
(* ingestion/lookup.py: fetch_specs_detailed asks the supplier, fills gaps *)
(* from the product page and the datasheet the supplier links to, and as   *)
(* the last resort from documents found on the web.                        *)
(*                                                                         *)
(* One lookup, a step for every call it makes; what comes back is any      *)
(* reply of the provider.  A text is the number of its length, which is    *)
(* all that is ever compared of descriptions.  No reader of a source       *)
(* fills part_category, profile or value, so nothing is ever withheld.     *)
(***************************************************************************)
EXTENDS Integers, Sequences

CONSTANTS
    FieldScope,     \* the fields of _FALLBACK_FIELD_SCOPE that sources state
    Lengths,        \* bound: the texts they state
    MaxResults      \* max_results of a web search

ASSUME KnownFields ==
    /\ FieldScope \subseteq {"part_number", "manufacturer", "package", "description", "datasheet_url"}
    /\ Lengths \subseteq Nat /\ MaxResults \in Nat

VARIABLES
    config,         \* whether credentials and [search] are configured
    stage,          \* the call that is made next
    left,           \* tries or addresses left for it
    attempts,       \* source_attempts
    reply,          \* ghost: how the supplier answered last
    searched        \* ghost: the web has been asked
lookupVars == <<config, stage, left, attempts, reply, searched>>

Identifying == {"part_number", "manufacturer", "package"} \cap FieldScope
Statements(fields) == UNION {[S -> Lengths] : S \in SUBSET fields}
Nowhere == <<>>
(* page: the diagnostics have a product_url; pdf: the addresses their        *)
(* datasheet_url stands for, two when it is a redirect.                      *)
Attempt(tier, status, fields, page, pdf) ==
    [tier |-> tier, status |-> status, fields |-> fields, page |-> page, pdf |-> pdf]
Found(tier, fields) == Attempt(tier, "ok", fields, FALSE, 0)
Unanswered(status) == Attempt("primary_api", status, Nowhere, FALSE, 0)

-----------------------------------------------------------------------------
(* Reconciliation.                                                           *)

(* _build_field_candidates *)
Stating(as, f) == {i \in DOMAIN as : as[i].status = "ok" /\ f \in DOMAIN as[i].fields}
Statuses(as) == {as[i].status : i \in DOMAIN as}

(* Fault: a source asked later replaces the answer of the supplier. *)
LatestChoice(as, f) == CHOOSE i \in Stating(as, f) : \A j \in Stating(as, f) : j <= i

(* _choose_field_candidate: the first source, and of descriptions the        *)
(* longest.                                                                  *)
Choice(as, f) ==
    LET Said(i) == as[i].fields[f] IN
    CHOOSE i \in Stating(as, f) : \A j \in Stating(as, f) :
        IF f = "description" THEN Said(j) < Said(i) \/ (Said(j) = Said(i) /\ i <= j) ELSE i <= j

(* Only sources of one tier can contradict each other. *)
Conflicts(as) ==
    {f \in Identifying : \E i, j \in Stating(as, f) :
        as[i].tier = as[j].tier /\ as[i].fields[f] # as[j].fields[f]}

(* chosen_updates *)
Chosen(as) ==
    IF Conflicts(as) # {} THEN Nowhere
    ELSE [f \in {f \in FieldScope : Stating(as, f) # {}} |-> as[Choice(as, f)].fields[f]]

(* _reconcile_candidates *)
Reconciled(as) ==
    IF Conflicts(as) # {} THEN "conflict"
    ELSE IF Chosen(as) # Nowhere THEN "saved"
    ELSE IF "needs_clarification" \in Statuses(as) THEN "needs_clarification"
    ELSE IF "timeout" \in Statuses(as) THEN "timeout"
    ELSE IF "failed" \in Statuses(as) THEN "failed"
    ELSE IF "ok" \in Statuses(as) THEN "incomplete" ELSE "no_match"

(* What was found on the web is to be confirmed. *)
FromWeb(as) == \E i \in DOMAIN as : as[i].tier = "web_search"
Outcome(as) ==
    IF FromWeb(as) /\ Reconciled(as) \in {"saved", "incomplete"}
    THEN "needs_confirmation" ELSE Reconciled(as)
RequiresConfirmation(as) ==
    Outcome(as) \in {"conflict", "needs_confirmation", "needs_clarification"}

-----------------------------------------------------------------------------
(* The order of the sources.                                                 *)

(* _missing_fallback_fields *)
Missing(as) == (FieldScope \ {"datasheet_url"}) \ DOMAIN Chosen(as)
Supplied(as) == as # <<>> /\ as[1].status = "ok"
Pages(as) == IF Supplied(as) /\ as[1].page THEN 1 ELSE 0
Pdfs(as) == IF Supplied(as) THEN as[1].pdf ELSE 0
WebAllowed(as) == config.search /\ Outcome(as) \in {"no_match", "incomplete"}

(* The stage after that of source s, and the calls it may make. *)
Upcoming(s, as) ==
    IF s = "supplier" /\ Reconciled(as) = "conflict" THEN <<"done", 0>>
    ELSE IF s = "supplier" /\ Missing(as) # {} /\ Pages(as) > 0 THEN <<"page", Pages(as)>>
    ELSE IF s \in {"supplier", "page"} /\ Missing(as) # {} /\ Pdfs(as) > 0 THEN <<"pdf", Pdfs(as)>>
    ELSE IF s # "web" /\ WebAllowed(as) THEN <<"search", 1>>
    ELSE <<"done", 0>>

Continue(s, as) ==
    /\ attempts' = as
    /\ stage' = Upcoming(s, as)[1]
    /\ left' = Upcoming(s, as)[2]

Configurations == [supplier : BOOLEAN, search : BOOLEAN]
LookupInit ==
    /\ config \in Configurations
    /\ stage = "start" /\ left = 0
    /\ attempts = <<>>
    /\ reply = "none" /\ searched = FALSE

-----------------------------------------------------------------------------
(* The supplier.                                                             *)

(* Without credentials the supplier is not asked. *)
Start ==
    /\ stage = "start"
    /\ IF config.supplier
       THEN stage' = "token" /\ UNCHANGED <<left, attempts>>
       ELSE Continue("supplier", <<>>)
    /\ UNCHANGED <<config, reply, searched>>

Replied(r) == reply' = r /\ UNCHANGED <<config, searched>>
Answered(r, attempt) == Replied(r) /\ Continue("supplier", <<attempt>>)

(* _digikey_token: every failure is a refusal. *)
Token ==
    /\ stage = "token"
    /\ \/ Answered("refused", Unanswered("auth-failed"))
       \/ stage' = "product" /\ left' = 2 /\ UNCHANGED <<config, attempts, reply, searched>>

(* A ReadTimeout, of the product or of the search for its number, costs one  *)
(* of two tries; any other failure is final.                                 *)
TimesOut ==
    IF left > 1
    THEN stage' = "product" /\ left' = left - 1 /\ Replied("timeout") /\ UNCHANGED attempts
    ELSE Answered("timeout", Unanswered("timeout"))

(* productdetails of _digikey_lookup_detailed: the ordering code is known    *)
(* with the fields _extract_digikey_fields reads, or not (404).  A link that *)
(* is not HTTPS is in the diagnostics only.                                  *)
Product ==
    /\ stage = "product"
    /\ \/ \E fields \in Statements(FieldScope), page \in BOOLEAN, pdf \in 0..2 :
             /\ "datasheet_url" \in DOMAIN fields => pdf > 0
             /\ Answered("answered", Attempt("primary_api", "ok", fields, page, pdf))
       \/ stage' = "keyword" /\ UNCHANGED <<config, left, attempts, reply, searched>>
       \/ TimesOut
       \/ Answered("error", Unanswered("failed"))

(* Fault: a search that fails has found nothing. *)
KeywordBlindly ==
    /\ stage = "keyword"
    /\ \/ Answered("several", Unanswered("needs_clarification"))
       \/ Answered("absent", Unanswered("no_match"))
       \/ TimesOut
       \/ Answered("error", Unanswered("no_match"))

(* _digikey_search_candidates: numbers like the one asked for are never an   *)
(* answer, whatever their rank.                                              *)
Keyword ==
    /\ stage = "keyword"
    /\ \/ Answered("several", Unanswered("needs_clarification"))
       \/ Answered("absent", Unanswered("no_match"))
       \/ TimesOut
       \/ Answered("error", Unanswered("failed"))

-----------------------------------------------------------------------------
(* Pages and documents.                                                      *)

Read(s, attempt) == Continue(s, Append(attempts, attempt)) /\ UNCHANGED <<config, reply, searched>>
(* An address failed, or is not of the kind that is read, or says nothing. *)
Skip(s) ==
    /\ IF left > 1 THEN left' = left - 1 /\ UNCHANGED <<stage, attempts>>
       ELSE Continue(s, attempts)
    /\ UNCHANGED <<config, reply, searched>>

Texts == Statements(FieldScope \ {"datasheet_url"}) \ {Nowhere}

(* _fetch_api_derived_product_page *)
Page ==
    /\ stage = "page"
    /\ Skip("page") \/ \E fields \in Texts : Read("page", Found("api_derived_page", fields))

(* extract_pdf_candidates: a document with several ordering codes states     *)
(* neither the number nor the package or description of one of them.         *)
Stated(fields, severalCodes) ==
    [f \in {f \in DOMAIN fields : severalCodes => f = "manufacturer"} |-> fields[f]]

(* _fetch_api_derived_pdf *)
Pdf ==
    /\ stage = "pdf"
    /\ \/ Skip("pdf")
       \/ \E fields \in Texts, severalCodes \in BOOLEAN :
             Read("pdf", Found("api_derived_pdf", Stated(fields, severalCodes)))

(* search_datasheet_pdfs; a failure is an empty list. *)
Search ==
    /\ stage = "search"
    /\ searched' = TRUE
    /\ \E found \in 0..MaxResults :
          IF found = 0 THEN Continue("web", attempts)
          ELSE stage' = "web" /\ left' = found /\ UNCHANGED attempts
    /\ UNCHANGED <<config, reply>>

(* _fetch_web_search_pdf *)
Web ==
    /\ stage = "web"
    /\ \/ Skip("web")
       \/ \E fields \in Texts, severalCodes \in BOOLEAN :
             Read("web", Found("web_search", Stated(fields, severalCodes)))

LookupNext == Start \/ Token \/ Product \/ Keyword \/ Page \/ Pdf \/ Search \/ Web
LookupSpec == LookupInit /\ [][LookupNext]_lookupVars

-----------------------------------------------------------------------------
(* Properties.                                                               *)

Rank(tier) == CASE tier = "primary_api" -> 1 [] tier = "api_derived_page" -> 2
                [] tier = "api_derived_pdf" -> 3 [] OTHER -> 4

(* Whatever the providers reply, in whatever order they fail: a proposed     *)
(* field is the one of the most authoritative source that states it, or for  *)
(* a description the longest; and what a page of the open web says is never  *)
(* mixed with what the supplier says, nor proposed without the demand to     *)
(* confirm it.                                                               *)
AnswersAreSourced ==
    stage = "done" =>
        /\ \A f \in DOMAIN Chosen(attempts) :
              \E i \in DOMAIN attempts :
                 /\ attempts[i].status = "ok" /\ f \in DOMAIN attempts[i].fields
                 /\ attempts[i].fields[f] = Chosen(attempts)[f]
                 /\ \A j \in DOMAIN attempts :
                       f \in DOMAIN attempts[j].fields =>
                          IF f = "description"
                          THEN attempts[j].fields[f] =< attempts[i].fields[f]
                          ELSE Rank(attempts[i].tier) =< Rank(attempts[j].tier)
        /\ \A i \in DOMAIN attempts : attempts[i].tier = "web_search" =>
              /\ RequiresConfirmation(attempts)
              /\ \A j \in DOMAIN attempts : j # i => attempts[j].fields = Nowhere

(* Failures, absence and ambiguity stay distinct (ADR 0004): a timeout or an *)
(* error, at any try of any call to the supplier, is neither "no match" nor  *)
(* a reason to search the web, and only a list of similar numbers asks for   *)
(* clarification.  The exception is a refused token, which the code reports  *)
(* as no match.                                                              *)
FailuresStayDistinct ==
    /\ searched => reply \in {"none", "answered", "absent", "refused"}
    /\ stage = "done" =>
         /\ Outcome(attempts) = "timeout" <=> reply = "timeout"
         /\ Outcome(attempts) = "failed" <=> reply = "error"
         /\ Outcome(attempts) = "needs_clarification" <=> reply = "several"
         /\ Outcome(attempts) = "no_match" => reply \in {"none", "absent", "refused"}
=============================================================================
