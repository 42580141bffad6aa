------------------------------- MODULE Search -------------------------------
(***************************************************************************)
(* The read-only operations of domain/service.py over a shelf: a set of    *)
(* parts as a search sees them.  A part has an id, a category as it was    *)
(* written, the text of its value with the unit stored for it, a package,  *)
(* an ordering code, a quantity, the words its fields contain and the      *)
(* facts accepted for it.  An empty field is "" or Unvalued.               *)
(*                                                                         *)
(* Filters are functions from some of the field names to required values.  *)
(***************************************************************************)
EXTENDS Nominal, Specifications, SequencesExt

Unvalued == Text(0, "none", Empty, FALSE)

(* The categories search_category gathers under one name. *)
Families == {"linear regulator", "buck converter", "led", "operational amplifier", "bjt",
             "mosfet", "diode", "transistor"}

(* Part.display_value *)
DisplayValue(part) ==
    LET q == NominalFor(part.value, part.category, part.unit) IN
    IF part.value = Unvalued THEN Unvalued ELSE IF q # Nothing THEN Display(q) ELSE part.value

InCategory(part, category) ==
    IF SearchCategory(category) \in Families
    THEN SearchCategory(part.category) = SearchCategory(category)
    ELSE part.category = category
HasValue(part, value) ==
    part.value # Unvalued /\ ValuesMatch(part.value, value, part.category, part.unit)

(* _search_filters for one part. *)
Satisfies(part, filters) ==
    /\ "part_category" \in DOMAIN filters => InCategory(part, filters.part_category)
    /\ "part_number" \in DOMAIN filters => part.number = filters.part_number
    /\ "package" \in DOMAIN filters => part.package = filters.package
    /\ "value_unit" \in DOMAIN filters => part.unit = filters.value_unit
    /\ "value" \in DOMAIN filters => HasValue(part, filters.value)
SearchFilters(shelf, filters, minimum) ==
    {part \in shelf : part.qty >= minimum /\ Satisfies(part, filters)}

(* _search_expression: nested groups of filters.  An expression lists its    *)
(* nodes in the order they are compiled, the root first; a group names its   *)
(* children, which come later, by their positions.                           *)
Leaf(filters) == [op |-> "filters", filters |-> filters, children |-> {}]
Group(op, children) == [op |-> op, filters |-> <<>>, children |-> children]
Meeting(candidates, expression) ==
    LET meeting[i \in DOMAIN expression] ==
            LET node == expression[i] IN
            {part \in candidates :
                CASE node.op = "filters" -> Satisfies(part, node.filters)
                  [] node.op = "all" -> \A k \in node.children : part \in meeting[k]
                  [] OTHER -> \E k \in node.children : part \in meeting[k]}
    IN  meeting[1]

(* The members of S in an order, which is a set of pairs. *)
InOrder(S, before) ==
    CHOOSE rows \in [1..Cardinality(S) -> S] :
        \A i, j \in 1..Cardinality(S) : i < j => <<rows[i], rows[j]>> \in before

(* search() and exact_search_page(): the parts by id. *)
ById(S) == InOrder(S, {pair \in S \X S : pair[1].id < pair[2].id})
SearchRows(shelf, filters, minimum) == ById(SearchFilters(shelf, filters, minimum))
ExpressionRows(shelf, filters, minimum, expression) ==
    ById(Meeting(SearchFilters(shelf, filters, minimum), expression))

(* search_candidates: every term occurs in some field. *)
Candidates(shelf, terms, filters, minimum) ==
    ById({part \in SearchFilters(shelf, filters, minimum) : terms \subseteq part.words})

(* search_suggestions: the values of the parts the other filters leave. *)
Without(filters, name) == [field \in DOMAIN filters \ {name} |-> filters[field]]
SuggestedValues(shelf, filters, minimum) ==
    {DisplayValue(part) : part \in {p \in SearchFilters(shelf, Without(filters, "value"), minimum) :
                                       p.value # Unvalued}}
SuggestedCategories(shelf, filters, minimum) ==
    {part.category : part \in SearchFilters(shelf, Without(filters, "part_category"), minimum)}

Nearer(gap, p, q) ==
    \/ LessGap(gap[p], gap[q])
    \/ ~LessGap(gap[q], gap[p]) /\ p.id < q.id
Nearest(S, gap) == InOrder(S, {pair \in S \X S : Nearer(gap, pair[1], pair[2])})
(* _nominal_alternatives: other values of the same kind, the nearest first.  *)
Alternatives(shelf, filters, minimum) ==
    LET offered == {part \in SearchFilters(shelf, Without(filters, "value"), minimum) :
                       /\ part.value # Unvalued
                       /\ IsAlternative(part.value, filters.value, part.category)}
    IN  IF {"value", "part_category"} \subseteq DOMAIN filters
        THEN Nearest(offered, [part \in offered |->
                                  NominalGap(part.value, filters.value, part.category)])
        ELSE <<>>

-----------------------------------------------------------------------------
(* pagination.py: one offset pages every list of an answer. *)

NextOffset(count, limit, offset) == IF offset + limit < count THEN offset + limit ELSE 0
Page(rows, limit, offset) == SubSeq(rows, offset + 1, Min({offset + limit, Len(rows)}))
(* Fault: the second list of an answer ends with the first. *)
LongestIsFirst(lists) == Len(lists[1])
Longest(lists) == Max({Len(lists[i]) : i \in DOMAIN lists})

(* search_page: the rows and the alternatives of one answer. *)
SearchPage(rows, others, limit, offset) ==
    [parts |-> Page(rows, limit, offset), partial |-> Page(others, limit, offset),
     next |-> NextOffset(Longest(<<rows, others>>), limit, offset)]

-----------------------------------------------------------------------------
(* check_inventory: rows with the same filters are one requirement.  The     *)
(* quantity 0 stands for a row that does not state one.                      *)

BomGroups(items) == {items[i].filters : i \in DOMAIN items}
RowsOf(items, filters) == {i \in DOMAIN items : items[i].filters = filters}

(* Fault: a repeated row replaces the quantity of the one before it. *)
RequestedOnce(items, filters) ==
    items[CHOOSE i \in RowsOf(items, filters) : \A j \in RowsOf(items, filters) : j <= i].quantity

Requested(items, filters) ==
    MapThenSumSet(LAMBDA i : items[i].quantity, RowsOf(items, filters))
QuantityUnknown(items, filters) == \E i \in RowsOf(items, filters) : items[i].quantity = 0

Available(shelf, filters) ==
    Max({0} \cup {part.qty : part \in SearchFilters(shelf, filters, 0)})

(* The status of a requirement: one record has to serve all of it. *)
Status(shelf, items, filters) ==
    LET available == Available(shelf, filters) IN
    CASE SearchFilters(shelf, filters, 0) = {} -> "missing"
      [] SearchFilters(shelf, filters, 0) # {} /\ available = 0 -> "out_of_stock"
      [] available > 0 /\ QuantityUnknown(items, filters) -> "in_stock"
      [] OTHER -> IF available >= Requested(items, filters) THEN "sufficient" ELSE "insufficient"

(* overlapping_requirements: requirements that match one record. *)
Overlapping(shelf, items) ==
    {G \in {{filters \in BomGroups(items) : Satisfies(part, filters)} : part \in shelf} :
        Cardinality(G) > 1}

-----------------------------------------------------------------------------
(* search_specifications: every candidate, which meets the filters or has an *)
(* alternative value, is a match, incomplete or partial.                     *)

Candidacy(shelf, filters) ==
    [found |-> SearchFilters(shelf, filters, 0), other |-> ToSet(Alternatives(shelf, filters, 0))]
Assessments(of, category, requirements) ==
    [part \in of.found \cup of.other |->
        [i \in DOMAIN requirements |-> Evaluate(category, part.facts, requirements[i])]]
Answered(assessment, answer) == {i \in DOMAIN assessment : assessment[i] = answer}

SpecificationMatches(of, assessed) ==
    ById({part \in of.found : Answered(assessed[part], "yes") = DOMAIN assessed[part]})
SpecificationIncomplete(of, assessed) ==
    ById({part \in of.found : /\ Answered(assessed[part], "no") = {}
                              /\ Answered(assessed[part], "open") # {}})

(* Partial matches: most confirmed first, then the fewest open and failed    *)
(* requirements, then the shortfall.                                         *)
Rank(of, assessed) ==
    [part \in DOMAIN assessed |->
        <<-Cardinality(Answered(assessed[part], "yes")),
          Cardinality(Answered(assessed[part], "open")),
          Cardinality(Answered(assessed[part], "no")) + (IF part \in of.other THEN 1 ELSE 0)>>]
SumOfGaps(base, gap, S) ==
    MapThenFoldSet(PlusGap, base, LAMBDA i : gap[i], LAMBDA T : CHOOSE i \in T : TRUE, S)
Shortfall(of, assessed, filters, requirements) ==
    [part \in DOMAIN assessed |->
        SumOfGaps(IF part \in of.other THEN NominalGap(part.value, filters.value, part.category)
                  ELSE <<0, 1>>,
                  [i \in DOMAIN requirements |->
                      Distance(filters.part_category, part.facts, requirements[i])],
                  Answered(assessed[part], "no"))]
LessRank(r, s) ==
    \E k \in 1..3 : r[k] < s[k] /\ \A j \in 1..(k - 1) : r[j] = s[j]
Ranked(S, rank, shortfall) ==
    InOrder(S, {pair \in S \X S :
                   \/ LessRank(rank[pair[1]], rank[pair[2]])
                   \/ /\ rank[pair[1]] = rank[pair[2]]
                      /\ Nearer(shortfall, pair[1], pair[2])})
SpecificationPartial(of, assessed, filters, requirements) ==
    Ranked({part \in DOMAIN assessed : part \in of.other \/ Answered(assessed[part], "no") # {}},
           Rank(of, assessed), Shortfall(of, assessed, filters, requirements))

SpecificationPage(matches, incomplete, partial, limit, offset) ==
    [matches |-> Page(matches, limit, offset), incomplete |-> Page(incomplete, limit, offset),
     partial |-> Page(partial, limit, offset),
     next |-> NextOffset(Longest(<<matches, incomplete, partial>>), limit, offset)]
=============================================================================
