----------------------------- MODULE Catalogue -----------------------------
(***************************************************************************)
(* The searches of Search on the stock of Inventory, after every history   *)
(* of creations, counts, edits, deletions and normalisations.  What        *)
(* Inventory leaves abstract gets a content here: the identity of a part   *)
(* has a category and a value, which is stored in the canonical spelling   *)
(* or, in a row of an earlier release, as it was once written.             *)
(***************************************************************************)
EXTENDS Inventory, Search

CONSTANTS
    Category,       \* of an identity
    OldText,        \* how an earlier release wrote its value
    Spellings,      \* other notations of the same value
    BomFilters,     \* what a row of a bill of materials asks for
    KnownFacts,     \* facts a source or a user may state of a numbered part
    Requirements,   \* what is asked about them
    Accepted,       \* of an identity: its facts
    AskedTogether   \* lists of requirements

(* A fact and a requirement state an interval and the conditions it holds    *)
(* under. *)
States(x) == x.value \in WrittenInterval /\ AreConditions(x.conditions)
ASSUME Contents ==
    /\ Category \in [Codes -> STRING] /\ OldText \in [Codes -> Texts]
    /\ \A code \in Codes : \A fact \in Accepted[code] : States(fact)
    /\ \A x \in KnownFacts \cup Requirements : States(x)
    /\ \A requirements \in AskedTogether :
          requirements \in Seq({requirements[i] : i \in DOMAIN requirements})
          /\ \A i \in DOMAIN requirements : States(requirements[i])

(* The value of an identity. *)
Denoted(code) == NominalFor(OldText[code], Category[code], Empty)
(* The other notations of a value.  "5 mohm" is milliohms alone and megohms  *)
(* beside a stored unit or category of resistances: it is a notation of no   *)
(* value where only the stored unit tells the dimension.                     *)
ASSUME Notations ==
    \A code \in Codes : \A t \in Spellings[code] :
        /\ t \in Texts
        /\ NominalFor(t, Category[code], Empty) = Denoted(code)
        /\ Denoted(code) = Nothing => t = OldText[code]
        /\ CategoryUnit(Category[code]) = Empty => ~(t.unit \in SpelledOhms /\ t.letter = "m")
(* Decimals have as many digits as they need: so have the numbers here.      *)
ASSUME Resolution ==
    \A code \in Codes :
        LET q == Denoted(code) IN
        q # Nothing => /\ Magnitude(q.v) % Power[Empty] = 0
                       /\ Magnitude(q.v) % Power[DisplayPrefix(q)] = 0

NumberOf(code) == IF code \in Numbers THEN code ELSE Empty
(* A row of parts as the searches see it. *)
Row(id) ==
    LET p == parts[id]
        stored == Stores(OldText[p.code], Category[p.code], Empty)
    IN  [id |-> id, category |-> Category[p.code],
         value |-> IF p.raw THEN OldText[p.code] ELSE stored.value,
         unit |-> IF p.raw THEN Empty ELSE stored.unit,
         package |-> Empty, number |-> NumberOf(p.code), qty |-> p.qty,
         words |-> {Category[p.code]}, facts |-> Accepted[p.code]]
Shelf == {Row(id) : id \in Stored}

FilterOn(category, t) == [part_category |-> category, value |-> t]
Categories == {Category[code] : code \in Codes}

(* plan_nominal_normalization: the rows whose stored spelling changes. *)
PlannedChanges ==
    {id \in Stored : LET row == Row(id)
                         q == NominalFor(row.value, row.category, row.unit)
                     IN  q # Nothing /\ (row.value # Canonical(q) \/ row.unit # q.unit)}

-----------------------------------------------------------------------------
(* Properties.                                                               *)

(* Ohms are displayed by a multiplier (4k7), which has no sign and means     *)
(* nothing without a dimension: an old row of a category without a unit has  *)
(* none until it is normalised.                                              *)
Legible(id) ==
    LET code == parts[id].code IN
    Denoted(code).unit = "Ohm" =>
        Denoted(code).v >= 0 /\ (parts[id].raw => CategoryUnit(Category[code]) # Empty)
AskedAs(id) ==
    Spellings[parts[id].code] \cup (IF Legible(id) THEN {DisplayValue(Row(id))} ELSE {})

(* A part is found by every notation of its value, the one the catalogue     *)
(* displays included, by every kind of search and whatever release stored    *)
(* it: multiplier letters, SI prefixes, lost case and the unit stored with   *)
(* the number are read alike in the row and in the question.  A suggested    *)
(* value or category leads to a part under the filters it was suggested for. *)
(* Exactly the rows of an earlier release that denote a quantity are planned *)
(* to be rewritten.                                                          *)
EverySpellingFinds ==
    /\ \A id \in Stored : \A t \in AskedAs(id) : Row(id).value # Unvalued =>
          LET category == Category[parts[id].code]
              filters == FilterOn(category, t)
              either == <<Group("any", {2, 3}), Leaf([value |-> t]), Leaf([part_number |-> Empty])>>
          IN  /\ Row(id) \in SearchFilters(Shelf, filters, 0)
              /\ Row(id) \in ToSet(Candidates(Shelf, {category}, filters, 0))
              /\ Row(id) \in ToSet(ExpressionRows(Shelf, [part_category |-> category], 0, either))
    /\ \A category \in Categories :
          \A t \in SuggestedValues({Row(id) : id \in {other \in Stored : Legible(other)}},
                                   [part_category |-> category], 1) :
             /\ SearchFilters(Shelf, FilterOn(category, t), 1) # {}
             /\ \A other \in SuggestedCategories(Shelf, [value |-> t], 1) :
                   SearchFilters(Shelf, FilterOn(other, t), 1) # {}
    /\ PlannedChanges = {id \in Stored : parts[id].raw /\ Denoted(parts[id].code) # Nothing}

(* Following next_offset from the first page shows every match and every     *)
(* alternative value once, in one order, although one offset pages all lists *)
(* of an answer; and no part is in two of them: a specification search lists *)
(* each candidate as a match, as incomplete or as a partial match.           *)
Shown(pages, name) ==
    LET from[offset \in DOMAIN pages] ==
            LET page == pages[offset] IN
            page[name] \o (IF page.next = 0 THEN <<>> ELSE from[page.next])
    IN  from[0]
EachOnce(rows, S) == ToSet(rows) = S /\ Len(rows) = Cardinality(S)
Matched(rows, others, limit) ==
    LET pages == [offset \in 0..MaxParts |-> SearchPage(rows, others, limit, offset)] IN
    /\ Shown(pages, "parts") = rows /\ Shown(pages, "partial") = others
    /\ ToSet(rows) \cap ToSet(others) = {}
Sorted(of, matches, incomplete, partial, limit) ==
    LET pages == [offset \in 0..MaxParts |->
                    SpecificationPage(matches, incomplete, partial, limit, offset)]
    IN  EachOnce(Shown(pages, "matches") \o Shown(pages, "incomplete") \o Shown(pages, "partial"),
                 of.found \cup of.other)
PagesCover(shelf, filters, limit, of) ==
    /\ Matched(SearchRows(shelf, filters, 0), Alternatives(shelf, filters, 0), limit)
    /\ \A requirements \in AskedTogether :
          LET assessed == Assessments(of, filters.part_category, requirements)
          IN  Sorted(of, SpecificationMatches(of, assessed), SpecificationIncomplete(of, assessed),
                     SpecificationPartial(of, assessed, filters, requirements), limit)
PagesCoverAnswers ==
    \A code \in Codes : \A t \in Spellings[code] : \A limit \in 1..2 :
        LET filters == FilterOn(Category[code], t)
        IN  PagesCover(Shelf, filters, limit, Candidacy(Shelf, filters))

(* If a bill of materials is reported sufficient in every row, and no        *)
(* requirements are reported to compete for one record, the stock can serve  *)
(* all rows at once: each row from one record and none overdrawn, although   *)
(* nothing is reserved and rows may repeat or spell a value differently.     *)
Boms == UNION {[1..n -> [filters : BomFilters, quantity : 0..2]] : n \in 1..2}
NoHiddenShortage ==
    \A items \in Boms :
        /\ \A filters \in BomGroups(items) : Status(Shelf, items, filters) = "sufficient"
        /\ Overlapping(Shelf, items) = {}
        => \E serve \in [DOMAIN items -> Stored] :
              /\ \A i \in DOMAIN items : Satisfies(Row(serve[i]), items[i].filters)
              /\ \A id \in Stored :
                    MapThenSumSet(LAMBDA i : items[i].quantity,
                                  {i \in DOMAIN items : serve[i] = id}) <= parts[id].qty

(* The reference: which whole numbers of a unit a text allows, and whether   *)
(* each stated value of a fact meets each one that is asked for, at every    *)
(* point of the conditions that are asked for.                               *)
Points(low, high) == {k \in 0..8 : low <= k * Fine * Power[Empty] /\ k * Fine * Power[Empty] <= high}
ValuePoints(t) == Points(Lower(t), Upper(t))
ConditionPoints(conditions, name) ==
    LET t == conditions[Key(name)]
        d == IF ToleranceKey(name) \in DOMAIN conditions
             THEN Lower(conditions[ToleranceKey(name)]) ELSE 0
    IN  Points(Lower(t) - d, Upper(t) + d)
(* What is stated about, by its present name. *)
Conditioned(conditions) ==
    {IF key[1] = "voltage_type" THEN "current_type" ELSE key[1] : key \in DOMAIN conditions}
Justified(fact, r) ==
    LET had == ValuePoints(fact.value)
        asked == ValuePoints(r.value)
    IN  /\ fact.kind = "source"
        /\ CASE r.comparison = "gte" -> \A v \in had, w \in asked : v >= w
             [] r.comparison = "lte" -> \A v \in had, w \in asked : v <= w
             [] OTHER -> had = asked
        /\ Conditioned(fact.conditions) = Conditioned(r.conditions)
        /\ \A name \in Conditioned(r.conditions) :
              ConditionUnit(name) # Empty /\ Key(name) \in DOMAIN r.conditions =>
              LET stated == ConditionPoints(fact.conditions, name)
                  wanted == ConditionPoints(r.conditions, name)
              IN  IF r.basis \in OperatingBases THEN wanted \subseteq stated ELSE wanted = stated
PartWith(category, fact) ==
    [id |-> 1, category |-> category, value |-> Unvalued, unit |-> Empty, package |-> Empty,
     number |-> fact.number, qty |-> 1, words |-> {}, facts |-> {fact}]
Overconfident(category) ==
    {pair \in KnownFacts \X Requirements :
        /\ ValidRequirement(category, pair[2])
        /\ LET of == Candidacy({PartWith(category, pair[1])}, [part_category |-> category])
           IN  SpecificationMatches(of, Assessments(of, category, <<pair[2]>>)) # <<>>
        /\ ~Justified(pair[1], pair[2])}
Misjudged ==
    UNION {{[category |-> category, fact |-> pair[1]] : pair \in Overconfident(category)} :
              category \in Categories}

(* A specification search confirms a requirement only if every stored value  *)
(* meets every requested one under all requested conditions, and by a source *)
(* about the part's own ordering code: open and closed ends, tolerances and  *)
(* missing conditions never turn "unknown" into a match.                     *)
ConfirmedForEveryValue ==
    \A id \in Stored : \A wrong \in Misjudged :
        wrong.category = Category[parts[id].code] =>
            ~ValidFacts(wrong.category, {wrong.fact}, NumberOf(parts[id].code))
=============================================================================
