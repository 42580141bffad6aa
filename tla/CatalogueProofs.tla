-------------------------- MODULE CatalogueProofs --------------------------
(***************************************************************************)
(* The searches are right for every stock, catalogue content, notation and *)
(* page size: the four invariants of Catalogue, from the type invariant of *)
(* Inventory and the assumptions on the contents.  The lemmas say what the *)
(* operators compute: the comparison of intervals and of conditions, the   *)
(* lists in an order and their pages, the notations of a value.            *)
(***************************************************************************)
EXTENDS Catalogue, InventoryProofs, WellFoundedInduction

Values(ends) == ends[1]..ends[2]
(* An interval has a value at each end. *)
IntervalEnds == {ends \in Int \X Int : ends[1] <= ends[2]}

(* Every value that is stored meets every value that is asked for.           *)
MeetsAll(left, right, comparison) ==
    CASE comparison = "gte" -> \A v \in Values(left), w \in Values(right) : v >= w
      [] comparison = "lte" -> \A v \in Values(left), w \in Values(right) : v <= w
      [] OTHER -> Values(left) = Values(right)
(* Whatever the stored value really is, it does not meet all that is asked.  *)
MissesAll(left, right, comparison) ==
    CASE comparison = "gte" -> \A v \in Values(left) : \E w \in Values(right) : v < w
      [] comparison = "lte" -> \A v \in Values(left) : \E w \in Values(right) : v > w
      [] OTHER -> Values(left) \cap Values(right) = {}

-----------------------------------------------------------------------------
LEMMA ValueIsWhole ==
  ASSUME NEW q \in WrittenQuantity
  PROVE  ValueOf(q) \in Int
<1>0. Power \in [SIPrefixes -> Nat \ {0}] BY PowersOfTen, Zenon
<1>1. q.n \in Int /\ Power[q.prefix] \in Int
  BY ONLY <1>0, q \in WrittenQuantity DEF WrittenQuantity
<1>2. \A x, y \in Int : x * y \in Int OBVIOUS
<1>3. q.n * Power[q.prefix] \in Int BY <1>1, <1>2
<1> QED BY <1>3 DEF ValueOf

LEMMA EndsAreWhole ==
  ASSUME NEW t \in WrittenInterval
  PROVE  Lower(t) \in Int /\ Upper(t) \in Int
<1>1. t.a \in WrittenQuantity /\ t.b \in WrittenQuantity BY DEF WrittenInterval
<1>2. First(t) \in WrittenQuantity BY <1>1 DEF First, Qty, WrittenQuantity
<1> QED BY <1>1, <1>2, ValueIsWhole DEF Lower, Upper

(* The endpoints of a written interval are in order. *)
LEMMA IntervalHasEnds ==
  ASSUME NEW t \in WrittenInterval, NEW unit, HasInterval(t, unit)
  PROVE  Interval(t) \in IntervalEnds
<1>1. Lower(t) \in Int /\ Upper(t) \in Int BY EndsAreWhole
<1>2. t.a \in WrittenQuantity /\ t.b \in WrittenQuantity BY DEF WrittenInterval
<1>3. First(t) \in WrittenQuantity BY <1>2 DEF First, Qty, WrittenQuantity
<1>4. ValueOf(t.a) \in Int /\ ValueOf(t.b) \in Int /\ ValueOf(First(t)) \in Int
  BY <1>2, <1>3, ValueIsWhole
<1>5. CASE t.form = "scalar"
  <2>1. IsQuantity(t.a, unit) BY <1>5 DEF HasInterval
  <2>2. t.a.unit # Empty BY <2>1 DEF IsQuantity
  <2>3. First(t) = t.a BY <2>2 DEF First
  <2>4. Lower(t) = Upper(t) BY <1>4, <1>5, <2>3 DEF Lower, Upper
  <2> QED BY <1>1, <2>4 DEF Interval, IntervalEnds
<1>6. CASE t.form = "range"
  <2>1. ValueOf(First(t)) <= ValueOf(t.b) BY <1>6 DEF HasInterval
  <2>2. Lower(t) <= Upper(t) BY <1>4, <1>6, <2>1 DEF Lower, Upper
  <2> QED BY <1>1, <2>2 DEF Interval, IntervalEnds
<1>7. CASE t.form = "tolerance"
  <2>1. ValueOf(t.b) >= 0 BY <1>7 DEF HasInterval
  <2>2. Lower(t) <= Upper(t) BY <1>4, <1>7, <2>1 DEF Lower, Upper
  <2> QED BY <1>1, <2>2 DEF Interval, IntervalEnds
<1> QED BY <1>5, <1>6, <1>7 DEF WrittenInterval
-----------------------------------------------------------------------------
(* compare_intervals confirms a comparison only if all stored values meet    *)
(* all requested ones.                                                       *)
THEOREM ConfirmedMeansEveryValue ==
  ASSUME NEW left \in IntervalEnds, NEW right \in IntervalEnds, NEW comparison \in Comparisons,
         CompareIntervals(left, right, comparison) = "yes"
  PROVE  MeetsAll(left, right, comparison)
<1>0. left[1] \in Int /\ left[2] \in Int /\ right[1] \in Int /\ right[2] \in Int BY DEF IntervalEnds
<1>1. CASE comparison = "gte"
  <2>1. left[1] >= right[2] BY <1>1 DEF CompareIntervals
  <2> QED BY <1>0, <1>1, <2>1 DEF MeetsAll, Values
<1>2. CASE comparison = "lte"
  <2>1. left[2] <= right[1] BY <1>2 DEF CompareIntervals
  <2> QED BY <1>0, <1>2, <2>1 DEF MeetsAll, Values
<1>3. CASE comparison = "eq"
  <2>1. left = right BY <1>3 DEF CompareIntervals
  <2> QED BY <1>3, <2>1 DEF MeetsAll
<1> QED BY <1>1, <1>2, <1>3 DEF Comparisons

(* compare_intervals rules a comparison out only if no stored value meets    *)
(* all that is requested; an overlap stays open.                             *)
THEOREM RefutedMeansNoValue ==
  ASSUME NEW left \in IntervalEnds, NEW right \in IntervalEnds, NEW comparison \in Comparisons,
         CompareIntervals(left, right, comparison) = "no"
  PROVE  MissesAll(left, right, comparison)
<1>0. /\ left[1] \in Int /\ left[2] \in Int /\ right[1] \in Int /\ right[2] \in Int
      /\ right[1] <= right[2]
  BY DEF IntervalEnds
<1>1. CASE comparison = "gte"
  <2>1. left[2] < right[2] BY <1>1 DEF CompareIntervals
  <2>2. right[2] \in Values(right) BY <1>0 DEF Values
  <2>3. \A v \in Values(left) : v < right[2] BY <1>0, <2>1 DEF Values
  <2> QED BY <1>1, <2>2, <2>3 DEF MissesAll
<1>2. CASE comparison = "lte"
  <2>1. left[1] > right[1] BY <1>2 DEF CompareIntervals
  <2>2. right[1] \in Values(right) BY <1>0 DEF Values
  <2>3. \A v \in Values(left) : v > right[1] BY <1>0, <2>1 DEF Values
  <2> QED BY <1>2, <2>2, <2>3 DEF MissesAll
<1>3. CASE comparison = "eq"
  <2>1. left[2] < right[1] \/ left[1] > right[2] BY <1>3 DEF CompareIntervals
  <2> QED BY <1>0, <1>3, <2>1 DEF MissesAll, Values
<1> QED BY <1>1, <1>2, <1>3 DEF Comparisons

(* Every condition that is asked for is stated, and at every requested value *)
(* of an interpreted one the fact still holds.                               *)
Covers(available, requested) ==
    LET left == ComparableConditions(available)
        right == ComparableConditions(requested)
    IN  /\ DOMAIN left = DOMAIN right
        /\ \A key \in DOMAIN right :
              IF left[key].unit # Empty
              THEN /\ left[key].unit = right[key].unit
                   /\ Values(right[key].ends) \subseteq Values(left[key].ends)
              ELSE left[key] = right[key]

(* A compared condition has whole ends. *)
LEMMA ComparableEnds ==
  ASSUME NEW raw, AreConditions(raw), NEW key \in DOMAIN ComparableConditions(raw)
  PROVE  ComparableConditions(raw)[key].ends \in Int \X Int
<1> DEFINE added == IF \E other \in DOMAIN raw : Renamed(raw, other) THEN {Key("current_type")} ELSE {}
<1>1. \/ key \in added
      \/ /\ key \notin added
         /\ key \in DOMAIN raw
  BY DEF ComparableConditions
<1>2. /\ \A other \in DOMAIN raw : raw[other] \in WrittenInterval
      /\ DOMAIN raw \subseteq STRING \X {"value", "tolerance"}
  BY DEF AreConditions
<1>3. ComparableConditions(raw)[key] =
        CASE key \in added -> Literal(raw[Key("voltage_type")])
          [] key[2] = "tolerance" -> Literal(raw[key])
          [] OTHER -> ComparableValue(raw, key[1])
  BY DEF ComparableConditions
<1>4. \A t : Literal(t).ends \in Int \X Int BY DEF Literal
<1>5. ASSUME key \notin added, key[2] # "tolerance"
      PROVE  ComparableValue(raw, key[1]).ends \in Int \X Int
  <2>1. key = Key(key[1]) /\ key \in DOMAIN raw BY <1>1, <1>2, <1>5 DEF Key
  <2>2. raw[Key(key[1])] \in WrittenInterval BY <1>2, <2>1
  <2>3. Lower(raw[Key(key[1])]) \in Int /\ Upper(raw[Key(key[1])]) \in Int
    BY <2>2, EndsAreWhole
  <2>4. ToleranceKey(key[1]) \in DOMAIN raw => Lower(raw[ToleranceKey(key[1])]) \in Int
    BY <1>2, EndsAreWhole
  <2> DEFINE t == raw[Key(key[1])]
             u == ConditionUnit(key[1])
             d == Lower(raw[ToleranceKey(key[1])])
  <2>5. ComparableValue(raw, key[1]) \in
           {Literal(Word("resistive")), Literal(t), Measured(u, Interval(t))}
        \/ /\ ToleranceKey(key[1]) \in DOMAIN raw
           /\ ComparableValue(raw, key[1]) = Measured(u, <<Lower(t) - d, Lower(t) + d>>)
    BY DEF ComparableValue
  <2>6. Measured(u, Interval(t)).ends \in Int \X Int BY <2>3 DEF Measured, Interval
  <2>7. ToleranceKey(key[1]) \in DOMAIN raw =>
           Measured(u, <<Lower(t) - d, Lower(t) + d>>).ends \in Int \X Int
    BY <2>3, <2>4 DEF Measured
  <2> QED BY <1>4, <2>5, <2>6, <2>7
<1> HIDE DEF added
<1> QED BY <1>3, <1>4, <1>5

LEMMA ContainedValues ==
  ASSUME NEW left \in Int \X Int, NEW right \in Int \X Int, ContainsInterval(left, right)
  PROVE  Values(right) \subseteq Values(left)
BY DEF ContainsInterval, Values

LEMMA CoverageIsPointwise ==
  ASSUME NEW available, NEW requested, AreConditions(available), AreConditions(requested),
         ConditionsCover(available, requested)
  PROVE  Covers(available, requested)
<1> DEFINE left == ComparableConditions(available)
           right == ComparableConditions(requested)
<1>1. DOMAIN left = DOMAIN right BY DEF ConditionsCover
<1>2. \A key \in DOMAIN left :
         IF left[key].unit # Empty /\ right[key].unit # Empty
         THEN left[key].unit = right[key].unit /\ ContainsInterval(left[key].ends, right[key].ends)
         ELSE left[key] = right[key]
  BY DEF ConditionsCover
<1>3. \A key \in DOMAIN left : left[key].ends \in Int \X Int BY ComparableEnds
<1>4. \A key \in DOMAIN right : right[key].ends \in Int \X Int BY ComparableEnds
<1> HIDE DEF left, right
<1>5. ASSUME NEW key \in DOMAIN right
      PROVE  Values(right[key].ends) \subseteq Values(left[key].ends)
  <2>1. CASE left[key] = right[key] BY <2>1
  <2>2. CASE ContainsInterval(left[key].ends, right[key].ends) BY <1>1, <1>5, <1>3, <1>4, <2>2, ContainedValues
  <2> QED BY <1>1, <1>2, <1>5, <2>1, <2>2
<1>6. Covers(available, requested) <=>
        /\ DOMAIN left = DOMAIN right
        /\ \A key \in DOMAIN right :
              IF left[key].unit # Empty
              THEN /\ left[key].unit = right[key].unit
                   /\ Values(right[key].ends) \subseteq Values(left[key].ends)
              ELSE left[key] = right[key]
  BY DEF Covers, left, right
<1> QED BY <1>1, <1>2, <1>5, <1>6

(* A specification search confirms a requirement only by a source-backed     *)
(* fact of the required basis that states all of its qualifiers, whose       *)
(* conditions are the requested ones (or, for the bound of an operating      *)
(* range, contain them), and of which every value meets every requested one. *)
(* Without such a fact the requirement stays open or is ruled out.           *)
THEOREM MatchesAreConfirmed ==
  ASSUME NEW category, NEW known, NEW r,
         r.value \in WrittenInterval, AreConditions(r.conditions),
         \A fact \in known : fact.value \in WrittenInterval /\ AreConditions(fact.conditions),
         ValidRequirement(category, r),
         \A fact \in known : ValidValue(category, fact.name, fact.value, fact.basis),
         Evaluate(category, known, r) = "yes"
  PROVE  \E fact \in known :
            /\ fact.name = r.name /\ fact.kind = "source" /\ fact.basis = r.basis
            /\ MissingQualifiers(category, fact) = {}
            /\ IF r.basis \in OperatingBases THEN Covers(fact.conditions, r.conditions)
               ELSE SameConditions(fact.conditions, r.conditions)
            /\ IF Definition(category, r.name).unit = Empty THEN fact.value = r.value
               ELSE MeetsAll(Interval(fact.value), Interval(r.value), r.comparison)
<1> DEFINE fact == CHOOSE f \in FactFor(known, r.name) : TRUE
           unit == Definition(category, r.name).unit
<1>1. FactFor(known, r.name) # {} /\ Applies(category, fact, r) BY DEF Evaluate
<1>2. fact \in FactFor(known, r.name) BY <1>1
<1>3. IF unit # Empty THEN CompareIntervals(Interval(fact.value), Interval(r.value), r.comparison) = "yes"
      ELSE fact.value = r.value
  BY <1>1 DEF Evaluate
<1> HIDE DEF fact
<1>4. fact \in known /\ fact.name = r.name BY <1>2 DEF FactFor
<1>5. /\ fact.kind = "source" /\ fact.basis = r.basis /\ MissingQualifiers(category, fact) = {}
      /\ IF r.basis \in OperatingBases THEN ConditionsCover(fact.conditions, r.conditions)
         ELSE SameConditions(fact.conditions, r.conditions)
  BY <1>1 DEF Applies
<1>6. unit # Empty => MeetsAll(Interval(fact.value), Interval(r.value), r.comparison)
  <2> SUFFICES ASSUME unit # Empty PROVE MeetsAll(Interval(fact.value), Interval(r.value), r.comparison)
    OBVIOUS
  <2>1. HasInterval(r.value, unit) /\ r.comparison \in Comparisons
    BY DEF ValidRequirement, ValidValue
  <2>2. ValidValue(category, r.name, fact.value, fact.basis) BY <1>4
  <2>3. HasInterval(fact.value, unit) BY <2>2 DEF ValidValue
  <2>4. Interval(fact.value) \in IntervalEnds /\ Interval(r.value) \in IntervalEnds
    BY <1>4, <2>1, <2>3, IntervalHasEnds
  <2> QED BY <1>3, <2>1, <2>4, ConfirmedMeansEveryValue
<1>7. r.basis \in OperatingBases => Covers(fact.conditions, r.conditions)
  BY <1>4, <1>5, CoverageIsPointwise
<1> HIDE DEF unit
<1> QED BY <1>3, <1>4, <1>5, <1>6, <1>7 DEF unit
-----------------------------------------------------------------------------
(* The least and the greatest of a set of numbers.                           *)

LEMMA LeastOfNaturals ==
  ASSUME NEW T \in SUBSET Nat, T # {}
  PROVE  \E n \in T : \A m \in T : n <= m
<1>1. IsWellFoundedOn(OpToRel(<, Nat), Nat) BY NatLessThanWellFounded
<1>2. PICK n \in T : \A m \in T : ~(<<m, n>> \in OpToRel(<, Nat)) BY <1>1, WFMin
<1>3. \A m \in T : ~(m < n) BY <1>2 DEF OpToRel
<1> QED BY <1>3

LEMMA MaxOfBounded ==
  ASSUME NEW b \in Nat, NEW S \in SUBSET (0..b), S # {}
  PROVE  /\ Max(S) \in S
         /\ \A n \in S : n <= Max(S)
<1> DEFINE T == {b - n : n \in S}
<1>1. T \in SUBSET Nat /\ T # {}
  <2>1. \A n \in S : b - n \in Nat OBVIOUS
  <2>2. \E n \in S : b - n \in T OBVIOUS
  <2> QED BY <2>1, <2>2
<1>2. PICK x \in T : \A y \in T : x <= y
  <2> HIDE DEF T
  <2> QED BY <1>1, LeastOfNaturals
<1>3. PICK m \in S : x = b - m BY <1>2
<1>4. ASSUME NEW n \in S PROVE m >= n
  <2>1. b - n \in T OBVIOUS
  <2> QED BY <1>2, <1>3, <2>1
<1> QED BY <1>3, <1>4 DEF Max

(* Two members make a set of more than one. *)
LEMMA TwoAreMore ==
  ASSUME NEW S, IsFiniteSet(S), NEW x \in S, NEW y \in S, x # y
  PROVE  Cardinality(S) > 1
<1>1. Cardinality({x}) = 1 /\ IsFiniteSet({x}) BY FS_Singleton
<1>2. Cardinality({x} \cup {y}) = 2 BY <1>1, FS_AddElement
<1>3. {x} \cup {y} \in SUBSET S OBVIOUS
<1>4. Cardinality({x} \cup {y}) <= Cardinality(S) /\ Cardinality(S) \in Nat
  BY <1>3, FS_Subset, FS_CardinalityType
<1> QED BY <1>2, <1>4

-----------------------------------------------------------------------------
(* Bills of materials.                                                       *)

(* The rows of a shelf. *)
LEMMA ShelfRows ==
  ASSUME TypeOK
  PROVE  /\ \A id \in Stored : Row(id).id = id /\ Row(id).qty = parts[id].qty
                              /\ parts[id].qty \in 0..MaxQuantity
         /\ \A part \in Shelf : part.id \in Stored /\ part = Row(part.id)
<1>1. \A id \in Stored : Row(id).id = id /\ Row(id).qty = parts[id].qty BY DEF Row
<1>2. \A id \in Stored : parts[id] \in Part BY DEF TypeOK, Stored
<1> QED BY <1>1, <1>2 DEF Shelf, Part

(* A set of requirements that one record meets is a conflict.                *)
LEMMA ConflictsAreSeen ==
  ASSUME NEW shelf, NEW items, IsFiniteSet(DOMAIN items), Overlapping(shelf, items) = {},
         NEW part \in shelf, NEW f \in BomGroups(items), NEW g \in BomGroups(items),
         Satisfies(part, f), Satisfies(part, g)
  PROVE  f = g
<1> SUFFICES ASSUME f # g PROVE FALSE OBVIOUS
<1> DEFINE G == {filters \in BomGroups(items) : Satisfies(part, filters)}
           of == [i \in DOMAIN items |-> items[i].filters]
<1>1. of \in Surjection(DOMAIN items, BomGroups(items)) BY DEF Surjection, BomGroups
<1>2. IsFiniteSet(BomGroups(items)) BY <1>1, FS_Surjection
<1>3. IsFiniteSet(G) BY <1>2, FS_Subset
<1>4. f \in G /\ g \in G OBVIOUS
<1>5. Cardinality(G) > 1 BY <1>3, <1>4, TwoAreMore
<1>6. G \in Overlapping(shelf, items) BY <1>5 DEF Overlapping
<1> QED BY <1>6

(* The record that serves a requirement that is reported sufficient.         *)
LEMMA SufficientHasRecord ==
  ASSUME NEW b \in Nat, NEW shelf, \A part \in shelf : part.qty \in 0..b,
         NEW items, NEW filters, Status(shelf, items, filters) = "sufficient"
  PROVE  \E part \in shelf : Satisfies(part, filters) /\ part.qty >= Requested(items, filters)
<1> DEFINE matching == SearchFilters(shelf, filters, 0)
           S == {0} \cup {part.qty : part \in matching}
<1>1. /\ matching # {} /\ Available(shelf, filters) # 0
      /\ Available(shelf, filters) >= Requested(items, filters)
  BY DEF Status
<1>2. matching \subseteq shelf BY DEF SearchFilters
<1>3. S \in SUBSET (0..b) /\ S # {} BY <1>2
<1>4. Max(S) \in S BY <1>3, MaxOfBounded
<1>5. Available(shelf, filters) = Max(S) BY DEF Available
<1>6. PICK part \in matching : part.qty = Available(shelf, filters) BY <1>1, <1>4, <1>5
<1> QED BY <1>1, <1>2, <1>6 DEF SearchFilters

(* If every row of a bill of materials is reported sufficient and no         *)
(* requirements are reported to compete for a record, the stock serves all   *)
(* rows at once, however many rows there are and however often they repeat.  *)
LEMMA SufficientServesAll ==
  ASSUME TypeOK, NEW items, IsFiniteSet(DOMAIN items),
         \A filters \in BomGroups(items) : Status(Shelf, items, filters) = "sufficient",
         Overlapping(Shelf, items) = {}
  PROVE  \E serve \in [DOMAIN items -> Stored] :
            /\ \A i \in DOMAIN items : Satisfies(Row(serve[i]), items[i].filters)
            /\ \A id \in Stored :
                  MapThenSumSet(LAMBDA i : items[i].quantity,
                                {i \in DOMAIN items : serve[i] = id}) <= parts[id].qty
<1> DEFINE Serves(part, filters) ==
             part \in Shelf /\ Satisfies(part, filters) /\ part.qty >= Requested(items, filters)
           by == [filters \in BomGroups(items) |-> CHOOSE part : Serves(part, filters)]
           serve == [i \in DOMAIN items |-> by[items[i].filters].id]
<1>1. \A part \in Shelf : part.qty \in 0..MaxQuantity BY ShelfRows
<1>2. ASSUME NEW filters \in BomGroups(items) PROVE Serves(by[filters], filters)
  <2>1. MaxQuantity \in Nat BY Bounds
  <2>2. \E part : Serves(part, filters) BY <1>1, <2>1, SufficientHasRecord
  <2> HIDE DEF Serves
  <2> QED BY <2>2
<1> HIDE DEF by
<1>3. \A i \in DOMAIN items : items[i].filters \in BomGroups(items) BY DEF BomGroups
<1>4. serve \in [DOMAIN items -> Stored] BY <1>2, <1>3, ShelfRows
<1>5. \A i \in DOMAIN items : Row(serve[i]) = by[items[i].filters] BY <1>2, <1>3, ShelfRows
<1>6. \A i \in DOMAIN items : Satisfies(Row(serve[i]), items[i].filters) BY <1>2, <1>3, <1>5
<1>7. ASSUME NEW id \in Stored
      PROVE  MapThenSumSet(LAMBDA i : items[i].quantity, {i \in DOMAIN items : serve[i] = id})
                <= parts[id].qty
  <2> DEFINE S == {i \in DOMAIN items : serve[i] = id}
  <2>1. CASE S = {}
    <3>1. MapThenSumSet(LAMBDA i : items[i].quantity, {}) = 0
      <4> DEFINE Body(it, s) == IF s = {} THEN 0
                                ELSE LET x == CHOOSE y \in s : TRUE
                                     IN  items[x].quantity + it[s \ {x}]
                 sum == CHOOSE it : it = [s \in SUBSET {} |-> Body(it, s)]
      <4>1. MapThenSumSet(LAMBDA i : items[i].quantity, {}) = sum[{}]
        BY DEF MapThenSumSet, MapThenFoldSet
      <4>2. [s \in SUBSET {} |-> 0] = [s \in SUBSET {} |-> Body([r \in SUBSET {} |-> 0], s)]
        OBVIOUS
      <4> HIDE DEF Body
      <4>3. sum = [s \in SUBSET {} |-> Body(sum, s)] BY <4>2
      <4> HIDE DEF sum
      <4>4. sum[{}] = Body(sum, {}) BY <4>3
      <4> QED BY <4>1, <4>4 DEF Body
    <3>2. parts[id].qty >= 0 BY ShelfRows
    <3>3. MapThenSumSet(LAMBDA i : items[i].quantity, S) = 0 BY ONLY <2>1, <3>1
    <3> QED BY <3>2, <3>3
  <2>2. ASSUME NEW i \in S
        PROVE  MapThenSumSet(LAMBDA k : items[k].quantity, S) <= parts[id].qty
    <3> DEFINE filters == items[i].filters
    <3>1. ASSUME NEW k \in S PROVE items[k].filters = filters
      <4>1. /\ Satisfies(Row(id), items[k].filters) /\ Satisfies(Row(id), filters)
            /\ Row(id) \in Shelf
        BY <1>6 DEF Shelf
      <4> QED BY <1>3, <4>1, ConflictsAreSeen
    <3>2. ASSUME NEW k \in DOMAIN items, items[k].filters = filters PROVE k \in S
      BY <3>2
    <3>3. S = RowsOf(items, filters)
      <4> HIDE DEF serve
      <4> QED BY <3>1, <3>2 DEF RowsOf
    <3>4. MapThenSumSet(LAMBDA k : items[k].quantity, S) = Requested(items, filters)
      BY <3>3 DEF Requested
    <3>5. by[filters] = Row(id) /\ by[filters].qty >= Requested(items, filters)
      BY <1>2, <1>3, <1>5
    <3> QED BY <3>4, <3>5, ShelfRows
  <2> QED BY <2>1, <2>2
<1> QED BY <1>4, <1>6, <1>7

(* If all rows of a bill of materials are reported sufficient and no         *)
(* requirements are reported to compete for a record, the stock serves all   *)
(* rows at once, each from one record, whatever happened to it.              *)
THEOREM BillsAreServed == Spec => []NoHiddenShortage
<1>1. TypeOK => NoHiddenShortage
  <2> SUFFICES ASSUME TypeOK, NEW items \in Boms,
                      \A filters \in BomGroups(items) : Status(Shelf, items, filters) = "sufficient",
                      Overlapping(Shelf, items) = {}
               PROVE  \E serve \in [DOMAIN items -> Stored] :
                         /\ \A i \in DOMAIN items : Satisfies(Row(serve[i]), items[i].filters)
                         /\ \A id \in Stored :
                               MapThenSumSet(LAMBDA i : items[i].quantity,
                                             {i \in DOMAIN items : serve[i] = id}) <= parts[id].qty
    BY DEF NoHiddenShortage
  <2>1. \E n \in 1..2 : DOMAIN items = 1..n BY DEF Boms
  <2>2. IsFiniteSet(DOMAIN items) BY <2>1, FS_Interval
  <2> QED BY <2>2, SufficientServesAll
<1> QED BY <1>1, InventoryTypes, PTL

-----------------------------------------------------------------------------
(* Confirmed requirements.                                                   *)

(* A product with a positive number keeps the order. *)
LEMMA ProductsKeepOrder ==
  ASSUME NEW v \in Int, NEW w \in Int, NEW c \in Nat \ {0}
  PROVE  v < w <=> v * c < w * c
<1>1. ASSUME NEW x \in Int, NEW y \in Int, x < y PROVE x * c < y * c
  <2>1. PICK d \in Nat \ {0} : y = x + d
    <3>1. y - x \in Nat \ {0} /\ y = x + (y - x) BY <1>1
    <3> QED BY <3>1
  <2>2. y * c = x * c + d * c BY <2>1
  <2>3. d * c > 0 /\ d * c \in Int /\ x * c \in Int OBVIOUS
  <2> QED BY <2>2, <2>3
<1>2. CASE v < w BY <1>1, <1>2
<1>3. CASE v = w BY <1>3
<1>4. CASE w < v
  <2>1. w * c < v * c BY <1>1, <1>4
  <2>2. w * c \in Int /\ v * c \in Int OBVIOUS
  <2> QED BY <1>4, <2>1, <2>2
<1> QED BY <1>2, <1>3, <1>4

(* A point of an interval is one of its values; the scale keeps the order.   *)
LEMMA PointsAreValues ==
  ASSUME NEW low \in Int, NEW high \in Int
  PROVE  Points(low, high) = {k \in 0..8 : k * Fine * Power[Empty] \in Values(<<low, high>>)}
<1>1. \A k \in 0..8 : k * Fine * Power[Empty] \in Int
  <2>1. Power[Empty] \in Int BY PowersOfTen DEF SIPrefixes
  <2> QED BY <2>1, Decimals
<1> QED BY <1>1 DEF Points, Values

LEMMA ScaleKeepsOrder ==
  ASSUME NEW v \in Nat, NEW w \in Nat, v * Fine * Power[Empty] >= w * Fine * Power[Empty]
  PROVE  v >= w
<1>1. Fine \in Nat \ {0} /\ Power[Empty] \in Nat \ {0}
  BY PowersOfTen, Decimals DEF SIPrefixes
<1>2. ASSUME v < w PROVE FALSE
  <2>1. v * Fine < w * Fine BY <1>1, <1>2, ProductsKeepOrder
  <2>2. v * Fine \in Int /\ w * Fine \in Int BY <1>1
  <2>3. v * Fine * Power[Empty] < w * Fine * Power[Empty] BY <1>1, <2>1, <2>2, ProductsKeepOrder
  <2>4. v * Fine * Power[Empty] \in Int /\ w * Fine * Power[Empty] \in Int BY <1>1
  <2> QED BY <2>3, <2>4
<1> QED BY <1>2

(* A confirmed comparison holds between the points of the two values. *)
LEMMA PointsMeet ==
  ASSUME NEW left \in IntervalEnds, NEW right \in IntervalEnds, NEW comparison \in Comparisons,
         MeetsAll(left, right, comparison)
  PROVE  LET had == Points(left[1], left[2])
             asked == Points(right[1], right[2])
         IN  CASE comparison = "gte" -> \A v \in had, w \in asked : v >= w
               [] comparison = "lte" -> \A v \in had, w \in asked : v <= w
               [] OTHER -> had = asked
<1> DEFINE had == Points(left[1], left[2])
           asked == Points(right[1], right[2])
           Base(k) == k * Fine * Power[Empty]
<1>1. /\ left[1] \in Int /\ left[2] \in Int /\ right[1] \in Int /\ right[2] \in Int
      /\ <<left[1], left[2]>> = left /\ <<right[1], right[2]>> = right
  BY DEF IntervalEnds
<1>2. /\ had = {k \in 0..8 : Base(k) \in Values(left)}
      /\ asked = {k \in 0..8 : Base(k) \in Values(right)}
  BY <1>1, PointsAreValues
<1>3. \A v \in 0..8, w \in 0..8 : Base(v) >= Base(w) => v >= w
  BY ScaleKeepsOrder
<1>4. \A v \in 0..8, w \in 0..8 : Base(v) <= Base(w) => v <= w
  <2> SUFFICES ASSUME NEW v \in 0..8, NEW w \in 0..8, Base(v) <= Base(w) PROVE v <= w OBVIOUS
  <2>1. Base(v) \in Int /\ Base(w) \in Int
    BY PowersOfTen, Decimals DEF SIPrefixes
  <2> HIDE DEF At
  <2>2. Base(w) >= Base(v) BY <2>1
  <2> QED BY <1>3, <2>2
<1> HIDE DEF had, asked, At
<1>5. CASE comparison = "gte"
  <2> \A v \in Values(left), w \in Values(right) : v >= w BY <1>5 DEF MeetsAll
  <2>1. \A v \in had, w \in asked : v >= w BY <1>2, <1>3
  <2> QED BY <1>5, <2>1 DEF had, asked
<1>6. CASE comparison = "lte"
  <2> \A v \in Values(left), w \in Values(right) : v <= w BY <1>6 DEF MeetsAll
  <2>1. \A v \in had, w \in asked : v <= w BY <1>2, <1>4
  <2> QED BY <1>6, <2>1 DEF had, asked
<1>7. CASE comparison = "eq"
  <2> Values(left) = Values(right) BY <1>7 DEF MeetsAll
  <2>1. had = asked BY <1>2
  <2> QED BY <1>7, <2>1 DEF had, asked
<1> QED BY <1>5, <1>6, <1>7 DEF Comparisons

(* The names of the compared conditions are those that are stated: an older  *)
(* name is replaced, and a tolerance that joins its center leaves the name.  *)
Present(name) == IF name = "voltage_type" THEN "current_type" ELSE name
LEMMA ComparedNames ==
  ASSUME NEW raw, AreConditions(raw)
  PROVE  Conditioned(raw) = {Present(key[1]) : key \in DOMAIN ComparableConditions(raw)}
<1> DEFINE compared == DOMAIN ComparableConditions(raw)
           added == IF \E key \in DOMAIN raw : Renamed(raw, key) THEN {Key("current_type")} ELSE {}
<1>1. compared = {key \in DOMAIN raw : ~Renamed(raw, key) /\ ~Joined(raw, key)} \cup added
  BY DEF ComparableConditions
<1>2. Conditioned(raw) = {Present(key[1]) : key \in DOMAIN raw} BY DEF Conditioned, Present
<1>3. ASSUME NEW key \in DOMAIN raw PROVE \E k \in compared : Present(k[1]) = Present(key[1])
  <2>1. CASE Renamed(raw, key)
    <3>1. Key("current_type") \in compared BY <1>1, <2>1
    <3>2. Present(Key("current_type")[1]) = Present(key[1]) BY <2>1 DEF Renamed, Present, Key
    <3> QED BY <3>1, <3>2
  <2>2. CASE Joined(raw, key)
    <3> DEFINE k == Key(key[1])
    <3>1. k \in DOMAIN raw /\ ConditionUnit(key[1]) # Empty BY <2>2 DEF Joined
    <3>2. ~Joined(raw, k) BY DEF Joined, Key
    <3>3. key[1] # "voltage_type" BY <3>1 DEF ConditionUnit
    <3>4. ~Renamed(raw, k) BY <3>3 DEF Renamed, Key
    <3>5. k \in compared BY <1>1, <3>1, <3>2, <3>4
    <3>6. k[1] = key[1] BY DEF Key
    <3> QED BY <3>5, <3>6
  <2>3. CASE ~Renamed(raw, key) /\ ~Joined(raw, key) BY <1>1, <2>3
  <2> QED BY <2>1, <2>2, <2>3
<1>4. ASSUME NEW k \in compared PROVE \E key \in DOMAIN raw : Present(k[1]) = Present(key[1])
  <2>1. CASE k \in DOMAIN raw BY <2>1
  <2>2. CASE k \in added
    <3>1. k = Key("current_type") /\ Key("voltage_type") \in DOMAIN raw BY <2>2 DEF Renamed
    <3>2. Present(k[1]) = Present(Key("voltage_type")[1]) BY <3>1 DEF Present, Key
    <3> QED BY <3>1, <3>2
  <2> QED BY <1>1, <2>1, <2>2
<1> HIDE DEF compared
<1>5. Conditioned(raw) = {Present(key[1]) : key \in compared} BY <1>2, <1>3, <1>4
<1> QED BY <1>5 DEF compared

(* The interval of an interpreted condition is that of the reference; one    *)
(* that is not understood is compared as it is written, with its tolerance.  *)
LEMMA ComparedPoints ==
  ASSUME NEW raw, AreConditions(raw), NEW name, ConditionUnit(name) # Empty,
         Key(name) \in DOMAIN ComparableConditions(raw)
  PROVE  LET compared == ComparableConditions(raw)
             c == compared[Key(name)]
         IN  /\ Key(name) \in DOMAIN raw
             /\ \/ c.unit # Empty /\ ConditionPoints(raw, name) = Points(c.ends[1], c.ends[2])
                \/ /\ c = Literal(raw[Key(name)])
                   /\ ToleranceKey(name) \in DOMAIN raw <=> ToleranceKey(name) \in DOMAIN compared
                   /\ ToleranceKey(name) \in DOMAIN raw =>
                         compared[ToleranceKey(name)] = Literal(raw[ToleranceKey(name)])
<1> DEFINE compared == ComparableConditions(raw)
           added == IF \E key \in DOMAIN raw : Renamed(raw, key) THEN {Key("current_type")} ELSE {}
           t == raw[Key(name)]
           unit == ConditionUnit(name)
           tolerance == raw[ToleranceKey(name)]
<1>1. /\ DOMAIN compared = {key \in DOMAIN raw : ~Renamed(raw, key) /\ ~Joined(raw, key)} \cup added
      /\ \A key \in DOMAIN compared :
           compared[key] = CASE key \in added -> Literal(raw[Key("voltage_type")])
                             [] key[2] = "tolerance" -> Literal(raw[key])
                             [] OTHER -> ComparableValue(raw, key[1])
  BY DEF ComparableConditions
<1>2. name # "current_type" /\ name # "load_type" /\ name # "voltage_type" BY DEF ConditionUnit
<1>3. Key(name) \notin added /\ ToleranceKey(name) \notin added BY <1>2 DEF Key, ToleranceKey
<1>4. Key(name) \in DOMAIN raw BY <1>1, <1>3
<1>5. Key(name)[1] = name /\ Key(name)[2] = "value" /\ ToleranceKey(name)[1] = name
      /\ ToleranceKey(name)[2] = "tolerance"
  BY DEF Key, ToleranceKey
<1> HIDE DEF compared, added
<1>6. compared[Key(name)] = ComparableValue(raw, name)
  <2>1. Key(name) \in DOMAIN compared BY DEF compared
  <2> QED BY <1>1, <1>3, <1>5, <2>1
<1>7. t \in WrittenInterval /\ (ToleranceKey(name) \in DOMAIN raw => tolerance \in WrittenInterval)
  BY <1>4 DEF AreConditions
<1>8. /\ Lower(t) \in Int /\ Upper(t) \in Int
      /\ ToleranceKey(name) \in DOMAIN raw => Lower(tolerance) \in Int
  BY <1>7, EndsAreWhole
<1> HIDE DEF t, tolerance, unit
<1>9. ConditionPoints(raw, name) =
         IF ToleranceKey(name) \in DOMAIN raw
         THEN Points(Lower(t) - Lower(tolerance), Upper(t) + Lower(tolerance))
         ELSE Points(Lower(t) - 0, Upper(t) + 0)
  BY DEF ConditionPoints, t, tolerance
<1>10. CASE HasInterval(t, unit) /\ ToleranceKey(name) \notin DOMAIN raw
  <2>1. compared[Key(name)] = Measured(unit, Interval(t))
    BY <1>2, <1>6, <1>10 DEF ComparableValue, t, unit
  <2>2. compared[Key(name)].unit = unit /\ compared[Key(name)].ends[1] = Lower(t)
        /\ compared[Key(name)].ends[2] = Upper(t)
    BY <2>1 DEF Measured, Interval
  <2>3. ConditionPoints(raw, name) = Points(Lower(t), Upper(t)) BY <1>8, <1>9, <1>10
  <2> QED BY <1>4, <2>2, <2>3 DEF compared, unit
<1>11. CASE HasInterval(t, unit) /\ ToleranceKey(name) \in DOMAIN raw /\ Combines(raw, name)
  <2>1. compared[Key(name)] = Measured(unit, <<Lower(t) - Lower(tolerance), Lower(t) + Lower(tolerance)>>)
    BY <1>2, <1>6, <1>11 DEF ComparableValue, t, unit, tolerance
  <2>2. /\ compared[Key(name)].unit = unit
        /\ compared[Key(name)].ends[1] = Lower(t) - Lower(tolerance)
        /\ compared[Key(name)].ends[2] = Lower(t) + Lower(tolerance)
    BY <2>1 DEF Measured
  <2>3. Lower(t) = Upper(t) BY <1>11 DEF Combines, IsScalar, t
  <2>4. ConditionPoints(raw, name) = Points(Lower(t) - Lower(tolerance), Lower(t) + Lower(tolerance))
    BY <1>9, <1>11, <2>3
  <2> QED BY <1>4, <2>2, <2>4 DEF compared, unit
<1>12. CASE ~HasInterval(t, unit) \/ (ToleranceKey(name) \in DOMAIN raw /\ ~Combines(raw, name))
  <2>1. compared[Key(name)] = Literal(t)
    BY <1>2, <1>6, <1>12 DEF ComparableValue, t, unit
  <2>2. ~Combines(raw, name) BY <1>12 DEF Combines, IsScalar, t, unit
  <2>3. ~Joined(raw, ToleranceKey(name)) BY <1>5, <2>2 DEF Joined
  <2>4. ~Renamed(raw, ToleranceKey(name)) BY <1>5 DEF Renamed, Key
  <2>5. ToleranceKey(name) \in DOMAIN raw <=> ToleranceKey(name) \in DOMAIN compared
    BY <1>1, <1>3, <2>3, <2>4
  <2>6. ToleranceKey(name) \in DOMAIN compared => compared[ToleranceKey(name)] = Literal(tolerance)
    BY <1>1, <1>3, <1>5 DEF tolerance
  <2> QED BY <1>4, <2>1, <2>5, <2>6 DEF compared, t, tolerance
<1> QED BY <1>10, <1>11, <1>12

LEMMA JustifiedConditions ==
  ASSUME NEW available, NEW requested, AreConditions(available), AreConditions(requested),
         NEW operating \in BOOLEAN,
         IF operating THEN Covers(available, requested) ELSE SameConditions(available, requested)
  PROVE  /\ Conditioned(available) = Conditioned(requested)
         /\ \A name \in Conditioned(requested) :
               ConditionUnit(name) # Empty /\ Key(name) \in DOMAIN requested =>
               LET stated == ConditionPoints(available, name)
                   wanted == ConditionPoints(requested, name)
               IN  IF operating THEN wanted \subseteq stated ELSE wanted = stated
<1> DEFINE left == ComparableConditions(available)
           right == ComparableConditions(requested)
<1>1. DOMAIN left = DOMAIN right
  <2>1. CASE operating BY <2>1 DEF Covers
  <2>2. CASE ~operating BY <2>2 DEF SameConditions
  <2> QED BY <2>1, <2>2
<1>2. Conditioned(available) = Conditioned(requested) BY <1>1, ComparedNames
<1>3. \A key \in DOMAIN left : left[key].ends \in Int \X Int BY ComparableEnds
<1>4. \A key \in DOMAIN right : right[key].ends \in Int \X Int BY ComparableEnds
<1> DEFINE PointsOf(ends) == {k \in 0..8 : k * Fine * Power[Empty] \in Values(ends)}
<1>0. ASSUME NEW ends \in Int \X Int PROVE Points(ends[1], ends[2]) = PointsOf(ends)
  <2>1. ends[1] \in Int /\ ends[2] \in Int /\ <<ends[1], ends[2]>> = ends OBVIOUS
  <2> QED BY <2>1, PointsAreValues
<1>5. \A key \in DOMAIN right :
         IF operating
         THEN IF left[key].unit # Empty
              THEN /\ left[key].unit = right[key].unit
                   /\ Values(right[key].ends) \subseteq Values(left[key].ends)
              ELSE left[key] = right[key]
         ELSE left[key] = right[key]
  <2>1. CASE operating BY <2>1 DEF Covers
  <2>2. CASE ~operating BY <2>2 DEF SameConditions
  <2> QED BY <2>1, <2>2
<1>6. ASSUME NEW name \in Conditioned(requested), ConditionUnit(name) # Empty,
             Key(name) \in DOMAIN requested
      PROVE  LET stated == ConditionPoints(available, name)
                 wanted == ConditionPoints(requested, name)
             IN  IF operating THEN wanted \subseteq stated ELSE wanted = stated
  <2> DEFINE stated == ConditionPoints(available, name)
             wanted == ConditionPoints(requested, name)
             key == Key(name)
  <2>1. key \in DOMAIN right
    <3>1. ~Renamed(requested, key) BY <1>6 DEF Renamed, Key, ConditionUnit
    <3>2. ~Joined(requested, key) BY DEF Joined, Key
    <3> QED BY <1>6, <3>1, <3>2 DEF ComparableConditions
  <2>2. key \in DOMAIN left BY <1>1, <2>1
  <2>3. \/ left[key].unit # Empty /\ stated = Points(left[key].ends[1], left[key].ends[2])
        \/ /\ left[key] = Literal(available[key])
           /\ ToleranceKey(name) \in DOMAIN available <=> ToleranceKey(name) \in DOMAIN left
           /\ ToleranceKey(name) \in DOMAIN available =>
                 left[ToleranceKey(name)] = Literal(available[ToleranceKey(name)])
    BY <1>6, <2>2, ComparedPoints
  <2>4. \/ right[key].unit # Empty /\ wanted = Points(right[key].ends[1], right[key].ends[2])
        \/ /\ right[key] = Literal(requested[key])
           /\ ToleranceKey(name) \in DOMAIN requested <=> ToleranceKey(name) \in DOMAIN right
           /\ ToleranceKey(name) \in DOMAIN requested =>
                 right[ToleranceKey(name)] = Literal(requested[ToleranceKey(name)])
    BY <1>6, <2>1, ComparedPoints
  <2>5. \A t : Literal(t).unit = Empty /\ Literal(t).text = t BY DEF Literal
  <2>6. left[key].unit = right[key].unit BY <1>5, <2>1
  <2>7. CASE left[key].unit # Empty
    <3>1. /\ stated = Points(left[key].ends[1], left[key].ends[2])
          /\ wanted = Points(right[key].ends[1], right[key].ends[2])
      BY <2>3, <2>4, <2>5, <2>6, <2>7
    <3>2. CASE ~operating BY <1>5, <2>1, <3>1, <3>2
    <3>3. CASE operating
      <4>1. Values(right[key].ends) \subseteq Values(left[key].ends) BY <1>5, <2>1, <2>7, <3>3
      <4>2. PointsOf(right[key].ends) \subseteq PointsOf(left[key].ends) BY <4>1
      <4>3. stated = PointsOf(left[key].ends) /\ wanted = PointsOf(right[key].ends)
        <5> HIDE DEF left, right, key, stated, wanted, PointsOf
        <5>1. left[key].ends \in Int \X Int /\ right[key].ends \in Int \X Int
          BY <1>3, <1>4, <2>1, <2>2
        <5> QED BY <1>0, <3>1, <5>1
      <4> QED BY <3>3, <4>2, <4>3
    <3> QED BY <3>2, <3>3
  <2>8. CASE left[key].unit = Empty
    <3>1. /\ left[key] = Literal(available[key]) /\ right[key] = Literal(requested[key])
          /\ left[key] = right[key]
      BY <1>5, <2>1, <2>3, <2>4, <2>6, <2>8
    <3>2. available[key] = requested[key] BY <2>5, <3>1
    <3>3. ToleranceKey(name) \in DOMAIN available <=> ToleranceKey(name) \in DOMAIN requested
      BY <1>1, <2>3, <2>4, <2>6, <2>8
    <3>4. ASSUME ToleranceKey(name) \in DOMAIN requested
          PROVE  available[ToleranceKey(name)] = requested[ToleranceKey(name)]
      <4> DEFINE other == ToleranceKey(name)
      <4>1. /\ left[other] = Literal(available[other]) /\ right[other] = Literal(requested[other])
            /\ other \in DOMAIN right
        BY <2>3, <2>4, <2>6, <2>8, <3>3, <3>4
      <4>2. left[other] = right[other]
        BY <1>5, <2>5, <4>1
      <4> QED BY <2>5, <4>1, <4>2
    <3>5. stated = wanted BY <3>2, <3>3, <3>4 DEF ConditionPoints
    <3> QED BY <3>5
  <2> QED BY <2>7, <2>8
<1> QED BY <1>2, <1>6

(* An empty list is in order. *)
LEMMA NoneInOrder == ASSUME NEW before PROVE InOrder({}, before) = <<>>
<1>1. Cardinality({}) = 0 BY FS_EmptySet
<1>2. <<>> \in [1..0 -> {}] OBVIOUS
<1>3. \A i, j \in 1..0 : i < j => <<<<>>[i], <<>>[j]>> \in before OBVIOUS
<1>4. \A rows \in [1..0 -> {}] : rows = <<>> OBVIOUS
<1> QED BY <1>1, <1>2, <1>3, <1>4 DEF InOrder

(* A part that is listed as a match has its requirement confirmed. *)
LEMMA ListedIsConfirmed ==
  ASSUME NEW category, NEW fact, NEW r,
         LET of == Candidacy({PartWith(category, fact)}, [part_category |-> category])
         IN  SpecificationMatches(of, Assessments(of, category, <<r>>)) # <<>>
  PROVE  Evaluate(category, {fact}, r) = "yes"
<1> DEFINE of == Candidacy({PartWith(category, fact)}, [part_category |-> category])
           assessed == Assessments(of, category, <<r>>)
           S == {part \in of.found : Answered(assessed[part], "yes") = DOMAIN assessed[part]}
<1>1. S # {} BY NoneInOrder DEF SpecificationMatches, ById
<1>2. PICK part \in of.found : Answered(assessed[part], "yes") = DOMAIN assessed[part] BY <1>1
<1>3. part = PartWith(category, fact) BY <1>2 DEF Candidacy, SearchFilters
<1>4. assessed[part] = [i \in DOMAIN <<r>> |-> Evaluate(category, part.facts, <<r>>[i])]
  BY <1>2 DEF Assessments
<1> HIDE DEF assessed
<1>5. 1 \in DOMAIN assessed[part] /\ assessed[part][1] = Evaluate(category, part.facts, r) BY <1>4
<1>6. assessed[part][1] = "yes" BY <1>2, <1>5 DEF Answered
<1>7. part.facts = {fact} BY <1>3 DEF PartWith
<1> QED BY <1>5, <1>6, <1>7

(* What a specification search confirms for a fact that was accepted is      *)
(* justified at every point.                                                 *)
LEMMA MatchesAreJustified ==
  ASSUME NEW category, NEW fact, NEW r, States(fact), States(r), NEW number,
         ValidRequirement(category, r), ValidFacts(category, {fact}, number),
         Evaluate(category, {fact}, r) = "yes"
  PROVE  Justified(fact, r)
<1>1. ValidValue(category, fact.name, fact.value, fact.basis) BY DEF ValidFacts
<1>2. /\ fact.name = r.name /\ fact.kind = "source"
      /\ IF r.basis \in OperatingBases THEN Covers(fact.conditions, r.conditions)
         ELSE SameConditions(fact.conditions, r.conditions)
      /\ IF Definition(category, r.name).unit = Empty THEN fact.value = r.value
         ELSE MeetsAll(Interval(fact.value), Interval(r.value), r.comparison)
  BY <1>1, MatchesAreConfirmed DEF States
<1>3. AreConditions(fact.conditions) /\ AreConditions(r.conditions) BY DEF States
<1> DEFINE operating == r.basis \in OperatingBases
<1>4. operating \in BOOLEAN
      /\ IF operating THEN Covers(fact.conditions, r.conditions)
         ELSE SameConditions(fact.conditions, r.conditions)
  BY <1>2
<1>5. /\ Conditioned(fact.conditions) = Conditioned(r.conditions)
      /\ \A name \in Conditioned(r.conditions) :
            ConditionUnit(name) # Empty /\ Key(name) \in DOMAIN r.conditions =>
            LET stated == ConditionPoints(fact.conditions, name)
                wanted == ConditionPoints(r.conditions, name)
            IN  IF operating THEN wanted \subseteq stated ELSE wanted = stated
  <2> HIDE DEF operating
  <2> QED BY <1>3, <1>4, JustifiedConditions
<1>6. LET had == ValuePoints(fact.value)
          asked == ValuePoints(r.value)
      IN  CASE r.comparison = "gte" -> \A v \in had, w \in asked : v >= w
            [] r.comparison = "lte" -> \A v \in had, w \in asked : v <= w
            [] OTHER -> had = asked
  <2>1. CASE Definition(category, r.name).unit = Empty
    <3>1. fact.value = r.value /\ r.comparison = "eq" BY <1>2, <2>1 DEF ValidRequirement
    <3> QED BY <3>1
  <2>2. CASE Definition(category, r.name).unit # Empty
    <3>1. MeetsAll(Interval(fact.value), Interval(r.value), r.comparison) BY <1>2, <2>2
    <3>2. /\ HasInterval(r.value, Definition(category, r.name).unit) /\ r.comparison \in Comparisons
          /\ HasInterval(fact.value, Definition(category, r.name).unit)
      BY <1>1, <1>2, <2>2 DEF ValidRequirement, ValidValue
    <3>3. Interval(fact.value) \in IntervalEnds /\ Interval(r.value) \in IntervalEnds
      BY <3>2, IntervalHasEnds DEF States
    <3>4. /\ ValuePoints(fact.value) = Points(Interval(fact.value)[1], Interval(fact.value)[2])
          /\ ValuePoints(r.value) = Points(Interval(r.value)[1], Interval(r.value)[2])
      BY DEF ValuePoints, Interval
    <3> QED BY <3>1, <3>2, <3>3, <3>4, PointsMeet
  <2> QED BY <2>1, <2>2
<1> QED BY <1>2, <1>5, <1>6 DEF Justified

(* A search confirms a requirement of a stored part only if every value and  *)
(* every condition that is asked for is one that an accepted source states.  *)
THEOREM ConfirmationsAreJustified == Spec => []ConfirmedForEveryValue
<1>1. ConfirmedForEveryValue
  <2> SUFFICES ASSUME NEW id \in Stored, NEW category \in Categories,
                      NEW pair \in Overconfident(category),
                      ValidFacts(category, {pair[1]}, NumberOf(parts[id].code))
               PROVE  FALSE
    BY DEF ConfirmedForEveryValue, Misjudged
  <2>1. /\ pair[1] \in KnownFacts /\ pair[2] \in Requirements
        /\ ValidRequirement(category, pair[2]) /\ ~Justified(pair[1], pair[2])
        /\ LET of == Candidacy({PartWith(category, pair[1])}, [part_category |-> category])
           IN  SpecificationMatches(of, Assessments(of, category, <<pair[2]>>)) # <<>>
    BY DEF Overconfident
  <2>2. States(pair[1]) /\ States(pair[2]) BY <2>1, Contents
  <2>3. Evaluate(category, {pair[1]}, pair[2]) = "yes" BY <2>1, ListedIsConfirmed
  <2> QED BY <2>1, <2>2, <2>3, MatchesAreJustified
<1> QED BY <1>1, PTL

-----------------------------------------------------------------------------
(* Lists in an order.                                                        *)

StrictOrder(S, before) ==
    /\ \A p \in S : <<p, p>> \notin before
    /\ \A p \in S, q \in S : p # q => <<p, q>> \in before \/ <<q, p>> \in before
    /\ \A p \in S, q \in S, r \in S :
          <<p, q>> \in before /\ <<q, r>> \in before => <<p, r>> \in before

(* A finite set has a list in a strict order: every member stands behind as  *)
(* many others as come before it.                                            *)
LEMMA OrderExists ==
  ASSUME NEW S, IsFiniteSet(S), NEW before, StrictOrder(S, before)
  PROVE  \E rows \in [1..Cardinality(S) -> S] :
            \A i, j \in 1..Cardinality(S) : i < j => <<rows[i], rows[j]>> \in before
<1> DEFINE N == Cardinality(S)
           Ahead(p) == {q \in S : <<q, p>> \in before}
           pos == [p \in S |-> Cardinality(Ahead(p)) + 1]
<1>1. N \in Nat BY FS_CardinalityType
<1>2. ASSUME NEW p \in S PROVE pos[p] \in 1..N
  <2>1. p \notin Ahead(p) BY DEF StrictOrder
  <2>2. Ahead(p) \in SUBSET (S \ {p}) BY <2>1
  <2>3. IsFiniteSet(S \ {p}) /\ Cardinality(S \ {p}) = N - 1 BY FS_RemoveElement
  <2>4. Cardinality(Ahead(p)) <= N - 1
    <3> HIDE DEF Ahead, N
    <3> QED BY <2>2, <2>3, FS_Subset
  <2>5. Cardinality(Ahead(p)) \in Nat BY <2>2, <2>3, FS_Subset, FS_CardinalityType
  <2> HIDE DEF N, Ahead
  <2> QED BY <1>1, <2>4, <2>5
<1>3. ASSUME NEW p \in S, NEW q \in S, <<p, q>> \in before PROVE pos[p] < pos[q]
  <2>1. Ahead(p) \in SUBSET Ahead(q) /\ p \in Ahead(q) /\ p \notin Ahead(p)
    BY <1>3 DEF StrictOrder
  <2>2. IsFiniteSet(Ahead(q)) BY FS_Subset
  <2>3. /\ Cardinality(Ahead(p)) <= Cardinality(Ahead(q))
        /\ Cardinality(Ahead(p)) # Cardinality(Ahead(q))
    BY <2>1, <2>2, FS_Subset
  <2>4. Cardinality(Ahead(p)) \in Nat /\ Cardinality(Ahead(q)) \in Nat
    BY <2>1, <2>2, FS_Subset, FS_CardinalityType
  <2> HIDE DEF Ahead
  <2> QED BY <2>3, <2>4
<1>4. pos \in Injection(S, 1..N)
  <2>1. pos \in [S -> 1..N] BY <1>2
  <2>2. \A p \in S, q \in S : pos[p] = pos[q] => p = q
    <3> SUFFICES ASSUME NEW p \in S, NEW q \in S, pos[p] = pos[q], p # q PROVE FALSE OBVIOUS
    <3>1. pos[p] < pos[q] \/ pos[q] < pos[p] BY <1>3 DEF StrictOrder
    <3>2. pos[p] \in 1..N /\ pos[q] \in 1..N BY <1>2
    <3> HIDE DEF pos
    <3> QED BY <1>1, <3>1, <3>2
  <2> HIDE DEF pos
  <2> QED BY <2>1, <2>2 DEF Injection, IsInjective
<1>5. pos \in Surjection(S, 1..N)
  <2>1. IsFiniteSet(1..N) /\ Cardinality(1..N) = N BY <1>1, FS_Interval
  <2> HIDE DEF pos
  <2> QED BY <1>4, <2>1, FS_Injection
<1> DEFINE rows == [i \in 1..N |-> CHOOSE p \in S : pos[p] = i]
<1>6. \A i \in 1..N : rows[i] \in S /\ pos[rows[i]] = i
  <2> HIDE DEF pos
  <2> QED BY <1>5 DEF Surjection
<1>7. ASSUME NEW i \in 1..N, NEW j \in 1..N, i < j PROVE <<rows[i], rows[j]>> \in before
  <2> HIDE DEF pos, rows
  <2>1. rows[i] # rows[j] BY <1>6, <1>7
  <2>2. ~(<<rows[j], rows[i]>> \in before)
    <3> SUFFICES ASSUME <<rows[j], rows[i]>> \in before PROVE FALSE OBVIOUS
    <3>1. pos[rows[j]] < pos[rows[i]] BY <1>3, <1>6
    <3> QED BY <1>1, <1>6, <1>7, <3>1
  <2> QED BY <1>6, <2>1, <2>2 DEF StrictOrder
<1>8. rows \in [1..N -> S]
  <2> HIDE DEF pos
  <2> QED BY <1>6
<1> HIDE DEF rows
<1> QED BY <1>7, <1>8

(* The list of a finite set in a strict order shows every member once. *)
LEMMA OrderedOnce ==
  ASSUME NEW S, IsFiniteSet(S), NEW before, StrictOrder(S, before)
  PROVE  LET rows == InOrder(S, before)
         IN  /\ rows \in Seq(S) /\ Len(rows) = Cardinality(S)
             /\ ToSet(rows) = S
<1> DEFINE N == Cardinality(S)
           rows == InOrder(S, before)
<1>1. N \in Nat BY FS_CardinalityType
<1>2. /\ rows \in [1..N -> S]
      /\ \A i, j \in 1..N : i < j => <<rows[i], rows[j]>> \in before
  BY OrderExists DEF InOrder
<1> HIDE DEF rows, N
<1>3. rows \in Injection(1..N, S)
  <2>1. \A i \in 1..N, j \in 1..N : rows[i] = rows[j] => i = j
    <3> SUFFICES ASSUME NEW i \in 1..N, NEW j \in 1..N, rows[i] = rows[j], i # j PROVE FALSE
      OBVIOUS
    <3>1. i < j \/ j < i BY <1>1
    <3>2. <<rows[i], rows[i]>> \in before BY <1>2, <3>1
    <3> QED BY <1>2, <3>2 DEF StrictOrder
  <2> QED BY <1>2, <2>1 DEF Injection, IsInjective
<1>4. Cardinality(1..N) = N BY <1>1, FS_Interval
<1>5. rows \in Surjection(1..N, S) BY <1>3, <1>4, FS_Injection DEF N
<1>6. DOMAIN rows = 1..N /\ rows \in Seq(S) /\ Len(rows) = N
  BY <1>1, <1>2
<1>7. ToSet(rows) = {rows[i] : i \in DOMAIN rows} BY DEF ToSet
<1>8. ToSet(rows) = S BY <1>2, <1>5, <1>6, <1>7 DEF Surjection
<1> QED BY <1>6, <1>8 DEF rows, N

(* Parts of one shelf have different ids. *)
DifferentIds(S) ==
    /\ \A p \in S : p.id \in Int
    /\ \A p \in S, q \in S : p.id = q.id => p = q
LEMMA IdsAreOrdered ==
  ASSUME NEW S, IsFiniteSet(S), DifferentIds(S)
  PROVE  /\ ById(S) \in Seq(S) /\ Len(ById(S)) = Cardinality(S)
         /\ ToSet(ById(S)) = S
<1> DEFINE before == {pair \in S \X S : pair[1].id < pair[2].id}
<1>1. \A p \in S, q \in S : <<p, q>> \in before <=> p.id < q.id OBVIOUS
<1> HIDE DEF before
<1>2. StrictOrder(S, before) BY <1>1 DEF StrictOrder, DifferentIds
<1> QED BY <1>2, OrderedOnce DEF ById, before

(* Fractions are ordered by their cross products. *)
LEMMA CrossProducts ==
  ASSUME NEW a \in Int, NEW c \in Int, NEW e \in Int,
         NEW b \in Nat \ {0}, NEW d \in Nat \ {0}, NEW k \in Nat \ {0},
         a * d <= c * b, c * k <= e * d
  PROVE  /\ a * k <= e * b
         /\ a * d < c * b \/ c * k < e * d => a * k < e * b
<1>1. a * d \in Int /\ c * b \in Int /\ c * k \in Int /\ e * d \in Int /\ a * k \in Int /\ e * b \in Int
  OBVIOUS
<1>2. \A x \in Int, y \in Int, n \in Nat \ {0} : x <= y => x * n <= y * n
  <2> SUFFICES ASSUME NEW x \in Int, NEW y \in Int, NEW n \in Nat \ {0}, x <= y
               PROVE  x * n <= y * n
    OBVIOUS
  <2>1. ~(y < x) OBVIOUS
  <2>2. ~(y * n < x * n) BY <2>1, ProductsKeepOrder
  <2>3. x * n \in Int /\ y * n \in Int OBVIOUS
  <2> QED BY <2>2, <2>3
<1>3. (a * d) * k <= (c * b) * k /\ (c * k) * b <= (e * d) * b BY <1>1, <1>2
<1>4. /\ (a * d) * k = (a * k) * d /\ (e * d) * b = (e * b) * d /\ (c * b) * k = (c * k) * b
      /\ (a * d) * k \in Int /\ (c * b) * k \in Int /\ (e * d) * b \in Int
      /\ (a * k) * d \in Int /\ (e * b) * d \in Int
  OBVIOUS
<1>5. (a * k) * d <= (e * b) * d BY <1>3, <1>4
<1>6. ~(e * b < a * k) BY <1>1, <1>4, <1>5, ProductsKeepOrder
<1>7. ASSUME a * d < c * b \/ c * k < e * d PROVE a * k < e * b
  <2>1. (a * d) * k < (c * b) * k \/ (c * k) * b < (e * d) * b
    BY <1>1, <1>7, ProductsKeepOrder
  <2>2. (a * k) * d < (e * b) * d BY <1>3, <1>4, <2>1
  <2> QED BY <1>1, <2>2, ProductsKeepOrder
<1> QED BY <1>1, <1>6, <1>7

Fractions == Int \X (Nat \ {0})
LEMMA GapsAreOrdered ==
  ASSUME NEW f \in Fractions, NEW g \in Fractions, NEW h \in Fractions
  PROVE  /\ ~LessGap(f, f)
         /\ ~(LessGap(f, g) /\ LessGap(g, f))
         /\ LessGap(f, g) /\ ~LessGap(h, g) => LessGap(f, h)
         /\ ~LessGap(g, f) /\ LessGap(g, h) => LessGap(f, h)
         /\ ~LessGap(g, f) /\ ~LessGap(h, g) => ~LessGap(h, f)
<1>1. /\ f[1] \in Int /\ g[1] \in Int /\ h[1] \in Int
      /\ f[2] \in Nat \ {0} /\ g[2] \in Nat \ {0} /\ h[2] \in Nat \ {0}
  BY DEF Fractions
<1>2. /\ f[1] * g[2] \in Int /\ g[1] * f[2] \in Int /\ g[1] * h[2] \in Int
      /\ h[1] * g[2] \in Int /\ f[1] * h[2] \in Int /\ h[1] * f[2] \in Int /\ f[1] * f[2] \in Int
  BY <1>1
<1>3. /\ LessGap(f, g) <=> f[1] * g[2] < g[1] * f[2]
      /\ LessGap(g, f) <=> g[1] * f[2] < f[1] * g[2]
      /\ LessGap(g, h) <=> g[1] * h[2] < h[1] * g[2]
      /\ LessGap(h, g) <=> h[1] * g[2] < g[1] * h[2]
      /\ LessGap(f, h) <=> f[1] * h[2] < h[1] * f[2]
      /\ LessGap(h, f) <=> h[1] * f[2] < f[1] * h[2]
      /\ LessGap(f, f) <=> f[1] * f[2] < f[1] * f[2]
  BY DEF LessGap
<1>4. f[1] * g[2] <= g[1] * f[2] /\ g[1] * h[2] <= h[1] * g[2] =>
        /\ f[1] * h[2] <= h[1] * f[2]
        /\ f[1] * g[2] < g[1] * f[2] \/ g[1] * h[2] < h[1] * g[2] => f[1] * h[2] < h[1] * f[2]
  BY <1>1, CrossProducts
<1> DEFINE fg == f[1] * g[2]
           gf == g[1] * f[2]
           gh == g[1] * h[2]
           hg == h[1] * g[2]
           fh == f[1] * h[2]
           hf == h[1] * f[2]
           ff == f[1] * f[2]
<1> HIDE DEF fg, gf, gh, hg, fh, hf, ff
<1>5. /\ fg \in Int /\ gf \in Int /\ gh \in Int /\ hg \in Int /\ fh \in Int /\ hf \in Int /\ ff \in Int
      /\ LessGap(f, g) <=> fg < gf
      /\ LessGap(g, f) <=> gf < fg
      /\ LessGap(g, h) <=> gh < hg
      /\ LessGap(h, g) <=> hg < gh
      /\ LessGap(f, h) <=> fh < hf
      /\ LessGap(h, f) <=> hf < fh
      /\ LessGap(f, f) <=> ff < ff
      /\ fg <= gf /\ gh <= hg => fh <= hf /\ (fg < gf \/ gh < hg => fh < hf)
  BY <1>2, <1>3, <1>4 DEF fg, gf, gh, hg, fh, hf, ff
<1> QED BY <1>5

(* Parts of one shelf are in a strict order of distance, the same distance   *)
(* by id.                                                                    *)
LEMMA NearerIsAnOrder ==
  ASSUME NEW S, DifferentIds(S), NEW gap, \A p \in S : gap[p] \in Fractions
  PROVE  /\ \A p \in S : ~Nearer(gap, p, p)
         /\ \A p \in S, q \in S : p # q => Nearer(gap, p, q) \/ Nearer(gap, q, p)
         /\ \A p \in S, q \in S, r \in S :
               Nearer(gap, p, q) /\ Nearer(gap, q, r) => Nearer(gap, p, r)
<1>1. \A p \in S : p.id \in Int BY DEF DifferentIds
<1>2. ASSUME NEW p \in S PROVE ~Nearer(gap, p, p)
  BY <1>1, GapsAreOrdered DEF Nearer
<1>3. ASSUME NEW p \in S, NEW q \in S, p # q PROVE Nearer(gap, p, q) \/ Nearer(gap, q, p)
  <2>1. p.id < q.id \/ q.id < p.id BY <1>1, <1>3 DEF DifferentIds
  <2> QED BY <2>1 DEF Nearer
<1>4. ASSUME NEW p \in S, NEW q \in S, NEW r \in S, Nearer(gap, p, q), Nearer(gap, q, r)
      PROVE  Nearer(gap, p, r)
  <2>1. p.id \in Int /\ q.id \in Int /\ r.id \in Int BY <1>1
  <2>2. gap[p] \in Fractions /\ gap[q] \in Fractions /\ gap[r] \in Fractions OBVIOUS
  <2>3. LessGap(gap[p], gap[q]) /\ ~LessGap(gap[r], gap[q]) => LessGap(gap[p], gap[r])
    BY <2>2, GapsAreOrdered
  <2>4. ~LessGap(gap[q], gap[p]) /\ LessGap(gap[q], gap[r]) => LessGap(gap[p], gap[r])
    BY <2>2, GapsAreOrdered
  <2>5. ~LessGap(gap[q], gap[p]) /\ ~LessGap(gap[r], gap[q]) => ~LessGap(gap[r], gap[p])
    BY <2>2, GapsAreOrdered
  <2>6. ~(LessGap(gap[p], gap[q]) /\ LessGap(gap[q], gap[p]))
        /\ ~(LessGap(gap[q], gap[r]) /\ LessGap(gap[r], gap[q]))
    BY <2>2, GapsAreOrdered
  <2> QED BY <1>4, <2>1, <2>3, <2>4, <2>5, <2>6 DEF Nearer
<1> QED BY <1>2, <1>3, <1>4

LEMMA NearestAreOrdered ==
  ASSUME NEW S, IsFiniteSet(S), DifferentIds(S), NEW gap, \A p \in S : gap[p] \in Fractions
  PROVE  /\ Nearest(S, gap) \in Seq(S) /\ Len(Nearest(S, gap)) = Cardinality(S)
         /\ ToSet(Nearest(S, gap)) = S
<1> DEFINE before == {pair \in S \X S : Nearer(gap, pair[1], pair[2])}
<1>1. \A p \in S, q \in S : <<p, q>> \in before <=> Nearer(gap, p, q) OBVIOUS
<1> HIDE DEF before
<1>2. StrictOrder(S, before) BY <1>1, NearerIsAnOrder DEF StrictOrder
<1> QED BY <1>2, OrderedOnce DEF Nearest, before

(* Ranks are compared number by number. *)
Ranks == Int \X Int \X Int
LEMMA RanksAreOrdered ==
  ASSUME NEW r \in Ranks, NEW s \in Ranks, NEW t \in Ranks
  PROVE  /\ ~LessRank(r, r)
         /\ r # s => LessRank(r, s) \/ LessRank(s, r)
         /\ LessRank(r, s) /\ LessRank(s, t) => LessRank(r, t)
<1>1. \A x \in Ranks : x[1] \in Int /\ x[2] \in Int /\ x[3] \in Int /\ x = <<x[1], x[2], x[3]>>
  BY DEF Ranks
<1>2. \A x \in Ranks, y \in Ranks :
        LessRank(x, y) <=> \/ x[1] < y[1]
                           \/ x[1] = y[1] /\ x[2] < y[2]
                           \/ x[1] = y[1] /\ x[2] = y[2] /\ x[3] < y[3]
  <2> SUFFICES ASSUME NEW x \in Ranks, NEW y \in Ranks
               PROVE  LessRank(x, y) <=> \/ x[1] < y[1]
                                         \/ x[1] = y[1] /\ x[2] < y[2]
                                         \/ x[1] = y[1] /\ x[2] = y[2] /\ x[3] < y[3]
    OBVIOUS
  <2>1. 1..3 = {1, 2, 3} /\ 1..(1 - 1) = {} /\ 1..(2 - 1) = {1} /\ 1..(3 - 1) = {1, 2} OBVIOUS
  <2> QED BY <2>1 DEF LessRank
<1> QED BY <1>1, <1>2

LEMMA RankedAreOrdered ==
  ASSUME NEW S, IsFiniteSet(S), DifferentIds(S), NEW rank, \A p \in S : rank[p] \in Ranks,
         NEW shortfall, \A p \in S : shortfall[p] \in Fractions
  PROVE  /\ Ranked(S, rank, shortfall) \in Seq(S)
         /\ Len(Ranked(S, rank, shortfall)) = Cardinality(S)
         /\ ToSet(Ranked(S, rank, shortfall)) = S
<1> DEFINE before == {pair \in S \X S :
                        \/ LessRank(rank[pair[1]], rank[pair[2]])
                        \/ /\ rank[pair[1]] = rank[pair[2]]
                           /\ Nearer(shortfall, pair[1], pair[2])}
<1>1. \A p \in S, q \in S :
         <<p, q>> \in before <=>
            (LessRank(rank[p], rank[q]) \/ (rank[p] = rank[q] /\ Nearer(shortfall, p, q)))
  OBVIOUS
<1> HIDE DEF before
<1>2. \A p \in S : <<p, p>> \notin before BY <1>1, RanksAreOrdered, NearerIsAnOrder
<1>3. ASSUME NEW p \in S, NEW q \in S, p # q PROVE <<p, q>> \in before \/ <<q, p>> \in before
  <2>1. rank[p] # rank[q] => LessRank(rank[p], rank[q]) \/ LessRank(rank[q], rank[p])
    BY RanksAreOrdered
  <2>2. Nearer(shortfall, p, q) \/ Nearer(shortfall, q, p) BY <1>3, NearerIsAnOrder
  <2> QED BY <1>1, <2>1, <2>2
<1>4. ASSUME NEW p \in S, NEW q \in S, NEW r \in S, <<p, q>> \in before, <<q, r>> \in before
      PROVE  <<p, r>> \in before
  <2>1. LessRank(rank[p], rank[q]) /\ LessRank(rank[q], rank[r]) => LessRank(rank[p], rank[r])
    BY RanksAreOrdered
  <2>2. Nearer(shortfall, p, q) /\ Nearer(shortfall, q, r) => Nearer(shortfall, p, r)
    BY NearerIsAnOrder
  <2> QED BY <1>1, <1>4, <2>1, <2>2
<1>5. StrictOrder(S, before) BY <1>2, <1>3, <1>4 DEF StrictOrder
<1> QED BY <1>5, OrderedOnce DEF Ranked, before

-----------------------------------------------------------------------------
(* Pages.                                                                    *)

LEMMA LesserOfTwo ==
  ASSUME NEW a \in Int, NEW b \in Int
  PROVE  Min({a, b}) = IF a <= b THEN a ELSE b
BY DEF Min

(* A page and the rest behind it are the rest from its offset on. *)
LEMMA PageAndRest ==
  ASSUME NEW S, NEW rows \in Seq(S), NEW longest \in Nat, Len(rows) <= longest,
         NEW limit \in Nat \ {0}, NEW offset \in Nat
  PROVE  Page(rows, limit, offset)
            \o (IF NextOffset(longest, limit, offset) = 0 THEN <<>>
                ELSE SubSeq(rows, NextOffset(longest, limit, offset) + 1, Len(rows)))
         = SubSeq(rows, offset + 1, Len(rows))
<1> DEFINE Rest(o) == SubSeq(rows, o + 1, Len(rows))
           next == NextOffset(longest, limit, offset)
<1>1. Len(rows) \in Nat /\ \A i \in 1..Len(rows) : rows[i] \in S BY LenProperties, ElementOfSeq
<1>2. Rest(offset) \in Seq(S) BY <1>1, SubSeqProperties
<1>3. Page(rows, limit, offset) =
        SubSeq(rows, offset + 1, IF offset + limit <= Len(rows) THEN offset + limit ELSE Len(rows))
  <2>1. Min({offset + limit, Len(rows)}) = IF offset + limit <= Len(rows) THEN offset + limit ELSE Len(rows)
    BY <1>1, LesserOfTwo
  <2> QED BY <2>1 DEF Page
<1>4. CASE offset + limit <= Len(rows) /\ offset + limit < longest
  <2>1. next = offset + limit /\ next # 0 BY <1>4 DEF NextOffset
  <2>2. offset + 1 \in 1..(Len(rows) + 1) /\ offset + limit \in (offset + 1 - 1)..Len(rows)
        /\ Len(rows) \in (offset + limit)..Len(rows)
    BY <1>1, <1>4
  <2>3. SubSeq(rows, offset + 1, offset + limit) \o SubSeq(rows, offset + limit + 1, Len(rows))
          = SubSeq(rows, offset + 1, Len(rows))
    <3> DEFINE m == offset + 1
               k == offset + limit
    <3>1. m \in 1..(Len(rows) + 1) /\ k \in (m - 1)..Len(rows) /\ Len(rows) \in k..Len(rows) BY <2>2
    <3> HIDE DEF m, k
    <3>2. SubSeq(rows, m, k) \o SubSeq(rows, k + 1, Len(rows)) = SubSeq(rows, m, Len(rows))
      BY <3>1, ConcatAdjacentSubSeq
    <3> QED BY <3>2 DEF m, k
  <2> QED BY <1>3, <1>4, <2>1, <2>3
<1>5. CASE ~(offset + limit <= Len(rows)) /\ offset + limit < longest
  <2>1. next = offset + limit /\ next # 0 BY <1>5 DEF NextOffset
  <2>2. Rest(next) = <<>>
    <3>1. next + 1 \in Int /\ Len(rows) < next + 1 BY <1>1, <1>5, <2>1
    <3> QED BY <1>1, <3>1, SubSeqEmpty
  <2>3. Page(rows, limit, offset) = Rest(offset) BY <1>3, <1>5
  <2> QED BY <1>2, <2>1, <2>2, <2>3, ConcatEmptySeq
<1>6. CASE ~(offset + limit < longest)
  <2>1. next = 0 BY <1>6 DEF NextOffset
  <2>2. ~(offset + limit <= Len(rows)) \/ offset + limit = Len(rows) BY <1>1, <1>6
  <2>3. Page(rows, limit, offset) = Rest(offset) BY <1>3, <2>2
  <2> QED BY <1>2, <2>1, <2>3, ConcatEmptySeq
<1> QED BY <1>4, <1>5, <1>6

(* Following the offsets shows a list from its first member to its last.     *)
Lists(pages, most, name, rows, longest, limit) ==
    /\ DOMAIN pages = 0..most
    /\ \A o \in 0..most : /\ pages[o][name] = Page(rows, limit, o)
                         /\ pages[o].next = NextOffset(longest, limit, o)
LEMMA PagesShowList ==
  ASSUME NEW most \in Nat, NEW S, NEW rows \in Seq(S), NEW longest \in 0..most,
         Len(rows) <= longest, NEW limit \in Nat \ {0}, NEW name, NEW pages,
         Lists(pages, most, name, rows, longest, limit)
  PROVE  Shown(pages, name) = rows
<1> DEFINE Body(f, o) ==
             pages[o][name] \o (IF pages[o].next = 0 THEN <<>> ELSE f[pages[o].next])
           from == CHOOSE f : f = [o \in 0..most |-> Body(f, o)]
           rest == [o \in 0..most |-> SubSeq(rows, o + 1, Len(rows))]
<1>0. /\ DOMAIN pages = 0..most
      /\ \A o \in 0..most : /\ pages[o][name] = Page(rows, limit, o)
                           /\ pages[o].next = NextOffset(longest, limit, o)
  BY DEF Lists
<1>1. ASSUME NEW o \in 0..most
      PROVE  pages[o].next = 0 \/ (pages[o].next \in 0..most /\ pages[o].next > o)
  BY <1>0 DEF NextOffset
<1>2. ASSUME NEW o \in 0..most PROVE rest[o] = Body(rest, o)
  <2>1. longest \in Nat /\ o \in Nat OBVIOUS
  <2>2. pages[o].next # 0 => rest[pages[o].next] = SubSeq(rows, pages[o].next + 1, Len(rows)) BY <1>1
  <2>3. pages[o][name] \o (IF pages[o].next = 0 THEN <<>>
                           ELSE SubSeq(rows, pages[o].next + 1, Len(rows))) = rest[o]
    <3>1. Page(rows, limit, o)
            \o (IF NextOffset(longest, limit, o) = 0 THEN <<>>
                ELSE SubSeq(rows, NextOffset(longest, limit, o) + 1, Len(rows)))
          = SubSeq(rows, o + 1, Len(rows))
      BY <2>1, PageAndRest
    <3>2. pages[o][name] = Page(rows, limit, o) /\ pages[o].next = NextOffset(longest, limit, o)
      BY <1>0
    <3>3. rest[o] = SubSeq(rows, o + 1, Len(rows)) OBVIOUS
    <3> HIDE DEF rest
    <3> QED BY <3>1, <3>2, <3>3
  <2> HIDE DEF rest
  <2> QED BY <2>2, <2>3
<1>3. rest = [o \in 0..most |-> Body(rest, o)]
  <2>1. rest = [o \in 0..most |-> rest[o]] OBVIOUS
  <2> HIDE DEF rest, Body
  <2> QED BY <1>2, <2>1
<1>4. from = [o \in 0..most |-> Body(from, o)]
  <2> HIDE DEF rest, Body
  <2> QED BY <1>3
<1> HIDE DEF from
<1>5. \A o \in 0..most : from[o] = Body(from, o)
  <2> HIDE DEF Body
  <2> QED BY <1>4
<1>6. ASSUME NEW o \in 0..most, from[o] # rest[o] PROVE FALSE
  <2> DEFINE Bad == {k \in 0..most : from[k] # rest[k]}
  <2>1. Bad \in SUBSET (0..most) /\ Bad # {} BY <1>6
  <2> HIDE DEF rest, Body
  <2>2. Max(Bad) \in Bad /\ \A n \in Bad : n <= Max(Bad)
    <3> HIDE DEF Bad
    <3> QED BY <2>1, MaxOfBounded
  <2> DEFINE k == Max(Bad)
  <2>3. k \in 0..most /\ from[k] # rest[k] BY <2>2
  <2>4. \A n \in 0..most : n > k => from[n] = rest[n]
    <3> HIDE DEF k
    <3> SUFFICES ASSUME NEW n \in 0..most, n > k, from[n] # rest[n] PROVE FALSE OBVIOUS
    <3>1. n \in Bad OBVIOUS
    <3>2. n <= k BY <2>2, <3>1 DEF k
    <3> QED BY <2>3, <3>2
  <2> HIDE DEF k, Bad
  <2>5. pages[k].next # 0 => from[pages[k].next] = rest[pages[k].next] BY <1>1, <2>3, <2>4
  <2>6. Body(from, k) = Body(rest, k) BY <2>5 DEF Body
  <2> QED BY <1>2, <1>5, <2>3, <2>6
<1>7. Shown(pages, name) = from[0]
  BY <1>0 DEF Shown, from
<1>8. from[0] = SubSeq(rows, 1, Len(rows))
  <2>1. 0 \in 0..most OBVIOUS
  <2>2. rest[0] = SubSeq(rows, 1, Len(rows)) BY <2>1
  <2> QED BY <1>6, <2>1, <2>2
<1> QED BY <1>7, <1>8, SubSeqFull

(* The length of the longest of several lists. *)
LEMMA LongestBounds ==
  ASSUME NEW most \in Nat, NEW lists, NEW n \in Nat \ {0}, DOMAIN lists = 1..n,
         \A i \in 1..n : Len(lists[i]) \in 0..most
  PROVE  Longest(lists) \in 0..most /\ \A i \in 1..n : Len(lists[i]) <= Longest(lists)
<1> DEFINE S == {Len(lists[i]) : i \in 1..n}
<1>1. S \in SUBSET (0..most) OBVIOUS
<1>2. 1 \in 1..n OBVIOUS
<1>3. S # {} BY <1>2
<1>4. Longest(lists) = Max(S) BY DEF Longest
<1>5. Max(S) \in S /\ \A k \in S : k <= Max(S)
  <2> HIDE DEF S
  <2> QED BY <1>1, <1>3, MaxOfBounded
<1>6. Max(S) \in 0..most BY <1>1, <1>5
<1> QED BY <1>4, <1>5, <1>6

-----------------------------------------------------------------------------
(* Distances are fractions.                                                  *)

LEMMA RelativeGapIsFraction ==
  ASSUME NEW left \in Int \X Int, NEW right \in Int \X Int, NEW comparison
  PROVE  RelativeGap(left, right, comparison) \in Fractions
<1>1. left[1] \in Int /\ left[2] \in Int /\ right[1] \in Int /\ right[2] \in Int OBVIOUS
<1>2. \A a \in Int : Magnitude(a) \in Nat BY DEF Magnitude
<1>3. \A a \in Int, b \in Int : Larger(a, b) \in Int BY DEF Larger
<1>4. \A a \in Nat, b \in Nat : Larger(a, b) \in Nat BY DEF Larger
<1>5. \A a \in Int : Larger(0, a) \in Int BY <1>3
<1> DEFINE gap == CASE comparison = "gte" -> right[2] - left[2]
                    [] comparison = "lte" -> left[1] - right[1]
                    [] OTHER -> Larger(right[1] - left[2], left[1] - right[2])
           scale == Larger(Larger(Magnitude(left[1]), Magnitude(left[2])),
                           Larger(Magnitude(right[1]), Magnitude(right[2])))
<1>6. gap \in Int BY <1>1, <1>3
<1>7. scale \in Nat BY <1>1, <1>2, <1>4
<1>8. RelativeGap(left, right, comparison) = IF scale = 0 THEN <<0, 1>> ELSE <<Larger(0, gap), scale>>
  BY DEF RelativeGap
<1> HIDE DEF gap, scale
<1> QED BY <1>5, <1>6, <1>7, <1>8 DEF Fractions

LEMMA SumIsFraction ==
  ASSUME NEW f \in Fractions, NEW g \in Fractions
  PROVE  PlusGap(f, g) \in Fractions
<1>1. f[1] \in Int /\ g[1] \in Int /\ f[2] \in Nat \ {0} /\ g[2] \in Nat \ {0} BY DEF Fractions
<1>2. \A a \in Int, b \in Int : a * b \in Int OBVIOUS
<1>3. ASSUME NEW a \in Nat \ {0}, NEW b \in Nat \ {0} PROVE a * b \in Nat \ {0}
  <2>1. 0 * b < a * b BY ProductsKeepOrder
  <2>2. 0 * b = 0 /\ a * b \in Int OBVIOUS
  <2> QED BY <2>1, <2>2
<1>4. f[2] * g[2] \in Nat \ {0} BY <1>1, <1>3
<1>5. f[1] * g[2] + g[1] * f[2] \in Int BY <1>1, <1>2
<1> QED BY <1>4, <1>5 DEF PlusGap, Fractions

(* The members of a finite set are added one after the other.  A sum over    *)
(* the subsets of a set is determined by its recursion, on a smaller set as  *)
(* on a larger one.                                                          *)
Picked(s) == CHOOSE i \in s : TRUE
Adding(d, base, it, s) ==
    IF s = {} THEN base ELSE PlusGap(d[Picked(s)], it[s \ {Picked(s)}])
Adds(d, base, it, T) == it = [s \in SUBSET T |-> Adding(d, base, it, s)]

(* A property that some subset violates is violated by a smallest one. *)
LEMMA SmallestSubset ==
  ASSUME NEW S, IsFiniteSet(S), NEW Bad \in SUBSET (SUBSET S), Bad # {}
  PROVE  \E T \in Bad : \A U \in Bad : ~(U \subseteq T /\ U # T)
<1>1. IsWellFoundedOn(StrictSubsetOrdering(S), FiniteSubsetsOf(S))
  BY FS_StrictSubsetOrderingWellFounded
<1>2. FiniteSubsetsOf(S) = SUBSET S BY FS_FiniteSubsetsOfFinite
<1>3. PICK T \in Bad : \A U \in Bad : ~(<<U, T>> \in StrictSubsetOrdering(S))
  BY <1>1, <1>2, WFMin
<1>4. \A U \in Bad : U \subseteq T /\ U # T => <<U, T>> \in StrictSubsetOrdering(S)
  BY DEF StrictSubsetOrdering
<1>5. \A U \in Bad : ~(U \subseteq T /\ U # T) BY <1>3, <1>4
<1> QED BY <1>5, Zenon

LEMMA PickedIsMember == \A s : s # {} => Picked(s) \in s BY DEF Picked

LEMMA SumsAgree ==
  ASSUME NEW S, IsFiniteSet(S), NEW d, NEW base,
         NEW A \in SUBSET S, NEW B \in SUBSET S, NEW f, NEW g,
         Adds(d, base, f, A), Adds(d, base, g, B), NEW u \in SUBSET (A \cap B)
  PROVE  f[u] = g[u]
<1> DEFINE Bad == {s \in SUBSET (A \cap B) : f[s] # g[s]}
<1> SUFFICES ASSUME Bad # {} PROVE FALSE OBVIOUS
<1>1. Bad \in SUBSET (SUBSET S) OBVIOUS
<1>2. PICK T \in Bad : \A U \in Bad : ~(U \subseteq T /\ U # T)
  <2> HIDE DEF Bad
  <2> QED BY <1>1, SmallestSubset
<1>3. T \in SUBSET A /\ T \in SUBSET B /\ f[T] # g[T] OBVIOUS
<1>4. f[T] = Adding(d, base, f, T) /\ g[T] = Adding(d, base, g, T) BY <1>3 DEF Adds
<1>5. CASE T = {} BY <1>3, <1>4, <1>5 DEF Adding
<1>6. CASE T # {}
  <2>1. Picked(T) \in T BY <1>6, PickedIsMember
  <2>2. T \ {Picked(T)} \subseteq T /\ T \ {Picked(T)} # T BY <2>1
  <2>3. f[T \ {Picked(T)}] = g[T \ {Picked(T)}] BY <1>2, <1>3, <2>2
  <2> QED BY <1>3, <1>4, <1>6, <2>3 DEF Adding
<1> QED BY <1>5, <1>6

LEMMA SumsExist ==
  ASSUME NEW S, IsFiniteSet(S), NEW d, NEW base
  PROVE  \E f : Adds(d, base, f, S)
<1> DEFINE Bad == {T \in SUBSET S : ~\E f : Adds(d, base, f, T)}
<1> SUFFICES ASSUME S \in Bad PROVE FALSE OBVIOUS
<1>1. Bad \in SUBSET (SUBSET S) /\ Bad # {} OBVIOUS
<1>2. PICK T \in Bad : \A U \in Bad : ~(U \subseteq T /\ U # T)
  <2> HIDE DEF Bad
  <2> QED BY <1>1, SmallestSubset
<1> DEFINE G(s) == CHOOSE f : Adds(d, base, f, s)
           h == [s \in SUBSET T |-> IF s = {} THEN base
                                    ELSE PlusGap(d[Picked(s)], G(s \ {Picked(s)})[s \ {Picked(s)}])]
<1>3. T \in SUBSET S /\ ~\E f : Adds(d, base, f, T) OBVIOUS
<1>4. ASSUME NEW s \in SUBSET T, s # T PROVE Adds(d, base, G(s), s)
  <2>1. s \notin Bad BY <1>2, <1>4
  <2>2. \E f : Adds(d, base, f, s) BY <1>3, <2>1
  <2> QED BY <2>2
<1>5. ASSUME NEW r \in SUBSET T, r # T PROVE h[r] = G(r)[r]
  <2>1. G(r)[r] = Adding(d, base, G(r), r)
    <3>1. Adds(d, base, G(r), r) BY <1>4, <1>5
    <3>2. r \in SUBSET r OBVIOUS
    <3> HIDE DEF G
    <3> QED BY <3>1, <3>2 DEF Adds
  <2>2. CASE r = {} BY <2>1, <2>2 DEF Adding
  <2>3. CASE r # {}
    <3> DEFINE q == r \ {Picked(r)}
    <3>1. Picked(r) \in r BY <2>3, PickedIsMember
    <3>2. q \in SUBSET T /\ q # T /\ q \in SUBSET r BY <3>1, <1>5
    <3>3. Adds(d, base, G(q), q) /\ Adds(d, base, G(r), r) BY <1>4, <1>5, <3>2
    <3>4. q \in SUBSET S /\ r \in SUBSET S /\ q \in SUBSET (r \cap q) BY <1>3, <3>2
    <3>5. G(r)[q] = G(q)[q]
      <4> HIDE DEF G, q
      <4> QED BY <3>3, <3>4, SumsAgree
    <3>6. h[r] = PlusGap(d[Picked(r)], G(q)[q]) BY <2>3
    <3>7. G(r)[r] = PlusGap(d[Picked(r)], G(r)[q]) BY <2>1, <2>3 DEF Adding
    <3> QED BY <3>5, <3>6, <3>7
  <2> QED BY <2>2, <2>3
<1>6. ASSUME NEW s \in SUBSET T PROVE h[s] = Adding(d, base, h, s)
  <2>1. CASE s = {} BY <2>1 DEF Adding
  <2>2. CASE s # {}
    <3>1. Picked(s) \in s BY <2>2, PickedIsMember
    <3>2. s \ {Picked(s)} \in SUBSET T /\ s \ {Picked(s)} # T BY <3>1
    <3>3. h[s \ {Picked(s)}] = G(s \ {Picked(s)})[s \ {Picked(s)}] BY <1>5, <3>2
    <3>4. h[s] = PlusGap(d[Picked(s)], G(s \ {Picked(s)})[s \ {Picked(s)}]) BY <2>2
    <3> HIDE DEF h, G
    <3> QED BY <2>2, <3>3, <3>4 DEF Adding
  <2> QED BY <2>1, <2>2
<1>7. Adds(d, base, h, T)
  <2>1. h = [s \in SUBSET T |-> h[s]] OBVIOUS
  <2> HIDE DEF h
  <2> QED BY <1>6, <2>1 DEF Adds
<1> QED BY <1>3, <1>7

LEMMA SumsAreFractions ==
  ASSUME NEW S, IsFiniteSet(S), NEW d, \A i \in S : d[i] \in Fractions,
         NEW base \in Fractions, NEW f, Adds(d, base, f, S)
  PROVE  f[S] \in Fractions
<1> DEFINE Bad == {s \in SUBSET S : f[s] \notin Fractions}
<1> SUFFICES ASSUME Bad # {} PROVE FALSE OBVIOUS
<1>1. Bad \in SUBSET (SUBSET S) OBVIOUS
<1>2. PICK T \in Bad : \A U \in Bad : ~(U \subseteq T /\ U # T)
  <2> HIDE DEF Bad
  <2> QED BY <1>1, SmallestSubset
<1>3. T \in SUBSET S /\ f[T] \notin Fractions OBVIOUS
<1>4. f[T] = Adding(d, base, f, T) BY <1>3 DEF Adds
<1>5. CASE T = {} BY <1>3, <1>4, <1>5 DEF Adding
<1>6. CASE T # {}
  <2>1. Picked(T) \in T BY <1>6, PickedIsMember
  <2>2. T \ {Picked(T)} \subseteq T /\ T \ {Picked(T)} # T BY <2>1
  <2>3. f[T \ {Picked(T)}] \in Fractions BY <1>2, <1>3, <2>2
  <2>4. d[Picked(T)] \in Fractions BY <1>3, <2>1
  <2>5. PlusGap(d[Picked(T)], f[T \ {Picked(T)}]) \in Fractions BY <2>3, <2>4, SumIsFraction
  <2> QED BY <1>3, <1>4, <1>6, <2>5 DEF Adding
<1> QED BY <1>5, <1>6

-----------------------------------------------------------------------------
(* Notations of a value.                                                     *)

LEMMA EmptyIsNoName ==
  /\ Empty \notin BaseUnits /\ Empty \notin SpelledOhms
  /\ Empty \notin {"R", "r", "K", "k", "M", "m", "G", "g", "P", "p", "N", "n", "U", "u"}
  /\ Empty \notin {"a", "A", "v", "V", "w", "W", "f", "F", "h", "H", "hz", "Hz", "HZ"}
BY Zenon DEF Empty, BaseUnits, SpelledOhms

LEMMA RestoredUnits ==
  /\ DOMAIN Restored = {"a", "A", "v", "V", "w", "W", "f", "F", "h", "H", "hz", "Hz", "HZ"}
  /\ Restored["a"] = "A" /\ Restored["A"] = "A" /\ Restored["v"] = "V" /\ Restored["V"] = "V"
  /\ Restored["w"] = "W" /\ Restored["W"] = "W" /\ Restored["f"] = "F" /\ Restored["F"] = "F"
  /\ Restored["h"] = "H" /\ Restored["H"] = "H" /\ Restored["hz"] = "Hz" /\ Restored["Hz"] = "Hz"
  /\ Restored["HZ"] = "Hz"
BY DEF Restored

KnownUnits == {"Ohm", "F", "H", "A", "V", "W", "Hz"}
LEMMA UnitsOfCategories == ASSUME NEW category PROVE CategoryUnit(category) \in KnownUnits \cup {Empty}
BY DEF CategoryUnit, KnownUnits

(* Which unit and prefix an explicit notation reads. *)
ReadUnit(t) ==
    IF t.unit = Empty /\ t.letter = "m" THEN "m"
    ELSE Symbol(IF t.unit \in DOMAIN Restored THEN Restored[t.unit] ELSE t.unit)
ReadPrefix(t) == IF t.unit = Empty /\ t.letter = "m" THEN Empty ELSE t.letter
Reads(t, candidates) ==
    /\ ~t.infix /\ ReadUnit(t) \in candidates /\ ReadPrefix(t) \in SIPrefixes
    /\ ReadUnit(t) \in Prefixless => ReadPrefix(t) = Empty
LEMMA ExplicitReads ==
  ASSUME NEW t, t.infix \in BOOLEAN, NEW candidates, Empty \notin candidates
  PROVE  Explicit(t, candidates) =
            IF Reads(t, candidates) THEN Quantity(t, ReadPrefix(t), ReadUnit(t)) ELSE Nothing
<1> DEFINE unit == IF t.unit \in DOMAIN Restored THEN Restored[t.unit] ELSE t.unit
           q == IF t.unit = Empty /\ t.letter = "m" THEN Qty(t.n, Empty, "m") ELSE Qty(t.n, t.letter, unit)
           known == {c \in candidates : IsQuantity(q, c)}
<1>1. Symbol("m") = "m" BY DEF Symbol
<1>2. Symbol(q.unit) = ReadUnit(t) /\ q.prefix = ReadPrefix(t)
  BY <1>1 DEF Qty, ReadUnit, ReadPrefix
<1>3. Symbol(Empty) = Empty BY EmptyIsNoName DEF Symbol, SpelledOhms
<1>4. Explicit(t, candidates) =
        IF t.infix \/ known = {} THEN Nothing ELSE Quantity(t, q.prefix, CHOOSE c \in known : TRUE)
  BY DEF Explicit
<1> HIDE DEF q, unit
<1>5. \A c \in candidates : IsQuantity(q, c) <=>
         /\ c = ReadUnit(t) /\ ReadPrefix(t) \in SIPrefixes
         /\ ReadUnit(t) \in Prefixless => ReadPrefix(t) = Empty
  BY <1>2, <1>3 DEF IsQuantity
<1>6. CASE Reads(t, candidates)
  <2>1. known = {ReadUnit(t)} BY <1>5, <1>6 DEF Reads
  <2>2. (CHOOSE c \in known : TRUE) = ReadUnit(t)
    <3> HIDE DEF known
    <3> QED BY <2>1
  <2> HIDE DEF known
  <2> QED BY <1>2, <1>4, <1>6, <2>1, <2>2 DEF Reads
<1>7. CASE ~Reads(t, candidates)
  <2>1. t.infix \/ known = {} BY <1>5, <1>7 DEF Reads
  <2> HIDE DEF known
  <2> QED BY <1>4, <1>7, <2>1
<1> QED BY <1>6, <1>7

(* A quantity has the unit that was asked for, or some base unit.            *)
LEMMA ParsedForm ==
  ASSUME NEW t \in Texts, NEW u \in BaseUnits \cup {Empty}, ParseNominal(t, u) # Nothing
  PROVE  \E prefix \in SIPrefixes, unit \in BaseUnits :
            ParseNominal(t, u) = Quantity(t, prefix, unit) /\ (u # Empty => unit = u)
<1>1. Empty \in SIPrefixes /\ "Ohm" \in BaseUnits BY DEF SIPrefixes, BaseUnits
<1>2. ASSUME NEW C \in SUBSET BaseUnits, Explicit(t, C) # Nothing
      PROVE  \E prefix \in SIPrefixes, unit \in C : Explicit(t, C) = Quantity(t, prefix, unit)
  <2>1. t.infix \in BOOLEAN /\ Empty \notin C BY EmptyIsNoName DEF Texts
  <2>2. Reads(t, C) /\ Explicit(t, C) = Quantity(t, ReadPrefix(t), ReadUnit(t))
    BY <1>2, <2>1, ExplicitReads
  <2> QED BY <2>2 DEF Reads
<1>3. ASSUME Shorthand(t, u) # Nothing
      PROVE  \E prefix \in SIPrefixes : Shorthand(t, u) = Quantity(t, prefix, u) /\ u # Empty
  <2>1. CASE u = "Ohm" /\ OhmShorthand(t)
    <3>1. OhmPrefix(Lowered(t.letter)) \in SIPrefixes BY DEF OhmPrefix, SIPrefixes
    <3> QED BY <2>1, <3>1, EmptyIsNoName DEF Shorthand, BaseUnits
  <2>2. CASE u \in {"F", "H"} /\ PassiveShorthand(t, u)
    <3>1. (IF t.letter = "M" THEN "M" ELSE Lowered(t.letter)) \in SIPrefixes
      BY <2>2 DEF PassiveShorthand, PassiveLetters, Lowered, SIPrefixes
    <3>2. u # "Ohm" /\ u # Empty BY <2>2, EmptyIsNoName
    <3> QED BY <2>2, <3>1, <3>2 DEF Shorthand
  <2>3. CASE ~(u = "Ohm" /\ OhmShorthand(t)) /\ ~(u \in {"F", "H"} /\ PassiveShorthand(t, u))
    BY <1>3, <2>3 DEF Shorthand
  <2> QED BY <2>1, <2>2, <2>3
<1>4. CASE u # Empty /\ t.letter = Empty /\ t.unit = Empty
  BY <1>1, <1>4 DEF ParseNominal
<1>5. CASE ~(u # Empty /\ t.letter = Empty /\ t.unit = Empty) /\ Shorthand(t, u) # Nothing
  <2>1. ParseNominal(t, u) = Shorthand(t, u) BY <1>5 DEF ParseNominal
  <2> QED BY <1>3, <1>5, <2>1
<1>6. CASE /\ ~(u # Empty /\ t.letter = Empty /\ t.unit = Empty) /\ Shorthand(t, u) = Nothing
           /\ u = Empty /\ t.sign = Empty /\ Lowered(t.letter) = "r" /\ t.unit = Empty /\ ~t.infix
  <2>1. ParseNominal(t, u) = Quantity(t, Empty, "Ohm") BY <1>6 DEF ParseNominal
  <2> QED BY <1>1, <1>6, <2>1
<1>7. CASE /\ ~(u # Empty /\ t.letter = Empty /\ t.unit = Empty) /\ Shorthand(t, u) = Nothing
           /\ ~(u = Empty /\ t.sign = Empty /\ Lowered(t.letter) = "r" /\ t.unit = Empty /\ ~t.infix)
  <2>1. ParseNominal(t, u) = Explicit(t, IF u # Empty THEN {u} ELSE BaseUnits)
    BY <1>7 DEF ParseNominal
  <2>2. CASE u # Empty
    <3>1. {u} \in SUBSET BaseUnits BY <2>2
    <3> QED BY <1>2, <2>1, <2>2, <3>1
  <2>3. CASE u = Empty
    <3>1. BaseUnits \in SUBSET BaseUnits OBVIOUS
    <3> QED BY <1>2, <2>1, <2>3, <3>1
  <2> QED BY <2>2, <2>3
<1> QED BY <1>4, <1>5, <1>6, <1>7

LEMMA QuantityIsSome ==
  ASSUME NEW t \in Texts, NEW prefix \in SIPrefixes, NEW unit, unit # Empty
  PROVE  /\ Quantity(t, prefix, unit) # Nothing
         /\ Quantity(t, prefix, unit).unit = unit
         /\ Quantity(t, prefix, unit).v \in Int
<1>1. t.n \in Int /\ Power[prefix] \in Int BY PowersOfTen DEF Texts
<1>2. \A x \in Int, y \in Int : x * y \in Int OBVIOUS
<1>3. (IF t.sign = "-" THEN -1 ELSE 1) \in Int OBVIOUS
<1>4. (IF t.sign = "-" THEN -1 ELSE 1) * t.n * Power[prefix] \in Int BY <1>1, <1>2, <1>3
<1> QED BY <1>4 DEF Quantity, Nothing

(* A notation that is read without a dimension is read alike beside the unit *)
(* it turned out to have.                                                    *)
LEMMA SameReading ==
  ASSUME NEW t \in Texts, NEW q, ParseNominal(t, Empty) = q, q # Nothing,
         ~(t.unit \in SpelledOhms /\ t.letter = "m")
  PROVE  ParseNominal(t, q.unit) = q
<1>1. Empty \in BaseUnits \cup {Empty} OBVIOUS
<1>2. PICK prefix \in SIPrefixes, unit \in BaseUnits : q = Quantity(t, prefix, unit)
  BY <1>1, ParsedForm
<1>3. unit # Empty /\ q.unit = unit BY <1>2, EmptyIsNoName, QuantityIsSome
<1>4. Shorthand(t, Empty) = Nothing BY EmptyIsNoName DEF Shorthand, BaseUnits
<1>5. CASE t.sign = Empty /\ Lowered(t.letter) = "r" /\ t.unit = Empty /\ ~t.infix
  <2>1. q = Quantity(t, Empty, "Ohm") BY <1>4, <1>5 DEF ParseNominal
  <2>2. Empty \in SIPrefixes /\ "Ohm" # Empty BY EmptyIsNoName DEF SIPrefixes, BaseUnits
  <2>3. q.unit = "Ohm" BY <2>1, <2>2, QuantityIsSome
  <2>4. t.letter # Empty BY <1>5, EmptyIsNoName DEF Lowered
  <2>5. OhmShorthand(t) BY <1>5 DEF OhmShorthand, OhmLetters
  <2>6. OhmPrefix(Lowered(t.letter)) = Empty BY <1>5 DEF OhmPrefix
  <2>7. Shorthand(t, "Ohm") = q BY <2>1, <2>5, <2>6 DEF Shorthand
  <2> QED BY <2>3, <2>4, <2>7 DEF ParseNominal
<1>6. CASE ~(t.sign = Empty /\ Lowered(t.letter) = "r" /\ t.unit = Empty /\ ~t.infix)
  <2>1. q = Explicit(t, BaseUnits) BY <1>4, <1>6 DEF ParseNominal
  <2>2. t.infix \in BOOLEAN BY DEF Texts
  <2>3. Reads(t, BaseUnits) /\ q = Quantity(t, ReadPrefix(t), ReadUnit(t))
    BY <2>1, <2>2, ExplicitReads, EmptyIsNoName
  <2>4. ReadUnit(t) \in BaseUnits /\ ReadPrefix(t) \in SIPrefixes /\ ~t.infix BY <2>3 DEF Reads
  <2>5. q.unit = ReadUnit(t) /\ ReadUnit(t) # Empty BY <2>3, <2>4, EmptyIsNoName, QuantityIsSome
  <2>6. Reads(t, {q.unit}) BY <2>3, <2>5 DEF Reads
  <2>7. Explicit(t, {q.unit}) = q BY <2>2, <2>3, <2>5, <2>6, ExplicitReads
  <2>8. ~(t.letter = Empty /\ t.unit = Empty)
    <3>1. Symbol(Empty) = Empty BY EmptyIsNoName DEF Symbol, SpelledOhms
    <3>2. Empty \notin DOMAIN Restored BY EmptyIsNoName, RestoredUnits
    <3> QED BY <2>5, <3>1, <3>2, EmptyIsNoName DEF ReadUnit
  <2>9. t.unit = Empty => ReadUnit(t) = "m"
    <3>1. Symbol(Empty) = Empty BY EmptyIsNoName DEF Symbol, SpelledOhms
    <3>2. Empty \notin DOMAIN Restored BY EmptyIsNoName, RestoredUnits
    <3> QED BY <2>5, <3>1, <3>2 DEF ReadUnit
  <2>10. Shorthand(t, q.unit) \in {Nothing, q}
    <3>1. CASE q.unit = "Ohm" /\ OhmShorthand(t)
      <4>1. t.unit # Empty BY <2>5, <2>9, <3>1
      <4>2. t.unit \in SpelledOhms BY <3>1, <4>1 DEF OhmShorthand
      <4>3. ReadPrefix(t) = t.letter BY <4>1 DEF ReadPrefix
      <4>4. t.letter # "m" BY <4>2
      <4>5. OhmPrefix(Lowered(t.letter)) = t.letter
        <5>1. t.letter \in SIPrefixes BY <2>4, <4>3
        <5>2. t.letter = Empty => Lowered(t.letter) = Empty BY EmptyIsNoName DEF Lowered
        <5>3. Lowered(t.letter) \in OhmLetters \/ t.letter = Empty BY <3>1 DEF OhmShorthand
        <5>4. t.letter \in {Empty, "k", "M", "G"}
          BY <4>4, <5>1, <5>3 DEF SIPrefixes, Lowered, OhmLetters
        <5>5. CASE t.letter = Empty BY <5>2, <5>5, EmptyIsNoName DEF OhmPrefix
        <5>6. CASE t.letter \in {"k", "M", "G"} BY <5>6 DEF OhmPrefix, Lowered
        <5> QED BY <5>4, <5>5, <5>6
      <4>6. Shorthand(t, q.unit) = Quantity(t, OhmPrefix(Lowered(t.letter)), q.unit)
        BY <3>1 DEF Shorthand
      <4> QED BY <2>3, <2>5, <4>3, <4>5, <4>6
    <3>2. CASE q.unit \in {"F", "H"} /\ PassiveShorthand(t, q.unit)
      <4>1. t.unit # Empty BY <2>5, <2>9, <3>2
      <4>2. ReadPrefix(t) = t.letter BY <4>1 DEF ReadPrefix
      <4>3. t.letter \in PassiveLetters BY <2>4, <3>2 DEF PassiveShorthand
      <4>4. Lowered(t.letter) = t.letter /\ t.letter # "M" BY <4>3 DEF PassiveLetters, Lowered
      <4>5. q.unit # "Ohm" BY <3>2
      <4>6. Shorthand(t, q.unit) = Quantity(t, t.letter, q.unit) BY <3>2, <4>4, <4>5 DEF Shorthand
      <4> QED BY <2>3, <2>5, <4>2, <4>6
    <3>3. CASE ~(q.unit = "Ohm" /\ OhmShorthand(t)) /\ ~(q.unit \in {"F", "H"} /\ PassiveShorthand(t, q.unit))
      BY <3>3 DEF Shorthand
    <3> QED BY <3>1, <3>2, <3>3
  <2>11. CASE Shorthand(t, q.unit) = q BY <2>8, <2>11 DEF ParseNominal
  <2>12. CASE Shorthand(t, q.unit) = Nothing
    BY <2>5, <2>7, <2>8, <2>12 DEF ParseNominal
  <2> QED BY <2>10, <2>11, <2>12
<1> QED BY <1>5, <1>6

(* Numbers with enough digits are written and read without a loss. *)
LEMMA ExactQuotient ==
  ASSUME NEW a \in Nat, NEW p \in Nat \ {0}, a % p = 0
  PROVE  a \div p \in Nat /\ (a \div p) * p = a
OBVIOUS

LEMMA SignAndMagnitude ==
  ASSUME NEW v \in Int, NEW p \in Nat \ {0}, Magnitude(v) % p = 0
  PROVE  /\ Magnitude(v) \div p \in Nat
         /\ v < 0 => -1 * (Magnitude(v) \div p) * p = v
         /\ v >= 0 => 1 * (Magnitude(v) \div p) * p = v
<1>1. Magnitude(v) \in Nat /\ (v < 0 => Magnitude(v) = -v) /\ (v >= 0 => Magnitude(v) = v)
  BY DEF Magnitude
<1> DEFINE n == Magnitude(v) \div p
<1>2. n \in Nat /\ n * p = Magnitude(v) BY <1>1, ExactQuotient
<1> HIDE DEF n
<1>3. 1 * n * p = n * p /\ -1 * n * p = -(n * p) BY <1>2
<1> QED BY <1>1, <1>2, <1>3 DEF n

(* The canonical spelling beside its unit denotes the quantity. *)
LEMMA CanonicalIsRead ==
  ASSUME NEW v \in Int, NEW unit, unit # Empty, Magnitude(v) % Power[Empty] = 0
  PROVE  ParseNominal(Canonical([v |-> v, unit |-> unit]), unit) = [v |-> v, unit |-> unit]
<1> DEFINE q == [v |-> v, unit |-> unit]
           n == Magnitude(v) \div Power[Empty]
           t == Canonical(q)
<1>1. Power[Empty] \in Nat \ {0} BY PowersOfTen DEF SIPrefixes
<1>2. /\ t.n = n /\ t.letter = Empty /\ t.unit = Empty
      /\ t.sign = IF v < 0 THEN "-" ELSE Empty
  BY DEF Canonical, Bare, Text
<1>3. "-" # Empty BY Zenon DEF Empty
<1>4. (IF t.sign = "-" THEN -1 ELSE 1) * n * Power[Empty] = v
  BY <1>1, <1>2, <1>3, SignAndMagnitude
<1> HIDE DEF t, n
<1>5. Quantity(t, Empty, unit) = q BY <1>2, <1>4 DEF Quantity
<1>6. ParseNominal(t, unit) = Quantity(t, Empty, unit) BY <1>2 DEF ParseNominal
<1> QED BY <1>5, <1>6 DEF t

(* The displayed spelling denotes the quantity, with or without its unit     *)
(* beside it; ohms only with the unit and without a sign.                    *)
LEMMA DisplayPrefixForms ==
  ASSUME NEW v \in Int, NEW unit \in BaseUnits
  PROVE  LET prefix == DisplayPrefix([v |-> v, unit |-> unit])
         IN  /\ prefix \in SIPrefixes
             /\ unit = "Ohm" => prefix \in {Empty, "k", "M", "G"}
             /\ unit \in Prefixless => prefix = Empty
<1> DEFINE q == [v |-> v, unit |-> unit]
           Reaches(p) == Magnitude(q.v) >= Fine * Power[p]
           Ladder(ps, least) ==
              LET reached == {p \in ps : Reaches(p)} IN
              IF reached = {} THEN least
              ELSE CHOOSE p \in reached : \A other \in reached : Power[other] =< Power[p]
<1>1. DisplayPrefix(q) =
        CASE q.unit = "Ohm" -> Ladder({"k", "M", "G"}, Empty)
          [] q.unit \in Prefixless \cup {"V/s"} \/ (q.unit # "Ohm" /\ q.v = 0) -> Empty
          [] OTHER -> Ladder(SIPrefixes, "p")
  BY DEF DisplayPrefix
<1>2. Power \in [SIPrefixes -> Nat \ {0}] BY PowersOfTen
<1>3. ASSUME NEW ps \in SUBSET SIPrefixes, NEW least PROVE Ladder(ps, least) \in ps \cup {least}
  <2> DEFINE reached == {p \in ps : Reaches(p)}
  <2>1. CASE reached = {} BY <2>1
  <2>2. CASE reached # {}
    <3> DEFINE powers == {Power[p] : p \in reached}
    <3>1. Power["G"] \in Nat /\ \A p \in SIPrefixes : Power[p] \in 0..Power["G"]
      <4>1. /\ Power["p"] \in Nat /\ Power["n"] \in Nat /\ Power["u"] \in Nat /\ Power["m"] \in Nat
            /\ Power[Empty] \in Nat /\ Power["k"] \in Nat /\ Power["M"] \in Nat /\ Power["G"] \in Nat
        BY <1>2 DEF SIPrefixes
      <4> QED BY <4>1, PowersOfTen DEF SIPrefixes
    <3>2. powers \in SUBSET (0..Power["G"]) /\ powers # {} BY <2>2, <3>1
    <3>3. Max(powers) \in powers /\ \A k \in powers : k <= Max(powers)
      <4> HIDE DEF powers
      <4> QED BY <3>1, <3>2, MaxOfBounded
    <3>4. \E p \in reached : \A other \in reached : Power[other] =< Power[p] BY <3>3
    <3>5. Ladder(ps, least) = CHOOSE p \in reached : \A other \in reached : Power[other] =< Power[p]
      BY <2>2
    <3>6. reached \subseteq ps OBVIOUS
    <3> HIDE DEF reached
    <3>7. (CHOOSE p \in reached : \A other \in reached : Power[other] =< Power[p]) \in reached
      BY <3>4
    <3> HIDE DEF Ladder
    <3> QED BY <3>5, <3>6, <3>7
  <2> QED BY <2>1, <2>2
<1> HIDE DEF Ladder
<1>4. {"k", "M", "G"} \in SUBSET SIPrefixes /\ "p" \in SIPrefixes /\ Empty \in SIPrefixes
      /\ "Ohm" \notin Prefixless
  BY DEF SIPrefixes, Prefixless
<1>5. Ladder({"k", "M", "G"}, Empty) \in {"k", "M", "G"} \cup {Empty} BY <1>3, <1>4
<1>6. Ladder(SIPrefixes, "p") \in SIPrefixes \cup {"p"} BY <1>3
<1>7. q.unit = unit OBVIOUS
<1> HIDE DEF q
<1>8. CASE unit = "Ohm"
  <2>1. DisplayPrefix(q) = Ladder({"k", "M", "G"}, Empty) BY <1>1, <1>4, <1>7, <1>8
  <2> QED BY <1>4, <1>5, <1>8, <2>1 DEF q
<1>9. CASE unit # "Ohm" /\ unit \in Prefixless
  <2>1. DisplayPrefix(q) = Empty BY <1>1, <1>7, <1>9
  <2> QED BY <1>4, <1>9, <2>1 DEF q
<1>10. CASE unit # "Ohm" /\ unit \notin Prefixless
  <2>1. DisplayPrefix(q) \in {Empty, Ladder(SIPrefixes, "p")} BY <1>1, <1>7, <1>10
  <2> QED BY <1>4, <1>6, <1>10, <2>1 DEF q
<1> QED BY <1>8, <1>9, <1>10

LEMMA DisplayIsRead ==
  ASSUME NEW v \in Int, NEW unit \in BaseUnits, NEW u \in {Empty, unit},
         Magnitude(v) % Power[DisplayPrefix([v |-> v, unit |-> unit])] = 0,
         unit = "Ohm" => v >= 0 /\ u = unit
  PROVE  ParseNominal(Display([v |-> v, unit |-> unit]), u) = [v |-> v, unit |-> unit]
<1> DEFINE q == [v |-> v, unit |-> unit]
           prefix == DisplayPrefix(q)
           n == Magnitude(v) \div Power[prefix]
           t == Display(q)
<1>1. /\ prefix \in SIPrefixes
      /\ unit = "Ohm" => prefix \in {Empty, "k", "M", "G"}
      /\ unit \in Prefixless => prefix = Empty
  BY DisplayPrefixForms
<1>2. unit # Empty BY EmptyIsNoName
<1>3. "-" # Empty BY Zenon DEF Empty
<1>4. Power[prefix] \in Nat \ {0} BY <1>1, PowersOfTen
<1>5. t.sign = IF v < 0 THEN "-" ELSE Empty BY DEF Display, Text
<1>6. t.n = n BY DEF Display, Text
<1>7. (IF t.sign = "-" THEN -1 ELSE 1) * n * Power[prefix] = v
  <2> HIDE DEF t, prefix
  <2>1. Magnitude(v) % Power[prefix] = 0 BY DEF prefix
  <2> QED BY <1>3, <1>4, <1>5, <2>1, SignAndMagnitude
<1>8. CASE unit = "Ohm"
  <2>1. t.unit = Empty /\ t.letter = (IF prefix = Empty THEN "R" ELSE prefix)
    BY <1>8 DEF Display, Text
  <2>2. t.sign = Empty BY <1>5, <1>8
  <2> HIDE DEF t, prefix, n
  <2>3. Lowered(t.letter) \in OhmLetters /\ OhmPrefix(Lowered(t.letter)) = prefix /\ t.letter # Empty
    <3>1. CASE prefix = Empty BY <2>1, <3>1, EmptyIsNoName DEF Lowered, OhmLetters, OhmPrefix
    <3>2. CASE prefix \in {"k", "M", "G"} /\ prefix # Empty
      BY <2>1, <3>2 DEF Lowered, OhmLetters, OhmPrefix
    <3> QED BY <1>1, <1>8, <3>1, <3>2
  <2>4. OhmShorthand(t) BY <2>1, <2>2, <2>3 DEF OhmShorthand
  <2>5. Shorthand(t, "Ohm") = Quantity(t, prefix, "Ohm") BY <2>3, <2>4 DEF Shorthand
  <2>6. Quantity(t, prefix, "Ohm") = q BY <1>6, <1>7, <1>8 DEF Quantity
  <2>7. q # Nothing BY <1>2 DEF Nothing
  <2>8. ParseNominal(t, "Ohm") = q BY <2>3, <2>5, <2>6, <2>7 DEF ParseNominal
  <2> QED BY <1>8, <2>8 DEF t
<1>9. CASE unit # "Ohm"
  <2>1. t.unit = unit /\ t.letter = prefix /\ t.infix = FALSE
    BY <1>9 DEF Display, Text
  <2> HIDE DEF t, prefix, n
  <2>2. Quantity(t, prefix, unit) = q BY <1>6, <1>7 DEF Quantity
  <2>3. q # Nothing BY <1>2 DEF Nothing
  <2>4. (IF unit \in DOMAIN Restored THEN Restored[unit] ELSE unit) = unit
    BY RestoredUnits DEF BaseUnits
  <2>5. Symbol(unit) = unit BY DEF Symbol, BaseUnits
  <2>6. ReadUnit(t) = unit /\ ReadPrefix(t) = prefix
    BY <1>2, <2>1, <2>4, <2>5 DEF ReadUnit, ReadPrefix
  <2>7. ASSUME NEW C, unit \in C, Empty \notin C PROVE Explicit(t, C) = q
    <3>1. Reads(t, C) BY <1>1, <2>1, <2>6, <2>7 DEF Reads
    <3>2. t.infix \in BOOLEAN BY <2>1
    <3> QED BY <2>2, <2>6, <2>7, <3>1, <3>2, ExplicitReads
  <2>8. Shorthand(t, u) \in {Nothing, q}
    <3>1. u # "Ohm" BY <1>9, EmptyIsNoName DEF BaseUnits
    <3>2. CASE u \in {"F", "H"} /\ PassiveShorthand(t, u)
      <4>1. u = unit BY <3>2, EmptyIsNoName DEF BaseUnits
      <4>2. prefix \in PassiveLetters BY <2>1, <3>2 DEF PassiveShorthand
      <4>3. Lowered(prefix) = prefix /\ prefix # "M" BY <4>2 DEF PassiveLetters, Lowered
      <4>4. Shorthand(t, u) = Quantity(t, prefix, unit) BY <2>1, <3>1, <3>2, <4>1, <4>3 DEF Shorthand
      <4> QED BY <2>2, <4>4
    <3>3. CASE ~(u \in {"F", "H"} /\ PassiveShorthand(t, u)) BY <3>1, <3>3 DEF Shorthand
    <3> QED BY <3>2, <3>3
  <2>9. Explicit(t, IF u # Empty THEN {u} ELSE BaseUnits) = q
    <3>1. CASE u = Empty BY <2>7, <3>1, EmptyIsNoName
    <3>2. CASE u # Empty
      <4>1. u = unit BY <3>2
      <4>2. Explicit(t, {unit}) = q BY <1>2, <2>7
      <4> QED BY <3>2, <4>1, <4>2
    <3> QED BY <3>1, <3>2
  <2>10. t.unit # Empty BY <1>2, <2>1
  <2>11. ParseNominal(t, u) = q BY <2>3, <2>8, <2>9, <2>10 DEF ParseNominal
  <2> QED BY <2>11 DEF t
<1> QED BY <1>8, <1>9

-----------------------------------------------------------------------------
(* Rows under every notation of their value.                                 *)

LEMMA DenotedForm ==
  ASSUME NEW code \in Codes, Denoted(code) # Nothing
  PROVE  /\ Denoted(code) = [v |-> Denoted(code).v, unit |-> Denoted(code).unit]
         /\ Denoted(code).v \in Int /\ Denoted(code).unit \in BaseUnits
         /\ Denoted(code).unit # Empty
         /\ CategoryUnit(Category[code]) # Empty => Denoted(code).unit = CategoryUnit(Category[code])
<1> DEFINE q == Denoted(code)
           u == CategoryUnit(Category[code])
           t == OldText[code]
<1>1. t \in Texts BY Contents
<1>2. q = ParseNominal(t, u) /\ q # Nothing BY DEF Denoted, NominalFor
<1>3. u \in BaseUnits \cup {Empty} BY UnitsOfCategories DEF BaseUnits, KnownUnits
<1> HIDE DEF q, u, t
<1>4. PICK prefix \in SIPrefixes, unit \in BaseUnits :
         q = Quantity(t, prefix, unit) /\ (u # Empty => unit = u)
  BY <1>1, <1>2, <1>3, ParsedForm
<1>5. unit # Empty BY EmptyIsNoName
<1>6. q.unit = unit /\ q.v \in Int BY <1>1, <1>4, <1>5, QuantityIsSome
<1>7. q = [v |-> q.v, unit |-> q.unit] BY <1>4 DEF Quantity
<1> QED BY <1>4, <1>5, <1>6, <1>7 DEF q, u

LEMMA StoredCodes ==
  ASSUME TypeOK
  PROVE  \A id \in Stored : /\ parts[id].code \in Codes /\ parts[id].raw \in BOOLEAN
                           /\ parts[id].qty \in Nat /\ id \in Int
<1>1. \A id \in Stored : parts[id] \in Part /\ id \in Ids BY DEF TypeOK, Stored
<1> QED BY <1>1, Bounds DEF Part, Ids

(* A row holds the old text, or the number and unit of what it denotes.      *)
LEMMA RowContents ==
  ASSUME TypeOK, NEW id \in Stored
  PROVE  LET code == parts[id].code
             q == Denoted(code)
         IN  /\ Row(id).category = Category[code]
             /\ parts[id].raw \/ q = Nothing => Row(id).value = OldText[code] /\ Row(id).unit = Empty
             /\ ~parts[id].raw /\ q # Nothing => Row(id).value = Canonical(q) /\ Row(id).unit = q.unit
BY DEF Row, Stores, Denoted

(* Whatever release stored it, a row is read as what was once written.       *)
LEMMA RowIsRead ==
  ASSUME TypeOK, NEW id \in Stored
  PROVE  NominalFor(Row(id).value, Row(id).category, Row(id).unit) = Denoted(parts[id].code)
<1> DEFINE code == parts[id].code
           q == Denoted(code)
<1>1. code \in Codes BY StoredCodes
<1>2. /\ Row(id).category = Category[code]
      /\ parts[id].raw \/ q = Nothing => Row(id).value = OldText[code] /\ Row(id).unit = Empty
      /\ ~parts[id].raw /\ q # Nothing => Row(id).value = Canonical(q) /\ Row(id).unit = q.unit
  BY RowContents
<1>3. CASE parts[id].raw \/ q = Nothing
  <2>1. Row(id).value = OldText[code] /\ Row(id).unit = Empty BY <1>2, <1>3
  <2> QED BY <1>2, <2>1 DEF Denoted
<1>4. CASE ~parts[id].raw /\ q # Nothing
  <2>1. Row(id).value = Canonical(q) /\ Row(id).unit = q.unit BY <1>2, <1>4
  <2>2. q = [v |-> q.v, unit |-> q.unit] /\ q.v \in Int /\ q.unit # Empty BY <1>1, <1>4, DenotedForm
  <2>3. Magnitude(q.v) % Power[Empty] = 0 BY <1>1, <1>4, Resolution
  <2> HIDE DEF q
  <2>4. ParseNominal(Canonical(q), q.unit) = q BY <2>2, <2>3, CanonicalIsRead
  <2>5. NominalFor(Row(id).value, Row(id).category, Row(id).unit) = ParseNominal(Canonical(q), q.unit)
    BY <2>1, <2>2 DEF NominalFor
  <2> QED BY <2>4, <2>5 DEF q
<1> QED BY <1>3, <1>4

(* Every notation that is asked with is read as the row is. *)
LEMMA SpellingIsRead ==
  ASSUME TypeOK, NEW id \in Stored, NEW t \in Spellings[parts[id].code]
  PROVE  /\ NominalFor(t, Row(id).category, Row(id).unit) = Denoted(parts[id].code)
         /\ Denoted(parts[id].code) = Nothing => Row(id).value = t
<1> DEFINE code == parts[id].code
           q == Denoted(code)
           u == CategoryUnit(Category[code])
<1>1. code \in Codes BY StoredCodes
<1>2. /\ Row(id).category = Category[code]
      /\ parts[id].raw \/ q = Nothing => Row(id).value = OldText[code] /\ Row(id).unit = Empty
      /\ ~parts[id].raw /\ q # Nothing => Row(id).value = Canonical(q) /\ Row(id).unit = q.unit
  BY RowContents
<1>3. /\ t \in Texts /\ NominalFor(t, Category[code], Empty) = q /\ (q = Nothing => t = OldText[code])
      /\ u = Empty => ~(t.unit \in SpelledOhms /\ t.letter = "m")
  BY <1>1, Notations
<1>4. ParseNominal(t, u) = q BY <1>3 DEF NominalFor
<1>5. CASE parts[id].raw \/ q = Nothing
  BY <1>2, <1>3, <1>5
<1>6. CASE ~parts[id].raw /\ q # Nothing
  <2>1. Row(id).unit = q.unit /\ q.unit # Empty /\ (u # Empty => q.unit = u)
    BY <1>1, <1>2, <1>6, DenotedForm
  <2>2. NominalFor(t, Row(id).category, Row(id).unit) = ParseNominal(t, q.unit)
    BY <2>1 DEF NominalFor
  <2> HIDE DEF q, u
  <2>3. ParseNominal(t, q.unit) = q
    <3>1. CASE u # Empty BY <1>4, <2>1, <3>1
    <3>2. CASE u = Empty BY <1>3, <1>4, <1>6, <3>2, SameReading
    <3> QED BY <3>1, <3>2
  <2> QED BY <1>6, <2>2, <2>3 DEF q
<1> QED BY <1>5, <1>6

LEMMA DisplayIsReadBack ==
  ASSUME TypeOK, NEW id \in Stored, Legible(id), Row(id).value # Unvalued
  PROVE  /\ NominalFor(DisplayValue(Row(id)), Row(id).category, Row(id).unit) = Denoted(parts[id].code)
         /\ Denoted(parts[id].code) = Nothing => Row(id).value = DisplayValue(Row(id))
<1> DEFINE code == parts[id].code
           q == Denoted(code)
           u == CategoryUnit(Category[code])
<1>1. code \in Codes BY StoredCodes
<1>2. /\ Row(id).category = Category[code]
      /\ parts[id].raw \/ q = Nothing => Row(id).value = OldText[code] /\ Row(id).unit = Empty
      /\ ~parts[id].raw /\ q # Nothing => Row(id).value = Canonical(q) /\ Row(id).unit = q.unit
  BY RowContents
<1>3. NominalFor(Row(id).value, Row(id).category, Row(id).unit) = q BY RowIsRead
<1>4. DisplayValue(Row(id)) = IF q # Nothing THEN Display(q) ELSE Row(id).value
  BY <1>3 DEF DisplayValue
<1>5. CASE q = Nothing BY <1>3, <1>4, <1>5
<1>6. CASE q # Nothing
  <2>1. /\ q = [v |-> q.v, unit |-> q.unit] /\ q.v \in Int /\ q.unit \in BaseUnits /\ q.unit # Empty
        /\ u # Empty => q.unit = u
    BY <1>1, <1>6, DenotedForm
  <2>2. Magnitude(q.v) % Power[DisplayPrefix(q)] = 0 BY <1>1, <1>6, Resolution
  <2>3. q.unit = "Ohm" => q.v >= 0 /\ (parts[id].raw => u # Empty) BY DEF Legible
  <2> DEFINE asked == IF parts[id].raw THEN u ELSE q.unit
  <2>4. asked \in {Empty, q.unit} BY <2>1
  <2>5. q.unit = "Ohm" => q.v >= 0 /\ asked = q.unit BY <2>1, <2>3
  <2>6. NominalFor(Display(q), Row(id).category, Row(id).unit) = ParseNominal(Display(q), asked)
    <3>1. CASE parts[id].raw
      BY <1>2, <3>1 DEF NominalFor
    <3>2. CASE ~parts[id].raw
      BY <1>2, <1>6, <2>1, <3>2 DEF NominalFor
    <3> QED BY <3>1, <3>2
  <2> HIDE DEF q, u, asked
  <2>7. ParseNominal(Display(q), asked) = q BY <2>1, <2>2, <2>4, <2>5, DisplayIsRead
  <2> QED BY <1>4, <1>6, <2>6, <2>7 DEF q
<1> QED BY <1>5, <1>6

LEMMA AskedValueMatches ==
  ASSUME TypeOK, NEW id \in Stored, NEW t \in AskedAs(id), Row(id).value # Unvalued
  PROVE  HasValue(Row(id), t)
<1>1. /\ NominalFor(t, Row(id).category, Row(id).unit) = Denoted(parts[id].code)
      /\ Denoted(parts[id].code) = Nothing => Row(id).value = t
  <2>1. CASE t \in Spellings[parts[id].code] BY <2>1, SpellingIsRead
  <2>2. CASE Legible(id) /\ t = DisplayValue(Row(id)) BY <2>2, DisplayIsReadBack
  <2> QED BY <2>1, <2>2 DEF AskedAs
<1>2. NominalFor(Row(id).value, Row(id).category, Row(id).unit) = Denoted(parts[id].code)
  BY RowIsRead
<1> QED BY <1>1, <1>2 DEF HasValue, ValuesMatch

(* A shelf is finite, and so is every part of it. *)
LEMMA ShelfIsFinite ==
  ASSUME TypeOK, NEW S \in SUBSET Shelf
  PROVE  IsFiniteSet(S) /\ Cardinality(S) \in 0..MaxParts /\ DifferentIds(S)
<1> DEFINE of == [id \in Stored |-> Row(id)]
<1>1. IsFiniteSet(Stored) /\ Cardinality(Stored) <= MaxParts
  <2>1. IsFiniteSet(1..MaxParts) /\ Cardinality(1..MaxParts) = MaxParts BY Bounds, FS_Interval
  <2>2. Stored \in SUBSET (1..MaxParts) BY DEF Stored, Ids
  <2>3. IsFiniteSet(Stored) /\ Cardinality(Stored) <= Cardinality(1..MaxParts)
    BY <2>1, <2>2, FS_Subset
  <2> QED BY <2>1, <2>3
<1>2. of \in Surjection(Stored, Shelf) BY DEF Surjection, Shelf
<1>3. IsFiniteSet(Shelf) /\ Cardinality(Shelf) <= Cardinality(Stored)
  <2> HIDE DEF of
  <2> QED BY <1>1, <1>2, FS_Surjection
<1>4. IsFiniteSet(S) /\ Cardinality(S) <= Cardinality(Shelf) BY <1>3, FS_Subset
<1>5. Cardinality(S) \in 0..MaxParts
  BY <1>1, <1>3, <1>4, FS_CardinalityType, Bounds
<1>6. DifferentIds(S)
  BY ShelfRows, StoredCodes DEF DifferentIds
<1> QED BY <1>4, <1>5, <1>6

(* What a search for a value in a category finds, and what is found when the *)
(* value or the category is left out.                                        *)
LEMMA FoundByValue ==
  ASSUME NEW shelf, NEW part, NEW category, NEW t, NEW minimum
  PROVE  /\ part \in SearchFilters(shelf, FilterOn(category, t), minimum) <=>
               part \in shelf /\ part.qty >= minimum /\ InCategory(part, category) /\ HasValue(part, t)
         /\ part \in SearchFilters(shelf, Without(FilterOn(category, t), "value"), minimum) <=>
               part \in shelf /\ part.qty >= minimum /\ InCategory(part, category)
BY DEF SearchFilters, Satisfies, FilterOn, Without

(* An alternative is met by the parts that meet one of its filters. *)
LEMMA EitherMeets ==
  ASSUME NEW candidates, NEW left, NEW right
  PROVE  Meeting(candidates, <<Group("any", {2, 3}), Leaf(left), Leaf(right)>>)
         = {part \in candidates : Satisfies(part, left) \/ Satisfies(part, right)}
<1> DEFINE expression == <<Group("any", {2, 3}), Leaf(left), Leaf(right)>>
           Body(f, i) ==
             {part \in candidates :
                CASE expression[i].op = "filters" -> Satisfies(part, expression[i].filters)
                  [] expression[i].op = "all" -> \A k \in expression[i].children : part \in f[k]
                  [] OTHER -> \E k \in expression[i].children : part \in f[k]}
           meeting == CHOOSE f : f = [i \in DOMAIN expression |-> Body(f, i)]
           met == [i \in 1..3 |->
                     CASE i = 1 -> {part \in candidates : Satisfies(part, left) \/ Satisfies(part, right)}
                       [] i = 2 -> {part \in candidates : Satisfies(part, left)}
                       [] OTHER -> {part \in candidates : Satisfies(part, right)}]
<1>1. /\ DOMAIN expression = 1..3
      /\ expression[1].op = "any" /\ expression[1].children = {2, 3}
      /\ expression[2].op = "filters" /\ expression[2].filters = left
      /\ expression[3].op = "filters" /\ expression[3].filters = right
  BY DEF Group, Leaf
<1>2. /\ met[1] = {part \in candidates : Satisfies(part, left) \/ Satisfies(part, right)}
      /\ met[2] = {part \in candidates : Satisfies(part, left)}
      /\ met[3] = {part \in candidates : Satisfies(part, right)}
      /\ met = [i \in 1..3 |-> met[i]]
  OBVIOUS
<1> HIDE DEF met, expression
<1>3. ASSUME NEW f
      PROVE  /\ Body(f, 1) = {part \in candidates : part \in f[2] \/ part \in f[3]}
             /\ Body(f, 2) = {part \in candidates : Satisfies(part, left)}
             /\ Body(f, 3) = {part \in candidates : Satisfies(part, right)}
  <2>1. Body(f, 1) = {part \in candidates : part \in f[2] \/ part \in f[3]} BY <1>1
  <2>2. Body(f, 2) = {part \in candidates : Satisfies(part, left)} BY <1>1
  <2>3. Body(f, 3) = {part \in candidates : Satisfies(part, right)} BY <1>1
  <2> QED BY <2>1, <2>2, <2>3
<1> HIDE DEF Body
<1>4. \A i \in 1..3 : met[i] = Body(met, i)
  <2>1. met[1] = Body(met, 1) BY <1>2, <1>3
  <2>2. met[2] = Body(met, 2) /\ met[3] = Body(met, 3) BY <1>2, <1>3
  <2> QED BY <2>1, <2>2
<1>5. met = [i \in DOMAIN expression |-> Body(met, i)] BY <1>1, <1>2, <1>4
<1>6. meeting = [i \in DOMAIN expression |-> Body(meeting, i)] BY <1>5
<1>7. Meeting(candidates, expression) = meeting[1]
  BY DEF Meeting, meeting, Body
<1> HIDE DEF meeting
<1>8. meeting[1] = Body(meeting, 1) /\ meeting[2] = Body(meeting, 2) /\ meeting[3] = Body(meeting, 3)
  BY <1>1, <1>6
<1> QED BY <1>3, <1>7, <1>8 DEF expression

LEMMA AskedRowsAreFound ==
  ASSUME TypeOK, NEW id \in Stored, NEW t \in AskedAs(id), Row(id).value # Unvalued,
         NEW category, InCategory(Row(id), category), NEW minimum \in Int, Row(id).qty >= minimum
  PROVE  Row(id) \in SearchFilters(Shelf, FilterOn(category, t), minimum)
<1>1. HasValue(Row(id), t) BY AskedValueMatches
<1>2. Row(id) \in Shelf BY DEF Shelf
<1> QED BY <1>1, <1>2, FoundByValue

LEMMA EverySearchFinds ==
  ASSUME TypeOK, NEW id \in Stored, NEW t \in AskedAs(id), Row(id).value # Unvalued
  PROVE  LET category == Category[parts[id].code]
             filters == FilterOn(category, t)
             either == <<Group("any", {2, 3}), Leaf([value |-> t]), Leaf([part_number |-> Empty])>>
         IN  /\ Row(id) \in SearchFilters(Shelf, filters, 0)
             /\ Row(id) \in ToSet(Candidates(Shelf, {category}, filters, 0))
             /\ Row(id) \in ToSet(ExpressionRows(Shelf, [part_category |-> category], 0, either))
<1> DEFINE category == Category[parts[id].code]
           filters == FilterOn(category, t)
           either == <<Group("any", {2, 3}), Leaf([value |-> t]), Leaf([part_number |-> Empty])>>
           named == {part \in SearchFilters(Shelf, filters, 0) : {category} \subseteq part.words}
           kind == SearchFilters(Shelf, [part_category |-> category], 0)
<1>1. /\ Row(id).category = category /\ Row(id).words = {category}
      /\ Row(id).qty >= 0 /\ Row(id) \in Shelf
  <2>1. Row(id).qty = parts[id].qty BY ShelfRows
  <2>2. parts[id].qty >= 0 BY StoredCodes
  <2>3. Row(id).category = category /\ Row(id).words = {category} BY DEF Row
  <2>4. Row(id) \in Shelf BY DEF Shelf
  <2> QED BY <2>1, <2>2, <2>3, <2>4
<1>2. InCategory(Row(id), category) BY <1>1 DEF InCategory
<1>3. Row(id) \in SearchFilters(Shelf, filters, 0) BY <1>1, <1>2, AskedRowsAreFound
<1>4. named \in SUBSET Shelf /\ kind \in SUBSET Shelf BY DEF SearchFilters
<1>5. Row(id) \in ToSet(Candidates(Shelf, {category}, filters, 0))
  <2>1. Row(id) \in named BY <1>1, <1>3
  <2> HIDE DEF named
  <2>2. IsFiniteSet(named) /\ DifferentIds(named) BY <1>4, ShelfIsFinite
  <2>3. ToSet(ById(named)) = named BY <2>2, IdsAreOrdered
  <2> QED BY <2>1, <2>3 DEF Candidates, named
<1>6. Row(id) \in ToSet(ExpressionRows(Shelf, [part_category |-> category], 0, either))
  <2> DEFINE met == Meeting(kind, either)
  <2>1. Row(id) \in kind BY <1>1, <1>2 DEF SearchFilters, Satisfies
  <2>2. Satisfies(Row(id), [value |-> t]) BY AskedValueMatches DEF Satisfies
  <2>3. met = {part \in kind : Satisfies(part, [value |-> t]) \/ Satisfies(part, [part_number |-> Empty])}
    <3> HIDE DEF kind
    <3> QED BY EitherMeets
  <2>4. Row(id) \in met /\ met \in SUBSET Shelf BY <1>4, <2>1, <2>2, <2>3
  <2> HIDE DEF met
  <2>5. IsFiniteSet(met) /\ DifferentIds(met) BY <2>4, ShelfIsFinite
  <2>6. ToSet(ById(met)) = met BY <2>5, IdsAreOrdered
  <2> QED BY <2>4, <2>6 DEF ExpressionRows, met
<1> QED BY <1>3, <1>5, <1>6

(* A suggested value leads to the part it is the value of. *)
LEMMA SuggestionsLead ==
  ASSUME TypeOK, NEW category,
         NEW t \in SuggestedValues({Row(id) : id \in {other \in Stored : Legible(other)}},
                                   [part_category |-> category], 1)
  PROVE  /\ SearchFilters(Shelf, FilterOn(category, t), 1) # {}
         /\ \A other \in SuggestedCategories(Shelf, [value |-> t], 1) :
               SearchFilters(Shelf, FilterOn(other, t), 1) # {}
<1> DEFINE legible == {Row(id) : id \in {other \in Stored : Legible(other)}}
<1>1. PICK part \in SearchFilters(legible, Without([part_category |-> category], "value"), 1) :
         part.value # Unvalued /\ t = DisplayValue(part)
  BY DEF SuggestedValues
<1>2. /\ part \in legible /\ part.qty >= 1 /\ InCategory(part, category)
  BY <1>1 DEF SearchFilters, Satisfies, Without
<1>3. PICK id \in Stored : Legible(id) /\ part = Row(id) BY <1>2
<1>4. t \in AskedAs(id) BY <1>1, <1>3 DEF AskedAs
<1>5. part \in SearchFilters(Shelf, FilterOn(category, t), 1)
  BY <1>1, <1>2, <1>3, <1>4, AskedRowsAreFound
<1>6. ASSUME NEW other \in SuggestedCategories(Shelf, [value |-> t], 1)
      PROVE  SearchFilters(Shelf, FilterOn(other, t), 1) # {}
  <2>1. PICK found \in SearchFilters(Shelf, Without([value |-> t], "part_category"), 1) :
           other = found.category
    BY DEF SuggestedCategories
  <2>2. found \in Shelf /\ found.qty >= 1 /\ HasValue(found, t)
    BY <2>1 DEF SearchFilters, Satisfies, Without
  <2>3. InCategory(found, other) BY <2>1 DEF InCategory
  <2>4. found \in SearchFilters(Shelf, FilterOn(other, t), 1) BY <2>2, <2>3, FoundByValue
  <2> QED BY <2>4
<1> QED BY <1>5, <1>6

(* The rows of an earlier release that denote a quantity are rewritten. *)
LEMMA OldRowsArePlanned ==
  ASSUME TypeOK
  PROVE  PlannedChanges = {id \in Stored : parts[id].raw /\ Denoted(parts[id].code) # Nothing}
<1>1. ASSUME NEW id \in Stored
      PROVE  id \in PlannedChanges <=> parts[id].raw /\ Denoted(parts[id].code) # Nothing
  <2> DEFINE code == parts[id].code
             q == Denoted(code)
             row == Row(id)
  <2>1. /\ parts[id].raw \/ q = Nothing => row.value = OldText[code] /\ row.unit = Empty
        /\ ~parts[id].raw /\ q # Nothing => row.value = Canonical(q) /\ row.unit = q.unit
    BY RowContents
  <2>2. NominalFor(row.value, row.category, row.unit) = q BY RowIsRead
  <2>3. id \in PlannedChanges <=> q # Nothing /\ (row.value # Canonical(q) \/ row.unit # q.unit)
    BY <2>2 DEF PlannedChanges
  <2>4. q # Nothing => q.unit # Empty BY DenotedForm, StoredCodes
  <2>5. parts[id].raw \in BOOLEAN BY StoredCodes
  <2> HIDE DEF q, row
  <2> QED BY <2>1, <2>3, <2>4, <2>5 DEF q
<1>2. PlannedChanges \subseteq Stored BY DEF PlannedChanges
<1> QED BY <1>1, <1>2

(* Whatever happened to the stock, every notation of a stored value and the  *)
(* displayed one find the part by every kind of search, suggestions lead to  *)
(* parts, and exactly the old rows with a quantity are planned for rewriting. *)
THEOREM NotationsFind == Spec => []EverySpellingFinds
<1>1. TypeOK => EverySpellingFinds
  <2> SUFFICES ASSUME TypeOK PROVE EverySpellingFinds OBVIOUS
  <2> QED BY EverySearchFinds, SuggestionsLead, OldRowsArePlanned DEF EverySpellingFinds
<1> QED BY <1>1, InventoryTypes, PTL

-----------------------------------------------------------------------------
(* The pages of an answer.                                                   *)

(* In a category with a unit no stored unit changes what a text denotes. *)
LEMMA StoredUnitIsExpected ==
  ASSUME TypeOK, NEW id \in Stored, NEW t, CategoryUnit(Row(id).category) # Empty
  PROVE  NominalFor(t, Row(id).category, Row(id).unit) = NominalFor(t, Row(id).category, Empty)
<1> DEFINE code == parts[id].code
           q == Denoted(code)
<1>1. /\ Row(id).category = Category[code]
      /\ parts[id].raw \/ q = Nothing => Row(id).unit = Empty
      /\ ~parts[id].raw /\ q # Nothing => Row(id).unit = q.unit
  BY RowContents
<1>2. q # Nothing => q.unit = CategoryUnit(Category[code]) BY <1>1, DenotedForm, StoredCodes
<1>3. Row(id).unit = Empty \/ Row(id).unit = CategoryUnit(Row(id).category)
  <2> HIDE DEF q
  <2> QED BY <1>1, <1>2
<1> QED BY <1>3 DEF NominalFor

LEMMA AlternativeDiffers ==
  ASSUME TypeOK, NEW part \in Shelf, NEW t, IsAlternative(part.value, t, part.category)
  PROVE  ~HasValue(part, t) /\ CategoryUnit(part.category) # Empty
<1>1. PICK id \in Stored : part = Row(id) BY DEF Shelf
<1>2. CategoryUnit(part.category) \in {"Ohm", "F", "H"}
  <2>1. part.category \in {"resistor", "capacitor", "inductor"} BY DEF IsAlternative
  <2> QED BY <2>1 DEF CategoryUnit
<1>3. "Ohm" # Empty /\ "F" # Empty /\ "H" # Empty BY Zenon DEF Empty
<1>4. CategoryUnit(part.category) # Empty BY <1>2, <1>3
<1>5. /\ NominalFor(part.value, part.category, part.unit) = NominalFor(part.value, part.category, Empty)
      /\ NominalFor(t, part.category, part.unit) = NominalFor(t, part.category, Empty)
  BY <1>1, <1>4, StoredUnitIsExpected
<1> QED BY <1>4, <1>5 DEF HasValue, ValuesMatch, IsAlternative

LEMMA NominalIsWhole ==
  ASSUME NEW t \in Texts, NEW category
  PROVE  NominalFor(t, category, Empty).v \in Int
<1> DEFINE u == CategoryUnit(category)
<1>1. u \in BaseUnits \cup {Empty} BY UnitsOfCategories DEF KnownUnits, BaseUnits
<1>2. NominalFor(t, category, Empty) = ParseNominal(t, u) BY DEF NominalFor
<1> HIDE DEF u
<1>3. CASE ParseNominal(t, u) = Nothing BY <1>2, <1>3 DEF Nothing
<1>4. CASE ParseNominal(t, u) # Nothing
  <2>1. PICK prefix \in SIPrefixes, unit \in BaseUnits : ParseNominal(t, u) = Quantity(t, prefix, unit)
    BY <1>1, <1>4, ParsedForm
  <2>2. unit # Empty BY EmptyIsNoName
  <2> QED BY <1>2, <2>1, <2>2, QuantityIsSome
<1> QED BY <1>3, <1>4

LEMMA GapIsFraction ==
  ASSUME TypeOK, NEW part \in Shelf, NEW t \in Texts, IsAlternative(part.value, t, part.category)
  PROVE  NominalGap(part.value, t, part.category) \in Fractions
<1> DEFINE left == NominalFor(part.value, part.category, Empty).v
           right == NominalFor(t, part.category, Empty).v
<1>1. PICK id \in Stored : part = Row(id) BY DEF Shelf
<1>2. left \in Int
  <2>1. NominalFor(part.value, part.category, Empty) = Denoted(parts[id].code)
    BY <1>1, AlternativeDiffers, StoredUnitIsExpected, RowIsRead
  <2>2. Denoted(parts[id].code) # Nothing BY <2>1 DEF IsAlternative
  <2> QED BY <2>1, <2>2, DenotedForm, StoredCodes
<1>3. right \in Int BY NominalIsWhole
<1>4. NominalGap(part.value, t, part.category) = RelativeGap(<<left, left>>, <<right, right>>, "eq")
  BY DEF NominalGap
<1> HIDE DEF left, right
<1>5. <<left, left>> \in Int \X Int /\ <<right, right>> \in Int \X Int BY <1>2, <1>3
<1> QED BY <1>4, <1>5, RelativeGapIsFraction

(* The parts with other values of the same kind. *)
Offered(category, t) ==
    {part \in SearchFilters(Shelf, Without(FilterOn(category, t), "value"), 0) :
        part.value # Unvalued /\ IsAlternative(part.value, t, part.category)}
LEMMA AlternativesAreOffered ==
  ASSUME TypeOK, NEW category, NEW t \in Texts
  PROVE  /\ Offered(category, t) \in SUBSET Shelf
         /\ Offered(category, t) \cap SearchFilters(Shelf, FilterOn(category, t), 0) = {}
         /\ Alternatives(Shelf, FilterOn(category, t), 0) \in Seq(Offered(category, t))
         /\ ToSet(Alternatives(Shelf, FilterOn(category, t), 0)) = Offered(category, t)
         /\ Len(Alternatives(Shelf, FilterOn(category, t), 0)) = Cardinality(Offered(category, t))
<1> DEFINE offered == Offered(category, t)
           gap == [part \in offered |-> NominalGap(part.value, t, part.category)]
<1>1. \A part \in offered : part \in Shelf /\ IsAlternative(part.value, t, part.category)
  BY DEF Offered, SearchFilters
<1>2. offered \cap SearchFilters(Shelf, FilterOn(category, t), 0) = {}
  BY <1>1, AlternativeDiffers, FoundByValue
<1>3. Alternatives(Shelf, FilterOn(category, t), 0) = Nearest(offered, gap)
  <2>1. {"value", "part_category"} \subseteq DOMAIN FilterOn(category, t)
        /\ FilterOn(category, t).value = t
    BY DEF FilterOn
  <2> QED BY <2>1 DEF Alternatives, Offered
<1>4. \A part \in offered : gap[part] \in Fractions BY <1>1, GapIsFraction
<1> HIDE DEF gap, offered
<1>5. IsFiniteSet(offered) /\ DifferentIds(offered) BY <1>1, ShelfIsFinite
<1> QED BY <1>1, <1>2, <1>3, <1>4, <1>5, NearestAreOrdered DEF offered

LEMMA TwoListsAreShown ==
  ASSUME NEW S, NEW rows \in Seq(S), Len(rows) \in 0..MaxParts,
         NEW T, NEW others \in Seq(T), Len(others) \in 0..MaxParts, NEW limit \in Nat \ {0}
  PROVE  LET pages == [offset \in 0..MaxParts |-> SearchPage(rows, others, limit, offset)]
         IN  Shown(pages, "parts") = rows /\ Shown(pages, "partial") = others
<1> DEFINE pages == [offset \in 0..MaxParts |-> SearchPage(rows, others, limit, offset)]
           lists == <<rows, others>>
           longest == Longest(lists)
<1>1. DOMAIN lists = 1..2 /\ lists[1] = rows /\ lists[2] = others OBVIOUS
<1> HIDE DEF lists
<1>2. longest \in 0..MaxParts /\ \A i \in 1..2 : Len(lists[i]) <= longest
  <2>1. \A i \in 1..2 : Len(lists[i]) \in 0..MaxParts BY <1>1
  <2>2. MaxParts \in Nat /\ 2 \in Nat \ {0} BY Bounds
  <2> QED BY <1>1, <2>1, <2>2, LongestBounds
<1>3. Len(rows) <= longest /\ Len(others) <= longest BY <1>1, <1>2
<1>4. \A o \in 0..MaxParts :
         /\ pages[o]["parts"] = Page(rows, limit, o) /\ pages[o]["partial"] = Page(others, limit, o)
         /\ pages[o].next = NextOffset(longest, limit, o)
  BY DEF SearchPage, lists
<1>5. DOMAIN pages = 0..MaxParts OBVIOUS
<1> HIDE DEF pages, longest
<1>6. Shown(pages, "parts") = rows
  <2>1. Lists(pages, MaxParts, "parts", rows, longest, limit) BY <1>4, <1>5 DEF Lists
  <2>2. MaxParts \in Nat BY Bounds
  <2> QED BY <1>2, <1>3, <2>1, <2>2, PagesShowList
<1>7. Shown(pages, "partial") = others
  <2>1. Lists(pages, MaxParts, "partial", others, longest, limit) BY <1>4, <1>5 DEF Lists
  <2>2. MaxParts \in Nat BY Bounds
  <2> QED BY <1>2, <1>3, <2>1, <2>2, PagesShowList
<1> QED BY <1>6, <1>7 DEF pages

LEMMA ThreeListsAreShown ==
  ASSUME NEW S, NEW matches \in Seq(S), Len(matches) \in 0..MaxParts,
         NEW incomplete \in Seq(S), Len(incomplete) \in 0..MaxParts,
         NEW partial \in Seq(S), Len(partial) \in 0..MaxParts, NEW limit \in Nat \ {0}
  PROVE  LET pages == [offset \in 0..MaxParts |->
                          SpecificationPage(matches, incomplete, partial, limit, offset)]
         IN  /\ Shown(pages, "matches") = matches /\ Shown(pages, "incomplete") = incomplete
             /\ Shown(pages, "partial") = partial
<1> DEFINE pages == [offset \in 0..MaxParts |->
                        SpecificationPage(matches, incomplete, partial, limit, offset)]
           lists == <<matches, incomplete, partial>>
           longest == Longest(lists)
<1>1. DOMAIN lists = 1..3 /\ lists[1] = matches /\ lists[2] = incomplete /\ lists[3] = partial OBVIOUS
<1> HIDE DEF lists
<1>2. longest \in 0..MaxParts /\ \A i \in 1..3 : Len(lists[i]) <= longest
  <2>1. \A i \in 1..3 : Len(lists[i]) \in 0..MaxParts BY <1>1
  <2>2. MaxParts \in Nat /\ 3 \in Nat \ {0} BY Bounds
  <2> QED BY <1>1, <2>1, <2>2, LongestBounds
<1>3. Len(matches) <= longest /\ Len(incomplete) <= longest /\ Len(partial) <= longest BY <1>1, <1>2
<1>4. \A o \in 0..MaxParts :
         /\ pages[o]["matches"] = Page(matches, limit, o)
         /\ pages[o]["incomplete"] = Page(incomplete, limit, o)
         /\ pages[o]["partial"] = Page(partial, limit, o)
         /\ pages[o].next = NextOffset(longest, limit, o)
  BY DEF SpecificationPage, lists
<1>5. DOMAIN pages = 0..MaxParts OBVIOUS
<1> HIDE DEF pages, longest
<1>6. Shown(pages, "matches") = matches
  <2>1. Lists(pages, MaxParts, "matches", matches, longest, limit) BY <1>4, <1>5 DEF Lists
  <2>2. MaxParts \in Nat BY Bounds
  <2> QED BY <1>2, <1>3, <2>1, <2>2, PagesShowList
<1>7. Shown(pages, "incomplete") = incomplete
  <2>1. Lists(pages, MaxParts, "incomplete", incomplete, longest, limit) BY <1>4, <1>5 DEF Lists
  <2>2. MaxParts \in Nat BY Bounds
  <2> QED BY <1>2, <1>3, <2>1, <2>2, PagesShowList
<1>8. Shown(pages, "partial") = partial
  <2>1. Lists(pages, MaxParts, "partial", partial, longest, limit) BY <1>4, <1>5 DEF Lists
  <2>2. MaxParts \in Nat BY Bounds
  <2> QED BY <1>2, <1>3, <2>1, <2>2, PagesShowList
<1> QED BY <1>6, <1>7, <1>8 DEF pages

LEMMA EveryMatchIsShown ==
  ASSUME TypeOK, NEW category, NEW t \in Texts, NEW limit \in 1..2
  PROVE  Matched(SearchRows(Shelf, FilterOn(category, t), 0),
                 Alternatives(Shelf, FilterOn(category, t), 0), limit)
<1> DEFINE found == SearchFilters(Shelf, FilterOn(category, t), 0)
           rows == ById(found)
           others == Alternatives(Shelf, FilterOn(category, t), 0)
<1>1. found \in SUBSET Shelf BY DEF SearchFilters
<1>2. /\ Offered(category, t) \in SUBSET Shelf /\ Offered(category, t) \cap found = {}
      /\ others \in Seq(Offered(category, t)) /\ ToSet(others) = Offered(category, t)
      /\ Len(others) = Cardinality(Offered(category, t))
  BY AlternativesAreOffered
<1> HIDE DEF others
<1>3. SearchRows(Shelf, FilterOn(category, t), 0) = rows BY DEF SearchRows
<1> HIDE DEF found, rows
<1>4. rows \in Seq(found) /\ ToSet(rows) = found /\ Len(rows) \in 0..MaxParts
  BY <1>1, ShelfIsFinite, IdsAreOrdered DEF rows
<1>5. Len(others) \in 0..MaxParts BY <1>2, ShelfIsFinite
<1>6. limit \in Nat \ {0} OBVIOUS
<1>7. Matched(rows, others, limit) BY <1>2, <1>4, <1>5, <1>6, TwoListsAreShown DEF Matched
<1> QED BY <1>3, <1>7 DEF others

LEMMA ListsJoin ==
  ASSUME NEW S, NEW a \in Seq(S), NEW b \in Seq(S)
  PROVE  /\ a \o b \in Seq(S) /\ Len(a \o b) = Len(a) + Len(b)
         /\ Range(a \o b) = Range(a) \cup Range(b)
<1>1. a \o b \in Seq(S) /\ Len(a \o b) = Len(a) + Len(b) BY ConcatProperties
<1>2. Range(a \o b) = Range(a) \cup Range(b) BY RangeConcatenation
<1> QED BY <1>1, <1>2

(* Three lists of the parts of a partition list every part once. *)
LEMMA PartitionIsListedOnce ==
  ASSUME NEW S, NEW A \in SUBSET S, NEW B \in SUBSET S, NEW C \in SUBSET S,
         IsFiniteSet(S), A \cup B \cup C = S, A \cap B = {}, A \cap C = {}, B \cap C = {},
         NEW a \in Seq(S), ToSet(a) = A, Len(a) = Cardinality(A),
         NEW b \in Seq(S), ToSet(b) = B, Len(b) = Cardinality(B),
         NEW c \in Seq(S), ToSet(c) = C, Len(c) = Cardinality(C)
  PROVE  EachOnce(a \o b \o c, S)
<1> DEFINE ab == a \o b
<1>1. \A s : ToSet(s) = Range(s) BY DEF ToSet, Range
<1>2. ab \in Seq(S) /\ Len(ab) = Len(a) + Len(b) /\ ToSet(ab) = A \cup B
  BY <1>1, ListsJoin
<1>3. Len(ab \o c) = Len(a) + Len(b) + Len(c) /\ ToSet(ab \o c) = S
  <2> HIDE DEF ab
  <2>1. Len(ab \o c) = Len(ab) + Len(c) /\ Range(ab \o c) = Range(ab) \cup Range(c)
    <3>1. ab \in Seq(S) BY <1>2
    <3> QED BY ONLY <3>1, c \in Seq(S), ListsJoin
  <2> QED BY <1>1, <1>2, <2>1
<1>4. IsFiniteSet(A) /\ IsFiniteSet(B) /\ IsFiniteSet(C) BY FS_Subset
<1>5. IsFiniteSet(A \cup B) /\ Cardinality(A \cup B) = Cardinality(A) + Cardinality(B)
  <2>1. Cardinality(A \cap B) = 0 BY FS_EmptySet
  <2>2. /\ IsFiniteSet(A \cup B)
        /\ Cardinality(A \cup B) = Cardinality(A) + Cardinality(B) - Cardinality(A \cap B)
    BY <1>4, FS_Union
  <2>3. Cardinality(A) \in Nat /\ Cardinality(B) \in Nat BY <1>4, FS_CardinalityType
  <2> QED BY <2>1, <2>2, <2>3
<1>6. Cardinality(S) = Cardinality(A \cup B) + Cardinality(C)
  <2>1. (A \cup B) \cap C = {} /\ S = (A \cup B) \cup C OBVIOUS
  <2>2. Cardinality((A \cup B) \cap C) = 0 BY <2>1, FS_EmptySet
  <2>3. Cardinality((A \cup B) \cup C)
           = Cardinality(A \cup B) + Cardinality(C) - Cardinality((A \cup B) \cap C)
    BY <1>4, <1>5, FS_Union
  <2>4. Cardinality(A \cup B) \in Nat /\ Cardinality(C) \in Nat BY <1>4, <1>5, FS_CardinalityType
  <2>5. Cardinality(S) = Cardinality((A \cup B) \cup C) BY <2>1, Zenon
  <2> QED BY <2>2, <2>3, <2>4, <2>5
<1> QED BY <1>3, <1>5, <1>6 DEF EachOnce

(* Every requirement is answered, and in one of three ways. *)
LEMMA ThreeAnswers ==
  ASSUME NEW category, NEW known, NEW r
  PROVE  Evaluate(category, known, r) \in {"yes", "no", "open"}
<1>1. ASSUME NEW left, NEW right, NEW comparison
      PROVE  CompareIntervals(left, right, comparison) \in {"yes", "no", "open"}
  BY DEF CompareIntervals
<1> QED BY <1>1 DEF Evaluate

(* How far a fact is from a requirement it fails. *)
LEMMA DistanceIsFraction ==
  ASSUME NEW category, NEW known, \A fact \in known : States(fact), NEW r, States(r),
         Evaluate(category, known, r) = "no"
  PROVE  Distance(category, known, r) \in Fractions
<1> DEFINE fact == CHOOSE f \in FactFor(known, r.name) : TRUE
<1>1. FactFor(known, r.name) # {} BY DEF Evaluate
<1>2. fact \in FactFor(known, r.name) BY <1>1
<1>3. fact \in known BY <1>2 DEF FactFor
<1>4. \/ Distance(category, known, r) = <<1, 1>>
      \/ Distance(category, known, r) = RelativeGap(Interval(fact.value), Interval(r.value), r.comparison)
  BY DEF Distance
<1> HIDE DEF fact
<1>5. Interval(fact.value) \in Int \X Int /\ Interval(r.value) \in Int \X Int
  BY <1>3, EndsAreWhole DEF States, Interval
<1>6. RelativeGap(Interval(fact.value), Interval(r.value), r.comparison) \in Fractions
  BY <1>5, RelativeGapIsFraction
<1>7. <<1, 1>> \in Fractions BY DEF Fractions
<1> QED BY <1>4, <1>6, <1>7

LEMMA GapsSumUp ==
  ASSUME NEW S, IsFiniteSet(S), NEW gap, \A i \in S : gap[i] \in Fractions, NEW base \in Fractions
  PROVE  SumOfGaps(base, gap, S) \in Fractions
<1> DEFINE it == CHOOSE f : Adds(gap, base, f, S)
<1>1. Adds(gap, base, it, S) BY SumsExist
<1>2. SumOfGaps(base, gap, S) = it[S] BY DEF SumOfGaps, MapThenFoldSet, Adds, Adding, Picked
<1> HIDE DEF it
<1> QED BY <1>1, <1>2, SumsAreFractions

(* What a search assesses the candidates by: whole counts of the answers and *)
(* exact fractions.                                                          *)
LEMMA AssessedParts ==
  ASSUME TypeOK, NEW category, NEW t \in Texts, NEW requirements \in AskedTogether,
         NEW of, of.found \in SUBSET Shelf, of.other = Offered(category, t),
         NEW part \in of.found \cup of.other
  PROVE  LET assessed == Assessments(of, category, requirements)
             filters == FilterOn(category, t)
         IN  /\ Rank(of, assessed)[part] \in Ranks
             /\ Shortfall(of, assessed, filters, requirements)[part] \in Fractions
             /\ DOMAIN assessed[part] = DOMAIN requirements
             /\ \A i \in DOMAIN requirements : assessed[part][i] \in {"yes", "no", "open"}
<1> DEFINE assessed == Assessments(of, category, requirements)
           filters == FilterOn(category, t)
           answers == assessed[part]
           gap == [i \in DOMAIN requirements |-> Distance(category, part.facts, requirements[i])]
           base == IF part \in of.other THEN NominalGap(part.value, t, part.category) ELSE <<0, 1>>
           failed == Answered(answers, "no")
<1>1. /\ DOMAIN assessed = of.found \cup of.other
      /\ answers = [i \in DOMAIN requirements |-> Evaluate(category, part.facts, requirements[i])]
  BY DEF Assessments
<1>2. filters.part_category = category /\ filters.value = t BY DEF FilterOn
<1>3. Rank(of, assessed)[part]
         = <<-Cardinality(Answered(answers, "yes")), Cardinality(Answered(answers, "open")),
             Cardinality(Answered(answers, "no")) + (IF part \in of.other THEN 1 ELSE 0)>>
  <2> HIDE DEF assessed
  <2> QED BY <1>1 DEF Rank
<1>4. Shortfall(of, assessed, filters, requirements)[part] = SumOfGaps(base, gap, failed)
  <2> HIDE DEF assessed, filters
  <2> QED BY <1>1, <1>2 DEF Shortfall
<1> HIDE DEF assessed, answers
<1>5. DOMAIN answers = DOMAIN requirements /\ \A i \in DOMAIN requirements : answers[i] \in {"yes", "no", "open"}
  BY <1>1, ThreeAnswers
<1>6. /\ IsFiniteSet(DOMAIN requirements)
      /\ \A i \in DOMAIN requirements : States(requirements[i])
  <2>1. requirements \in Seq({requirements[i] : i \in DOMAIN requirements})
        /\ \A i \in DOMAIN requirements : States(requirements[i])
    BY Contents
  <2>2. DOMAIN requirements = 1..Len(requirements) /\ Len(requirements) \in Nat BY <2>1
  <2>3. IsFiniteSet(1..Len(requirements)) BY <2>2, FS_Interval
  <2> QED BY <2>1, <2>2, <2>3
<1>7. ASSUME NEW answer PROVE IsFiniteSet(Answered(answers, answer))
  <2>1. Answered(answers, answer) \in SUBSET (DOMAIN requirements) BY <1>5 DEF Answered
  <2> QED BY <1>6, <2>1, FS_Subset
<1>8. Rank(of, assessed)[part] \in Ranks
  <2>1. /\ Cardinality(Answered(answers, "yes")) \in Nat
        /\ Cardinality(Answered(answers, "open")) \in Nat
        /\ Cardinality(Answered(answers, "no")) \in Nat
    BY <1>7, FS_CardinalityType
  <2> QED BY <1>3, <2>1 DEF Ranks
<1>9. base \in Fractions
  <2>1. CASE part \in of.other
    <3>1. part \in Shelf /\ IsAlternative(part.value, t, part.category)
      BY <2>1 DEF Offered, SearchFilters
    <3> QED BY <2>1, <3>1, GapIsFraction
  <2>2. CASE part \notin of.other BY <2>2 DEF Fractions
  <2> QED BY <2>1, <2>2
<1>10. \A i \in failed : gap[i] \in Fractions
  <2>1. part \in Shelf BY DEF Offered, SearchFilters
  <2>2. PICK id \in Stored : part = Row(id) BY <2>1 DEF Shelf
  <2>3. part.facts = Accepted[parts[id].code] BY <2>2 DEF Row
  <2>4. \A fact \in part.facts : States(fact) BY <2>3, StoredCodes, Contents
  <2>5. ASSUME NEW i \in failed PROVE gap[i] \in Fractions
    <3>1. i \in DOMAIN requirements /\ answers[i] = "no" BY <1>5 DEF Answered
    <3>2. Evaluate(category, part.facts, requirements[i]) = "no" BY <1>1, <3>1
    <3>3. Distance(category, part.facts, requirements[i]) \in Fractions
      BY <1>6, <2>4, <3>1, <3>2, DistanceIsFraction
    <3> QED BY <3>1, <3>3
  <2> QED BY <2>5
<1>11. SumOfGaps(base, gap, failed) \in Fractions
  <2> HIDE DEF base, gap, failed
  <2>1. IsFiniteSet(failed) BY <1>7 DEF failed
  <2> QED BY <1>9, <1>10, <2>1, GapsSumUp
<1> QED BY <1>4, <1>5, <1>8, <1>11 DEF assessed, answers

LEMMA EveryCandidateIsListed ==
  ASSUME TypeOK, NEW category, NEW t \in Texts, NEW requirements \in AskedTogether, NEW limit \in 1..2,
         NEW of, of = Candidacy(Shelf, FilterOn(category, t)),
         NEW assessed, assessed = Assessments(of, category, requirements)
  PROVE  Sorted(of, SpecificationMatches(of, assessed), SpecificationIncomplete(of, assessed),
                SpecificationPartial(of, assessed, FilterOn(category, t), requirements), limit)
<1> DEFINE filters == FilterOn(category, t)
           S == of.found \cup of.other
           rank == Rank(of, assessed)
           shortfall == Shortfall(of, assessed, filters, requirements)
           Confirmed == {part \in of.found : Answered(assessed[part], "yes") = DOMAIN assessed[part]}
           Unstated == {part \in of.found : /\ Answered(assessed[part], "no") = {}
                                           /\ Answered(assessed[part], "open") # {}}
           Failed == {part \in DOMAIN assessed : part \in of.other \/ Answered(assessed[part], "no") # {}}
           matches == ById(Confirmed)
           incomplete == ById(Unstated)
           partial == Ranked(Failed, rank, shortfall)
<1>1. /\ of.found = SearchFilters(Shelf, filters, 0) /\ of.other = Offered(category, t)
      /\ of.found \in SUBSET Shelf /\ of.other \in SUBSET Shelf /\ of.other \cap of.found = {}
  <2>1. of.found = SearchFilters(Shelf, filters, 0) BY DEF Candidacy
  <2>2. of.other = ToSet(Alternatives(Shelf, filters, 0)) BY DEF Candidacy
  <2>3. of.other = Offered(category, t) BY <2>2, AlternativesAreOffered
  <2>4. of.found \in SUBSET Shelf BY <2>1 DEF SearchFilters
  <2>5. Offered(category, t) \in SUBSET Shelf /\ Offered(category, t) \cap of.found = {}
    BY <2>1, AlternativesAreOffered
  <2> QED BY <2>1, <2>3, <2>4, <2>5
<1>2. DOMAIN assessed = S BY DEF Assessments
<1>3. \A part \in S :
         /\ rank[part] \in Ranks /\ shortfall[part] \in Fractions
         /\ DOMAIN assessed[part] = DOMAIN requirements
         /\ \A i \in DOMAIN requirements : assessed[part][i] \in {"yes", "no", "open"}
  BY <1>1, AssessedParts
<1> HIDE DEF rank, shortfall, filters
<1>4. S \in SUBSET Shelf BY <1>1
<1>5. Confirmed \cup Unstated \cup Failed = S
  <2>1. ASSUME NEW part \in S, part \notin Failed, part \notin Unstated PROVE part \in Confirmed
    <3>1. part \in of.found /\ Answered(assessed[part], "no") = {} BY <1>2, <2>1
    <3>2. Answered(assessed[part], "open") = {} BY <2>1, <3>1
    <3>3. \A i \in DOMAIN assessed[part] : assessed[part][i] = "yes" BY <1>3, <3>1, <3>2 DEF Answered
    <3>4. Answered(assessed[part], "yes") = DOMAIN assessed[part] BY <3>3 DEF Answered
    <3> QED BY <3>1, <3>4
  <2>2. Confirmed \subseteq S /\ Unstated \subseteq S /\ Failed \subseteq S BY <1>2
  <2> HIDE DEF Confirmed, Unstated, Failed, S
  <2> QED BY <2>1, <2>2
<1>6. Confirmed \cap Unstated = {}
  <2> SUFFICES ASSUME NEW part \in Confirmed, part \in Unstated PROVE FALSE OBVIOUS
  <2>1. PICK i \in Answered(assessed[part], "open") : TRUE OBVIOUS
  <2>2. i \in Answered(assessed[part], "yes") BY <2>1 DEF Answered
  <2> QED BY <2>1, <2>2 DEF Answered
<1>7. Confirmed \cap Failed = {}
  <2> SUFFICES ASSUME NEW part \in Confirmed, part \in Failed PROVE FALSE OBVIOUS
  <2>1. Answered(assessed[part], "no") # {} BY <1>1
  <2>2. PICK i \in Answered(assessed[part], "no") : TRUE BY <2>1
  <2>3. i \in Answered(assessed[part], "yes") BY <2>2 DEF Answered
  <2> QED BY <2>2, <2>3 DEF Answered
<1>8. Unstated \cap Failed = {} BY <1>1
<1>9. Confirmed \in SUBSET S /\ Unstated \in SUBSET S /\ Failed \in SUBSET S BY <1>2
<1>10. /\ SpecificationMatches(of, assessed) = matches
       /\ SpecificationIncomplete(of, assessed) = incomplete
       /\ SpecificationPartial(of, assessed, filters, requirements) = partial
  BY DEF SpecificationMatches, SpecificationIncomplete, SpecificationPartial, rank, shortfall
<1> HIDE DEF Confirmed, Unstated, Failed, S
<1>11. ASSUME NEW T \in SUBSET S
       PROVE  IsFiniteSet(T) /\ Cardinality(T) \in 0..MaxParts /\ DifferentIds(T)
  BY <1>4, ShelfIsFinite
<1>12. ASSUME NEW T \in SUBSET S, NEW rows \in Seq(T) PROVE rows \in Seq(S)
  OBVIOUS
<1>13. /\ matches \in Seq(S) /\ ToSet(matches) = Confirmed /\ Len(matches) = Cardinality(Confirmed)
       /\ Len(matches) \in 0..MaxParts
  BY <1>9, <1>11, <1>12, IdsAreOrdered
<1>14. /\ incomplete \in Seq(S) /\ ToSet(incomplete) = Unstated /\ Len(incomplete) = Cardinality(Unstated)
       /\ Len(incomplete) \in 0..MaxParts
  BY <1>9, <1>11, <1>12, IdsAreOrdered
<1>15. /\ partial \in Seq(S) /\ ToSet(partial) = Failed /\ Len(partial) = Cardinality(Failed)
       /\ Len(partial) \in 0..MaxParts
  <2>1. \A part \in Failed : rank[part] \in Ranks /\ shortfall[part] \in Fractions BY <1>3, <1>9 DEF S
  <2>2. IsFiniteSet(Failed) /\ DifferentIds(Failed) /\ Cardinality(Failed) \in 0..MaxParts BY <1>9, <1>11
  <2>3. /\ partial \in Seq(Failed) /\ ToSet(partial) = Failed /\ Len(partial) = Cardinality(Failed)
    BY <2>1, <2>2, RankedAreOrdered
  <2> QED BY <1>9, <1>12, <2>2, <2>3
<1> HIDE DEF matches, incomplete, partial
<1>16. EachOnce(matches \o incomplete \o partial, S)
  <2>1. IsFiniteSet(S) BY <1>11
  <2> QED BY <1>5, <1>6, <1>7, <1>8, <1>9, <1>13, <1>14, <1>15, <2>1, PartitionIsListedOnce
<1>17. LET pages == [offset \in 0..MaxParts |->
                        SpecificationPage(matches, incomplete, partial, limit, offset)]
       IN  /\ Shown(pages, "matches") = matches /\ Shown(pages, "incomplete") = incomplete
           /\ Shown(pages, "partial") = partial
  <2>1. limit \in Nat \ {0} OBVIOUS
  <2> QED BY <1>13, <1>14, <1>15, <2>1, ThreeListsAreShown
<1>18. Sorted(of, matches, incomplete, partial, limit) BY <1>16, <1>17 DEF Sorted, S
<1> QED BY <1>10, <1>18 DEF filters

(* Following the offsets of an answer shows every part it found and every    *)
(* alternative value once, in one of its lists, for every stock, page size,  *)
(* notation and list of requirements.                                        *)
THEOREM PagesShowEverything == Spec => []PagesCoverAnswers
<1>1. TypeOK => PagesCoverAnswers
  <2> SUFFICES ASSUME TypeOK, NEW code \in Codes, NEW t \in Spellings[code], NEW limit \in 1..2
               PROVE  LET filters == FilterOn(Category[code], t)
                      IN  PagesCover(Shelf, filters, limit, Candidacy(Shelf, filters))
    BY DEF PagesCoverAnswers
  <2>1. t \in Texts BY Notations
  <2>2. FilterOn(Category[code], t).part_category = Category[code] BY DEF FilterOn
  <2> QED BY <2>1, <2>2, EveryMatchIsShown, EveryCandidateIsListed DEF PagesCover
<1> QED BY <1>1, InventoryTypes, PTL
=============================================================================
