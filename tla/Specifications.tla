--------------------------- MODULE Specifications ---------------------------
(***************************************************************************)
(* domain/specification_conditions.py and domain/specifications.py: when   *)
(* an accepted electrical fact confirms a requirement.                     *)
(*                                                                         *)
(* Conditions are functions from keys to texts; the key of a condition's   *)
(* tolerance is the pair <<name, "tolerance">>.  Of the tables of          *)
(* categories the linear regulator and the capacitor are here; the others  *)
(* have the same form.                                                     *)
(***************************************************************************)
EXTENDS Quantities, Sequences, FiniteSets

Key(name) == <<name, "value">>
ToleranceKey(name) == <<name, "tolerance">>
AreConditions(raw) ==
    /\ DOMAIN raw \subseteq STRING \X {"value", "tolerance"}
    /\ raw \in [DOMAIN raw -> WrittenInterval]

(* _CONDITION_UNITS: the names whose dimension is interpreted; "" is none. *)
ConditionUnit(name) ==
    CASE name \in {"ambient_temperature", "junction_temperature", "rating_temperature",
                   "measurement_temperature"} -> "C"
      [] name \in {"output_current", "forward_current"} -> "A"
      [] name \in {"input_voltage", "output_voltage"} -> "V"
      [] name = "measurement_frequency" -> "Hz"
      [] OTHER -> Empty

(* A condition as it is compared: an interval of a unit, or the text.        *)
Literal(t) == [unit |-> Empty, ends |-> <<0, 0>>, text |-> t]
Measured(unit, ends) == [unit |-> unit, ends |-> ends, text |-> Word(Empty)]

IsScalar(t, unit) == HasInterval(t, unit) /\ Lower(t) = Upper(t)
(* A center and its tolerance, each one explicit number. *)
Combines(raw, name) ==
    LET unit == ConditionUnit(name) IN
    /\ IsScalar(raw[Key(name)], unit) /\ IsScalar(raw[ToleranceKey(name)], unit)
    /\ Lower(raw[ToleranceKey(name)]) >= 0

(* comparable_conditions: voltage_type is the older name of current_type, a  *)
(* resistive load has two spellings, and a tolerance joins its center.       *)
Renamed(raw, key) ==
    key = Key("voltage_type") /\ Key("current_type") \notin DOMAIN raw
Joined(raw, key) ==
    /\ key[2] = "tolerance" /\ ConditionUnit(key[1]) # Empty
    /\ Key(key[1]) \in DOMAIN raw /\ Combines(raw, key[1])
ComparableValue(raw, name) ==
    LET t == raw[Key(name)]
        unit == ConditionUnit(name)
        hasTolerance == ToleranceKey(name) \in DOMAIN raw
    IN  IF name = "load_type" /\ t = Word("resistive load") THEN Literal(Word("resistive"))
        ELSE IF unit = Empty \/ ~HasInterval(t, unit) THEN Literal(t)
        ELSE IF ~hasTolerance THEN Measured(unit, Interval(t))
        ELSE IF Combines(raw, name)
        THEN LET center == Lower(t)
                 delta == Lower(raw[ToleranceKey(name)])
             IN  Measured(unit, <<center - delta, center + delta>>)
        ELSE Literal(t)
ComparableConditions(raw) ==
    LET kept == {key \in DOMAIN raw : ~Renamed(raw, key) /\ ~Joined(raw, key)}
        added == IF \E key \in DOMAIN raw : Renamed(raw, key) THEN {Key("current_type")} ELSE {}
    IN  [key \in kept \cup added |->
            CASE key \in added -> Literal(raw[Key("voltage_type")])
              [] key[2] = "tolerance" -> Literal(raw[key])
              [] OTHER -> ComparableValue(raw, key[1])]

SameConditions(left, right) == ComparableConditions(left) = ComparableConditions(right)

(* conditions_cover: every condition of either side is one of the other. *)
ConditionsCover(available, requested) ==
    LET left == ComparableConditions(available)
        right == ComparableConditions(requested)
    IN  /\ DOMAIN left = DOMAIN right
        /\ \A key \in DOMAIN left :
              IF left[key].unit # Empty /\ right[key].unit # Empty
              THEN /\ left[key].unit = right[key].unit
                   /\ ContainsInterval(left[key].ends, right[key].ends)
              ELSE left[key] = right[key]

-----------------------------------------------------------------------------
(* Facts, requirements and their evaluation.                                 *)

(* search_category: families with several names; others match as written.    *)
SearchCategory(category) ==
    CASE category \in {"linear regulator", "ldo"} -> "linear regulator"
      [] category \in {"buck converter", "buckconverter"} -> "buck converter"
      [] category \in {"led", "light emitting diode"} -> "led"
      [] category \in {"op amp", "operational amplifier"} -> "operational amplifier"
      [] category \in {"bjt", "bipolar transistor"} -> "bjt"
      [] category \in {"mosfet", "mosfets"} -> "mosfet"
      [] category \in {"diode", "diodes"} -> "diode"
      [] category \in {"transistor", "transistors"} -> "transistor"
      [] OTHER -> category

Def(unit, basis, choices) == [unit |-> unit, basis |-> basis, choices |-> choices]
NoDefinition == Def(Empty, Empty, {})
(* SPECIFICATIONS, for a category under its common name. *)
TableEntry(category, name) ==
    CASE category = "linear regulator" /\ name = "minimum_input_voltage"
            -> Def("V", "operating_minimum", {})
      [] category = "linear regulator" /\ name = "maximum_input_voltage"
            -> Def("V", "operating_maximum", {})
      [] category = "linear regulator" /\ name = "absolute_maximum_input_voltage"
            -> Def("V", "absolute_maximum", {})
      [] category = "linear regulator" /\ name = "output_mode"
            -> Def(Empty, "nominal", {"fixed", "adjustable"})
      [] category = "linear regulator" /\ name = "output_voltage" -> Def("V", "nominal", {})
      [] category = "linear regulator" /\ name = "rated_output_current" -> Def("A", "rated", {})
      [] category = "linear regulator" /\ name = "dropout_voltage" -> Def("V", "maximum", {})
      [] category = "linear regulator" /\ name = "quiescent_current" -> Def("A", "typical", {})
      [] category = "capacitor" /\ name = "capacitance" -> Def("F", "nominal", {})
      [] category = "capacitor" /\ name = "tolerance" -> Def("percent", "maximum", {})
      [] category = "capacitor" /\ name = "rated_voltage" -> Def("V", "rated", {})
      [] category = "capacitor" /\ name = "dielectric" -> Def(Empty, "nominal", {})
      [] OTHER -> NoDefinition
(* definition() *)
Definition(category, name) == TableEntry(SearchCategory(category), name)

OperatingBases == {"operating_minimum", "operating_maximum"}

(* MINIMUM_SOURCE_CONDITIONS: of every group one condition is stated. *)
Temperature == {"ambient_temperature", "junction_temperature"}
RequiredGroups(category, name) ==
    CASE category = "linear regulator" /\ name \in {"minimum_input_voltage", "maximum_input_voltage",
            "absolute_maximum_input_voltage", "rated_output_current"} -> {Temperature}
      [] category = "linear regulator" /\ name \in {"output_voltage", "quiescent_current"}
            -> {{"input_voltage"}, {"output_current"}, Temperature}
      [] category = "linear regulator" /\ name = "dropout_voltage"
            -> {{"output_current"}, {"output_voltage"}, Temperature}
      [] category = "capacitor" /\ name = "capacitance"
            -> {{"measurement_frequency"}, {"measurement_temperature"}}
      [] category = "capacitor" /\ name = "rated_voltage"
            -> {{"current_type", "voltage_type"}, {"rating_temperature"}}
      [] OTHER -> {}
MissingQualifiers(category, fact) ==
    {group \in RequiredGroups(SearchCategory(category), fact.name) :
        \A name \in group : Key(name) \notin DOMAIN fact.conditions}

(* _value: the value has the unit or is one of the choices of its name. *)
ValidValue(category, name, value, basis) ==
    LET item == Definition(category, name) IN
    /\ item # NoDefinition /\ basis = item.basis
    /\ IF item.unit # Empty THEN HasInterval(value, item.unit) /\ Lower(value) >= 0
       ELSE item.choices # {} => value \in {Word(choice) : choice \in item.choices}

(* validate_facts: the contract of what may be proposed for a part with this *)
(* ordering code.  Evidence is a source, which names the code, or a user's   *)
(* assertion.                                                                *)
ValidFacts(category, known, number) ==
    \A fact \in known :
        /\ \A other \in known : other.name = fact.name => other = fact
        /\ ValidValue(category, fact.name, fact.value, fact.basis)
        /\ fact.name \in {"resistance", "capacitance", "inductance"} =>
              Lower(fact.value) = Upper(fact.value)
        /\ fact.kind \in {"source", "user_assertion"}
        /\ fact.kind = "source" => number # Empty /\ fact.number = number

(* validate_requirements *)
ValidRequirement(category, r) ==
    /\ r.comparison \in Comparisons
    /\ ValidValue(category, r.name, r.value, r.basis)
    /\ Definition(category, r.name).unit = Empty => r.comparison = "eq"

(* The fact of an evaluated name; a later fact replaces an earlier one.      *)
FactFor(known, name) == {fact \in known : fact.name = name}

(* Which facts evaluate() compares at all; only the bounds of an operating   *)
(* range hold between the conditions they are stated for.                    *)
Applies(category, fact, r) ==
    /\ fact.kind = "source" /\ fact.basis = r.basis
    /\ MissingQualifiers(category, fact) = {}
    /\ IF r.basis \in OperatingBases THEN ConditionsCover(fact.conditions, r.conditions)
       ELSE SameConditions(fact.conditions, r.conditions)

(* evaluate: one requirement against the facts of a part.                    *)
Evaluate(category, known, r) ==
    LET fact == CHOOSE f \in FactFor(known, r.name) : TRUE
        measured == Definition(category, r.name).unit # Empty
    IN  IF FactFor(known, r.name) = {} \/ ~Applies(category, fact, r) THEN "open"
        ELSE IF measured
        THEN CompareIntervals(Interval(fact.value), Interval(r.value), r.comparison)
        ELSE IF fact.value = r.value THEN "yes" ELSE "no"
(* What a failed requirement adds to the distance of a partial match. *)
Distance(category, known, r) ==
    LET fact == CHOOSE f \in FactFor(known, r.name) : TRUE IN
    IF Definition(category, r.name).unit = Empty THEN <<1, 1>>
    ELSE RelativeGap(Interval(fact.value), Interval(r.value), r.comparison)
=============================================================================
