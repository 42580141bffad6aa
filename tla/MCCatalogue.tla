---------------------------- MODULE MCCatalogue ----------------------------
(* The instance of Catalogue for TLC: a regulator with an ordering code,     *)
(* resistors of 4.5 and 5 kilo-ohms, and crystals without a mark.  The     *)
(* steps between prefixes are small; ladders and comparisons stay the same.  *)
EXTENDS Catalogue, TLC

SmallLadder ==
    [p \in SIPrefixes |-> CASE p = "p" -> 1 [] p = "n" -> 2 [] p = "u" -> 3 [] p = "m" -> 4
                            [] p = "" -> 8 [] p = "k" -> 32 [] p = "M" -> 128 [] p = "G" -> 512]
One == 8
Half == 4

CONSTANTS n1, s1, s2
MCCategory == [c \in {n1, s1, s2, Unmarked} |->
    CASE c = n1 -> "ldo" [] c \in {s1, s2} -> "resistor" [] OTHER -> "crystal"]
MCOldText == [c \in {n1, s1, s2, Unmarked} |->
    CASE c = n1 -> Text(3 * One, "", "v", FALSE)
      [] c = s1 -> Text(4 * One + Half, "k", "", TRUE)
      [] c = s2 -> Text(5 * One, "K", "", FALSE)
      [] OTHER -> Text(2 * One, "M", "hz", FALSE)]
MCSpellings == [c \in {n1, s1, s2, Unmarked} |->
    CASE c = n1 -> {Text(3 * One, "", "V", FALSE), Text(6 * One, "m", "V", FALSE)}
      [] c = s1 -> {Text(4 * One + Half, "K", "", TRUE), Text(4 * One + Half, "k", "Ohm", FALSE),
                    Text(4 * One + Half, "k", "ohm", FALSE), Bare(18 * One)}
      [] c = s2 -> {Text(5 * One, "k", "", FALSE)}
      [] OTHER -> {Text(2 * One, "M", "Hz", FALSE), Text(8 * One, "k", "Hz", FALSE)}]
MCBomFilters ==
    {[part_number |-> n1],
     FilterOn("resistor", Text(4 * One + Half, "K", "", TRUE)),
     FilterOn("resistor", Bare(18 * One))}

(* Whole volts, amperes and degrees. *)
U(k, unit) == Qty(k * One, "", unit)
Values(unit) ==
    {Scalar(U(1, unit)), Scalar(U(3, unit)), Between(U(1, ""), U(3, unit)),
     PlusMinus(U(2, unit), U(1, unit)), Between(U(3, unit), U(5, unit))}
Temperatures ==
    LET T == Key("ambient_temperature") IN
    {<<>>, T :> Scalar(U(2, "C")), T :> Between(U(1, ""), U(4, "C")),
     T :> Between(U(1, "C"), U(3, "C")),
     (T :> Scalar(U(2, "C"))) @@ (ToleranceKey("ambient_temperature") :> Scalar(U(1, "C"))),
     (T :> Scalar(U(2, "C"))) @@ (Key("load_type") :> Word("resistive"))}
Stated(name, unit, basis) ==
    [name : {name}, value : Values(unit), basis : {basis}, conditions : Temperatures]
MCKnownFacts ==
    {[name |-> s.name, value |-> s.value, basis |-> s.basis, conditions |-> s.conditions,
      kind |-> kind, number |-> n1] :
        s \in Stated("maximum_input_voltage", "V", "operating_maximum")
                 \cup Stated("rated_output_current", "A", "rated"),
        kind \in {"source", "user_assertion"}}
MCRequirements ==
    {[name |-> s.name, value |-> s.value, basis |-> s.basis, conditions |-> s.conditions,
      comparison |-> comparison] :
        s \in Stated("maximum_input_voltage", "V", "operating_maximum")
                 \cup Stated("rated_output_current", "A", "rated"),
        comparison \in Comparisons}
(* An accepted rating of the regulator; what is asked of it, of other parts, *)
(* and of two things at once.                                                *)
RatingOf(conditions) == [name |-> "maximum_input_voltage", value |-> Scalar(U(3, "V")),
                         basis |-> "operating_maximum", conditions |-> conditions]
AtTwoDegrees == Key("ambient_temperature") :> Scalar(U(2, "C"))
MCAccepted == [c \in {n1, s1, s2, Unmarked} |->
    IF c = n1 THEN {RatingOf(AtTwoDegrees) @@ [kind |-> "source", number |-> n1]} ELSE {}]
AskedFor(comparison, k, conditions) ==
    [RatingOf(conditions) EXCEPT !.value = Scalar(U(k, "V"))] @@ [comparison |-> comparison]
MCAskedTogether ==
    {<<AskedFor("gte", 3, AtTwoDegrees)>>,
     <<AskedFor("gte", 2, AtTwoDegrees), AskedFor("lte", 2, AtTwoDegrees)>>,
     <<AskedFor("gte", 2, AtTwoDegrees), AskedFor("gte", 2, <<>>)>>}
=============================================================================
