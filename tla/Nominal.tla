------------------------------ MODULE Nominal ------------------------------
(***************************************************************************)
(* domain/nominal.py: the notations of a nominal value and its display,    *)
(* and the parts of domain/normalization.py and domain/search.py that      *)
(* compare them.                                                           *)
(*                                                                         *)
(* A text is a sign, a number, the letter and the unit written after it;   *)
(* with `infix' the letter stands in the place of the decimal point (4k7). *)
(* Letters and units keep their case: it tells milli from mega, and the    *)
(* stock of earlier releases has lost it.                                  *)
(***************************************************************************)
EXTENDS Quantities

BaseUnits == {"Ohm", "F", "H", "A", "V", "W", "Hz", "s", "m", "cd", "VA", "percent",
              "ratio", "V/s"}
(* CATEGORY_UNITS, by the category's name in lower case; "" is unknown. *)
CategoryUnit(category) ==
    CASE category \in {"resistor", "potentiometer", "resistance"} -> "Ohm"
      [] category \in {"capacitor", "capacitance"} -> "F"
      [] category \in {"inductor", "inductance"} -> "H"
      [] category \in {"current", "amperage"} -> "A"
      [] category = "voltage" -> "V"
      [] category = "power" -> "W"
      [] category = "frequency" -> "Hz"
      [] OTHER -> Empty

Text(n, letter, unit, infix) ==
    [sign |-> Empty, n |-> n, letter |-> letter, unit |-> unit, infix |-> infix]
Texts == [sign : {Empty, "-"}, n : Nat, letter : STRING, unit : STRING, infix : BOOLEAN]
Bare(n) == Text(n, Empty, Empty, FALSE)
Whole(n) == n % Fine = 0

(* letter.lower(); letters without a case stay what they are. *)
Lowered(letter) ==
    CASE letter = "R" -> "r" [] letter = "K" -> "k" [] letter = "M" -> "m"
      [] letter = "G" -> "g" [] letter = "P" -> "p" [] letter = "N" -> "n"
      [] letter = "U" -> "u" [] OTHER -> letter
(* Units whose case an earlier release has lost. *)
Restored == [a |-> "A", A |-> "A", v |-> "V", V |-> "V", w |-> "W", W |-> "W",
             f |-> "F", F |-> "F", h |-> "H", H |-> "H", hz |-> "Hz", Hz |-> "Hz", HZ |-> "Hz"]

Nothing == [v |-> 0, unit |-> Empty]
Quantity(t, prefix, unit) ==
    [v |-> (IF t.sign = "-" THEN -1 ELSE 1) * t.n * Power[prefix], unit |-> unit]

(* _PREFIX_EXPONENTS and _PASSIVE_PREFIXES. *)
OhmLetters == {"r", "k", "m", "g"}
OhmPrefix(letter) == CASE letter = "k" -> "k" [] letter = "m" -> "M"
                       [] letter = "g" -> "G" [] OTHER -> Empty
PassiveLetters == {"p", "n", "u", "m"}

(* The shorthand of one known dimension: a letter in the place of the point  *)
(* or after an unsigned number.  Ohms spelled out count as a letter.         *)
SpelledOhms == {"ohm", "ohms"}
OhmShorthand(t) ==
    /\ t.sign = Empty /\ t.unit \in SpelledOhms \cup {Empty}
    /\ t.infix => t.unit = Empty
    /\ Lowered(t.letter) \in OhmLetters \/ (t.letter = Empty /\ t.unit \in SpelledOhms)
PassiveShorthand(t, unit) ==
    /\ t.sign = Empty
    /\ IF t.infix THEN t.unit = Empty /\ Lowered(t.letter) \in PassiveLetters
       ELSE /\ t.letter \in PassiveLetters
            /\ t.unit = Empty \/ (t.unit \in DOMAIN Restored /\ Restored[t.unit] = unit)
Shorthand(t, unit) ==
    CASE unit = "Ohm" /\ OhmShorthand(t) -> Quantity(t, OhmPrefix(Lowered(t.letter)), unit)
      [] unit \in {"F", "H"} /\ PassiveShorthand(t, unit) ->
            Quantity(t, IF t.letter = "M" THEN "M" ELSE Lowered(t.letter), unit)
      [] OTHER -> Nothing

(* An explicit SI prefix and unit; without a unit the letter m is the metre. *)
Explicit(t, candidates) ==
    LET unit == IF t.unit \in DOMAIN Restored THEN Restored[t.unit] ELSE t.unit
        q == IF t.unit = Empty /\ t.letter = "m" THEN Qty(t.n, Empty, "m")
             ELSE Qty(t.n, t.letter, unit)
        known == {c \in candidates : IsQuantity(q, c)}
    IN  IF t.infix \/ known = {} THEN Nothing
        ELSE Quantity(t, q.prefix, CHOOSE c \in known : TRUE)

(* parse_nominal: the first notation that applies. *)
ParseNominal(t, unit) ==
    IF unit # Empty /\ t.letter = Empty /\ t.unit = Empty THEN Quantity(t, Empty, unit)
    ELSE IF Shorthand(t, unit) # Nothing THEN Shorthand(t, unit)
    ELSE IF unit = Empty /\ t.sign = Empty /\ Lowered(t.letter) = "r" /\ t.unit = Empty /\ ~t.infix
    THEN Quantity(t, Empty, "Ohm")
    ELSE Explicit(t, IF unit # Empty THEN {unit} ELSE BaseUnits)

(* nominal_for_category *)
NominalFor(t, category, unit) ==
    ParseNominal(t, IF unit # Empty THEN unit ELSE CategoryUnit(category))

(* NominalQuantity.decimal as a text without a unit. *)
Canonical(q) == [Bare(Magnitude(q.v) \div Power[Empty]) EXCEPT !.sign = IF q.v < 0 THEN "-" ELSE Empty]

(* NominalQuantity.display: ohms with the multiplier for the point, every    *)
(* other unit with the largest prefix the number has one of.                 *)
DisplayPrefix(q) ==
    LET Reaches(p) == Magnitude(q.v) >= Fine * Power[p]
        Ladder(ps, least) ==
            LET reached == {p \in ps : Reaches(p)} IN
            IF reached = {} THEN least
            ELSE CHOOSE p \in reached : \A other \in reached : Power[other] =< Power[p]
    IN  CASE q.unit = "Ohm" -> Ladder({"k", "M", "G"}, Empty)
          [] q.unit \in Prefixless \cup {"V/s"} \/ (q.unit # "Ohm" /\ q.v = 0) -> Empty
          [] OTHER -> Ladder(SIPrefixes, "p")
Display(q) ==
    LET prefix == DisplayPrefix(q)
        n == Magnitude(q.v) \div Power[prefix]
        shown == CASE q.unit # "Ohm" -> Text(n, prefix, q.unit, FALSE)
                   [] q.unit = "Ohm" /\ prefix = Empty -> Text(n, "R", Empty, ~Whole(n))
                   [] OTHER -> Text(n, prefix, Empty, ~Whole(n))
    IN  [shown EXCEPT !.sign = IF q.v < 0 THEN "-" ELSE Empty]

-----------------------------------------------------------------------------
(* search.py *)

(* Fault: the unit that is stored with a value is left out. *)
ValuesMatchByCategory(stored, requested, category, unit) ==
    LET left == NominalFor(stored, category, Empty)
        right == NominalFor(requested, category, Empty)
    IN  IF left # Nothing \/ right # Nothing THEN left = right ELSE stored = requested

(* values_match: texts that denote nothing are compared as written. *)
ValuesMatch(stored, requested, category, unit) ==
    LET left == NominalFor(stored, category, unit)
        right == NominalFor(requested, category, unit)
    IN  IF left # Nothing \/ right # Nothing THEN left = right ELSE stored = requested

(* nominal_mismatch: whether a stored value is offered as an alternative,    *)
(* and how far off it is.                                                    *)
IsAlternative(stored, requested, category) ==
    LET left == NominalFor(stored, category, Empty)
        right == NominalFor(requested, category, Empty)
    IN  /\ category \in {"resistor", "capacitor", "inductor"}
        /\ left # Nothing /\ right # Nothing /\ left # right
NominalGap(stored, requested, category) ==
    LET At(t) == LET v == NominalFor(t, category, Empty).v IN <<v, v>>
    IN  RelativeGap(At(stored), At(requested), "eq")

-----------------------------------------------------------------------------
(* normalization.py *)

(* normalize_part_payload: how validate_fields stores a value. *)
Stores(t, category, unit) ==
    LET q == NominalFor(t, category, unit) IN
    IF q # Nothing THEN [value |-> Canonical(q), unit |-> q.unit] ELSE [value |-> t, unit |-> unit]
=============================================================================
