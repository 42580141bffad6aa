----------------------------- MODULE Quantities -----------------------------
(***************************************************************************)
(* domain/quantities.py: written quantities, the intervals they denote and *)
(* the three-valued comparison of a stored interval with a requested one.  *)
(*                                                                         *)
(* A written quantity has a decimal number, an SI prefix and the symbol of *)
(* a unit.  The number `n' counts the `Fine'-ths of one; a value counts    *)
(* the `Fine'-ths of the smallest prefix, so all arithmetic is exact, as   *)
(* with Decimal.  `Ohm' is the omega sign; the micro signs are `u'.        *)
(***************************************************************************)
EXTENDS Integers

CONSTANTS
    Power,          \* how many of the smallest prefix one of a prefix is
    Fine            \* parts of one that a written number distinguishes

Empty == ""  \* no prefix, letter, unit or number
SIPrefixes == {Empty, "p", "n", "u", "m", "k", "M", "G"}
Prefixless == {"percent", "ratio", "C"}

ASSUME PowersOfTen ==
    /\ Power \in [SIPrefixes -> Nat \ {0}]
    /\ Power["p"] < Power["n"] /\ Power["n"] < Power["u"] /\ Power["u"] < Power["m"]
    /\ Power["m"] < Power[Empty] /\ Power[Empty] < Power["k"] /\ Power["k"] < Power["M"]
    /\ Power["M"] < Power["G"]
(* Numbers have enough decimals to be written in the base unit. *)
ASSUME Decimals == Fine \in Nat \ {0} /\ Fine % Power[Empty] = 0

(* The number and the symbol of a quantity; no unit is written as "". *)
Symbol(unit) == IF unit \in {"ohm", "ohms"} THEN "Ohm" ELSE unit
Qty(n, prefix, unit) == [n |-> n, prefix |-> prefix, unit |-> unit]
WrittenQuantity == [n : Int, prefix : SIPrefixes, unit : STRING]

(* numeric_value and _quantity: whether q is a quantity of this unit, and    *)
(* which.  Only _quantity reads a sign and degrees.                          *)
IsQuantity(q, unit) ==
    /\ q.unit # Empty /\ Symbol(q.unit) = unit
    /\ q.prefix \in SIPrefixes
    /\ unit \in Prefixless => q.prefix = Empty
ValueOf(q) == q.n * Power[q.prefix]

(* A text as interval() splits it: one quantity, two with `to' or a dash     *)
(* between them, a center with its tolerance, or a word.                     *)
Scalar(q) == [form |-> "scalar", a |-> q, b |-> q]
Between(a, b) == [form |-> "range", a |-> a, b |-> b]
PlusMinus(a, b) == [form |-> "tolerance", a |-> a, b |-> b]
Word(w) == Scalar(Qty(0, Empty, w))
WrittenInterval == [form : {"scalar", "range", "tolerance"}, a : WrittenQuantity, b : WrittenQuantity]

(* A number without a symbol takes the one after it. *)
First(t) ==
    IF t.a.unit = Empty /\ t.a.prefix = Empty
    THEN Qty(t.a.n, t.b.prefix, t.b.unit) ELSE t.a

Lower(t) == ValueOf(First(t)) - (IF t.form = "tolerance" THEN ValueOf(t.b) ELSE 0)
Upper(t) == CASE t.form = "scalar" -> ValueOf(t.a)
              [] t.form = "range" -> ValueOf(t.b)
              [] OTHER -> ValueOf(First(t)) + ValueOf(t.b)

(* interval: a trailing unit is the unit of both numbers; the endpoints are  *)
(* ordered and a tolerance is not negative.                                  *)
HasInterval(t, unit) ==
    \/ t.form = "scalar" /\ IsQuantity(t.a, unit)
    \/ /\ t.form \in {"range", "tolerance"}
       /\ IsQuantity(First(t), unit) /\ IsQuantity(t.b, unit)
       /\ t.form = "range" => ValueOf(First(t)) =< ValueOf(t.b)
       /\ t.form = "tolerance" => ValueOf(t.b) >= 0
Interval(t) == <<Lower(t), Upper(t)>>

-----------------------------------------------------------------------------

Comparisons == {"eq", "gte", "lte"}

(* Fault: the favourable end of the requested interval is compared. *)
CompareFavourably(left, right, comparison) ==
    CASE comparison = "eq" -> IF left = right THEN "yes" ELSE "no"
      [] comparison = "gte" -> IF left[1] >= right[1] THEN "yes" ELSE "no"
      [] OTHER -> IF left[2] <= right[2] THEN "yes" ELSE "no"

(* compare_intervals: "yes" confirms all stored values, "no" rules the       *)
(* requirement out, an overlap is "open".                                    *)
CompareIntervals(left, right, comparison) ==
    LET Answer(confirmed, refuted) == IF confirmed THEN "yes"
                                      ELSE IF refuted THEN "no" ELSE "open"
    IN  CASE comparison = "eq" -> Answer(left = right, left[2] < right[1] \/ left[1] > right[2])
          [] comparison = "gte" -> Answer(left[1] >= right[2], left[2] < right[2])
          [] OTHER -> Answer(left[2] <= right[1], left[1] > right[1])

ContainsInterval(available, requested) ==
    available[1] <= requested[1] /\ requested[2] <= available[2]

(* relative_interval_gap, as numerator and denominator. *)
Larger(a, b) == IF a >= b THEN a ELSE b
Magnitude(a) == IF a >= 0 THEN a ELSE -a
RelativeGap(left, right, comparison) ==
    LET gap == CASE comparison = "gte" -> right[2] - left[2]
                 [] comparison = "lte" -> left[1] - right[1]
                 [] OTHER -> Larger(right[1] - left[2], left[1] - right[2])
        scale == Larger(Larger(Magnitude(left[1]), Magnitude(left[2])),
                        Larger(Magnitude(right[1]), Magnitude(right[2])))
    IN  IF scale = 0 THEN <<0, 1>> ELSE <<Larger(0, gap), scale>>
(* Sums and comparisons of such fractions. *)
PlusGap(f, g) == <<f[1] * g[2] + g[1] * f[2], f[2] * g[2]>>
LessGap(f, g) == f[1] * g[2] < g[1] * f[2]
=============================================================================
