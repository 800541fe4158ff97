-------------------------- MODULE MCBillingPeriods --------------------------
(* Instances of BillingPeriods for TLC: two months, a first and a corrected *)
(* delivery of the first month, and one delivery that straddles both.       *)
EXTENDS BillingPeriods, TLC

CONSTANTS january, january_corrected, february, straddling

MCMonths == {[start |-> 0, end |-> 2], [start |-> 2, end |-> 4]}

MCWindow ==
    [f \in Files |->
       CASE f = straddling -> [start |-> 1, end |-> 3]
         [] f = february   -> [start |-> 2, end |-> 4]
         [] OTHER          -> [start |-> 0, end |-> 2]]

OnePrefix == [v \in 0 .. MaxInputs |-> "LEG-2026"]

\* the prefix LEG-2026 in 2026, then the prefix LEG, whose pattern finds both
TwoPrefixes == [v \in 0 .. MaxInputs |-> IF v = 0 THEN "LEG-2026-2026" ELSE "LEG-2026"]

MCFinds == [s \in Series |-> IF s = "LEG-2026" THEN Series ELSE {s}]

FirstMonth == {[start |-> 0, end |-> 2]}

=============================================================================
