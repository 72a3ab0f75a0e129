------------------------------- MODULE Ratios -------------------------------
(* The arithmetic of the calculation layer (metrics.py): numbers are         *)
(* fractions, and what cannot be computed is missing.  The denominator of a  *)
(* missing number is zero.                                                   *)
EXTENDS Integers

Missing == << 0, 0 >>
Fractions == {Missing} \cup Int \X (Nat \ {0})
Whole(n) == << n, 1 >>

Reduced(n, d) == IF d > 0 THEN << n, d >> ELSE << -n, -d >>
Known(xs) == \A x \in xs : x # Missing

Div(a, b) ==
    IF Known({a, b}) /\ b[1] # 0 THEN Reduced(a[1] * b[2], a[2] * b[1]) ELSE Missing
Plus(a, b) == IF Known({a, b}) THEN Reduced(a[1] * b[2] + b[1] * a[2], a[2] * b[2]) ELSE Missing
Times(a, n) == IF a = Missing THEN a ELSE << a[1] * n, a[2] >>
Neg(a) == IF a = Missing THEN a ELSE << -a[1], a[2] >>
Less(a, b) == a[1] * b[2] < b[1] * a[2]
Zero(a) == a[1] = 0

\* Growth from a loss, from nothing or from an unknown number is undefined.
GrowthRatio(current, prior) ==
    IF Known({current, prior}) /\ prior[1] > 0 THEN Div(Plus(current, Neg(prior)), prior)
    ELSE Missing

-----------------------------------------------------------------------------
(* The conditions rules.json, consistency_policy.json and the checks compare *)
(* a metric with.                                                            *)

Below(metric, n, d) == [metric |-> metric, operator |-> "<", value |-> << n, d >>]
Above(metric, n, d) == [metric |-> metric, operator |-> ">", value |-> << n, d >>]
Equal(metric) == [metric |-> metric, operator |-> "==", value |-> Whole(1)]
=============================================================================
