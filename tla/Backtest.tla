------------------------------ MODULE Backtest ------------------------------
(***************************************************************************)
(* What the engine counts in a backtest (src/quant_risk_ai/risk/           *)
(* backtesting.py).  A violation series is a sequence of Booleans, one per *)
(* day.  The likelihood ratios are functions of the counts below and are   *)
(* left out; the traffic light is computed, its probabilities as fractions *)
(* with denominator DaysPerException^n.                                    *)
(***************************************************************************)
EXTENDS Naturals, Sequences, FiniteSets, FiniteSetsExt

LOCAL INSTANCE Combinatorics

CONSTANT DaysPerException \* 1 / (1 - alpha), here a whole number

ASSUME CoverageAssumption == DaysPerException \in Nat \ {0, 1}

\* compute_violations: exceeded strictly, day by day on the shared index.
Violations(var, losses) == [ k \in DOMAIN var |-> losses[k] > var[k] ]

\* int(violations.sum())
Observed(v) == Cardinality({ k \in DOMAIN v : v[k] })

\* Variant: the last day is followed by the first.
CyclicTransitions(v) ==
  [ pair \in BOOLEAN \X BOOLEAN |->
      Cardinality({ k \in 1 .. Len(v) : << v[k], v[(k % Len(v)) + 1] >> = pair }) ]

\* christoffersen_independence_test's n00, n01, n10, n11.
Transitions(v) ==
  [ pair \in BOOLEAN \X BOOLEAN |->
      Cardinality({ k \in 1 .. Len(v) - 1 : << v[k], v[k + 1] >> = pair }) ]

\* kupiec_pof_test's statistic is a function of the violations and the days,
\* and the conditional coverage test's the sum of the other two, on one series.
Pof(v) == [n |-> Len(v), x |-> Observed(v)]
ConditionalCoverage(v) == [pof |-> Pof(v), independence |-> Transitions(v)]

\* binom.cdf(x, n, 1 / DaysPerException), times DaysPerException^n.
Cumulative(n, x) == MapThenSumSet(LAMBDA i : choose(n, i) * (DaysPerException - 1) ^ (n - i), 0 .. x)

\* traffic_light_zone, below 95%, below 99.99%, or not.
Zone(n, x) ==
  IF Cumulative(n, x) * 100 < 95 * DaysPerException ^ n THEN "green"
  ELSE IF Cumulative(n, x) * 10000 < 9999 * DaysPerException ^ n THEN "yellow" ELSE "red"

ZoneOf(v) == Zone(Len(v), Observed(v))

\* The least christoffersen_independence_test accepts; the rate needs one day.
EnoughForIndependence(v) == Len(v) >= 2

=============================================================================
