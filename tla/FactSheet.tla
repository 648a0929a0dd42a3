------------------------------ MODULE FactSheet ------------------------------
(***************************************************************************)
(* The facts an explanation may state (llm/facts.py), built from a risk    *)
(* result.  The prompt shows them and the numeric check accepts them.      *)
(*                                                                         *)
(* A figure is an integer number of hundred-thousandths, One of them being *)
(* 1.  An asset is a number, the digits of its identifier; NumericCheck    *)
(* says which identifiers have a letter too.  A fact keeps the forms in    *)
(* which the check knows it, as the code does, and also the copies a       *)
(* writer may make of its line: each a set of numbers as the check's scan  *)
(* finds them, with the marks written beside them.                         *)
(***************************************************************************)
EXTENDS Integers, Sequences, SequencesExt, Sorting

CONSTANTS
  TopPositions, \* TOP_POSITIONS
  ListedDates,  \* LISTED_DROPPED_DATES
  ListedAssets  \* LISTED_MISSING_ASSETS

ASSUME SheetAssumption ==
  TopPositions \in Nat /\ ListedDates \in Nat /\ ListedAssets \in Nat

One     == 100000
Cent    == One \div 100
Mark    == {"money", "%", "day"}
Number  == [value : Int, marks : SUBSET Mark]

(***************************************************************************)
(* A risk result as POST /explain receives it back.  weights holds each    *)
(* resubmitted weight times the sum of the notionals, so that a weight     *)
(* nobody edited equals its notional; either list is empty when the        *)
(* metadata lacks it.  missing[k] are the assets missing on the date       *)
(* dropped[k].  scalars are the other numbers of the metadata, integral    *)
(* those that JSON wrote as integers, and dates those of its strings that  *)
(* are ISO dates.                                                          *)
(***************************************************************************)
ResultType ==
  [ assets : Seq(Nat), notionals : Seq(Nat), weights : Seq(Nat),
    portfolio_value : Nat, value : Nat, confidence : 1 .. One - 1,
    horizon : Nat \ {0}, observations : Nat, as_of : Nat,
    dropped : Seq(Nat), missing : Seq(Seq(Nat)), dates : SUBSET Nat,
    scalars : SUBSET [key : STRING, value : Int, integral : BOOLEAN] ]

-----------------------------------------------------------------------------
(* One figure                                                              *)

Rounded(x, step) == ((2 * x + step) \div (2 * step)) * step

Magnitude(x) == IF x < 0 THEN -x ELSE x

Plainly(values)  == { { [value |-> v, marks |-> {}] : v \in values } }
Marked(v, mark)  == { { [value |-> v, marks |-> {mark}] } }

(***************************************************************************)
(* What the scan reads in a number printed by Python: below 1e-4 (and from *)
(* 1e16, beyond this scale) the exponent notation, read as two numbers, the*)
(* digits and the signed exponent.                                         *)
(***************************************************************************)
Printed(v) ==
  IF v = 0 \/ Magnitude(v) >= One \div 10000 THEN {v} ELSE { v * One, -5 * One }

\* _Builder.number: the value as it is, in the unit a text may give it.
AsIs(unit, v, also, mark) ==
  [ unit |-> unit, forms |-> {v} \cup also,
    copies |-> Plainly(Printed(v)) \cup (IF Printed(v) = {v} THEN mark ELSE {}) ]

Horizon(n) == AsIs("horizon", n * One, {}, Marked(n * One, "day"))

\* _money, to the cent.
Money(amount) ==
  LET c == Rounded(amount, Cent)
  IN  [unit |-> "currency", forms |-> {c}, copies |-> Marked(c, "money")]

Percentage(hundredths, also) ==
  [ unit |-> "rate", forms |-> {hundredths * (One \div 10000)} \cup also,
    copies |-> Marked(hundredths * Cent, "%") ]

\* Variant: filed among the plain figures.
PercentFiledAsPlain(part, whole) ==
  [Percentage((2 * 10000 * part + whole) \div (2 * whole), {}) EXCEPT !.unit = "plain"]

\* _percent: to 2 decimals, kept as the fraction of what is shown.
Percent(part, whole) == Percentage((2 * 10000 * part + whole) \div (2 * whole), {})

\* The confidence level and its complement.
Confidence(level) ==
  LET h == Rounded(level, One \div 10000) \div (One \div 10000)
  IN  Percentage(h, {One - h * (One \div 10000)})

Decimal(x, step) ==
  [unit |-> "plain", forms |-> {Rounded(x, step)}, copies |-> Plainly({Rounded(x, step)})]

Count(n) == Decimal(n * One, One)

\* _significant: three significant figures of any size, never an exponent.
Significant(x) ==
  LET log10[m \in Nat] == IF m < 10 THEN 0 ELSE 1 + log10[m \div 10]
      leading == log10[Magnitude(x)]
  IN  IF x = 0 THEN Count(0) ELSE Decimal(x, IF leading < 2 THEN 1 ELSE 10 ^ (leading - 2))

-----------------------------------------------------------------------------
(* A single asset                                                          *)

SingleAssetSheet(r) ==
  [ portfolio |-> FALSE, positions |-> << >>, rest |-> << >>, dropped |-> << >>,
    others |->
      { AsIs("currency", amount, {}, Marked(amount, "money")) :
          amount \in {r.value, r.portfolio_value} }
      \cup { AsIs("rate", r.confidence, {One - r.confidence}, {}),
             Horizon(r.horizon),
             AsIs("plain", r.observations * One, {}, {}) }
      \cup { AsIs(IF s.key \in {"mu", "sigma"} THEN "rate" ELSE "plain", s.value, {}, {}) :
               s \in r.scalars },
    dates |-> {r.as_of} \cup r.dates,
    names |-> ToSet(r.assets) ]

-----------------------------------------------------------------------------
(* A portfolio                                                             *)

\* math.fsum
Sum(s) ==
  LET sum[i \in 0 .. Len(s)] == IF i = 0 THEN 0 ELSE s[i] + sum[i - 1]
  IN  sum[Len(s)]

Total(r) == Sum(r.notionals)

\* _validated_notionals, float noise aside.
Consistent(r) ==
  /\ IsInjective(r.assets)
  /\ Len(r.notionals) = Len(r.assets) /\ Len(r.weights) = Len(r.assets)
  /\ Total(r) > 0 /\ Total(r) = r.portfolio_value
  /\ \A i \in DOMAIN r.assets : r.weights[i] = r.notionals[i]

\* Positions, largest first, ties by identifier.
Ranked(r) ==
  LET before == { ij \in (DOMAIN r.assets) \X (DOMAIN r.assets) :
                    LET i == ij[1]
                        j == ij[2]
                    IN  \/ r.notionals[i] > r.notionals[j]
                        \/ r.notionals[i] = r.notionals[j] /\ r.assets[i] < r.assets[j] }
  IN  SortedBy([i \in DOMAIN r.assets |-> i], before)

Upto(s, n)  == SubSeq(s, 1, IF n < Len(s) THEN n ELSE Len(s))

\* Variant: the position after the last one shown is in neither part.
AfterNext(s, n) == SubSeq(s, n + 2, Len(s))

After(s, n) == SubSeq(s, n + 1, Len(s))

Position(r, i) ==
  [ asset |-> r.assets[i], money |-> Money(r.notionals[i]),
    weight |-> Percent(r.notionals[i], Total(r)) ]

\* The amount in some positions together.
Amount(r, places) == Sum([k \in DOMAIN places |-> r.notionals[places[k]]])

\* The line for the positions not shown, if any.
Rest(r) ==
  LET rest   == After(Ranked(r), TopPositions)
      amount == Amount(r, rest)
  IN  IF rest = << >> THEN << >>
      ELSE << [count |-> Count(Len(rest)), money |-> Money(amount),
               weight |-> Percent(amount, Total(r))] >>

\* How many of n are not among those listed, when some are not.
More(n, listed) == IF n > listed THEN << Count(n - listed) >> ELSE << >>

DroppedDate(r, k) ==
  [ date |-> r.dropped[k], names |-> Upto(r.missing[k], ListedAssets),
    more |-> More(Len(r.missing[k]), ListedAssets) ]

\* _diagnostics: the condition number, the ratios, and the counts that are
\* integers.
Diagnostics(r) ==
  LET of(keys) == { s \in r.scalars : s.key \in keys }
  IN  { Significant(s.value) : s \in of({"covariance_condition_number"}) }
      \cup { Decimal(s.value, Cent) :
               s \in of({"observations_per_asset", "expected_tail_observations"}) }
      \cup { Count(s.value \div One) :
               s \in { t \in of({"n_simulations", "tail_size"}) : t.integral } }

PortfolioSheet(r) ==
  LET shown  == Upto(Ranked(r), TopPositions)
      listed == Upto([k \in DOMAIN r.dropped |-> DroppedDate(r, k)], ListedDates)
  IN  [ portfolio |-> TRUE,
        positions |-> [k \in DOMAIN shown |-> Position(r, shown[k])],
        rest      |-> Rest(r),
        dropped   |-> << [count |-> Count(Len(r.dropped)), listed |-> listed,
                          more |-> More(Len(r.dropped), ListedDates)] >>,
        others    |-> { Money(r.value), Confidence(r.confidence), Horizon(r.horizon),
                        Money(Total(r)), Count(r.observations), Count(Len(r.assets)) }
                      \cup Diagnostics(r),
        dates     |-> {r.as_of} \cup { listed[k].date : k \in DOMAIN listed },
        names     |-> { r.assets[shown[k]] : k \in DOMAIN shown }
                      \cup UNION { ToSet(listed[k].names) : k \in DOMAIN listed } ]

IsPortfolio(r) == Len(r.assets) > 1

BuildFactSheet(r) == IF IsPortfolio(r) THEN PortfolioSheet(r) ELSE SingleAssetSheet(r)

\* Every fact of a sheet, wherever it stands.
Facts(sheet) ==
  LET of(lines) == UNION { {lines[k].money, lines[k].weight} : k \in DOMAIN lines }
      counts(d) == {d.count} \cup ToSet(d.more)
                   \cup UNION { ToSet(d.listed[k].more) : k \in DOMAIN d.listed }
  IN  sheet.others \cup of(sheet.positions) \cup of(sheet.rest)
      \cup { sheet.rest[k].count : k \in DOMAIN sheet.rest }
      \cup UNION { counts(sheet.dropped[k]) : k \in DOMAIN sheet.dropped }

=============================================================================
