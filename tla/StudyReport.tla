---------------------------- MODULE StudyReport ----------------------------
(***************************************************************************)
(* The evaluation of the M13 study (research/volatility/report.py, class   *)
(* Evaluation, with Holm from risk/forecast_evaluation.py): the backtests  *)
(* of each VaR series, the Diebold-Mariano tests of the pre-registered     *)
(* families, Holm's adjustment inside each family, and the hypotheses the  *)
(* rules decide from them, for the primary specification.                  *)
(*                                                                         *)
(* A forecast is a volatility model with a loss, or a VaR series with the  *)
(* quantile loss; it is known by its mean loss.  The sign of a test's      *)
(* statistic is the sign of the difference of two means; its p-value is    *)
(* any of a few, counted in units of 1/Scale.                              *)
(***************************************************************************)
EXTENDS Integers, FiniteSets, Sequences, SequencesExt, Sorting

CONSTANTS
  Scale,      \* a p-value of 1
  Level,      \* holm_level, in the same units
  PValue,     \* the p-values a test can end with
  Comparison, \* bound: the comparisons of the two families that are kept
  MeanLosses, \* what the mean losses of the forecasts can be, together
  Rejections  \* which backtests of which series can reject, together

Model == {"naive", "ewma", "garch"}

Volatility(m, loss) == [model |-> m, by |-> loss]
Var(m, distribution) == [model |-> m, by |-> distribution]
FrozenHistorical == [model |-> "frozen", by |-> "historical"]

Versus(a, b) == [a |-> a, b |-> b]

\* The comparisons that diebold_mariano_block puts in each family.
F1 == { Versus(Volatility(pair[1], loss), Volatility(pair[2], loss)) :
          pair \in {<< "ewma", "naive" >>, << "garch", "naive" >>, << "garch", "ewma" >>},
          loss \in {"qlike", "mse"} }

F2 == { Versus(Var(m, d), FrozenHistorical) : m \in Model, d \in {"normal", "fhs"} }
      \cup { Versus(Var(m, "fhs"), Var(m, "normal")) : m \in Model }
      \cup { Versus(Var(m, d), Var("naive", d)) : m \in {"ewma", "garch"}, d \in {"normal", "fhs"} }

Family == [F1 |-> F1 \cap Comparison, F2 |-> F2 \cap Comparison]

\* The comparisons the hypotheses are decided on.
EwmaOverNaive  == Versus(Var("ewma", "normal"), Var("naive", "normal"))
GarchOverNaive == Versus(Volatility("garch", "qlike"), Volatility("naive", "qlike"))
FhsOverNormal(m) == Versus(Var(m, "fhs"), Var(m, "normal"))

Forecast == { t.a : t \in Comparison } \cup { t.b : t \in Comparison }
            \cup { Volatility(m, "qlike") : m \in Model }

Backtest == [series : { Var(m, d) : m \in Model, d \in {"normal", "fhs"} },
             test : {"kupiec", "independence"}]

ASSUME StudyAssumption ==
  /\ Scale \in Nat /\ Level \in 1 .. Scale - 1
  /\ PValue \subseteq 0 .. Scale
  /\ Comparison \subseteq F1 \cup F2 /\ IsFiniteSet(Comparison)
  /\ {EwmaOverNaive, GarchOverNaive} \cup { FhsOverNormal(m) : m \in Model } \subseteq Comparison
  /\ MeanLosses \subseteq [Forecast -> Nat]
  /\ Rejections \subseteq SUBSET Backtest

VARIABLES
  meanLoss,   \* the mean loss of each forecast over the out-of-sample days
  rejected,   \* the backtests of the series block that reject
  dm,         \* per family evaluated so far, the entry of each test
  exclusions, \* holm_exclusions, per family
  hypotheses, \* hypotheses_block, or the empty record
  phase       \* where build is

vars == << meanLoss, rejected, dm, exclusions, hypotheses, phase >>

NoVerdict == [ h \in {} |-> FALSE ]

-----------------------------------------------------------------------------
(* Holm                                                                    *)

Larger(x, y)  == IF x > y THEN x ELSE y
Smaller(x, y) == IF x < y THEN x ELSE y

Below(p) == { st \in (DOMAIN p) \X (DOMAIN p) : p[st[1]] < p[st[2]] }

\* Smallest p-value first.  The code breaks ties by name; no adjusted value
\* depends on how they are broken.
Ordered(p) == SortedBy(SetToSeq(DOMAIN p), Below(p))

Rank(ordered, t) == CHOOSE i \in DOMAIN ordered : ordered[i] = t

\* (m - rank) p for the i-th p-value, capped at 1.
Step(p, ordered, i) == Smaller(Scale, (Len(ordered) - i + 1) * p[ordered[i]])

\* Variant: no running maximum.
HolmWithoutMaximum(p) ==
  LET ordered == Ordered(p)
  IN  [ t \in DOMAIN p |-> Step(p, ordered, Rank(ordered, t)) ]

RunningMaximum(p, ordered) ==
  LET running[i \in 0 .. Len(ordered)] ==
        IF i = 0 THEN 0 ELSE Larger(running[i - 1], Step(p, ordered, i))
  IN  running

\* holm_adjusted_p_values.
Holm(p) ==
  LET ordered == Ordered(p)
      running == RunningMaximum(p, ordered)
  IN  [ t \in DOMAIN p |-> running[Rank(ordered, t)] ]

-----------------------------------------------------------------------------
(* The Diebold-Mariano tests                                               *)

\* diebold_mariano raises InvalidParameterError: there is no p-value.
NoPValue == Scale + 1

Difference(t) == meanLoss[t.a] - meanLoss[t.b]

\* diebold_mariano of one pair.  No test when the differential has no variance:
\* the same losses, or losses a constant apart, unless rounding leaves some.
\* Otherwise a statistic of 0, and so a p-value of 1, when the means are equal.
DieboldMariano(t) ==
  {NoPValue} \cup (IF Difference(t) = 0 THEN {Scale} ELSE PValue)

Outcomes(family) ==
  { o \in [family -> {NoPValue, Scale} \cup PValue] :
      \A t \in family : o[t] \in DieboldMariano(t) }

Undefined == [defined |-> FALSE]

\* An entry of _dm with a p-value, after Holm.
Entry(t, p, adjusted) ==
  [ defined     |-> TRUE,
    p_value     |-> p,
    negative    |-> Difference(t) < 0,
    adjusted    |-> adjusted,
    significant |-> adjusted <= Level,
    kind        |-> IF adjusted <= Level THEN "significant difference"
                    ELSE "descriptive difference" ]

\* Variant: an undefined test counts in its family, as if its p-value were 1.
DmCountingUndefined(family, outcome) ==
  LET holm == Holm([ t \in family |-> IF outcome[t] = NoPValue THEN Scale ELSE outcome[t] ])
  IN  [ t \in family |-> IF outcome[t] = NoPValue THEN Undefined
                         ELSE Entry(t, outcome[t], holm[t]) ]

\* _dm: an undefined test is left out of the adjustment of the others.
Dm(family, outcome) ==
  LET holm == Holm([ t \in { u \in family : outcome[u] # NoPValue } |-> outcome[t] ])
  IN  [ t \in family |-> IF t \in DOMAIN holm THEN Entry(t, outcome[t], holm[t])
                         ELSE Undefined ]

\* Variant: only the families with an undefined test are listed.
ExclusionsWhereAny(entries) ==
  [ f \in { g \in DOMAIN entries : \E t \in DOMAIN entries[g] : ~entries[g][t].defined } |->
      { t \in DOMAIN entries[f] : ~entries[f][t].defined } ]

HolmExclusions(entries) ==
  [ f \in DOMAIN entries |-> { t \in DOMAIN entries[f] : ~entries[f][t].defined } ]

-----------------------------------------------------------------------------
(* The hypotheses                                                          *)

\* Variant: a significant difference in either direction.
Differs(entry) == entry.defined /\ entry.significant

FavoursA(entry) == entry.defined /\ entry.significant /\ entry.negative

Rejects(series, test) == [series |-> series, test |-> test] \in rejected

\* The lowest QLIKE; ties go to the first name in alphabetical order.
LowestQlike ==
  LET names  == << "ewma", "garch", "naive" >>
      qlike(i) == meanLoss[Volatility(names[i], "qlike")]
      best   == CHOOSE i \in 1 .. 3 : \A j \in 1 .. 3 : \/ qlike(i) < qlike(j)
                                                        \/ qlike(i) = qlike(j) /\ i <= j
  IN  names[best]

Hypotheses ==
  [ H1 |-> FavoursA(dm.F2[EwmaOverNaive]) /\ ~Rejects(Var("ewma", "normal"), "independence"),
    H2 |-> FavoursA(dm.F1[GarchOverNaive]),
    H3 |-> Rejects(Var(LowestQlike, "normal"), "kupiec"),
    lowest_qlike_model |-> LowestQlike,
    H4 |-> [ m \in Model |-> FavoursA(dm.F2[FhsOverNormal(m)])
                             /\ ~Rejects(Var(m, "fhs"), "kupiec") ] ]

-----------------------------------------------------------------------------
(* build                                                                   *)

Init ==
  /\ meanLoss \in MeanLosses
  /\ rejected = {} /\ dm = NoVerdict /\ exclusions = NoVerdict /\ hypotheses = NoVerdict
  /\ phase = "series"

SeriesBlock ==
  /\ phase = "series"
  /\ rejected' \in Rejections
  /\ phase' = "diebold_mariano"
  /\ UNCHANGED << meanLoss, dm, exclusions, hypotheses >>

NextFamily == IF "F1" \in DOMAIN dm THEN "F2" ELSE "F1"

DieboldMarianoBlock ==
  /\ phase = "diebold_mariano"
  /\ \E outcome \in Outcomes(Family[NextFamily]) :
       dm' = [ f \in DOMAIN dm \cup {NextFamily} |->
                 IF f = NextFamily THEN Dm(Family[f], outcome) ELSE dm[f] ]
  /\ phase' = IF NextFamily = "F2" THEN "exclusions" ELSE phase
  /\ UNCHANGED << meanLoss, rejected, exclusions, hypotheses >>

ListExclusions ==
  /\ phase = "exclusions"
  /\ exclusions' = HolmExclusions(dm)
  /\ phase' = "hypotheses"
  /\ UNCHANGED << meanLoss, rejected, dm, hypotheses >>

HypothesesBlock ==
  /\ phase = "hypotheses"
  /\ hypotheses' = Hypotheses
  /\ phase' = "done"
  /\ UNCHANGED << meanLoss, rejected, dm, exclusions >>

Next == SeriesBlock \/ DieboldMarianoBlock \/ ListExclusions \/ HypothesesBlock

Spec == Init /\ [][Next]_vars

-----------------------------------------------------------------------------
(* Properties                                                              *)

Defined(f) == { t \in DOMAIN dm[f] : dm[f][t].defined }

\* The closed test of Bonferroni's: t is rejected when every set of tests it is
\* in is rejected as a whole, whatever the order of the tests.
ClosedTestRejects(f, t) ==
  \A S \in SUBSET Defined(f) :
    t \in S => \E u \in S : Cardinality(S) * dm[f][u].p_value <= Level

\* Holm's loop rejects exactly what the closed test over the defined tests of
\* that family rejects: undefined tests and the other family do not enter, ties
\* do not matter, and the adjusted p-values keep the order of the raw ones.
HolmIsClosedTest ==
  \A f \in DOMAIN dm : \A t \in Defined(f) :
    /\ dm[f][t].significant <=> ClosedTestRejects(f, t)
    /\ dm[f][t].adjusted \in dm[f][t].p_value .. Scale
    /\ \A u \in Defined(f) :
         dm[f][t].p_value <= dm[f][u].p_value => dm[f][t].adjusted <= dm[f][u].adjusted

\* When the report is complete, each test of each family is either labelled,
\* significant or descriptive, or listed with the undefined ones of its family,
\* and a family with nothing to list is listed too.
EveryTestReported ==
  phase = "done" =>
    /\ DOMAIN exclusions = DOMAIN Family
    /\ \A f \in DOMAIN Family :
         /\ DOMAIN dm[f] = Family[f]
         /\ Defined(f) \cap exclusions[f] = {}
         /\ Family[f] = Defined(f) \cup exclusions[f]

\* A supported hypothesis rests on a test that is defined and rejected inside
\* its own family, in favour of the named forecast, and on the backtest its rule
\* names; and the blocks agree: with H2 supported the lowest-QLIKE model, which
\* H3 is about, is not Naive, although it is found from the means alone.
SupportedOnEvidence ==
  phase = "done" =>
    LET better(f, t) == /\ t \notin exclusions[f]
                        /\ ClosedTestRejects(f, t)
                        /\ meanLoss[t.a] < meanLoss[t.b]
    IN /\ hypotheses.H1 => /\ better("F2", EwmaOverNaive)
                           /\ ~Rejects(Var("ewma", "normal"), "independence")
       /\ hypotheses.H2 => /\ better("F1", GarchOverNaive)
                           /\ hypotheses.lowest_qlike_model # "naive"
       /\ \A m \in Model :
            hypotheses.H4[m] => better("F2", FhsOverNormal(m)) /\ ~Rejects(Var(m, "fhs"), "kupiec")

=============================================================================
