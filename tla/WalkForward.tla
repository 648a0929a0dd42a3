----------------------------- MODULE WalkForward -----------------------------
(***************************************************************************)
(* The GARCH walk-forward of the M13 study (research/volatility/garch.py   *)
(* and walk_forward.py): monthly refits that may fail, a forecast for each *)
(* out-of-sample day from the parameters in force, and the residual        *)
(* windows of filtered historical simulation, for the primary              *)
(* specification, the one that also has out-of-sample residuals.           *)
(*                                                                         *)
(* A trading day is its position in the return series.  Figures are left   *)
(* out: a forecast is the parameters it uses, whether they are flagged     *)
(* stale, and the positions of the returns that enter it.                  *)
(***************************************************************************)
EXTENDS Integers, FiniteSets

CONSTANTS
  N,              \* the returns are at positions 0 .. N - 1
  Calendar,       \* calendars: the month of each position, never decreasing
  GarchWindow,    \* returns in a fit
  ResidualWindow, \* the lengths an FHS window of standardised residuals may have
  ModelWindow,    \* the naive and EWMA window lengths
  RvWindow        \* RV_WINDOW, of the realised volatility behind the regimes

Position == 0 .. N - 1

ASSUME WalkForwardAssumption ==
  /\ N \in Nat /\ GarchWindow \in Nat \ {0} /\ RvWindow \in Nat \ {0}
  /\ ResidualWindow \subseteq Nat \ {0} \* GarchWindow in PRIMARY and W250; nothing checks it
  /\ ModelWindow \subseteq Nat
  /\ \A m \in Calendar : /\ m \in [Position -> Nat]
                         /\ \A s, t \in Position : s <= t => m[s] <= m[t]

VARIABLES
  month,        \* the calendar
  first, last,  \* the first and last out-of-sample positions
  r_window,     \* the specification's residual_window
  phase,        \* where run_walk_forward is
  error,        \* the exception that stopped it, or "none"
  log,          \* per schedule, the status of each refit attempted
  forecast,     \* per out-of-sample day, the GARCH forecast
  actual        \* per position, the forecast garch_fhs_oos standardises by

vars == << month, first, last, r_window, phase, error, log, forecast, actual >>

Schedule == {"primary", "primary_pre_oos"}

Phase == {"history", "refits", "days", "pre_refits", "oos_residuals", "done", "stopped"}

Empty == [ p \in {} |-> "ok" ]

Oos == first .. last
Pre == (first - r_window) .. (first - 1)

-----------------------------------------------------------------------------
(* garch.py                                                                *)

\* Variant: the first month is refitted again on its second trading day.
RefitDatesTwice(from, to) ==
  {from} \cup { p \in from + 1 .. to : \A q \in from + 1 .. p - 1 : month[q] # month[p] }

\* monthly_refit_dates: `from`, then the first trading day of each later month.
RefitDates(from, to) ==
  {from} \cup { p \in from + 1 .. to :
                  /\ month[p] # month[from]
                  /\ \A q \in from + 1 .. p - 1 : month[q] # month[p] }

\* What the optimiser ends with, and classify_fit's verdict on it.
FitOutcome == {"valid", "inadmissible", "unconverged", "raised"}
Classify(outcome) == IF outcome = "valid" THEN "ok" ELSE "failed"

\* Variant: the refit day's own return is in the window.
FitWindowWithRefitDay(p) == (p - GarchWindow + 1) .. p

\* The window returns that end the day before the refit.
FitWindow(p) == (p - GarchWindow) .. (p - 1)

Attempted(s, t) == { p \in DOMAIN log[s] : p <= t }
Valid(s, t)     == { p \in Attempted(s, t) : log[s][p] = "ok" }
LatestOf(S)     == CHOOSE p \in S : \A q \in S : p >= q

InForce(s, t)   == LatestOf(Valid(s, t))

\* Variant: any failure so far makes the parameters stale.
StaleOnceFailed(s, t) == \E p \in Attempted(s, t) : log[s][p] = "failed"

IsStale(s, t)   == /\ Attempted(s, t) # {}
                   /\ log[s][LatestOf(Attempted(s, t))] = "failed"

-----------------------------------------------------------------------------
(* garch_paths                                                             *)

\* The path of fit p is filtered from the start of its own window.
PathStart(p) == p - GarchWindow

\* The variance forecast for t under fit p: the fit, and the filter up to t - 1.
VarianceReads(p, t) == FitWindow(p) \cup (PathStart(p) .. (t - 1))

\* It goes on to the last of the days that fit covers.
PathEnd(p) == LatestOf({ t \in Oos : InForce("primary", t) = p })

\* between(t - r_window, t): a negative index counts from the path's end.
SliceFrom(p, t) ==
  LET index == t - r_window - PathStart(p)
      back  == PathEnd(p) + 1 - PathStart(p) + index
  IN  PathStart(p) + (IF index >= 0 THEN index ELSE IF back >= 0 THEN back ELSE 0)

\* The positions of the slice, and the check of standardized_residuals that it
\* is as long as the slice of returns.
PathResiduals(p, t) == { s \in PathStart(p) .. (t - 1) : s >= SliceFrom(p, t) }
SameShape(p, t)     == SliceFrom(p, t) = t - r_window

ForecastFor(t) ==
  LET p == InForce("primary", t)
  IN  [ params    |-> p,
        stale     |-> IsStale("primary", t),
        reads     |-> VarianceReads(p, t) \cup PathResiduals(p, t),
        residuals |-> PathResiduals(p, t) ]

\* Variant: every position is standardised under the first day's parameters.
ActualUnderFirstFit(s) ==
  [ params |-> InForce("primary", first), reads |-> VarianceReads(InForce("primary", first), s) ]

\* _garch_fhs_oos: the variance actually forecast at s, before or inside the
\* out-of-sample days, under the parameters in force at s.
ActualFor(s) ==
  LET p == IF s < first THEN InForce("primary_pre_oos", s) ELSE InForce("primary", s)
  IN  [ params |-> p, reads |-> VarianceReads(p, s) ]

-----------------------------------------------------------------------------

Init ==
  /\ month \in Calendar
  /\ first \in Position /\ last \in Position /\ first <= last
  /\ r_window \in ResidualWindow
  /\ phase = "history" /\ error = "none"
  /\ log = [ s \in Schedule |-> Empty ]
  /\ forecast = Empty /\ actual = Empty

GoTo(p) == phase' = p /\ UNCHANGED error
Stop(e) == phase' = "stopped" /\ error' = e

\* high_volatility_days, then model_forecasts for the naive and EWMA windows.
EnoughHistory ==
  /\ first >= RvWindow
  /\ \A w \in ModelWindow : first - r_window - w >= 0

CheckHistory ==
  /\ phase = "history"
  /\ IF EnoughHistory THEN GoTo("refits") ELSE Stop("InsufficientDataError")
  /\ UNCHANGED << month, first, last, r_window, log, forecast, actual >>

Due(s) ==
  (IF s = "primary" THEN RefitDates(first, last)
                    ELSE RefitDates(first - r_window, first - 1)) \ DOMAIN log[s]
NextRefit(s) == CHOOSE p \in Due(s) : \A q \in Due(s) : p <= q

\* Variant: a failed first refit is logged like any other.
FirstFailureCarriesOn(s, status) == FALSE

\* There is nothing to carry forward when the first refit fails.
FirstFailure(s, status) == DOMAIN log[s] = {} /\ status = "failed"

\* One turn of run_refits: the earliest refit not attempted yet.
Refit(s, now) ==
  /\ phase = now
  /\ Due(s) # {}
  /\ IF NextRefit(s) < GarchWindow
     THEN Stop("InsufficientDataError") /\ UNCHANGED log
     ELSE \E outcome \in FitOutcome :
            LET status == Classify(outcome)
            IN  IF FirstFailure(s, status)
                THEN Stop("FirstGarchFitFailedError") /\ UNCHANGED log
                ELSE /\ log' = [log EXCEPT ![s] =
                           [ p \in DOMAIN @ \cup {NextRefit(s)} |->
                               IF p \in DOMAIN @ THEN @[p] ELSE status ]]
                     /\ UNCHANGED << phase, error >>
  /\ UNCHANGED << month, first, last, r_window, forecast, actual >>

RefitsDone(s, now, then) ==
  /\ phase = now
  /\ Due(s) = {}
  /\ GoTo(then)
  /\ UNCHANGED << month, first, last, r_window, log, forecast, actual >>

\* garch_paths and the loop over the days: in_force raises when it finds none,
\* standardized_residuals when the two slices differ in length.
ForecastDays ==
  /\ phase = "days"
  /\ IF \E t \in Oos : Valid("primary", t) = {}
     THEN Stop("InvalidParameterError") /\ UNCHANGED forecast
     ELSE IF \E t \in Oos : ~SameShape(InForce("primary", t), t)
     THEN Stop("DataValidationError") /\ UNCHANGED forecast
     ELSE /\ forecast' = [ t \in Oos |-> ForecastFor(t) ]
          /\ GoTo("pre_refits")
  /\ UNCHANGED << month, first, last, r_window, log, actual >>

OosResiduals ==
  /\ phase = "oos_residuals"
  /\ IF \E s \in Pre : Valid("primary_pre_oos", s) = {}
     THEN Stop("InvalidParameterError") /\ UNCHANGED actual
     ELSE /\ actual' = [ s \in Pre \cup Oos |-> ActualFor(s) ]
          /\ GoTo("done")
  /\ UNCHANGED << month, first, last, r_window, log, forecast >>

Next ==
  \/ CheckHistory
  \/ Refit("primary", "refits")
  \/ RefitsDone("primary", "refits", "days")
  \/ ForecastDays
  \/ Refit("primary_pre_oos", "pre_refits")
  \/ RefitsDone("primary_pre_oos", "pre_refits", "oos_residuals")
  \/ OosResiduals

Spec == Init /\ [][Next]_vars

-----------------------------------------------------------------------------
(* Properties                                                              *)

\* The run stops only for want of history, on a first failed refit or on a slice
\* of the wrong length: once a schedule has started, in_force always finds
\* parameters.
TypeOK ==
  /\ month \in [Position -> Nat] /\ first \in Position /\ last \in Position
  /\ r_window \in Nat \ {0} /\ phase \in Phase
  /\ error \in {"none", "InsufficientDataError", "FirstGarchFitFailedError", "DataValidationError"}
  /\ phase = "stopped" <=> error # "none"
  /\ \A s \in Schedule : \A p \in DOMAIN log[s] : log[s][p] \in {"ok", "failed"}

\* No forecast of day t, no parameter it uses and no residual it rests on
\* involves the return of day t or of a later day.
NoLookAhead ==
  /\ \A t \in DOMAIN forecast : \A p \in forecast[t].reads : p < t
  /\ \A s \in DOMAIN actual : \A p \in actual[s].reads : p < s

\* A day is flagged stale exactly when a refit later than the one whose
\* parameters it uses was attempted by then, and never on parameters from a
\* failed refit.
StaleExactly ==
  \A t \in DOMAIN forecast :
    /\ log["primary"][forecast[t].params] = "ok"
    /\ forecast[t].stale <=>
         \E p \in DOMAIN log["primary"] : forecast[t].params < p /\ p <= t

\* The schedule keeps up with the calendar: every out-of-sample month is
\* refitted once, on its first out-of-sample day, before any of its forecasts.
OneRefitEachMonth ==
  \A t \in DOMAIN forecast :
    LET inMonth == { p \in DOMAIN log["primary"] : month[p] = month[t] }
    IN  /\ Cardinality(inMonth) = 1
        /\ \A p \in inMonth : p <= t

\* Every FHS window is full, the pre-sample included, although each is cut from
\* the path of whatever fit, however old, is in force, and none longer than the
\* fits' is taken for full, whatever between() cuts instead; the out-of-sample
\* residuals in it are forecast errors: each position is standardised under
\* parameters fitted before it, the latest valid ones of its own schedule.
ResidualWindows ==
  /\ r_window > GarchWindow => DOMAIN forecast = {}
  /\ \A t \in DOMAIN forecast :
       forecast[t].residuals = (t - r_window) .. (t - 1)
  /\ phase = "done" =>
       \A t \in Oos : (t - r_window) .. (t - 1) \subseteq DOMAIN actual
  /\ \A s \in DOMAIN actual :
       LET schedule == IF s < first THEN "primary_pre_oos" ELSE "primary"
       IN  /\ actual[s].params <= s
           /\ log[schedule][actual[s].params] = "ok"
           /\ \A p \in DOMAIN log[schedule] :
                actual[s].params < p /\ p <= s => log[schedule][p] = "failed"

=============================================================================
