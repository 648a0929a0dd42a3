-------------------------- MODULE WalkForwardProofs --------------------------
(***************************************************************************)
(* Proofs about WalkForward, for any number of trading days, any calendar  *)
(* and out-of-sample interval, and any window lengths.                     *)
(*                                                                         *)
(* The inductive invariant says what the log of each schedule holds, which *)
(* schedule is complete in which phase, and that the forecasts are those   *)
(* of the log as it is; the properties of the forecasts then follow from   *)
(* the definitions of in_force, is_stale and the refit calendar.           *)
(***************************************************************************)
EXTENDS WalkForward, OrderLemmas, TLAPS

-----------------------------------------------------------------------------
(* The inductive invariant                                                 *)

From(s) == IF s = "primary" THEN first ELSE first - r_window
To(s)   == IF s = "primary" THEN last ELSE first - 1
Dates(s) == RefitDates(From(s), To(s))

\* What the log of schedule s holds: dates of its calendar with enough returns
\* before them, beginning with the first, which succeeded.
Logged(s) ==
  /\ DOMAIN log[s] \subseteq Dates(s)
  /\ \A p \in DOMAIN log[s] : p >= GarchWindow /\ log[s][p] \in {"ok", "failed"}
  /\ DOMAIN log[s] # {} => From(s) \in DOMAIN log[s] /\ log[s][From(s)] = "ok"

Complete(s) == Dates(s) \subseteq DOMAIN log[s]

\* The slice of the path is as long as the window asked for.
WholeSlice(t) == SameShape(InForce("primary", t), t)

Interval ==
  /\ month \in [Position -> Nat]
  /\ first \in Position /\ last \in Position /\ first <= last
  /\ r_window \in Nat \ {0}

IInv ==
  /\ Interval
  /\ phase \in Phase
  /\ error \in {"none", "InsufficientDataError", "FirstGarchFitFailedError", "DataValidationError"}
  /\ phase = "stopped" <=> error # "none"
  /\ log = [ s \in Schedule |-> log[s] ]
  /\ \A s \in Schedule : Logged(s)
  /\ phase \in {"days", "pre_refits", "oos_residuals", "done"} => Complete("primary")
  /\ phase \in {"oos_residuals", "done"} => Complete("primary_pre_oos")
  /\ phase \in {"history", "refits", "days"} => forecast = Empty
  /\ forecast # Empty =>
       /\ Complete("primary") /\ forecast = [ t \in Oos |-> ForecastFor(t) ]
       /\ \A t \in Oos : WholeSlice(t)
  /\ phase = "done" => actual = [ s \in Pre \cup Oos |-> ActualFor(s) ]
  /\ phase # "done" => actual = Empty

\* Positions and windows are integers.
LEMMA Numbers ==
  ASSUME Interval
  PROVE  /\ N \in Nat /\ GarchWindow \in Nat \ {0}
         /\ r_window \in Nat \ {0}
         /\ first \in Nat /\ last \in Nat /\ first <= last /\ last < N
         /\ \A s \in Schedule : From(s) \in Int /\ To(s) \in Int /\ From(s) <= To(s)
         /\ \A s \in Schedule : Dates(s) \subseteq From(s) .. To(s)
<1>1. /\ N \in Nat /\ GarchWindow \in Nat \ {0}
      /\ r_window \in Nat \ {0}
      /\ first \in Nat /\ last \in Nat /\ first <= last /\ last < N
  BY WalkForwardAssumption DEF Interval, Position
<1>2. \A s \in Schedule : From(s) \in Int /\ To(s) \in Int /\ From(s) <= To(s)
  BY <1>1 DEF From, To
<1>3. \A s \in Schedule : Dates(s) \subseteq From(s) .. To(s)
  BY <1>2 DEF Dates, RefitDates
<1> QED BY <1>1, <1>2, <1>3

\* The refits still due, and the next of them.
LEMMA NextOne ==
  ASSUME Interval, NEW s \in Schedule, Due(s) # {}
  PROVE  /\ Due(s) = Dates(s) \ DOMAIN log[s]
         /\ NextRefit(s) \in Due(s)
         /\ \A q \in Due(s) : NextRefit(s) <= q
<1>1. Due(s) = Dates(s) \ DOMAIN log[s]
  BY DEF Due, Dates, From, To, Schedule
<1>2. From(s) \in Int /\ To(s) \in Int /\ Due(s) \in SUBSET (From(s) .. To(s))
  BY <1>1, Numbers
<1>3. \E p \in Due(s) : \A q \in Due(s) : p <= q
  BY <1>2, Extremes
<1> QED BY <1>1, <1>3 DEF NextRefit

\* Once a schedule is complete, in_force finds parameters on each of its days:
\* the latest valid refit up to that day.
LEMMA Found ==
  ASSUME Interval, NEW s \in Schedule, Logged(s), Complete(s),
         NEW t \in Int, From(s) <= t
  PROVE  /\ Valid(s, t) # {}
         /\ InForce(s, t) \in DOMAIN log[s] /\ log[s][InForce(s, t)] = "ok"
         /\ InForce(s, t) \in Int /\ InForce(s, t) <= t
         /\ \A p \in DOMAIN log[s] : p <= t /\ log[s][p] = "ok" => p <= InForce(s, t)
<1>1. From(s) \in Dates(s) /\ From(s) \in Int /\ To(s) \in Int
  BY Numbers DEF Dates, RefitDates
<1>2. From(s) \in Valid(s, t)
  BY <1>1 DEF Complete, Logged, Valid, Attempted
<1>3. Valid(s, t) \in SUBSET (From(s) .. To(s))
  BY Numbers DEF Valid, Attempted, Logged
<1>4. \E p \in Valid(s, t) : \A q \in Valid(s, t) : p >= q
  BY <1>1, <1>2, <1>3, Extremes
<1>5. /\ InForce(s, t) \in Valid(s, t)
      /\ \A q \in Valid(s, t) : InForce(s, t) >= q
  BY <1>4 DEF InForce, LatestOf
<1> QED BY <1>1, <1>2, <1>3, <1>5 DEF Valid, Attempted

\* The initial states satisfy the inductive invariant.
LEMMA InitIInv == Init => IInv
<1> SUFFICES ASSUME Init
             PROVE  IInv
  OBVIOUS
<1>1. Interval
  BY WalkForwardAssumption DEF Init, Interval
<1>2. \A s \in Schedule : DOMAIN log[s] = {}
  BY DEF Init, Empty
<1>3. \A s \in Schedule : Logged(s)
  BY <1>2 DEF Logged
<1> QED BY <1>1, <1>3 DEF Init, IInv, Phase

\* What a forecast and a residual rest on changes with the log of their
\* schedule only.
LEMMA SameForecasts ==
  ASSUME UNCHANGED << month, first, last, r_window >>, log'["primary"] = log["primary"]
  PROVE  /\ Complete("primary")' = Complete("primary")
         /\ Oos' = Oos /\ Pre' = Pre
         /\ \A t \in Int : ForecastFor(t)' = ForecastFor(t) /\ WholeSlice(t)' = WholeSlice(t)
<1>1. Dates("primary")' = Dates("primary")
  BY DEF Dates, RefitDates, From, To
<1>2. \A t : InForce("primary", t)' = InForce("primary", t)
  BY DEF InForce, Valid, Attempted, LatestOf
<1>3. \A t \in Int : IsStale("primary", t)' = IsStale("primary", t)
  BY DEF IsStale, Attempted, LatestOf
<1>4. \A p : PathEnd(p)' = PathEnd(p)
  BY <1>2 DEF PathEnd, Oos
<1>5. \A p, t : SliceFrom(p, t)' = SliceFrom(p, t)
  BY <1>4 DEF SliceFrom, PathStart
<1>6. \A t \in Int : ForecastFor(t)' = ForecastFor(t)
  <2>1. \A p, t : PathResiduals(p, t)' = PathResiduals(p, t)
    BY <1>5 DEF PathResiduals, PathStart
  <2>2. \A p, t : VarianceReads(p, t)' = VarianceReads(p, t)
    BY DEF VarianceReads, FitWindow, PathStart
  <2> QED BY <1>2, <1>3, <2>1, <2>2 DEF ForecastFor
<1>7. \A t \in Int : WholeSlice(t)' = WholeSlice(t)
  BY <1>2, <1>5 DEF WholeSlice, SameShape
<1> QED BY <1>1, <1>6, <1>7 DEF Complete, Oos, Pre

\* A step that leaves the log and the forecasts alone keeps what is said of them.
LEMMA LogStays ==
  ASSUME IInv, UNCHANGED << month, first, last, r_window, log, forecast >>
  PROVE  /\ Interval' /\ log' = [ s \in Schedule |-> log'[s] ]
         /\ \A s \in Schedule : Logged(s)' /\ Complete(s)' = Complete(s)
         /\ forecast' # Empty =>
              /\ Complete("primary")' /\ forecast' = [ t \in Oos' |-> ForecastFor(t)' ]
              /\ \A t \in Oos' : WholeSlice(t)'
<1>1. Interval'
  BY DEF IInv, Interval
<1>2. \A s \in Schedule : Dates(s)' = Dates(s) /\ From(s)' = From(s)
  BY DEF Dates, RefitDates, From, To
<1>3. \A s \in Schedule : Logged(s)' /\ Complete(s)' = Complete(s)
  BY <1>2 DEF IInv, Logged, Complete
<1>4. \A t \in Oos : t \in Int
  BY Numbers DEF IInv, Oos
<1>5. forecast' # Empty =>
        /\ Complete("primary")' /\ forecast' = [ t \in Oos' |-> ForecastFor(t)' ]
        /\ \A t \in Oos' : WholeSlice(t)'
  BY <1>4, SameForecasts DEF IInv
<1> QED BY <1>1, <1>3, <1>5 DEF IInv

\* One turn of run_refits adds the next date to the log of its schedule, unless
\* the window is not there or the first fit failed.
LEMMA RefitStep ==
  ASSUME IInv, NEW s \in Schedule, NEW now,
         << s, now >> \in {<< "primary", "refits" >>, << "primary_pre_oos", "pre_refits" >>},
         Refit(s, now)
  PROVE  IInv'
<1>1. /\ phase = now /\ Due(s) # {}
      /\ UNCHANGED << month, first, last, r_window, forecast, actual >>
      /\ Interval /\ Logged(s)
      /\ s \in Schedule /\ \A q \in Schedule : Logged(q)
  BY DEF Refit, IInv
<1>2. now \in {"refits", "pre_refits"} /\ (now = "refits" => s = "primary")
      /\ (now = "pre_refits" => s = "primary_pre_oos")
  OBVIOUS
<1>3. CASE UNCHANGED log
  <2>1. phase' = "stopped" /\ error' \in {"InsufficientDataError", "FirstGarchFitFailedError"}
    <3>1. CASE NextRefit(s) < GarchWindow
      BY <3>1 DEF Refit, Stop
    <3>2. CASE ~(NextRefit(s) < GarchWindow)
      <4>1. PICK outcome \in FitOutcome :
              IF FirstFailure(s, Classify(outcome))
              THEN Stop("FirstGarchFitFailedError") /\ UNCHANGED log
              ELSE /\ log' = [log EXCEPT ![s] =
                         [ p \in DOMAIN @ \cup {NextRefit(s)} |->
                             IF p \in DOMAIN @ THEN @[p] ELSE Classify(outcome) ]]
                   /\ UNCHANGED << phase, error >>
        BY <3>2 DEF Refit
      <4>2. CASE FirstFailure(s, Classify(outcome))
        BY <4>1, <4>2 DEF Stop
      <4>3. CASE ~FirstFailure(s, Classify(outcome))
        <5>1. NextRefit(s) \in DOMAIN log'[s]
          BY <4>1, <4>3 DEF IInv
        <5>2. NextRefit(s) \notin DOMAIN log[s]
          BY <1>1, NextOne
        <5> QED BY <1>3, <5>1, <5>2
      <4> QED BY <4>2, <4>3
    <3> QED BY <3>1, <3>2
  <2> QED BY <1>1, <1>2, <1>3, <2>1, LogStays DEF IInv, Phase
<1>4. CASE ~UNCHANGED log
  <2>1. PICK status \in {"ok", "failed"} :
          /\ ~FirstFailure(s, status)
          /\ log' = [log EXCEPT ![s] =
               [ p \in DOMAIN @ \cup {NextRefit(s)} |->
                   IF p \in DOMAIN @ THEN @[p] ELSE status ]]
    <3>1. PICK outcome \in FitOutcome :
            IF FirstFailure(s, Classify(outcome))
            THEN Stop("FirstGarchFitFailedError") /\ UNCHANGED log
            ELSE /\ log' = [log EXCEPT ![s] =
                       [ p \in DOMAIN @ \cup {NextRefit(s)} |->
                           IF p \in DOMAIN @ THEN @[p] ELSE Classify(outcome) ]]
                 /\ UNCHANGED << phase, error >>
      BY <1>4 DEF Refit
    <3>2. ~FirstFailure(s, Classify(outcome)) /\ Classify(outcome) \in {"ok", "failed"}
      BY <1>4, <3>1 DEF Classify
    <3> QED BY <3>1, <3>2
  <2>2. UNCHANGED << phase, error >> /\ ~(NextRefit(s) < GarchWindow)
    BY <1>4 DEF Refit
  <2>3. /\ DOMAIN log'[s] = DOMAIN log[s] \cup {NextRefit(s)}
        /\ \A p \in DOMAIN log[s] : log'[s][p] = log[s][p]
        /\ NextRefit(s) \notin DOMAIN log[s] => log'[s][NextRefit(s)] = status
        /\ \A q \in Schedule \ {s} : log'[q] = log[q]
        /\ log' = [ q \in Schedule |-> log'[q] ]
    BY <2>1 DEF IInv
  <2>4. /\ NextRefit(s) \in Dates(s) \ DOMAIN log[s] /\ NextRefit(s) \in Int
        /\ \A q \in Due(s) : NextRefit(s) <= q
        /\ Due(s) = Dates(s) \ DOMAIN log[s]
    BY <1>1, NextOne, Numbers
  <2>5. Interval' /\ \A q \in Schedule : Dates(q)' = Dates(q) /\ From(q)' = From(q)
    BY <1>1 DEF Interval, Dates, RefitDates, From, To
  <2>6. DOMAIN log[s] = {} => NextRefit(s) = From(s) /\ status = "ok"
    <3>1. ASSUME DOMAIN log[s] = {}
          PROVE  From(s) \in Due(s)
      BY <2>4, <3>1 DEF Dates, RefitDates
    <3>2. Dates(s) \subseteq From(s) .. To(s) /\ From(s) \in Int /\ To(s) \in Int
      BY <1>1, Numbers
    <3> QED BY <2>1, <2>4, <3>1, <3>2 DEF FirstFailure
  <2>7. Logged(s)'
    <3>1. DOMAIN log'[s] \subseteq Dates(s)'
      BY <1>1, <2>3, <2>4, <2>5 DEF Logged
    <3>2. GarchWindow \in Nat
      BY WalkForwardAssumption
    <3>3. \A p \in DOMAIN log'[s] : p >= GarchWindow /\ log'[s][p] \in {"ok", "failed"}
      BY <1>1, <2>2, <2>3, <2>4, <3>2 DEF Logged
    <3>4. From(s)' \in DOMAIN log'[s] /\ log'[s][From(s)'] = "ok"
      BY <1>1, <2>3, <2>4, <2>5, <2>6 DEF Logged
    <3> QED BY <3>1, <3>3, <3>4 DEF Logged
  <2>8. \A q \in Schedule : Logged(q)'
    BY <1>1, <2>3, <2>5, <2>7 DEF Logged
  <2>9. CASE s = "primary"
    BY <1>1, <1>2, <2>2, <2>3, <2>5, <2>8, <2>9 DEF IInv
  <2>10. CASE s = "primary_pre_oos"
    <3>1. log'["primary"] = log["primary"]
      BY <2>3, <2>10 DEF Schedule
    <3>2. \A t \in Oos : t \in Int
      BY <1>1, Numbers DEF Oos
    <3> QED BY <1>1, <1>2, <2>2, <2>3, <2>5, <2>8, <2>10, <3>1, <3>2, SameForecasts DEF IInv
  <2> QED BY <2>9, <2>10 DEF Schedule
<1> QED BY <1>3, <1>4

\* The steps between the refits.
LEMMA PhaseSteps ==
  ASSUME IInv,
         \/ CheckHistory
         \/ RefitsDone("primary", "refits", "days")
         \/ RefitsDone("primary_pre_oos", "pre_refits", "oos_residuals")
  PROVE  IInv'
<1>1. UNCHANGED << month, first, last, r_window, log, forecast, actual >>
  BY DEF CheckHistory, RefitsDone
<1>2. CASE CheckHistory
  BY <1>1, <1>2, LogStays DEF CheckHistory, GoTo, Stop, IInv, Phase
<1>3. CASE RefitsDone("primary", "refits", "days")
  <2>1. Complete("primary")
    BY <1>3 DEF RefitsDone, Due, Complete, Dates, From, To
  <2> QED BY <1>1, <1>3, <2>1, LogStays DEF RefitsDone, GoTo, IInv, Phase, Schedule
<1>4. CASE RefitsDone("primary_pre_oos", "pre_refits", "oos_residuals")
  <2>1. Complete("primary_pre_oos")
    BY <1>4 DEF RefitsDone, Due, Complete, Dates, From, To
  <2> QED BY <1>1, <1>4, <2>1, LogStays DEF RefitsDone, GoTo, IInv, Phase, Schedule
<1> QED BY <1>2, <1>3, <1>4

\* The days are forecast from a complete schedule, so in_force never raises; a
\* slice of the wrong length may still stop them.
LEMMA ForecastStep ==
  ASSUME IInv, ForecastDays
  PROVE  IInv'
<1>1. /\ phase = "days" /\ Complete("primary") /\ Interval /\ Logged("primary")
      /\ UNCHANGED << month, first, last, r_window, log, actual >>
  BY DEF ForecastDays, IInv, Schedule
<1>2. \A t \in Oos : t \in Int /\ From("primary") <= t
  BY <1>1, Numbers DEF Oos, From
<1>3. \A t \in Oos : Valid("primary", t) # {}
  BY <1>1, <1>2, Found DEF Schedule
<1>5. /\ Complete("primary")' /\ Oos' = Oos
      /\ \A t \in Int : ForecastFor(t)' = ForecastFor(t) /\ WholeSlice(t)' = WholeSlice(t)
  BY <1>1, SameForecasts
<1>7. /\ Interval' /\ log' = [ s \in Schedule |-> log'[s] ]
      /\ \A s \in Schedule : Logged(s)'
  <2>1. \A s \in Schedule : Dates(s)' = Dates(s) /\ From(s)' = From(s)
    BY <1>1 DEF Dates, RefitDates, From, To
  <2> QED BY <1>1, <2>1 DEF IInv, Interval, Logged
<1>8. CASE \A t \in Oos : WholeSlice(t)
  <2>1. /\ forecast' = [ t \in Oos |-> ForecastFor(t) ]
        /\ phase' = "pre_refits" /\ UNCHANGED error
    BY <1>3, <1>8 DEF ForecastDays, GoTo, WholeSlice
  <2>2. forecast' = [ t \in Oos' |-> ForecastFor(t)' ]
    BY <1>2, <1>5, <2>1
  <2>3. \A t \in Oos' : WholeSlice(t)'
    BY <1>2, <1>5, <1>8
  <2> QED BY <1>1, <1>5, <1>7, <2>1, <2>2, <2>3 DEF IInv, Phase
<1>9. CASE ~(\A t \in Oos : WholeSlice(t))
  <2>1. phase' = "stopped" /\ error' = "DataValidationError" /\ UNCHANGED forecast
    BY <1>3, <1>9 DEF ForecastDays, Stop, WholeSlice
  <2> QED BY <1>1, <1>5, <1>7, <2>1 DEF IInv, Phase
<1> QED BY <1>8, <1>9

\* So are the positions before the first day, from a schedule of their own.
LEMMA ResidualStep ==
  ASSUME IInv, OosResiduals
  PROVE  IInv'
<1>1. /\ phase = "oos_residuals" /\ Complete("primary_pre_oos") /\ Interval
      /\ Logged("primary_pre_oos")
      /\ UNCHANGED << month, first, last, r_window, log, forecast >>
  BY DEF OosResiduals, IInv, Schedule
<1>2. \A s \in Pre : s \in Int /\ From("primary_pre_oos") <= s
  BY <1>1, Numbers DEF Pre, From
<1>3. \A s \in Pre : Valid("primary_pre_oos", s) # {}
  BY <1>1, <1>2, Found DEF Schedule
<1>4. /\ actual' = [ s \in Pre \cup Oos |-> ActualFor(s) ]
      /\ phase' = "done" /\ UNCHANGED error
  BY <1>3 DEF OosResiduals, GoTo
<1>5. /\ Pre' = Pre /\ Oos' = Oos
      /\ \A s \in Pre \cup Oos : ActualFor(s)' = ActualFor(s)
  <2>1. \A s \in Pre \cup Oos : ActualFor(s)' = ActualFor(s)
    BY <1>1 DEF ActualFor, InForce, Valid, Attempted, LatestOf, VarianceReads, FitWindow, PathStart
  <2> QED BY <1>1, <2>1 DEF Pre, Oos
<1>6. actual' = [ s \in Pre' \cup Oos' |-> ActualFor(s)' ]
  BY <1>4, <1>5
<1> QED BY <1>1, <1>4, <1>6, LogStays DEF IInv, Phase, Schedule

\* Every step keeps the inductive invariant.
LEMMA NextIInv == IInv /\ [Next]_vars => IInv'
<1> SUFFICES ASSUME IInv, [Next]_vars
             PROVE  IInv'
  OBVIOUS
<1>1. CASE UNCHANGED vars
  <2>1. UNCHANGED << month, first, last, r_window, log, forecast, actual, phase, error >>
    BY <1>1 DEF vars
  <2>2. \A s \in Pre \cup Oos : ActualFor(s)' = ActualFor(s)
    BY <2>1 DEF ActualFor, InForce, Valid, Attempted, LatestOf, VarianceReads, FitWindow, PathStart
  <2>3. Pre' = Pre /\ Oos' = Oos
    BY <2>1 DEF Pre, Oos
  <2> QED BY <2>1, <2>2, <2>3, LogStays DEF IInv, Schedule
<1>2. CASE Refit("primary", "refits")
  BY <1>2, RefitStep DEF Schedule
<1>3. CASE Refit("primary_pre_oos", "pre_refits")
  BY <1>3, RefitStep DEF Schedule
<1> QED BY <1>1, <1>2, <1>3, PhaseSteps, ForecastStep, ResidualStep DEF Next

\* Every reachable state satisfies the inductive invariant.
LEMMA Always == Spec => []IInv
BY InitIInv, NextIInv, PTL DEF Spec

-----------------------------------------------------------------------------
(* Theorems                                                                *)

\* A run stops only for want of history, on a first failed refit or on a slice
\* of the wrong length, for any outcomes of the refits and any windows: in_force
\* never finds nothing.
THEOREM WalkForwardTypeCorrect == Spec => []TypeOK
<1>1. IInv => TypeOK
  BY DEF IInv, TypeOK, Interval, Logged
<1> QED BY <1>1, Always, PTL

\* What every forecast says, by the log as it is.
LEMMA EachForecast ==
  ASSUME IInv, NEW t \in DOMAIN forecast
  PROVE  /\ t \in Oos /\ t \in Int /\ forecast[t] = ForecastFor(t)
         /\ Interval /\ Logged("primary") /\ Complete("primary")
         /\ From("primary") <= t /\ "primary" \in Schedule /\ WholeSlice(t)
<1>1. forecast # Empty
  BY DEF Empty
<1>2. /\ forecast = [ d \in Oos |-> ForecastFor(d) ] /\ Complete("primary")
      /\ \A d \in Oos : WholeSlice(d)
  BY <1>1 DEF IInv
<1> QED BY <1>2, Numbers DEF IInv, Oos, From, Schedule

\* What every residual's forecast says, by the log as it is.
LEMMA EachActual ==
  ASSUME IInv, NEW s \in DOMAIN actual
  PROVE  LET schedule == IF s < first THEN "primary_pre_oos" ELSE "primary"
         IN  /\ s \in Int /\ actual[s] = ActualFor(s) /\ phase = "done"
             /\ Interval /\ Logged(schedule) /\ Complete(schedule)
             /\ From(schedule) <= s /\ schedule \in Schedule
             /\ actual[s].params = InForce(schedule, s)
<1>1. actual # Empty
  BY DEF Empty
<1>2. phase = "done" /\ actual = [ d \in Pre \cup Oos |-> ActualFor(d) ]
  BY <1>1 DEF IInv
<1>3. Interval /\ first \in Int /\ last \in Int /\ r_window \in Int
  BY Numbers DEF IInv
<1>4. s \in Pre \cup Oos
  BY <1>2
<1>5. /\ s \in Int
      /\ s < first => s \in Pre
      /\ ~(s < first) => s \in Oos
  BY <1>3, <1>4 DEF Pre, Oos
<1> QED BY <1>2, <1>3, <1>4, <1>5 DEF IInv, Pre, Oos, From, Schedule, ActualFor

\* No forecast, no parameters it uses and no residual it rests on involves the
\* return of its own day or of a later one.
THEOREM NothingAhead == Spec => []NoLookAhead
<1>1. ASSUME NEW p \in Int, NEW t \in Int, p <= t, Interval
      PROVE  \A q \in VarianceReads(p, t) \cup PathResiduals(p, t) : q < t
  BY <1>1, Numbers DEF VarianceReads, FitWindow, PathStart, PathResiduals
<1>2. ASSUME IInv, NEW t \in DOMAIN forecast, NEW q \in forecast[t].reads
      PROVE  q < t
  <2>1. InForce("primary", t) \in Int /\ InForce("primary", t) <= t
    BY <1>2, EachForecast, Found
  <2>2. forecast[t].reads = VarianceReads(InForce("primary", t), t)
                              \cup PathResiduals(InForce("primary", t), t)
    BY <1>2, EachForecast DEF ForecastFor
  <2> QED BY <1>1, <1>2, <2>1, <2>2, EachForecast
<1>3. ASSUME IInv, NEW s \in DOMAIN actual, NEW q \in actual[s].reads
      PROVE  q < s
  <2> DEFINE schedule == IF s < first THEN "primary_pre_oos" ELSE "primary"
  <2>1. InForce(schedule, s) \in Int /\ InForce(schedule, s) <= s
    BY <1>3, EachActual, Found
  <2>2. actual[s].reads = VarianceReads(InForce(schedule, s), s)
    BY <1>3, EachActual DEF ActualFor
  <2> QED BY <1>1, <1>3, <2>1, <2>2, EachActual
<1>4. IInv => NoLookAhead
  BY <1>2, <1>3 DEF NoLookAhead
<1> QED BY <1>4, Always, PTL

\* is_stale, computed apart from in_force, flags exactly the days whose
\* parameters are older than the latest refit attempted.
THEOREM StalenessExact == Spec => []StaleExactly
<1>1. ASSUME IInv, NEW t \in DOMAIN forecast
      PROVE  /\ log["primary"][forecast[t].params] = "ok"
             /\ forecast[t].stale <=>
                  \E p \in DOMAIN log["primary"] : forecast[t].params < p /\ p <= t
  <2> DEFINE s == "primary"
             params == InForce(s, t)
             attempted == Attempted(s, t)
  <2>1. /\ forecast[t].params = params /\ forecast[t].stale = IsStale(s, t)
        /\ t \in Int /\ Interval /\ Logged(s) /\ Complete(s) /\ s \in Schedule
    BY <1>1, EachForecast DEF ForecastFor
  <2>2. /\ params \in DOMAIN log[s] /\ log[s][params] = "ok" /\ params <= t
        /\ params \in Int
        /\ \A p \in DOMAIN log[s] : p <= t /\ log[s][p] = "ok" => p <= params
    BY <1>1, EachForecast, Found
  <2>3. attempted \in SUBSET (From(s) .. To(s)) /\ From(s) \in Int /\ To(s) \in Int
    BY <2>1, Numbers DEF Attempted, Logged
  <2>4. params \in attempted
    BY <2>2 DEF Attempted
  <2>5. \E p \in attempted : \A q \in attempted : p >= q
    BY <2>3, <2>4, Extremes
  <2>6. /\ LatestOf(attempted) \in attempted
        /\ \A q \in attempted : LatestOf(attempted) >= q
    BY <2>5 DEF LatestOf
  <2>7. IsStale(s, t) <=> log[s][LatestOf(attempted)] = "failed"
    BY <2>4 DEF IsStale
  <2>8. ASSUME log[s][LatestOf(attempted)] = "failed"
        PROVE  params < LatestOf(attempted) /\ LatestOf(attempted) \in DOMAIN log[s]
               /\ LatestOf(attempted) <= t
    BY <2>2, <2>3, <2>4, <2>6, <2>8 DEF Attempted
  <2>9. ASSUME NEW p \in DOMAIN log[s], params < p, p <= t
        PROVE  log[s][LatestOf(attempted)] = "failed"
    <3>1. p \in attempted /\ p \in Int /\ LatestOf(attempted) \in Int
      BY <2>3, <2>6, <2>9 DEF Attempted
    <3>2. LatestOf(attempted) > params
      BY <2>2, <2>6, <2>9, <3>1
    <3>3. log[s][LatestOf(attempted)] # "ok"
      BY <2>2, <2>6, <3>1, <3>2 DEF Attempted
    <3> QED BY <2>1, <2>6, <3>3 DEF Logged, Attempted
  <2> QED BY <2>1, <2>2, <2>7, <2>8, <2>9
<1>2. IInv => StaleExactly
  BY <1>1 DEF StaleExactly
<1> QED BY <1>2, Always, PTL

\* Each out-of-sample month has its refit, on its first out-of-sample day, and
\* no second one, in any calendar.
THEOREM RefittedEachMonth == Spec => []OneRefitEachMonth
<1>1. ASSUME IInv, NEW t \in DOMAIN forecast
      PROVE  LET inMonth == { p \in DOMAIN log["primary"] : month[p] = month[t] }
             IN  Cardinality(inMonth) = 1 /\ \A p \in inMonth : p <= t
  <2> DEFINE inMonth == { p \in DOMAIN log["primary"] : month[p] = month[t] }
             earlier == { p \in first .. t : month[p] = month[t] }
  <2>1. /\ t \in Int /\ first \in Int /\ last \in Int /\ first <= t /\ t <= last
        /\ DOMAIN log["primary"] = RefitDates(first, last)
    <3>1. t \in Oos /\ t \in Int /\ Interval /\ Logged("primary") /\ Complete("primary")
      BY <1>1, EachForecast
    <3>2. first \in Int /\ last \in Int
      BY <3>1, Numbers
    <3>3. DOMAIN log["primary"] = Dates("primary")
      BY <3>1 DEF Logged, Complete
    <3> QED BY <3>1, <3>2, <3>3 DEF Dates, From, To, Oos
  <2>2. PICK p \in earlier : \A q \in earlier : p <= q
    <3>1. earlier \in SUBSET (first .. t) /\ t \in earlier
      BY <2>1
    <3> QED BY <2>1, <3>1, Extremes
  <2>3. p \in Int /\ first <= p /\ p <= t /\ month[p] = month[t]
    BY <2>1, <2>2
  <2>4. p \in RefitDates(first, last)
    <3>1. CASE p = first
      BY <3>1 DEF RefitDates
    <3>2. CASE p # first
      <4>1. month[p] # month[first]
        BY <2>1, <2>2, <2>3, <3>2
      <4>2. \A q \in first + 1 .. p - 1 : month[q] # month[p]
        BY <2>1, <2>2, <2>3
      <4> QED BY <2>1, <2>3, <3>2, <4>1, <4>2 DEF RefitDates
    <3> QED BY <3>1, <3>2
  <2>5. ASSUME NEW q \in inMonth, NEW r \in inMonth, q < r
        PROVE  FALSE
    <3>1. q \in RefitDates(first, last) /\ r \in RefitDates(first, last)
      BY <2>1
    <3>2. q \in Int /\ first <= q /\ r \in first + 1 .. last
      BY <2>1, <2>5, <3>1 DEF RefitDates
    <3>3. month[q] = month[r] /\ month[r] # month[first]
          /\ \A d \in first + 1 .. r - 1 : month[d] # month[r]
      BY <2>1, <3>1, <3>2 DEF RefitDates
    <3> QED BY <2>1, <2>5, <3>2, <3>3
  <2>6. inMonth = {p}
    <3>1. p \in inMonth
      BY <2>1, <2>3, <2>4
    <3>2. \A q \in inMonth : q \in Int
      BY <2>1 DEF RefitDates
    <3> QED BY <2>3, <2>5, <3>1, <3>2
  <2> QED BY <2>3, <2>6, FS_Singleton
<1>2. IInv => OneRefitEachMonth
  BY <1>1 DEF OneRefitEachMonth
<1> QED BY <1>2, Always, PTL

\* A slice that is whole starts on the path: an index from the path's end gives
\* a start after the one asked for.
LEMMA WholeStarts ==
  ASSUME Interval, NEW t \in Oos, NEW p \in Int, p = InForce("primary", t),
         SliceFrom(p, t) = t - r_window
  PROVE  PathStart(p) <= t - r_window
<1>0. t \in Int /\ first \in Int /\ last \in Int
  BY Numbers DEF Oos
<1>1. PICK start \in Int, from \in Int : start = PathStart(p) /\ from = t - r_window
  BY <1>0, Numbers DEF PathStart
<1>2. PICK back \in Int :
        back = PathEnd(p) + 1 - PathStart(p) + (t - r_window - PathStart(p))
  <2> DEFINE covered == { d \in Oos : InForce("primary", d) = p }
  <2>1. covered \in SUBSET (first .. last) /\ t \in covered
    BY DEF Oos
  <2>2. \E d \in covered : \A e \in covered : d >= e
    BY <1>0, <2>1, Extremes
  <2>3. LatestOf(covered) \in covered
    BY <2>2 DEF LatestOf
  <2>4. PathEnd(p) \in Int
    BY <1>0, <2>1, <2>3 DEF PathEnd
  <2> QED BY <1>1, <2>4
<1>3. t - r_window - PathStart(p) = from - start
  BY <1>1
<1>4. from = start + (IF from - start >= 0 THEN from - start ELSE IF back >= 0 THEN back ELSE 0)
  BY <1>1, <1>2, <1>3 DEF SliceFrom
<1> QED BY <1>1, <1>4

\* With a residual window longer than the fits', the first day already finds
\* its slice of the wrong length, so no forecast is ever kept.
LEMMA LongWindowsStop ==
  ASSUME IInv, r_window > GarchWindow
  PROVE  DOMAIN forecast = {}
<1>1. ASSUME forecast # Empty
      PROVE  FALSE
  <2>1. /\ Interval /\ Logged("primary") /\ Complete("primary")
        /\ \A t \in Oos : WholeSlice(t)
    BY <1>1 DEF IInv, Schedule
  <2>2. /\ first \in Int /\ last \in Int /\ first <= last
        /\ GarchWindow \in Nat /\ r_window \in Nat
    BY <2>1, Numbers
  <2>3. first \in Oos /\ From("primary") = first /\ From("primary") <= first
    BY <2>2 DEF Oos, From
  <2>4. PICK p \in Int : p = InForce("primary", first) /\ p <= first /\ p \in DOMAIN log["primary"]
    BY <2>1, <2>2, <2>3, Found DEF Schedule
  <2>5. p >= first
    BY <2>1, <2>2, <2>3, <2>4, Numbers DEF Logged, Schedule
  <2>6. SliceFrom(p, first) = first - r_window
    BY <2>1, <2>3, <2>4 DEF WholeSlice, SameShape
  <2>7. PathStart(p) <= first - r_window
    BY <2>1, <2>3, <2>4, <2>6, WholeStarts
  <2> QED BY <1>1, <2>2, <2>4, <2>5, <2>7 DEF PathStart
<1> QED BY <1>1 DEF Empty

\* The residual windows are full on the path of whatever fit is in force, those
\* longer than the fits' yield no forecast, and the out-of-sample residuals are
\* standardised under parameters fitted before them.
THEOREM WindowsOfResiduals == Spec => []ResidualWindows
<1>1. ASSUME IInv, NEW t \in DOMAIN forecast
      PROVE  forecast[t].residuals = (t - r_window) .. (t - 1)
  <2>1. /\ InForce("primary", t) \in Int /\ InForce("primary", t) <= t /\ t \in Int
        /\ forecast[t].residuals = PathResiduals(InForce("primary", t), t)
    BY <1>1, EachForecast, Found DEF ForecastFor
  <2>2. WholeSlice(t)
    BY <1>1, EachForecast
  <2>3. SliceFrom(InForce("primary", t), t) = t - r_window
    BY <2>2 DEF WholeSlice, SameShape
  <2>4. PathStart(InForce("primary", t)) <= t - r_window
    BY <1>1, <2>1, <2>3, WholeStarts, EachForecast
  <2>5. PathStart(InForce("primary", t)) \in Int /\ r_window \in Int
    BY <1>1, <2>1, EachForecast, Numbers DEF PathStart
  <2> QED BY <2>1, <2>3, <2>4, <2>5 DEF PathResiduals
<1>2. ASSUME IInv, phase = "done", NEW t \in Oos
      PROVE  (t - r_window) .. (t - 1) \subseteq DOMAIN actual
  <2>1. DOMAIN actual = Pre \cup Oos
    BY <1>2 DEF IInv
  <2> QED BY <1>2, <2>1, Numbers DEF IInv, Pre, Oos
<1>3. ASSUME IInv, NEW s \in DOMAIN actual
      PROVE  LET schedule == IF s < first THEN "primary_pre_oos" ELSE "primary"
             IN  /\ actual[s].params <= s
                 /\ log[schedule][actual[s].params] = "ok"
                 /\ \A p \in DOMAIN log[schedule] :
                      actual[s].params < p /\ p <= s => log[schedule][p] = "failed"
  <2> DEFINE schedule == IF s < first THEN "primary_pre_oos" ELSE "primary"
             params == InForce(schedule, s)
  <2>1. /\ actual[s].params = params /\ s \in Int /\ From(schedule) <= s
        /\ Interval /\ Logged(schedule) /\ Complete(schedule) /\ schedule \in Schedule
    BY <1>3, EachActual
  <2>2. /\ params \in Int /\ params <= s /\ log[schedule][params] = "ok"
        /\ \A p \in DOMAIN log[schedule] : p <= s /\ log[schedule][p] = "ok" => p <= params
    BY <2>1, Found
  <2>3. ASSUME NEW p \in DOMAIN log[schedule], params < p, p <= s
        PROVE  log[schedule][p] = "failed"
    <3>1. p \in Int
      BY <2>1, Numbers DEF Logged
    <3> QED BY <2>1, <2>2, <2>3, <3>1 DEF Logged
  <2> QED BY <2>1, <2>2, <2>3
<1>4. IInv => ResidualWindows
  BY <1>1, <1>2, <1>3, LongWindowsStop DEF ResidualWindows
<1> QED BY <1>4, Always, PTL

=============================================================================
