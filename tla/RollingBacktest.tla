--------------------------- MODULE RollingBacktest ---------------------------
(***************************************************************************)
(* The rolling backtest of the baseline study                              *)
(* (research/rolling_backtest.py), main() from its prices to its report,   *)
(* invoked several times over one output directory.  Each day is forecast  *)
(* from the window before it, the engine flags the exceptions, the summary *)
(* counts them in five ways, and two files are written.                    *)
(*                                                                         *)
(* The three methods are treated alike and independently; the model has    *)
(* one.  A date is its position in the return series.  Losses and VaR      *)
(* figures are 0 or 1: only which is larger matters.                       *)
(***************************************************************************)
EXTENDS Integers, Backtest

CONSTANTS
  Inputs,      \* what main() may be given: options and price files
  Episodes,    \* the stress episodes, intervals of dates
  BaselWindow, \* the 250 days of rolling_basel_zones
  MinYear,     \* MIN_DAYS_TO_CLASSIFY_A_YEAR
  MaxRuns,     \* bound: the invocations
  Nothing      \* no input, no summary

\* A price series gives n returns.  `estimates[t]` is the VaR that the window
\* ending on the day before t gives, `losses[t]` the loss realised on t.
IsInput(in) ==
  /\ in.n \in Nat /\ in.window \in Int /\ in.simulations \in Int /\ in.alpha \in BOOLEAN
  /\ in.estimates \in [in.window .. in.n -> 0 .. 1]
  /\ in.losses \in [in.window .. in.n - 1 -> 0 .. 1]
  /\ in.year \in [in.window .. in.n - 1 -> Nat]

ASSUME RollingAssumption ==
  /\ \A in \in Inputs : IsInput(in)
  /\ \A e \in Episodes : e.start \in Nat /\ e.end \in Nat
  /\ BaselWindow \in Nat \ {0} /\ MinYear \in Nat \ {0} /\ MaxRuns \in Nat

VARIABLES
  run,       \* how many invocations there have been
  phase,     \* where the current one is
  error,     \* what stopped it, or "none"
  input,     \* what it was given
  frame,     \* its rows, one per day forecast
  flags,     \* the exception column
  summary,   \* the summary it built
  csv, json, \* the invocations that wrote the two files, 0 for none
  cut        \* the files whose writing was cut short

memory      == << input, frame, flags, summary >>
disk        == << csv, json, cut >>
rollingVars == << run, phase, error, memory, disk >>

Phase == {"idle", "loading", "walking", "flagged", "summarised", "csv", "json", "figures", "done",
          "failed"}
Error == {"none", "load", "short", "engine", "sample", "nan", "disk", "plotting", "report"}

Days == input.window .. input.n - 1

-----------------------------------------------------------------------------
(* run_rolling_backtest                                                    *)

\* Variant: the window ends on the day it forecasts.
WindowReachingTheDay(t) == [start |-> t - input.window + 1, stop |-> t + 1]

\* _window_series: [t - window, t - 1], stop exclusive.
Window(t) == [start |-> t - input.window, stop |-> t]

\* The engine's guards, reached by the first day's six calls: alpha, the
\* observations of the window, the moments of the window, the simulations.  A
\* window of no days or fewer, which the option parser lets through, stops too,
\* at the latest where a slice is empty.
EngineRefuses ==
  \/ ~input.alpha
  \/ input.window < DaysPerException
  \/ input.window < 2
  \/ input.simulations < DaysPerException

Row(t) ==
  [ date       |-> t,
    window_end |-> Window(t).stop - 1,
    n_obs      |-> Window(t).stop - Window(t).start,
    loss       |-> input.losses[t],
    var        |-> input.estimates[Window(t).stop] ]

Column(name) == [ k \in DOMAIN frame |-> frame[k][name] ]

-----------------------------------------------------------------------------
(* build_summary                                                           *)

\* Variant: the window that ends on the last day is left out.
RollingZonesButLast ==
  [ s \in 1 .. Len(flags) - BaselWindow |-> ZoneOf(SubSeq(flags, s, s + BaselWindow - 1)) ]

\* rolling_basel_zones: the zone of every slice of BaselWindow days.
RollingZones ==
  [ s \in 1 .. Len(flags) - BaselWindow + 1 |-> ZoneOf(SubSeq(flags, s, s + BaselWindow - 1)) ]

Coloured(zones, colour) == Cardinality({ s \in DOMAIN zones : zones[s] = colour })

Worst(S) == IF "red" \in S THEN "red" ELSE IF "yellow" \in S THEN "yellow" ELSE "green"

RollingSummary ==
  [ n_windows |-> Len(RollingZones),
    counts    |-> [ colour \in {"green", "yellow", "red"} |-> Coloured(RollingZones, colour) ],
    worst     |-> Worst({ RollingZones[s] : s \in DOMAIN RollingZones }) ]

\* rolling_exception_counts: the trailing count that ends on row k.
TrailingCount(k) == Observed(SubSeq(flags, k - BaselWindow + 1, k))

RowsIn(S) == { k \in DOMAIN frame : frame[k].date \in S }
CountIn(S) == Cardinality({ k \in RowsIn(S) : flags[k] })

\* Variant: a year of exactly the minimum is not classified.
ClassifiedBeyond(n) == n > MinYear

Classified(n) == n >= MinYear

\* annual_basel_zones
Years == { input.year[t] : t \in Days }
DaysOf(y) == { t \in Days : input.year[t] = y }
Annual(y) ==
  LET n == Cardinality(RowsIn(DaysOf(y)))
  IN  [ n_days     |-> n,
        exceptions |-> CountIn(DaysOf(y)),
        zone       |-> IF Classified(n) THEN Zone(n, CountIn(DaysOf(y))) ELSE "none",
        volatility |-> IF n < 2 THEN "null" ELSE "number" ]

\* stress_episodes: the sample deviation of one return is not a number.
EpisodeDays(e) == e.start .. e.end
Entered == { e \in Episodes : RowsIn(EpisodeDays(e)) # {} }
Stress(e) ==
  LET n == Cardinality(RowsIn(EpisodeDays(e)))
  IN  [ n_days     |-> n,
        exceptions |-> CountIn(EpisodeDays(e)),
        volatility |-> IF n < 2 THEN "nan" ELSE "number" ]

\* evaluate_method, and build_summary around it.
Summary ==
  [ kupiec      |-> Pof(flags),
    conditional |-> ConditionalCoverage(flags),
    zone        |-> ZoneOf(flags),
    rolling     |-> IF Len(flags) < BaselWindow THEN Nothing ELSE RollingSummary,
    years       |-> [ y \in Years |-> Annual(y) ],
    episodes    |-> [ e \in Entered |-> Stress(e) ] ]

\* json.dumps(allow_nan=False) accepts the summary.
Serialisable == \A e \in DOMAIN summary.episodes : summary.episodes[e].volatility # "nan"

-----------------------------------------------------------------------------
(* main                                                                    *)

RollingInit ==
  /\ run = 0 /\ phase = "idle" /\ error = "none"
  /\ input = Nothing /\ frame = << >> /\ flags = << >> /\ summary = Nothing
  /\ csv = 0 /\ json = 0 /\ cut = {}

Stop(reason) == phase' = "failed" /\ error' = reason

Start ==
  /\ phase = "idle" /\ run < MaxRuns
  /\ run' = run + 1 /\ phase' = "loading" /\ input' \in Inputs
  /\ UNCHANGED << error, frame, flags, summary, disk >>

\* load_price_series and compute_returns, which may not find or accept the file.
Load ==
  /\ phase = "loading"
  /\ \/ phase' = "walking" /\ UNCHANGED error
     \/ Stop("load")
  /\ UNCHANGED << run, memory, disk >>

TooShort ==
  /\ phase = "walking" /\ input.n <= input.window
  /\ Stop("short")
  /\ UNCHANGED << run, memory, disk >>

Refused ==
  /\ phase = "walking" /\ input.n > input.window /\ EngineRefuses
  /\ Stop("engine")
  /\ UNCHANGED << run, memory, disk >>

\* One turn of the loop: the next day's row.
ForecastDay ==
  /\ phase = "walking" /\ ~EngineRefuses
  /\ input.window + Len(frame) < input.n
  /\ frame' = Append(frame, Row(input.window + Len(frame)))
  /\ UNCHANGED << run, phase, error, input, flags, summary, disk >>

\* The exceptions, from the engine, once every row is there.
FlagExceptions ==
  /\ phase = "walking" /\ input.n > input.window
  /\ input.window + Len(frame) = input.n
  /\ flags' = Violations(Column("var"), Column("loss"))
  /\ phase' = "flagged"
  /\ UNCHANGED << run, error, input, frame, summary, disk >>

\* The independence test refuses a single row before anything is written.
SingleRow ==
  /\ phase = "flagged" /\ ~EnoughForIndependence(flags)
  /\ Stop("sample")
  /\ UNCHANGED << run, memory, disk >>

Summarise ==
  /\ phase = "flagged" /\ EnoughForIndependence(flags)
  /\ summary' = Summary /\ phase' = "summarised"
  /\ UNCHANGED << run, error, input, frame, flags, disk >>

\* Variant: the summary is written before the rows.
WriteJsonFirst ==
  /\ phase = "summarised" /\ json' = run /\ cut' = cut \ {"json"} /\ phase' = "csv"
  /\ UNCHANGED << run, error, memory, csv >>

\* mkdir, and to_csv in place of the rows that were there.
WriteCsv ==
  /\ phase = "summarised" /\ csv' = run /\ cut' = cut \ {"csv"} /\ phase' = "csv"
  /\ UNCHANGED << run, error, memory, json >>

WriteJson ==
  /\ phase = "csv" /\ Serialisable
  /\ json' = run /\ cut' = cut \ {"json"} /\ phase' = "json"
  /\ UNCHANGED << run, error, memory, csv >>

\* The directory or the file cannot be written, before the file is emptied or
\* after, when some of the new content is there and the old is gone.
CannotWriteCsv ==
  /\ phase = "summarised"
  /\ \/ UNCHANGED << csv, cut >>
     \/ csv' = run /\ cut' = cut \cup {"csv"}
  /\ Stop("disk")
  /\ UNCHANGED << run, memory, json >>

CannotWriteJson ==
  /\ phase = "csv" /\ Serialisable
  /\ \/ UNCHANGED << json, cut >>
     \/ json' = run /\ cut' = cut \cup {"json"}
  /\ Stop("disk")
  /\ UNCHANGED << run, memory, csv >>

NotSerialisable ==
  /\ phase = "csv" /\ ~Serialisable
  /\ Stop("nan")
  /\ UNCHANGED << run, memory, disk >>

\* Plotting needs the research extra; --no-figures leaves it out.
Plot ==
  /\ phase = "json"
  /\ \/ phase' = "figures" /\ UNCHANGED error
     \/ Stop("plotting")
  /\ UNCHANGED << run, memory, disk >>

\* print_report reads figures that a short frame's rolling zones do not have.
Report ==
  /\ phase = "figures"
  /\ IF summary.rolling = Nothing THEN Stop("report")
                                  ELSE phase' = "done" /\ UNCHANGED error
  /\ UNCHANGED << run, memory, disk >>

\* The process ends, finished, failed or killed, and only the files remain.
End ==
  /\ phase # "idle"
  /\ phase' = "idle" /\ error' = "none"
  /\ input' = Nothing /\ frame' = << >> /\ flags' = << >> /\ summary' = Nothing
  /\ UNCHANGED << run, disk >>

RollingNext ==
  \/ Start \/ Load \/ TooShort \/ Refused \/ ForecastDay \/ FlagExceptions
  \/ SingleRow \/ Summarise \/ WriteCsv \/ WriteJson \/ NotSerialisable
  \/ CannotWriteCsv \/ CannotWriteJson \/ Plot \/ Report \/ End

RollingSpec == RollingInit /\ [][RollingNext]_rollingVars

-----------------------------------------------------------------------------
(* Properties                                                              *)

\* Every variable keeps its type: rows cover days in order, a year has a zone
\* exactly when it is long enough, and a figure is missing from the yearly
\* entries as null and never as NaN (annual_basel_zones).
RollingTypeOK ==
  /\ run \in 0 .. MaxRuns /\ phase \in Phase /\ error \in Error
  /\ (phase = "failed") = (error # "none")
  /\ csv \in 0 .. run /\ json \in 0 .. run /\ cut \subseteq {"csv", "json"}
  /\ input # Nothing => Len(frame) <= Max({0, input.n - input.window})
  /\ flags # << >> => Len(flags) = Len(frame)
  /\ summary # Nothing => \A y \in DOMAIN summary.years :
       LET entry == summary.years[y]
       IN  /\ (entry.zone = "none") = (entry.n_days < MinYear)
           /\ entry.volatility \in {"null", "number"}

\* Each day after the first window is forecast once, from exactly the window
\* observations that precede it, and its exception compares the loss of that
\* day with the estimate made before it: neither the loop's slices nor the
\* re-indexed series of run_rolling_backtest shift a day.
OutOfSampleExceptions ==
  flags # << >> =>
    /\ { frame[k].date : k \in DOMAIN frame } = Days
    /\ Len(frame) = Cardinality(Days)
    /\ \A k \in DOMAIN frame :
         LET t == frame[k].date
         IN  /\ frame[k].window_end = t - 1 /\ frame[k].n_obs = input.window
             /\ flags[k] = (input.losses[t] = 1 /\ input.estimates[t] = 0)

\* The views of the summary count the same exceptions: the years partition
\* those of the whole sample, and the components of the joint test fit one
\* series: n days have n - 1 transitions, all but the first or the last of x
\* violations are entered or left, and as a violation ends before another
\* begins, the two counts differ by at most one.
SummaryAddsUp ==
  summary # Nothing =>
    LET pof   == summary.conditional.pof
        pairs == summary.conditional.independence
        n00   == pairs[<< FALSE, FALSE >>]
        n01   == pairs[<< FALSE, TRUE >>]
        n10   == pairs[<< TRUE, FALSE >>]
        n11   == pairs[<< TRUE, TRUE >>]
        InYears(Of(_)) == MapThenSumSet(Of, DOMAIN summary.years)
    IN  /\ n00 + n01 + n10 + n11 = pof.n - 1
        /\ n01 - n10 \in -1 .. 1
        /\ n01 + n11 \in {pof.x - 1, pof.x}
        /\ n10 + n11 \in {pof.x - 1, pof.x}
        /\ InYears(LAMBDA y : summary.years[y].n_days) = summary.kupiec.n
        /\ InYears(LAMBDA y : summary.years[y].exceptions) = summary.kupiec.x
        /\ \A e \in DOMAIN summary.episodes : summary.episodes[e].exceptions <= pof.x

\* The zones of the summary and the trailing counts of the figures, computed
\* apart, tell the same: every trailing count of a full window has its zone
\* among the rolling ones, colour by colour, and the worst is the worst.
RollingViewsAgree ==
  summary # Nothing /\ summary.rolling # Nothing =>
    LET full == BaselWindow .. Len(flags)
        zone == [ k \in full |-> Zone(BaselWindow, TrailingCount(k)) ]
    IN  /\ summary.rolling.n_windows = Cardinality(full)
        /\ \A colour \in DOMAIN summary.rolling.counts :
             summary.rolling.counts[colour] = Coloured(zone, colour)
        /\ summary.rolling.counts[summary.rolling.worst] > 0
        /\ "red" \in { zone[k] : k \in full } => summary.rolling.worst = "red"

\* What stopped a run tells what it left: an input it refuses leaves both
\* files as they were, a figure that is not a number leaves new rows beside an
\* old summary, a full disk never a whole summary, and a failure to plot or
\* print comes after both are written.  The summary is never newer than the
\* rows, and beside the summary of their own run the rows are whole.
FailureTellsArtefacts ==
  /\ json <= csv
  /\ json = csv => "csv" \notin cut
  /\ error \in {"load", "short", "engine", "sample"} => csv # run /\ json # run
  /\ error = "nan" => csv = run /\ json # run /\ "csv" \notin cut
  /\ error = "disk" /\ json = run => "json" \in cut
  /\ error \in {"plotting", "report"} \/ phase = "done" => csv = run /\ json = run /\ cut = {}

=============================================================================
