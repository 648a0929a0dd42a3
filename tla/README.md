# Verification of local-quant-risk-ai

TLA+ modules, TLC runs and TLAPS proofs about the program in this repository:
an HTTP service that computes portfolio risk (VaR and expected shortfall),
explains results through a local Ollama model, and a research package that
evaluates volatility models. The modules model control (state changes, guards,
early returns, error paths, the order they happen in); figures, texts and
log formats are abstracted to what the properties tell apart.

Paths below are relative to the repository. `quant_risk_ai/` is
`src/quant_risk_ai/`.

## The system

| Component | State it keeps | Operations | Interacts with | What makes it correct |
|---|---|---|---|---|
| Request body limit (`api/body_limit.py`) | per request: byte count, chunks, latest message, joined body, replayed flag | read a chunk, reject, replay | ASGI server's `receive()`, the application | bounded memory; the application sees the whole body, once; nobody waits for a client that left |
| HTTP service (`api/main.py`, `dependencies.py`, `core/exceptions.py`) | the cached Ollama client; per request its place in the stack | middleware, exception handlers, dependency | worker threads, routers | one status and one log line per request, the status naming the right culprit |
| Explanation (`llm/explain.py`, `ollama_client.py`, `claims.py`, `routers/explain.py`) | none | prompt budget, POST to Ollama, two guards | Ollama | no unverified or cut text leaves |
| Numeric check and facts (`llm/numeric_check.py`, `facts.py`, `prompt_templates.py`) | none | validate a resubmitted result, build the fact sheet (twice: for the prompt and for the check), match a text's numbers, dates and names | explanation | the prompt shows nothing the check rejects; what is accepted is true of the result; the summary stands for the whole portfolio |
| Portfolio endpoints (`routers/portfolio.py`, `api/schemas.py`) | results and failures of one request | validate, compute each pair, respond | risk engine | all or nothing; same answers as the single endpoints |
| Risk engine (`risk/`) | none | six portfolio functions, six single-asset ones | alignment | guards in a fixed order, typed exceptions |
| Single-asset endpoints (`routers/var.py`, `expected_shortfall.py`) | none | validate, call one of the six v1 functions | risk engine | a portfolio of one position fails and succeeds as they do |
| Alignment (`data/alignment.py`) | none | window, intersection, accounting | loaders, engine | every observation accounted for; complete rows |
| Loaders, returns (`data/loaders.py`, `returns.py`) | none | parse CSV, compute returns | alignment | strict dates, no inferred formats |
| Backtesting (`risk/backtesting.py`, `forecast_evaluation.py`) | none | count violations, tests, zones | routers, research | counts over the right days |
| Walk-forward (`research/volatility/garch.py`, `walk_forward.py`, `regimes.py`) | fit log, forecasts, residual windows | monthly refits, forecasts, residuals | M13 run | no look-ahead; stale parameters flagged; full windows |
| M13 evaluation (`research/volatility/report.py`, class `Evaluation`) | the blocks built so far | backtests, two families of Diebold-Mariano tests with Holm, four hypotheses | backtesting, walk-forward | each test in one family, defined or excluded; hypotheses only on evidence |
| M13 run (`research/volatility/run_m13.py`, `data.py`) | the output directory | preconditions, load, compute, write | git, file system, people | it runs once; files of one run only |
| Rolling backtest (`research/rolling_backtest.py`) | the baseline's artefacts | walk the days, flag, summarise, write, report | file system | out-of-sample windows; every count agrees; what a stopped run leaves is known |

**Hard behaviours.** Requests are concurrent on an event loop; synchronous
handlers and dependencies run in a bounded pool of threads, each held while it
waits for Ollama. Clients split bodies, lie about lengths and leave. Ollama may
answer anything, late, or never. Exceptions leave through three layers that do
not see each other (typed handlers, log middleware, server error middleware).
A portfolio report computes pairs that fail one by one. Alignment mixes dates
with time stamps. The walk-forward carries parameters over failed refits. The
M13 run checks its preconditions hours before it writes, may crash between two
files, and reads inputs that people can edit. Its evaluation pools tests that may
be undefined one by one, and the blocks of its report read each other. The check of
an explanation and the prompt it answers round, aggregate and cut the same result
in two builds of the fact sheet. The rolling backtest counts the same
exceptions in five ways and writes two files that a failure can separate. `PROJECT.json` lists each of these
hazards at its line with the properties that would catch it.

## Modules

| Module | Models | State and actions |
|---|---|---|
| `SizeGate` | what the body limit promises | a verdict per request; `Forward`, `Reject`, `Abandon` |
| `BodyLimit` | `BodySizeLimitMiddleware.__call__` | `pc` is the place in the coroutine, `size` and `kept` its two counts, `chunk` the latest message, which its locals keep; one action per `receive()`: `CheckHeader`, `ReceiveChunk`, `ReceiveDisconnect`, then `JoinChunks` and `ClearChunks`, then `AppReceivesBody` / `AppReceivesDisconnect` for `replay()` |
| `ErrorMapping` | exception classes, handlers, statuses | operators: `HandlerOf` walks the method resolution order; FastAPI's own 400 for a body it cannot decode is among them |
| `ExplainGate` | prompt budget, judgement of an Ollama reply | operators: `FitsContext`, `GenerateOutcome`, `Judge` |
| `Sorting` | Python's `sorted` with a key | operator: each element goes to the place given by how many come before it |
| `FactSheet` | `build_fact_sheet` of `facts.py` | operators: one per kind of line; a fact keeps the forms the check knows and the copies a writer can make of its line |
| `NumericCheck` | an explanation from the result to the verdict | extends `FactSheet`; `result`, `text`, `phase`; `Lettered` is the identifiers with a letter, the only ones `Removed` from a text; `BuildPrompt` or `RefuseResult`, then what the model writes (`CopyFacts`, `Invent`, `InventDate`, `NameAnother`), then `Accept` or `Reject` on a sheet built again |
| `ApiService` | a request from body limit to answer | composes the three above (`Gate == INSTANCE SizeGate`, extends the other two); `stage` is where each request is, `InWorker` the stages that hold a thread; `default` and `built` are the client cache |
| `PortfolioRisk` | `portfolio_risk`, its request model, the guards of the six engine functions, and of the six v1 functions behind the single-asset endpoints | `done`, `results`, `failures` are the loop's locals; each engine function is the sequence of its guards, and `overflow` the pairs whose figure is not finite; the v1 ones are operators that a one-position portfolio is compared with |
| `Alignment` | `align_returns` | the arguments are chosen in `Init`; one action per way of returning |
| `WalkForward` | `run_walk_forward`, `run_refits`, `_garch_fhs_oos` | `log` is the fit log per schedule; `Refit` is one turn of `run_refits`; a forecast is the parameters it uses and the positions of the returns it reads; `SliceFrom` is Python's slice of the variance path, negative indices included, and `SameShape` the check that catches the wrong ones |
| `StudyReport` | class `Evaluation` of `report.py`, `holm_adjusted_p_values` | `dm` holds the entries per family, `exclusions` and `hypotheses` the later blocks; one action per block of `build`, the p-values and rejections chosen in them |
| `M13Run` | `main()` of the M13 run, several times over | `pc` per invocation; `Raises` is an exception of any step after the checks; the tree (`content`, `committed`, `head`) changes by `Edit` and `Commit`, `Clear` removes an incomplete directory |
| `Backtest` | the counts of `risk/backtesting.py` | operators: violations, Christoffersen transitions (a function of the pair of consecutive days), and the traffic light with its binomial probabilities as exact fractions |
| `RollingBacktest` | `main()` of the baseline study, several times over one directory | extends `Backtest`; `frame` and `flags` are the rows and the exception column, `summary` what `build_summary` returns, `csv` and `json` the invocations that wrote the two files and `cut` the files cut short; `ForecastDay` is one turn of the loop |
| `MCApiService`, `MCPortfolioRisk`, `MCAlignment`, `MCWalkForward`, `MCRollingBacktest`, `MCNumericCheck`, `MCStudyReport` | instances for TLC | constants only |
| `OrderLemmas` | lemmas | least and greatest elements, finite images, and what `SortedBy` returns |
| `BodyLimitProofs`, `ApiServiceProofs`, `NumericCheckProofs`, `EngineProofs`, `WalkForwardProofs`, `StudyReportProofs`, `ResearchProofs` | theorems | see Proofs |

`ApiService` takes the body limit by its promise. That is sound because
`BodyLimit` implements `SizeGate`: run `body_limit` checks it and theorem
`Implements` proves it.

Operators commented as variants are faulty versions of the definition that
follows them. No specification uses them: replacing the definition by its
variant must break the property named in `PROJECT.json`, which shows that the
property can fail.

## Runs

| Run | Instance | What it shows |
|---|---|---|
| `body_limit` | one request, limit 2, up to 4 bytes | what is held in each phase, whole body once, implements `SizeGate`, always decides |
| `api_outcomes` | eleven kinds of request beside an `/explain` request, every Ollama reply or silence, one thread | what leaves is verified, each status has its cause, the log line matches, every request completes |
| `client_cache` | three first `/explain` requests, two threads | clients built are bounded by threads |
| `numeric_check` | single assets, portfolios of two to four assets with ties, zeros and figures a rounding apart, dropped dates, edited results; texts that copy, invent or name | copied figures, dates and names with a letter pass, accepted ones are true, the summary stands for the whole portfolio |
| `portfolio_risk` | six method lists, two metric lists, every combination of guard facts | every pair accounted for, agreement with the single-method endpoints and, on one position, with the v1 ones; dropping the methods that failed returns the rest |
| `alignment` | two assets, three days, two times of day, every window | every observation in one bucket, explained holes, windows only cut |
| `walk_forward` | ten days, fits of three and residual windows of two to four, every calendar, interval and fit outcome | no look-ahead, staleness, one refit a month, full and out-of-sample windows, none for a residual window longer than the fits' |
| `m13_run` | two invocations, one commit | single author, single completion, metadata last |
| `study_report` | two tests of F1 and four of F2, every pattern of undefined tests and p-values, three groups of rejections, mean losses in most orders | Holm's loop is the closed test, every test is reported or excluded, hypotheses rest on evidence |
| `rolling_backtest` | up to four forecast days, every loss and VaR, every division into years, two episodes, each refused input, files that fail before or after they are emptied, two invocations | out-of-sample exceptions on their own day; agreement of all counts; what each failure leaves on disk |
| `exponent_figures`, `window_used` | those of `numeric_check` and `alignment` | two statements of the sources that the code does not keep (see Findings) |

**Bounds and why they suffice.** Body limit: requests share no state, so one is
enough; with limit 2 and 4 bytes a body can be below, at and above the limit in
one, two or three chunks, and a header can lie in both directions. Service: the
only shared state is the thread pool and the client cache. One thread that an
`/explain` request may hold shows waiting for it; two threads and three requests
let two find the cache empty together while a third comes later; the length
numbers of the context budget put one prompt exactly at the budget and one above
it. Portfolio: every guard compares with one threshold, and three methods with two
metrics give every pattern of success and failure around it; with `MaxCells` 7 and
`MaxSims` 4, five simulations are too many for any request and four for two assets;
a figure overflows for an ES, for a VaR, for a whole method or for all. Alignment:
three days have a first, an inner and a last day, two slots tell midnight from
later. Walk-forward: ten days with fits of three hold several refits, their residual
windows, and refits of the schedule before the sample that have no full window yet;
a residual window of four makes the slice of the variance path wrap. Rolling backtest: with three days for Basel's 250
and one exception expected in four, four days give two rolling windows that can
be green, yellow or red, a lone violation, a cluster and a gap; years of one to
four days lie on both sides of the classification minimum of two. Numeric check:
with two positions, one dropped date and one missing asset listed at most,
portfolios of two to four assets and lists of none to three are shorter than, as
long as and longer than what is listed; amounts of a third of a unit make weights
and remainders that round up and down; every mark meets a number of another unit.
Study report: p-values of 1, 2 and 5 twelfths with a level of 4 lie on both sides
of each of Holm's four steps, on the boundary of two of them, and tie; which
comparisons are kept (`Comparison`), which mean losses and which rejections occur
are bounds. Each model's filtered quantiles are compared with its normal ones in
two of three ways, which together give every sign. M13: the properties speak of pairs of runs; edits are
unbounded (a version is one of two), commits are bounded by `MaxCommits`.

**Deadlock** is not checked: in every module the system may really stop (all
requests answered, the call returned, the run over).

**Fairness.** `BodyLimit`: weak fairness of the middleware and of the
application's `receive()`, which the event loop gives to a coroutine that can
proceed. `ApiService`: weak fairness of each request's own steps, which the
event loop, the thread pool and httpx's timeout give. A thread can be
claimed by another request again and again, yet weak fairness suffices because
requests are finite and none returns to the queue once it is served. Clients
and Ollama have no fairness. The timeout is the one of a silent
Ollama: httpx counts it per read, and a reply that trickles in is outside the
model.

## Findings

Two runs check a statement of the sources that the code does not keep:

1. `exponent_figures`: a single-asset figure below 1e-4 is printed in exponent
   notation, of which the check reads the digits and the exponent as two numbers; a
   text that copies it is rejected. `facts.py` says that the prompt can never show
   a number the check would reject. For a portfolio's figures and dates, and for names
   with a letter in them, it cannot (`CopiesPass`, proved).
2. `window_used`: with time-stamped series the reported window is not the one
   used: it ends at midnight of its last day.

Disagreements without a run of their own:

- The comment above the join in `body_limit.py` says that the pieces are released and
  one copy of the body is held while the application runs. The list is cleared, but the
  locals `chunk` and `message` keep the last piece, so more than the limit may be held,
  and less than twice the limit: `HeldWithinLimit` states what is held where.
- `missing_assets` is keyed by date, so of two dropped stamps of one date the later
  overwrites the earlier. `AlignedReturns` says that it tells which assets lacked the
  date; it tells which lacked one of the date's stamps, as `HolesExplained` states.
- `facts.py` makes its promise for every number it shows. An asset whose identifier
  is a number stands in a portfolio's prompt too, only names with a letter are
  removed from a text before it is scanned (deliberately: `docs/design_m11.md`), and
  a text that copies such an identifier is rejected unless it matches a fact.
  `CopiesPass` leaves these names out, and the instance has both kinds.
- The API reference promises an ordinary 422 for failures common to every pair. A
  horizon below one, or a total value that is not finite, fails every pair in its own
  engine function and is listed once per pair. `PortfolioRisk` has both as inputs.
- A `response` from Ollama that is not a string is a 500, not the documented 503
  (`ErrorMapping` and `ExplainGate` model it, `StatusTellsWhoFailed` states which
  status each failure has).
- A negative seed, or a horizon too large to represent, is answered as a bug (500)
  by the portfolio endpoint; `PortfolioRisk` has both as inputs.
- `get_ollama_client` is not locked and may build several clients where its
  docstring says one; run `client_cache` shows that there are never more than worker
  threads (`ClientsBounded`, proved).
- In the rolling backtest, a stress episode with one forecast day puts a NaN in
  the summary, so `summary.json` is not written, after the rows were; and
  `print_report` reads `pct_green`, which is absent below 250 forecast days, so a
  short run ends in a `KeyError` with both files written. `FailureTellsArtefacts`
  states both outcomes.
- `forecast_evaluation.py` calls the Diebold-Mariano test undefined for losses a
  constant apart. Rounding in `fsum` may leave a variance above zero (with three
  days and a constant of 0.1, for one), and then there is a p-value. `StudyReport`
  allows both.

## Proofs

`BodyLimitProofs`, for any set of requests and any limit, from
`SizeAssumption` (both bounds are naturals):

- `TypeCorrect`, `HeldBounded`, `Whole`: the invariants of run `body_limit`. They are
  not inductive, because they speak of what is held and delivered and not of
  what is still to be read. `IInv` adds `Account`: at each place of the
  coroutine, where every byte the client sent is (while reading,
  `size + unread = sent` and `kept = size`; after it, the latest message is no more
  than the body). The loop keeps the account, and the
  invariants follow from it.
- `Implements`: every step maps to a step of `SizeGate` or a stutter. The case
  that needs the account is `ReceiveChunk`: a body forwarded is complete and
  within the limit because `size + unread = sent` and nothing is unread.

`ApiServiceProofs`, for any requests, any number of worker threads, any context
window and anything Ollama answers:

- `ServiceTypeCorrect`, `LogAndAnswerAgree`, `VerifiedTextOnly`, `StatusTells`:
  the invariants of run `api_outcomes`. The strengthening `Journey` says of each
  stage what must have happened to a request that is there: what it asked, whether
  Ollama was called, and which outcomes it may carry; `Exit` does so for
  the layers on the way out, where the log line and the answer are written apart.
- `ClientsWithinThreads`: `Threads` counts the clients built together with the
  requests that found the cache empty and are about to build one. Nobody joins
  these once the cache is filled, and until then nothing has been built and each of
  them holds a thread.

`WalkForwardProofs`, for any number of days, calendar, interval and windows:

- `WalkForwardTypeCorrect`, `NothingAhead`, `StalenessExact`, `RefittedEachMonth`,
  `WindowsOfResiduals`: the invariants of run `walk_forward`. Nothing is assumed of the
  lengths of the fits' and the residual windows but that they are at least one day: a
  slice of the right length starts where it should (`WholeStarts`), and with longer
  residual windows the first day's never has it (`LongWindowsStop`). The strengthening
  says that a log holds dates of its own refit calendar and begins with its first,
  which succeeded (`Logged`), in which phases it holds all of them (`Complete`),
  and that forecasts and residuals are those of the log as it is. The parameters in
  force are a greatest element and the next refit a least one; `OrderLemmas` gives both.

`StudyReportProofs`, for any comparisons kept, p-values, level, mean losses and
rejections (`StudyAssumption`: p-values between 0 and 1, finitely many comparisons):

- `HolmRejectsAsClosedTest`: the running maximum at a rank is the step of some
  earlier rank and no less than any of them. A test that Holm keeps has an earlier
  rank whose step is above the level, and the set of tests from that rank on is the
  one Bonferroni does not reject; a set that Holm's tests belong to is rejected
  through its test of the lowest rank. `OrderLemmas!Sorts` gives the ranks.
- `AllTestsReported`, `HypothesesOnEvidence`: the strengthening says, per phase,
  that the entries of a family are Holm's adjustment of some p-values and have the
  signs of the mean losses (`Reported`), that the exclusions are those of the
  entries (`Listed`), and what a supported hypothesis was decided on (`Supported`).

`NumericCheckProofs`, for any results of the right type (`CheckAssumption`: each dropped
date has its list of missing assets) and any limits on what the
prompt lists:

- `PromptNeverRejected`: each fact of a portfolio's sheet is one of four kinds
  (`Stated`), whatever was rounded, aggregated or cut before it, names with a letter
  are removed from the text, and each copy of
  such a fact reads, in the unit it is written in, as a form of that fact. That needs
  positive totals and notionals that are amounts, hence the check of a resubmitted
  result; that a sum of amounts is one is proved by its least counterexample. A
  single asset's sheet has a fifth kind, the value as Python prints it, for which run
  `exponent_figures` shows that the same does not hold.
- `AcceptedTextIsTrue`: the converse direction. A number that matches matches a
  form of a fact of the sheet, each form is a figure of the result after one of the
  roundings the sheet applies (`TrueOf` says which, unit by unit), and the tolerance
  of the match carries over to the figure with what the rounding moved. Here too a
  resubmitted result has passed its consistency check, or the percentages
  would be of another total; the strengthening records that.

`EngineProofs`, of `Alignment` for any assets, days, times of day and window:

- `AlignTypeCorrect`, `ObservationsCounted`, `HolesHaveReasons`, `WindowCuts`: the
  invariants of run `alignment`. The strengthening (`AlignInv`) says that the answer
  is the one the arguments determine; the rest is about that answer. An asset's
  stamps split into those before, inside and after the window (`ThreeParts`), and
  those inside into the common and the dropped ones, which the code counts as a
  difference of lengths. Of several dropped stamps of one date the latest names the
  missing assets, which are those that lack that stamp. A requested window cuts the
  derived one.

`EngineProofs`, of `PortfolioRisk` for any confidence, horizon, settings, metrics,
methods and combination of the facts the guards read:

- `RiskTypeCorrect`, `PairsAccountedFor`, `AgreesWithSingleEndpoints`,
  `MethodsFailWhole`, `OnePositionAsV1`: the invariants of run `portfolio_risk`. The
  strengthening (`RiskInv`) says of the loop that the pairs before `done` are those
  returned and those listed, each in request order and once (`Loop`, `OrderInv`), and of an answer which
  of the three it is and why (`Refused`, `Broken`, `Responded`). The theorems
  about other requests (fewer methods, one method) compare the guards of two
  queries, not two executions.

`ResearchProofs`, of `M13Run` for any set of invocations and any number of commits:

- `RunTypeCorrect`, `OnlyOneAuthor`, `OneCompletion` and `CompleteWhenMarked`:
  the invariants of run `m13_run`. The strengthening says who owns the
  directory: a run that is writing or done is the only one, all files present
  are its own, and those before its position in `Order` are whole. `Create`
  gives ownership because the directory did not exist, and `Clear` cannot take
  it back from a run that finished.

`ResearchProofs`, of `RollingBacktest` for any inputs, episodes, Basel window,
classification minimum and number of invocations (`RollingAssumption`: an input is a
series with an estimate for each day after the first window):

- `RollingTypeCorrect`, `ExceptionsOutOfSample`, `FailuresTell`: from `RollingInv`,
  which says that the rows are those of the first days in order, that flags and
  summary, once there, are those of a frame that covers every day, and which files
  the invocation has written, whole or cut short, in each phase and after each failure.
- `RollingViews`: the slice that starts at s and the trailing count that ends at
  s + window - 1 read the same days, so the two colourings are one, shifted, and
  shifting a set of days keeps its size (`ShiftCounts`).
- `SummaryCounts`: the days that carry a year are a part of all days, and a sum over
  the years of the sizes of such parts is the size of the whole, in whatever
  order the sum takes them (`IntoTotals`, `TotalsAre`, by a least counterexample). The
  transitions are the parts of the days but the last, and of the days but the first,
  that have a violation (`TransitionsAddUp`).

Model-checked only: liveness (`Decided`, `EveryRequestCompletes`), which the
prover does not reach.

## Not modelled

- Floating-point results (quantiles, moments, Cholesky factors, GARCH filters,
  likelihood ratios): guards on them are facts of the request or of the fit. What
  the v1 functions make of moments that overflow (`max(0.0, -nan)` is 0.0) is
  part of that.
- Texts: which words a pattern of the guards matches, how a text is cut into
  numbers, dates and names. Numbers printed with an exponent are the exception.
- Of a resubmitted result, the validation of its dropped dates.
- Of `report.py`, the blocks that decide nothing: regimes, reactions to shocks,
  rank correlation, decomposition, fit counts and the Acerbi-Szekely simulation;
  and the second window specification, which runs the same code.
- Loaders (CSV parsing and arithmetic on prices), volatility recursions, figures,
  downloads, demo scripts, configuration and logging: input and output, or
  functions without state or control.
- A reply of Ollama that trickles in and keeps resetting the read timeout: it needs
  real time.

## Plan

1. Done: the modules above, in the order of the table, and the proofs of every
   invariant the runs check.
2. Next modules: a `SeriesInput` for the checks of the loader and of a return
   series, feeding `Alignment`; the backtest endpoint in `PortfolioRisk`'s form.
