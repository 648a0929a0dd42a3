---------------------------- MODULE PortfolioRisk ----------------------------
(***************************************************************************)
(* POST /portfolio/risk (api/routers/portfolio.py): several (method,       *)
(* metric) pairs computed one after the other over one upload, and one     *)
(* answer for all of them.                                                 *)
(*                                                                         *)
(* The six engine functions are abstracted to their guards, in the order   *)
(* each function checks them; a request is abstracted to the facts the     *)
(* guards read.  Figures are left out: a pair succeeds or names its error. *)
(***************************************************************************)
EXTENDS Naturals, Sequences, FiniteSets

CONSTANTS
  Query,    \* the requests considered, see QueryType
  MaxCells, \* QUANT_RISK_AI_MAX_SIMULATION_CELLS
  MaxSims   \* QUANT_RISK_AI_MAX_N_SIMULATIONS

RiskMethod == {"historical", "parametric", "monte_carlo"}
RiskMetric == {"VaR", "ES"}
Pair == RiskMethod \X RiskMetric

(***************************************************************************)
(* portfolio:  "worthless" when nothing but the sum of the notionals,      *)
(*   zero, is wrong with it                                                *)
(* alpha, total: is alpha in (0, 1), and the sum of the notionals finite?  *)
(* horizon:    horizon_days, which any integer may be; "unrepresentable"   *)
(*   when it has no float, which math.sqrt refuses                         *)
(* overflow:   the pairs whose scaled figure is no longer a finite float   *)
(* required:   min_required_observations(alpha)                            *)
(* aligned:    dates every asset has; 0 when the series cannot be aligned  *)
(* covariance: what the estimate over those dates is like                  *)
(***************************************************************************)
QueryType ==
  [ methods : Seq(RiskMethod), metrics : Seq(RiskMetric),
    portfolio : {"valid", "worthless", "invalid"}, alpha : BOOLEAN, total : BOOLEAN,
    horizon : {"positive", "not_positive", "unrepresentable"},
    overflow : SUBSET Pair,
    required : Nat, aligned : Nat, assets : Nat \ {0}, simulations : Nat,
    covariance : {"regular", "singular", "non_finite"},
    seed : {"absent", "negative", "natural"} ]

ASSUME QueryAssumption ==
  /\ MaxCells \in Nat /\ MaxSims \in Nat
  /\ \A q \in Query : q \in QueryType

-----------------------------------------------------------------------------
(* The engine functions                                                    *)

\* Which requests for a pair a guard lets through.
Passes(guard, pair, q) ==
  CASE guard = "alpha"             -> q.alpha
    [] guard = "alignment"         -> q.aligned > 0
    [] guard = "position_value"    -> q.total
    [] guard = "sample_size"       -> q.aligned >= q.required
    [] guard = "simulation_count"  -> q.simulations >= q.required
    [] guard = "parametric_sample" -> q.aligned >= 2
    [] guard = "covariance_sample" -> q.aligned >= q.assets + 1
    [] guard = "covariance_finite" -> q.covariance # "non_finite"
    [] guard = "cholesky"          -> q.covariance = "regular"
    [] guard = "seed"              -> q.seed # "negative"
    [] guard = "horizon"           -> q.horizon # "not_positive"
    [] guard = "sqrt"              -> q.horizon # "unrepresentable"
    [] guard = "figure"            -> pair \notin q.overflow

\* The exception a guard raises; default_rng raises a plain ValueError, and
\* math.sqrt an OverflowError.
Raises(guard) ==
  CASE guard \in {"alpha", "position_value", "horizon", "figure"} -> "InvalidParameterError"
    [] guard \in {"alignment", "parametric_sample"}       -> "InsufficientDataError"
    [] guard \in {"sample_size", "simulation_count", "covariance_sample"} ->
         "InsufficientSampleSizeError"
    [] guard = "covariance_finite"                        -> "DataValidationError"
    [] guard = "cholesky"                                 -> "SingularCovarianceError"
    [] guard = "seed"                                     -> "ValueError"
    [] guard = "sqrt"                                     -> "OverflowError"

\* The errors of the package, which the handler collects, and the others.
QuantRiskAIErrors ==
  {"InvalidParameterError", "InsufficientDataError", "InsufficientSampleSizeError",
   "DataValidationError", "SingularCovarianceError"}

Bugs == {"ValueError", "OverflowError"}

\* scale_to_horizon, then RiskResult's own check of the figure.
Report == << "horizon", "sqrt", "figure" >>

HistoricalVar ==
  << "alpha", "alignment", "position_value", "sample_size" >> \o Report
HistoricalES ==
  << "alpha", "alignment", "position_value", "sample_size" >> \o Report

Covariance == << "covariance_sample", "covariance_finite" >>

ParametricVar ==
  << "alpha", "alignment", "position_value", "parametric_sample" >>
  \o Covariance \o Report
ParametricES ==
  << "alpha", "alignment", "position_value", "parametric_sample" >>
  \o Covariance \o Report

\* simulate_portfolio_returns: the estimate, its factor, then the draws.
Simulate == Covariance \o << "cholesky", "seed" >>

\* Variant: ES alone forgets that too few simulations leave its tail empty.
MonteCarloESUnchecked ==
  << "alpha", "alignment", "position_value", "parametric_sample" >>
  \o Simulate \o Report

MonteCarloVar ==
  << "alpha", "simulation_count", "alignment", "position_value", "parametric_sample" >>
  \o Simulate \o Report
MonteCarloES ==
  << "alpha", "simulation_count", "alignment", "position_value", "parametric_sample" >>
  \o Simulate \o Report

\* _ENGINE: the function computing each pair.
Engine(pair) ==
  CASE pair = << "historical",  "VaR" >> -> HistoricalVar
    [] pair = << "historical",  "ES"  >> -> HistoricalES
    [] pair = << "parametric",  "VaR" >> -> ParametricVar
    [] pair = << "parametric",  "ES"  >> -> ParametricES
    [] pair = << "monte_carlo", "VaR" >> -> MonteCarloVar
    [] pair = << "monte_carlo", "ES"  >> -> MonteCarloES

\* "ok", or the exception of the first guard that refuses.
Outcome(guards, pair, q) ==
  LET failing == { i \in DOMAIN guards : ~Passes(guards[i], pair, q) }
      first   == CHOOSE i \in failing : \A j \in failing : i <= j
  IN  IF failing = {} THEN "ok" ELSE Raises(guards[first])

\* _compute
Compute(pair, q) == Outcome(Engine(pair), pair, q)

-----------------------------------------------------------------------------
(* The single-asset functions of the first version                         *)

SingleHistoricalVar == << "alpha", "position_value", "sample_size" >> \o Report
SingleHistoricalES  == << "alpha", "position_value", "sample_size" >> \o Report

SingleParametricVar == << "alpha", "position_value", "parametric_sample" >> \o Report
SingleParametricES  == << "alpha", "position_value", "parametric_sample" >> \o Report

SingleMonteCarloVar ==
  << "alpha", "position_value", "parametric_sample", "simulation_count", "seed" >>
  \o Report

\* Variant: the real sample is held to the floor of the simulated one.
SingleMonteCarloESOnSample ==
  << "alpha", "position_value", "sample_size", "simulation_count", "seed" >>
  \o Report

SingleMonteCarloES ==
  << "alpha", "position_value", "parametric_sample", "simulation_count", "seed" >>
  \o Report

\* The v1 endpoint of a metric and, for ES, what it dispatches a method to.
VarEndpoint(method) ==
  CASE method = "historical"  -> SingleHistoricalVar
    [] method = "parametric"  -> SingleParametricVar
    [] method = "monte_carlo" -> SingleMonteCarloVar
ExpectedShortfallEndpoint(method) ==
  CASE method = "historical"  -> SingleHistoricalES
    [] method = "parametric"  -> SingleParametricES
    [] method = "monte_carlo" -> SingleMonteCarloES

\* What v1 answers for the position of a one-position request.  A series it
\* cannot build or a negative value is refused; a value of zero is not.  A lone
\* series is aligned with itself, so both see the same observations.
V1(pair, q) ==
  IF q.portfolio = "invalid" THEN "InvalidParameterError"
  ELSE Outcome(IF pair[2] = "VaR" THEN VarEndpoint(pair[1])
               ELSE ExpectedShortfallEndpoint(pair[1]), pair, q)

-----------------------------------------------------------------------------
(* The request models                                                      *)

Distinct(s) == \A i, j \in DOMAIN s : s[i] = s[j] => i = j

UsesMonteCarlo(q) == \E i \in DOMAIN q.methods : q.methods[i] = "monte_carlo"

\* Monte Carlo needs a seed and a bounded number of simulated cells.
MonteCarloAllowed(q) == q.seed # "absent" /\ q.assets * q.simulations <= MaxCells

\* PortfolioRiskRequest.
Accepted(q) ==
  /\ q.methods # << >> /\ q.metrics # << >>
  /\ Distinct(q.methods) /\ Distinct(q.metrics)
  /\ q.simulations <= MaxSims
  /\ UsesMonteCarlo(q) => MonteCarloAllowed(q)

\* What a single-method endpoint answers for one pair of the same request.
SingleEndpoint(pair, q) ==
  IF q.portfolio # "valid" THEN "InvalidParameterError" ELSE Compute(pair, q)

-----------------------------------------------------------------------------
(* The handler                                                             *)

VARIABLES
  query,    \* the request
  phase,    \* "received", "computing" or "answered"
  done,     \* how many pairs were computed
  results,  \* pairs computed, in order
  failures, \* [pair, error] of the pairs that failed, in order
  answer    \* what the caller gets

vars == << query, phase, done, results, failures, answer >>

None == [status |-> 0, results |-> << >>, failures |-> << >>, withheld |-> << >>]

\* Variant: metrics outer, methods inner.
MetricsOuter(q) ==
  [ i \in 1 .. Len(q.methods) * Len(q.metrics) |->
      << q.methods[1 + ((i - 1) % Len(q.methods))],
         q.metrics[1 + ((i - 1) \div Len(q.methods))] >> ]

\* The pairs requested, in request order: methods outer, metrics inner.
Pairs(q) ==
  [ i \in 1 .. Len(q.methods) * Len(q.metrics) |->
      << q.methods[1 + ((i - 1) \div Len(q.metrics))],
         q.metrics[1 + ((i - 1) % Len(q.metrics))] >> ]

TypeOK ==
  /\ query \in Query
  /\ phase \in {"received", "computing", "answered"}
  /\ done \in 0 .. Len(Pairs(query))
  /\ results \in Seq(Pair)
  /\ failures \in Seq([pair : Pair, error : QuantRiskAIErrors])
  /\ phase = "computing" => Len(results) + Len(failures) = done
  /\ answer.status \in {0, 200, 422, 500}

Init ==
  /\ query \in Query
  /\ phase = "received"
  /\ done = 0 /\ results = << >> /\ failures = << >>
  /\ answer = None

Reply(status, ok, failed, withheld) ==
  /\ phase' = "answered"
  /\ answer' = [status |-> status, results |-> ok, failures |-> failed,
                withheld |-> withheld]

\* validate_alpha and portfolio_returns, called once for all pairs.
SharedPreconditions(q) == q.alpha /\ q.aligned > 0

\* A body the model rejects, a portfolio build_portfolio refuses, and the
\* preconditions shared by every pair: one ordinary 422.
Refuse ==
  /\ phase = "received"
  /\ \/ ~Accepted(query)
     \/ query.portfolio # "valid"
     \/ ~SharedPreconditions(query)
  /\ Reply(422, << >>, << >>, << >>)
  /\ UNCHANGED << query, done, results, failures >>

Dispatch ==
  /\ phase = "received"
  /\ Accepted(query) /\ query.portfolio = "valid" /\ SharedPreconditions(query)
  /\ phase' = "computing"
  /\ UNCHANGED << query, done, results, failures, answer >>

Current == Pairs(query)[done + 1]

PairSucceeds ==
  /\ phase = "computing" /\ done < Len(Pairs(query))
  /\ Compute(Current, query) = "ok"
  /\ done' = done + 1
  /\ results' = Append(results, Current)
  /\ UNCHANGED << query, phase, failures, answer >>

\* Variant: the loop stops at the first failure.
FailsFast ==
  /\ phase = "computing" /\ done < Len(Pairs(query))
  /\ Compute(Current, query) \in QuantRiskAIErrors
  /\ done' = Len(Pairs(query))
  /\ failures' = Append(failures, [pair |-> Current, error |-> Compute(Current, query)])
  /\ UNCHANGED << query, phase, results, answer >>

\* except QuantRiskAIError: collected, and the loop goes on.
PairFails ==
  /\ phase = "computing" /\ done < Len(Pairs(query))
  /\ Compute(Current, query) \in QuantRiskAIErrors
  /\ done' = done + 1
  /\ failures' = Append(failures, [pair |-> Current, error |-> Compute(Current, query)])
  /\ UNCHANGED << query, phase, results, answer >>

\* Any other exception leaves the handler at once.
PairBreaks ==
  /\ phase = "computing" /\ done < Len(Pairs(query))
  /\ Compute(Current, query) \in Bugs
  /\ Reply(500, << >>, << >>, << >>)
  /\ UNCHANGED << query, done, results, failures >>

\* Variant: whatever succeeded is returned.
RespondPartially ==
  /\ phase = "computing" /\ done = Len(Pairs(query))
  /\ IF results = << >>
     THEN Reply(422, << >>, failures, results)
     ELSE Reply(200, results, << >>, << >>)
  /\ UNCHANGED << query, done, results, failures >>

\* All or nothing, once every pair was computed.
Respond ==
  /\ phase = "computing" /\ done = Len(Pairs(query))
  /\ IF failures # << >>
     THEN Reply(422, << >>, failures, results)
     ELSE Reply(200, results, << >>, << >>)
  /\ UNCHANGED << query, done, results, failures >>

Step == Refuse \/ Dispatch \/ PairSucceeds \/ PairFails \/ PairBreaks \/ Respond

Next == Step

Spec == Init /\ [][Next]_vars /\ WF_vars(Next)

-----------------------------------------------------------------------------
(* Properties                                                              *)

Computed == 1 .. Len(Pairs(query))

\* A list of pairs names them as the request orders them, none twice.
InRequestOrder(list, q) ==
  \A i, j \in DOMAIN list, a, b \in 1 .. Len(Pairs(q)) :
    i < j /\ list[i] = Pairs(q)[a] /\ list[j] = Pairs(q)[b] => a < b

FailedPairs(list) == [ i \in DOMAIN list |-> list[i].pair ]

\* Every pair requested is in the answer once: a 200 has a result for each of
\* them, methods outer and metrics inner, and a refused report lists each as
\* failed with its error or as withheld, never both and never twice, and either
\* list in the order of the request.
EveryPairAccountedFor ==
  /\ answer.status = 200 =>
       /\ answer.results = Pairs(query) /\ Distinct(answer.results)
       /\ \A i, j \in Computed : i < j =>
            LET At(p, s) == CHOOSE k \in DOMAIN s : s[k] = p
                mi == At(answer.results[i][1], query.methods)
                mj == At(answer.results[j][1], query.methods)
            IN  mi <= mj
  /\ answer.failures # << >> =>
       LET failed   == { answer.failures[i].pair : i \in DOMAIN answer.failures }
           withheld == { answer.withheld[i] : i \in DOMAIN answer.withheld }
       IN  /\ failed \cup withheld = { Pairs(query)[i] : i \in Computed }
           /\ failed \cap withheld = {}
           /\ InRequestOrder(FailedPairs(answer.failures), query)
           /\ InRequestOrder(answer.withheld, query)
           /\ answer.results = << >>

\* The report agrees with the single-method endpoints: it is a 200 exactly
\* when each of them would be, it withholds exactly what they would return,
\* and what it refuses before dispatch none of them accepts.
SameAsSingleEndpoints ==
  phase = "answered" /\ Accepted(query) =>
    LET alone(i) == SingleEndpoint(Pairs(query)[i], query)
    IN  /\ answer.status = 200 <=> \A i \in Computed : alone(i) = "ok"
        /\ answer.status = 500 <=> \E i \in Computed : alone(i) \in Bugs
        /\ \A i \in DOMAIN answer.withheld :
             SingleEndpoint(answer.withheld[i], query) = "ok"
        /\ \A i \in DOMAIN answer.failures :
             SingleEndpoint(answer.failures[i].pair, query) = answer.failures[i].error
        /\ answer.status = 422 /\ answer.failures = << >> =>
             \A i \in Computed : alone(i) # "ok"

\* "dropping the failing method returns the rest": no method is listed both
\* among the failures and among what was withheld, as long as no method
\* overflows in one of its figures only (the ES may where the VaR does not).
DroppingMethodsReturnsTheRest ==
  (\A m \in RiskMethod : << m, "VaR" >> \in query.overflow <=> << m, "ES" >> \in query.overflow)
  => \A i \in DOMAIN answer.failures, j \in DOMAIN answer.withheld :
       answer.failures[i].pair[1] # answer.withheld[j][1]

\* "A single-position portfolio is the v1 case spelled out" (Position): the
\* report on one position succeeds, fails or breaks as the v1 endpoints do on
\* its series and notional, each function on guards of its own.  Two
\* differences are documented: a worthless portfolio is refused, and so is
\* Monte Carlo on a series without variance.  Moments that overflow are left
\* out: what v1 makes of them is up to numpy.
OnePositionIsV1 ==
  /\ phase = "answered" /\ Accepted(query) /\ query.assets = 1 /\ query.aligned > 0
  /\ query.portfolio # "worthless" /\ query.covariance # "non_finite"
  /\ query.covariance = "singular" => ~UsesMonteCarlo(query)
  => LET v1 == { V1(Pairs(query)[i], query) : i \in Computed }
     IN  answer.status = IF v1 \cap Bugs # {} THEN 500 ELSE IF v1 = {"ok"} THEN 200 ELSE 422

=============================================================================
