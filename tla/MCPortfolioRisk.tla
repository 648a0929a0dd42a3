--------------------------- MODULE MCPortfolioRisk ---------------------------
(***************************************************************************)
(* The model-checked instance of PortfolioRisk: every combination of the   *)
(* facts below.  Two assets at most and up to four aligned dates put every *)
(* sample-size guard on both sides of its threshold; with MaxCells = 7 and *)
(* MaxSims = 4, four simulations are too many for two assets and five for  *)
(* any request.                                                            *)
(***************************************************************************)
EXTENDS PortfolioRisk

\* No figure overflows; an ES, a VaR or a whole method alone; everything.
MCOverflow ==
  { {}, {<< "historical", "ES" >>}, {<< "historical", "VaR" >>},
    {<< "monte_carlo", "VaR" >>, << "monte_carlo", "ES" >>}, Pair }

MCQuery ==
  [ methods : { << "historical" >>, << "monte_carlo" >>, << "parametric", "historical" >>,
                << "monte_carlo", "historical" >>, << "historical", "historical" >>,
                << "parametric", "monte_carlo", "historical" >> },
    metrics : { << "VaR" >>, << "ES", "VaR" >> },
    portfolio : {"valid", "worthless", "invalid"}, alpha : BOOLEAN, total : BOOLEAN,
    horizon : {"positive", "not_positive", "unrepresentable"},
    overflow : MCOverflow, required : {3}, aligned : {0, 1, 2, 3}, assets : {1, 2},
    simulations : {2, 3, 4, 5}, covariance : {"regular", "singular", "non_finite"},
    seed : {"absent", "negative", "natural"} ]

=============================================================================
