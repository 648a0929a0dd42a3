--------------------------- MODULE MCStudyReport ---------------------------
(***************************************************************************)
(* The model-checked instance of StudyReport: two tests of F1 and four of  *)
(* F2, the ones the hypotheses read and one more.  With Level 4 and four   *)
(* tests a p-value of 1 is exactly on the boundary of the first step and   *)
(* one of 2 on that of the third.                                          *)
(***************************************************************************)
EXTENDS StudyReport

KeptComparisons ==
  {EwmaOverNaive, GarchOverNaive} \cup { FhsOverNormal(m) : m \in Model }
  \cup {Versus(Volatility("ewma", "qlike"), Volatility("naive", "qlike"))}

\* Every order of the mean losses, but for filtered quantiles against normal
\* ones: better under GARCH, as good or better under EWMA, as good or worse
\* under Naive.
MostLosses ==
  { l \in [Forecast -> {1, 2}] :
      /\ l[Var("garch", "fhs")] = 1 /\ l[Var("garch", "normal")] = 2
      /\ l[Var("ewma", "fhs")] = 1 /\ l[Var("naive", "fhs")] = 2 }

FewRejections ==
  { {}, Backtest,
    [ series : {Var("ewma", "fhs")} \cup { Var(m, "normal") : m \in Model },
      test : {"kupiec"} ] }

=============================================================================
