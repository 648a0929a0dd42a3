-------------------------- MODULE MCRollingBacktest --------------------------
(***************************************************************************)
(* The model-checked instance of RollingBacktest: from no day to MaxDays,  *)
(* every loss and estimate, every way of cutting the days into years, and  *)
(* inputs with one fault each.                                             *)
(***************************************************************************)
EXTENDS RollingBacktest

CONSTANT MaxDays \* bound: the days forecast

\* Years advance by at most one from a day to the next.
EveryYear(w, n) ==
  { [ t \in w .. n - 1 |-> Cardinality({ c \in cuts : c <= t }) ] : cuts \in SUBSET (w + 1 .. n - 1) }

Sound(w, n) ==
  { [ n |-> n, window |-> w, simulations |-> DaysPerException, alpha |-> TRUE,
      estimates |-> e, losses |-> l, year |-> y ] :
      e \in [w .. n -> 0 .. 1], l \in [w .. n - 1 -> 0 .. 1], y \in EveryYear(w, n) }

Plain(w, n, sims, alpha) ==
  [ n |-> n, window |-> w, simulations |-> sims, alpha |-> alpha,
    estimates |-> [ t \in w .. n |-> 0 ], losses |-> [ t \in w .. n - 1 |-> 0 ],
    year |-> [ t \in w .. n - 1 |-> 0 ] ]

EveryInput ==
  UNION { Sound(DaysPerException, DaysPerException + k) : k \in 1 .. MaxDays }
  \cup { Plain(DaysPerException, DaysPerException, DaysPerException, TRUE),
         Plain(DaysPerException - 1, DaysPerException + 1, DaysPerException, TRUE),
         Plain(0, DaysPerException, DaysPerException, TRUE),
         Plain(-1, DaysPerException, DaysPerException, TRUE),
         Plain(DaysPerException, DaysPerException + 1, DaysPerException - 1, TRUE),
         Plain(DaysPerException, DaysPerException + 1, DaysPerException, FALSE) }

\* Two periods, so that the last days fall into neither, into one, or cut one.
TwoEpisodes ==
  { [start |-> DaysPerException, end |-> DaysPerException + 1],
    [start |-> DaysPerException + 2, end |-> DaysPerException + 3] }

=============================================================================
