---------------------------- MODULE MCWalkForward ----------------------------
(***************************************************************************)
(* The model-checked instance of WalkForward: every way of cutting the     *)
(* trading days into months, and every out-of-sample interval among them.  *)
(***************************************************************************)
EXTENDS WalkForward

\* Months advance by at most one from a trading day to the next; only their
\* equality matters, so skipping a month adds nothing.
EveryCalendar ==
  LET Turns == SUBSET (1 .. N - 1)
  IN  { [ p \in Position |-> Cardinality({ q \in turns : q <= p }) ] : turns \in Turns }

=============================================================================
