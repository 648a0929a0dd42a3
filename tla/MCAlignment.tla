----------------------------- MODULE MCAlignment -----------------------------
(***************************************************************************)
(* The model-checked instances of Alignment: every pair of series over     *)
(* three days with two times of day each, every window requested or not.   *)
(***************************************************************************)
EXTENDS Alignment

TwoAssets == 1 .. 2
ThreeDays == 1 .. 3

=============================================================================
