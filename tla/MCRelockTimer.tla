---------------------------- MODULE MCRelockTimer ----------------------------
(***************************************************************************)
(* RelockTimer for TLC: the number of calls is its bound.                  *)
(***************************************************************************)
EXTENDS RelockTimer, TLC

Symmetry == Permutations(Calls)
=============================================================================
