------------------------------- MODULE MCGate -------------------------------
(***************************************************************************)
(* Model values for Gate.                                                  *)
(***************************************************************************)
EXTENDS Gate, TLC

Symmetry == Permutations(Workers) \cup Permutations(Routes)
=============================================================================
