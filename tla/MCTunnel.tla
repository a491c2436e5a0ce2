------------------------------ MODULE MCTunnel ------------------------------
(***************************************************************************)
(* Model values for Tunnel.                                                *)
(***************************************************************************)
EXTENDS Tunnel, TLC

Symmetry == Permutations(Keys) \cup Permutations(Openers) \cup Permutations(Sessions)
=============================================================================
