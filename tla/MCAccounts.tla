----------------------------- MODULE MCAccounts -----------------------------
(***************************************************************************)
(* Model values for Accounts.  Sessions and workers are interchangeable;   *)
(* so are the names other than the shipped one.                            *)
(***************************************************************************)
EXTENDS Accounts, TLC

Symmetry == Permutations(Tokens) \cup Permutations(Workers)
              \cup Permutations(Names \ {Shipped})
=============================================================================
