----------------------------- MODULE AtomicCell ------------------------------
(***************************************************************************)
(* What a store of the core promises about its file: it is a cell, that a  *)
(* start reads whole, and that a save fills in one step with a list that   *)
(* was in memory, the newest so far.  A save may fail and the process may  *)
(* stop at any moment; neither leaves a trace in the cell.  Saves that     *)
(* overlap may leave anything there (mixed); the next one that does not    *)
(* overlap puts it right.  StoreFile implements this module.               *)
(***************************************************************************)
EXTENDS Naturals

VARIABLES
  list,      \* in memory, as the number of changes it has seen
  cell,      \* what a start would read
  promised,  \* the newest change that is saved
  mixed      \* the cell may hold what two saves made of it

cellVars == <<list, cell, promised, mixed>>

CellInit == list = 0 /\ cell = 0 /\ promised = 0 /\ mixed = FALSE

Edit == list' = list + 1 /\ UNCHANGED <<cell, promised, mixed>>

\* All that was promised is among what the cell takes.
Store ==
  /\ cell' \in Nat /\ cell' <= list /\ (mixed \/ cell <= cell')
  /\ promised' \in Nat /\ promised <= promised' /\ promised' <= cell'
  /\ mixed' = FALSE
  /\ UNCHANGED list

\* Saves overlap, or go on after they did.
Mix ==
  /\ cell' \in Nat
  /\ promised' \in Nat /\ promised <= promised' /\ promised' <= list
  /\ mixed' = TRUE
  /\ UNCHANGED list

\* A start has no more than the cell; what was promised is lost only if it is mixed.
Start ==
  /\ list' = cell
  /\ promised' = IF mixed /\ promised > cell THEN cell ELSE promised
  /\ UNCHANGED <<cell, mixed>>

CellSpec == CellInit /\ [][Edit \/ Store \/ Mix \/ Start]_cellVars
=============================================================================
