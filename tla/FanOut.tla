-------------------------------- MODULE FanOut -------------------------------
(***************************************************************************)
(* core/fleet.js: one piece of work over a list, a few at a time, with a   *)
(* button that stops it.  A run is a record; the pages that use it keep    *)
(* one in a variable of theirs and step it with the operators below.  This *)
(* module's own specification is a single run with nothing around it.      *)
(***************************************************************************)
EXTENDS Naturals, Sequences, FiniteSets

CONSTANTS
  Lists,        \* the lists of items the runs are over
  Limit,        \* at most so many at a time
  None

VARIABLE run

\* One pump for each place; each takes the next item before anything is waited for.
Begun(items) ==
  LET first == IF Len(items) < Limit THEN Len(items) ELSE Limit
  IN  [items |-> items, next |-> first, flying |-> 1..first, settled |-> {}, cancelled |-> FALSE]

Cancelled(r) == [r EXCEPT !.cancelled = TRUE]

\* Mutant of Settled: the pump looks for a cancel only after it took another item.
SettledThenLooks(r, i) ==
  IF r.next = Len(r.items)
  THEN [r EXCEPT !.flying = @ \ {i}, !.settled = @ \cup {i}]
  ELSE [r EXCEPT !.flying = IF r.cancelled THEN @ \ {i} ELSE (@ \ {i}) \cup {r.next + 1},
                 !.settled = @ \cup {i}, !.next = @ + 1]

\* An answer or an error is kept even after a cancel; then the pump stops or takes the next.
Settled(r, i) ==
  IF r.cancelled \/ r.next = Len(r.items)
  THEN [r EXCEPT !.flying = @ \ {i}, !.settled = @ \cup {i}]
  ELSE [r EXCEPT !.flying = (@ \ {i}) \cup {r.next + 1}, !.settled = @ \cup {i}, !.next = @ + 1]

Over(r) == r.flying = {}

\* What was never started.
Skipped(r) == (r.next + 1)..Len(r.items)

Init == run = None

Begin(items) == run = None /\ run' = Begun(items)
Cancel == run # None /\ run' = Cancelled(run)
Settle(i) == run # None /\ i \in run.flying /\ run' = Settled(run, i)
End == run # None /\ Over(run) /\ run' = None

Next ==
  \/ \E items \in Lists : Begin(items)
  \/ Cancel \/ End
  \/ \E i \in (IF run = None THEN {} ELSE run.flying) : Settle(i)

vars == run

Spec == Init /\ [][Next]_vars

-----------------------------------------------------------------------------
(***************************************************************************)
(* Every item is answered, on its way, or named as never asked, and only   *)
(* one of these; no more are on their way than allowed; and a run that     *)
(* nobody stopped ends with every item answered.  core/fleet.js: "Honest   *)
(* about what it did not do."                                              *)
(***************************************************************************)
AccountsForEverything ==
  run # None =>
    /\ run.settled \cap run.flying = {}
    /\ run.settled \cup run.flying \cup Skipped(run) = 1..Len(run.items)
    /\ (run.settled \cup run.flying) \cap Skipped(run) = {}
    /\ Cardinality(run.flying) <= Limit
    /\ Over(run) /\ Skipped(run) # {} => run.cancelled

\* The inductive invariant behind it (ConsoleProofs): the items are taken in their order, and a
\* run nobody stopped has one on its way until the last is answered.
RunInv ==
  run # None =>
    /\ run = [items |-> run.items, next |-> run.next, flying |-> run.flying,
              settled |-> run.settled, cancelled |-> run.cancelled]
    /\ run.items \in Lists /\ run.next \in 0..Len(run.items)
    /\ run.settled \cup run.flying = 1..run.next
    /\ run.settled \cap run.flying = {}
    /\ IsFiniteSet(run.flying) /\ Cardinality(run.flying) <= Limit
    /\ run.cancelled \in BOOLEAN
    /\ ~run.cancelled /\ run.next < Len(run.items) => run.flying # {}
=============================================================================
