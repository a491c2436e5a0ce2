----------------------------- MODULE RestConsole -----------------------------
(***************************************************************************)
(* The REST console (pages/console.js): a request typed, confirmed when it *)
(* can change a cluster, sent, and kept in a history that the browser's    *)
(* database holds behind the page.  Two requests may be under way (Enter   *)
(* runs again), and the editor may be changed before the answer comes.     *)
(***************************************************************************)
EXTENDS Naturals, FiniteSets

CONSTANTS
  MaxRuns,      \* bound: requests run and favourites saved
  Limit,        \* 500: how many entries a run leaves in memory
  None

VARIABLES
  core, primed, \* external: the core's unlock and its read-only setting
  copy,         \* writesUnlocked()
  readOnly,     \* isReadOnly()
  typed,        \* ui.method, ui.path, ui.body: a request that reads, or one that writes
  asking,       \* confirmWrite is waiting
  flying,       \* requests under way: [id, req, allowWrites], and history
  history,      \* what the page has in memory: [id, req, fav]
  stored,       \* the database's queries
  reading,      \* allQueries under way: what it answers; None
  runs,
  slipped,      \* history: a write the core let through was never confirmed
  doubtful      \* history: entries whose last write failed, or was made during a listing

vars == <<core, primed, copy, readOnly, typed, asking, flying, history, stored, reading,
          runs, slipped, doubtful>>

guard == <<core, primed, copy, readOnly>>
log == <<history, stored, reading, doubtful>>

Init ==
  /\ core = FALSE /\ copy = FALSE /\ readOnly \in BOOLEAN /\ primed = readOnly
  /\ typed = "read" /\ asking = FALSE /\ flying = {}
  /\ history = {} /\ stored = {} /\ reading = None
  /\ runs = 0 /\ slipped = FALSE /\ doubtful = {}

\* Somebody's page switches the core; the copy follows by whatever this page asked (Unlock).
Switch ==
  /\ \/ core' = ~core /\ UNCHANGED copy
     \/ copy' = (core /\ readOnly) /\ UNCHANGED core
  /\ UNCHANGED <<primed, readOnly, typed, asking, flying, runs, slipped>> /\ UNCHANGED log

\* A config put in service, and the core primed with it; what is under way has seen it change.
Reload ==
  /\ \/ readOnly' = ~readOnly /\ UNCHANGED primed
     \/ primed' = readOnly /\ UNCHANGED readOnly
  /\ flying' = {[f EXCEPT !.changed = TRUE] : f \in flying}
  /\ UNCHANGED <<core, copy, typed, asking, runs, slipped>> /\ UNCHANGED log

Edit ==
  /\ ~asking
  /\ typed' = (IF typed = "read" THEN "write" ELSE "read")
  /\ UNCHANGED <<asking, flying, runs, slipped>> /\ UNCHANGED guard /\ UNCHANGED log

-----------------------------------------------------------------------------
(* Running a request. *)

\* Mutant of Confirmable: a read-only:false config never asks.
ConfirmableUnlocked(req) == req = "write" /\ copy

\* A write, and something will let it through.
Confirmable(req) == req = "write" /\ (~readOnly \/ copy)

Send(confirmed) ==
  flying' = flying \cup {[id |-> runs', req |-> typed, allowWrites |-> copy,
                          confirmed |-> confirmed, changed |-> primed # readOnly]}

\* Run, Enter in the path, Ctrl+Enter in the body: none of them waits for the last request.
Run ==
  /\ ~asking /\ runs < MaxRuns /\ Cardinality(flying) < 2
  /\ IF Confirmable(typed)
     THEN asking' = TRUE /\ UNCHANGED <<flying, runs>>
     ELSE runs' = runs + 1 /\ Send(FALSE) /\ UNCHANGED asking
  /\ UNCHANGED <<typed, slipped>> /\ UNCHANGED guard /\ UNCHANGED log

Confirm ==
  /\ asking /\ asking' = FALSE
  /\ \/ runs' = runs + 1 /\ Send(TRUE)
     \/ UNCHANGED <<flying, runs>>
  /\ UNCHANGED <<typed, slipped>> /\ UNCHANGED guard /\ UNCHANGED log

\* remember(): nobody waits for the database, and nobody hears of a failure.
Written(ids, s) ==
  \/ /\ stored' = s
     /\ doubtful' = IF reading = None THEN doubtful \ ids ELSE doubtful \cup ids
  \/ doubtful' = doubtful \cup ids /\ UNCHANGED stored

Put(e) == Written({e.id}, {x \in stored : x.id # e.id} \cup {e})

Newest(s) == {x \in s : Cardinality({y \in s : y.id > x.id}) < Limit}

\* The answer: the entry is what the editor holds now.
Answered(f) ==
  /\ flying' = flying \ {f}
  /\ slipped' = (slipped \/ (/\ f.req = "write" /\ (~primed \/ (core /\ f.allowWrites))
                             /\ ~f.confirmed /\ ~f.changed))
  /\ LET e == [id |-> f.id, req |-> typed, fav |-> FALSE]
     IN  history' = Newest(history \cup {e}) /\ Put(e)
  /\ UNCHANGED <<typed, asking, runs, reading>> /\ UNCHANGED guard

-----------------------------------------------------------------------------
(* The history. *)

\* render: what the database holds, once it answers, replaces what is in memory.
Render ==
  /\ reading = None /\ ~asking /\ reading' = stored
  /\ UNCHANGED <<typed, asking, flying, runs, slipped, history, stored, doubtful>> /\ UNCHANGED guard

Read ==
  /\ reading # None /\ reading' = None /\ history' = reading
  /\ UNCHANGED <<typed, asking, flying, runs, slipped, stored, doubtful>> /\ UNCHANGED guard

SaveFav ==
  /\ ~asking /\ runs < MaxRuns /\ runs' = runs + 1
  /\ LET e == [id |-> runs', req |-> typed, fav |-> TRUE]
     IN  history' = history \cup {e} /\ Put(e)
  /\ UNCHANGED <<typed, asking, flying, slipped, reading>> /\ UNCHANGED guard

Star(e) ==
  /\ ~asking
  /\ LET x == [e EXCEPT !.fav = ~@]
     IN  history' = (history \ {e}) \cup {x} /\ Put(x)
  /\ UNCHANGED <<typed, asking, flying, runs, slipped, reading>> /\ UNCHANGED guard

Load(e) ==
  /\ ~asking /\ typed' = e.req
  /\ UNCHANGED <<asking, flying, runs, slipped>> /\ UNCHANGED guard /\ UNCHANGED log

Delete(e) ==
  /\ ~asking
  /\ history' = history \ {e}
  /\ Written({e.id}, {x \in stored : x.id # e.id})
  /\ UNCHANGED <<typed, asking, flying, runs, slipped, reading>> /\ UNCHANGED guard

\* Mutant of Favourites: the database keeps its favourites by itself.
FavouritesForgotten == {}

Favourites == {e \in history : e.fav}

\* The database is cleared and then told the favourites of the page's memory again.
Clear ==
  /\ ~asking
  /\ history' = {e \in history : e.fav}
  /\ Written({e.id : e \in history \cup stored}, Favourites)
  /\ UNCHANGED <<typed, asking, flying, runs, slipped, reading>> /\ UNCHANGED guard

Next ==
  \/ Switch \/ Reload \/ Edit \/ Run \/ Confirm \/ Render \/ Read \/ SaveFav \/ Clear
  \/ \E f \in flying : Answered(f)
  \/ \E e \in history : Star(e) \/ Load(e) \/ Delete(e)

Spec == Init /\ [][Next]_vars

-----------------------------------------------------------------------------
(***************************************************************************)
(* No write slips by: one the core let through was confirmed, unless a     *)
(* config was being put into service.  And a favourite the page shows is   *)
(* in the database, whatever was cleared, starred or run, as long as the   *)
(* database took what it was told and was not being listed.                *)
(***************************************************************************)
NoWriteSlipsBy == ~slipped
FavouritesAreStored == \A e \in history : e.fav /\ e.id \notin doubtful => e \in stored

-----------------------------------------------------------------------------
(***************************************************************************)
(* The inductive invariant behind both (ConsoleProofs).  A write that went *)
(* out unconfirmed, and saw no config change, met a page and a core that   *)
(* are read-only.  No two entries in one place have the same id, nor has a *)
(* request under way the id of one; and an entry that is in no doubt is in *)
(* the database, whether the page shows it or is about to.                 *)
(***************************************************************************)
Entry == [id : 0..runs, req : {"read", "write"}, fav : BOOLEAN]
Request == [id : 0..runs, req : {"read", "write"}, allowWrites : BOOLEAN,
            confirmed : BOOLEAN, changed : BOOLEAN]

TypeOK ==
  /\ core \in BOOLEAN /\ primed \in BOOLEAN /\ copy \in BOOLEAN /\ readOnly \in BOOLEAN
  /\ typed \in {"read", "write"} /\ runs \in Nat
  /\ flying \subseteq Request
  /\ history \subseteq Entry /\ stored \subseteq Entry
  /\ reading # None => reading \subseteq Entry

UnconfirmedAreHarmless ==
  /\ ~slipped
  /\ \A f \in flying : f.req = "write" /\ ~f.confirmed /\ ~f.changed => primed /\ ~f.allowWrites

OneEntryEach(s) == \A x, y \in s : x.id = y.id => x = y

IdsAreUnique ==
  /\ OneEntryEach(history) /\ OneEntryEach(stored) /\ (reading # None => OneEntryEach(reading))
  /\ OneEntryEach(flying)
  /\ \A f \in flying : \A e \in history \cup stored \cup (IF reading = None THEN {} ELSE reading) : e.id # f.id

InDatabase(s) == \A e \in s : e.fav /\ e.id \notin doubtful => e \in stored

NoneIsInDoubt == InDatabase(history) /\ (reading # None => InDatabase(reading))

RestConsoleInv == TypeOK /\ UnconfirmedAreHarmless /\ IdsAreUnique /\ NoneIsInDoubt
=============================================================================
