---------------------------- MODULE SnapshotPage ----------------------------
(***************************************************************************)
(* The Snapshots page of one cluster (pages/snapshots.js) and its dialogs  *)
(* (ui/snapshot-dialogs.js): what the page lists of a repository, and the  *)
(* requests that take, restore and delete snapshots, free live indices and *)
(* register the repository, while the cluster goes on by itself.           *)
(***************************************************************************)
EXTENDS Integers

CONSTANTS
  Index,        \* the daily indices, named by their day
  MaxTaken,     \* bound: snapshots taken
  All,          \* "*"
  None

VARIABLES
  live,         \* external: the indices the cluster has
  repo,         \* external: the snapshots in the repository: [id, status, holds, whole]
  registered,   \* external: the repository is registered
  rows,         \* data.snapshots: [id, status, names]; names None when read by _cat
  picked,       \* ui.repo: the repository was chosen by hand
  dialog,       \* the open dialog: [kind, snap, names, mode, chosen]
  removing,     \* deleteIndicesDialog at work: [snap, todo, failed, shown]
  freed,        \* history: live indices it deleted, each with the snapshot it named
  wrong,        \* history: a request that meant more than was chosen
  taken

vars == <<live, repo, registered, rows, picked, dialog, removing, freed, wrong, taken>>
cluster == <<live, repo, registered, taken>>
page == <<rows, picked, dialog, removing, freed, wrong>>

Init ==
  /\ live = Index /\ repo = {} /\ registered = TRUE /\ taken = 0
  /\ rows = {} /\ picked = FALSE /\ dialog = None /\ removing = None
  /\ freed = {} /\ wrong = FALSE

Taking(names) ==
  /\ taken < MaxTaken /\ taken' = taken + 1
  /\ repo' = repo \cup {[id |-> taken', status |-> "IN_PROGRESS", holds |-> names, whole |-> {}]}

\* A policy takes a snapshot, one ends, retention deletes one, a day's index comes.
World ==
  /\ UNCHANGED registered /\ UNCHANGED page
  /\ \/ registered /\ Taking(live) /\ UNCHANGED live
     \/ /\ \E s \in repo :
             /\ s.status = "IN_PROGRESS"
             /\ \E w \in {s.holds, {}} :
                  repo' = (repo \ {s}) \cup
                    {[s EXCEPT !.whole = w, !.status = IF w = s.holds THEN "SUCCESS" ELSE "PARTIAL"]}
        /\ UNCHANGED <<live, taken>>
     \/ \E s \in repo : repo' = repo \ {s} /\ UNCHANGED <<live, taken>>
     \/ \E i \in Index \ live : live' = live \cup {i} /\ UNCHANGED <<repo, taken>>

-----------------------------------------------------------------------------
(* What the page lists. *)

\* fetchSnapshots, for the registered repositories: the listing, the short one, or nothing.
\* What was read of one that is registered no longer stays, and is shown if it was chosen.
Listing(snaps) ==
  {{[id |-> s.id, status |-> s.status, names |-> s.holds] : s \in snaps},
   {[id |-> s.id, status |-> s.status, names |-> None] : s \in snaps}, {}}

Shown == IF registered' THEN Listing(repo') ELSE IF picked THEN {rows} ELSE {{}}

Reload == UNCHANGED cluster /\ UNCHANGED <<picked, dialog, removing, freed, wrong>> /\ rows' \in Shown
Choose == registered /\ picked' = TRUE /\ UNCHANGED cluster /\ UNCHANGED <<rows, dialog, removing, freed, wrong>>

\* recoverableRange: the days that can be got back.
Named == UNION {r.names : r \in {x \in rows : x.names # None}}
From == IF Named = {} THEN 0 ELSE CHOOSE i \in Named : \A j \in Named : i <= j
To == IF Named = {} THEN 0 ELSE CHOOSE i \in Named : \A j \in Named : j <= i

-----------------------------------------------------------------------------
(* The dialogs.  Escape closes one at any time, whatever it has under way. *)

Kept(s) == {x \in repo : registered /\ x.id = s}
Open(kind, s, names) ==
  dialog' = [kind |-> kind, snap |-> s, names |-> names, mode |-> "all", chosen |-> {}]

OpenCreate == registered /\ \E names \in {live, {}} : Open("create", None, names)

\* The details of a snapshot that is still running offer this too.
OpenRestore(r) == Open("restore", r.id, UNION {x.holds : x \in Kept(r.id)})

\* Mutant of Offers: every live index.
OffersLive(inSnapshot, there) == there

\* Those it lists that are live, or all of them when nothing could be read of the cluster.
Offers(inSnapshot, there) == {i \in inSnapshot : there = {} \/ i \in there}

OpenFree(r) ==
  /\ r.status # "IN_PROGRESS"
  /\ \E x \in Kept(r.id), there \in {live, {}} : Open("free", r.id, Offers(x.holds, there))

OpenDialog ==
  /\ dialog = None
  /\ OpenCreate \/ \E r \in rows : OpenRestore(r) \/ OpenFree(r)
  /\ UNCHANGED cluster /\ UNCHANGED <<rows, picked, removing, freed, wrong>>

Busy == removing # None /\ removing.shown

\* indexPicker, and the ticks of the indices to free.
Pick ==
  /\ dialog # None /\ ~Busy
  /\ \/ dialog' = [dialog EXCEPT !.mode = IF @ = "all" THEN "pick" ELSE "all"] /\ dialog.kind # "free"
     \/ \E i \in dialog.names :
          /\ dialog.kind = "free" \/ dialog.mode = "pick"
          /\ dialog' = [dialog EXCEPT !.chosen = IF i \in @ THEN @ \ {i} ELSE @ \cup {i}]
  /\ UNCHANGED cluster /\ UNCHANGED <<rows, picked, removing, freed, wrong>>

\* Mutant of Ready: the list is sent as it is.
ReadyAlways(d) == TRUE

Ready(d) == d.mode = "all" \/ d.chosen # {}

\* No name at all is every index to Elasticsearch.
Meant(d, every) == IF d.mode = "all" \/ d.chosen = {} THEN every ELSE d.chosen

Answered(kind) == dialog # None /\ dialog.kind = kind /\ dialog' = None

\* It is accepted: the page reads the list again, unless the dialog was dismissed meanwhile.
Create ==
  /\ Answered("create") /\ Ready(dialog) /\ registered
  /\ Taking(Meant(dialog, live) \cap live) /\ Meant(dialog, live) \cap live # {}
  /\ wrong' = (wrong \/ (dialog.mode = "pick" /\ Meant(dialog, live) # dialog.chosen))
  /\ UNCHANGED <<live, registered, picked, removing, freed>>
  /\ rows' \in Shown \cup {rows}

\* Under other names, or under their own: those must be free, and each shard in the snapshot.
Restore ==
  /\ Answered("restore") /\ Ready(dialog)
  /\ \E x \in Kept(dialog.snap), rename \in BOOLEAN :
       LET those == Meant(dialog, x.holds) \cap x.holds
       IN  /\ those \subseteq x.whole
           /\ rename \/ those \cap live = {}
           /\ live' = IF rename THEN live ELSE live \cup those
  /\ wrong' = (wrong \/ (dialog.mode = "pick" /\ Meant(dialog, Index) # dialog.chosen))
  /\ UNCHANGED <<repo, registered, taken, picked, removing, freed>>
  /\ rows' \in Shown \cup {rows}

\* Confirmed, with the names: the deletions begin, one after another.
Free ==
  /\ dialog # None /\ dialog.kind = "free" /\ dialog.chosen # {} /\ removing = None
  /\ removing' = [snap |-> dialog.snap, todo |-> dialog.chosen, failed |-> FALSE, shown |-> TRUE]
  /\ UNCHANGED cluster /\ UNCHANGED <<rows, picked, dialog, freed, wrong>>

FreeOne ==
  /\ removing # None
  /\ \E i \in removing.todo :
       \/ /\ i \in live /\ live' = live \ {i}
          /\ freed' = freed \cup {[index |-> i, snap |-> removing.snap]}
          /\ removing' = [removing EXCEPT !.todo = @ \ {i}]
       \/ /\ removing' = [removing EXCEPT !.todo = @ \ {i}, !.failed = TRUE]
          /\ UNCHANGED <<live, freed>>
  /\ UNCHANGED <<repo, registered, taken, rows, picked, dialog, wrong>>

\* One that failed leaves the dialog, with its ticks; a dialog dismissed tells nobody.
Freed ==
  /\ removing # None /\ removing.todo = {} /\ removing' = None
  /\ UNCHANGED cluster /\ UNCHANGED <<picked, freed, wrong>>
  /\ IF removing.shown /\ ~removing.failed THEN dialog' = None /\ rows' \in Shown
     ELSE UNCHANGED <<dialog, rows>>

Dismiss ==
  /\ dialog # None /\ dialog' = None
  /\ removing' = IF Busy THEN [removing EXCEPT !.shown = FALSE] ELSE removing
  /\ UNCHANGED cluster /\ UNCHANGED <<rows, picked, freed, wrong>>

-----------------------------------------------------------------------------
\* Each after a question, the last after its name is typed; a refusal changes nothing.
Delete ==
  /\ dialog = None /\ \E r \in rows : Kept(r.id) # {} /\ repo' = repo \ Kept(r.id)
  /\ UNCHANGED <<live, registered, taken, picked, dialog, removing, freed, wrong>>
  /\ rows' \in Shown

Register ==
  /\ dialog = None /\ registered' = ~registered
  /\ UNCHANGED <<live, repo, taken, picked, dialog, removing, freed, wrong>>
  /\ rows' \in Shown

Next ==
  \/ World \/ Reload \/ Choose \/ OpenDialog \/ Pick \/ Create \/ Restore
  \/ Free \/ FreeOne \/ Freed \/ Dismiss \/ Delete \/ Register

Spec == Init /\ [][Next]_vars

-----------------------------------------------------------------------------
(***************************************************************************)
(* What is freed can be found again.  A live index the page deleted is in  *)
(* the snapshot it was freed for, whole if that one succeeded, for as long *)
(* as it is kept; and while the page lists it by name, its day is among    *)
(* those the page says can be got back.  A snapshot or a restore is of     *)
(* what was chosen, never of more.                                         *)
(***************************************************************************)
FreedCanBeFound ==
  /\ ~wrong
  /\ \A f \in freed :
       /\ \A s \in repo : s.id = f.snap => f.index \in s.holds /\ (s.status = "SUCCESS" => f.index \in s.whole)
       /\ \A r \in rows : r.id = f.snap /\ r.names # None => From <= f.index /\ f.index <= To

\* Inductive (ConsoleProofs): ids are not given twice, and what a snapshot holds is what the
\* page says of it by name; so what may be freed, is being freed or was freed for a snapshot is
\* in what the repository keeps under that id and in what the page lists under it.
Snapshot == [id : 1..taken, status : {"IN_PROGRESS", "SUCCESS", "PARTIAL"},
             holds : SUBSET Index, whole : SUBSET Index]

RepoInv ==
  /\ taken \in Nat /\ repo \subseteq Snapshot /\ live \subseteq Index
  /\ \A s, t \in repo : s.id = t.id => s = t
  /\ \A s \in repo : s.status = "SUCCESS" => s.whole = s.holds

RowsInv ==
  \A r \in rows :
    /\ r.id \in 1..taken /\ (r.names # None => r.names \subseteq Index)
    /\ \A s \in repo : s.id = r.id /\ r.names # None => r.names = s.holds

InSnapshot(id, those) ==
  /\ id \in 1..taken
  /\ \A s \in repo : s.id = id => those \subseteq s.holds
  /\ \A r \in rows : r.id = id /\ r.names # None => those \subseteq r.names

DialogInv ==
  dialog # None =>
    /\ DOMAIN dialog = {"kind", "snap", "names", "mode", "chosen"}
    /\ dialog.mode \in {"all", "pick"}
    /\ dialog.kind = "free" => dialog.chosen \subseteq dialog.names /\ InSnapshot(dialog.snap, dialog.names)

RemovingInv ==
  removing # None => /\ DOMAIN removing = {"snap", "todo", "failed", "shown"}
                     /\ InSnapshot(removing.snap, removing.todo)

SnapshotPageInv ==
  /\ RepoInv /\ RowsInv /\ DialogInv /\ RemovingInv
  /\ \A f \in freed : InSnapshot(f.snap, {f.index})
  /\ ~wrong
=============================================================================
