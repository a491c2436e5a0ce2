-------------------------------- MODULE Acks ---------------------------------
(***************************************************************************)
(* Acknowledgements and notes on alerts (core/acks.js): a copy in memory   *)
(* that the pages read, and the browser's database behind it.  Drawing the *)
(* Alerts page loads the copy again from the database and then prunes it,  *)
(* record by record, waiting for each write; what the operator does        *)
(* meanwhile is done to the copy that is about to be replaced, or to a     *)
(* record the pruning already holds in its hands.  Nothing keeps one       *)
(* drawing from the next.                                                  *)
(***************************************************************************)
EXTENDS Naturals, Sequences, FiniteSets

CONSTANTS
  Key,          \* alert keys: problems, not readings
  Watched,      \* bound: the keys an operator writes about; the others were acknowledged before
  Grace,        \* ACK_GRACE_DAYS
  MaxDay,       \* bound: days that pass
  MaxRaced,     \* bound: how many keys may have been raced when a drawing or a write begins
  None

VARIABLES
  day,
  live,         \* the alerts there are now
  mem, disk,    \* the cache and the database: a record for each key, or None
  loading,      \* of each drawing: loadAcks under way, what the database answered; None
  pruning,      \* and pruneAcks: the records still to come, of the keys it was given
  running,      \* the drawing whose pruneAcks has not come to a wait; None
  wanted,       \* history: what the operator last made of each key
  missed,       \* history: the first of the prunings in a row that did not see the key
  crossed,      \* history: a drawing began before the one before it was done
  raced         \* history: keys written while a drawing was under way that did not know, or
                \* whose write failed

vars == <<day, live, mem, disk, loading, pruning, running, wanted, missed, crossed, raced>>

Drawing == 1..2     \* bound: at a time

\* The orders a set can be gone through in: each of it at one place.
Orders(S) ==
  {s \in [1..Cardinality(S) -> S] : \A x \in S : \E i \in DOMAIN s : \A j \in DOMAIN s : s[j] = x <=> j = i}

Blank == [acked |-> FALSE, note |-> FALSE, missingSince |-> None]
Nothing == [acked |-> FALSE, note |-> FALSE]
AckFor(k) == IF mem[k] = None THEN Blank ELSE mem[k]

Init ==
  /\ day = 0 /\ live \in SUBSET Key
  /\ mem = [k \in Key |-> IF k \in Watched THEN None ELSE [Blank EXCEPT !.acked = TRUE]]
  /\ disk = mem
  /\ loading = [d \in Drawing |-> None] /\ pruning = [d \in Drawing |-> <<>>] /\ running = None
  /\ wanted = [k \in Key |-> [acked |-> k \notin Watched, note |-> FALSE]]
  /\ missed = [k \in Key |-> None] /\ crossed = FALSE /\ raced = {}

UnderWay == {d \in Drawing : loading[d] # None \/ pruning[d] # <<>>}

\* render: the copy is about to be read again; nothing looks whether a drawing goes on.
Render(d) ==
  /\ d \notin UnderWay /\ \A o \in 1..(d - 1) : o \in UnderWay
  /\ Cardinality(raced) <= MaxRaced
  /\ loading' = [loading EXCEPT ![d] = disk]
  /\ crossed' = IF UnderWay = {} THEN FALSE ELSE TRUE
  /\ UNCHANGED <<day, live, mem, disk, pruning, running, wanted, missed, raced>>

\* pruneAcks, called with the keys of now: it will go through the copy as it is.
Prune(d, copy) ==
  /\ \E order \in Orders({k \in Key : copy[k] # None}) :
       pruning' = [pruning EXCEPT ![d] =
         [i \in DOMAIN order |-> [key |-> order[i], rec |-> copy[order[i]], seen |-> order[i] \in live]]]
  /\ running' = IF pruning'[d] = <<>> THEN None ELSE d
  /\ missed' = [k \in Key |-> IF k \in live THEN None ELSE IF missed[k] = None THEN day ELSE missed[k]]

\* loadAcks ends: the copy is cleared and filled, or, with no answer, stays.
Loaded(d) ==
  /\ loading[d] # None /\ loading' = [loading EXCEPT ![d] = None]
  /\ mem' \in {loading[d], mem}
  /\ Prune(d, mem')
  /\ UNCHANGED <<day, live, disk, wanted, crossed, raced>>

\* A record put, or deleted: the copy first; a write that fails leaves it there alone.
Put(k, rec) ==
  /\ mem' = [mem EXCEPT ![k] = rec]
  /\ disk' \in {disk, [disk EXCEPT ![k] = rec]}

\* Mutant of Pruned: absence forgets, instead of starting a clock.
PrunedAtOnce(e) == ~e.seen /\ ~e.rec.note /\ Put(e.key, None)

\* What pruneAcks writes of a record, as that was when the pruning began.
Pruned(e) ==
  \/ /\ e.seen /\ e.rec.missingSince # None
     /\ Put(e.key, [e.rec EXCEPT !.missingSince = None])
  \/ /\ ~e.seen /\ ~e.rec.note /\ e.rec.missingSince = None
     /\ Put(e.key, [e.rec EXCEPT !.missingSince = day])
  \/ /\ ~e.seen /\ ~e.rec.note /\ e.rec.missingSince # None
     /\ day - e.rec.missingSince >= Grace
     /\ Put(e.key, None)

\* What it leaves as it is.
LeftAlone(e) ==
  IF e.seen THEN e.rec.missingSince = None
  ELSE e.rec.note \/ (e.rec.missingSince # None /\ day - e.rec.missingSince < Grace)

\* Nobody wrote a note, and for so long no drawing of the page has seen the alert.
Forgettable(k) == ~wanted[k].note /\ missed[k] # None /\ day - missed[k] >= Grace

\* One record.  After a write it waits.
PruneStep(d) ==
  /\ pruning[d] # <<>> /\ pruning' = [pruning EXCEPT ![d] = Tail(@)]
  /\ LET e == Head(pruning[d]) IN
     \/ /\ Pruned(e) /\ running' = None
        /\ wanted' = IF disk'[e.key] = None /\ Forgettable(e.key) THEN [wanted EXCEPT ![e.key] = Nothing] ELSE wanted
        /\ raced' = IF crossed \/ disk'[e.key] # mem'[e.key] THEN raced \cup {e.key} ELSE raced
     \/ /\ LeftAlone(e) /\ running' = IF Len(pruning[d]) > 1 THEN d ELSE None
        /\ UNCHANGED <<mem, disk, wanted, raced>>
  /\ UNCHANGED <<day, live, loading, missed, crossed>>

-----------------------------------------------------------------------------
\* save.
Save(k, rec) ==
  /\ Put(k, rec)
  /\ wanted' = [wanted EXCEPT ![k] = [acked |-> rec.acked, note |-> rec.note]]
  /\ raced' = IF UnderWay # {} \/ disk'[k] # rec THEN raced \cup {k} ELSE raced
  /\ UNCHANGED <<day, live, loading, pruning, running, missed, crossed>>

\* acknowledge, unacknowledge: notes stay.  addNote, removeNote.  Of an alert on the page.
Touch(k) ==
  /\ k \in live
  /\ k \in Watched /\ Cardinality(raced) <= MaxRaced    \* bounds
  /\ \/ Save(k, [AckFor(k) EXCEPT !.acked = ~@])
     \/ Save(k, [AckFor(k) EXCEPT !.note = ~@])

Comes(k) ==
  /\ k \in Watched         \* bound
  /\ live' = IF k \in live THEN live \ {k} ELSE live \cup {k}
  /\ UNCHANGED <<day, mem, disk, loading, pruning, running, wanted, missed, crossed, raced>>

Day ==
  /\ day < MaxDay /\ day' = day + 1
  /\ UNCHANGED <<live, mem, disk, loading, pruning, running, wanted, missed, crossed, raced>>

\* Between the steps of a pruning that has not come to a wait nothing else happens.
Next ==
  \/ \E d \in Drawing : running \in {None, d} /\ PruneStep(d)
  \/ /\ running = None
     /\ \/ Day \/ \E k \in Key : Touch(k) \/ Comes(k)
        \/ \E d \in Drawing : Render(d) \/ Loaded(d)

Spec == Init /\ [][Next]_vars

-----------------------------------------------------------------------------
(***************************************************************************)
(* What an operator wrote is kept.  A note is never lost; an acknowledge-  *)
(* ment is forgotten only when every drawing of the page for ACK_GRACE_    *)
(* DAYS found its alert gone.  The exceptions are what an operator wrote   *)
(* while the page was loading or pruning, what a pruning did while another *)
(* drawing was under way, and what the database refused.                   *)
(***************************************************************************)
WhatWasWrittenIsKept ==
  \A k \in Key \ raced :
    LET rec == IF disk[k] = None THEN Blank ELSE disk[k]
    IN  rec.acked = wanted[k].acked /\ rec.note = wanted[k].note

-----------------------------------------------------------------------------
(* The inductive invariant behind it (ConsoleProofs). *)
Record == [acked : BOOLEAN, note : BOOLEAN, missingSince : Nat \cup {None}]
Records == [Key -> {None} \cup Record]
Entry == [key : Key, rec : Record, seen : BOOLEAN]

\* The entries to come of a key.
Ahead(k) == {e \in Entry : \E d \in Drawing : \E i \in DOMAIN pruning[d] : pruning[d][i] = e /\ e.key = k}

\* Of a key that was not raced: the copies agree, they say what was wanted, and a clock that runs
\* was started when the alert was missed, or is one that a pruning will stop.
Kept(k) ==
  /\ mem[k] = disk[k]
  /\ \A d \in Drawing : loading[d] # None => loading[d][k] = disk[k]
  /\ disk[k] = None => wanted[k] = Nothing
  /\ disk[k] # None =>
       /\ wanted[k] = [acked |-> disk[k].acked, note |-> disk[k].note]
       /\ disk[k].missingSince # None =>
            (missed[k] # None /\ missed[k] <= disk[k].missingSince) \/ \E e \in Ahead(k) : e.seen
  /\ \A e \in Ahead(k) : disk[k] # None /\ e.rec = disk[k]

\* A drawing that no other crosses is the only one, and knows what was missed.
PruningInv ==
  /\ pruning \in [Drawing -> Seq(Entry)]
  /\ \A d \in Drawing : loading[d] # None => pruning[d] = <<>>
  /\ \A d \in Drawing : \A i, j \in DOMAIN pruning[d] : pruning[d][i].key = pruning[d][j].key => i = j
  /\ ~crossed =>
       /\ \A d, o \in UnderWay : d = o
       /\ \A d \in Drawing : \A i \in DOMAIN pruning[d] : pruning[d][i].seen <=> missed[pruning[d][i].key] = None

AcksInv ==
  /\ day \in Nat /\ crossed \in BOOLEAN
  /\ mem \in Records /\ disk \in Records /\ loading \in [Drawing -> Records \cup {None}]
  /\ missed \in [Key -> Nat \cup {None}] /\ \A k \in Key : missed[k] # None => missed[k] <= day
  /\ PruningInv
  /\ wanted \in [Key -> [acked : BOOLEAN, note : BOOLEAN]]
  /\ \A k \in Key \ raced : Kept(k)
=============================================================================
