------------------------------ MODULE Capacity -------------------------------
(***************************************************************************)
(* The capacity alert of one cluster: buildClusterData sums the disks of   *)
(* _cat/allocation on every refresh and capacityChange compares the sum    *)
(* with what the refresh before carried over.  A restart takes a node out  *)
(* of the table, a failed call leaves the last reading standing.  And the  *)
(* alert of disk that no index accounts for, which compares the same table *)
(* with a list of indices that is read on other pages, whenever one looks. *)
(***************************************************************************)
EXTENDS Integers, FiniteSets

CONSTANTS
  Node,         \* data nodes, of 1 to Path units of disk each
  Path,
  Window,       \* CAPACITY_ALERT_HOURS, in refreshes
  Sizes,        \* what the indices may occupy, in units of less than DISK_GAP_MIN_BYTES
  Rests,        \* what the data that the list does not show may occupy
  MaxGrown,     \* bound: how often either changes
  None

VARIABLES
  about,        \* bound: what moves in this behaviour, the nodes or what is on their disks
  size,         \* the world: the disk of each node
  up,           \* and the nodes that are there
  read,         \* state.data of the cluster: what capacityChange keeps there
  seen,         \* history: the nodes in the table at that reading
  rebuilt,      \* history: a node was given disk, or lost some
  swapped,      \* history: a reading was of as many nodes as the one before, but of others
  kept,         \* the world: what the indices occupy
  rest,         \* and what data without an index does, and the hidden indices
  held,         \* state.data: disk.indicesBytes, the two together; None before a reading
  list,         \* state.indices: what the indices listed occupy; None before a list
  shown,        \* history: what the list would have been, and left out, when held was read
  grown

disk == <<kept, rest, held, list, shown, grown>>
fleet == <<size, up, read, seen, rebuilt, swapped>>
vars == <<about, fleet, disk>>

Units(ns) == Cardinality({x \in ns \X (1..Path) : x[2] <= size[x[1]]})

Init ==
  /\ size \in [Node -> 1..Path] /\ up = Node /\ seen = {}
  /\ read = [total |-> None, fleet |-> None, from |-> None, age |-> None]
  /\ rebuilt = FALSE /\ swapped = FALSE
  /\ about \in {"nodes", "disk"}
  /\ IF about = "disk" THEN kept \in Sizes /\ rest \in Rests ELSE kept = 0 /\ rest = 0
  /\ held = None /\ list = None /\ shown = None /\ grown = 0

\* alerts(): a change is news for so long.
Aged(t) == IF t = None \/ t = Window THEN None ELSE t + 1

\* Mutant of Changed: whoever is in the table is summed up and compared.
ChangedAnyway(total, count) ==
  read.total \notin {None, 0} /\ total > 0 /\ read.total # total

\* capacityChange: believed only between two readings of as many nodes.
Changed(total, count) ==
  read.fleet = count /\ read.total \notin {None, 0} /\ total > 0 /\ read.total # total

\* Some node left and another came, of more or less disk.
Unlike(before, now) == \E m \in before \ now, n \in now \ before : size[m] # size[n]

\* A refresh that read the table; during a restart of everything it is empty.
Reading ==
  LET total == Units(up)
      count == Cardinality(up)
  IN  /\ read' = [total |-> total, fleet |-> count,
                  from |-> IF Changed(total, count) THEN read.total ELSE read.from,
                  age |-> IF Changed(total, count) THEN 0 ELSE Aged(read.age)]
      /\ seen' = up
      /\ swapped' = (swapped \/ (read.fleet = count /\ Unlike(seen, up)))
      /\ held' = kept + rest
      /\ shown' = [kept |-> kept, rest |-> rest]
      /\ UNCHANGED <<about, size, up, rebuilt, kept, rest, list, grown>>

\* A refresh whose call failed: the last reading stands, and ages.
Missed ==
  /\ read' = [read EXCEPT !.age = Aged(@)]
  /\ UNCHANGED <<about, size, up, seen, rebuilt, swapped, disk>>

\* A node loses a disk, or is given one.
Rebuild ==
  /\ about = "nodes"
  /\ \E n \in Node, p \in 1..Path : p # size[n] /\ size' = [size EXCEPT ![n] = p]
  /\ rebuilt' = TRUE
  /\ UNCHANGED <<about, up, read, seen, swapped, disk>>

\* Nodes leave, and come back with the disk they have.
Restart ==
  /\ about = "nodes"
  /\ up' \in SUBSET Node
  /\ UNCHANGED <<about, size, read, seen, rebuilt, swapped, disk>>

-----------------------------------------------------------------------------
\* Indices are made, filled and deleted; what is not listed comes and goes.
Grow ==
  /\ about = "disk"
  /\ grown < MaxGrown /\ grown' = grown + 1
  /\ \/ kept' \in Sizes \ {kept} /\ UNCHANGED rest
     \/ rest' \in Rests \ {rest} /\ UNCHANGED kept
  /\ UNCHANGED <<about, fleet, held, list, shown>>

\* fetchIndices, of whichever page; one that fails leaves the list it had.
List ==
  /\ about = "disk"
  /\ list' = kept
  /\ UNCHANGED <<about, fleet, kept, rest, held, shown, grown>>

\* More than DISK_GAP_MIN_BYTES (a unit) and than DISK_GAP_MIN_RATIO of what is held.
Material(gap) == gap > 1 /\ 20 * gap > held

\* Mutant of Unaccounted: with no list, nothing is accounted for.
UnaccountedUnlisted ==
  held \notin {None, 0} /\ Material(held - (IF list = None THEN 0 ELSE list))

\* diskAccounting: the alert.  An empty list is no list.
Unaccounted == held \notin {None, 0} /\ list \notin {None, 0} /\ Material(held - list)

Next == Reading \/ Missed \/ Rebuild \/ Restart \/ Grow \/ List

Spec == Init /\ [][Next]_vars

-----------------------------------------------------------------------------
(***************************************************************************)
(* A restart pages nobody: while every node has the disk it had, no        *)
(* capacity alert is raised, however many nodes go and come, whichever     *)
(* readings fail, and however long ago the reading compared with was made; *)
(* unless as many nodes were in the table as the time before, but one of   *)
(* them in the place of another whose disk is not as large.  Then there is *)
(* an alert, and a rolling restart of unlike nodes does come to that.      *)
(***************************************************************************)
RestartsDoNotAlarm == read.age # None => rebuilt \/ swapped

(***************************************************************************)
(* Disk is said to be unaccounted for only when data that no list shows    *)
(* is a part of what the table holds, or when the list was read while the  *)
(* indices occupied less than at the reading of the table; and a list that *)
(* is not short of it hides no such data that is material.                 *)
(***************************************************************************)
GapsAreReal ==
  /\ Unaccounted => shown.rest > 0 \/ (list # None /\ list < shown.kept)
  /\ held # None /\ list \notin {None, 0} =>
       (list <= shown.kept /\ Material(shown.rest) => Unaccounted)

-----------------------------------------------------------------------------
(* The inductive invariants behind them (ConsoleProofs). *)
NodesInv ==
  /\ size \in [Node -> 1..Path] /\ up \subseteq Node /\ seen \subseteq Node
  /\ read = [total |-> read.total, fleet |-> read.fleet, from |-> read.from, age |-> read.age]
  /\ rebuilt \in BOOLEAN /\ swapped \in BOOLEAN
  /\ ~rebuilt =>
       /\ read.total # None => read.fleet = Cardinality(seen) /\ read.total = Units(seen)
       /\ ~swapped => read.age = None

DiskInv ==
  /\ kept \in Nat /\ rest \in Nat /\ list \in Nat \cup {None}
  /\ held # None => shown.kept \in Nat /\ shown.rest \in Nat /\ held = shown.kept + shown.rest
=============================================================================
