------------------------------- MODULE Routes --------------------------------
(***************************************************************************)
(* The jump hosts of a config and the clusters that route through them, as *)
(* the editor's dialogs change them.  Reading a config back throws when a  *)
(* cluster routes through a jump host that is not defined, and then there  *)
(* is no config at all.  The file may spell a cluster's route in ways the  *)
(* reader takes and the editor does not look at.  Reading it back also     *)
(* gives each cluster the id under which the page and the core keep its    *)
(* data, its credential and its pins.                                      *)
(***************************************************************************)
EXTENDS Integers, Sequences

CONSTANTS
  Cluster, Host,
  Names,        \* names of clusters: the letters and digits (a sequence) and the spelling
  MaxClusters,  \* bound
  None

VARIABLES
  about,      \* bound: what is edited, the routes or the list; they share no state
  hosts,      \* raw.jump_hosts
  own,        \* raw.clusters: the route of each under via or jump, which the editor knows
  other,      \* and the one under jumpHost or jump_host, which only the reader knows
  list,       \* raw.clusters: [entry, name], the entry being a cluster whatever it is called
  last        \* history: the list before the last edit

routes == <<hosts, own, other>>
lists == <<list, last>>
vars == <<about, routes, lists>>

Init ==
  /\ hosts \in SUBSET Host
  /\ own \in [Cluster -> hosts \cup {None}]
  /\ other \in [Cluster -> hosts \cup {None}]
  /\ about \in {"routes", "list"} /\ list = <<>> /\ last = <<>>
  /\ about = "list" => hosts = {} /\ other = [c \in Cluster |-> None]

\* normalize: via, jump, jumpHost, jump_host, the first that is there.
Route(c) == IF own[c] # None THEN own[c] ELSE other[c]

Readable == \A c \in Cluster : Route(c) \in hosts \cup {None}

AddHost(h) ==
  /\ h \notin hosts
  /\ hosts' = hosts \cup {h}
  /\ UNCHANGED <<about, own, other, lists>>

\* Mutant of Followed: a rename leaves the clusters as they are.
FollowedNot(h, g) == own

\* A renamed host takes with it the clusters that are seen to use it.
Followed(h, g) == [c \in Cluster |-> IF own[c] = h THEN g ELSE own[c]]

RenameHost(h, g) ==
  /\ h \in hosts /\ g \notin hosts
  /\ hosts' = (hosts \ {h}) \cup {g}
  /\ own' = Followed(h, g)
  /\ UNCHANGED <<about, other, lists>>

RemoveHost(h) ==
  /\ h \in hosts /\ \A c \in Cluster : own[c] # h
  /\ hosts' = hosts \ {h}
  /\ UNCHANGED <<about, own, other, lists>>

\* editCluster writes via or deletes it, and deletes jump; the other keys stay.
SetRoute(c, h) ==
  /\ h \in hosts \cup {None}
  /\ own' = [own EXCEPT ![c] = h]
  /\ UNCHANGED <<about, hosts, other, lists>>

\* A config that cannot be read leaves nothing to edit, but by hand.
Mend ==
  /\ ~Readable
  /\ other' = [c \in Cluster |-> None]
  /\ UNCHANGED <<about, hosts, own, lists>>

Edit ==
  \/ \E h \in Host : AddHost(h) \/ RemoveHost(h) \/ \E g \in Host : RenameHost(h, g)
  \/ \E c \in Cluster, h \in Host \cup {None} : SetRoute(c, h)

-----------------------------------------------------------------------------
\* Mutant of Id: a name that is taken is told apart once.
IdOnce(slug, i, seen) == IF slug \in seen THEN Append(slug, i) ELSE slug

\* normalize: the slug, with the place in the list behind it for as long as that is taken.
Id(slug, i, seen) ==
  LET longer == {slug \o [j \in 1..k |-> i] : k \in 0..i}
  IN  CHOOSE id \in longer \ seen : \A x \in longer \ seen : Len(id) <= Len(x)

\* The ids of the clusters of a list, in its order.
Ids(l) ==
  LET f[n \in 0..Len(l)] ==
        IF n = 0 THEN <<>>
        ELSE Append(f[n - 1], Id(l[n].name.slug, n - 1, {f[n - 1][j] : j \in 1..(n - 1)}))
  IN  f[Len(l)]

\* editCluster: no two clusters have the very same name.
Free(name) == \A i \in DOMAIN list : list[i].name # name

AddCluster(name) ==
  /\ Len(list) < MaxClusters /\ Free(name)
  /\ \E e \in 1..MaxClusters :
       /\ \A i \in DOMAIN list : list[i].entry # e
       /\ list' = Append(list, [entry |-> e, name |-> name])

RenameCluster(i, name) == Free(name) /\ list' = [list EXCEPT ![i].name = name]

RemoveCluster(i) == list' = SubSeq(list, 1, i - 1) \o SubSeq(list, i + 1, Len(list))

EditList ==
  /\ \/ \E name \in Names : AddCluster(name) \/ \E i \in DOMAIN list : RenameCluster(i, name)
     \/ \E i \in DOMAIN list : RemoveCluster(i)
  /\ last' = list
  /\ UNCHANGED <<about, routes>>

Next ==
  \/ about = "routes" /\ ((Readable /\ Edit) \/ Mend)
  \/ about = "list" /\ EditList

Spec == Init /\ [][Next]_vars

-----------------------------------------------------------------------------
(***************************************************************************)
(* Whatever the editor writes can be read back, unless some cluster names  *)
(* its jump host under a key the editor does not look at.                  *)
(***************************************************************************)
WrittenCanBeRead == (\A c \in Cluster : other[c] = None) => Readable

\* An entry's id in a list, and the lists that no two names make ambiguous: equal but for
\* their spelling, or one of them the other with a number behind it.
IdIn(l, i) == Ids(l)[i]
Plain(l) ==
  \A i, j \in DOMAIN l :
    i # j => \A n \in 0..Len(l[j].name.slug) : SubSeq(l[j].name.slug, 1, n) # l[i].name.slug

(***************************************************************************)
(* No two clusters of a config have one id; and where no two names are     *)
(* alike, an id that an edit keeps stays with its cluster: what is held    *)
(* under it (the credential, the pins, the acknowledgements) is not handed *)
(* to another one because a cluster was removed or called something else.  *)
(***************************************************************************)
IdsStayWithTheirClusters ==
  /\ \A i, j \in DOMAIN list : i # j => IdIn(list, i) # IdIn(list, j)
  /\ Plain(list) /\ Plain(last) =>
       \A i \in DOMAIN list, j \in DOMAIN last :
         list[i].entry # last[j].entry => IdIn(list, i) # IdIn(last, j)

-----------------------------------------------------------------------------
(* The inductive invariants behind them (ConsoleProofs). *)
RoutesInv == \A c \in Cluster : own[c] \in hosts \cup {None}

\* Of two entries of different clusters, one before the last edit and one after it, one at least
\* is in both lists.
Item == [entry : Nat, name : Names]
ListInv ==
  /\ list \in Seq(Item) /\ last \in Seq(Item)
  /\ \A i \in DOMAIN list, j \in DOMAIN last :
       list[i].entry # last[j].entry =>
         (\E k \in DOMAIN last : last[k] = list[i]) \/ (\E k \in DOMAIN list : list[k] = last[j])
=============================================================================
