-------------------------------- MODULE Shards -------------------------------
(***************************************************************************)
(* The Nodes & shards page (pages/shards.js): a listing for each cluster,  *)
(* read on demand and then old, the shards ticked in it, and the dialogs   *)
(* that move them with one reroute; with the dialog of the Indices page,   *)
(* which moves one shard.                                                  *)
(***************************************************************************)
EXTENDS Naturals

CONSTANTS
  Cluster,
  Shard,        \* names: an index, a number, and whether primary; two clusters may use the same
  Replica,      \* those of a replica: more than one copy may have the name
  Node,
  MaxMoves,     \* bound: how often shards move, by themselves or by a reroute
  None

VARIABLES
  at,           \* external: the nodes with a started copy under each name; two replicas of a shard share one
  listing,      \* shards: what the last answer said; None when there is none, or one that failed
  picked,       \* picked, by the name alone: the cluster and node of the row that was ticked last
  clicked,      \* history: the rows ticked under each name since it was last cleared
  dialog,       \* moveMany, moveOne or moveShardDialog: what it moves, and to what (None: not chosen)
  wrong,        \* history: a reroute was wrong that is not what was ticked
  moves

vars == <<at, listing, picked, clicked, dialog, wrong, moves>>

Held(s) == {N \in SUBSET Node : s \in Replica \/ \A m, n \in N : m = n}

Init ==
  /\ \E n \in Node : at = [c \in Cluster |-> [s \in Shard |-> IF s \in Replica THEN Node ELSE {n}]]
  /\ listing = [c \in Cluster |-> None]
  /\ picked = [s \in Shard |-> None] /\ clicked = [s \in Shard |-> {}]
  /\ dialog = None /\ wrong = FALSE /\ moves = 0

\* Copies start, go elsewhere, or nowhere.
World ==
  /\ moves < MaxMoves /\ moves' = moves + 1
  /\ \E c \in Cluster, s \in Shard : \E N \in Held(s) : N # at[c][s] /\ at' = [at EXCEPT ![c][s] = N]
  /\ UNCHANGED <<listing, picked, clicked, dialog, wrong>>

-----------------------------------------------------------------------------
\* load: by refresh when there is no listing or a failed one, by the button, and after a
\* move.  An answer that comes late is a listing that is old at once, as by World.
Load(c) ==
  /\ listing' \in {[listing EXCEPT ![c] = at[c]], [listing EXCEPT ![c] = None]}
  /\ UNCHANGED <<at, picked, clicked, dialog, wrong, moves>>

-----------------------------------------------------------------------------
Listed(c) == listing[c] # None
Rows(c) == IF Listed(c) THEN {r \in [shard : Shard, node : Node] : r.node \in listing[c][r.shard]} ELSE {}
On(c, n) == [cluster |-> c, node |-> n]

\* The checkbox of a row, which shows whether the name is ticked, by whatever row, on whatever
\* cluster: unticking it unticks that one.
Tick(c) ==
  /\ dialog = None
  /\ \E r \in Rows(c) :
       IF picked[r.shard] = None
       THEN /\ picked' = [picked EXCEPT ![r.shard] = On(c, r.node)]
            /\ clicked' = [clicked EXCEPT ![r.shard] = {On(c, r.node)}]
       ELSE /\ picked' = [picked EXCEPT ![r.shard] = None]
            /\ clicked' = [clicked EXCEPT ![r.shard] = {}]
  /\ UNCHANGED <<at, listing, dialog, wrong, moves>>

\* tickAll: the started shards that the filters and the limit show, or none of them when all
\* of those are ticked.  Of rows with one name the last is what stays.
TickAll(c) ==
  /\ dialog = None
  /\ \E shown \in SUBSET Rows(c) \ {{}} :
       LET nodes(s) == {n \in Node : [shard |-> s, node |-> n] \in shown}
           allOn == \A r \in shown : picked[r.shard] # None
       IN  IF allOn
           THEN /\ picked' = [s \in Shard |-> IF nodes(s) = {} THEN picked[s] ELSE None]
                /\ clicked' = [s \in Shard |-> IF nodes(s) = {} THEN clicked[s] ELSE {}]
           ELSE /\ \E last \in [Shard -> Node] :
                     /\ \A s \in Shard : nodes(s) # {} => last[s] \in nodes(s)
                     /\ picked' = [s \in Shard |-> IF nodes(s) = {} THEN picked[s] ELSE On(c, last[s])]
                /\ clicked' = [s \in Shard |-> clicked[s] \cup {On(c, n) : n \in nodes(s)}]
  /\ UNCHANGED <<at, listing, dialog, wrong, moves>>

\* Mutant of Mine: whatever cluster the row was of.
MineAnywhere(c) == {s \in Shard : picked[s] # None}

Mine(c) == {s \in Shard : picked[s] # None /\ picked[s].cluster = c}

\* The bar is drawn with the table: a listing that failed has neither.
Clear(c) ==
  /\ dialog = None /\ Listed(c) /\ Mine(c) # {}
  /\ picked' = [s \in Shard |-> IF s \in Mine(c) THEN None ELSE picked[s]]
  /\ clicked' = [s \in Shard |-> IF s \in Mine(c) THEN {} ELSE clicked[s]]
  /\ UNCHANGED <<at, listing, dialog, wrong, moves>>

\* History: `asked` is what may be moved and `sole` what has to be.
OpenMove(c, rows, asked, sole, stays) ==
  /\ dialog = None /\ rows # {} /\ \E m, n \in Node : m # n
  /\ dialog' = [cluster |-> c, rows |-> rows, asked |-> asked, sole |-> sole, to |-> None, stays |-> stays]
  /\ UNCHANGED <<at, listing, picked, clicked, wrong, moves>>

\* Every row of the cluster that was ticked; and those ticked as the only one of their name.
Asked(c) == {r \in [shard : Shard, node : Node] : On(c, r.node) \in clicked[r.shard]}
Sole(c) == {r \in [shard : Shard, node : Node] : clicked[r.shard] = {On(c, r.node)}}

MoveMany(c) ==
  Listed(c) /\ OpenMove(c, {[shard |-> s, node |-> picked[s].node] : s \in Mine(c)}, Asked(c), Sole(c), TRUE)

MoveOne(c) == \E r \in Rows(c) : OpenMove(c, {r}, {r}, {r}, TRUE)

\* moveShardDialog, of the Indices page: it lists the started shards when it is opened.
MoveListed(c) ==
  \E s \in Shard : \E n \in at[c][s] :
    LET r == [shard |-> s, node |-> n] IN OpenMove(c, {r}, {r}, {r}, FALSE)

\* The target chosen and Move pressed; a move of one shard does not offer its own node.
Choose ==
  /\ dialog # None /\ dialog.to = None
  /\ \E n \in Node :
       /\ \E r \in dialog.rows : r.node # n
       /\ dialog' = [dialog EXCEPT !.to = n]
  /\ UNCHANGED <<at, listing, picked, clicked, wrong, moves>>

\* Those on the target are skipped.
Commands(rows, to) == {r \in rows : r.node # to}

\* Elasticsearch moves a copy from a node that has it to one that has none; other rules, of
\* its own, may forbid that too.
Possible(c, cs, to) == \A r \in cs : r.node \in at[c][r.shard] /\ to \notin at[c][r.shard]

\* A reroute that names what was not ticked or is on the target, or that leaves out what has
\* to be moved.
Wrong(cs) ==
  \/ cs = {} \/ \E r \in cs : r \notin dialog.asked \/ r.node = dialog.to
  \/ \E r \in dialog.sole : r.node # dialog.to /\ r \notin cs

\* Confirmed: Elasticsearch takes the commands as one, or none of them.  The page reads
\* the reply as a failure either way, so its dialog stays, and so do the ticks; moveShardDialog
\* stays when it failed.
Confirm ==
  /\ dialog # None /\ dialog.to # None
  /\ moves < MaxMoves /\ moves' = moves + 1
  /\ LET c == dialog.cluster
         cs == Commands(dialog.rows, dialog.to)
     IN  /\ wrong' = (wrong \/ Wrong(cs))
         /\ \/ /\ Possible(c, cs, dialog.to)
               /\ at' = [at EXCEPT ![c] = [s \in Shard |->
                           LET gone == {n \in Node : [shard |-> s, node |-> n] \in cs}
                           IN  IF gone = {} THEN @[s] ELSE (@[s] \ gone) \cup {dialog.to}]]
               /\ dialog' = IF dialog.stays THEN [dialog EXCEPT !.to = None] ELSE None
            \/ at' = at /\ dialog' = [dialog EXCEPT !.to = None]
  /\ UNCHANGED <<listing, picked, clicked>>

\* The second question refused; and Escape, which closes the dialog.
Refuse ==
  /\ dialog # None
  /\ dialog' = IF dialog.to # None THEN [dialog EXCEPT !.to = None] ELSE None
  /\ UNCHANGED <<at, listing, picked, clicked, wrong, moves>>

Next ==
  \/ World \/ Choose \/ Confirm \/ Refuse
  \/ \E c \in Cluster : Load(c) \/ Tick(c) \/ TickAll(c) \/ Clear(c) \/ MoveMany(c) \/ MoveOne(c)
                           \/ MoveListed(c)

Spec == Init /\ [][Next]_vars

-----------------------------------------------------------------------------
(***************************************************************************)
(* What moves is what was ticked, on the cluster it was ticked on, however *)
(* old the listing was and whatever was ticked before or elsewhere: a      *)
(* reroute names no copy that was not ticked, and all that were ticked and *)
(* are not on the target, but for those under a name that was ticked more  *)
(* than once: there the page keeps one row, of two replicas or of one on   *)
(* each of two clusters, and moves that.                                   *)
(***************************************************************************)
MovesWhatWasTicked == ~wrong

\* Inductive (ConsoleProofs): what is picked is one of the rows ticked under its name, and a
\* target is chosen only if some row is not on it.
ShardsInv ==
  /\ ~wrong
  /\ picked \in [Shard -> [cluster : Cluster, node : Node] \cup {None}]
  /\ clicked \in [Shard -> SUBSET [cluster : Cluster, node : Node]]
  /\ \A s \in Shard : IF picked[s] = None THEN clicked[s] = {} ELSE picked[s] \in clicked[s]
  /\ dialog # None =>
       /\ dialog = [cluster |-> dialog.cluster, rows |-> dialog.rows, asked |-> dialog.asked,
                    sole |-> dialog.sole, to |-> dialog.to, stays |-> dialog.stays]
       /\ dialog.rows \subseteq dialog.asked /\ dialog.sole \subseteq dialog.rows
       /\ dialog.to # None => \E r \in dialog.rows : r.node # dialog.to
=============================================================================
