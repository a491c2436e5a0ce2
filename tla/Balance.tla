------------------------------- MODULE Balance -------------------------------
(***************************************************************************)
(* Disk balance of one cluster (core/disk-balance.js): from the figures of *)
(* each data node and the cluster's own settings, a verdict, a list of     *)
(* requests worth making and the one to make first.  The alert carries     *)
(* that one, the Automation page asks whether a retry could place a shard. *)
(***************************************************************************)
EXTENDS Integers

CONSTANTS
  Node,
  Pct,          \* how full a node can be
  Lows,         \* what a scope of the settings may say of the low watermark
  None          \* nothing said, no total, or not a percentage (a size in bytes)

VARIABLES
  disk,         \* data.disk.nodes: how full each node is
  unassigned,   \* data.disk.unassignedShards is not zero
  low,          \* clusterSettings, the low watermark: what each scope says
  enable        \* and the two switches: each scope says "all", something else, or nothing

vars == <<disk, unassigned, low, enable>>

Scope == {"persistent", "transient", "defaults"}
Switch == {"allocation", "rebalance"}
Quiet == [s \in Scope |-> None]

Init ==
  /\ disk \in [Node -> Pct \cup {None}] /\ unassigned = FALSE
  /\ low = Quiet
  /\ enable = [k \in Switch |-> Quiet]

\* One of a refresh's answers; one that failed leaves the last there was.
ReadDisk == \E n \in Node, p \in Pct \cup {None} : disk' = [disk EXCEPT ![n] = p] /\ UNCHANGED <<unassigned, low, enable>>
ReadShards == unassigned' = ~unassigned /\ UNCHANGED <<disk, low, enable>>
ReadSettings ==
  /\ \/ \E v \in Lows : low' = [low EXCEPT !["persistent"] = v] /\ UNCHANGED enable
     \/ \E k \in Switch, s \in Scope \ {"defaults"}, v \in {None, "all", "none"} :
          enable' = [enable EXCEPT ![k][s] = v] /\ UNCHANGED low
  /\ UNCHANGED <<disk, unassigned>>

Next == ReadDisk \/ ReadShards \/ ReadSettings
Spec == Init /\ [][Next]_vars

-----------------------------------------------------------------------------
\* The first scope that says something, in this order.
FirstSaid(said, otherwise) ==
  CASE said["persistent"] # None -> said["persistent"]
    [] said["persistent"] = None /\ said["transient"] # None -> said["transient"]
    [] said["persistent"] = None /\ said["transient"] = None /\ said["defaults"] # None -> said["defaults"]
    [] OTHER -> otherwise

Low == FirstSaid(low, 85)
High == 90
Flood == 95
On(k) == FirstSaid(enable[k], "all") = "all"
MayMove == On("allocation") /\ On("rebalance")

\* diskBalance: a node without a total is left out.
Nodes == {n \in Node : disk[n] # None}
Applicable == \E n, m \in Nodes : n # m
Shares == {disk[n] : n \in Nodes}
Fullest == CHOOSE p \in Shares : \A q \in Shares : q <= p
Emptiest == CHOOSE p \in Shares : \A q \in Shares : p <= q
Spread == Fullest - Emptiest
AboveFlood == {n \in Nodes : disk[n] >= Flood}
AboveHigh == {n \in Nodes : disk[n] >= High /\ disk[n] < Flood}
AboveLow == {n \in Nodes : disk[n] >= Low /\ disk[n] < High}
AllFull == \A n \in Nodes : disk[n] >= High
Headroom == Emptiest < Low

Verdict ==
  IF ~Applicable THEN "single-node"
  ELSE IF AboveFlood # {} THEN "critical"
  ELSE IF AboveHigh # {} \/ unassigned \/ (Spread >= 20 /\ Headroom) THEN "required"
  ELSE IF ~MayMove \/ Spread >= 10 \/ AboveLow # {} THEN "watch"
  ELSE "ok"

\* Mutant of Helps: something is skewed, so move something.
HelpsAnyway == ~AllFull /\ (Spread >= 10 \/ AboveHigh # {} \/ AboveFlood # {})

Helps == ~AllFull /\ (Spread >= 10 \/ AboveHigh # {} \/ AboveFlood # {}) /\ Headroom

Suggestions ==
  {"look"}
  \cup (IF unassigned THEN {"explain", "retry"} ELSE {})
  \cup (IF AboveFlood # {} THEN {"unblock"} ELSE {})
  \cup (IF ~MayMove THEN {"enable"} ELSE {})
  \cup (IF ~AllFull /\ (AboveHigh # {} \/ AboveFlood # {} \/ Spread >= 10)
        THEN {"confirm", "enable", "move", "biggest"} ELSE {})
  \cup (IF AllFull \/ AboveFlood # {} \/ AboveHigh # {} THEN {"raise", "oldest"} ELSE {})

Offered(s) == IF s \in Suggestions THEN s ELSE None

Primary ==
  IF ~Applicable THEN None
  ELSE IF ~MayMove THEN Offered("enable")
  ELSE IF AboveFlood # {} THEN Offered("unblock")
  ELSE IF AllFull THEN Offered("oldest")
  ELSE IF unassigned THEN Offered("explain")
  ELSE IF Helps THEN Offered("move")
  ELSE Offered("look")

Headline ==
  CASE Verdict = "critical" -> "flood"
    [] Verdict = "required" -> IF AllFull THEN "capacity" ELSE IF AboveHigh # {} THEN "high"
                               ELSE IF unassigned THEN "unassigned" ELSE "skewed"
    [] OTHER -> Verdict

\* The built-in rule: a retry of what is unassigned, unless it has nowhere to go.
RetryRule ==
  IF ~unassigned THEN None
  ELSE IF Nodes # {} /\ AllFull THEN "skipped" ELSE "proposed"

-----------------------------------------------------------------------------
(***************************************************************************)
(* The advice fits the figures.  A fleet of nodes is never without a first *)
(* thing to do; "ok" leaves no watermark passed, nothing unassigned and    *)
(* both switches on; a shard is to be moved only while some node is under  *)
(* the low watermark and another well above it, and never when all are     *)
(* full; and an alert never calls skewed, or has a retry for, a cluster    *)
(* that is simply full.                                                    *)
(***************************************************************************)
AdviceFits ==
  /\ Applicable => Primary # None
  /\ Verdict = "ok" =>
       MayMove /\ ~unassigned /\ Spread < 10 /\ \A n \in Nodes : disk[n] < Low /\ disk[n] < High
  /\ Primary = "move" =>
       /\ MayMove /\ ~AllFull
       /\ \E n, to \in Nodes : disk[to] < Low /\ disk[n] > disk[to] /\ (disk[n] >= disk[to] + 10 \/ disk[n] >= High)
  /\ Verdict \in {"critical", "required"} /\ AllFull => Primary # "move" /\ Headline \in {"flood", "capacity"}
  /\ Headline = "skewed" => Spread >= 20 /\ Headroom
  /\ RetryRule = "proposed" => Nodes = {} \/ \E n \in Nodes : disk[n] < High

-----------------------------------------------------------------------------
\* The invariant behind it (proved in ConsoleProofs): the advice is about the figures of any
\* moment, so that they are figures is all it needs.
BalanceInv ==
  /\ disk \in [Node -> Pct \cup {None}] /\ unassigned \in BOOLEAN
  /\ low \in [Scope -> Lows \cup {None}]
=============================================================================
