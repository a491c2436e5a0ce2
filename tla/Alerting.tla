------------------------------ MODULE Alerting -------------------------------
(***************************************************************************)
(* From the answers of one cluster to the alerts on the page and the lines *)
(* that announce them: buildClusterData, alerts() with the rules an admin  *)
(* switched off, and announceNewAlerts.  What a call that failed leaves    *)
(* behind differs from field to field: the health is forgotten, the        *)
(* snapshot policies are taken to be none, the master is kept.             *)
(***************************************************************************)
EXTENDS Naturals

CONSTANTS
  Master,       \* the nodes that may be elected
  Window,       \* MASTER_ALERT_HOURS (in refreshes)
  Muted, Acked, \* bound: the rules an admin switches, the alerts an operator acknowledges
  None

VARIABLES
  red,        \* the world: the cluster is red
  failing,    \* the world: the last SLM run failed
  master,     \* the world: the elected node, or None
  d,          \* state.data of the cluster
  off,        \* the alert rules an admin switched off
  acked,      \* the acknowledgements that have been loaded
  seen,       \* notify.js: seen
  news,       \* what the pass just made announced
  gone        \* history: the alerts that were off the list since they were last on it

vars == <<red, failing, master, d, off, acked, seen, news, gone>>

Rule == {"unreachable", "health", "slm-fail", "no-master", "master-changed"}

Nothing == [reachable |-> FALSE, red |-> None, slm |-> FALSE,
            nodes |-> FALSE, master |-> None, moved |-> None]

Init ==
  /\ red \in BOOLEAN /\ failing \in BOOLEAN /\ master \in Master
  /\ d = Nothing
  /\ off = {} /\ acked = {} /\ seen = None /\ news = {} /\ gone = Rule

Aged(t) == IF t = None \/ t = Window THEN None ELSE t + 1

\* buildClusterData, of the calls that were answered.
Read(root, health, cat, slm) ==
  LET now == IF cat THEN master ELSE d.master
  IN  [reachable |-> root \/ health,
       red |-> IF health THEN red ELSE None,
       slm |-> slm /\ failing,
       nodes |-> cat,
       master |-> now,
       moved |-> IF cat /\ d.master # None /\ now # None /\ d.master # now THEN 0 ELSE Aged(d.moved)]

\* alerts(), before the rules that are off: an unreachable cluster has that alert alone.
Raised(x) ==
  IF ~x.reachable THEN {"unreachable"}
  ELSE {k \in Rule :
          \/ k = "health" /\ x.red = TRUE
          \/ k = "slm-fail" /\ x.slm
          \/ k = "no-master" /\ x.master = None /\ x.nodes
          \/ k = "master-changed" /\ ~(x.master = None /\ x.nodes) /\ x.moved # None}

\* Mutant of Fresh: every open alert is announced on every pass.
FreshAlways(open) == IF seen = None THEN {} ELSE open

\* announceNewAlerts: the first pass is silent.
Fresh(open) == IF seen = None THEN {} ELSE open \ seen

\* One refresh: any of the calls may fail; the others are made if one of the first two answered.
Refresh(root, health, cat, slm) ==
  /\ root \/ health \/ ~(cat \/ slm)
  /\ d' = Read(root, health, cat, slm)
  /\ LET open == (Raised(d') \ off) \ acked
     IN  news' = Fresh(open) /\ seen' = open /\ gone' = Rule \ open
  /\ UNCHANGED <<red, failing, master, off, acked>>

Toggled(s, k) == IF k \in s THEN s \ {k} ELSE s \cup {k}

\* The admin's switches and the operator's acknowledgements, between two refreshes.
Configure ==
  /\ \/ \E k \in Muted : off' = Toggled(off, k) /\ UNCHANGED acked
     \/ \E k \in Acked : acked' = Toggled(acked, k) /\ UNCHANGED off
  /\ gone' = gone \cup off' \cup acked'
  /\ news' = {}
  /\ UNCHANGED <<red, failing, master, d, seen>>

\* start: another config is another fleet.
Reset ==
  /\ seen # None /\ seen' = None
  /\ news' = {}
  /\ UNCHANGED <<red, failing, master, d, off, acked, gone>>

World ==
  /\ \/ red' = ~red /\ UNCHANGED <<failing, master>>
     \/ failing' = ~failing /\ UNCHANGED <<red, master>>
     \/ master' \in Master \cup {None} /\ UNCHANGED <<red, failing>>
  /\ news' = {}
  /\ UNCHANGED <<d, off, acked, seen, gone>>

Next ==
  \/ \E root, health, cat, slm \in BOOLEAN : Refresh(root, health, cat, slm)
  \/ Configure \/ Reset \/ World

Spec == Init /\ [][Next]_vars

-----------------------------------------------------------------------------
(***************************************************************************)
(* Nothing is announced twice: between two lines about one alert there was *)
(* a refresh, an acknowledgement or a switch that took it off the list.    *)
(* (Of a step.)                                                            *)
(***************************************************************************)
AnnouncesOnce == news' \subseteq gone

\* Inductive (ConsoleProofs): what is not among the alerts of the last pass has been off the list.
UnseenIsGone == seen # None => Rule \ seen \subseteq gone
=============================================================================
