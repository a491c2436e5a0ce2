----------------------------- MODULE FleetView -----------------------------
(***************************************************************************)
(* What the pages promise about what they show: of every cluster and       *)
(* dataset, nothing, or an answer somebody asked that cluster for, through *)
(* the client of the configuration in force or through the client of an    *)
(* earlier one.  An answer through an earlier client is only ever shown    *)
(* because it was on the page, or on its way, when the configuration was   *)
(* replaced, or because a fetch carries it over from such an entry.  A     *)
(* cluster that leaves the configuration takes its answers with it.        *)
(* Refresh implements this module.                                         *)
(***************************************************************************)
CONSTANTS Cluster, Dataset

VARIABLES
  named,   \* the clusters of the configuration in force
  asked,   \* of each cluster and dataset, the kinds of answers on their way
  shown    \* of each cluster and dataset, the kind of answer on the page

viewVars == <<named, asked, shown>>

Kind == {"now", "earlier"}

ViewInit ==
  /\ named \in SUBSET Cluster
  /\ asked = [c \in Cluster |-> [d \in Dataset |-> {}]]
  /\ shown = [c \in Cluster |-> [d \in Dataset |-> "nothing"]]

(***************************************************************************)
(* Clusters of the configuration are asked, on behalf of what the pages    *)
(* show of them already, some of which an answer may carry over.           *)
(***************************************************************************)
Ask ==
  /\ UNCHANGED <<named, shown>>
  /\ asked' \in [Cluster -> [Dataset -> SUBSET Kind]]
  /\ \A c \in Cluster : \A d \in Dataset :
       asked'[c][d] \subseteq
         asked[c][d] \cup (IF c \in named THEN {"now", shown[c][d]} ELSE {})

\* Answers that are on their way are shown or dropped; they may be shown once more later.
Answer ==
  /\ UNCHANGED named
  /\ shown' \in [Cluster -> [Dataset -> Kind \cup {"nothing"}]]
  /\ asked' \in [Cluster -> [Dataset -> SUBSET Kind]]
  /\ \A c \in Cluster : \A d \in Dataset :
       /\ shown'[c][d] \in {shown[c][d]} \cup asked[c][d]
       /\ asked'[c][d] \subseteq asked[c][d]

\* The configuration is replaced: what the old clients answered is from an earlier one.
Replace ==
  /\ named' \in SUBSET Cluster
  /\ asked' = [c \in Cluster |-> [d \in Dataset |->
                 IF asked[c][d] = {} THEN {} ELSE {"earlier"}]]
  /\ shown' = [c \in Cluster |-> [d \in Dataset |->
                 IF c \in named' /\ shown[c][d] # "nothing" THEN "earlier" ELSE "nothing"]]

ViewNext ==
  \/ Ask
  \/ Answer
  \/ Replace

ViewSpec == ViewInit /\ [][ViewNext]_viewVars
=============================================================================
