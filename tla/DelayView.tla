------------------------------ MODULE DelayView ------------------------------
(***************************************************************************)
(* The delay view of pages/logs.js: a coverage check over the clusters     *)
(* picked, then the analysis over those that can take it, both as fan-outs *)
(* of core/fleet.js, and the table merged from what came back.  The check  *)
(* looks only whether a check is running: opening the view again during an *)
(* analysis starts one beside it, over the same entries and on the same    *)
(* stop button.                                                            *)
(***************************************************************************)
EXTENDS Naturals, Sequences, FiniteSets

CONSTANTS
  Cluster,
  Limit,        \* FAN_OUT
  None

VARIABLES
  active,       \* activeClusters(): those the picker of the top bar covers
  entry,        \* delay.byCluster; a cluster that is not in it is Idle
  check, fetch, \* the fan-outs under way; None
  token,        \* delay.token: which of them the stop button stops
  merged,       \* delay.records: the clusters whose devices are in the table; None
  repicked      \* history: the picker moved since the table was merged

vars == <<active, entry, check, fetch, token, merged, repicked>>

F == INSTANCE FanOut WITH Lists <- {}, run <- None

Idle == [st |-> "idle", pre |-> None, rec |-> FALSE]
\* Each of S once, in an order of no account.
List(S) ==
  CHOOSE s \in [1..Cardinality(S) -> S] : \A x \in S : \E i \in DOMAIN s : \A j \in DOMAIN s : s[j] = x <=> j = i

Init ==
  /\ active \in SUBSET Cluster
  /\ entry = [c \in Cluster |-> Idle]
  /\ check = None /\ fetch = None /\ token = None
  /\ merged = None /\ repicked = FALSE

\* mergeDelay, of the entries as they are now.
Merged(e) == LET done == {c \in active : e[c].rec} IN IF done = {} THEN None ELSE done

Answered(pre) == pre \in {"yes", "no"}
Analysable == {c \in active : entry[c].pre = "yes"}

\* runPreflight: whatever the last check and its analysis found is forgotten.
RunPreflight ==
  /\ active # {} /\ check = None
  /\ check' = F!Begun(List(active))
  /\ token' = "check"
  /\ entry' = [c \in Cluster |-> IF c \in active THEN [Idle EXCEPT !.st = "waiting"] ELSE Idle]
  /\ merged' = None /\ repicked' = FALSE
  /\ UNCHANGED <<active, fetch>>

\* A cluster's answer to the coverage check: what it can do, or that it did not say.
Checked(i, pre) ==
  /\ check # None /\ i \in check.flying
  /\ check' = F!Settled(check, i)
  /\ entry' = [entry EXCEPT ![check.items[i]].st = "checked", ![check.items[i]].pre = pre]
  /\ UNCHANGED <<active, fetch, token, merged, repicked>>

\* Mutant of NeverAsked: the clusters a stop left out are not named.
NeverAskedUnnamed(r, st) == entry

\* The clusters a stop left out are named.
NeverAsked(r, st) ==
  [c \in Cluster |-> IF \E i \in F!Skipped(r) : r.items[i] = c THEN [entry[c] EXCEPT !.st = st] ELSE entry[c]]

CheckEnds ==
  /\ check # None /\ F!Over(check)
  /\ entry' = NeverAsked(check, "skipped")
  /\ check' = None /\ token' = None
  /\ UNCHANGED <<active, fetch, merged, repicked>>

\* fetchDelay: the button is there only while nothing else runs.
FetchDelay ==
  /\ Analysable # {} /\ fetch = None /\ check = None
  /\ fetch' = F!Begun(List(Analysable))
  /\ token' = "fetch"
  /\ entry' = [c \in Cluster |-> IF c \in Analysable THEN [entry[c] EXCEPT !.st = "fetching", !.rec = FALSE]
                                 ELSE entry[c]]
  /\ UNCHANGED <<active, check, merged, repicked>>

\* A cluster's analysis, or the reason there is none; the table follows at once.
Fetched(i, ok) ==
  /\ fetch # None /\ i \in fetch.flying
  /\ fetch' = F!Settled(fetch, i)
  /\ entry' = IF ok THEN [entry EXCEPT ![fetch.items[i]].st = "done", ![fetch.items[i]].rec = TRUE]
              ELSE [entry EXCEPT ![fetch.items[i]].st = "failed"]
  /\ merged' = Merged(entry') /\ repicked' = FALSE
  /\ UNCHANGED <<active, check, token>>

FetchEnds ==
  /\ fetch # None /\ F!Over(fetch)
  /\ entry' = NeverAsked(fetch, "not-asked")
  /\ fetch' = None /\ token' = None
  /\ merged' = Merged(entry') /\ repicked' = FALSE
  /\ UNCHANGED <<active, check>>

\* stopDelay
Stop ==
  /\ \/ token = "check" /\ check' = F!Cancelled(check) /\ UNCHANGED fetch
     \/ token = "fetch" /\ fetch' = F!Cancelled(fetch) /\ UNCHANGED check
  /\ UNCHANGED <<active, entry, token, merged, repicked>>

\* The picker of the top bar, or another config.
Pick(S) ==
  /\ S # active /\ active' = S
  /\ repicked' = TRUE
  /\ UNCHANGED <<entry, check, fetch, token, merged>>

Next ==
  \/ RunPreflight \/ CheckEnds \/ FetchDelay \/ FetchEnds \/ Stop
  \/ \E i \in 1..3, pre \in {"yes", "no", "unknown"} : Checked(i, pre)
  \/ \E i \in 1..3, ok \in BOOLEAN : Fetched(i, ok)
  \/ \E S \in SUBSET Cluster : Pick(S)

Spec == Init /\ [][Next]_vars

-----------------------------------------------------------------------------
\* coverageCard: what the table of clusters says of one.
Row(e) ==
  IF e.st = "waiting" \/ e.st = "fetching" THEN "loading"
  ELSE IF e.st \in {"skipped", "not-asked"} THEN "never asked"
  ELSE IF e.st = "failed" THEN "query failed" ELSE e.pre

\* missingClusters: why a cluster is on the report's sheet of those not measured.
Reason(e) ==
  IF e.rec THEN None
  ELSE IF e.st \in {"failed", "not-asked"} THEN e.st
  ELSE IF e.pre \in {"no", "unknown"} THEN e.pre ELSE "not measured"

\* delayCoverage: how many answered, failed and were never asked.
PreflightCoverage(S) ==
  [ok |-> {c \in S : entry[c].pre # None}, failed |-> {},
   skipped |-> {c \in S : entry[c].pre = None}]
FetchCoverage(S) ==
  LET of == {c \in S : entry[c].pre = "yes"}
  IN  [ok |-> {c \in of : entry[c].rec}, failed |-> {c \in of : entry[c].st = "failed"},
       skipped |-> {c \in of : ~entry[c].rec /\ entry[c].st # "failed"}]

(***************************************************************************)
(* The numbers above the table add up: no cluster is counted both as one   *)
(* that answered and as one that failed, the table holds the devices of    *)
(* exactly the clusters counted as measured, and once nothing runs no      *)
(* cluster is shown as still loading.  It holds with a check and an        *)
(* analysis running over each other, however they are stopped; the one     *)
(* exception is a table merged before the picker moved.                    *)
(***************************************************************************)
NumbersAddUp ==
  /\ FetchCoverage(active).ok \cap FetchCoverage(active).failed = {}
  /\ fetch = None /\ ~repicked => merged = Merged(entry)
  /\ \A c \in FetchCoverage(active).failed : Reason(entry[c]) = "failed"
  /\ check = None /\ fetch = None => \A c \in Cluster : Row(entry[c]) # "loading"

-----------------------------------------------------------------------------
(***************************************************************************)
(* The inductive invariant behind it (proved in ConsoleProofs): a cluster  *)
(* that is shown as loading is one that a run under way has not heard      *)
(* from, and none of those the analysis has not heard from has devices.    *)
(***************************************************************************)
Runs ==
  {r \in [items : Seq(Cluster), next : Nat, flying : SUBSET Nat, settled : SUBSET Nat, cancelled : BOOLEAN] :
     /\ \A i, j \in DOMAIN r.items : r.items[i] = r.items[j] => i = j
     /\ r.next <= Len(r.items)
     /\ r.settled \cup r.flying = 1..r.next /\ r.settled \cap r.flying = {}}

\* A run has not heard from a cluster.
Awaits(r, c) == r # None /\ \E i \in DOMAIN r.items \ r.settled : r.items[i] = c

EntriesInv ==
  /\ active \subseteq Cluster /\ DOMAIN entry = Cluster
  /\ check # None => check \in Runs
  /\ fetch # None => fetch \in Runs
  /\ token = "check" => check # None
  /\ token = "fetch" => fetch # None
  /\ \A c \in Cluster :
       /\ DOMAIN entry[c] = {"st", "pre", "rec"} /\ entry[c].rec \in BOOLEAN
       /\ entry[c].pre # "loading"
       /\ entry[c].rec => entry[c].st # "failed" /\ ~Awaits(fetch, c)
       /\ entry[c].st = "waiting" => Awaits(check, c)
       /\ entry[c].st = "fetching" => Awaits(fetch, c)

DelayViewInv == EntriesInv /\ (fetch = None /\ ~repicked => merged = Merged(entry))
=============================================================================
