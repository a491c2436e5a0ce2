---------------------------- MODULE SnapshotWatch ----------------------------
(***************************************************************************)
(* How the snapshots of one repository went: fetchSnapshots lists them,    *)
(* newest first; announceSnapshotOutcomes says once how a run that was     *)
(* seen in progress ended; snapshotAlertsFor keeps an alert for what the   *)
(* newest runs say of the repository.                                      *)
(***************************************************************************)
EXTENDS Naturals, Sequences

CONSTANTS
  MaxRuns,      \* bound: snapshots that are begun
  Window,       \* SNAPSHOT_WINDOW
  None

VARIABLES
  runs,         \* external: the repository, newest first: [id, st]
  begun,        \* how many snapshots were begun, which names them
  late,         \* external: the newest run is older than snapshotStaleHours
  listed,       \* d.snapshots of the repository
  error,        \* repo.error
  seen,         \* seenSnapshots: the runs the last pass saw in progress
  told,         \* history: how often the outcome of each run was announced
  watched       \* history: runs seen in progress, with no failed listing since

vars == <<runs, begun, late, listed, error, seen, told, watched>>

Ids(s) == {s[i].id : i \in DOMAIN s}
InProgress(s) == {s[i].id : i \in {j \in DOMAIN s : s[j].st = "running"}}

Init ==
  /\ runs \in {<<>>, <<[id |-> 1, st |-> "ok"]>>, <<[id |-> 1, st |-> "running"]>>}
  /\ begun = 1 /\ late = FALSE
  /\ listed = <<>> /\ error = FALSE
  /\ seen = {} /\ told = [i \in 1..MaxRuns |-> 0] /\ watched = {}

\* The repository: a run at a time, retention from the old end, a clock.
World ==
  /\ \/ /\ begun < MaxRuns /\ InProgress(runs) = {}
        /\ begun' = begun + 1 /\ late' = FALSE
        /\ runs' = <<[id |-> begun', st |-> "running"]>> \o runs
     \/ /\ \E i \in DOMAIN runs, st \in {"ok", "bad"} :
             runs[i].st = "running" /\ runs' = [runs EXCEPT ![i].st = st]
        /\ UNCHANGED <<begun, late>>
     \/ /\ runs # <<>> /\ runs[Len(runs)].st # "running"
        /\ runs' = SubSeq(runs, 1, Len(runs) - 1)
        /\ UNCHANGED <<begun, late>>
     \/ ~late /\ late' = TRUE /\ UNCHANGED <<runs, begun>>
  /\ UNCHANGED <<listed, error, seen, told, watched>>

\* Mutant of Outcomes: what was seen is replaced before it is compared with.
OutcomesAfter(now) == {i \in Ids(now) : i \in InProgress(now)} \ InProgress(now)

\* announceSnapshotOutcomes: seen in progress by the last pass, and ended in this.
Outcomes(now) == (Ids(now) \cap seen) \ InProgress(now)

\* A refresh: the listing, or _cat/snapshots, or neither; then the pass of `refreshed`.
Refresh(ok) ==
  /\ listed' = IF ok THEN runs ELSE <<>>
  /\ error' = ~ok
  /\ seen' = InProgress(listed')
  /\ told' = [i \in 1..MaxRuns |-> IF i \in Outcomes(listed') THEN told[i] + 1 ELSE told[i]]
  /\ watched' = IF ok THEN (watched \cup InProgress(runs)) \cap Ids(runs) ELSE {}
  /\ UNCHANGED <<runs, begun, late>>

Next == World \/ \E ok \in BOOLEAN : Refresh(ok)

Spec == Init /\ [][Next]_vars

-----------------------------------------------------------------------------
Recent == SubSeq(listed, 1, IF Len(listed) < Window THEN Len(listed) ELSE Window)
Streak == {i \in DOMAIN Recent : \A j \in 1..i : Recent[j].st = "bad"}

\* snapshotAlertsFor: one alert for a repository at most; since when, if it fails.
Alert ==
  IF error THEN [kind |-> "unreadable"]
  ELSE IF listed = <<>> THEN [kind |-> "none"]
  ELSE IF Streak # {} THEN
    [kind |-> "failing", since |-> Recent[CHOOSE i \in Streak : \A j \in Streak : j <= i].id,
     earlier |-> Streak = DOMAIN Recent /\ Len(listed) > Len(Recent)]
  ELSE IF late THEN [kind |-> "stale"] ELSE [kind |-> "fine"]

(***************************************************************************)
(* How a run ended is told: of a run that a refresh saw in progress and a  *)
(* later one sees ended, once and never again, unless a listing failed in  *)
(* between; and while the newest run is one that failed, the alert says    *)
(* since when: every run listed from that one on failed, and the one       *)
(* before it did not, or lies beyond the window and the alert says so.     *)
(***************************************************************************)
OutcomesAreTold ==
  /\ \A i \in 1..MaxRuns : told[i] <= 1
  /\ \A i \in watched \ InProgress(listed) : told[i] = 1
  /\ listed # <<>> /\ listed[1].st = "bad" =>
       /\ Alert.kind = "failing"
       /\ \A k \in DOMAIN listed : listed[k].id >= Alert.since => listed[k].st = "bad"
       /\ \A k \in DOMAIN listed : listed[k].id = Alert.since =>
            k = Len(listed) \/ listed[k + 1].st # "bad" \/ Alert.earlier

-----------------------------------------------------------------------------
(* The inductive invariant behind it (ConsoleProofs). *)
Run == [id : Nat, st : {"running", "ok", "bad"}]
Listing(s) == s \in Seq(Run) /\ \A i, j \in DOMAIN s : i < j => s[j].id < s[i].id
WatchInv ==
  /\ begun \in 1..MaxRuns /\ Ids(runs) \subseteq 1..begun
  /\ Listing(runs) /\ Listing(listed)
  /\ error \in BOOLEAN /\ (error => listed = <<>>)
  /\ seen = InProgress(listed)
  /\ told \in [1..MaxRuns -> {0, 1}]
  /\ \A i \in 1..MaxRuns : told[i] = 1 => i <= begun /\ i \notin InProgress(runs) /\ i \notin seen
  /\ \A i \in watched \ InProgress(listed) : i \in 1..MaxRuns /\ told[i] = 1
=============================================================================
