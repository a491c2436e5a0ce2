-------------------------------- MODULE Volume -------------------------------
(***************************************************************************)
(* The capacity report of one cluster (core/volume.js, pages/volume.js):   *)
(* what a day of logs weighs, whether the disk and the repository hold     *)
(* what the retention asks for, and how large the repository is, measured  *)
(* a snapshot at a time; and the terms of a field that have just jumped    *)
(* (core/field-volume.js).  Sizes in GB; a day is a number.                *)
(***************************************************************************)
EXTENDS Integers, FiniteSets

CONSTANTS
  LastDay,      \* bound: the last day there is
  Sizes,        \* what a day's indices can weigh, a snapshot add, and a term occur in a day
  Windows,      \* settings: [windowDays, topDays, headroomPercent], as the file has them
  Policies,     \* what a retention can say: <<number, unit>> or None
  Capacity,     \* and a size: the config's backupCapacity
  DiskTotal,    \* of the disk, once the cluster has told
  Cap,          \* 60: how many snapshots of a repository are measured
  None

VARIABLES
  about,        \* bound: what this behaviour is about; the topics share no state
  today,
  bytes,        \* state.indices: what the dated indices of a day weigh, None: there are none
  settings, stated, \* the config: the window; liveRetention and snapshotRetention
  applied,      \* data.appliedIlm's deleteAfter and data.appliedSlm's expireAfter; and the first
                \* expiry that any policy of data.slm states
  disk,         \* data.disk.total; 0 before it is known
  snaps,        \* the snapshots listed, by their day: how much each added, None if it cannot be read
  measuring,    \* measureRepos at work: [listed, todo, total]; None
  repo,         \* repoBytes: what was measured
  spoken,       \* history: what the snapshots listed when that measurement began add up to
  analysis      \* fieldVolumeFor: a term's documents of each day, and the day it was read

vars == <<about, today, bytes, settings, stated, applied, disk, snaps, measuring, repo, spoken, analysis>>
fixed == <<about, settings, stated>>
figures == <<bytes, applied, disk>>
backups == <<snaps, measuring, repo, spoken>>

Day == 1..LastDay
Store == {"live", "backup"}
Applied == Store \cup {"listed"}

Init ==
  /\ about \in Store \cup {"repository", "term"}
  /\ today = 2 /\ bytes = [d \in Day |-> None] /\ settings \in Windows
  /\ stated = [s \in Store |-> None] /\ applied = [s \in Applied |-> None] /\ disk = 0 /\ snaps = <<>>
  /\ measuring = None /\ repo = None /\ spoken = None /\ analysis = None

-----------------------------------------------------------------------------
Tomorrow ==
  /\ about # "repository" /\ today < LastDay /\ today' = today + 1
  /\ UNCHANGED <<fixed, figures, backups, analysis>>

\* A refresh, or the page's own reading of the indices: a day's indices, or the cluster's own.
Read ==
  /\ about \in Store
  /\ \/ /\ \E d \in 1..today, b \in Sizes : bytes' = [bytes EXCEPT ![d] = b]
        /\ UNCHANGED <<applied, disk>>
     \/ /\ \E p, q \in Policies :
             applied' = [applied EXCEPT ![about] = p, !["listed"] = IF about = "backup" THEN q ELSE @]
        /\ disk' \in {disk, DiskTotal} /\ UNCHANGED bytes
  /\ UNCHANGED <<fixed, today, backups, analysis>>

\* Another config: the indices and the analyses go, what was measured stays.
Reload ==
  /\ about # "repository" /\ analysis' = None
  /\ IF about = "term" THEN UNCHANGED <<settings, stated, bytes>>
     ELSE settings' \in Windows /\ \E p \in Policies : stated' = [stated EXCEPT ![about] = p]
          /\ bytes' = [d \in Day |-> None]
  /\ UNCHANGED <<about, today, applied, disk, backups>>

\* The listing is read again, while a measurement goes through the one it began with.
List ==
  /\ about = "repository" /\ \E S \in SUBSET (1..today) : snaps' \in [S -> Sizes]
  /\ UNCHANGED <<fixed, today, figures, measuring, repo, spoken, analysis>>

Total(g) == LET upTo[d \in 0..LastDay] == IF d = 0 THEN 0 ELSE upTo[d - 1] + g[d] IN upTo[LastDay]

\* What f says of the days in S; None adds nothing.
Sum(f, S) == Total([d \in Day |-> IF d \in S /\ f[d] # None THEN f[d] ELSE 0])

\* The n newest of a set of days.
Newest(S, n) == {d \in S : Cardinality({e \in S : e > d}) < n}

Measure ==
  /\ about = "repository" /\ measuring = None
  /\ measuring' = [listed |-> snaps, todo |-> Newest(DOMAIN snaps, Cap), total |-> 0]
  /\ UNCHANGED <<fixed, today, figures, snaps, repo, spoken, analysis>>

\* One that cannot be read adds nothing.
MeasureOne ==
  /\ measuring # None
  /\ \E d \in measuring.todo : \E n \in {measuring.listed[d], 0} \ {None} :
       measuring' = [listed |-> measuring.listed, todo |-> measuring.todo \ {d}, total |-> measuring.total + n]
  /\ UNCHANGED <<fixed, today, figures, snaps, repo, spoken, analysis>>

Measured ==
  /\ measuring # None /\ measuring.todo = {}
  /\ repo' = measuring.total /\ spoken' = Sum(measuring.listed, DOMAIN measuring.listed)
  /\ measuring' = None
  /\ UNCHANGED <<fixed, today, figures, snaps, analysis>>

-----------------------------------------------------------------------------
(* The figures. *)

\* parseRetention, in hours: what it cannot read is nothing said.
Hours(v) ==
  IF v = None \/ v[2] \notin {"h", "d", "w", "m", "y"} THEN None
  ELSE v[1] * (CASE v[2] = "h" -> 1 [] v[2] = "w" -> 168 [] v[2] = "m" -> 720 [] v[2] = "y" -> 8760 [] OTHER -> 24)

\* parseSize, in GB.
Size(v) == IF v = None \/ v[1] = 0 THEN None ELSE v[1] * (IF v[2] = "tb" THEN 1024 ELSE 1)

\* volumeSettings.
AtLeast(low, n) == IF n < low THEN low ELSE n

WindowDays == AtLeast(1, settings.windowDays)
TopDays == IF AtLeast(1, settings.topDays) < WindowDays THEN AtLeast(1, settings.topDays) ELSE WindowDays
Headroom == AtLeast(0, settings.headroomPercent)

Window == Newest({d \in Day : d < today /\ bytes[d] # None}, WindowDays)

\* Mutant of Heaviest: the newest of the window.
HeaviestNewest == Newest(Window, TopDays)

\* The days of the window by what they weigh, the newer of two first.
Before(e, d) == bytes[e] > bytes[d] \/ (bytes[e] = bytes[d] /\ e > d)
Heaviest == {d \in Window : Cardinality({e \in Window : Before(e, d)}) < TopDays}

\* A mean of days, as a fraction: nothing is rounded before it is shown.
Mean(S) == IF S = {} THEN [sum |-> 0, over |-> 1] ELSE [sum |-> Sum(bytes, S), over |-> Cardinality(S)]
PerDay == Mean(Heaviest)

\* What the config states, else what the cluster does; for a backup, by whichever of its policies.
Retention(s) ==
  IF Hours(stated[s]) # None THEN Hours(stated[s])
  ELSE IF s = "live" \/ Hours(applied[s]) # None THEN Hours(applied[s]) ELSE Hours(applied["listed"])

\* 0: not known.
Room(s) == IF s = "live" THEN disk ELSE IF Size(Capacity) = None THEN 0 ELSE Size(Capacity)

\* A backup without a policy is held against a year.
Asked(s) == IF s = "backup" /\ Retention(s) = None THEN 365 * 24 ELSE Retention(s)

\* bufferedGB * days: with the headroom, in hundredths, and a day of 24 hours.
Needed(s) == [sum |-> PerDay.sum * (100 + Headroom) * Asked(s), over |-> PerDay.over * 100 * 24]

Met(s) ==
  IF Room(s) = 0 \/ Asked(s) = None THEN "unknown"
  ELSE IF Room(s) * Needed(s).over >= Needed(s).sum THEN "YES" ELSE "NO"

PolicyMatches(s) ==
  IF Hours(stated[s]) = None \/ Hours(applied[s]) = None THEN "unknown"
  ELSE IF Hours(stated[s]) = Hours(applied[s]) THEN "YES" ELSE "NO"

-----------------------------------------------------------------------------
(* A term of a field. *)

\* A term's buckets reach from the first day it occurred on to the last.
Analyse ==
  /\ about = "term"
  /\ \E first \in 1..2, last \in {today - 1, today} :
       /\ first <= last
       /\ \E docs \in [first..last -> Sizes \ {None}] : analysis' = [at |-> today, docs |-> docs]
  /\ UNCHANGED <<fixed, today, figures, backups>>

\* Mutant of Complete: to the last bucket there is.
CompleteAll == DOMAIN analysis.docs

Complete == {d \in DOMAIN analysis.docs : d < analysis.at}
Latest == CHOOSE d \in Complete : \A e \in Complete : e <= d
Baseline == Newest(Complete \ {Latest}, 7)

\* More than 1.4 times the mean of the seven days before it.
Spiked ==
  /\ analysis # None /\ Cardinality(Complete) >= 2
  /\ LET sum == Sum(analysis.docs, Baseline)
     IN  sum > 0 /\ analysis.docs[Latest] * Cardinality(Baseline) * 10 > sum * 14

Next == Tomorrow \/ Read \/ Reload \/ List \/ Measure \/ MeasureOne \/ Measured \/ Analyse
Spec == Init /\ [][Next]_vars

-----------------------------------------------------------------------------
(***************************************************************************)
(* The figures are on the safe side.  What a day weighs is never less than *)
(* the plain mean of the window, and never more than some day in it; a     *)
(* verdict is only given on what was stated, read or known, room that is   *)
(* enough holds any days seen of as many as the policy keeps, provided it  *)
(* keeps as many as were averaged, and a cluster that does as the config   *)
(* says is judged the same without it; a repository is never said to hold  *)
(* more than its snapshots were told to hold; and a term that has jumped   *)
(* was rarer on some day before, today never counting.                     *)
(***************************************************************************)
FiguresAreSafe ==
  /\ PerDay.sum * Mean(Window).over >= Mean(Window).sum * PerDay.over
  /\ Window # {} => \E d \in Window : PerDay.sum <= bytes[d] * PerDay.over
  /\ Met("live") # "unknown" => disk = DiskTotal /\ (Hours(stated["live"]) # None \/ Hours(applied["live"]) # None)
  /\ \A s \in Store :
       /\ Met(s) = "YES" /\ Cardinality(Heaviest) * 24 <= Asked(s) =>
            \A S \in SUBSET Window : Cardinality(S) * 24 <= Asked(s) => Sum(bytes, S) <= Room(s)
       /\ PolicyMatches(s) = "YES" => Retention(s) = Hours(applied[s])
  /\ repo # None => repo <= spoken
  /\ Spiked => Latest < analysis.at /\ \E d \in DOMAIN analysis.docs : d < Latest /\ analysis.docs[d] < analysis.docs[Latest]

-----------------------------------------------------------------------------
\* The invariant behind it (proved in ConsoleProofs): every figure is one, what is left to measure
\* and what was measured are together no more than what the list holds, and the total shown is no
\* more than what the snapshots were told to hold.
Listing(l) == DOMAIN l \subseteq Day /\ \A d \in DOMAIN l : l[d] \in Nat \cup {None}

MeasuringInv ==
  measuring # None =>
    /\ Listing(measuring.listed) /\ measuring.todo \subseteq DOMAIN measuring.listed
    /\ measuring.total \in Nat
    /\ measuring.total + Sum(measuring.listed, measuring.todo) <= Sum(measuring.listed, DOMAIN measuring.listed)

VolumeTypes ==
  /\ today \in Day /\ bytes \in [Day -> Nat \cup {None}] /\ settings \in Windows
  /\ stated \in [Store -> Policies \cup {None}] /\ applied \in [Applied -> Policies \cup {None}]
  /\ disk \in {0, DiskTotal} /\ Listing(snaps)
  /\ analysis # None => Listing(analysis.docs) /\ \A d \in DOMAIN analysis.docs : analysis.docs[d] # None

VolumeInv == VolumeTypes /\ MeasuringInv /\ (repo # None => repo <= spoken)
=============================================================================
