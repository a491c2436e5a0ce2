------------------------------- MODULE Archive -------------------------------
(***************************************************************************)
(* ULM, the archive view of pages/logs.js: a pull lists both copies of a   *)
(* tag's logs in S3, page by page, and what it finds is compared with the  *)
(* days the cluster holds; the difference is published as alerts.          *)
(***************************************************************************)
EXTENDS Naturals

CONSTANTS
  LastDay,      \* days are 1..LastDay, and the last of them is today
  None

VARIABLES
  bucket,       \* external: the days stored, in each copy
  held,         \* the days of the cluster's daily indices, as last listed
  pull,         \* the pull under way: the copy it lists next, what came, what went wrong, and
                \* (history) what each copy stored all through; None
  shown,        \* ulmState.at: the last pull's table is drawn
  findings,     \* state.js: archiveFindings
  everyDay,     \* the saved schedule: days since the last pull; None
  stored        \* history: the days that some copy stored all through the last pull

vars == <<bucket, held, pull, shown, findings, everyDay, stored>>

Day == 1..LastDay
Copy == {"raw", "enriched"}
Archived(b) == b["raw"] \cup b["enriched"]

Init ==
  /\ bucket \in [Copy -> SUBSET Day] /\ held \in SUBSET Day
  /\ pull = None
  /\ shown = FALSE
  /\ findings = {} /\ everyDay = None
  /\ stored = {}

Started ==
  /\ pull = None
  /\ pull' = [copy |-> "raw", days |-> [k \in Copy |-> {}], error |-> FALSE,
               stored |-> bucket]
  /\ UNCHANGED <<bucket, held, shown, findings, stored>>

\* Pull Now; only one at a time.
UlmPull == Started /\ UNCHANGED everyDay

\* maybeScheduledPull, when the view is drawn a day after the last.
ScheduledPull == everyDay # None /\ everyDay > 0 /\ Started /\ everyDay' = 0

\* Mutant of MissingArchive: every day that is not in the listing is missing.
MissingArchiveAll(b) == {d \in held : d < LastDay /\ d \notin Archived(b)}

\* missingArchive: today is not judged; of the days the pull covered, if it covered any.
MissingArchive(b) ==
  LET pulled == Archived(b)       \* "derived from what came back"
  IN  {d \in held : d < LastDay /\ (pulled = {} \/ d \in pulled) /\ d \notin Archived(b)}

\* One copy listed: whole, up to the page cap, or up to a page that failed.
Listed(days, error, truncated) ==
  /\ pull # None
  /\ days \subseteq bucket[pull.copy]
  /\ ~error /\ ~truncated => days = bucket[pull.copy]
  /\ ~error /\ truncated => days # {}    \* the cap is 25 pages of 1000 objects
  /\ LET now == [pull EXCEPT !.days = [@ EXCEPT ![pull.copy] = days],
                             !.error = @ \/ error]
     IN  IF pull.copy = "raw"
         THEN /\ pull' = [now EXCEPT !.copy = "enriched"]
              /\ UNCHANGED <<shown, findings, stored>>
         ELSE /\ pull' = None
              /\ findings' = MissingArchive(now.days)
              /\ shown' = ~(now.error /\ Archived(now.days) = {})
              /\ stored' = Archived(now.stored)
  /\ UNCHANGED <<bucket, held, everyDay>>

\* A day is archived, or the bucket's own expiry takes one.
Bucket(k, d) ==
  /\ bucket' = [bucket EXCEPT ![k] = IF d \in @ THEN @ \ {d} ELSE @ \cup {d}]
  /\ pull' = IF pull = None THEN None
             ELSE [pull EXCEPT !.stored = [c \in Copy |-> pull.stored[c] \cap bucket'[c]]]
  /\ UNCHANGED <<held, shown, findings, everyDay, stored>>

\* indexDaysFor: the index list is read again.
Indices(d) ==
  /\ held' = IF d \in held THEN held \ {d} ELSE held \cup {d}
  /\ UNCHANGED <<bucket, pull, shown, findings, everyDay, stored>>

UlmSchedule ==
  /\ everyDay' = IF everyDay = None THEN 1 ELSE None
  /\ UNCHANGED <<bucket, held, pull, shown, findings, stored>>

DayPasses ==
  /\ everyDay = 0 /\ everyDay' = 1
  /\ UNCHANGED <<bucket, held, pull, shown, findings, stored>>

Next ==
  \/ UlmPull \/ ScheduledPull \/ UlmSchedule \/ DayPasses
  \/ \E days \in SUBSET Day, error, truncated \in BOOLEAN : Listed(days, error, truncated)
  \/ \E k \in Copy, d \in Day : Bucket(k, d)
  \/ \E d \in Day : Indices(d)

Spec == Init /\ [][Next]_vars

\* ulmView: the table of the last pull, unless there was none or it had nothing to show.
Screen == IF pull = None /\ ~shown THEN "nothing pulled" ELSE "table"

-----------------------------------------------------------------------------
(***************************************************************************)
(* "Not archived" is never said of a day that was stored in either copy    *)
(* all through the pull, though the listing may stop at its page cap or    *)
(* lose one copy; the one exception is a pull that failed and returned     *)
(* nothing, whose findings are published before the page decides not to    *)
(* draw them.                                                              *)
(***************************************************************************)
MissingMeansMissing ==
  \A d \in findings : pull # None \/ Screen = "nothing pulled" \/ d \notin stored

\* Inductive (ConsoleProofs): what was stored all through is in the bucket; and a copy that was
\* listed without an error and came back empty was empty.
Pull == [copy : Copy, days : [Copy -> SUBSET Day], error : BOOLEAN, stored : [Copy -> SUBSET Day]]

PullInv ==
  /\ bucket \in [Copy -> SUBSET Day]
  /\ pull \in Pull \cup {None}
  /\ pull # None =>
       /\ \A k \in Copy : pull.stored[k] \subseteq bucket[k]
       /\ pull.copy = "enriched" /\ ~pull.error /\ pull.days["raw"] = {} => pull.stored["raw"] = {}
=============================================================================
