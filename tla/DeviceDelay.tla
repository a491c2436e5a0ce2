----------------------------- MODULE DeviceDelay -----------------------------
(***************************************************************************)
(* How late a device's logs are, as core/log-delay.js works it out for one *)
(* cluster: the preflight that asks which fields are mapped, the table of  *)
(* devices aggregated with the names it settled on, the close-up of one    *)
(* device, and the report (core/delay-report.js).  The indices roll and    *)
(* the parser changes under a preflight that is kept; what is shown is     *)
(* computed from the documents there are now.                              *)
(***************************************************************************)
EXTENDS Integers, Sequences, FiniteSets, FiniteSetsExt, SequencesExt

CONSTANTS
  Kinds,        \* the documents that come: [device, address, field, delay], as below
  Address,      \* the devices whose name looks like an address (looksLikeIp)
  Limits,       \* [delay, critical, tolerance, veryLong], and how many devices a table has (500)
  EventTime,    \* delayFields.eventTime: the candidates, the preferred one first
  MaxDocs, MaxIndices, MaxAged,
  Newest,       \* how many documents the close-up reads (15)
  None

VARIABLES
  indices,      \* external: the oldest first: is the device also a keyword, and the documents
  past,         \* how many of the documents are older than the hours the table is asked for
  limits,
  pre           \* the entry's preflight; None before one, [unknown] when it was refused

vars == <<indices, past, limits, pre>>

Device == {d.device : d \in Kinds}
Documents ==
  FlattenSeq([i \in DOMAIN indices |->
    [j \in DOMAIN indices[i].docs |-> indices[i].docs[j] @@ [keyword |-> indices[i].keyword]]])

Init == /\ indices \in {<<[keyword |-> k, docs |-> <<>>]>> : k \in BOOLEAN}
        /\ past = 0 /\ limits \in Limits /\ pre = None

-----------------------------------------------------------------------------
(* The cluster. *)

\* A document: whose it is, the address in it, the field that carries its event time, and the
\* minutes between that and its arrival; each of the last three is None if the parser wrote none.
Ship ==
  /\ Len(Documents) < MaxDocs
  /\ \E d \in Kinds : indices' = [indices EXCEPT ![Len(indices)].docs = Append(@, d)]
  /\ UNCHANGED <<past, limits, pre>>

Roll ==
  /\ \/ /\ Len(indices) < MaxIndices
        /\ \E k \in BOOLEAN : indices' = Append(indices, [keyword |-> k, docs |-> <<>>])
        /\ UNCHANGED past
     \/ /\ Len(indices) > 1
        /\ indices' = Tail(indices)
        /\ past' = Max({0, past - Len(indices[1].docs)})
  /\ UNCHANGED <<limits, pre>>

HoursPass ==
  /\ Len(Documents) <= MaxAged
  /\ past' = Len(Documents)
  /\ UNCHANGED <<indices, limits, pre>>

-----------------------------------------------------------------------------
(* The preflight. *)

\* _field_caps lists a name if any index maps it; a document that is indexed maps its fields.
Mapped ==
  UNION {(IF i.docs = <<>> /\ ~i.keyword THEN {} ELSE {"device", "arrival"})
           \cup (IF i.keyword THEN {"device.keyword"} ELSE {})
           \cup ({d.field : d \in Range(i.docs)} \ {None}) : i \in Range(indices)}

\* The device field is a plain name: an address, or one that says .keyword, is asked for as it is.
AggregatableName == "device.keyword"

\* Mutant of DeviceOk: the base name is looked for.
DeviceOkBase == "device" \in Mapped

DeviceOk == AggregatableName \in Mapped
EventOk == SelectSeq(EventTime, LAMBDA f : f \in Mapped)

Decide ==
  [unknown |-> FALSE,
   ok |-> DeviceOk /\ "arrival" \in Mapped /\ EventOk # <<>>,
   missing |-> (IF DeviceOk THEN {} ELSE {AggregatableName}) \cup ({"arrival"} \ Mapped)
                 \cup (IF EventOk = <<>> THEN Range(EventTime) ELSE {}),
   event |-> IF EventOk = <<>> THEN None ELSE EventOk[1],
   was |-> Mapped]

Refused == [unknown |-> TRUE, ok |-> FALSE, missing |-> {}, event |-> None, was |-> {}]

Preflight ==
  /\ pre' \in {Decide, Refused}
  /\ UNCHANGED <<indices, past, limits>>

Next == Ship \/ Roll \/ HoursPass \/ Preflight
Spec == Init /\ [][Next]_vars

-----------------------------------------------------------------------------
(* What a delay means. *)

Classify(n) ==
  IF n = None THEN "ERROR"
  ELSE IF n <= -limits.delay THEN "CLOCK_AHEAD"
  ELSE IF n >= limits.critical THEN "CRITICAL"
  ELSE IF n >= limits.delay THEN "DELAYED" ELSE "OK"

Abs(n) == IF n < 0 THEN -n ELSE n

\* A whole number of hours is a time zone, however long.
Pattern(n) ==
  IF n = None THEN "-"
  ELSE LET hour == (Abs(n) + 30) \div 60
       IN  IF hour >= 1 /\ Abs(Abs(n) - 60 * hour) <= limits.tolerance THEN "timezone"
           ELSE IF Abs(n) >= limits.veryLong THEN "very-long" ELSE "-"

Sum(s) == FoldSeq(+, 0, s)

\* The means of the halves, compared without dividing: a fifth more of the first, or a minute.
Trend(s) ==
  LET mid == Len(s) \div 2
      rest == Len(s) - mid
      first == Sum(SubSeq(s, 1, mid))
      second == Sum(SubSeq(s, mid + 1, Len(s)))
      change == 5 * (second * mid - first * rest)
      base == Max({Abs(first), mid}) * rest
  IN  IF Len(s) < 4 \/ (Abs(first) < mid /\ Abs(second) < rest) THEN "NO_TREND"
      ELSE IF change >= base THEN "WORSENING" ELSE IF change <= -base THEN "IMPROVING" ELSE "NO_TREND"

ReasonFor(status, trend) ==
  <<status, IF status \in {"DELAYED", "CRITICAL"} /\ trend # "NO_TREND" THEN trend ELSE None>>

\* The middle, or what lies between the middle two; in halves of a minute.
Median2(s) ==
  LET a == SortSeq(s, <) IN IF Len(s) % 2 = 1 THEN 2 * a[(Len(s) + 1) \div 2] ELSE a[Len(s) \div 2] + a[Len(s) \div 2 + 1]

-----------------------------------------------------------------------------
(* The table: a bucket for each device, and its newest document. *)

\* Of the hours asked for, where the device can be aggregated.
Searched(d) ==
  SelectSeq(SubSeq(Documents, past + 1, Len(Documents)), LAMBDA x : x.keyword /\ x.device = d)

\* The devices with the most documents; what the others have is only counted.
Heard == {d \in Device : Searched(d) # <<>>}
Buckets ==
  LET first == SetToSortSeq(Heard, LAMBDA a, b : Len(Searched(a)) > Len(Searched(b)))
  IN  {first[i] : i \in 1..Min({limits.devices, Len(first)})}
Truncated == MapThenSumSet(LAMBDA d : Len(Searched(d)), Heard \ Buckets)

Analysable == pre # None /\ pre.ok

\* The one candidate the preflight chose is read; a document that has another is not measured.
Read(x) == IF x.field = pre.event THEN x.delay ELSE None

\* Mutant of RecordFrom: what could not be measured counts as no delay.
RecordFromZero(d) ==
  LET n == IF Read(Last(Searched(d))) = None THEN 0 ELSE Read(Last(Searched(d)))
  IN  [delay |-> n, status |-> Classify(n), pattern |-> Pattern(n), reason |-> ReasonFor(Classify(n), "NO_TREND")]

RecordFrom(d) ==
  LET n == Read(Last(Searched(d)))
  IN  [delay |-> n, status |-> Classify(n), pattern |-> Pattern(n), reason |-> ReasonFor(Classify(n), "NO_TREND")]

Table == [d \in Buckets |-> RecordFrom(d)]

Status == {"CRITICAL", "DELAYED", "CLOCK_AHEAD", "ERROR", "NO_DATA", "OK"}
Rank == [s \in Status |-> CASE s = "CRITICAL" -> 0 [] s = "DELAYED" -> 1 [] s = "CLOCK_AHEAD" -> 2
                            [] s = "ERROR" -> 3 [] s = "NO_DATA" -> 4 [] OTHER -> 5]

\* The rows of the table and of the report.
Rows ==
  LET t == Table
  IN  SetToSortSeq(DOMAIN t, LAMBDA a, b :
        \/ Rank[t[a].status] < Rank[t[b].status]
        \/ t[a].status = t[b].status /\ t[b].delay # None /\ t[a].delay # None /\ t[a].delay > t[b].delay)

\* Only the unhealthy, when that is asked for: a device that could not be measured is not.
Listed(only) == SelectSeq(Rows, LAMBDA d : ~only \/ RecordFrom(d).status \in {"CRITICAL", "DELAYED", "CLOCK_AHEAD"})

Summarise ==
  LET t == Table
      measured == {d \in DOMAIN t : t[d].delay # None}
      order == SetToSeq(measured)
  IN  [by |-> [s \in Status |-> Cardinality({d \in DOMAIN t : t[d].status = s})],
       worst |-> IF measured = {} THEN None ELSE Max({t[d].delay : d \in measured}),
       median2 |-> IF measured = {} THEN None ELSE Median2([i \in DOMAIN order |-> t[order[i]].delay])]

-----------------------------------------------------------------------------
(* The close-up. *)

\* Of any hour.  An address is looked up in the fields of addresses; a name in the device's
\* and its keyword: where there is only text, it may be found in words.
Matched(d, words) ==
  SelectSeq(Documents, LAMBDA x : IF d \in Address THEN x.address = d ELSE x.device = d /\ (x.keyword \/ words))

\* Mutant of DocumentDelays: as they arrived.
DocumentDelaysOldest(d, words) ==
  LET s == Matched(d, words) IN [i \in 1..Min({Newest, Len(s)}) |-> Read(s[i])]

\* The newest first.
DocumentDelays(d, words) ==
  LET s == Reverse(Matched(d, words)) IN [i \in 1..Min({Newest, Len(s)}) |-> Read(s[i])]

DeviceSnapshot(d, words) ==
  LET docs == DocumentDelays(d, words)
      values == SelectSeq(docs, LAMBDA n : n # None)
  IN  [unreadable |-> Len(docs) - Len(values),
       status |-> Classify(IF values = <<>> THEN None ELSE values[1]),
       trend |-> Trend(Reverse(values)),
       median2 |-> IF values = <<>> THEN None ELSE Median2(values)]

-----------------------------------------------------------------------------
(***************************************************************************)
(* The table says nothing that was not measured.  One that is empty comes  *)
(* from indices whose device field can be aggregated, as far as the check  *)
(* could see; a cluster that cannot be analysed names what it lacks, and   *)
(* only that; a device is in order, or late, only if a document of it said *)
(* so, and what could not be read is neither; a device that was heard in   *)
(* those hours is in it, unless it says that it is not all of them; and no *)
(* device that is not in order stands below one that is.                   *)
(***************************************************************************)
TableIsHonest ==
  LET table == Table
      rows == Rows
      by == Summarise.by
  IN  /\ pre # None /\ ~pre.unknown /\ ~pre.ok => pre.missing # {} /\ pre.missing \cap pre.was = {}
      /\ Analysable =>
           /\ DOMAIN table = {} => "device.keyword" \in pre.was
           /\ Truncated = 0 =>
                \A i \in past + 1..Len(Documents) : Documents[i].keyword => Documents[i].device \in DOMAIN table
           /\ \A d \in DOMAIN table :
                LET told == {x.delay : x \in {y \in Range(Searched(d)) : y.field = pre.event}}
                IN  /\ table[d].status = "OK" => \E n \in told : Abs(n) < limits.delay
                    /\ table[d].status \in {"DELAYED", "CRITICAL"} => \E n \in told : n >= Min({limits.delay, limits.critical})
                    /\ told = {} => table[d].status = "ERROR"
           /\ \A i, j \in DOMAIN rows : i < j /\ table[rows[i]].status = "OK" => table[rows[j]].status = "OK"
           /\ \A d \in DOMAIN table : table[d].status \notin {"OK", "ERROR"} => d \in Range(Listed(TRUE))
           /\ Len(rows) = MapThenSumSet(LAMBDA s : by[s], Status)

(***************************************************************************)
(* The close-up does not contradict the table.  Where both read the same   *)
(* documents - every index can be aggregated, and an address is in the     *)
(* fields of addresses of its own documents and of no others - a device    *)
(* that the table could measure has the same status in both; and one that  *)
(* goes by its name is never empty in the close-up of a row of the table.  *)
(* A device whose delay has only grown is never said to be improving, nor  *)
(* one whose delay has only shrunk to get worse.                           *)
(***************************************************************************)
CloseUpAgrees ==
  Analysable =>
    LET table == Table
        documents == Documents
    IN  \A d \in Device, words \in BOOLEAN :
          LET shot == DeviceSnapshot(d, words)
              found == Matched(d, words)
              told == SelectSeq([i \in DOMAIN found |-> Read(found[i])], LAMBDA n : n # None)
              last == SubSeq(told, Max({1, Len(told) - Newest + 1}), Len(told))
              same == \A x \in Range(documents) : x.keyword /\ (d \in Address => (x.device = d <=> x.address = d))
          IN  /\ d \in DOMAIN table =>
                   /\ same => table[d].status \in {"ERROR", shot.status}
                   /\ d \notin Address \/ same => found # <<>>
              /\ (\A i \in DOMAIN last : last[i] >= 0) =>
                   /\ (\A i \in 2..Len(last) : last[i - 1] <= last[i]) => shot.trend # "IMPROVING"
                   /\ (\A i \in 2..Len(last) : last[i - 1] >= last[i]) => shot.trend # "WORSENING"
=============================================================================
