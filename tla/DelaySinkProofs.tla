--------------------------- MODULE DelaySinkProofs ---------------------------
(***************************************************************************)
(* Proofs about DelaySink, for a day of any length, any number of          *)
(* doublings, any intervals, runs of any length, and any number of         *)
(* DELAY_SINK_SET messages: the types, and the three safety properties.    *)
(***************************************************************************)
EXTENDS DelaySink, TLAPS

\* Nobody has run for less time than the timer last had reason to begin.
QuietSinceBegun == \A who \in DOMAIN runs : history.quiet <= runs[who].age

\* The hours that are left, if a due time is set.
Ahead == IF due = None THEN 0 ELSE due

\* While the timer is free, what is past and what is ahead are a day and a run's time at most.
QuietEnds ==
  config.enabled /\ "timer" \notin DOMAIN runs => history.quiet + Ahead <= Day + MaxAge

\* If no run was in progress when the settings were put in force, the runs there are began
\* since, with them; and what is past since then and what is ahead make an interval.
SinceSet ==
  history.set # None /\ ~history.inFlight =>
    /\ \A who \in DOMAIN runs : runs[who].every = config.every /\ runs[who].age <= history.set
    /\ config.enabled => due # None
    /\ due # None => history.set + due >= config.every

\* With one message at a time, what is in the file once it is written is what will be in force.
FileIsSet ==
  history.saved = "yes" =>
    /\ \A s, t \in Setting : s = t
    /\ \A s \in Setting : setter[s].pc = "memory" => file = setter[s].config

SinkInv ==
  /\ TypeOK
  /\ QuietSinceBegun /\ QuietEnds /\ SinceSet
  /\ RestartKeepsTheSettings /\ FileIsSet

-----------------------------------------------------------------------------
LEMMA IntervalType == \A every \in Intervals : every \in Nat /\ every \in 1..Day
  BY SinkAssumption

LEMMA DisarmedType == Disarmed \in Config /\ ~Disarmed.enabled
  BY SinkAssumption DEF Disarmed, Config

\* The next due time is between one interval and a day away.
LEMMA NextDueBounds ==
  ASSUME NEW every \in Intervals, NEW failed \in 0..Doublings
  PROVE  NextDue(every, failed) \in every..Day
  <1>1. UpTo(failed, Doublings) \in 0..Doublings
    BY SinkAssumption DEF UpTo, Least
  <1>2. PICK f \in Nat \ {0} : f = 2^UpTo(failed, Doublings)
    BY <1>1, PowerAssumption
  <1>3. every \in 1..Day /\ Day \in Nat
    BY SinkAssumption
  <1>4. every * f \in Nat /\ every * f >= every
    BY <1>2, <1>3, SMT
  <1>5. NextDue(every, failed) = IF every * f < Day THEN every * f ELSE Day
    BY <1>2 DEF NextDue, UpTo, Least
  <1> QED
    BY <1>3, <1>4, <1>5

\* What the properties remember, part by part.
LEMMA HistoryIs ==
  ASSUME TypeOK
  PROVE  /\ history.quiet \in 0..Limit
         /\ history.set # None => history.set \in 0..Limit
         /\ history.inFlight \in BOOLEAN
         /\ history.saved \in {"yes", "overlap", "failed"}
         /\ Limit \in Nat /\ Limit = Day + MaxAge + 1
  BY SinkAssumption DEF TypeOK, History, Limit

LEMMA HistoryOf ==
  ASSUME TypeOK, NEW q \in 0..Limit, NEW t \in (0..Limit) \cup {None}, NEW f \in BOOLEAN,
         NEW h \in {"yes", "overlap", "failed"},
         history' = [history EXCEPT !.quiet = q, !.set = t, !.inFlight = f, !.saved = h]
  PROVE  /\ history' \in History
         /\ history'.quiet = q /\ history'.set = t /\ history'.inFlight = f /\ history'.saved = h
  BY DEF TypeOK, History

LEMMA InitSinkInv == Init => SinkInv
  <1> SUFFICES ASSUME Init PROVE SinkInv
    OBVIOUS
  <1>1. TypeOK
    BY SinkAssumption, DisarmedType DEF Init, TypeOK, Config, History, Limit, Who, Run
  <1>2. QuietSinceBegun /\ QuietEnds /\ SinceSet
    BY SinkAssumption DEF Init, QuietSinceBegun, QuietEnds, SinceSet, Ahead
  <1>3. RestartKeepsTheSettings /\ FileIsSet
    BY DEF Init, RestartKeepsTheSettings, FileIsSet, Loaded, Setting
  <1> QED
    BY <1>1, <1>2, <1>3 DEF SinkInv

-----------------------------------------------------------------------------
\* A run begins, with the settings of now.
LEMMA BeginStep ==
  ASSUME SinkInv, NEW who \in Who, Begin(who)
  PROVE  SinkInv'
  <1> USE SinkAssumption DEF SinkInv
  <1>1. /\ DOMAIN runs' = DOMAIN runs \cup {who}
        /\ runs'[who] = [every |-> config.every, age |-> 0]
        /\ \A w \in DOMAIN runs \ {who} : runs'[w] = runs[w]
        /\ history' = [history EXCEPT !.quiet = 0]
        /\ UNCHANGED <<config, file, due, failures, setter>>
    BY DEF Begin, Attempt, Remember
  <1>2. /\ history'.quiet = 0 /\ history'.set = history.set
        /\ history'.inFlight = history.inFlight /\ history'.saved = history.saved
    BY <1>1 DEF TypeOK, History
  <1>3. TypeOK'
    BY <1>1 DEF TypeOK, History, Run, Config, Who, Limit
  <1>4. QuietSinceBegun'
    BY <1>1, <1>2 DEF QuietSinceBegun, TypeOK, Run
  <1>5. QuietEnds'
    BY <1>1, <1>2 DEF QuietEnds, Ahead, TypeOK
  <1>6. SinceSet'
    BY <1>1, <1>2 DEF SinceSet, TypeOK, History
  <1>7. RestartKeepsTheSettings' /\ FileIsSet'
    BY <1>1, <1>2 DEF RestartKeepsTheSettings, FileIsSet, Loaded, Setting
  <1> QED
    BY <1>3, <1>4, <1>5, <1>6, <1>7

\* A run ends and writes a due time that is an interval to a day after its beginning.
LEMMA EndStep ==
  ASSUME SinkInv, NEW who \in DOMAIN runs, End(who),
         NEW next \in runs[who].every..Day, due' = Left(next, runs[who].age),
         failures' \in 0..Doublings, UNCHANGED <<config, file, setter, history>>
  PROVE  SinkInv'
  <1> USE SinkAssumption DEF SinkInv
  <1>1. /\ DOMAIN runs' = DOMAIN runs \ {who}
        /\ \A w \in DOMAIN runs' : runs'[w] = runs[w]
    BY DEF End
  <1>2. /\ runs[who].age \in 0..MaxAge /\ runs[who].every \in 1..Day
        /\ history.quiet <= runs[who].age /\ history.quiet \in Nat
    <2>1. runs[who] \in Run
      BY DEF TypeOK
    <2>2. history.quiet \in Nat
      BY HistoryIs
    <2> QED
      BY <2>1, <2>2 DEF Run, QuietSinceBegun
  <1>3. /\ due' \in 0..Day /\ due' # None /\ Ahead' = due'
        /\ due' + runs[who].age >= runs[who].every
        /\ history.quiet + due' <= Day + MaxAge
    BY <1>2 DEF Left, Ahead
  <1>4. TypeOK'
    BY <1>1, <1>3 DEF TypeOK
  <1>5. QuietSinceBegun' /\ QuietEnds'
    BY <1>1, <1>3 DEF QuietSinceBegun, QuietEnds
  <1>6. SinceSet'
    <2> SUFFICES ASSUME history.set # None, ~history.inFlight PROVE SinceSet'
      BY DEF SinceSet
    <2>1. /\ runs[who].every = config.every
          /\ runs[who].age <= history.set /\ history.set \in Nat
      BY DEF SinceSet, TypeOK, History, Limit
    <2>2. history.set + due' >= config.every
      BY <1>2, <1>3, <2>1
    <2> QED
      BY <1>1, <1>3, <2>2 DEF SinceSet
  <1>7. RestartKeepsTheSettings' /\ FileIsSet'
    BY DEF RestartKeepsTheSettings, FileIsSet, Loaded, Setting
  <1> QED
    BY <1>4, <1>5, <1>6, <1>7

LEMMA FinishStep == ASSUME SinkInv, Finish PROVE SinkInv'
  <1> USE SinkAssumption
  <1>1. ASSUME NEW who \in Who, Refused(who) PROVE SinkInv'
    <2>1. /\ who \in DOMAIN runs /\ runs[who].age = 0 /\ runs[who].every \in Intervals
          /\ failures \in 0..Doublings
      BY <1>1 DEF Refused, SinkInv, TypeOK, Run
    <2>2. NextDue(runs[who].every, 0) \in runs[who].every..Day
      <3>1. 0 \in 0..Doublings
        OBVIOUS
      <3> QED
        BY <2>1, <3>1, NextDueBounds, Zenon
    <2>3. due' = Left(NextDue(runs[who].every, 0), runs[who].age)
      <3>1. NextDue(runs[who].every, 0) \in Nat /\ NextDue(runs[who].every, 0) > 0
        <4>1. runs[who].every \in 1..Day
          BY <2>1
        <4> QED
          BY <2>2, <4>1
      <3>2. due' = NextDue(runs[who].every, 0)
        BY <1>1 DEF Refused
      <3> QED
        BY <2>1, <3>1, <3>2 DEF Left
    <2> QED
      BY <1>1, <2>1, <2>2, <2>3, EndStep DEF Refused
  <1>2. ASSUME NEW who \in Who, NEW ok \in BOOLEAN, Done(who, ok) PROVE SinkInv'
    <2> DEFINE failed == IF ok THEN 0 ELSE UpTo(failures + 1, Doublings)
    <2>1. /\ who \in DOMAIN runs /\ runs[who].every \in Intervals
          /\ failed \in 0..Doublings
      BY <1>2 DEF Done, SinkInv, TypeOK, Run, UpTo, Least
    <2>2. NextDue(runs[who].every, failed) \in runs[who].every..Day
      BY <2>1, NextDueBounds
    <2>3. /\ due' = Left(NextDue(runs[who].every, failed), runs[who].age)
          /\ failures' = failed /\ End(who) /\ UNCHANGED <<config, file, setter, history>>
      BY <1>2 DEF Done
    <2> HIDE DEF failed
    <2> QED
      BY <2>1, <2>2, <2>3, EndStep
  <1> QED
    BY <1>1, <1>2 DEF Finish

-----------------------------------------------------------------------------
\* A SET writes its file: nothing of the timer's changes.
LEMMA FileStep ==
  ASSUME SinkInv, UNCHANGED <<config, due, runs>>,
         \E how \in {"yes", "overlap", "failed"} : history' = [history EXCEPT !.saved = how]
  PROVE  QuietSinceBegun' /\ QuietEnds' /\ SinceSet' /\ history' \in History
  <1>1. /\ history'.quiet = history.quiet /\ history'.set = history.set
        /\ history'.inFlight = history.inFlight /\ history' \in History
    BY DEF SinkInv, TypeOK, History
  <1> QED
    BY <1>1 DEF SinkInv, QuietSinceBegun, QuietEnds, SinceSet, Ahead

LEMMA SetStep == ASSUME SinkInv, NEW s \in Setters, Set(s) PROVE SinkInv'
  <1> USE SinkAssumption DEF SinkInv
  <1> DEFINE Held == [pc : {"idle", "torn", "memory"}, config : Config]
  <1>0. setter \in [Setters -> Held]
    BY DEF TypeOK
  <1>1. ASSUME NEW c \in Config, SetTruncate(s, c) PROVE SinkInv'
    <2>1. setter' = [setter EXCEPT ![s] = [pc |-> "torn", config |-> c]] /\ file' = Torn
      BY <1>1 DEF SetTruncate
    <2>2. history'.saved = IF Setting = {} THEN "yes" ELSE "overlap"
      BY <1>1 DEF SetTruncate, Remember, TypeOK, History
    <2>3. QuietSinceBegun' /\ QuietEnds' /\ SinceSet' /\ history' \in History
      BY <1>1, FileStep DEF SetTruncate, Remember
    <2>4. TypeOK'
      BY <1>0, <1>1, <2>1, <2>3 DEF SetTruncate, TypeOK
    <2>5. Setting' = Setting \cup {s} /\ setter'[s].pc = "torn"
      BY <1>0, <2>1 DEF Setting
    <2>6. RestartKeepsTheSettings' /\ FileIsSet'
      BY <2>2, <2>5 DEF RestartKeepsTheSettings, FileIsSet
    <2> QED
      BY <2>3, <2>4, <2>6
  <1>2. CASE SetWrite(s)
    <2>1. /\ setter[s].pc = "torn" /\ file' = setter[s].config
          /\ setter' = [setter EXCEPT ![s].pc = "memory"]
          /\ UNCHANGED <<config, due, failures, runs, history>>
      BY <1>2 DEF SetWrite
    <2>2. TypeOK'
      BY <1>0, <2>1 DEF TypeOK
    <2>3. /\ Setting' = Setting /\ s \in Setting
          /\ setter'[s].pc = "memory" /\ setter'[s].config = setter[s].config
      BY <1>0, <2>1 DEF Setting
    <2>4. RestartKeepsTheSettings' /\ FileIsSet'
      BY <2>1, <2>3 DEF RestartKeepsTheSettings, FileIsSet
    <2>5. QuietSinceBegun' /\ QuietEnds' /\ SinceSet'
      BY <2>1 DEF QuietSinceBegun, QuietEnds, SinceSet, Ahead
    <2> QED
      BY <2>2, <2>4, <2>5
  <1>3. CASE SetFails(s)
    <2>1. QuietSinceBegun' /\ QuietEnds' /\ SinceSet' /\ history' \in History
      BY <1>3, FileStep DEF SetFails, Remember
    <2>2. TypeOK'
      BY <1>0, <1>3, <2>1, DisarmedType DEF SetFails, TypeOK
    <2>3. history'.saved = "failed"
      BY <1>3 DEF SetFails, Remember, TypeOK, History
    <2>4. RestartKeepsTheSettings' /\ FileIsSet'
      BY <2>3 DEF RestartKeepsTheSettings, FileIsSet
    <2> QED
      BY <2>1, <2>2, <2>4
  <1>4. CASE SetMemory(s)
    <2> DEFINE c == setter[s].config
    <2>1. /\ setter[s].pc = "memory" /\ config' = c /\ failures' = 0
          /\ due' = IF c.enabled THEN NextDue(c.every, 0) ELSE None
          /\ setter' = [setter EXCEPT ![s] = [pc |-> "idle", config |-> Disarmed]]
          /\ UNCHANGED <<file, runs>>
      BY <1>4 DEF SetMemory
    <2>2. /\ history'.quiet = 0 /\ history'.set = 0 /\ history'.saved = history.saved
          /\ history'.inFlight = (DOMAIN runs # {}) /\ history' \in History
      <3>1. history' = [history EXCEPT !.quiet = 0, !.set = 0, !.inFlight = DOMAIN runs # {}]
        BY <1>4 DEF SetMemory, Remember
      <3>2. history' = [history EXCEPT !.quiet = 0, !.set = 0, !.inFlight = DOMAIN runs # {},
                                       !.saved = history.saved]
        BY <3>1 DEF TypeOK, History
      <3>3. 0 \in 0..Limit
        BY HistoryIs
      <3> QED
        BY <3>2, <3>3, HistoryIs, HistoryOf
    <2>3. c \in Config /\ c.every \in Intervals /\ c.enabled \in BOOLEAN
      BY <1>0 DEF Config
    <2>4. c.enabled => due' \in c.every..Day /\ due' # None
      <3>1. 0 \in 0..Doublings
        OBVIOUS
      <3>2. NextDue(c.every, 0) \in c.every..Day
        BY <2>3, <3>1, NextDueBounds, Zenon
      <3>3. c.every \in 1..Day
        BY <2>3
      <3> QED
        BY <2>1, <3>2, <3>3
    <2>5. TypeOK'
      <3>1. due' \in (0..Day) \cup {None}
        <4>1. c.every \in 1..Day
          BY <2>3
        <4> QED
          BY <2>1, <2>4, <4>1
      <3>2. config' \in Config
        BY <2>1, <2>3
      <3>3. setter' \in [Setters -> Held]
        BY <1>0, <2>1, DisarmedType
      <3> QED
        BY <2>1, <2>2, <3>1, <3>2, <3>3 DEF TypeOK
    <2>6. QuietSinceBegun' /\ QuietEnds'
      BY <2>1, <2>2, <2>3, <2>4 DEF QuietSinceBegun, QuietEnds, Ahead, TypeOK, Run
    <2>7. SinceSet'
      <3>1. due' # None => due' \in Nat /\ due' >= config'.every /\ c.enabled
        <4>1. c.every \in 1..Day
          BY <2>3
        <4> QED
          BY <2>1, <2>4, <4>1
      <3>2. c.enabled => due' # None
        BY <2>4
      <3>3. ~history'.inFlight => DOMAIN runs' = {}
        BY <2>1, <2>2
      <3> QED
        BY <2>1, <2>2, <3>1, <3>2, <3>3 DEF SinceSet
    <2>8. Setting' = Setting \ {s} /\ s \in Setting
      BY <1>0, <2>1 DEF Setting
    <2>9. \A t \in Setting' : setter'[t] = setter[t]
      BY <1>0, <2>1, <2>8 DEF Setting
    <2>10. file = c => Loaded(file) = c
      BY <2>3, FileAssumption DEF Loaded
    <2>11. RestartKeepsTheSettings' /\ FileIsSet'
      BY <2>1, <2>2, <2>8, <2>9, <2>10 DEF RestartKeepsTheSettings, FileIsSet, Loaded
    <2> QED
      BY <2>5, <2>6, <2>7, <2>11
  <1> QED
    BY <1>1, <1>2, <1>3, <1>4 DEF Set

LEMMA RestartStep == ASSUME SinkInv, Restart PROVE SinkInv'
  <1> USE SinkAssumption DEF SinkInv
  <1>1. /\ config' = Loaded(file) /\ due' = None /\ failures' = 0 /\ file' = file
        /\ runs' = [who \in {} |-> None]
        /\ setter' = [s \in Setters |-> [pc |-> "idle", config |-> Disarmed]]
    BY DEF Restart
  <1>2. history'.quiet = 0 /\ history'.set = None /\ history' \in History
    <2>1. history' = [history EXCEPT !.quiet = 0, !.set = None, !.inFlight = FALSE, !.saved = "yes"]
      BY DEF Restart, Remember
    <2>2. 0 \in 0..Limit
      BY HistoryIs
    <2> QED
      BY <2>1, <2>2, HistoryOf
  <1>3. DOMAIN runs' = {} /\ Setting' = {}
    BY <1>1 DEF Setting
  <1>4. TypeOK'
    BY <1>1, <1>2, <1>3, DisarmedType DEF TypeOK, Loaded
  <1>5. QuietSinceBegun' /\ QuietEnds' /\ SinceSet'
    BY <1>1, <1>2, <1>3 DEF QuietSinceBegun, QuietEnds, SinceSet, Ahead
  <1>6. RestartKeepsTheSettings' /\ FileIsSet'
    BY <1>1, <1>3 DEF RestartKeepsTheSettings, FileIsSet
  <1> QED
    BY <1>4, <1>5, <1>6

\* An hour passes only while no run is due that the timer is free to begin.
LEMMA HourStep == ASSUME SinkInv, Hour PROVE SinkInv'
  <1> USE SinkAssumption DEF SinkInv
  <1>1. /\ ~TimerDue /\ \A who \in DOMAIN runs : runs[who].age < MaxAge
        /\ due' = IF due = None THEN None ELSE Left(due, 1)
        /\ DOMAIN runs' = DOMAIN runs
        /\ \A who \in DOMAIN runs : runs'[who] = [runs[who] EXCEPT !.age = @ + 1]
        /\ UNCHANGED <<config, file, failures, setter>>
    BY DEF Hour
  <1>2. \A who \in DOMAIN runs :
          /\ runs[who].age \in Nat /\ runs'[who].age = runs[who].age + 1
          /\ runs'[who].every = runs[who].every /\ runs'[who] \in Run
    BY <1>1 DEF TypeOK, Run
  <1>3. /\ history.quiet \in 0..Limit
        /\ history'.quiet = UpTo(history.quiet + 1, Limit)
        /\ history'.set = IF history.set = None THEN None ELSE UpTo(history.set + 1, Limit)
        /\ history'.inFlight = history.inFlight /\ history'.saved = history.saved
    BY DEF Hour, Remember, TypeOK, History
  <1>4. history' \in History
    <2> DEFINE q == UpTo(history.quiet + 1, Limit)
               t == IF history.set = None THEN None ELSE UpTo(history.set + 1, Limit)
    <2>1. q \in 0..Limit
      BY HistoryIs DEF UpTo, Least
    <2>2. t \in (0..Limit) \cup {None}
      BY HistoryIs DEF UpTo, Least
    <2>3. history' = [history EXCEPT !.quiet = q, !.set = t, !.inFlight = history.inFlight,
                                     !.saved = history.saved]
      BY DEF Hour, Remember, TypeOK, History
    <2> HIDE DEF q, t
    <2> QED
      BY <2>1, <2>2, <2>3, HistoryIs, HistoryOf
  <1>5. /\ due # None => due \in 0..Day /\ due' \in 0..Day /\ due' # None
        /\ due = None => due' = None
    BY <1>1 DEF TypeOK, Left
  <1>6. TypeOK'
    BY <1>1, <1>2, <1>4, <1>5 DEF TypeOK
  <1>7. QuietSinceBegun'
    BY <1>1, <1>2, <1>3 DEF QuietSinceBegun, UpTo, Least, Limit
  <1>8. QuietEnds'
    <2> SUFFICES ASSUME config.enabled, "timer" \notin DOMAIN runs
                 PROVE  history'.quiet + Ahead' <= Day + MaxAge
      BY <1>1 DEF QuietEnds
    <2>1. due # None /\ due \in 0..Day /\ due > 0
      BY <1>1, <1>5 DEF TimerDue
    <2>2. Ahead' = due - 1 /\ Ahead = due
      BY <1>1, <1>5, <2>1 DEF Ahead, Left
    <2> QED
      BY <1>3, <2>1, <2>2 DEF QuietEnds, UpTo, Least, Limit
  <1>9. SinceSet'
    <2> SUFFICES ASSUME history.set # None, ~history.inFlight PROVE SinceSet'
      BY <1>3 DEF SinceSet
    <2>1. /\ history.set \in 0..Limit /\ history'.set = UpTo(history.set + 1, Limit)
          /\ config.every \in 1..Day
      BY <1>3 DEF TypeOK, History, Config
    <2>2. \A who \in DOMAIN runs : runs[who].every = config.every /\ runs[who].age <= history.set
      BY DEF SinceSet
    <2>3. \A who \in DOMAIN runs : runs'[who].age <= history'.set
      BY <1>1, <1>2, <2>1, <2>2 DEF UpTo, Least, Limit
    <2>4. due' # None => history'.set + due' >= config.every
      BY <1>1, <1>5, <2>1 DEF SinceSet, UpTo, Least, Limit, Left
    <2> QED
      BY <1>1, <1>2, <1>5, <2>2, <2>3, <2>4 DEF SinceSet
  <1>10. RestartKeepsTheSettings' /\ FileIsSet'
    BY <1>1, <1>3 DEF RestartKeepsTheSettings, FileIsSet, Loaded, Setting
  <1> QED
    BY <1>6, <1>7, <1>8, <1>9, <1>10

LEMMA SinkStep == ASSUME SinkInv, [Next]_vars PROVE SinkInv'
  <1>1. CASE TimerRun \/ AdminRun
    BY <1>1, BeginStep DEF TimerRun, AdminRun, Who
  <1>2. CASE Finish
    BY <1>2, FinishStep
  <1>3. CASE \E s \in Setters : Set(s)
    BY <1>3, SetStep
  <1>4. CASE Restart
    BY <1>4, RestartStep
  <1>5. CASE Hour
    BY <1>5, HourStep
  <1>6. CASE UNCHANGED vars
    BY <1>6 DEF vars, SinkInv, TypeOK, QuietSinceBegun, QuietEnds, Ahead, SinceSet,
                RestartKeepsTheSettings, FileIsSet, Setting, Loaded
  <1> QED
    BY <1>1, <1>2, <1>3, <1>4, <1>5, <1>6 DEF Next

LEMMA SinkInvariant == Spec => []SinkInv
  BY InitSinkInv, SinkStep, PTL DEF Spec

-----------------------------------------------------------------------------
(***************************************************************************)
(* Every reachable state is well typed: a due time lies within a day, a    *)
(* failure count within its cap (delay_sink.rs, next_due).                 *)
(***************************************************************************)
THEOREM SinkTypeCorrect == Spec => []TypeOK
  BY SinkInvariant, PTL DEF SinkInv

(***************************************************************************)
(* An armed job is attempted at least once a day and a run's time, however *)
(* its runs fail, overlap and write each other's due times (bridge.rs,     *)
(* delay_sink_tick and run_delay_sink).                                    *)
(***************************************************************************)
THEOREM ArmedJobIsAttemptedDaily == Spec => []AttemptedDaily
  <1>1. SinkInv => AttemptedDaily
    <2> SUFFICES ASSUME SinkInv, config.enabled PROVE history.quiet <= Day + MaxAge
      BY DEF AttemptedDaily
    <2>1. history.quiet \in Nat /\ Ahead \in Nat
      BY SinkAssumption DEF SinkInv, TypeOK, History, Limit, Ahead
    <2>2. CASE "timer" \in DOMAIN runs
      BY <2>1, <2>2, SinkAssumption DEF SinkInv, QuietSinceBegun, TypeOK, Run
    <2>3. CASE "timer" \notin DOMAIN runs
      BY <2>1, <2>3, SinkAssumption DEF SinkInv, QuietEnds
    <2> QED
      BY <2>2, <2>3
  <1> QED
    BY <1>1, SinkInvariant, PTL

(***************************************************************************)
(* Between two SETs a restart would find the settings in force, unless the *)
(* last write failed or overlapped another (bridge.rs, DELAY_SINK_SET).    *)
(***************************************************************************)
THEOREM RestartsKeepTheSettings == Spec => []RestartKeepsTheSettings
  BY SinkInvariant, PTL DEF SinkInv

(***************************************************************************)
(* The timer begins no run earlier than one interval after the settings    *)
(* were put in force, unless a run was in progress then (bridge.rs,        *)
(* DELAY_SINK_SET: "Arming schedules the first run one interval out").     *)
(***************************************************************************)
THEOREM FirstRunWaits == Spec => FirstRunIsOneIntervalOut
  <1>1. ASSUME SinkInv, [Next]_vars
        PROVE  [TimerRun /\ history.set # None /\ ~history.inFlight
                  => history.set >= config.every]_vars
    <2> SUFFICES ASSUME TimerRun, history.set # None, ~history.inFlight
                 PROVE  history.set >= config.every
      OBVIOUS
    <2>1. config.enabled /\ due \in {0, None}
      BY DEF TimerRun, TimerDue
    <2>2. due = 0 /\ history.set \in Nat
      BY <1>1, <2>1, HistoryIs DEF SinkInv, SinceSet
    <2>3. config.every \in Nat
      <3>1. config.every \in Intervals
        BY <1>1 DEF SinkInv, TypeOK, Config
      <3> QED
        BY <3>1, IntervalType
    <2>4. history.set + due >= config.every
      BY <1>1, <2>2, SinkAssumption DEF SinkInv, SinceSet
    <2> QED
      BY <2>2, <2>3, <2>4
  <1> QED
    BY <1>1, SinkInvariant, PTL DEF Spec, FirstRunIsOneIntervalOut
=============================================================================
