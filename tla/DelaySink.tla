------------------------------ MODULE DelaySink -----------------------------
(***************************************************************************)
(* When the scheduled measurement runs: start_delay_sink, delay_sink_tick, *)
(* run_delay_sink and the DELAY_SINK_* messages of bridge.rs, next_due of  *)
(* delay_sink.rs, and delay-sink.json.                                     *)
(*                                                                         *)
(* A run takes its copy of the settings when it begins and writes the next *)
(* due time when it ends; DELAY_SINK_SET may change the settings in        *)
(* between, and an admin's run may overlap the timer's.                    *)
(*                                                                         *)
(* Time is counted in hours, and only as far as the code can tell: due is  *)
(* the hours left, a run's age the hours it has been going on.  The timer  *)
(* looks every minute, so no hour passes over a run that is due while the  *)
(* timer is free.  What a run does is in Gate; here it is refused, fails   *)
(* or succeeds.                                                            *)
(***************************************************************************)
EXTENDS Naturals, FiniteSets

CONSTANTS
  Day,        \* the ceiling of an interval, 24 in the code
  Doublings,  \* how often a failure may double the interval, 4 in the code
  Intervals,  \* the values of everyHours, clamped to 1..Day
  Default,    \* everyHours when nothing is configured: default_hours()
  MaxAge,     \* bound: the hours a run may take
  Setters,    \* DELAY_SINK_SET messages in progress
  Torn,       \* a file cut off in the middle of a write
  None

ASSUME SinkAssumption ==
  /\ Day \in Nat /\ Doublings \in Nat /\ MaxAge \in Nat
  /\ Intervals \subseteq 1..Day /\ Default \in Intervals
  /\ None \notin Nat /\ Torn # None

\* Arithmetic that the provers do not know: a power of two is not zero.
ASSUME PowerAssumption == \A n \in 0..Doublings : 2^n \in Nat \ {0}

VARIABLES
  config,   \* Sink.config: armed or not, and the interval
  file,     \* delay-sink.json
  due,      \* SinkState.next_due_at as hours left; None when not set
  failures, \* SinkState.consecutive_failures, counted up to Doublings
  runs,     \* the run of the timer and the run of an admin's button
  setter,   \* what each DELAY_SINK_SET has done so far
  history   \* what the properties remember

vars == <<config, file, due, failures, runs, setter, history>>

Config   == [enabled : BOOLEAN, every : Intervals]
Disarmed == [enabled |-> FALSE, every |-> Default]

\* What stands for no file, or half of one, is none that a SET writes.
ASSUME FileAssumption == None \notin Config /\ Torn \notin Config

Run   == [every : Intervals, age : 0..MaxAge]
Who   == {"timer", "admin"}

(* quiet: hours since the timer had last reason to begin again: a run, a   *)
(* SET or a start.  set: hours since the settings were last put in force,  *)
(* None before that or after a restart.  inFlight: whether a run was in    *)
(* progress then.  saved: why the file may differ from the settings.       *)
Limit == Day + MaxAge + 1
History == [quiet : 0..Limit, set : (0..Limit) \cup {None}, inFlight : BOOLEAN,
            saved : {"yes", "overlap", "failed"}]

\* The types of the state: due times lie within a day, failures are counted to the cap.
TypeOK ==
  /\ config \in Config
  /\ file \in Config \cup {Torn, None}
  /\ due \in (0..Day) \cup {None}
  /\ failures \in 0..Doublings
  /\ DOMAIN runs \subseteq Who
  /\ \A who \in DOMAIN runs : runs[who] \in Run
  /\ setter \in [Setters -> [pc : {"idle", "torn", "memory"}, config : Config]]
  /\ history \in History

Init ==
  /\ config = Disarmed
  /\ file = None
  /\ due = None
  /\ failures = 0
  /\ runs = [who \in {} |-> None]
  /\ setter = [s \in Setters |-> [pc |-> "idle", config |-> Disarmed]]
  /\ history = [quiet |-> 0, set |-> None, inFlight |-> FALSE, saved |-> "yes"]

-----------------------------------------------------------------------------
Least(a, b)    == IF a < b THEN a ELSE b
UpTo(n, limit) == Least(n, limit)

\* Mutant of NextDue: the doubled interval is not held to a day.
NextDueUncapped(every, failed) == every * 2^UpTo(failed, Doublings)

NextDue(every, failed) == UpTo(every * 2^UpTo(failed, Doublings), Day)

\* What is left of n hours that began when the run did.
Left(n, age) == IF n > age THEN n - age ELSE 0

Remember(h) == history' = h
Attempt     == Remember([history EXCEPT !.quiet = 0])

\* Mutant of TimerDue: with no due time there is nothing to wait for.
TimerDueIfSet == config.enabled /\ due = 0 /\ "timer" \notin DOMAIN runs

\* delay_sink_tick found the job armed and due; restarts leave no due time.
TimerDue == /\ config.enabled
            /\ due \in {0, None}
            /\ "timer" \notin DOMAIN runs

Begin(who) ==
  /\ runs' = [w \in DOMAIN runs \cup {who} |->
                IF w = who THEN [every |-> config.every, age |-> 0] ELSE runs[w]]
  /\ Attempt
  /\ UNCHANGED <<config, file, due, failures, setter>>

TimerRun == TimerDue /\ Begin("timer")

\* DELAY_SINK_RUN, armed or not.
AdminRun == "admin" \notin DOMAIN runs /\ Begin("admin")

End(who) == runs' = [w \in DOMAIN runs \ {who} |-> runs[w]]

\* Nothing was attempted: retried at the normal interval, nothing backs off.
Refused(who) ==
  /\ who \in DOMAIN runs
  /\ runs[who].age = 0
  /\ due' = NextDue(runs[who].every, 0)
  /\ End(who)
  /\ UNCHANGED <<config, file, failures, setter, history>>

Done(who, ok) ==
  LET failed == IF ok THEN 0 ELSE UpTo(failures + 1, Doublings)
  IN /\ who \in DOMAIN runs
     /\ failures' = failed
     /\ due' = Left(NextDue(runs[who].every, failed), runs[who].age)
     /\ End(who)
     /\ UNCHANGED <<config, file, setter, history>>

(***************************************************************************)
(* DELAY_SINK_SET: the file, written in place, and then the settings.      *)
(***************************************************************************)
Setting == {s \in Setters : setter[s].pc # "idle"}

SetTruncate(s, c) ==
  /\ setter[s].pc = "idle"
  /\ file' = Torn
  /\ setter' = [setter EXCEPT ![s] = [pc |-> "torn", config |-> c]]
  /\ Remember([history EXCEPT !.saved = IF Setting = {} THEN "yes" ELSE "overlap"])
  /\ UNCHANGED <<config, due, failures, runs>>

SetWrite(s) ==
  /\ setter[s].pc = "torn"
  /\ file' = setter[s].config
  /\ setter' = [setter EXCEPT ![s].pc = "memory"]
  /\ UNCHANGED <<config, due, failures, runs, history>>

\* The write failed half way: the settings stay, the file does not.
SetFails(s) ==
  /\ setter[s].pc = "torn"
  /\ setter' = [setter EXCEPT ![s] = [pc |-> "idle", config |-> Disarmed]]
  /\ Remember([history EXCEPT !.saved = "failed"])
  /\ UNCHANGED <<config, file, due, failures, runs>>

\* Mutant of SetMemory: arming schedules the first run at once.
SetMemoryDueNow(s) ==
  LET c == setter[s].config
  IN /\ setter[s].pc = "memory"
     /\ config' = c
     /\ due' = IF c.enabled THEN 0 ELSE None
     /\ failures' = 0
     /\ setter' = [setter EXCEPT ![s] = [pc |-> "idle", config |-> Disarmed]]
     /\ Remember([history EXCEPT !.quiet = 0, !.set = 0, !.inFlight = DOMAIN runs # {}])
     /\ UNCHANGED <<file, runs>>

\* Mutant of SetMemory: the interval of an armed job is left as it is.
SetMemoryKeepsInterval(s) ==
  LET c == setter[s].config
  IN /\ setter[s].pc = "memory"
     /\ config' = IF config.enabled /\ c.enabled THEN config ELSE c
     /\ due' = IF c.enabled THEN NextDue(c.every, 0) ELSE None
     /\ failures' = 0
     /\ setter' = [setter EXCEPT ![s] = [pc |-> "idle", config |-> Disarmed]]
     /\ Remember([history EXCEPT !.quiet = 0, !.set = 0, !.inFlight = DOMAIN runs # {}])
     /\ UNCHANGED <<file, runs>>

SetMemory(s) ==
  LET c == setter[s].config
  IN /\ setter[s].pc = "memory"
     /\ config' = c
     /\ due' = IF c.enabled THEN NextDue(c.every, 0) ELSE None
     /\ failures' = 0
     /\ setter' = [setter EXCEPT ![s] = [pc |-> "idle", config |-> Disarmed]]
     /\ Remember([history EXCEPT !.quiet = 0, !.set = 0, !.inFlight = DOMAIN runs # {}])
     /\ UNCHANGED <<file, runs>>

\* What read_sink_config makes of the file.
Loaded(f) == IF f \in {Torn, None} THEN Disarmed ELSE f

Restart ==
  /\ config' = Loaded(file)
  /\ due' = None
  /\ failures' = 0
  /\ runs' = [who \in {} |-> None]
  /\ setter' = [s \in Setters |-> [pc |-> "idle", config |-> Disarmed]]
  /\ Remember([history EXCEPT !.quiet = 0, !.set = None, !.inFlight = FALSE, !.saved = "yes"])
  /\ UNCHANGED file

\* An hour passes.  A run's requests time out, so a run does not go on for ever.
Hour ==
  /\ ~TimerDue
  /\ \A who \in DOMAIN runs : runs[who].age < MaxAge
  /\ due' = IF due = None THEN None ELSE Left(due, 1)
  /\ runs' = [who \in DOMAIN runs |-> [runs[who] EXCEPT !.age = @ + 1]]
  /\ Remember([history EXCEPT !.quiet = UpTo(@ + 1, Limit),
                 !.set = IF @ = None THEN None ELSE UpTo(@ + 1, Limit)])
  /\ UNCHANGED <<config, file, failures, setter>>

Finish == \E who \in Who : Refused(who) \/ \E ok \in BOOLEAN : Done(who, ok)

Set(s) == \/ \E c \in Config : SetTruncate(s, c)
          \/ SetWrite(s) \/ SetFails(s) \/ SetMemory(s)

Next == \/ TimerRun \/ AdminRun \/ Finish
        \/ \E s \in Setters : Set(s)
        \/ Restart
        \/ Hour

(* Time goes on, the timer's loop is scheduled, and a run ends: it sends a *)
(* bounded number of requests, each with a timeout of its own.             *)
Fairness == WF_vars(Hour) /\ WF_vars(TimerRun) /\ WF_vars(Finish)

Spec == Init /\ [][Next]_vars /\ Fairness

-----------------------------------------------------------------------------
(* An armed job is attempted at least once a day, and the hours a run may  *)
(* take, since it was last attempted, set or started, however its runs     *)
(* fail, overlap and write each other's due times.                         *)
AttemptedDaily == config.enabled => history.quiet <= Day + MaxAge

(* The timer begins no run earlier than one interval after the settings    *)
(* were put in force, unless a run was in progress then: that one writes   *)
(* the due time by the interval it began with.                             *)
FirstRunIsOneIntervalOut ==
  [][TimerRun /\ history.set # None /\ ~history.inFlight => history.set >= config.every]_vars

(* The same with no excuse, as the comment of DELAY_SINK_SET has it:       *)
(* "Arming schedules the first run one interval out, never immediately".   *)
ArmingNeverRunsEarly ==
  [][TimerRun /\ history.set # None => history.set >= config.every]_vars

(* Between two SETs a restart would find the settings in force, unless the *)
(* last write failed or overlapped another.                                *)
RestartKeepsTheSettings ==
  Setting = {} /\ history.saved = "yes" => Loaded(file) = config

(* A job that stays armed, with nobody re-tuning it, is run again and      *)
(* again, by the timer if by nobody else, through failures and restarts.   *)
ArmedJobKeepsRunning ==
  <>[](config.enabled /\ Setting = {}) => []<>(DOMAIN runs # {})

=============================================================================
