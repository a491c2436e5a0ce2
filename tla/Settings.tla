------------------------------- MODULE Settings ------------------------------
(***************************************************************************)
(* The Config page (pages/settings.js).  A config that is uploaded, or     *)
(* restored from the history, or changed by an alert's switch, is put in   *)
(* service and then written where the core reads it, which keeps what it   *)
(* replaces (bridge.rs CONFIG_WRITE, vault_files.rs ConfigHistory).  And   *)
(* the form of the scheduled measurement: what the screen shows, what Save *)
(* reads from it, and what the core makes of that (DELAY_SINK_SET).        *)
(***************************************************************************)
EXTENDS Naturals, FiniteSets

CONSTANTS
  Cluster,
  Keep,         \* HISTORY_KEEP
  MaxSecond, MaxSaves,
  None

VARIABLES
  about,        \* bound: the half of the page this behaviour is about; they share no state
  second,       \* the clock that names versions
  file, tmp,    \* the config file, and the one beside it; a config is the number of its change
  versions,     \* config-history: [at, of], a name for a second; of is None for half a file
  config,       \* state.config.raw, the config in service
  handle,       \* state.handle: there is a file to reload
  saves,        \* how many there were
  save,         \* those under way: [st, of, at, alone]; None.  at is the second its
                \* version is named for, 0 before there is one: keptVersion
  replaced,     \* history: what a save that was alone replaced, if it kept that, and when
  crowded,      \* history: seconds in which more than one was kept
  list,         \* clusters(), and those the core is primed with
  core,         \* the sink's config: [enabled, to, clusters]
  sink, answer, \* what the page has of it; one under way
  section, form,  \* the tab that is open; the form on the screen, if it is
  picked        \* history: what was ticked when the core last took it from this page

vars == <<about, second, file, tmp, versions, config, handle, saves, save, replaced, crowded,
          list, core, sink, answer, section, form, picked>>
fileVars == <<second, file, tmp, versions, config, handle, saves, save, replaced, crowded>>
sinkVars == <<list, core, sink, answer, section, form, picked>>

Init ==
  /\ about \in {"file", "schedule"}
  /\ second = 1 /\ file = 0 /\ tmp = None /\ versions = {} /\ config = 0 /\ handle = TRUE
  /\ saves = 0 /\ save = [u \in 1..2 |-> None] /\ replaced = {} /\ crowded = {}
  /\ list = Cluster /\ core = [enabled |-> FALSE, to |-> None, clusters |-> {}]
  /\ sink = None /\ answer = None /\ section = "file" /\ form = None /\ picked = None

-----------------------------------------------------------------------------
(* The file. *)

Others(u, st) == [v \in 1..2 |-> IF v # u /\ st[v] # None THEN [st[v] EXCEPT !.alone = FALSE] ELSE st[v]]

\* A save begins: its config is in service, and goes on to be written.
Begin(u, c) ==
  /\ about = "file" /\ save[u] = None /\ saves < MaxSaves /\ saves' = saves + 1
  /\ config' = c
  /\ save' = Others(u, [save EXCEPT ![u] = [st |-> "applied", of |-> c, at |-> 0,
                                            alone |-> \A v \in 1..2 : save[v] = None]])
  /\ UNCHANGED <<second, file, tmp, versions, replaced, crowded, sinkVars, about>>

\* uploadConfig: loaded once, from now on there is no file to reload.
UploadConfig(u) == Begin(u, saves + 1) /\ handle' = FALSE

\* A file that is too big, cannot be read or is no config is refused before anything changes.
Refused == about = "file" /\ UNCHANGED vars

\* restore: a version is loaded as an upload is.
Restore(u) == \E v \in versions : v.of # None /\ Begin(u, v.of) /\ handle' = FALSE

\* An alert's switch, or its threshold: the config in service is changed, and written.
Toggle(u) == Begin(u, saves + 1) /\ UNCHANGED handle

\* Mutant of Trim: the newest go.
TrimNewest(S) == {v \in S : Cardinality({w \in S : w.at < v.at}) < Keep}

Trim(S) == {v \in S : Cardinality({w \in S : w.at > v.at}) < Keep}

\* The directory with what a write to this second's name leaves there.
With(what) == {v \in versions : v.at # second} \cup {[at |-> second, of |-> what]}

(***************************************************************************)
(* ConfigHistory.snapshot, best effort: nothing is kept when there is no   *)
(* directory, or nothing to read; a write that fails half way leaves what  *)
(* it wrote; the oldest are removed only after one that went well.         *)
(***************************************************************************)
Snapshot(kept, left) ==
  \/ kept /\ left = Trim(With(file))
  \/ ~kept /\ left \in {versions, With(None)}

\* saveRaw sends what is in service by now; a save goes on without its version.
Write(u) ==
  /\ save[u] # None /\ save[u].st = "applied"
  /\ \E kept \in BOOLEAN :
       /\ Snapshot(kept, versions')
       /\ save' = [save EXCEPT ![u].st = "kept", ![u].of = config,
                               ![u].at = IF kept THEN second ELSE 0]
  /\ crowded' = IF \E v \in versions : v.at = second THEN crowded \cup {second} ELSE crowded
  /\ UNCHANGED <<second, file, tmp, config, handle, saves, replaced, sinkVars, about>>

WriteTmp(u) ==
  /\ save[u] # None /\ save[u].st = "kept"
  /\ tmp' = save[u].of /\ save' = [save EXCEPT ![u].st = "written"]
  /\ UNCHANGED <<second, file, versions, config, handle, saves, replaced, crowded, sinkVars, about>>

\* There is one .tmp for all: a rename that finds it gone is told so, and so is its operator.
Rename(u) ==
  /\ save[u] # None /\ save[u].st = "written"
  /\ IF tmp = None THEN save' = [save EXCEPT ![u] = None] /\ UNCHANGED <<file, tmp, replaced>>
     ELSE /\ file' = tmp /\ tmp' = None /\ save' = [save EXCEPT ![u].st = "renamed"]
          /\ replaced' = IF save[u].alone /\ save[u].at # 0 THEN replaced \cup {[at |-> save[u].at, was |-> file]} ELSE replaced
  /\ UNCHANGED <<second, versions, config, handle, saves, crowded, sinkVars, about>>

\* saveRaw reads the file back; what it wrote stays the config in service.
ReadBack(u) ==
  /\ save[u] # None /\ save[u].st = "renamed"
  /\ config' = save[u].of /\ handle' = TRUE /\ save' = [save EXCEPT ![u] = None]
  /\ UNCHANGED <<second, file, tmp, versions, saves, replaced, crowded, sinkVars, about>>

\* Reload from disk.
Reload ==
  /\ about = "file" /\ handle /\ config' = file
  /\ UNCHANGED <<second, file, tmp, versions, handle, saves, save, replaced, crowded, sinkVars, about>>

\* The file is edited by hand.
EditedByHand ==
  /\ about = "file" /\ saves < MaxSaves /\ saves' = saves + 1 /\ file' = saves + 1
  /\ save' = Others(0, save)
  /\ UNCHANGED <<second, tmp, versions, config, handle, replaced, crowded, sinkVars, about>>

SecondPasses ==
  /\ about = "file" /\ second < MaxSecond /\ second' = second + 1
  /\ UNCHANGED <<file, tmp, versions, config, handle, saves, save, replaced, crowded, sinkVars, about>>

File ==
  \/ \E u \in 1..2 : UploadConfig(u) \/ Restore(u) \/ Toggle(u) \/ Write(u) \/ WriteTmp(u) \/ Rename(u) \/ ReadBack(u)
  \/ Refused \/ Reload \/ EditedByHand \/ SecondPasses

-----------------------------------------------------------------------------
(* The scheduled measurement. *)

\* What the card shows: no cluster named means all but the one written to.
Shown(c) ==
  [enabled |-> c.enabled, to |-> IF c.to \in list THEN c.to ELSE None,
   clusters |-> IF c.clusters = {} THEN list \ {c.to} ELSE c.clusters \cap list]

\* visibleSections, activeSection: a tab that is not there shows the first.
ActiveSection == IF section = "schedule" /\ sink = None THEN "file" ELSE section

\* Every draw builds the form anew from what the page has.
Draw == form' = IF section' = "schedule" /\ sink' # None THEN Shown(sink') ELSE None

\* loadSink: a core that does not schedule, or does not answer, has no tab.
LoadSink ==
  /\ about = "schedule" /\ answer = None /\ answer' \in {[what |-> "config", of |-> core], [what |-> "none", of |-> None]}
  /\ UNCHANGED <<about, fileVars, list, core, sink, section, form, picked>>

Landed ==
  /\ answer # None /\ answer' = None
  /\ sink' = answer.of
  /\ UNCHANGED section /\ Draw
  /\ UNCHANGED <<about, fileVars, list, core, picked>>

Open(s) ==
  /\ about = "schedule" /\ s # section /\ (s = "schedule" => sink # None)
  /\ section' = s /\ UNCHANGED sink /\ Draw
  /\ UNCHANGED <<about, fileVars, list, core, answer, picked>>

\* onData: a refresh draws the page, and what was being edited is gone.
OnData ==
  /\ about = "schedule" /\ UNCHANGED <<section, sink>> /\ Draw
  /\ UNCHANGED <<about, fileVars, list, core, answer, picked>>

Edit ==
  /\ form # None
  /\ \/ form' = [form EXCEPT !.enabled = ~@]
     \/ \E c \in list : form' = [form EXCEPT !.to = c]
     \/ \E c \in list : form' = [form EXCEPT !.clusters = IF c \in @ THEN @ \ {c} ELSE @ \cup {c}]
  /\ UNCHANGED <<about, fileVars, list, core, sink, answer, section, picked>>

\* Mutant of Ready: the page leaves it to the core.
ReadyAnyway(c) == TRUE

\* save: none picked is every one to the core, and never what was meant here.
Ready(c) == c.enabled => c.clusters # {} /\ c.clusters # {c.to}

Refusal(c) == c.enabled /\ (c.to = None \/ c.clusters = {c.to})

\* Save reads the form; what the core took is drawn.
Save ==
  /\ form # None /\ Ready(form) /\ ~Refusal(form)
  /\ core' = form /\ sink' = form /\ picked' = form.clusters
  /\ UNCHANGED section /\ form' = Shown(form)
  /\ UNCHANGED <<about, fileVars, list, answer>>

\* The core is started on a file written by hand, which names no clusters.
WrittenByHand ==
  /\ about = "schedule"
  /\ \E on \in BOOLEAN, c \in Cluster : core' = [enabled |-> on, to |-> c, clusters |-> {}]
  /\ picked' = None
  /\ UNCHANGED <<about, fileVars, list, sink, answer, section, form>>

\* Another config: the page draws, the core is primed.
Clusters ==
  /\ about = "schedule" /\ list' \in {Cluster} \cup {Cluster \ {c} : c \in Cluster}
  /\ form' = IF form = None THEN None
             ELSE [enabled |-> sink.enabled, to |-> IF sink.to \in list' THEN sink.to ELSE None,
                   clusters |-> IF sink.clusters = {} THEN list' \ {sink.to} ELSE sink.clusters \cap list']
  /\ UNCHANGED <<about, fileVars, core, sink, answer, section, picked>>

\* delay_sink_targets: what a run measures.
Targets == IF core.clusters = {} THEN list \ {core.to} ELSE core.clusters \cap list

Schedule ==
  \/ LoadSink \/ Landed \/ OnData \/ Edit \/ Save \/ WrittenByHand \/ Clusters
  \/ \E s \in {"file", "schedule"} : Open(s)

Next == File \/ Schedule
Spec == Init /\ [][Next]_vars

-----------------------------------------------------------------------------
\* What was kept in a second is there, unless it had to go.
Kept(at, was) ==
  at \notin crowded /\ Cardinality({v \in versions : v.at > at}) < Keep
    => [at |-> at, of |-> was] \in versions

(***************************************************************************)
(* Nothing that a save from the page said it kept is lost.  Of the saves   *)
(* that no other crossed, each that answered keptVersion left the config   *)
(* it replaced in the history, and it stays there until Keep newer ones    *)
(* were kept, or another save of the same second took its name, whatever   *)
(* later snapshots came to; and such a save, kept or not, is on the disk   *)
(* when it is told to have been made.  The page does not read keptVersion: *)
(* what it says of the history is more than this (README).                 *)
(***************************************************************************)
NothingReplacedIsLost ==
  /\ \A r \in replaced : Kept(r.at, r.was)
  /\ \A u \in 1..2 : save[u] # None /\ save[u].st = "renamed" /\ save[u].alone => file = save[u].of

(***************************************************************************)
(* What runs on a timer is what was ticked: no cluster is measured that    *)
(* was not ticked when the measurement was armed from this page, and a     *)
(* form nobody has touched, of the core's own config, shows every cluster  *)
(* that is measured, and names where it is written.                        *)
(***************************************************************************)
ArmedMeansPicked ==
  /\ core.enabled /\ picked # None => Targets \subseteq picked
  /\ form # None /\ sink = core /\ form = Shown(sink) => Targets \subseteq form.clusters
  /\ core.enabled => core.to # None

-----------------------------------------------------------------------------
(* The inductive invariants behind them (ConsoleProofs). *)
Version == [at : Nat, of : Nat \cup {None}]
Stage == {"applied", "kept", "written", "renamed"}
Running == [st : Stage, of : Nat, at : Nat, alone : BOOLEAN]
FileInv ==
  /\ second \in Nat /\ file \in Nat /\ tmp \in Nat \cup {None} /\ config \in Nat /\ saves \in Nat
  /\ versions \subseteq Version /\ IsFiniteSet(versions)
  /\ \A v, w \in versions : v.at <= second /\ (v.at = w.at => v = w)
  /\ save \in [1..2 -> {None} \cup Running]
  /\ replaced \subseteq [at : Nat, was : Nat]
  /\ \A r \in replaced : r.at <= second /\ Kept(r.at, r.was)

\* A save that no other crossed has what it needs to itself.
SaveInv ==
  \A u \in 1..2 : save[u] # None /\ save[u].alone =>
    /\ \A v \in 1..2 : v # u => save[v] = None
    /\ save[u].st \in {"kept", "written"} /\ save[u].at # 0 =>
         save[u].at <= second /\ Kept(save[u].at, file)
    /\ save[u].st = "written" => tmp = save[u].of
    /\ save[u].st = "renamed" => file = save[u].of

ScheduleInv ==
  /\ picked # None => picked = core.clusters /\ (core.enabled => core.clusters # {})
  /\ core.enabled => core.to # None
=============================================================================
