------------------------------- MODULE Unlock --------------------------------
(***************************************************************************)
(* The write switch.  The core owns it and every page, of every operator,  *)
(* shares it; core/writes.js keeps this page's copy, which decides whether *)
(* an action is offered, and is set by whichever answer comes last.        *)
(*                                                                         *)
(* A message is on its way to the core (says = "asked") and then on its    *)
(* way back with what the core said.  `current` says of an answer that the *)
(* core has not changed since: the history the property is about.          *)
(*                                                                         *)
(* And the one use of the switch that lasts: core/tasks.js writes to a     *)
(* list of clusters in turn, and whatever the switch and the config do     *)
(* meanwhile, it goes through the list.                                    *)
(***************************************************************************)
EXTENDS Integers, FiniteSets, Sequences

CONSTANTS
  MaxAsked,     \* bound: messages of this page under way at once
  Cluster,      \* a sequence: the clusters the dialog lists, in its order
  None

VARIABLES
  about,      \* bound: "switch", or "task" without messages under way
  core,       \* bridge.rs: writes_unlocked
  primed,     \* bridge.rs: the read_only the last PRIME set
  readOnly,   \* isReadOnly(): what this page's config says
  copy,       \* writes.js: unlocked
  wire,       \* PING and WRITE_UNLOCK under way
  settled,    \* history: the copy was set by an answer nothing has outdated
  clients,    \* state.clients
  chosen,     \* createDialog: the clusters ticked
  run         \* its button: [phase, picked, out, wrote], None before; wrote is the world's

switch == <<core, primed, readOnly, copy, wire, settled>>
task == <<clients, chosen, run>>
vars == <<about, switch, task>>

Listed == {Cluster[i] : i \in DOMAIN Cluster}

Said(on) == IF on THEN "on" ELSE "off"

Init ==
  /\ core \in BOOLEAN /\ readOnly \in BOOLEAN /\ primed = readOnly
  /\ copy = FALSE /\ wire = {} /\ settled = FALSE
  /\ about \in {"switch", "task"}
  /\ clients = Listed /\ chosen = Listed /\ run = None

\* The core's switch becomes v, and some answer says so: what was answered before, and what
\* is shown, may no longer be so.
Switch(v, others, answers) ==
  /\ core' = v
  /\ wire' = {[x EXCEPT !.current = @ /\ v = core] : x \in others} \cup answers
  /\ settled' = (settled /\ v = core)

\* syncWrites on a page's render, the toggle's and ensureWrites' WRITE_UNLOCK.
Ask(want) ==
  /\ Cardinality(wire) < MaxAsked
  /\ \A x \in wire : x.want # want
  /\ want = "on" => readOnly /\ ~copy
  /\ want = "off" => readOnly /\ copy
  /\ wire' = wire \cup {[want |-> want, says |-> "asked", current |-> FALSE]}
  /\ UNCHANGED <<about, core, primed, readOnly, copy, settled, task>>

\* The core takes a message up, or it is lost or refused: bridge() answers all the same.
Handle(x) ==
  /\ x \in wire /\ x.says = "asked"
  /\ \/ LET v == IF x.want = "ping" THEN core ELSE x.want = "on"
        IN  Switch(v, wire \ {x}, {[x EXCEPT !.says = Said(v), !.current = TRUE]})
     \/ /\ wire' = (wire \ {x}) \cup {[x EXCEPT !.says = "failed"]}
        /\ UNCHANGED <<core, settled>>
  /\ UNCHANGED <<about, primed, readOnly, copy, task>>

\* setLocal: anything but a plain yes is a no, a failed PING as well as a failed unlock.
Shown(x) == x.says = "on"

Answer(x) ==
  /\ x \in wire /\ x.says # "asked"
  /\ wire' = wire \ {x}
  /\ copy' = Shown(x)
  /\ settled' = x.current
  /\ UNCHANGED <<about, core, primed, readOnly, task>>

\* Somebody else's page, or FORGET, which locks.
Elsewhere ==
  /\ Switch(~core, wire, {})
  /\ UNCHANGED <<about, primed, readOnly, copy, task>>

\* A config is put into service: the page has it before the core is primed with it.
Reload == readOnly' = ~readOnly /\ UNCHANGED <<about, core, primed, copy, wire, settled, task>>
Prime  == primed' = readOnly /\ UNCHANGED <<about, core, readOnly, copy, wire, settled, task>>

-----------------------------------------------------------------------------
\* Mutant of Offered: the page looks at the switch alone.
OfferedUnlocked == copy

\* ensureWrites, once nothing has to be asked; and what the core makes of the request.
Offered == ~readOnly \/ copy
Allowed == ~primed \/ core

\* A checkbox of the dialog, which is there under whatever is asked on top of it.
Tick(c) ==
  /\ chosen' = IF c \in chosen THEN chosen \ {c} ELSE chosen \cup {c}
  /\ UNCHANGED <<about, switch, clients, run>>

\* The ticked ones, in the order of the list.
Ticked ==
  LET at == {i \in DOMAIN Cluster : Cluster[i] \in chosen}
  IN  [k \in 1..Cardinality(at) |-> Cluster[CHOOSE i \in at : Cardinality({j \in at : j < i}) = k - 1]]

\* Mutant of Picked: the clusters are those ticked when the requests go out.
PickedLate == Ticked

\* The clusters the question names, taken when Create was pressed.
Picked == run.picked

\* Create; ensureWrites may have to ask and to unlock before the question is put.
Create ==
  /\ run = None /\ chosen # {}
  /\ run' = [phase |-> "asks", picked |-> Ticked, out |-> <<>>, wrote |-> {}]
  /\ UNCHANGED <<about, switch, clients, chosen>>

EnsureWrites ==
  /\ run # None /\ run.phase = "asks" /\ ~Offered
  /\ core' = TRUE /\ copy' = TRUE
  /\ UNCHANGED <<about, primed, readOnly, wire, settled, task>>

\* No to either question, or the end, which leaves the dialog as it was.
Return ==
  /\ run # None /\ (run.phase = "asks" \/ run.phase = "ran")
  /\ run' = None
  /\ UNCHANGED <<about, switch, clients, chosen>>

\* Yes: runTask looks at the page's copy once.
Start ==
  /\ run # None /\ run.phase = "asks" /\ Offered
  /\ run' = [run EXCEPT !.phase = "runs"]
  /\ UNCHANGED <<about, switch, clients, chosen>>

\* Mutant of Answered: the first cluster that does not take it ends the run.
AnsweredUntilRefused(r, says) ==
  [r EXCEPT !.out = Append(@, says),
            !.phase = IF says # "applied" \/ Len(r.out) + 1 = Len(Picked) THEN "ran" ELSE @]

\* A result for each, whatever it is.
Answered(r, says) ==
  [r EXCEPT !.out = Append(@, says),
            !.phase = IF Len(r.out) + 1 >= Len(Picked) THEN "ran" ELSE @]

\* The next cluster: there is no client for it, the core refuses, the cluster takes the
\* request or refuses it, or no answer comes and it did either.
RunNext ==
  /\ run # None /\ run.phase = "runs" /\ Len(run.out) < Len(Picked)
  /\ LET c == Picked[Len(run.out) + 1]
         wrote == [run EXCEPT !.wrote = @ \cup {c}]
     IN  \/ c \notin clients /\ run' = Answered(run, "no client")
         \/ c \in clients /\ ~Allowed /\ run' = Answered(run, "refused")
         \/ c \in clients /\ Allowed
            /\ run' \in {Answered(wrote, "applied"), Answered(run, "refused"),
                         Answered(run, "failed"), Answered(wrote, "failed")}
  /\ UNCHANGED <<about, switch, clients, chosen>>

\* Another config: clusters come and go, under the same dialog.
Reconfigure ==
  /\ \E s \in SUBSET Listed : clients' = s
  /\ UNCHANGED <<about, switch, chosen, run>>

Task ==
  \/ \E c \in Listed : Tick(c)
  \/ Create \/ EnsureWrites \/ Return \/ Start \/ RunNext \/ Reconfigure

Next ==
  \/ /\ about = "switch"
     /\ \/ \E want \in {"ping", "on", "off"} : Ask(want)
        \/ \E x \in wire : Handle(x) \/ Answer(x)
  \/ about = "task" /\ Task
  \/ Elsewhere \/ Reload \/ Prime

Spec == Init /\ [][Next]_vars

-----------------------------------------------------------------------------
(***************************************************************************)
(* The page offers exactly what the core would let through, as long as the *)
(* copy was set by an answer the core gave after its last change, and the  *)
(* core has the page's config.  Every other disagreement has a change by   *)
(* somebody else, an overtaken answer or a lost one behind it.             *)
(***************************************************************************)
OffersWhatTheCoreAllows == settled /\ primed = readOnly => Offered = Allowed

(***************************************************************************)
(* A task is done on the clusters that were confirmed, however the dialog, *)
(* the switch and the config change under it: none other is written to, a  *)
(* run that is over has a result for each of them, one that says "applied" *)
(* was, and one that was refused was not.                                  *)
(***************************************************************************)
TasksKeepToTheirList ==
  run # None =>
    /\ run.wrote \subseteq {run.picked[i] : i \in DOMAIN run.picked}
    /\ run.phase = "ran" => Len(run.out) = Len(run.picked)
    /\ \A i \in DOMAIN run.out :
         run.out[i] # "failed" => (run.out[i] = "applied" <=> run.picked[i] \in run.wrote)

-----------------------------------------------------------------------------
(***************************************************************************)
(* The inductive invariant behind the first (ConsoleProofs): an answer     *)
(* that nothing has outdated says what the core's switch is.               *)
(***************************************************************************)
Message == [want : {"ping", "on", "off"}, says : {"asked", "on", "off", "failed"},
            current : BOOLEAN]

UnlockInv ==
  /\ core \in BOOLEAN /\ primed \in BOOLEAN /\ readOnly \in BOOLEAN /\ copy \in BOOLEAN
  /\ wire \subseteq Message /\ (about = "task" => wire = {})
  /\ \A x \in wire : x.current => x.says = Said(core)
  /\ settled => copy = core

\* And behind the second: what was written to is of the part of the list that has a result.
Result == {"no client", "refused", "applied", "failed"}
Run == [phase : {"asks", "runs", "ran"}, picked : Seq(Listed), out : Seq(Result),
        wrote : SUBSET Listed]
TaskInv ==
  run # None =>
    /\ run \in Run /\ Len(run.out) <= Len(run.picked)
    /\ \A i, j \in DOMAIN run.picked : run.picked[i] = run.picked[j] => i = j
    /\ run.wrote \subseteq {run.picked[i] : i \in 1..Len(run.out)}
    /\ TasksKeepToTheirList
=============================================================================
