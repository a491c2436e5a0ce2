---------------------------- MODULE Housekeeping -----------------------------
(***************************************************************************)
(* Clearing out old indices of one cluster: the automation checks, with    *)
(* the retention rule and the rules operators write, which propose and     *)
(* never act; and the dialogs that close or delete, reached from a         *)
(* proposal or from a table, which look at the snapshots for themselves.   *)
(* An index stands for its day; 0 has no date in its name.                 *)
(***************************************************************************)
EXTENDS Naturals, FiniteSets

CONSTANTS
  Rules,        \* the rules in the config: [complete, when, action, scope, need, backedUp]
  LastDay,      \* days are 1..LastDay
  MaxMoves,     \* bound: how often the world changes
  None

VARIABLES
  live, status, \* external: the indices there are; open, close or red, which stays
  good,         \* external: those a successful snapshot holds
  readable,     \* external: the repository answers
  list,         \* state.indices: those the page last listed
  run,          \* runAutomation under way, at one of the waits of a rule; None
  proposal,     \* what the last run left: [action, targets, and (history) safe: the repository
                \* showed them all, and none was the newest]; None when there was nothing, or
                \* the rule was skipped
  dialog,       \* deleteIndices or closeIndices under way; None
  asked,        \* history: the indices the second question named, of this dialog
  proved,       \* history: those the reading of this dialog found in a good snapshot
  lost,         \* history: indices deleted without either
  moves

vars == <<live, status, good, readable, list, run, proposal, dialog, asked, proved, lost, moves>>

Index == 0..LastDay
Dated(s) == s \ {0}
Statuses == {[i \in Index |-> "open"]} \cup
            {[[i \in Index |-> "open"] EXCEPT ![1] = "red"]}

Init ==
  /\ live = Index /\ status \in Statuses /\ good = {1} /\ readable = TRUE
  /\ list = live /\ run = None /\ proposal = None /\ dialog = None
  /\ asked = {} /\ proved = {} /\ lost = {} /\ moves = 0

World ==
  /\ moves < MaxMoves /\ moves' = moves + 1
  /\ \/ \E i \in live : good' = (IF i \in good THEN good \ {i} ELSE good \cup {i})
        /\ UNCHANGED readable
     \/ readable' = ~readable /\ UNCHANGED good
  /\ UNCHANGED <<live, status, list, run, proposal, dialog, asked, proved, lost>>

FetchIndices ==
  /\ dialog = None
  /\ list' = live
  /\ UNCHANGED <<live, status, good, readable, run, proposal, dialog, asked, proved, lost, moves>>

\* verifyIndicesInSnapshots: a repository that does not answer covers nothing.
Covered(names) == IF readable THEN names \cap good ELSE {}

-----------------------------------------------------------------------------
(* The checks. *)

Newest(s) == IF Dated(s) = {} THEN 0 ELSE CHOOSE d \in Dated(s) : \A e \in Dated(s) : e <= d

ToDelete(targets, newest) ==
  [action |-> "delete", targets |-> targets,
   safe |-> targets \subseteq Covered(targets) /\ (newest = 0 \/ newest \notin targets)]

\* A run begins on the page, or as the last thing a dialog does: never under one.
Ask(r) ==
  /\ run = None /\ dialog = None /\ run' = r
  /\ UNCHANGED <<live, status, good, readable, list, proposal, dialog, asked, proved, lost, moves>>

Conclude(p) ==
  /\ run' = None /\ proposal' = p
  /\ UNCHANGED <<live, status, good, readable, list, dialog, asked, proved, lost, moves>>

\* The built-in rule: past the window, not the newest day, and not closed.
Expired(cutoff) ==
  {i \in Dated(list) : i < cutoff /\ i # Newest(list) /\ status[i] # "close"}

RetentionRule ==
  \E cutoff \in 1..(LastDay + 1) :
    /\ Expired(cutoff) # {}
    /\ Ask([by |-> "rule", picked |-> Expired(cutoff), newest |-> Newest(list)])

RetentionVerdict ==
  /\ run # None /\ run.by = "rule"
  /\ Conclude(IF ~readable THEN None
              ELSE ToDelete(run.picked \cap Covered(run.picked), run.newest))

\* matchIndices and applyScope: `meant` is what the other conditions match.
Scoped(scope, s) ==
  CASE scope = "all" -> s
    [] scope = "oldestDay" -> {i \in Dated(s) : \A j \in Dated(s) : i <= j}

\* Past the trigger: a rule that deletes goes on to the rails and a listing of its own;
\* the others hold back, of what they would close, the newest day, red ones and closed ones.
Triggered(rule, picked, newest) ==
  IF Cardinality(picked) < rule.need
  THEN run' = None /\ proposal' = None
  ELSE IF rule.action = "delete"
  THEN run' = [by |-> "rails", picked |-> picked, newest |-> newest] /\ UNCHANGED proposal
  ELSE LET no == IF rule.action = "notify" THEN {}
                 ELSE {i \in picked \ {0} : i = newest \/ status[i] # "open"}
       IN  /\ run' = None
           /\ proposal' = [action |-> rule.action, targets |-> picked \ no, safe |-> TRUE]

\* validateRule: a rule may have been written by hand.
Complete(rule) == rule.complete

\* testPreconditions: `fact` is what is known of the cluster, and unknown is never a match.
InThatState(rule, fact) == rule.when = None \/ (fact # None /\ fact = rule.when)

\* A user's rule: conditions on names, days and sizes (`meant`) need no answer; one on
\* backups waits for a listing of the repositories.
UserRule ==
  \E rule \in Rules, meant \in {list, Dated(list)}, fact \in {"STOPPED", "RUNNING", None} :
    /\ run = None /\ dialog = None /\ list # {}
    /\ IF ~Complete(rule) \/ ~InThatState(rule, fact)
       THEN proposal' = None /\ UNCHANGED run
       ELSE IF rule.backedUp = None
       THEN Triggered(rule, Scoped(rule.scope, meant), Newest(list))
       ELSE /\ run' = [by |-> "user", rule |-> rule, meant |-> meant, newest |-> Newest(list)]
            /\ UNCHANGED proposal
    /\ UNCHANGED <<live, status, good, readable, list, dialog, asked, proved, lost, moves>>

\* A condition on an index nothing is known of does not hold; and of a repository that could
\* not be read nothing destructive follows.
UserMatch ==
  /\ run # None /\ run.by = "user"
  /\ LET found == Covered(run.meant)
         matched == IF run.rule.backedUp = "yes" THEN found ELSE run.meant \ found
     IN  IF run.rule.action # "notify" /\ ~readable
         THEN run' = None /\ proposal' = None
         ELSE Triggered(run.rule, Scoped(run.rule.scope, matched), run.newest)
  /\ UNCHANGED <<live, status, good, readable, list, dialog, asked, proved, lost, moves>>

\* The rails of a rule that deletes, after a listing of its own.  A closed index may go.
UserVerdict ==
  /\ run # None /\ run.by = "rails"
  /\ LET no == {i \in run.picked : \/ i # 0 /\ i = run.newest
                                   \/ status[i] = "red" \/ i \notin Covered(run.picked)}
     IN  Conclude(ToDelete(run.picked \ no, run.newest))

-----------------------------------------------------------------------------
(* The dialogs. *)

Open(kind, names) ==
  /\ dialog = None /\ names # {}
  /\ dialog' = [kind |-> kind, names |-> names, covered |-> {},
                step |-> IF kind = "delete" THEN "reads" ELSE "first"]
  /\ UNCHANGED <<live, status, good, readable, list, run, proposal, asked, proved, lost, moves>>

\* runButton: the work of a proposal is handed to the dialogs.
Review ==
  /\ proposal # None /\ proposal.action \in {"delete", "close"}
  /\ Open(proposal.action, proposal.targets)

\* And from the tables of the Indices page: a row's menu, or what is ticked there.
Choose == \E kind \in {"delete", "close"}, names \in {list} \cup {{i} : i \in list} :
            Open(kind, names)

\* Mutant of Known: what comes from a proposal was checked there.
KnownFromProposal(names) ==
  IF proposal # None /\ proposal.action = "delete" /\ names = proposal.targets
  THEN names ELSE Covered(names)

Known(names) == Covered(names)

Reads ==
  /\ dialog # None /\ dialog.step = "reads"
  /\ dialog' = [dialog EXCEPT !.covered = Known(dialog.names), !.step = "first"]
  /\ proved' = IF readable THEN good ELSE {}
  /\ UNCHANGED <<live, status, good, readable, list, run, proposal, asked, lost, moves>>

\* Yes: the second question follows only for what no snapshot holds.
Yes ==
  /\ dialog # None /\ dialog.step \in {"first", "second"}
  /\ LET bare == dialog.names \ dialog.covered
     IN  IF dialog.step = "first" /\ dialog.kind = "delete" /\ bare # {}
         THEN dialog' = [dialog EXCEPT !.step = "second"] /\ asked' = bare
         ELSE dialog' = [dialog EXCEPT !.step = "acts"] /\ UNCHANGED asked
  /\ UNCHANGED <<live, status, good, readable, list, run, proposal, proved, lost, moves>>

Cancel ==
  /\ dialog # None /\ dialog.step \in {"first", "second"}
  /\ dialog' = None /\ asked' = {} /\ proved' = {}
  /\ UNCHANGED <<live, status, good, readable, list, run, proposal, lost, moves>>

\* forEachIndex: one at a time; one that fails is named at the end and the rest go on.
Act ==
  /\ dialog # None /\ dialog.step = "acts"
  /\ \E i \in dialog.names :
       /\ \A j \in dialog.names : i <= j
       /\ dialog' = [dialog EXCEPT !.names = @ \ {i}]
       /\ \/ /\ i \in live /\ dialog.kind = "delete"
             /\ live' = live \ {i}
             /\ lost' = lost \cup ({i} \ (proved \cup asked))
          \/ UNCHANGED <<live, lost>>
  /\ UNCHANGED <<status, good, readable, list, run, proposal, asked, proved, moves>>

\* report, and onChanged, which lists the indices again.
Done ==
  /\ dialog # None /\ dialog.step = "acts" /\ dialog.names = {}
  /\ dialog' = None /\ list' = live /\ asked' = {} /\ proved' = {}
  /\ UNCHANGED <<live, status, good, readable, run, proposal, lost, moves>>

Next ==
  \/ World \/ FetchIndices
  \/ RetentionRule \/ RetentionVerdict \/ UserRule \/ UserMatch \/ UserVerdict
  \/ Review \/ Choose \/ Reads \/ Yes \/ Cancel \/ Act \/ Done

Spec == Init /\ [][Next]_vars

-----------------------------------------------------------------------------
(***************************************************************************)
(* Nothing is lost unasked: an index that was deleted was found in a good  *)
(* snapshot when the dialog looked, or named in the question that says     *)
(* there is none; what a check proposed before counts for nothing.  And a  *)
(* rule, whoever wrote it, never proposes deleting the newest day, nor     *)
(* what the repository did not show it.                                    *)
(***************************************************************************)
NothingLostUnasked ==
  /\ lost = {}
  /\ proposal # None => proposal.safe

\* Inductive (ConsoleProofs): a run of the rule passed over the newest day; and what a dialog
\* acts on was found by its own reading, or named in its second question.
DialogIsCareful ==
  dialog # None /\ dialog.kind = "delete" =>
    /\ dialog.step \in {"first", "second"} => dialog.covered \subseteq proved
    /\ dialog.step = "second" => dialog.names \subseteq dialog.covered \cup asked
    /\ dialog.step = "acts" => dialog.names \subseteq proved \cup asked

HousekeepingInv ==
  /\ NothingLostUnasked
  /\ run # None /\ run.by = "rule" => run.newest \notin run.picked
  /\ dialog # None => DOMAIN dialog = {"kind", "names", "covered", "step"}
  /\ DialogIsCareful
=============================================================================
