------------------------------- MODULE RuleBook -------------------------------
(***************************************************************************)
(* The automations operators write (ui/rule-builder.js, the vocabulary of  *)
(* core/user-rules.js and the Automation page's edit and destroy): a rule  *)
(* is built on a copy, with two previews against a cluster, and is put in  *)
(* the config in memory and then written to its file, or taken out of it.  *)
(***************************************************************************)
EXTENDS Integers, Sequences

CONSTANTS
  Cluster,
  Id,           \* rules have names of their own
  MaxEdits,     \* bound: changes made in builders, by a behaviour
  MaxSaves,     \* bound: saves and removals
  None

VARIABLES
  about,        \* bound: building with its previews, or saving; a behaviour shows one of them
  book, file,   \* raw.automations in memory; external: in the file
  builder,      \* the one that is open: [id, rule, existing, cluster, shown]; None
  edits,        \* how many there were
  due,          \* the debounce is armed
  previews,     \* those under way, oldest first: [cluster, pane, rule]
  panes,        \* what each was last made of: [rule, cluster]; None
  crossed,      \* history: a preview began before another of this builder had ended
  saving,       \* those under way: [id, was, text, st]
  saves,
  told,         \* history: what the operator was last told is stored
  doubtful      \* history: an operation began during another's save, or a save failed once written

vars == <<about, book, file, builder, edits, due, previews, panes, crossed, saving, saves, told, doubtful>>
builderVars == <<builder, edits, due, previews, panes, crossed>>
bookVars == <<about, book, file, saving, saves, told, doubtful>>

-----------------------------------------------------------------------------
(* The vocabulary.  A value is "" when left out, and "odd" when it is not  *)
(* a duration, a size or a number.                                         *)

FIELDS ==
  [name     |-> [ops |-> <<"contains", "notContains", "startsWith", "endsWith">>, value |-> "text"],
   source   |-> [ops |-> <<"is", "isNot">>,                 value |-> "text"],
   day      |-> [ops |-> <<"olderThan", "newerThan">>,      value |-> "duration"],
   size     |-> [ops |-> <<"greaterThan", "lessThan">>,     value |-> "size"],
   docs     |-> [ops |-> <<"greaterThan", "lessThan">>,     value |-> "number"],
   status   |-> [ops |-> <<"is">>,                          value |-> "choice"],
   health   |-> [ops |-> <<"is", "isNot">>,                 value |-> "choice"],
   backedUp |-> [ops |-> <<"is">>,                          value |-> "choice"]]

CLUSTER_FIELDS ==
  [diskPercent     |-> [ops |-> <<"greaterThan", "lessThan">>, value |-> "number"],
   ilmState        |-> [ops |-> <<"is", "isNot">>, value |-> "choice"],
   slmState        |-> [ops |-> <<"is", "isNot">>, value |-> "choice"],
   retentionFits   |-> [ops |-> <<"is">>,          value |-> "choice"],
   lastSnapshotAge |-> [ops |-> <<"olderThan">>,   value |-> "duration"]]

Cond(f, op, v) == [field |-> f, op |-> op, value |-> v]

blankRule ==
  [named |-> FALSE, clusters |-> "*", when |-> <<>>,
   conditions |-> <<Cond("day", "olderThan", "fits")>>,
   scope |-> "all", days |-> 2, trigger |-> "any", count |-> 5, action |-> "notify",
   alert |-> TRUE, webhook |-> ""]

diskPressurePreset ==
  [blankRule EXCEPT !.named = TRUE,
     !.when = <<Cond("diskPercent", "greaterThan", "fits"), Cond("ilmState", "is", "fits"),
                Cond("slmState", "is", "fits"), Cond("retentionFits", "is", "fits")>>,
     !.conditions = <<Cond("name", "startsWith", "fits"), Cond("backedUp", "is", "fits")>>,
     !.scope = "oldestDay", !.days = 1, !.action = "propose-delete"]

HasOp(c, fields) == \E i \in DOMAIN fields[c.field].ops : fields[c.field].ops[i] = c.op

\* A condition of validateRule: the op is one of the field's, and the value of its kind.
Fits(c, fields) ==
  /\ HasOp(c, fields)
  /\ c.value # ""
  /\ c.value = "odd" => fields[c.field].value \in {"text", "choice"}

\* No errors.
validateRule(r) ==
  /\ r.named /\ r.conditions # <<>>
  /\ \A i \in DOMAIN r.conditions : Fits(r.conditions[i], FIELDS)
  /\ \A i \in DOMAIN r.when : Fits(r.when[i], CLUSTER_FIELDS)
  /\ (r.scope = "oldestDays" => r.days > 0) /\ (r.trigger = "atLeast" => r.count > 0)
  /\ (r.alert \/ r.webhook # "") /\ r.webhook # "odd"

-----------------------------------------------------------------------------
Idle == [id |-> None, was |-> None, text |-> None, st |-> "idle"]

Init ==
  /\ about \in {"building", "saving"}
  /\ book = [x \in Id |-> None] /\ file = book /\ told = book
  /\ builder = None /\ edits = 0 /\ due = FALSE /\ previews = <<>>
  /\ panes = [match |-> None, action |-> None] /\ crossed = FALSE
  /\ saving = [s \in 1..2 |-> Idle] /\ saves = 0 /\ doubtful = FALSE

Quiet == \A s \in 1..2 : saving[s].st = "idle"

\* Date.now() gives a new rule a name of its own.
NewId == LET free == {x \in Id : book[x] = None} IN IF free = {} THEN {} ELSE {CHOOSE x \in free : TRUE}

\* The builder: a copy, its controls made from it, and a first preview due.
ruleBuilder ==
  /\ builder = None
  /\ \E x \in {y \in Id : book[y] # None} \cup NewId, c \in {CHOOSE d \in Cluster : TRUE, None} :
       LET rule == IF book[x] = None THEN blankRule ELSE book[x]
       IN  builder' = [id |-> x, rule |-> rule, existing |-> book[x], cluster |-> c,
                       shown |-> rule]
  /\ due' = TRUE /\ previews' = <<>> /\ panes' = [match |-> None, action |-> None]
  /\ crossed' = FALSE /\ doubtful' = (doubtful \/ ~Quiet)
  /\ UNCHANGED <<about, edits, book, file, saving, saves, told>>

\* Mutant of refresh: not while a preview is under way, which will be drawn anyway.
refreshIdle == due' = (due \/ previews = <<>>)

refresh == due' = TRUE

\* Every control changes the rule, shows it, and asks for the previews.
Change(r) ==
  /\ edits < MaxEdits /\ edits' = edits + 1
  /\ builder' = [builder EXCEPT !.rule = r, !.shown = r]
  /\ refresh
  /\ UNCHANGED <<previews, panes, crossed, bookVars>>

Values(kind) == IF kind = "choice" THEN {"fits"} ELSE {"", "odd", "fits"}

Replaced(s, i, c) == [s EXCEPT ![i] = c]
Without(s, i) == SubSeq(s, 1, i - 1) \o SubSeq(s, i + 1, Len(s))
First(fields, f) == fields[f].ops[1]

\* Mutant of conditionRow: the operator stays.
conditionRowKept(c) ==
  {[c EXCEPT !.field = f, !.value = IF FIELDS[f].value = "choice" THEN "fits" ELSE ""] : f \in DOMAIN FIELDS}
  \cup {[c EXCEPT !.value = v] : v \in Values(FIELDS[c.field].value)}

\* conditionRow: another field takes its first operator, and no value but a choice's first.
conditionRow(c) ==
  {Cond(f, First(FIELDS, f), IF FIELDS[f].value = "choice" THEN "fits" ELSE "") : f \in DOMAIN FIELDS}
  \cup {[c EXCEPT !.op = FIELDS[c.field].ops[i]] : i \in DOMAIN FIELDS[c.field].ops}
  \cup {[c EXCEPT !.value = v] : v \in Values(FIELDS[c.field].value)}

\* whenRow: likewise, and a value that fits.
whenRow(c) ==
  {Cond(f, First(CLUSTER_FIELDS, f), "fits") : f \in DOMAIN CLUSTER_FIELDS}
  \cup {[c EXCEPT !.op = CLUSTER_FIELDS[c.field].ops[i]] : i \in DOMAIN CLUSTER_FIELDS[c.field].ops}
  \cup {[c EXCEPT !.value = v] : v \in Values(CLUSTER_FIELDS[c.field].value)}

drawConditions ==
  /\ builder # None /\ about = "building"
  /\ LET r == builder.rule IN
     \/ Change([r EXCEPT !.conditions = Append(@, Cond("name", "contains", ""))])
     \/ \E i \in DOMAIN r.conditions :
          \/ Len(r.conditions) > 1 /\ Change([r EXCEPT !.conditions = Without(@, i)])
          \/ \E c \in conditionRow(r.conditions[i]) \ {r.conditions[i]} :
               Change([r EXCEPT !.conditions = Replaced(@, i, c)])

drawWhen ==
  /\ builder # None /\ about = "building"
  /\ LET r == builder.rule IN
     \/ Change([r EXCEPT !.when = Append(@, Cond("diskPercent", "greaterThan", "fits"))])
     \/ \E i \in DOMAIN r.when :
          \/ Change([r EXCEPT !.when = Without(@, i)])
          \/ \E c \in whenRow(r.when[i]) \ {r.when[i]} : Change([r EXCEPT !.when = Replaced(@, i, c)])

\* The other controls.
Controls ==
  /\ builder # None
  /\ LET r == builder.rule IN
     \/ Change([r EXCEPT !.named = ~@])
     \/ \E c \in Cluster \cup {"*"} : Change([r EXCEPT !.clusters = c])
     \/ \E t \in {"any", "atLeast"} : Change([r EXCEPT !.trigger = t])
     \/ r.trigger = "atLeast" /\ \E n \in {0, 3} : Change([r EXCEPT !.count = n])
     \/ \E k \in {"all", "oldestDay", "oldestDays"} : Change([r EXCEPT !.scope = k])
     \/ r.scope = "oldestDays" /\ \E n \in {0, 3} : Change([r EXCEPT !.days = n])
     \/ \E a \in {"notify", "propose-close", "propose-delete"} : Change([r EXCEPT !.action = a])
     \/ Change([r EXCEPT !.alert = ~@])
     \/ \E w \in {"", "odd", "fits"} : Change([r EXCEPT !.webhook = w])

\* Mutant of redrawAll: the scope is forgotten too.
redrawAllShort(old, r) ==
  [r EXCEPT !.clusters = old.clusters, !.count = old.count, !.scope = old.scope, !.days = old.days]

\* What the controls show once the template is in: all is repainted but "Applies to" and the count.
redrawAll(old, r) == [r EXCEPT !.clusters = old.clusters, !.count = old.count]

\* The template, which is there for a new rule.
Template ==
  /\ builder # None /\ builder.existing = None /\ edits < MaxEdits /\ edits' = edits + 1
  /\ builder' = [builder EXCEPT !.rule = diskPressurePreset,
                                !.shown = redrawAll(builder.shown, diskPressurePreset)]
  /\ refresh
  /\ UNCHANGED <<previews, panes, crossed, bookVars>>

\* Another cluster to preview against.
PreviewAgainst ==
  /\ builder # None /\ builder.cluster # None /\ edits < MaxEdits /\ edits' = edits + 1
  /\ \E c \in Cluster \ {builder.cluster} : builder' = [builder EXCEPT !.cluster = c]
  /\ refresh
  /\ UNCHANGED <<previews, panes, crossed, bookVars>>

-----------------------------------------------------------------------------
(* The previews.  Nothing tells one of an older rule from the latest.      *)

Now == [rule |-> builder.rule, cluster |-> builder.cluster]

\* The timer runs out.  With no cluster, or no list of its indices, there is nothing to show.
runPreviews ==
  /\ builder # None /\ about = "building" /\ due /\ due' = FALSE
  /\ crossed' = (crossed \/ previews # <<>>)
  /\ \/ panes' = [match |-> Now, action |-> Now] /\ UNCHANGED previews
     \/ /\ builder.cluster # None /\ Len(previews) < 2
        /\ previews' = Append(previews, [pane |-> "match", of |-> Now])
        /\ UNCHANGED panes
  /\ UNCHANGED <<builder, edits, bookVars>>

\* What is mounted is of the rule and the cluster it began with, or, if one changed, of neither.
Mounted(p) == IF p.of = Now THEN p.of ELSE None

\* matchIndices has answered, or failed; the second half begins with what the rule is by now.
MatchAnswer(k) ==
  /\ builder # None /\ k \in DOMAIN previews /\ previews[k].pane = "match"
  /\ panes' = [panes EXCEPT !.match = Mounted(previews[k])]
  /\ previews' = [previews EXCEPT ![k] = [pane |-> "action", of |-> Now]]
  /\ UNCHANGED <<builder, edits, due, crossed, bookVars>>

ActionAnswer(k) ==
  /\ builder # None /\ k \in DOMAIN previews /\ previews[k].pane = "action"
  /\ panes' = [panes EXCEPT !.action = Mounted(previews[k])]
  /\ previews' = Without(previews, k)
  /\ UNCHANGED <<builder, edits, due, crossed, bookVars>>

-----------------------------------------------------------------------------
(* The page. *)

Close ==
  /\ builder' = None /\ due' = FALSE /\ previews' = <<>>
  /\ panes' = [match |-> None, action |-> None] /\ crossed' = FALSE /\ UNCHANGED edits

Cancel == builder # None /\ Close /\ UNCHANGED bookVars

\* putRule or removeRule, and saveRaw on its way with what memory holds now.
Put(s, x, r, was) ==
  /\ about = "saving" /\ saving[s].st = "idle" /\ saves < MaxSaves /\ saves' = saves + 1
  /\ book' = [book EXCEPT ![x] = r]
  /\ saving' = [saving EXCEPT ![s] = [id |-> x, was |-> was, text |-> book', st |-> "asked"]]
  /\ doubtful' = (doubtful \/ ~Quiet)
  /\ UNCHANGED <<about, file, told>>

edit(s) ==
  /\ builder # None /\ validateRule(builder.rule)
  /\ Put(s, builder.id, builder.rule, builder.existing) /\ Close

\* Not while the builder is over the page.
destroy(s) ==
  /\ builder = None
  /\ \E x \in Id : book[x] # None /\ Put(s, x, None, book[x])
  /\ UNCHANGED builderVars

\* The core writes the file; or refuses, and the page is told.
Written(s) ==
  /\ saving[s].st = "asked"
  /\ file' = saving[s].text /\ saving' = [saving EXCEPT ![s].st = "written"]
  /\ UNCHANGED <<book, saves, told, doubtful, about, builderVars>>

Stored(s) ==
  /\ saving[s].st = "written"
  /\ saving' = [saving EXCEPT ![s] = Idle]
  /\ told' = [told EXCEPT ![saving[s].id] = saving[s].text[saving[s].id]]
  /\ UNCHANGED <<about, book, file, saves, doubtful, builderVars>>

\* Mutant of Undone: what was not stored is removed, whatever it was.
UndoneByRemoval(x, was) == [book EXCEPT ![x] = None]

\* A save that failed is undone in memory: what was there is put back.
Undone(x, was) == [book EXCEPT ![x] = was]

\* saveRaw also fails when the file cannot be read back, or the secrets not opened, after.
Failed(s) ==
  /\ saving[s].st # "idle"
  /\ saving' = [saving EXCEPT ![s] = Idle]
  /\ book' = Undone(saving[s].id, saving[s].was)
  /\ doubtful' = (doubtful \/ saving[s].st = "written")
  /\ UNCHANGED <<about, file, saves, told, builderVars>>

Next ==
  \/ ruleBuilder \/ drawConditions \/ drawWhen \/ Controls \/ Template \/ PreviewAgainst
  \/ runPreviews \/ \E k \in 1..2 : MatchAnswer(k) \/ ActionAnswer(k)
  \/ Cancel \/ \E s \in 1..2 : edit(s) \/ destroy(s) \/ Written(s) \/ Stored(s) \/ Failed(s)

Spec == Init /\ [][Next]_vars

-----------------------------------------------------------------------------
\* What the operator was told is stored is stored, in memory and in the file, and so is what an
\* edit that was cancelled or refused began from; unless one operation began during the save of
\* another, or a save failed once the file was written.
StoredAsTold == Quiet /\ ~doubtful => book = told /\ file = told

\* No condition keeps an operator its field does not have, whatever was chosen before.
OperatorsBelong ==
  builder # None =>
    /\ \A i \in DOMAIN builder.rule.conditions : HasOp(builder.rule.conditions[i], FIELDS)
    /\ \A i \in DOMAIN builder.rule.when : HasOp(builder.rule.when[i], CLUSTER_FIELDS)

\* What the controls show is the rule; but for "Applies to" and the count, once the template
\* has been taken.
ScreenTellsTheRule ==
  builder # None =>
    [builder.shown EXCEPT !.clusters = "*", !.count = 0] = [builder.rule EXCEPT !.clusters = "*", !.count = 0]

\* With nothing due or under way, both panes are of the rule and the cluster on the screen;
\* unless one preview began before another had ended.
PanesAreOfTheRule ==
  builder # None /\ ~due /\ previews = <<>> /\ ~crossed => panes = [match |-> Now, action |-> Now]

(***************************************************************************)
(* The rules are as told: what is stored, what a rule is built from, what  *)
(* the screen and its preview say of it.                                   *)
(***************************************************************************)
RulesAreAsTold == StoredAsTold /\ OperatorsBelong /\ ScreenTellsTheRule /\ PanesAreOfTheRule

-----------------------------------------------------------------------------
(***************************************************************************)
(* The inductive invariants behind the four (proved in ConsoleProofs).     *)
(***************************************************************************)
OpsOf(fields) == UNION {{fields[f].ops[i] : i \in DOMAIN fields[f].ops} : f \in DOMAIN fields}
Conditions(fields) ==
  {c \in [field : DOMAIN fields, op : OpsOf(fields), value : {"", "odd", "fits"}] : HasOp(c, fields)}

\* A rule whose conditions are of its vocabulary.
Shaped(r) ==
  /\ DOMAIN r = DOMAIN blankRule
  /\ r.conditions \in Seq(Conditions(FIELDS)) /\ r.when \in Seq(Conditions(CLUSTER_FIELDS))

BookInv ==
  /\ book = [x \in Id |-> book[x]]
  /\ \A x \in Id : book[x] # None => Shaped(book[x])
  /\ DOMAIN saving = 1..2
  /\ \A s \in 1..2 : /\ DOMAIN saving[s] = DOMAIN Idle /\ saving[s].st \in {"idle", "asked", "written"}
                     /\ saving[s].st # "idle" => saving[s].id \in Id
                     /\ saving[s].was # None => Shaped(saving[s].was)

BuilderInv ==
  builder # None =>
    /\ DOMAIN builder = {"id", "rule", "existing", "cluster", "shown"} /\ builder.id \in Id
    /\ Shaped(builder.rule) /\ (builder.existing # None => Shaped(builder.existing))
    /\ ScreenTellsTheRule

\* While none overtakes another, there is one preview at most, of what is on the screen unless
\* another is due.
PanesInv ==
  /\ crossed \in BOOLEAN /\ due \in BOOLEAN
  /\ panes = [match |-> panes.match, action |-> panes.action]
  /\ builder # None /\ ~crossed =>
       /\ previews = <<>> \/ previews = <<previews[1]>>
       /\ ~due => /\ previews = <<>> => panes.match = Now /\ panes.action = Now
                  /\ previews # <<>> =>
                       previews[1].of = Now /\ (previews[1].pane = "action" => panes.match = Now)

\* While nothing is in doubt, there is one save at most, of one change to what is stored, and no
\* builder open beside it.
SavingInv ==
  /\ doubtful \in BOOLEAN /\ told = [x \in Id |-> told[x]]
  /\ ~doubtful =>
       /\ Quiet => book = told /\ file = told
       /\ builder # None => Quiet /\ builder.existing = told[builder.id]
       /\ \A s \in 1..2 : saving[s].st # "idle" =>
            /\ \A u \in 1..2 \ {s} : saving[u].st = "idle"
            /\ saving[s].was = told[saving[s].id] /\ book = saving[s].text
            /\ book = [told EXCEPT ![saving[s].id] = book[saving[s].id]]
            /\ saving[s].st = "asked" => file = told
            /\ saving[s].st # "asked" => file = saving[s].text
=============================================================================
