------------------------------ MODULE IndexTable ------------------------------
(***************************************************************************)
(* The Indices page (pages/indices.js) of one cluster: its table, filtered *)
(* and shown a page at a time (lib/pager.js), with what is ticked in it;   *)
(* the actions on one index or on all that are ticked, and the dialog that *)
(* changes their settings (ui/index-actions.js); and the search that looks *)
(* in the snapshots as well (core/snapshot-verify.js).                     *)
(***************************************************************************)
EXTENDS Integers, FiniteSets

CONSTANTS
  LastIndex,    \* indices are 1..LastIndex, sorted by name
  PerPage,      \* tableRowsPerPage
  Texts,        \* what a text typed in the search box matches: sets of indices
  Repo,
  MaxFound,     \* `max` of findIndexEverywhere
  MaxMoves,     \* bound: how often the indices change, from here or elsewhere
  MaxFilters,   \* bound: how often the filters do
  None

VARIABLES
  about,        \* bound: the table, the settings or the search; a behaviour shows one of them
  live,         \* external: the indices there are: "open" or "close"
  moves,
  list,         \* state.indices
  filter,       \* of ui: [text, source, status, from, to]
  filters,
  page,         \* ui.page
  selected,
  loading,
  dialog,       \* an action under way: [kind, names, step, and of the settings what it shows]; None
  settings,     \* external: [rep, block] of each index
  spoiled,      \* history: settings that changed though nobody touched them in the dialog
  held,         \* external: [repo -> [index -> "SUCCESS" or None]], of the first two indices
  repos,        \* the repositories an overview listed, of state.data: {} before one
  searches,     \* under way: [term, asked, left, found, unverified]; None
  ev,           \* [term, result]
  crossed       \* history: the last search to begin did so under another

vars == <<about, live, moves, list, filter, filters, page, selected, loading, dialog,
          settings, spoiled, held, repos, searches, ev, crossed>>
tableVars == <<live, moves, list, filter, filters, page, selected, loading>>
searchVars == <<held, repos, searches, ev, crossed>>

Index == 1..LastIndex
Source(i) == IF i = LastIndex THEN None ELSE "s"
NoFilter == [text |-> Index, source |-> "all", status |-> "all", from |-> 1, to |-> LastIndex]

Init ==
  /\ about \in {"table", "settings", "search"}
  /\ live = [i \in Index |-> IF i = 1 THEN "close" ELSE "open"] /\ moves = 0
  /\ list = live /\ filter = NoFilter /\ filters = 0 /\ page = 0
  /\ selected = {} /\ loading = FALSE /\ dialog = None
  /\ settings = [i \in Index |-> [rep |-> 1, block |-> i = 1]] /\ spoiled = {}
  /\ held \in [Repo -> [{1, 2} -> {"SUCCESS", None}]]
  /\ about # "search" => \A r \in Repo, i \in {1, 2} : held[r][i] = None
  /\ repos = {} /\ searches = [s \in 1..2 |-> None] /\ ev = [term |-> None, result |-> None] /\ crossed = FALSE

-----------------------------------------------------------------------------
(* The table. *)

\* rowsFor: an index without a date passes any range.
rowsFor(f) ==
  {i \in DOMAIN list \cap f.text :
     /\ f.source = "all" \/ Source(i) = f.source
     /\ f.status = "all" \/ list[i] = f.status
     /\ i = LastIndex \/ i \in f.from..f.to}

pageCount(n) == IF n = 0 THEN 1 ELSE (n + PerPage - 1) \div PerPage

\* Mutant of clampPage: the page stays where it was.
clampPageNot(p, n) == p

clampPage(p, n) == IF p < pageCount(n) THEN p ELSE pageCount(n) - 1

\* pageSlice: the rows of a page.
pageSlice(p, rows) ==
  {i \in rows : LET rank == Cardinality({j \in rows : j < i})
                    at == clampPage(p, Cardinality(rows)) * PerPage
                IN  rank >= at /\ rank < at + PerPage}

Shown == pageSlice(page, rowsFor(filter))

\* redrawTable writes the page it shows back; draw does not.
redrawTable(f, p) == page' = clampPage(p, Cardinality(rowsFor(f)))

SetFilter(f) ==
  /\ about = "table" /\ filters < MaxFilters /\ filters' = filters + 1 /\ f # filter
  /\ filter' = f
  /\ UNCHANGED <<about, live, moves, list, selected, loading, dialog, settings, spoiled, searchVars>>

\* The search boxes, the source and the state begin at the first page; the days do not.
Filter ==
  \/ \E t \in Texts : SetFilter([filter EXCEPT !.text = t]) /\ redrawTable([filter EXCEPT !.text = t], 0)
  \/ \E s \in {"all", "s", None} : SetFilter([filter EXCEPT !.source = s]) /\ page' = 0
  \/ \E s \in {"all", "open", "close"} : SetFilter([filter EXCEPT !.status = s]) /\ page' = 0
  \/ \E d \in Index : SetFilter([filter EXCEPT !.from = d]) /\ UNCHANGED page
  \/ \E d \in Index : SetFilter([filter EXCEPT !.to = d]) /\ UNCHANGED page
  \/ SetFilter(NoFilter) /\ page' = 0

\* pagerBar: from the page that is shown.
GoToPage ==
  /\ about = "table"
  /\ \E d \in {-1, 1} :
       LET n == Cardinality(rowsFor(filter))
           p == clampPage(page, n) + d
       IN  p >= 0 /\ p < pageCount(n) /\ redrawTable(filter, p)
  /\ UNCHANGED <<about, live, moves, list, filter, filters, selected, loading, dialog, settings, spoiled, searchVars>>

Ticked(on, off) ==
  /\ dialog = None
  /\ selected' = (selected \cup on) \ off
  /\ UNCHANGED <<about, live, moves, list, filter, filters, loading, dialog, settings, spoiled, searchVars>>

\* A row's box, the one above them for the page that is shown, and the bar's Clear.
Tick ==
  /\ about = "table"
  /\ \/ \E i \in Shown : Ticked({i} \ selected, {i} \cap selected) /\ UNCHANGED page
     \/ Ticked(Shown, {}) /\ redrawTable(filter, page)
     \/ Ticked({}, Shown) /\ redrawTable(filter, page)
     \/ Ticked({}, selected) /\ redrawTable(filter, page)

\* load.
Load ==
  /\ about = "table" /\ ~loading /\ dialog = None /\ loading' = TRUE
  /\ UNCHANGED <<about, live, moves, list, filter, filters, page, selected, dialog, settings, spoiled, searchVars>>

\* The list is replaced and the ticks go; if it could not be had, all is as it was.
Loaded ==
  /\ loading /\ loading' = FALSE
  /\ \/ list' = live /\ selected' = {}
     \/ UNCHANGED <<list, selected>>
  /\ UNCHANGED <<about, live, moves, filter, filters, page, dialog, settings, spoiled, searchVars>>

\* A refresh of the indices from the top bar replaces the list under the ticks.
RefreshedElsewhere ==
  /\ about = "table" /\ list' = live
  /\ UNCHANGED <<about, live, moves, filter, filters, page, selected, loading, dialog, settings, spoiled, searchVars>>

\* Coming to the page.
render ==
  /\ about = "table" /\ dialog = None /\ selected' = {}
  /\ UNCHANGED <<about, live, moves, list, filter, filters, page, loading, dialog, settings, spoiled, searchVars>>

World ==
  /\ about = "table" /\ moves < MaxMoves /\ moves' = moves + 1
  /\ \E i \in DOMAIN live :
       \/ live' = [j \in DOMAIN live \ {i} |-> live[j]]
       \/ live' = [live EXCEPT ![i] = IF @ = "open" THEN "close" ELSE "open"]
  /\ UNCHANGED <<about, list, filter, filters, page, selected, loading, dialog, settings, spoiled, searchVars>>

-----------------------------------------------------------------------------
(* The actions. *)

Acts(kind, names) ==
  /\ dialog = None /\ names # {} /\ moves < MaxMoves /\ moves' = moves + 1
  /\ dialog' = [kind |-> kind, names |-> names, left |-> names, step |-> "asks",
                knows |-> FALSE, rep |-> None, box |-> FALSE, touched |-> FALSE]
  /\ UNCHANGED <<about, live, list, filter, filters, page, selected, loading, settings, spoiled, searchVars>>

\* bulkBar: opening and closing is for what the filter shows, of what is ticked; the rest is
\* for all that is ticked, shown or not.
bulkBar ==
  /\ about = "table"
  /\ LET chosen == selected \cap rowsFor(filter)
     IN  \/ Acts("open", {i \in chosen : list[i] # "open"})
         \/ Acts("close", {i \in chosen : list[i] = "open"})
         \/ \E kind \in {"delete", "maintenance"} : Acts(kind, selected)

\* buildTable: the buttons and the menu of a row.
Row ==
  /\ about = "table"
  /\ \E i \in Shown : \/ Acts(IF list[i] = "open" THEN "close" ELSE "open", {i})
                      \/ \E kind \in {"delete", "maintenance"} : Acts(kind, {i})

\* ensureWrites and the confirmation, which names them all.
Confirm ==
  /\ dialog # None /\ dialog.step = "asks" /\ dialog.kind # "settings"
  /\ \/ dialog' = [dialog EXCEPT !.step = "acts"]
     \/ dialog' = None
  /\ UNCHANGED <<about, tableVars, settings, spoiled, searchVars>>

\* forEachIndex: what the cluster refuses, or no longer has, is named at the end.
Act(i) ==
  /\ dialog # None /\ dialog.step = "acts" /\ dialog.kind # "settings" /\ i \in dialog.left
  /\ \A j \in dialog.left : i <= j
  /\ dialog' = [dialog EXCEPT !.left = @ \ {i}]
  /\ \/ /\ i \in DOMAIN live
        /\ live' = CASE dialog.kind = "delete" -> [j \in DOMAIN live \ {i} |-> live[j]]
                     [] dialog.kind = "open" -> [live EXCEPT ![i] = "open"]
                     [] dialog.kind = "close" -> [live EXCEPT ![i] = "close"]
                     [] dialog.kind = "maintenance" -> live
     \/ UNCHANGED live
  /\ UNCHANGED <<about, moves, list, filter, filters, page, selected, loading, settings, spoiled, searchVars>>

\* report; afterChange clears the ticks and lists the indices again.
afterChange ==
  /\ dialog # None /\ dialog.step = "acts" /\ dialog.kind # "settings" /\ dialog.left = {}
  /\ dialog' = None /\ selected' = {} /\ loading' = TRUE
  /\ UNCHANGED <<about, live, moves, list, filter, filters, page, settings, spoiled, searchVars>>

-----------------------------------------------------------------------------
(* indexSettingsDialog. *)

\* Of one index it reads the settings, or fails to; of several it does not.  An empty field is None.
indexSettingsDialog ==
  /\ about = "settings" /\ dialog = None
  /\ \E names \in SUBSET Index, knows \in BOOLEAN : \E i \in names :
       /\ knows => names = {i}
       /\ dialog' = [kind |-> "settings", names |-> names, left |-> {}, step |-> "asks",
                     knows |-> knows, rep |-> IF knows THEN settings[i].rep ELSE None,
                     box |-> IF knows THEN settings[i].block ELSE FALSE, touched |-> FALSE]
  /\ UNCHANGED <<about, tableVars, settings, spoiled, searchVars>>

EditSettings ==
  /\ dialog # None /\ dialog.kind = "settings" /\ dialog.step = "asks"
  /\ \/ \E v \in {None, 0, 1} : dialog' = [dialog EXCEPT !.rep = v]
     \/ dialog' = [dialog EXCEPT !.box = ~@, !.touched = TRUE]
     \/ dialog' = None
  /\ UNCHANGED <<about, tableVars, settings, spoiled, searchVars>>

\* Apply.  A number that is none is refused before anything is sent.
ApplySettings ==
  /\ dialog # None /\ dialog.kind = "settings" /\ dialog.step = "asks"
  /\ dialog' = [dialog EXCEPT !.step = "acts", !.left = dialog.names]
  /\ UNCHANGED <<about, tableVars, settings, spoiled, searchVars>>

\* Mutant of Sent: an empty field is a zero.
SentBlank(d, old) == [rep |-> IF d.rep = None THEN 0 ELSE d.rep, block |-> d.box]

\* An empty field is left out; the write block is always sent.
Sent(d, old) == [rep |-> IF d.rep = None THEN old.rep ELSE d.rep, block |-> d.box]

\* All of them, whichever fail.
UpdateSettings(i) ==
  /\ dialog # None /\ dialog.kind = "settings" /\ i \in dialog.left
  /\ \/ LET new == Sent(dialog, settings[i])
        IN  /\ settings' = [settings EXCEPT ![i] = new]
            /\ spoiled' = spoiled
                 \cup (IF dialog.rep = None /\ new.rep # settings[i].rep THEN {"rep"} ELSE {})
                 \cup (IF dialog.knows /\ ~dialog.touched /\ new.block # settings[i].block THEN {"block"} ELSE {})
            /\ dialog' = [dialog EXCEPT !.left = @ \ {i}]
     \/ dialog' = [dialog EXCEPT !.left = @ \ {i}] /\ UNCHANGED <<settings, spoiled>>
  /\ UNCHANGED <<about, tableVars, searchVars>>

\* With a failure the dialog stays, to be tried again; else it closes.
SettingsDone ==
  /\ dialog # None /\ dialog.kind = "settings" /\ dialog.step = "acts" /\ dialog.left = {}
  /\ \/ dialog' = [dialog EXCEPT !.step = "asks"]
     \/ dialog' = None
  /\ UNCHANGED <<about, tableVars, settings, spoiled, searchVars>>

-----------------------------------------------------------------------------
(* searchEverywhere.  Enter begins one while another is under way.         *)

\* fetchOverview: the repositories there are then; those of before if it cannot list them.
\* Bound: one of them finds any.
Overview ==
  /\ about = "search" /\ repos = {}
  /\ repos' \in SUBSET Repo
  /\ UNCHANGED <<about, tableVars, dialog, settings, spoiled, held, searches, ev, crossed>>

\* The repositories it reads are those the last overview listed; an answer names no others.
searchEverywhere(s) ==
  /\ about = "search" /\ searches[s] = None /\ (s = 2 => searches[1] # None)
  /\ \E t \in Texts :
       /\ searches' = [searches EXCEPT ![s] = [term |-> t, asked |-> repos, left |-> repos,
                                               found |-> [i \in {} |-> {}], unverified |-> {}]]
       /\ ev' = [ev EXCEPT !.term = t]
  /\ crossed' = \E o \in 1..2 : searches[o] # None
  /\ UNCHANGED <<about, tableVars, dialog, settings, spoiled, held, repos>>

\* Mutant of Unread: a repository that does not answer is passed over.
UnreadForgotten(s, r) == s.unverified

Unread(s, r) == s.unverified \cup {r}

\* What one repository adds: once there are as many as are wanted the rest is not looked at.
Found(s, r) ==
  LET hits == {i \in s.term \cap {1, 2} : held[r][i] # None}
      add == IF Cardinality(DOMAIN s.found) >= MaxFound THEN {i \in hits : \A j \in hits : i <= j} ELSE hits
  IN  [i \in DOMAIN s.found \cup add |->
         (IF i \in DOMAIN s.found THEN s.found[i] ELSE {}) \cup (IF i \in add THEN {<<r, held[r][i]>>} ELSE {})]

\* The repositories are read one after the other.
ReadRepo(s, r) ==
  /\ searches[s] # None /\ r \in searches[s].left
  /\ \/ searches' = [searches EXCEPT ![s].left = @ \ {r}, ![s].found = Found(searches[s], r)]
     \/ searches' = [searches EXCEPT ![s].left = @ \ {r}, ![s].unverified = Unread(searches[s], r)]
  /\ UNCHANGED <<about, tableVars, dialog, settings, spoiled, held, repos, ev, crossed>>

SearchEnds(s) ==
  /\ searches[s] # None /\ searches[s].left = {}
  /\ ev' = [ev EXCEPT !.result = searches[s]] /\ searches' = [searches EXCEPT ![s] = None]
  /\ UNCHANGED <<about, tableVars, dialog, settings, spoiled, held, repos, crossed>>

\* The panel's Clear.
ClearResult ==
  /\ ev.result # None /\ ev' = [ev EXCEPT !.result = None]
  /\ UNCHANGED <<about, tableVars, dialog, settings, spoiled, held, repos, searches, crossed>>

Next ==
  \/ Filter \/ GoToPage \/ Tick \/ Load \/ Loaded \/ RefreshedElsewhere \/ render \/ World
  \/ bulkBar \/ Row \/ Confirm \/ \E i \in Index : Act(i)
  \/ afterChange \/ indexSettingsDialog \/ EditSettings \/ ApplySettings
  \/ \E i \in Index : UpdateSettings(i)
  \/ SettingsDone \/ Overview \/ ClearResult
  \/ \E s \in 1..2 : searchEverywhere(s) \/ SearchEnds(s) \/ \E r \in Repo : ReadRepo(s, r)

-----------------------------------------------------------------------------
\* However filters, days, refreshes and the pager follow on each other, a table that some index
\* matches is never drawn empty.
SomethingIsShown == rowsFor(filter) # {} => Shown # {}

\* The dialog leaves alone what was left empty in it, on every index; and of one index whose
\* settings it read, the write block too.
SettingsLeftAlone == spoiled = {}

\* What a search that was alone shows is of the term above it, and all that the repositories
\* hold which the last overview before it had listed: an index it does not name, or says no
\* good snapshot holds, is in none of theirs; unless one it names could not be read, or there
\* were more than it wanted.  Of other repositories it says nothing, also that it did not ask.
SearchMissesNothing ==
  LET r == ev.result IN
  r # None /\ ~crossed /\ (\A s \in 1..2 : searches[s] = None) =>
    /\ r.term = ev.term
    /\ r.unverified = {} /\ Cardinality(DOMAIN r.found) < MaxFound =>
         \A i \in r.term \cap {1, 2}, o \in r.asked :
           held[o][i] = "SUCCESS" => i \in DOMAIN r.found /\ <<o, "SUCCESS">> \in r.found[i]

\* Inductive (ConsoleProofs): the rows are of the indices there are, and ticked ones among them.
TableInv ==
  /\ page \in Nat
  /\ DOMAIN live \subseteq Index /\ DOMAIN list \subseteq Index
  /\ selected \subseteq Index

\* A dialog that knows the settings of its one index shows its block until somebody touches it.
Dialog == [kind : {"open", "close", "delete", "maintenance", "settings"}, names : SUBSET Index,
           left : SUBSET Index, step : {"asks", "acts"}, knows : BOOLEAN, rep : {None, 0, 1},
           box : BOOLEAN, touched : BOOLEAN]

DialogInv ==
  /\ settings \in [Index -> [rep : {0, 1}, block : BOOLEAN]]
  /\ dialog \in Dialog \cup {None}
  /\ dialog # None /\ dialog.kind = "settings" =>
       /\ dialog.left \subseteq dialog.names
       /\ dialog.knows /\ ~dialog.touched => \A i \in dialog.names : settings[i].block = dialog.box
  /\ SettingsLeftAlone

\* A search has found what the repositories it has read hold, unless there was one it could
\* not read or more than it wanted; and only one under another can be of an earlier term.
Finds == UNION {[D -> SUBSET (Repo \X {"SUCCESS", None})] : D \in SUBSET {1, 2}}
Query == [term : Texts, asked : SUBSET Repo, left : SUBSET Repo, unverified : SUBSET Repo, found : Finds]

Thorough(q) ==
  q.unverified = {} /\ Cardinality(DOMAIN q.found) < MaxFound =>
    \A i \in q.term \cap {1, 2}, o \in q.asked \ q.left :
      held[o][i] = "SUCCESS" => i \in DOMAIN q.found /\ <<o, "SUCCESS">> \in q.found[i]

SearchInv ==
  /\ held \in [Repo -> [{1, 2} -> {"SUCCESS", None}]] /\ repos \in SUBSET Repo
  /\ searches \in [1..2 -> Query \cup {None}]
  /\ ev.result \in Query \cup {None} /\ DOMAIN ev = {"term", "result"}
  /\ \A s \in 1..2 : searches[s] # None => Thorough(searches[s])
  /\ ev.result # None => Thorough(ev.result) /\ ev.result.left = {}
  /\ ~crossed =>
       /\ searches[2] = None
       /\ searches[1] # None => searches[1].term = ev.term
       /\ searches[1] = None /\ ev.result # None => ev.result.term = ev.term
=============================================================================
