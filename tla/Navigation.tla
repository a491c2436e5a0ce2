----------------------------- MODULE Navigation ------------------------------
(***************************************************************************)
(* The shell of app.js: which tabs a role may open, and what the cluster   *)
(* picker shows on each of them.  Three kinds of page share one selection: *)
(* pages of the whole fleet, pages of one cluster, and the page that       *)
(* offers the fleet but opens on one cluster.  fleetView remembers that    *)
(* the fleet is wanted back; fleetChosen that a person asked for it.       *)
(***************************************************************************)
EXTENDS Naturals

CONSTANTS
  Fleets,       \* the cluster lists the config file may hold, in its order
  All, None

VARIABLES
  role,         \* app.js: me.role; None on a build without accounts
  fleet,        \* clusters(): what the config names, in order
  page,         \* currentPage
  selected,     \* state.selected
  fleetView, fleetChosen,
  chosen        \* history: what a person picked last; All before anybody did

vars == <<role, fleet, page, selected, fleetView, fleetChosen, chosen>>

Members(f) == {f[i] : i \in DOMAIN f}

Rank == [guest |-> 0, user |-> 1, admin |-> 2]

\* One page of each sort PAGES holds: multi is "fleet" or "start" (defaultSingle), the
\* rest show one cluster.
Pages ==
  [ alerts   |-> [shows |-> "fleet", minRole |-> "user",  accountsOnly |-> FALSE],
    overview |-> [shows |-> "fleet", minRole |-> "guest", accountsOnly |-> FALSE],
    indices  |-> [shows |-> "one",   minRole |-> "user",  accountsOnly |-> FALSE],
    shards   |-> [shows |-> "start", minRole |-> "user",  accountsOnly |-> FALSE],
    accounts |-> [shows |-> "fleet", minRole |-> "admin", accountsOnly |-> TRUE],
    settings |-> [shows |-> "fleet", minRole |-> "admin", accountsOnly |-> FALSE] ]

\* visiblePages, with may().
Visible(p) ==
  /\ role # None => Rank[role] >= Rank[Pages[p].minRole]
  /\ Pages[p].accountsOnly => role # None

\* Where go(p) arrives: a tab this role lacks becomes the first one it has.
Landing(p) ==
  IF Visible(p) THEN p
  ELSE IF Visible("alerts") THEN "alerts" ELSE "overview"

\* Mutant of Resolved: leaving a page of one cluster does not give the fleet back.
ResolvedOnce(p, f, s, view, ask) ==
  IF Pages[p].shows # "fleet" /\ s = All /\ f # <<>> /\ ~ask THEN f[1] ELSE s

\* resolveSelection: what the picker shows on page p, when it showed s.
Resolved(p, f, s, view, ask) ==
  IF Pages[p].shows = "fleet" THEN IF view THEN All ELSE s
  ELSE IF s = All /\ f # <<>> /\ (Pages[p].shows = "one" \/ ~ask) THEN f[1]
  ELSE s

\* go: every arrival, and every redraw of the page one is on.
Go(p, f, s, view, ask) ==
  /\ page' = Landing(p)
  /\ selected' = Resolved(Landing(p), f, s, view, ask)

-----------------------------------------------------------------------------
\* start: boot, or the setup screen once it has a config; the hash may name any page.
Init ==
  /\ role \in {None, "guest", "user", "admin"}
  /\ fleet \in Fleets
  /\ fleetView = TRUE /\ fleetChosen = FALSE
  /\ chosen = All
  /\ \E wanted \in DOMAIN Pages :
       /\ page = Landing(wanted)
       /\ selected = Resolved(page, fleet, All, TRUE, FALSE)

\* The picker offers the fleet only on a page that can show it.
Pick(v) ==
  /\ v \in Members(fleet) \/ (v = All /\ Pages[page].shows # "one")
  /\ v # selected
  /\ fleetView' = (v = All) /\ fleetChosen' = (v = All)
  /\ chosen' = v
  /\ Go(page, fleet, v, v = All, v = All)
  /\ UNCHANGED <<role, fleet>>

\* A tab of the nav bar, a hash typed by hand, or a hand-off that names no cluster.
Open(p) ==
  /\ p # page
  /\ Go(p, fleet, selected, fleetView, fleetChosen)
  /\ UNCHANGED <<role, fleet, fleetView, fleetChosen, chosen>>

\* evp:navigate with a cluster: navigateTo from an alert, a volume row, a shard.
HandOff(p, c) ==
  /\ c \in Members(fleet)
  /\ fleetView' = FALSE /\ chosen' = c
  /\ Go(p, fleet, c, FALSE, fleetChosen)
  /\ UNCHANGED <<role, fleet, fleetChosen>>

\* The file changed on disk: nobody looks whether the selected cluster is still in it.
Focused(f) ==
  /\ f # fleet
  /\ fleet' = f
  /\ Go(page, f, selected, fleetView, fleetChosen)
  /\ UNCHANGED <<role, fleetView, fleetChosen, chosen>>

Next ==
  \/ \E v \in Members(fleet) \cup {All} : Pick(v)
  \/ \E p \in DOMAIN Pages : Open(p) \/ \E c \in Members(fleet) : HandOff(p, c)
  \/ \E f \in Fleets : Focused(f)

Spec == Init /\ [][Next]_vars

-----------------------------------------------------------------------------
(***************************************************************************)
(* The picker shows what a person last asked for, wherever the tabs have   *)
(* led since: a cluster picked or handed over stays selected on every page,*)
(* and the fleet, once a page of one cluster has borrowed the selection,   *)
(* is back on the next page that can show it.  The page that opens on one  *)
(* cluster shows the fleet only to somebody who picked it.                 *)
(***************************************************************************)
ShowsWhatWasChosen ==
  /\ chosen # All => selected = chosen
  /\ chosen = All /\ Pages[page].shows = "fleet" => selected = All
  /\ selected = All /\ Pages[page].shows = "start" /\ fleet # <<>> => chosen = All /\ fleetChosen

\* The inductive part: the fleet is wanted back exactly as long as nobody picked a cluster.
FleetIsWantedBack == fleetView = (chosen = All)
NavigationInv == fleet \in Fleets /\ ShowsWhatWasChosen /\ FleetIsWantedBack
=============================================================================
