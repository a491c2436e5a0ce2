------------------------------ MODULE Refresh ------------------------------
(***************************************************************************)
(* How the pages keep what they show up to date: ui/js/core/state.js (the  *)
(* clients, the fetches, the sweeps over the fleet, the timer and the      *)
(* reload of the configuration) and the connection state machine of        *)
(* ui/js/core/es.js.                                                       *)
(*                                                                         *)
(* JavaScript runs one callback at a time, so an action is what runs       *)
(* between two awaits.  A fetch is in flight for a cluster either because  *)
(* a sweep asked or because a page asked on its own; what it holds on to   *)
(* over its awaits (the client, the entry of state.data) is in its record. *)
(*                                                                         *)
(* An entry of state.data has two parts: what every overview replaces      *)
(* ("data": reachable, health, nodes, ILM, SLM), and what an overview may  *)
(* carry over from the entry before ("kept": the snapshots always; the     *)
(* info, disks, capacity, repositories, master when their call fails).     *)
(***************************************************************************)
EXTENDS Naturals, FiniteSets

CONSTANTS
  Cluster,     \* the clusters a configuration may name
  PageAsks,    \* those a page asks on its own (a bound of the model)
  Outcome,     \* how a request may end, a subset of Outcomes
  MaxLoads,    \* reloads on their way at once (a bound of the model)
  None

Outcomes == {"ok", "denied", "tls", "tunnel", "http", "gone"}

ASSUME RefreshAssumption ==
  /\ PageAsks \subseteq Cluster
  /\ Outcome \subseteq Outcomes /\ "ok" \in Outcome
  /\ MaxLoads \in Nat \ {0}
  /\ None \notin {"all", "load", "module"}

Dataset == {"data", "kept", "indices"}
Shown == {"nothing", "now", "earlier"}
Asker == {"sweep", "page"}
Fetch == {"overview", "health", "snapshots", "indices"}

VARIABLES
  named,       \* state.config.clusters
  enabled,     \* those of them that are enabled: clusters()
  client,      \* state.clients: the connection state of each client in force
  shown,       \* where each entry came from; of what is kept, "earlier" says that
               \* some of it may be from an earlier client
  job,         \* the fetches in flight, by cluster and by who asked
  sweep,       \* the refreshAll or refreshModule under way, None without one
  refreshing,  \* state.refreshing
  timer,       \* autoRefresh off, or on and nextRefreshAt ahead of us or past
  hidden,      \* document.hidden
  loads,       \* reloads and new credentials that wait for PRIME's answer
  unread,      \* the clusters not yet read through their client (history)
  missed,      \* those of them whose sweep was dropped for one under way (history)
  raced        \* clusters a fetch was in flight for when the configuration was
               \* replaced, or that were listed on top of an entry from before (history)

vars == <<named, enabled, client, shown, job, sweep, refreshing, timer, hidden, loads,
          unread, missed, raced>>

-----------------------------------------------------------------------------
(***************************************************************************)
(* The client (es.js).                                                     *)
(***************************************************************************)
Links == {"unknown", "online", "offline", "auth_error", "tls_error", "tunnel_error"}
Client == [link : Links, waiting : BOOLEAN]
NewClient == [link |-> "unknown", waiting |-> FALSE]

(***************************************************************************)
(* EsClient._track.  An HTTP error of one endpoint leaves the cluster      *)
(* online; everything but a success starts the wait that backoffMs bounds. *)
(* A request the core has no credential for is sent once more after a new  *)
(* PRIME, and how that second one ends is what is tracked.                 *)
(***************************************************************************)
LinkAfter == [ok |-> "online", http |-> "online", denied |-> "auth_error",
              tls |-> "tls_error", tunnel |-> "tunnel_error", gone |-> "offline"]

Track(r) == [link |-> LinkAfter[r], waiting |-> r # "ok"]

\* The last answer of a group of requests decides the state of a client still in force.
Tracked(c, j, last) ==
  client' = IF j.old THEN client ELSE [client EXCEPT ![c] = Track(last)]

\* The wait of a client ends (canTryNow).
WaitEnds(c) ==
  /\ client[c] # None /\ client[c].waiting
  /\ client' = [client EXCEPT ![c].waiting = FALSE]
  /\ UNCHANGED <<named, enabled, shown, job, sweep, refreshing, timer, hidden, loads, unread, missed, raced>>

-----------------------------------------------------------------------------
(***************************************************************************)
(* A fetch.  base is where the answer it will put on the page comes from:  *)
(* its client, or for a snapshot listing the entry it adds to.  kept is    *)
(* where the rest of the entry it will put there comes from: the entry it  *)
(* read before its first await (`prev`), and its own answers.  old says    *)
(* that the client it asks through was replaced.  An overview that goes on *)
(* to the repositories is a listing from then on.                          *)
(***************************************************************************)
Job == [fetch : Fetch, base : {"now", "earlier"}, kept : {"now", "earlier"}, old : BOOLEAN]

\* None stands for a client or a fetch that is not there.
ASSUME NoneAssumption == None \notin Client /\ None \notin Job

NewJob(c, fetch) ==
  [fetch |-> fetch, old |-> FALSE,
   base |-> IF fetch = "snapshots" THEN shown[c]["data"] ELSE "now",
   kept |-> IF fetch # "indices" /\ shown[c]["kept"] = "earlier" THEN "earlier" ELSE "now"]

\* The datasets a fetch puts on the page, and where what it puts there comes from.
About(fetch) == IF fetch = "indices" THEN {"indices"} ELSE {"data", "kept"}
Origin(j, d) == IF d = "kept" THEN j.kept ELSE j.base

\* Mutant of MayFetch: a listing does not look whether there is an entry to add to.
MayFetchAny(c, fetch) == client[c] # None

\* What fetchOverview, fetchSnapshots and fetchIndices return at once without.
MayFetch(c, fetch) ==
  /\ client[c] # None
  /\ fetch = "snapshots" => shown[c]["data"] # "nothing"

\* w asks the clusters of C.  A listing of an entry from before the reload will put it back.
Asks(C, w, fetch) ==
  LET D == {c \in C : MayFetch(c, fetch)}
  IN /\ job' = [c \in Cluster |->
                 IF c \in D THEN [job[c] EXCEPT ![w] = NewJob(c, fetch)] ELSE job[c]]
     /\ raced' = raced \cup {c \in D : NewJob(c, fetch).base = "earlier"}
     /\ UNCHANGED <<shown, unread>>

\* An overview through the client in force is what a reload waits for.
Reads(c, j) == IF j.base = "now" /\ j.fetch \in {"overview", "health"} THEN {c} ELSE {}

\* The fetch w on c puts its answer into state.data or state.indices and goes on with next.
Publish(c, w, next) ==
  LET j == job[c][w]
  IN /\ shown' = [shown EXCEPT ![c] = [d \in Dataset |->
                    IF d \in About(j.fetch) THEN Origin(j, d) ELSE shown[c][d]]]
     /\ job' = [job EXCEPT ![c][w] = next]
     /\ unread' = unread \ Reads(c, j) /\ missed' = missed \ Reads(c, j)

\* fetchOverview goes on to the repositories, through the client of now, if there is one.
ThenSnapshots(c, w) ==
  /\ job[c][w].fetch = "overview" /\ client[c] # None
  /\ Publish(c, w, [job[c][w] EXCEPT !.fetch = "snapshots", !.old = FALSE])

(***************************************************************************)
(* fetchOverview: GET / and _cluster/health are in, and for a cluster that *)
(* answered one of them the eleven calls that hang off it.  Nothing is put *)
(* on the page in between, so both groups are one action; the last of the  *)
(* requests to be answered decides the state of the client.                *)
(***************************************************************************)
Overviewed(c, w) ==
  LET j == job[c][w] IN
  /\ j # None /\ j.fetch \in {"overview", "health"}
  /\ \E last \in Outcome : Tracked(c, j, last)
  /\ Publish(c, w, None) \/ ThenSnapshots(c, w)
  /\ UNCHANGED <<named, enabled, sweep, refreshing, timer, hidden, loads, raced>>

\* fetchSnapshots: the listings of every repository are in, or have failed.
Listed(c, w) ==
  LET j == job[c][w] IN
  /\ j # None /\ j.fetch = "snapshots"
  /\ \E last \in Outcome : Tracked(c, j, last)
  /\ Publish(c, w, None)
  /\ UNCHANGED <<named, enabled, sweep, refreshing, timer, hidden, loads, raced>>

\* fetchIndices: the index list is in; a failure throws and shows nothing.
Rowed(c, w) ==
  LET j == job[c][w] IN
  /\ j # None /\ j.fetch = "indices"
  /\ \E last \in Outcome :
       /\ Tracked(c, j, last)
       /\ IF last = "ok" THEN Publish(c, w, None)
          ELSE job' = [job EXCEPT ![c][w] = None] /\ UNCHANGED <<shown, unread, missed>>
  /\ UNCHANGED <<named, enabled, sweep, refreshing, timer, hidden, loads, raced>>

\* A page asks for one cluster: a retry, a reload button, a page that needs the list.
PageFetches(c, fetch) ==
  /\ c \in named /\ job[c]["page"] = None /\ MayFetch(c, fetch)
  /\ fetch # "health"
  /\ Asks({c}, "page", fetch)
  /\ UNCHANGED <<named, enabled, client, sweep, refreshing, timer, hidden, loads, missed>>

-----------------------------------------------------------------------------
(***************************************************************************)
(* Sweeps.                                                                 *)
(***************************************************************************)
\* Mutant of Targets: a cluster that failed is not asked again by the timer.
TargetsOnline(scope, force) ==
  {c \in scope : force \/ client[c] = None \/ client[c].link \in {"online", "unknown"}}

\* The clusters refreshAll asks: all of scope, or those not waiting after a failure.
Targets(scope, force) ==
  {c \in scope : \/ force
                 \/ client[c] = None
                 \/ client[c].link \in {"online", "unknown"}
                 \/ ~client[c].waiting}

StartSweep(what, targets, fetch) ==
  /\ sweep' = what
  /\ refreshing' = TRUE
  /\ Asks(targets, "sweep", fetch)

\* refreshAll, when none is under way.
RefreshAll(scope, force) == StartSweep("all", Targets(scope, force), "overview")

\* What is selected: the fleet, or one cluster.
Scopes == {enabled} \cup {{c} : c \in enabled}

\* The Refresh button, the key r, and the calls that follow a change of trust.
PressRefresh ==
  /\ ~refreshing
  /\ \E scope \in Scopes : RefreshAll(scope, TRUE)
  /\ UNCHANGED <<named, enabled, client, timer, hidden, loads, missed>>

\* Mutant of RefreshModule: the fetches are not awaited.
RefreshModuleUnawaited(fetch) ==
  /\ ~refreshing
  /\ fetch \in {"health", "snapshots", "indices"}
  /\ \E scope \in Scopes : Asks(scope, "sweep", fetch)
  /\ UNCHANGED <<named, enabled, client, sweep, refreshing, timer, hidden, loads, missed>>

\* refreshModule: one part, of the selected clusters.
RefreshModule(fetch) ==
  /\ ~refreshing
  /\ fetch \in {"health", "snapshots", "indices"}
  /\ \E scope \in Scopes : StartSweep("module", scope, fetch)
  /\ UNCHANGED <<named, enabled, client, timer, hidden, loads, missed>>

Fetched == \A c \in Cluster : job[c]["sweep"] = None

\* refreshAll: every fetch is in, the load on the clusters is asked for.
AskLoad ==
  /\ sweep = "all" /\ Fetched
  /\ sweep' = "load"
  /\ UNCHANGED <<named, enabled, client, shown, job, refreshing, timer, hidden, loads, unread, missed, raced>>

\* Mutant of EndSweep: a load request that fails is not caught, and the end is not reached.
EndSweepThrows ==
  /\ sweep = "load"
  /\ sweep' = None
  /\ refreshing' \in BOOLEAN
  /\ timer' = IF timer = "due" THEN "ahead" ELSE timer
  /\ UNCHANGED <<named, enabled, client, shown, job, hidden, loads, unread, missed, raced>>

\* refreshAll ends; an answer that failed leaves the previous figures standing.
EndSweep ==
  /\ sweep = "load"
  /\ sweep' = None /\ refreshing' = FALSE
  /\ timer' = IF timer = "due" THEN "ahead" ELSE timer
  /\ UNCHANGED <<named, enabled, client, shown, job, hidden, loads, unread, missed, raced>>

\* refreshModule ends; the timer keeps its date.
EndModule ==
  /\ sweep = "module" /\ Fetched
  /\ sweep' = None /\ refreshing' = FALSE
  /\ UNCHANGED <<named, enabled, client, shown, job, timer, hidden, loads, unread, missed, raced>>

\* startAutoRefresh: the one-second timer finds the interval over.
TimerFires ==
  /\ timer = "due" /\ ~hidden /\ ~refreshing
  /\ RefreshAll(enabled, FALSE)
  /\ UNCHANGED <<named, enabled, client, timer, hidden, loads, missed>>

\* The interval passes; while auto-refresh is off its end is put off every second.
IntervalPasses ==
  /\ timer = "ahead"
  /\ timer' = "due"
  /\ UNCHANGED <<named, enabled, client, shown, job, sweep, refreshing, hidden, loads, unread, missed, raced>>

(***************************************************************************)
(* The Auto button of a window in sight, and the window going out of sight *)
(* or coming back, which only matters while auto-refresh is on.            *)
(***************************************************************************)
SetAuto ==
  /\ \/ /\ ~hidden
        /\ timer' = (IF timer = "off" THEN "ahead" ELSE "off") /\ UNCHANGED hidden
     \/ timer # "off" /\ hidden' = ~hidden /\ UNCHANGED timer
  /\ UNCHANGED <<named, enabled, client, shown, job, sweep, refreshing, loads, unread, missed, raced>>

-----------------------------------------------------------------------------
(***************************************************************************)
(* The configuration and the credentials.                                  *)
(***************************************************************************)
Outlived(j) ==
  IF j = None THEN None ELSE [j EXCEPT !.old = TRUE, !.base = "earlier", !.kept = "earlier"]

\* Mutant of Kept: the entries of a cluster that is no longer named stay.
KeptAll(new) ==
  [c \in Cluster |-> [d \in Dataset |->
    IF shown[c][d] # "nothing" THEN "earlier" ELSE "nothing"]]

\* What is left on the pages of what the clients before answered.
Kept(new) ==
  [c \in Cluster |-> [d \in Dataset |->
    IF c \in new /\ shown[c][d] # "nothing" THEN "earlier" ELSE "nothing"]]

(***************************************************************************)
(* setConfig, up to its await: new clients, and the entries of the         *)
(* clusters that are no longer named are dropped.  The fetches in flight   *)
(* keep the client and the entry they hold.                                *)
(***************************************************************************)
SetConfig(new, on) ==
  /\ loads < MaxLoads
  /\ named' = new /\ enabled' = on
  /\ client' = [c \in Cluster |-> IF c \in new THEN NewClient ELSE None]
  /\ shown' = Kept(new)
  /\ job' = [c \in Cluster |-> [w \in Asker |-> Outlived(job[c][w])]]
  /\ loads' = loads + 1
  /\ unread' = on /\ missed' = {}
  /\ raced' = {c \in Cluster : \E w \in Asker : job[c][w] # None}
  /\ UNCHANGED <<sweep, refreshing, timer, hidden>>

\* setSessionCredential: every client starts afresh, then the core is primed.
SetSessionCredential ==
  /\ loads < MaxLoads /\ named # {}
  /\ client' = [c \in Cluster |-> IF client[c] = None THEN None ELSE NewClient]
  /\ loads' = loads + 1
  /\ UNCHANGED <<named, enabled, shown, job, sweep, refreshing, timer, hidden, unread, missed, raced>>

\* Mutant of Primed: the page repaints, and leaves the reading to the timer.
PrimedOnly ==
  /\ loads > 0
  /\ loads' = loads - 1
  /\ UNCHANGED <<named, enabled, client, shown, job, sweep, refreshing, timer, hidden, unread, missed, raced>>

(***************************************************************************)
(* PRIME is answered and the caller refreshes everything, by force         *)
(* (applyLoadedConfig, the config editor, the credential dialog).          *)
(* refreshAll returns at once while another sweep is under way.            *)
(***************************************************************************)
Primed ==
  /\ loads > 0
  /\ loads' = loads - 1
  /\ \/ /\ ~refreshing
        /\ RefreshAll(enabled, TRUE)
        /\ UNCHANGED missed
     \/ /\ refreshing
        /\ missed' = unread
        /\ UNCHANGED <<shown, job, unread, raced, sweep, refreshing>>
  /\ UNCHANGED <<named, enabled, client, timer, hidden>>

-----------------------------------------------------------------------------
Init ==
  /\ named = Cluster /\ enabled \in SUBSET Cluster
  /\ client = [c \in Cluster |-> NewClient]
  /\ shown = [c \in Cluster |-> [d \in Dataset |-> "nothing"]]
  /\ job = [c \in Cluster |-> [w \in Asker |-> None]]
  /\ sweep = None /\ refreshing = FALSE
  /\ timer = "off" /\ hidden = FALSE
  /\ loads = 1                  \* start() awaits setConfig, then refreshes
  /\ unread = enabled /\ missed = {} /\ raced = {}

Answered(c, w) == Overviewed(c, w) \/ Listed(c, w) \/ Rowed(c, w)
SweepGoesOn == AskLoad \/ EndSweep \/ EndModule
TimerRuns == TimerFires \/ IntervalPasses

Next ==
  \/ \E c \in Cluster, w \in Asker : Answered(c, w)
  \/ \E c \in Cluster : WaitEnds(c)
  \/ \E c \in PageAsks, fetch \in Fetch : PageFetches(c, fetch)
  \/ PressRefresh
  \/ \E fetch \in Fetch : RefreshModule(fetch)
  \/ SweepGoesOn \/ TimerRuns \/ SetAuto
  \/ \E new \in SUBSET Cluster : \E on \in SUBSET new : SetConfig(new, on)
  \/ SetSessionCredential \/ Primed

(***************************************************************************)
(* The bridge answers every message: the core gives each request a timeout *)
(* and transport.js turns a failed call into an answer.  The timers of the *)
(* page run.  Nobody has to press anything.                                *)
(***************************************************************************)
Fairness ==
  /\ \A c \in Cluster, w \in Asker : WF_vars(Answered(c, w))
  /\ \A c \in Cluster : WF_vars(WaitEnds(c))
  /\ WF_vars(SweepGoesOn) /\ WF_vars(TimerRuns) /\ WF_vars(Primed)

Spec == Init /\ [][Next]_vars /\ Fairness

-----------------------------------------------------------------------------
TypeOK ==
  /\ named \in SUBSET Cluster /\ enabled \in SUBSET named
  /\ client \in [Cluster -> Client \cup {None}]
  /\ shown \in [Cluster -> [Dataset -> Shown]]
  /\ job \in [Cluster -> [Asker -> Job \cup {None}]]
  /\ sweep \in {"all", "load", "module", None}
  /\ refreshing \in BOOLEAN
  /\ timer \in {"off", "ahead", "due"} /\ hidden \in BOOLEAN
  /\ loads \in 0..MaxLoads
  /\ unread \in SUBSET Cluster
  /\ missed \in SUBSET Cluster
  /\ raced \in SUBSET Cluster

(***************************************************************************)
(* Of the fetches a sweep began none is in flight once `refreshing` is     *)
(* off: the flag alone keeps a second sweep, whoever starts it, from       *)
(* asking the same clusters while the first one still waits for them.      *)
(***************************************************************************)
SweepOwnsItsFetches ==
  /\ refreshing <=> sweep # None
  /\ sweep \in {None, "load"} => Fetched

(***************************************************************************)
(* After a reload the pages show the configuration in force.  Of a cluster *)
(* it does not name they show nothing (setConfig: "otherwise a reload that *)
(* removed or renamed a cluster keeps rendering it from stale data"); of   *)
(* an enabled one read since, no reachability, health, nodes or policies   *)
(* from before, though a fetch may carry the rest of its entry over.  It   *)
(* fails only for a cluster that had a fetch in flight when the            *)
(* configuration was replaced, or was listed on top of an entry from       *)
(* before, for those put back what they hold.                              *)
(***************************************************************************)
ReloadIsClean ==
  \A c \in Cluster \ raced :
    /\ c \notin named => \A d \in Dataset : shown[c][d] = "nothing"
    /\ c \in enabled \ unread => shown[c]["data"] = "now"

\* The kinds of answers that the fetches in flight will put on the page.
OnTheirWay ==
  [c \in Cluster |-> [d \in Dataset |->
    {Origin(job[c][w], d) : w \in {x \in Asker : job[c][x] # None /\ d \in About(job[c][x].fetch)}}]]

View == INSTANCE FleetView WITH asked <- OnTheirWay

(***************************************************************************)
(* Refinement: whatever overtakes whatever, the pages only ever show       *)
(* answers somebody asked for (FleetView).                                 *)
(***************************************************************************)
ShowsOnlyAnswers == View!ViewSpec

(***************************************************************************)
(* A sweep ends, whatever its requests come to: `refreshing`, which every  *)
(* later sweep waits for, does not stay set.                               *)
(***************************************************************************)
SweepEnds == refreshing ~> ~refreshing

(***************************************************************************)
(* The last reload is followed by a read of every cluster it names through *)
(* its new client, without anybody pressing anything, unless the sweep it  *)
(* asks for was dropped because another one was under way.                 *)
(***************************************************************************)
ReloadIsRead ==
  <>[][\A new, on \in SUBSET Cluster : ~SetConfig(new, on)]_vars =>
    \A c \in Cluster : (c \in unread) ~> (c \notin unread \/ c \in missed)

\* Somebody asks for a sweep by hand.
ByHand == PressRefresh \/ \E fetch \in Fetch : RefreshModule(fetch)

(***************************************************************************)
(* While auto-refresh is on and the window is in sight, every cluster of   *)
(* the configuration is asked again and again: no failure, and no wait     *)
(* after one, takes a cluster out of the rounds for good.  Sweeps somebody *)
(* keeps asking for by hand, of a part or of another cluster, can keep the *)
(* timer from its turn, so they are taken to stop.                         *)
(***************************************************************************)
AutoRefreshReaches ==
  \A c \in Cluster :
    (<>[](timer # "off" /\ ~hidden /\ c \in enabled) /\ <>[][~ByHand]_vars) =>
      []<>(\E w \in Asker : job[c][w] # None)
=============================================================================
