--------------------------- MODULE RefreshProofs ----------------------------
(***************************************************************************)
(* Proofs about Refresh, for any clusters, any of the outcomes a request   *)
(* may have, and any number of reloads on their way: the types, the two    *)
(* safety invariants, and that every step is a step of FleetView.          *)
(***************************************************************************)
EXTENDS Refresh, TLAPS

\* There is a client for exactly the clusters of the configuration in force.
ClientsOfConfig == \A c \in Cluster : client[c] # None <=> c \in named

\* A fetch through a client in force is of a cluster named, and one that saw no
\* reload asks through such a client and will put its answer on the page.
CleanJobs ==
  \A c \in Cluster, w \in Asker : job[c][w] # None =>
    /\ ~job[c][w].old => c \in named
    /\ c \notin raced => ~job[c][w].old /\ job[c][w].base = "now"

RefreshInv == TypeOK /\ SweepOwnsItsFetches /\ ReloadIsClean /\ ClientsOfConfig /\ CleanJobs

-----------------------------------------------------------------------------
LEMMA NewClientType == NewClient \in Client
  BY DEF NewClient, Client, Links

LEMMA TrackType ==
  ASSUME NEW r \in Outcome
  PROVE  Track(r) \in Client
  BY RefreshAssumption DEF Track, Client, Links, LinkAfter, Outcomes

\* A new fetch is well typed, and "now" unless it lists an entry from before.
LEMMA NewJobType ==
  ASSUME TypeOK, NEW c \in Cluster, NEW fetch \in Fetch, MayFetch(c, fetch)
  PROVE  NewJob(c, fetch) \in Job /\ ~NewJob(c, fetch).old
  BY DEF TypeOK, NewJob, Job, MayFetch, Fetch, Dataset, Shown

\* Asking keeps the fetches typed and clean, and touches one asker only.
LEMMA AsksStep ==
  ASSUME RefreshInv, NEW C \in SUBSET named, NEW w \in Asker, NEW fetch \in Fetch,
         Asks(C, w, fetch), UNCHANGED <<named, enabled, client>>
  PROVE  /\ job' \in [Cluster -> [Asker -> Job \cup {None}]]
         /\ raced' \in SUBSET Cluster
         /\ CleanJobs'
         /\ \A c \in Cluster : \A x \in Asker \ {w} : job'[c][x] = job[c][x]
         /\ UNCHANGED <<shown, unread>>
         /\ raced \subseteq raced'
  <1> DEFINE D == {c \in C : MayFetch(c, fetch)}
  <1>1. named \subseteq Cluster /\ D \subseteq Cluster
    BY DEF RefreshInv, TypeOK
  <1>2. /\ job' = [c \in Cluster |->
                    IF c \in D THEN [job[c] EXCEPT ![w] = NewJob(c, fetch)] ELSE job[c]]
        /\ raced' = raced \cup {c \in D : NewJob(c, fetch).base = "earlier"}
        /\ UNCHANGED <<shown, unread>>
    BY DEF Asks
  <1>3. \A c \in D : NewJob(c, fetch) \in Job /\ ~NewJob(c, fetch).old
    BY <1>1, NewJobType DEF RefreshInv
  <1>4. \A c \in Cluster : job[c] \in [Asker -> Job \cup {None}]
    BY DEF RefreshInv, TypeOK
  <1>8. /\ \A c \in D : NewJob(c, fetch).base = "earlier" => c \in raced'
        /\ raced \subseteq raced' /\ D \subseteq named /\ raced' \in SUBSET Cluster
    BY <1>1, <1>2 DEF RefreshInv, TypeOK
  <1> HIDE DEF D
  <1>5. \A c \in Cluster \ D : job'[c] = job[c]
    BY <1>2
  <1>6. \A c \in D : /\ job'[c] = [job[c] EXCEPT ![w] = NewJob(c, fetch)]
                     /\ job'[c][w] = NewJob(c, fetch)
                     /\ \A x \in Asker \ {w} : job'[c][x] = job[c][x]
                     /\ job'[c] \in [Asker -> Job \cup {None}]
    BY <1>1, <1>2, <1>3, <1>4
  <1>7. job' \in [Cluster -> [Asker -> Job \cup {None}]]
    BY <1>2, <1>4, <1>5, <1>6
  <1>9. CleanJobs'
    <2> SUFFICES ASSUME NEW c \in Cluster, NEW x \in Asker, job'[c][x] # None
                 PROVE  /\ ~job'[c][x].old => c \in named
                        /\ c \notin raced' => ~job'[c][x].old /\ job'[c][x].base = "now"
      BY DEF CleanJobs
    <2>1. CASE c \in D /\ x = w
      <3>1. job'[c][x] = NewJob(c, fetch) /\ NewJob(c, fetch).base \in {"now", "earlier"}
        BY <2>1, <1>3, <1>6 DEF Job
      <3> QED
        BY <2>1, <3>1, <1>3, <1>8
    <2>2. CASE ~(c \in D /\ x = w)
      <3>1. job'[c][x] = job[c][x]
        BY <2>2, <1>5, <1>6
      <3> QED
        BY <3>1, <1>8 DEF RefreshInv, CleanJobs
    <2> QED
      BY <2>1, <2>2
  <1>10. \A c \in Cluster : \A x \in Asker \ {w} : job'[c][x] = job[c][x]
    BY <1>5, <1>6
  <1> QED
    BY <1>2, <1>7, <1>9, <1>10, <1>8

\* An answer put on the page keeps everything but the client typed and clean.
LEMMA PublishStep ==
  ASSUME RefreshInv, NEW c \in Cluster, NEW w \in Asker, job[c][w] # None,
         NEW next \in Job \cup {None},
         next # None => /\ next.base = job[c][w].base /\ ~next.old
                        /\ client[c] # None,
         Publish(c, w, next), UNCHANGED <<named, enabled, raced, sweep, refreshing>>,
         w = "sweep" => sweep \notin {None, "load"}
  PROVE  /\ job' \in [Cluster -> [Asker -> Job \cup {None}]]
         /\ shown' \in [Cluster -> [Dataset -> Shown]]
         /\ unread' \in SUBSET Cluster /\ missed' \in SUBSET Cluster
         /\ CleanJobs' /\ ReloadIsClean' /\ SweepOwnsItsFetches'
  <1> DEFINE j == job[c][w]
             Put == [d \in Dataset |-> IF d \in About(j.fetch) THEN Origin(j, d) ELSE shown[c][d]]
  <1>1. /\ j \in Job /\ About(j.fetch) \subseteq Dataset
        /\ \A d \in Dataset : Origin(j, d) \in {"now", "earlier"}
    BY DEF RefreshInv, TypeOK, Job, About, Origin, Dataset
  <1>2. /\ shown' = [shown EXCEPT ![c] = Put]
        /\ job' = [job EXCEPT ![c][w] = next]
        /\ unread' = unread \ Reads(c, j) /\ missed' = missed \ Reads(c, j)
    BY DEF Publish
  <1>3. /\ \A b \in Cluster \ {c} : job'[b] = job[b] /\ shown'[b] = shown[b]
        /\ job'[c] = [job[c] EXCEPT ![w] = next]
        /\ shown'[c] = Put
    BY <1>2 DEF RefreshInv, TypeOK
  <1>4. /\ \A x \in Asker \ {w} : job'[c][x] = job[c][x]
        /\ job'[c][w] = next
        /\ \A d \in Dataset :
             shown'[c][d] = IF d \in About(j.fetch) THEN Origin(j, d) ELSE shown[c][d]
    BY <1>1, <1>3 DEF RefreshInv, TypeOK
  <1>13. Put \in [Dataset -> Shown]
    BY <1>1 DEF Shown, RefreshInv, TypeOK
  <1> HIDE DEF Put
  <1>5. job' \in [Cluster -> [Asker -> Job \cup {None}]]
    BY <1>2 DEF RefreshInv, TypeOK
  <1>6. shown' \in [Cluster -> [Dataset -> Shown]]
    BY <1>2, <1>13 DEF RefreshInv, TypeOK
  <1>7. unread' \in SUBSET Cluster /\ missed' \in SUBSET Cluster
    BY <1>2 DEF RefreshInv, TypeOK
  <1>8. c \notin raced => c \in named /\ j.base = "now"
    BY DEF RefreshInv, CleanJobs
  <1>9. CleanJobs'
    <2> SUFFICES ASSUME NEW b \in Cluster, NEW x \in Asker, job'[b][x] # None
                 PROVE  /\ ~job'[b][x].old => b \in named
                        /\ b \notin raced => ~job'[b][x].old /\ job'[b][x].base = "now"
      BY DEF CleanJobs
    <2>1. CASE b = c /\ x = w
      BY <2>1, <1>4, <1>8 DEF RefreshInv, ClientsOfConfig
    <2>2. CASE ~(b = c /\ x = w)
      <3>1. job'[b][x] = job[b][x]
        BY <2>2, <1>3, <1>4
      <3> QED
        BY <3>1 DEF RefreshInv, CleanJobs
    <2> QED
      BY <2>1, <2>2
  <1>10. ReloadIsClean'
    <2> SUFFICES ASSUME NEW b \in Cluster \ raced
                 PROVE  /\ b \notin named => \A e \in Dataset : shown'[b][e] = "nothing"
                        /\ b \in enabled \ unread' => shown'[b]["data"] = "now"
      BY DEF ReloadIsClean
    <2>1. CASE b # c
      <3>1. b \in unread' <=> b \in unread
        BY <2>1, <1>2 DEF Reads
      <3> QED
        BY <2>1, <3>1, <1>3 DEF RefreshInv, ReloadIsClean
    <2>2. CASE b = c
      <3>1. b \in named /\ j.base = "now"
        BY <2>2, <1>8
      <3>2. CASE j.fetch # "indices"
        BY <2>2, <3>1, <3>2, <1>4 DEF Dataset, About, Origin
      <3>3. CASE j.fetch = "indices"
        <4>1. shown'[c]["data"] = shown[c]["data"] /\ unread' = unread
          BY <3>3, <1>2, <1>4 DEF Dataset, About, Reads
        <4> QED
          BY <2>2, <3>1, <4>1 DEF RefreshInv, ReloadIsClean
      <3> QED
        BY <3>2, <3>3
    <2> QED
      BY <2>1, <2>2
  <1>11. SweepOwnsItsFetches'
    <2>1. CASE w = "sweep"
      BY <2>1 DEF RefreshInv, SweepOwnsItsFetches
    <2>2. CASE w = "page"
      <3>1. \A b \in Cluster : job'[b]["sweep"] = job[b]["sweep"]
        BY <2>2, <1>3, <1>4 DEF Asker
      <3> QED
        BY <3>1 DEF RefreshInv, SweepOwnsItsFetches, Fetched
    <2> QED
      BY <2>1, <2>2 DEF Asker
  <1> QED
    BY <1>5, <1>6, <1>7, <1>9, <1>10, <1>11

-----------------------------------------------------------------------------
LEMMA InitRefreshInv == Init => RefreshInv
  <1> SUFFICES ASSUME Init PROVE RefreshInv
    OBVIOUS
  <1>1. TypeOK
    <2>1. client \in [Cluster -> Client \cup {None}]
      BY NewClientType DEF Init
    <2>2. /\ shown \in [Cluster -> [Dataset -> Shown]]
          /\ job \in [Cluster -> [Asker -> Job \cup {None}]]
      BY DEF Init, Shown
    <2>3. loads \in 0..MaxLoads
      BY RefreshAssumption DEF Init
    <2> QED
      BY <2>1, <2>2, <2>3 DEF Init, TypeOK
  <1>2. SweepOwnsItsFetches /\ CleanJobs
    BY DEF Init, SweepOwnsItsFetches, CleanJobs, Fetched, Asker
  <1>3. ReloadIsClean
    BY DEF Init, ReloadIsClean
  <1>4. ClientsOfConfig
    BY NewClientType, NoneAssumption DEF Init, ClientsOfConfig
  <1> QED
    BY <1>1, <1>2, <1>3, <1>4 DEF RefreshInv

\* What an answer does to the client it came through.
LEMMA TrackedStep ==
  ASSUME RefreshInv, NEW c \in Cluster, NEW w \in Asker, job[c][w] # None,
         NEW last \in Outcome, Tracked(c, job[c][w], last), UNCHANGED named
  PROVE  client' \in [Cluster -> Client \cup {None}] /\ ClientsOfConfig'
  <1>1. CASE job[c][w].old
    BY <1>1 DEF Tracked, RefreshInv, TypeOK, ClientsOfConfig
  <1>2. CASE ~job[c][w].old
    <2>1. c \in named
      BY <1>2 DEF RefreshInv, CleanJobs
    <2>2. client' = [client EXCEPT ![c] = Track(last)]
      BY <1>2 DEF Tracked
    <2> QED
      BY <2>1, <2>2, TrackType, NoneAssumption DEF RefreshInv, TypeOK, ClientsOfConfig
  <1> QED
    BY <1>1, <1>2

LEMMA AnsweredStep ==
  ASSUME RefreshInv, NEW c \in Cluster, NEW w \in Asker, Answered(c, w)
  PROVE  RefreshInv'
  <1> DEFINE j == job[c][w]
  <1>1. /\ j # None /\ j \in Job
        /\ UNCHANGED <<named, enabled, sweep, refreshing, timer, hidden, loads, raced>>
    BY DEF Answered, Overviewed, Listed, Rowed, RefreshInv, TypeOK
  <1>2. w = "sweep" => sweep \notin {None, "load"}
    BY <1>1 DEF RefreshInv, SweepOwnsItsFetches, Fetched
  <1>3. client' \in [Cluster -> Client \cup {None}] /\ ClientsOfConfig'
    BY <1>1, TrackedStep DEF Answered, Overviewed, Listed, Rowed
  <1>4. ASSUME NEW next \in Job \cup {None},
               next # None => /\ next.base = j.base /\ ~next.old /\ client[c] # None,
               Publish(c, w, next)
        PROVE  RefreshInv'
    <2>1. /\ job' \in [Cluster -> [Asker -> Job \cup {None}]]
          /\ shown' \in [Cluster -> [Dataset -> Shown]]
          /\ unread' \in SUBSET Cluster /\ missed' \in SUBSET Cluster
          /\ CleanJobs' /\ ReloadIsClean' /\ SweepOwnsItsFetches'
      BY <1>1, <1>2, <1>4, PublishStep
    <2> QED
      BY <1>1, <1>3, <2>1 DEF RefreshInv, TypeOK
  <1>5. CASE Publish(c, w, None)
    BY <1>4, <1>5
  <1>6. CASE ThenSnapshots(c, w)
    <2> DEFINE next == [j EXCEPT !.fetch = "snapshots", !.old = FALSE]
    <2>1. next \in Job /\ next.base = j.base /\ ~next.old
      BY <1>1, <1>6 DEF Job, Fetch, ThenSnapshots
    <2>2. client[c] # None /\ Publish(c, w, next)
      BY <1>6 DEF ThenSnapshots
    <2> QED
      BY <1>4, <2>1, <2>2
  <1>7. CASE job' = [job EXCEPT ![c][w] = None] /\ UNCHANGED <<shown, unread, missed>>
    <2>1. job' \in [Cluster -> [Asker -> Job \cup {None}]]
      BY <1>7 DEF RefreshInv, TypeOK
    <2>2. \A b \in Cluster, x \in Asker : job'[b][x] = IF b = c /\ x = w THEN None ELSE job[b][x]
      BY <1>7 DEF RefreshInv, TypeOK
    <2>3. CleanJobs' /\ SweepOwnsItsFetches' /\ ReloadIsClean'
      BY <1>1, <1>7, <2>2 DEF RefreshInv, CleanJobs, SweepOwnsItsFetches, Fetched, ReloadIsClean, Asker
    <2> QED
      BY <1>1, <1>3, <1>7, <2>1, <2>3 DEF RefreshInv, TypeOK
  <1> QED
    BY <1>5, <1>6, <1>7 DEF Answered, Overviewed, Listed, Rowed

\* A step that asks for nothing and shows nothing.
LEMMA QuietStep ==
  ASSUME RefreshInv, UNCHANGED <<named, enabled, shown, job, unread, raced>>,
         client' \in [Cluster -> Client \cup {None}], ClientsOfConfig',
         UNCHANGED <<sweep, refreshing>> \/ (SweepOwnsItsFetches' /\ sweep' \in {"load", None} /\ refreshing' \in BOOLEAN),
         timer' \in {"off", "ahead", "due"}, hidden' \in BOOLEAN, loads' \in 0..MaxLoads,
         missed' \in SUBSET Cluster
  PROVE  RefreshInv'
  <1>1. CleanJobs' /\ ReloadIsClean'
    BY DEF RefreshInv, CleanJobs, ReloadIsClean
  <1>2. SweepOwnsItsFetches'
    BY DEF RefreshInv, SweepOwnsItsFetches, Fetched
  <1>3. TypeOK'
    BY DEF RefreshInv, TypeOK
  <1> QED
    BY <1>1, <1>2, <1>3 DEF RefreshInv

\* A sweep that begins while none is under way.
LEMMA SweepStep ==
  ASSUME RefreshInv, ~refreshing, NEW what \in {"all", "module"}, NEW C \in SUBSET named,
         NEW fetch \in Fetch, StartSweep(what, C, fetch),
         UNCHANGED <<named, enabled, client, timer, hidden>>, loads' \in 0..MaxLoads, missed' \in SUBSET Cluster
  PROVE  RefreshInv'
  <1>1. sweep' = what /\ refreshing' = TRUE /\ Asks(C, "sweep", fetch)
    BY DEF StartSweep
  <1>2. /\ job' \in [Cluster -> [Asker -> Job \cup {None}]]
        /\ raced' \in SUBSET Cluster /\ CleanJobs'
        /\ UNCHANGED <<shown, unread>> /\ raced \subseteq raced'
    BY <1>1, AsksStep DEF Asker
  <1>3. SweepOwnsItsFetches'
    <2>1. what # "load"
      OBVIOUS
    <2>2. what # None
      BY RefreshAssumption
    <2> QED
      BY <1>1, <2>1, <2>2 DEF SweepOwnsItsFetches
  <1>4. ReloadIsClean' /\ ClientsOfConfig'
    BY <1>2 DEF RefreshInv, ReloadIsClean, ClientsOfConfig
  <1>5. TypeOK'
    BY <1>1, <1>2 DEF RefreshInv, TypeOK
  <1> QED
    BY <1>2, <1>3, <1>4, <1>5 DEF RefreshInv

LEMMA PageFetchesStep ==
  ASSUME RefreshInv, NEW c \in PageAsks, NEW fetch \in Fetch, PageFetches(c, fetch)
  PROVE  RefreshInv'
  <1>1. /\ Asks({c}, "page", fetch) /\ {c} \in SUBSET named
        /\ UNCHANGED <<named, enabled, client, sweep, refreshing, timer, hidden, loads, missed>>
    BY DEF PageFetches
  <1>2. /\ job' \in [Cluster -> [Asker -> Job \cup {None}]]
        /\ raced' \in SUBSET Cluster /\ CleanJobs'
        /\ \A b \in Cluster : job'[b]["sweep"] = job[b]["sweep"]
        /\ UNCHANGED <<shown, unread>> /\ raced \subseteq raced'
    BY <1>1, AsksStep DEF Asker
  <1>3. ReloadIsClean' /\ ClientsOfConfig' /\ SweepOwnsItsFetches'
    BY <1>1, <1>2
    DEF RefreshInv, ReloadIsClean, ClientsOfConfig, SweepOwnsItsFetches, Fetched
  <1>4. TypeOK'
    BY <1>1, <1>2 DEF RefreshInv, TypeOK
  <1> QED
    BY <1>2, <1>3, <1>4 DEF RefreshInv

LEMMA SetConfigStep ==
  ASSUME RefreshInv, NEW new \in SUBSET Cluster, NEW on \in SUBSET new, SetConfig(new, on)
  PROVE  RefreshInv'
  <1>1. \A c \in Cluster, w \in Asker :
          /\ job'[c][w] = Outlived(job[c][w])
          /\ job'[c][w] \in Job \cup {None}
          /\ job'[c][w] # None => job[c][w] # None /\ job'[c][w].old
    <2>1. Outlived(None) = None
      BY DEF Outlived
    <2>2. \A j \in Job : j # None => Outlived(j) \in Job /\ Outlived(j).old
      BY DEF Outlived, Job
    <2>3. \A c \in Cluster, w \in Asker : job[c][w] \in Job \cup {None}
      BY DEF RefreshInv, TypeOK
    <2>4. job' = [c \in Cluster |-> [w \in Asker |-> Outlived(job[c][w])]]
      BY DEF SetConfig
    <2> QED
      BY <2>1, <2>2, <2>3, <2>4
  <1>2. job' \in [Cluster -> [Asker -> Job \cup {None}]]
    BY <1>1 DEF SetConfig
  <1>3. /\ client' \in [Cluster -> Client \cup {None}]
        /\ ClientsOfConfig'
    BY NewClientType, NoneAssumption DEF SetConfig, ClientsOfConfig
  <1>4. shown' \in [Cluster -> [Dataset -> Shown]]
    BY DEF SetConfig, Kept, Shown
  <1>5. CleanJobs'
    <2>1. raced' = {c \in Cluster : \E w \in Asker : job[c][w] # None}
      BY DEF SetConfig
    <2> QED
      BY <1>1, <2>1 DEF CleanJobs, Asker
  <1>6. ReloadIsClean'
    BY DEF SetConfig, Kept, ReloadIsClean
  <1>7. SweepOwnsItsFetches'
    <2>1. Outlived(None) = None
      BY DEF Outlived
    <2> QED
      BY <1>1, <2>1 DEF SetConfig, RefreshInv, SweepOwnsItsFetches, Fetched, Asker
  <1>8. TypeOK'
    <2>1. loads' \in 0..MaxLoads
      BY RefreshAssumption DEF SetConfig, RefreshInv, TypeOK
    <2>2. /\ raced' \in SUBSET Cluster /\ unread' \in SUBSET Cluster
          /\ named' \in SUBSET Cluster /\ enabled' \in SUBSET named'
      BY DEF SetConfig
    <2>3. missed' = {} /\ UNCHANGED <<sweep, refreshing, timer, hidden>>
      BY DEF SetConfig
    <2> QED
      BY <1>2, <1>3, <1>4, <2>1, <2>2, <2>3 DEF RefreshInv, TypeOK
  <1> QED
    BY <1>3, <1>5, <1>6, <1>7, <1>8 DEF RefreshInv

LEMMA PrimedStep ==
  ASSUME RefreshInv, Primed
  PROVE  RefreshInv'
  <1>1. loads' \in 0..MaxLoads
    BY RefreshAssumption DEF Primed, RefreshInv, TypeOK
  <1>2. Targets(enabled, TRUE) \in SUBSET named
    BY DEF Targets, RefreshInv, TypeOK
  <1>3. CASE ~refreshing
    BY <1>1, <1>2, <1>3, SweepStep DEF Primed, RefreshAll, Fetch, RefreshInv, TypeOK
  <1>4. CASE refreshing
    <2>1. /\ missed' = unread
          /\ UNCHANGED <<named, enabled, client, shown, job, sweep, refreshing, timer, hidden, unread, raced>>
      BY <1>4 DEF Primed
    <2> QED
      BY <1>1, <2>1, QuietStep DEF RefreshInv, TypeOK, ClientsOfConfig
  <1> QED
    BY <1>3, <1>4

LEMMA NextRefreshInv == RefreshInv /\ [Next]_vars => RefreshInv'
  <1> SUFFICES ASSUME RefreshInv, [Next]_vars PROVE RefreshInv'
    OBVIOUS
  <1>1. CASE \E c \in Cluster, w \in Asker : Answered(c, w)
    BY <1>1, AnsweredStep
  <1>2. ASSUME NEW c \in Cluster, WaitEnds(c)
        PROVE  RefreshInv'
    <2>1. client' \in [Cluster -> Client \cup {None}] /\ ClientsOfConfig'
      <3>1. [client[c] EXCEPT !.waiting = FALSE] \in Client
        BY <1>2 DEF WaitEnds, RefreshInv, TypeOK, Client
      <3> QED
        BY <1>2, <3>1, NoneAssumption DEF WaitEnds, RefreshInv, TypeOK, ClientsOfConfig
    <2> QED
      BY <1>2, <2>1, QuietStep DEF WaitEnds, RefreshInv, TypeOK
  <1>3. CASE \E c \in PageAsks, fetch \in Fetch : PageFetches(c, fetch)
    BY <1>3, PageFetchesStep
  <1>4. ASSUME NEW scope \in Scopes
        PROVE  scope \in SUBSET named /\ \A force \in BOOLEAN : Targets(scope, force) \in SUBSET named
    BY DEF Scopes, Targets, RefreshInv, TypeOK
  <1>5. CASE PressRefresh
    BY <1>4, <1>5, SweepStep DEF PressRefresh, RefreshAll, Fetch, RefreshInv, TypeOK
  <1>6. ASSUME NEW fetch \in Fetch, RefreshModule(fetch)
        PROVE  RefreshInv'
    BY <1>4, <1>6, SweepStep DEF RefreshModule, RefreshInv, TypeOK
  <1>7. CASE AskLoad
    <2>1. SweepOwnsItsFetches' /\ sweep' = "load"
      BY <1>7, RefreshAssumption DEF AskLoad, RefreshInv, SweepOwnsItsFetches, Fetched
    <2> QED
      BY <1>7, <2>1, QuietStep DEF AskLoad, RefreshInv, TypeOK, ClientsOfConfig
  <1>8. CASE EndSweep
    <2>1. SweepOwnsItsFetches' /\ sweep' = None
      BY <1>8 DEF EndSweep, RefreshInv, SweepOwnsItsFetches, Fetched
    <2> QED
      BY <1>8, <2>1, QuietStep DEF EndSweep, RefreshInv, TypeOK, ClientsOfConfig
  <1>9. CASE EndModule
    <2>1. SweepOwnsItsFetches' /\ sweep' = None
      BY <1>9 DEF EndModule, RefreshInv, SweepOwnsItsFetches, Fetched
    <2> QED
      BY <1>9, <2>1, QuietStep DEF EndModule, RefreshInv, TypeOK, ClientsOfConfig
  <1>10. CASE TimerFires
    <2>1. Targets(enabled, FALSE) \in SUBSET named
      BY DEF Targets, RefreshInv, TypeOK
    <2> QED
      BY <1>10, <2>1, SweepStep DEF TimerFires, RefreshAll, Fetch, RefreshInv, TypeOK
  <1>11. CASE IntervalPasses \/ SetAuto
    BY <1>11, QuietStep DEF IntervalPasses, SetAuto, RefreshInv, TypeOK, ClientsOfConfig
  <1>12. CASE \E new \in SUBSET Cluster : \E on \in SUBSET new : SetConfig(new, on)
    BY <1>12, SetConfigStep
  <1>13. CASE SetSessionCredential
    <2>1. client' \in [Cluster -> Client \cup {None}] /\ ClientsOfConfig'
      BY <1>13, NewClientType, NoneAssumption DEF SetSessionCredential, RefreshInv, TypeOK, ClientsOfConfig
    <2>2. loads' \in 0..MaxLoads
      BY <1>13, RefreshAssumption DEF SetSessionCredential, RefreshInv, TypeOK
    <2> QED
      BY <1>13, <2>1, <2>2, QuietStep DEF SetSessionCredential, RefreshInv, TypeOK
  <1>14. CASE Primed
    BY <1>14, PrimedStep
  <1>15. CASE UNCHANGED vars
    BY <1>15, QuietStep DEF vars, RefreshInv, TypeOK, ClientsOfConfig
  <1> QED
    BY <1>1, <1>2, <1>3, <1>5, <1>6, <1>7, <1>8, <1>9, <1>10, <1>11, <1>12, <1>13, <1>14, <1>15
    DEF Next, SweepGoesOn, TimerRuns

THEOREM RefreshInvariant == Spec => []RefreshInv
  BY InitRefreshInv, NextRefreshInv, PTL DEF Spec

\* Refresh is well typed, for any clusters.
THEOREM RefreshTypeCorrect == Spec => []TypeOK
  BY RefreshInvariant, PTL DEF RefreshInv

\* No fetch of a sweep outlives `refreshing`, for any number of clusters.
THEOREM SweepsOwnTheirFetches == Spec => []SweepOwnsItsFetches
  BY RefreshInvariant, PTL DEF RefreshInv

\* After a reload nothing is shown of a cluster no longer named, and of one read since
\* only what an overview carries over, unless a fetch was under way for it.
THEOREM ReloadsAreClean == Spec => []ReloadIsClean
  BY RefreshInvariant, PTL DEF RefreshInv

-----------------------------------------------------------------------------
(***************************************************************************)
(* The refinement.  An answer is on its way to the page for a fetch in     *)
(* flight; asking adds answers, one that arrives is shown or dropped.      *)
(***************************************************************************)
LEMMA OriginKind == \A j \in Job, d \in Dataset : Origin(j, d) \in View!Kind
  BY DEF Job, Origin, View!Kind

LEMMA OnTheirWayType ==
  ASSUME TypeOK
  PROVE  /\ OnTheirWay \in [Cluster -> [Dataset -> SUBSET View!Kind]]
         /\ \A c \in Cluster, d \in Dataset : \A k : k \in OnTheirWay[c][d] <=>
              \E x \in Asker : /\ job[c][x] # None /\ d \in About(job[c][x].fetch)
                              /\ k = Origin(job[c][x], d)
  <1>1. \A c \in Cluster, w \in Asker, d \in Dataset :
          job[c][w] # None => Origin(job[c][w], d) \in View!Kind
    BY OriginKind DEF TypeOK
  <1> QED
    BY <1>1 DEF OnTheirWay

LEMMA OnTheirWayTypeNext ==
  ASSUME TypeOK'
  PROVE  /\ OnTheirWay' \in [Cluster -> [Dataset -> SUBSET View!Kind]]
         /\ \A c \in Cluster, d \in Dataset : \A k : k \in OnTheirWay'[c][d] <=>
              \E x \in Asker : /\ job'[c][x] # None /\ d \in About(job'[c][x].fetch)
                              /\ k = Origin(job'[c][x], d)
  <1>1. \A c \in Cluster, w \in Asker, d \in Dataset :
          job'[c][w] # None => Origin(job'[c][w], d) \in View!Kind
    BY OriginKind DEF TypeOK
  <1> QED
    BY <1>1 DEF OnTheirWay

LEMMA AsksMaps ==
  ASSUME RefreshInv, RefreshInv', NEW C \in SUBSET named, NEW w \in Asker, NEW fetch \in Fetch,
         Asks(C, w, fetch), UNCHANGED <<named, enabled, client>>
  PROVE  View!ViewNext
  <1>1. C \in SUBSET Cluster
    BY DEF RefreshInv, TypeOK
  <1>2. ASSUME NEW c \in Cluster, NEW x \in Asker
        PROVE  \/ job'[c][x] = job[c][x]
               \/ c \in C /\ MayFetch(c, fetch) /\ job'[c][x] = NewJob(c, fetch)
    <2>1. job' = [b \in Cluster |->
                   IF b \in C /\ MayFetch(b, fetch) THEN [job[b] EXCEPT ![w] = NewJob(b, fetch)] ELSE job[b]]
      BY DEF Asks
    <2>2. job[c] \in [Asker -> Job \cup {None}]
      BY DEF RefreshInv, TypeOK
    <2> QED
      BY <2>1, <2>2
  <1>3. ASSUME NEW c \in Cluster, NEW d \in Dataset, d \in About(fetch)
        PROVE  Origin(NewJob(c, fetch), d) \in {"now", shown[c][d]}
    BY <1>3 DEF NewJob, Origin, About, Dataset
  <1>4. ASSUME NEW c \in Cluster, NEW d \in Dataset
        PROVE  OnTheirWay'[c][d] \subseteq
                 OnTheirWay[c][d] \cup (IF c \in named THEN {"now", shown[c][d]} ELSE {})
    <2> SUFFICES ASSUME NEW k, k \in OnTheirWay'[c][d], k \notin OnTheirWay[c][d]
                 PROVE  c \in named /\ k \in {"now", shown[c][d]}
      OBVIOUS
    <2>1. PICK x \in Asker : /\ job'[c][x] # None /\ d \in About(job'[c][x].fetch)
                             /\ k = Origin(job'[c][x], d)
      BY OnTheirWayTypeNext DEF RefreshInv
    <2>2. job'[c][x] # job[c][x]
      BY <2>1, OnTheirWayType DEF RefreshInv
    <2>3. c \in C /\ job'[c][x] = NewJob(c, fetch) /\ NewJob(c, fetch).fetch = fetch
      BY <1>2, <2>2 DEF NewJob
    <2> QED
      BY <1>3, <2>1, <2>3
  <1>5. View!Ask
    BY <1>4, OnTheirWayTypeNext DEF View!Ask, Asks, RefreshInv
  <1> QED
    BY <1>5 DEF View!ViewNext

LEMMA PublishMaps ==
  ASSUME RefreshInv, RefreshInv', NEW c \in Cluster, NEW w \in Asker, job[c][w] # None,
         NEW next \in Job \cup {None},
         next # None => /\ next.base = job[c][w].base /\ next.kept = job[c][w].kept
                        /\ About(next.fetch) = About(job[c][w].fetch),
         \/ Publish(c, w, next)
         \/ job' = [job EXCEPT ![c][w] = next] /\ UNCHANGED <<shown, unread, missed>>,
         UNCHANGED named
  PROVE  View!ViewNext
  <1> DEFINE j == job[c][w]
  <1>1. \A b \in Cluster, x \in Asker : job'[b][x] = IF b = c /\ x = w THEN next ELSE job[b][x]
    BY DEF Publish, RefreshInv, TypeOK
  <1>2. \A b \in Cluster, d \in Dataset :
          \/ shown'[b][d] = shown[b][d]
          \/ b = c /\ d \in About(j.fetch) /\ shown'[b][d] = Origin(j, d)
    BY DEF Publish, RefreshInv, TypeOK
  <1>3. ASSUME NEW b \in Cluster, NEW d \in Dataset
        PROVE  /\ shown'[b][d] \in {shown[b][d]} \cup OnTheirWay[b][d]
               /\ OnTheirWay'[b][d] \subseteq OnTheirWay[b][d]
    <2>1. shown'[b][d] \in {shown[b][d]} \cup OnTheirWay[b][d]
      BY <1>2, OnTheirWayType DEF RefreshInv
    <2>2. ASSUME NEW k, k \in OnTheirWay'[b][d]
          PROVE  k \in OnTheirWay[b][d]
      <3>1. PICK x \in Asker : /\ job'[b][x] # None /\ d \in About(job'[b][x].fetch)
                               /\ k = Origin(job'[b][x], d)
        BY <2>2, OnTheirWayTypeNext DEF RefreshInv
      <3>2. /\ job[b][x] # None /\ d \in About(job[b][x].fetch)
            /\ k = Origin(job[b][x], d)
        BY <1>1, <3>1 DEF Origin
      <3> QED
        BY <3>2, OnTheirWayType DEF RefreshInv
    <2> QED
      BY <2>1, <2>2
  <1>4. shown' \in [Cluster -> [Dataset -> View!Kind \cup {"nothing"}]]
    BY DEF RefreshInv, TypeOK, Shown, View!Kind
  <1>5. View!Answer
    BY <1>3, <1>4, OnTheirWayTypeNext DEF View!Answer, RefreshInv
  <1> QED
    BY <1>5 DEF View!ViewNext

LEMMA SetConfigMaps ==
  ASSUME RefreshInv, RefreshInv', NEW new \in SUBSET Cluster, NEW on \in SUBSET new, SetConfig(new, on)
  PROVE  View!ViewNext
  <1>1. \A c \in Cluster, w \in Asker :
          /\ job[c][w] = None <=> job'[c][w] = None
          /\ job[c][w] # None =>
               /\ job'[c][w].fetch = job[c][w].fetch
               /\ \A d \in Dataset : Origin(job'[c][w], d) = "earlier"
    <2>1. \A j \in Job : /\ Outlived(j) \in Job /\ Outlived(j).fetch = j.fetch
                         /\ Outlived(j).base = "earlier" /\ Outlived(j).kept = "earlier"
      BY NoneAssumption DEF Outlived, Job
    <2>2. \A c \in Cluster, w \in Asker :
            job[c][w] \in Job \cup {None} /\ job'[c][w] = Outlived(job[c][w])
      BY DEF SetConfig, RefreshInv, TypeOK
    <2>3. Outlived(None) = None
      BY DEF Outlived
    <2> QED
      BY <2>1, <2>2, <2>3, NoneAssumption DEF Origin
  <1>2. OnTheirWay' \in [Cluster -> [Dataset -> SUBSET View!Kind]]
    BY OnTheirWayTypeNext DEF RefreshInv
  <1>3. ASSUME NEW c \in Cluster, NEW d \in Dataset
        PROVE  OnTheirWay'[c][d] = IF OnTheirWay[c][d] = {} THEN {} ELSE {"earlier"}
    <2> DEFINE Of == {x \in Asker : job[c][x] # None /\ d \in About(job[c][x].fetch)}
    <2>1. \A k : k \in OnTheirWay'[c][d] <=> Of # {} /\ k = "earlier"
      BY <1>1, OnTheirWayTypeNext DEF RefreshInv
    <2>2. OnTheirWay[c][d] = {} <=> Of = {}
      BY OnTheirWayType DEF RefreshInv
    <2> HIDE DEF Of
    <2> QED
      BY <2>1, <2>2
  <1>4. OnTheirWay' = [c \in Cluster |-> [d \in Dataset |->
                        IF OnTheirWay[c][d] = {} THEN {} ELSE {"earlier"}]]
    BY <1>2, <1>3
  <1>5. View!Replace
    BY <1>4 DEF View!Replace, SetConfig, Kept
  <1> QED
    BY <1>5 DEF View!ViewNext

LEMMA StutterMaps ==
  ASSUME UNCHANGED <<named, shown, job>>
  PROVE  UNCHANGED View!viewVars
  <1>1. OnTheirWay' = OnTheirWay
    BY DEF OnTheirWay
  <1> QED
    BY <1>1 DEF View!viewVars

LEMMA AnsweredMaps ==
  ASSUME RefreshInv, RefreshInv', NEW c \in Cluster, NEW w \in Asker, Answered(c, w)
  PROVE  View!ViewNext
  <1> DEFINE j == job[c][w]
             next == [j EXCEPT !.fetch = "snapshots", !.old = FALSE]
  <1>1. j # None /\ j \in Job /\ UNCHANGED named
    BY DEF Answered, Overviewed, Listed, Rowed, RefreshInv, TypeOK
  <1>2. CASE Publish(c, w, None) \/ (job' = [job EXCEPT ![c][w] = None] /\ UNCHANGED <<shown, unread, missed>>)
    BY <1>1, <1>2, PublishMaps
  <1>3. CASE ThenSnapshots(c, w)
    <2>1. /\ next \in Job /\ next.base = j.base /\ next.kept = j.kept
          /\ About(next.fetch) = About(j.fetch)
      BY <1>1, <1>3 DEF Job, Fetch, About, ThenSnapshots
    <2>2. Publish(c, w, next)
      BY <1>3 DEF ThenSnapshots
    <2> QED
      BY <1>1, <2>1, <2>2, PublishMaps
  <1> QED
    BY <1>2, <1>3 DEF Answered, Overviewed, Listed, Rowed

LEMMA StepMaps == RefreshInv /\ RefreshInv' /\ [Next]_vars => [View!ViewNext]_(View!viewVars)
  <1> SUFFICES ASSUME RefreshInv, RefreshInv', [Next]_vars
               PROVE  View!ViewNext \/ UNCHANGED View!viewVars
    OBVIOUS
  <1>1. CASE \E c \in Cluster, w \in Asker : Answered(c, w)
    BY <1>1, AnsweredMaps
  <1>2. CASE \E c \in Cluster : WaitEnds(c)
    BY <1>2, StutterMaps DEF WaitEnds
  <1>3. CASE \E c \in PageAsks, fetch \in Fetch : PageFetches(c, fetch)
    BY <1>3, AsksMaps DEF PageFetches, Asker
  <1>4. \A scope \in Scopes : scope \in SUBSET named /\ \A force \in BOOLEAN : Targets(scope, force) \in SUBSET named
    BY DEF Scopes, Targets, RefreshInv, TypeOK
  <1>5. CASE PressRefresh
    BY <1>4, <1>5, AsksMaps DEF PressRefresh, RefreshAll, StartSweep, Fetch, Asker
  <1>6. CASE \E fetch \in Fetch : RefreshModule(fetch)
    BY <1>4, <1>6, AsksMaps DEF RefreshModule, StartSweep, Asker
  <1>7. CASE AskLoad \/ EndSweep \/ EndModule \/ IntervalPasses \/ SetAuto \/ SetSessionCredential
    BY <1>7, StutterMaps DEF AskLoad, EndSweep, EndModule, IntervalPasses, SetAuto, SetSessionCredential
  <1>8. CASE TimerFires
    <2>1. Targets(enabled, FALSE) \in SUBSET named
      BY DEF Targets, RefreshInv, TypeOK
    <2> QED
      BY <1>8, <2>1, AsksMaps DEF TimerFires, RefreshAll, StartSweep, Fetch, Asker
  <1>9. CASE \E new \in SUBSET Cluster : \E on \in SUBSET new : SetConfig(new, on)
    BY <1>9, SetConfigMaps
  <1>10. CASE Primed
    <2>1. Targets(enabled, TRUE) \in SUBSET named
      BY DEF Targets, RefreshInv, TypeOK
    <2>2. CASE ~refreshing
      BY <1>10, <2>1, <2>2, AsksMaps DEF Primed, RefreshAll, StartSweep, Fetch, Asker
    <2>3. CASE refreshing
      BY <1>10, <2>3, StutterMaps DEF Primed
    <2> QED
      BY <2>2, <2>3
  <1>11. CASE UNCHANGED vars
    BY <1>11, StutterMaps DEF vars
  <1> QED
    BY <1>1, <1>2, <1>3, <1>5, <1>6, <1>7, <1>8, <1>9, <1>10, <1>11 DEF Next, SweepGoesOn, TimerRuns

LEMMA InitMaps == Init => View!ViewInit
  <1> SUFFICES ASSUME Init PROVE View!ViewInit
    OBVIOUS
  <1>1. OnTheirWay = [c \in Cluster |-> [d \in Dataset |-> {}]]
    BY DEF Init, OnTheirWay
  <1> QED
    BY <1>1 DEF Init, View!ViewInit

\* Whatever overtakes whatever, the pages of any fleet only show answers that were asked for.
THEOREM RefreshImplementsFleetView == Spec => ShowsOnlyAnswers
  BY RefreshInvariant, InitMaps, StepMaps, PTL DEF Spec, ShowsOnlyAnswers, View!ViewSpec
=============================================================================
