------------------------------- MODULE Console -------------------------------
(***************************************************************************)
(* The parts of the page, each with the world it talks to, as one system.  *)
(* They share no state here (README: how the parts meet), so a behaviour   *)
(* is a behaviour of one of them, which `part` names, and they take turns  *)
(* in the variables v1 .. v18; those that a part does not need are None.   *)
(***************************************************************************)
EXTENDS Integers, Sequences, FiniteSets

\* The constants of the parts; each says what they are in its module.
CONSTANTS
  Cluster, Host, Name,      \* what several parts name: clusters, hosts, and other things
  All, None,
  Token,                    \* Session
  Fleets,                   \* Navigation
  ClusterList, MaxAsked,    \* Unlock (a sequence of clusters); LogTail
  Password,                 \* ConfigEditor
  Spelling, MaxClusters,    \* Routes
  Watched, Grace, MaxDay, MaxRaced,   \* Acks
  Elected, MasterWindow, Muted, Acked,                      \* Alerting
  DataNode, Path, CapacityWindow, DiskSizes, Rests, MaxGrown,   \* Capacity
  Lists, FanOutLimit,       \* FanOut
  DelayLimit,               \* DelayView
  ArchiveDays,              \* Archive
  MaxSnapshots, SnapshotWindow,     \* SnapshotWatch
  Rules, RuleDays, RuleMoves,       \* Housekeeping
  Pct, Lows,                \* Balance
  Replica, ShardMoves,      \* Shards
  MaxSent, HistoryLimit,    \* RestConsole
  DailyIndex, MaxTaken,     \* SnapshotPage
  Keep, MaxSecond, ConfigSaves,     \* Settings
  RuleEdits, RuleSaves,     \* RuleBook
  VolumeDays, DaySizes, Windows, Policies, BackupCapacity, DiskTotal, MeasuredAtMost,   \* Volume
  LastIndex, PerPage, Texts, MaxFound, IndexMoves, MaxFilters       \* IndexTable

VARIABLES
  part, v1, v2, v3, v4, v5, v6, v7, v8, v9, v10, v11, v12, v13, v14, v15, v16,
  v17, v18

vars == <<part, v1, v2, v3, v4, v5, v6, v7, v8, v9, v10, v11, v12, v13, v14, v15, v16, v17, v18>>

\* The provers carry all of these: what names the variables most stands nearest to them.
Se == INSTANCE Session WITH
  live <- v1, required <- v2, shipped <- v3, session <- v4, screen <- v5,
  me <- v6, asked <- v7, leaving <- v8, blind <- v9
Ed == INSTANCE ConfigEditor WITH
  Master <- Password, file <- v1, raw <- v2, master <- v3, dialog <- v4,
  saving <- v5, saved <- v6, loose <- v7, others <- v8, guessed <- v9
Cr == INSTANCE Credentials WITH
  file <- v1, conf <- v2, typed <- v3, vault <- v4, opening <- v5,
  seeking <- v6, outdated <- v7, overridden <- v8
It == INSTANCE IndexTable WITH
  Repo <- Name, MaxMoves <- IndexMoves, about <- v1, live <- v2, moves <- v3,
  list <- v4, filter <- v5, filters <- v6, page <- v7, selected <- v8,
  loading <- v9, dialog <- v10, settings <- v11, spoiled <- v12, held <- v13,
  repos <- v14, searches <- v15, ev <- v16, crossed <- v17
St == INSTANCE Settings WITH
  MaxSaves <- ConfigSaves, about <- v1, second <- v2, file <- v3, tmp <- v4,
  versions <- v5, config <- v6, handle <- v7, saves <- v8, save <- v9,
  replaced <- v10, crowded <- v11, list <- v12, core <- v13, sink <- v14,
  answer <- v15, section <- v16, form <- v17, picked <- v18
Sp == INSTANCE SnapshotPage WITH
  Index <- DailyIndex, live <- v1, repo <- v2, registered <- v3, rows <- v4,
  picked <- v5, dialog <- v6, removing <- v7, freed <- v8, wrong <- v9,
  taken <- v10
Ho == INSTANCE Housekeeping WITH
  LastDay <- RuleDays, MaxMoves <- RuleMoves, live <- v1, status <- v2,
  good <- v3, readable <- v4, list <- v5, run <- v6, proposal <- v7,
  dialog <- v8, asked <- v9, proved <- v10, lost <- v11, moves <- v12
Sh == INSTANCE Shards WITH
  Shard <- Name, Node <- Host, MaxMoves <- ShardMoves, at <- v1,
  listing <- v2, picked <- v3, clicked <- v4, dialog <- v5, wrong <- v6,
  moves <- v7
Al == INSTANCE Alerting WITH
  Master <- Elected, Window <- MasterWindow, red <- v1, failing <- v2,
  master <- v3, d <- v4, off <- v5, acked <- v6, seen <- v7, news <- v8,
  gone <- v9
Lo == INSTANCE LogTail WITH
  Device <- Name, here <- v1, painted <- v2, tailed <- v3, searches <- v4,
  hits <- v5, tail <- v6, ticking <- v7, watch <- v8, polls <- v9,
  beating <- v10, cards <- v11
Rb == INSTANCE RuleBook WITH
  Id <- Name, MaxEdits <- RuleEdits, MaxSaves <- RuleSaves, about <- v1,
  book <- v2, file <- v3, builder <- v4, edits <- v5, due <- v6,
  previews <- v7, panes <- v8, crossed <- v9, saving <- v10, saves <- v11,
  told <- v12, doubtful <- v13
Ar == INSTANCE Archive WITH
  LastDay <- ArchiveDays, bucket <- v1, held <- v2, pull <- v3, shown <- v4,
  findings <- v5, everyDay <- v6, stored <- v7
Ca == INSTANCE Capacity WITH
  Node <- DataNode, Window <- CapacityWindow, Sizes <- DiskSizes, about <- v1,
  size <- v2, up <- v3, read <- v4, seen <- v5, rebuilt <- v6, swapped <- v7,
  kept <- v8, rest <- v9, held <- v10, list <- v11, shown <- v12, grown <- v13
Ac == INSTANCE Acks WITH
  Key <- Name, day <- v1, live <- v2, mem <- v3, disk <- v4, loading <- v5,
  pruning <- v6, running <- v7, wanted <- v8, missed <- v9, crossed <- v10,
  raced <- v11
Na == INSTANCE Navigation WITH
  role <- v1, fleet <- v2, page <- v3, selected <- v4, fleetView <- v5,
  fleetChosen <- v6, chosen <- v7
Re == INSTANCE RestConsole WITH
  MaxRuns <- MaxSent, Limit <- HistoryLimit, core <- v1, primed <- v2,
  copy <- v3, readOnly <- v4, typed <- v5, asking <- v6, flying <- v7,
  history <- v8, stored <- v9, reading <- v10, runs <- v11, slipped <- v12,
  doubtful <- v13
Sn == INSTANCE SnapshotWatch WITH
  MaxRuns <- MaxSnapshots, Window <- SnapshotWindow, runs <- v1, begun <- v2,
  late <- v3, listed <- v4, error <- v5, seen <- v6, told <- v7, watched <- v8
Vo == INSTANCE Volume WITH
  LastDay <- VolumeDays, Sizes <- DaySizes, Capacity <- BackupCapacity,
  Cap <- MeasuredAtMost, about <- v1, today <- v2, bytes <- v3,
  settings <- v4, stated <- v5, applied <- v6, disk <- v7, snaps <- v8,
  measuring <- v9, repo <- v10, spoken <- v11, analysis <- v12
Ro == INSTANCE Routes WITH
  Names <- Spelling, about <- v1, hosts <- v2, own <- v3, other <- v4,
  list <- v5, last <- v6
Un == INSTANCE Unlock WITH
  Cluster <- ClusterList, about <- v1, core <- v2, primed <- v3,
  readOnly <- v4, copy <- v5, wire <- v6, settled <- v7, clients <- v8,
  chosen <- v9, run <- v10
Ba == INSTANCE Balance WITH
  Node <- Name, disk <- v1, unassigned <- v2, low <- v3, enable <- v4
De == INSTANCE DelayView WITH
  Limit <- DelayLimit, active <- v1, entry <- v2, check <- v3, fetch <- v4,
  token <- v5, merged <- v6, repicked <- v7
Fa == INSTANCE FanOut WITH
  Limit <- FanOutLimit, run <- v1

\* What the theorems need of the constants (ConsoleProofs).
ASSUME SessionAssumption == None \notin Token
ASSUME NavigationAssumption == \A f \in Fleets : f \in Seq(Na!Members(f)) /\ All \notin Na!Members(f)
ASSUME UnlockAssumption == ClusterList \in Seq(Un!Listed) /\ \A i, j \in DOMAIN ClusterList : ClusterList[i] = ClusterList[j] => i = j
ASSUME CredentialsAssumption == None \notin {"own", "openA", "openB"} \cup Cr!Typed
ASSUME ConfigEditorAssumption ==
  /\ None \notin Password \cup {"in", "out", "write", "read"}
  /\ None \notin Ed!Config /\ None \notin Ed!Editor
ASSUME RoutesAssumption == Spelling \subseteq [slug : Seq(Nat), case : Nat]
ASSUME AcksAssumption ==
  /\ IsFiniteSet(Name) /\ Grace \in Nat /\ None \notin Nat
  /\ None \notin [acked : BOOLEAN, note : BOOLEAN, missingSince : Nat \cup {None}]
ASSUME CapacityAssumption ==
  IsFiniteSet(DataNode) /\ Path \in Nat /\ DiskSizes \subseteq Nat /\ Rests \subseteq Nat /\ None \notin Nat
ASSUME FanOutAssumption == FanOutLimit \in Nat \ {0} /\ \A items \in Lists : Len(items) \in Nat
ASSUME DelayViewAssumption ==
  /\ IsFiniteSet(Cluster) /\ DelayLimit \in Nat \ {0}
  /\ None \notin {"check", "fetch", "loading"}
  /\ None \notin [items : Seq(Cluster), next : Nat, flying : SUBSET Nat, settled : SUBSET Nat, cancelled : BOOLEAN]
ASSUME LogTailAssumption == None \notin Lo!Watch
ASSUME ArchiveAssumption == None \notin Ar!Pull
ASSUME SnapshotWatchAssumption == MaxSnapshots \in Nat \ {0} /\ SnapshotWindow \in Nat \ {0}
ASSUME BalanceAssumption ==
  /\ IsFiniteSet(Name) /\ Pct \subseteq Nat /\ Lows \subseteq Nat \cup {None}
  /\ None \notin Nat \cup {"look", "explain", "unblock", "enable", "move", "oldest", "proposed"}
ASSUME ShardsAssumption == None \notin [cluster : Cluster, node : Host]
ASSUME SnapshotPageAssumption == DailyIndex \subseteq Nat /\ IsFiniteSet(DailyIndex)
ASSUME SettingsAssumption == Keep \in Nat /\ None \notin Nat \cup Cluster
ASSUME VolumeAssumption ==
  /\ VolumeDays \in Nat /\ VolumeDays >= 2 /\ None \notin Nat /\ DaySizes \subseteq Nat \cup {None}
  /\ Windows \subseteq [windowDays : Int, topDays : Int, headroomPercent : Int]
  /\ \A p \in Policies : p # None => p[1] \in Nat
  /\ (BackupCapacity # None => BackupCapacity[1] \in Nat) /\ DiskTotal \in Nat /\ MeasuredAtMost \in Nat
ASSUME IndexTableAssumption ==
  /\ LastIndex \in Nat /\ PerPage \in Nat \ {0} /\ MaxFound \in Nat
  /\ None \notin It!Dialog /\ None \notin It!Query /\ None # "SUCCESS"

Init ==
  \/ part = "Session" /\ Se!Init
     /\ v10 = None /\ v11 = None /\ v12 = None /\ v13 = None /\ v14 = None /\ v15 = None /\ v16 = None /\ v17 = None /\ v18 = None
  \/ part = "Navigation" /\ Na!Init
     /\ v8 = None /\ v9 = None /\ v10 = None /\ v11 = None /\ v12 = None /\ v13 = None /\ v14 = None /\ v15 = None /\ v16 = None /\ v17 = None /\ v18 = None
  \/ part = "Unlock" /\ Un!Init
     /\ v11 = None /\ v12 = None /\ v13 = None /\ v14 = None /\ v15 = None /\ v16 = None /\ v17 = None /\ v18 = None
  \/ part = "Credentials" /\ Cr!Init
     /\ v9 = None /\ v10 = None /\ v11 = None /\ v12 = None /\ v13 = None /\ v14 = None /\ v15 = None /\ v16 = None /\ v17 = None /\ v18 = None
  \/ part = "ConfigEditor" /\ Ed!Init
     /\ v10 = None /\ v11 = None /\ v12 = None /\ v13 = None /\ v14 = None /\ v15 = None /\ v16 = None /\ v17 = None /\ v18 = None
  \/ part = "Routes" /\ Ro!Init
     /\ v7 = None /\ v8 = None /\ v9 = None /\ v10 = None /\ v11 = None /\ v12 = None /\ v13 = None /\ v14 = None /\ v15 = None /\ v16 = None /\ v17 = None /\ v18 = None
  \/ part = "Acks" /\ Ac!Init
     /\ v12 = None /\ v13 = None /\ v14 = None /\ v15 = None /\ v16 = None /\ v17 = None /\ v18 = None
  \/ part = "Alerting" /\ Al!Init
     /\ v10 = None /\ v11 = None /\ v12 = None /\ v13 = None /\ v14 = None /\ v15 = None /\ v16 = None /\ v17 = None /\ v18 = None
  \/ part = "Capacity" /\ Ca!Init
     /\ v14 = None /\ v15 = None /\ v16 = None /\ v17 = None /\ v18 = None
  \/ part = "FanOut" /\ Fa!Init
     /\ v2 = None /\ v3 = None /\ v4 = None /\ v5 = None /\ v6 = None /\ v7 = None /\ v8 = None /\ v9 = None /\ v10 = None /\ v11 = None /\ v12 = None /\ v13 = None /\ v14 = None /\ v15 = None /\ v16 = None /\ v17 = None /\ v18 = None
  \/ part = "DelayView" /\ De!Init
     /\ v8 = None /\ v9 = None /\ v10 = None /\ v11 = None /\ v12 = None /\ v13 = None /\ v14 = None /\ v15 = None /\ v16 = None /\ v17 = None /\ v18 = None
  \/ part = "LogTail" /\ Lo!Init
     /\ v12 = None /\ v13 = None /\ v14 = None /\ v15 = None /\ v16 = None /\ v17 = None /\ v18 = None
  \/ part = "Archive" /\ Ar!Init
     /\ v8 = None /\ v9 = None /\ v10 = None /\ v11 = None /\ v12 = None /\ v13 = None /\ v14 = None /\ v15 = None /\ v16 = None /\ v17 = None /\ v18 = None
  \/ part = "SnapshotWatch" /\ Sn!Init
     /\ v9 = None /\ v10 = None /\ v11 = None /\ v12 = None /\ v13 = None /\ v14 = None /\ v15 = None /\ v16 = None /\ v17 = None /\ v18 = None
  \/ part = "Housekeeping" /\ Ho!Init
     /\ v13 = None /\ v14 = None /\ v15 = None /\ v16 = None /\ v17 = None /\ v18 = None
  \/ part = "Balance" /\ Ba!Init
     /\ v5 = None /\ v6 = None /\ v7 = None /\ v8 = None /\ v9 = None /\ v10 = None /\ v11 = None /\ v12 = None /\ v13 = None /\ v14 = None /\ v15 = None /\ v16 = None /\ v17 = None /\ v18 = None
  \/ part = "Shards" /\ Sh!Init
     /\ v8 = None /\ v9 = None /\ v10 = None /\ v11 = None /\ v12 = None /\ v13 = None /\ v14 = None /\ v15 = None /\ v16 = None /\ v17 = None /\ v18 = None
  \/ part = "RestConsole" /\ Re!Init
     /\ v14 = None /\ v15 = None /\ v16 = None /\ v17 = None /\ v18 = None
  \/ part = "SnapshotPage" /\ Sp!Init
     /\ v11 = None /\ v12 = None /\ v13 = None /\ v14 = None /\ v15 = None /\ v16 = None /\ v17 = None /\ v18 = None
  \/ part = "Settings" /\ St!Init
  \/ part = "Volume" /\ Vo!Init
     /\ v13 = None /\ v14 = None /\ v15 = None /\ v16 = None /\ v17 = None /\ v18 = None
  \/ part = "RuleBook" /\ Rb!Init
     /\ v14 = None /\ v15 = None /\ v16 = None /\ v17 = None /\ v18 = None
  \/ part = "IndexTable" /\ It!Init
     /\ v18 = None

Next ==
  /\ UNCHANGED part
  /\ \/ part = "Session" /\ Se!Next /\ UNCHANGED <<v10, v11, v12, v13, v14, v15, v16, v17, v18>>
     \/ part = "Navigation" /\ Na!Next /\ UNCHANGED <<v8, v9, v10, v11, v12, v13, v14, v15, v16, v17, v18>>
     \/ part = "Unlock" /\ Un!Next /\ UNCHANGED <<v11, v12, v13, v14, v15, v16, v17, v18>>
     \/ part = "Credentials" /\ Cr!Next /\ UNCHANGED <<v9, v10, v11, v12, v13, v14, v15, v16, v17, v18>>
     \/ part = "ConfigEditor" /\ Ed!Next /\ UNCHANGED <<v10, v11, v12, v13, v14, v15, v16, v17, v18>>
     \/ part = "Routes" /\ Ro!Next /\ UNCHANGED <<v7, v8, v9, v10, v11, v12, v13, v14, v15, v16, v17, v18>>
     \/ part = "Acks" /\ Ac!Next /\ UNCHANGED <<v12, v13, v14, v15, v16, v17, v18>>
     \/ part = "Alerting" /\ Al!Next /\ UNCHANGED <<v10, v11, v12, v13, v14, v15, v16, v17, v18>>
     \/ part = "Capacity" /\ Ca!Next /\ UNCHANGED <<v14, v15, v16, v17, v18>>
     \/ part = "FanOut" /\ Fa!Next /\ UNCHANGED <<v2, v3, v4, v5, v6, v7, v8, v9, v10, v11, v12, v13, v14, v15, v16, v17, v18>>
     \/ part = "DelayView" /\ De!Next /\ UNCHANGED <<v8, v9, v10, v11, v12, v13, v14, v15, v16, v17, v18>>
     \/ part = "LogTail" /\ Lo!Next /\ UNCHANGED <<v12, v13, v14, v15, v16, v17, v18>>
     \/ part = "Archive" /\ Ar!Next /\ UNCHANGED <<v8, v9, v10, v11, v12, v13, v14, v15, v16, v17, v18>>
     \/ part = "SnapshotWatch" /\ Sn!Next /\ UNCHANGED <<v9, v10, v11, v12, v13, v14, v15, v16, v17, v18>>
     \/ part = "Housekeeping" /\ Ho!Next /\ UNCHANGED <<v13, v14, v15, v16, v17, v18>>
     \/ part = "Balance" /\ Ba!Next /\ UNCHANGED <<v5, v6, v7, v8, v9, v10, v11, v12, v13, v14, v15, v16, v17, v18>>
     \/ part = "Shards" /\ Sh!Next /\ UNCHANGED <<v8, v9, v10, v11, v12, v13, v14, v15, v16, v17, v18>>
     \/ part = "RestConsole" /\ Re!Next /\ UNCHANGED <<v14, v15, v16, v17, v18>>
     \/ part = "SnapshotPage" /\ Sp!Next /\ UNCHANGED <<v11, v12, v13, v14, v15, v16, v17, v18>>
     \/ part = "Settings" /\ St!Next
     \/ part = "Volume" /\ Vo!Next /\ UNCHANGED <<v13, v14, v15, v16, v17, v18>>
     \/ part = "RuleBook" /\ Rb!Next /\ UNCHANGED <<v14, v15, v16, v17, v18>>
     \/ part = "IndexTable" /\ It!Next /\ UNCHANGED <<v18>>

Spec == Init /\ [][Next]_vars

-----------------------------------------------------------------------------
(***************************************************************************)
(* The properties of the parts, by what they are about.  Each part states  *)
(* its own in full, with the exceptions the code has, in its module.       *)
(***************************************************************************)

\* Who is who on the page: a page whose session is gone shows the gate (app.js); no cluster is
\* reached with a credential nobody meant for it (state.js, the credential dialogs); one master
\* password opens all that is sealed (config-editor.js); and an id stays with its cluster when
\* the config is edited (config.js).
IdentityIsKept ==
  /\ part = "Session" => Se!NoStaleApp
  /\ part = "Credentials" => Cr!CredentialsAreWhereTheyBelong
  /\ part = "ConfigEditor" => Ed!OneMasterOpensAll
  /\ part = "Routes" => Ro!IdsStayWithTheirClusters

\* What is said to be saved is: in the config file (config-editor.js), which can be read back
\* (config.js), with the version it replaced in the history (vault_files.rs); and what the
\* scheduled measurement runs on is what was ticked (settings.js).
SavedMeansSaved ==
  /\ part = "ConfigEditor" => Ed!SavedMeansWritten
  /\ part = "Routes" => Ro!WrittenCanBeRead
  /\ part = "Settings" => St!NothingReplacedIsLost
  /\ part = "Settings" => St!ArmedMeansPicked

\* A write is what somebody asked for: it is offered when the core would let it through
\* (writes.js) and confirmed as it is sent (console.js); a task and a reroute are of what was
\* ticked when they were asked for (tasks.js, shards.js); and a setting that was left alone
\* stays (index-actions.js).
WritesAreDeliberate ==
  /\ part = "Unlock" => Un!OffersWhatTheCoreAllows
  /\ part = "Unlock" => Un!TasksKeepToTheirList
  /\ part = "RestConsole" => Re!NoWriteSlipsBy
  /\ part = "Shards" => Sh!MovesWhatWasTicked
  /\ part = "IndexTable" => It!SettingsLeftAlone

\* An alert has something behind it, and what an operator did about it is kept: a capacity that
\* changed and disk that no index accounts for, through restarts and old readings (state.js),
\* the outcome of every snapshot run that was watched (notify.js), the notes and the
\* acknowledgements (acks.js); and the first thing to do about a disk that fills up fits its
\* figures (disk-balance.js).
AlertsHaveACause ==
  /\ part = "Capacity" => Ca!RestartsDoNotAlarm
  /\ part = "Capacity" => Ca!GapsAreReal
  /\ part = "SnapshotWatch" => Sn!OutcomesAreTold
  /\ part = "Acks" => Ac!WhatWasWrittenIsKept
  /\ part = "Balance" => Ba!AdviceFits

\* An index that was deleted is in a good snapshot or was named in a question that said it is in
\* none, whatever a rule proposed before (automation.js, index-actions.js); what was deleted
\* because a snapshot holds it can be found there (snapshot-dialogs.js); and no day is called
\* not archived that was stored all along (ulm.js).
NoDataIsLostUnasked ==
  /\ part = "Housekeeping" => Ho!NothingLostUnasked
  /\ part = "SnapshotPage" => Sp!FreedCanBeFound
  /\ part = "Archive" => Ar!MissingMeansMissing

\* A rule is stored as the page was told it is (user-rules.js); it holds only conditions its
\* fields can meet, and the screen and its preview are of the rule that would be saved
\* (rule-builder.js).
RulesAreAsTold ==
  /\ part = "RuleBook" => Rb!RulesAreAsTold

\* What is shown is what was chosen: the cluster that was picked, on every page (app.js,
\* intent.js); a page of the list with rows in it, if any match (indices.js); the documents of
\* the device a close-up is of, and one timer for a tail that is on (logs.js); and every
\* favourite that was stored (console.js).
ShownIsWhatWasChosen ==
  /\ part = "Navigation" => Na!ShowsWhatWasChosen
  /\ part = "IndexTable" => It!SomethingIsShown
  /\ part = "LogTail" => Lo!TimersAndCardsMatch
  /\ part = "RestConsole" => Re!FavouritesAreStored

\* An answer over many says what it does not cover: a fan-out names what it never asked
\* (fleet.js), the search for an index names the repositories it could not read (indices.js,
\* snapshot-verify.js), and the numbers above the table of delays add up, whatever runs over
\* what (logs.js).
NothingIsLeftOut ==
  /\ part = "FanOut" => Fa!AccountsForEverything
  /\ part = "IndexTable" => It!SearchMissesNothing
  /\ part = "DelayView" => De!NumbersAddUp

\* The figures one plans by are on the safe side: what a day weighs and what a retention takes
\* (volume.js, field-volume.js).
FiguresAreSafe ==
  /\ part = "Volume" => Vo!FiguresAreSafe

\* The page gives up a session the core still knows only to sign out, however late the answers
\* to messages under an earlier one come (transport.js, app.js).
LosesNoSession ==
  [][part = "Session" => Se!DropsNoLiveSession]_vars

\* Between two lines about one alert there was something that took it off the list (notify.js).
AnnouncesOnce ==
  [][part = "Alerting" => Al!AnnouncesOnce]_vars
=============================================================================
