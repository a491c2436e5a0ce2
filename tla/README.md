# ElasticVue Pro: a verification project

TLA+ models of ElasticVue Pro: of the Rust core (`crates/espro-core/src`), where
several things happen at once and the order decides who may do what and what
reaches a cluster; and of the page (`ui/js`), where what is shown, offered and
announced is put together from answers that come late, fail, or belong to a
config that has since been replaced. The modules are translated from the
sources, not from their documentation; the documentation is quoted where a run
or a reading disagrees with it.

## The system

ElasticVue Pro shows and administers Elasticsearch clusters. A web UI (`ui/js`)
sends JSON messages to a core written in Rust, over Tauri in the desktop app or
`POST /bridge` in the hosted edition; the core alone holds credentials, talks
to the clusters, and decides. Every message is handled as a task of its own on
a multithreaded runtime, so two handlers interleave wherever neither holds a
lock. The page is one thread, and interleaves at every `await`.

| Component | State | Operations | Hard part |
| --- | --- | --- | --- |
| Accounts and sessions (`auth.rs`, `bridge.rs`) | accounts in memory, `users.json`, live sessions, each caller's copy of its account | LOGIN, LOGOUT, USER_*, gate | copies of an account outlive changes to it; saves fail; restarts |
| Store files (`auth.rs`, `tls.rs`) | one file and one temporary file per store | save, open | crashes between steps; two saves at once |
| Certificate trust (`tls.rs`, `http.rs`) | pins, cached HTTP clients and their connections | TRUST_CERT, UNTRUST_CERT, client_for, request | connections outlive the trust they were made under |
| Request gate (`bridge.rs`, `guard.rs`) | primed clusters, read-only setting, unlock, routes | PRIME, FORGET, TUNNEL_SECRET, WRITE_UNLOCK, ES | settings copied before a wait; two locks changed one after the other |
| Scheduled measurement (`delay_sink.rs`, `bridge.rs`) | settings, `delay-sink.json`, due time, failures | tick, DELAY_SINK_SET, DELAY_SINK_RUN | a run and a change of settings overlap; back-off; torn file |
| SSH tunnels (`ssh.rs`, `socks.rs`) | session, back-off, `dropped` flag | open, session, close, reset_backoff | a late callback of an old session; a trust decision during a connection attempt |
| Config history (`vault_files.rs`) | numbered copies | CONFIG_WRITE, CONFIG_HISTORY, CONFIG_RESTORE | same-second copies, trimming |
| UI state and refresh (`state.js`, `es.js`) | cached cluster data, clients with link state and back-off, the refreshing flag | fetch, refreshAll, setConfig | answers that arrive after the config they belong to is gone |
| UI transport, sign-in, write switch (`transport.js`, `login.js`, `writes.js`, `tasks.js`) | session token, screen, the page's copy of the unlock, a task under way | bridge, gateOnAuth, syncWrites, runTask | late refusals; a copy of what the core owns |
| UI config and credentials (`config.js`, `config-editor.js`, `credential-dialog.js`) | the raw config, ids, secrets and their master password, session credentials | normalize, the editor's dialogs, connect, unlock | dialogs that captured an older config |
| UI alerts (`acks.js`, `notify.js`, `alert-rules.js`) | acknowledgements, what was announced, last readings | refresh, announce, acknowledge, prune | what a failed call leaves behind |
| UI automation (`automation.js`, `user-rules.js`, `rule-builder.js`, `index-actions.js`) | rules, proposals, dialogs | run, edit, save, close, delete | a proposal is old when it is acted on |
| UI calculations (`volume.js`, `field-volume.js`, `log-delay.js`, `disk-balance.js`, `ulm.js`, `fleet.js`) | cached inputs | pure functions | boundaries; what is unknown |
| UI pages (`app.js`, `pages/*`, `ui/*`) | selection, filters, ticks, histories, timers | one per control | lists gone stale under a dialog |
| Zabbix module (`integration/zabbix`) | automation state, Zabbix hosts | reconcile | partial failures of a long sequence of API calls |

They meet in a few places. PRIME, FORGET, TUNNEL_SECRET and the trust messages
drop the cache of HTTP clients; a request reads the primed clusters, then the
tunnels, then the unlock, then that cache, each under a lock of its own; the
scheduled job sends its requests through the same path as a page; the three
stores share one way of saving. On the page, `setConfig` replaces the clients
and drops what was cached; every page reads that cache and asks through those
clients; every message passes `bridge()`, which may find the session gone; and
every write passes `ensureWrites`. What makes each part correct is stated below
with the module that checks it, and the hazards are listed at their lines in
`PROJECT.json`.

## Modules

A component `X` of the core has a module `X`, a `.cfg` per run (with model values
in `MCX` where a `.cfg` cannot write them) and proofs in `XProofs`; so has
`Refresh`. The other parts of the page are modules of their own, put together in
`Console` with proofs in `ConsoleProofs`; `MCConsole` adds the one part that has
none (`DeviceDelay`) and the values TLC runs with. Two modules are what others
implement: `AtomicCell` (`StoreFile`) and `FleetView` (`Refresh`).

### Accounts

`accounts`, `disk`, `sessions` and a `worker` per message being handled. A
worker's step is what the handler does under one lock: LOGIN is `Verify` (a
copy of the account under the read lock) and `Begin` (a session opened from
the copy); an administration message is `Resolve` or `ResolveProxy` (the
caller, as a copy), a change under the accounts' write lock (`AddUser`,
`RemoveUser`, `SetRole`, `SetPassword`, or `Refuse`), `Snapshot` and `Commit` or
`CommitFails` (save, after the lock is gone), then `ClearMustChange` and
`EndAllFor` on the sessions. `Restart` may happen at any time.

Two history fields say why a session exists that should not: `outdated` (the
account changed under it) and `excuse`. They restrict nothing. An action that opens a
session needs a free token, which bounds the live sessions and nothing else.

`bootstrap_admin` is left out: a data directory without accounts is seeded
before the first message, and the seed stays in memory even if its save fails,
so no message ever finds the list empty. The guest role is merged with `user`,
because these handlers only ask whether a role is admin.

### StoreFile

The save of `users.json`, `tokens.json` and `pins.json`, one step per thing a
crash can separate: the change in memory, the serialisation, creating or
truncating the temporary file, each of two blocks of text, the rename. An open
handle keeps its inode when the name is moved. A list is the number of changes
it has seen; `Whole` is "it parses". Any number of threads save at a time, and
nothing keeps them apart.

A save that fails (`WriteFails`) is an error to the callers of the accounts and to
TOKEN_CREATE and TOKEN_REVOKE, which undo nothing in memory; it is dropped by
`PinStore::save` (`tls.rs:93-104`), whose callers answer `ok` all the same
(`bridge.rs:333-375`), and by the last use of a token. A change is `quiet` when its
failure would be. `doubt` remembers what has happened to a save since one went
through alone: that two `crossed`, or that a quiet one was `dropped`. So the run
says of a pin what the code gives: trust that was set or withdrawn is in the file
once its save, or a later one, has gone through; until then a restart may forget
that it was answered.

`AtomicCell` is what the store wants of all this: the list in memory, what the
disk would be read as, and the newest change that is saved. A `Store` is one step
and never puts back an older list; saves that overlap are its action `Mix`, which
may leave anything until one that does not overlap puts it right. `StoreFile`
implements it (`SavesAreAtomic`): what the disk would be read as is what a load of
the file would give, and only the rename is a `Store`, however long the save took
and wherever it broke off.

### Trust

A request looks its cluster's client up (`Hit`) or builds one and inserts it
(`Build`, `Insert`) in separate critical sections, and is sent over a
connection the client already has (`Reuse`) or over a new one, for which the
verifier asks for the pin now (`Handshake`). TRUST_CERT and UNTRUST_CERT are
`SetPin` and then `ForgetClients`. What makes this subtle is that a request in
flight may insert its client after `ForgetClients`.

### Gate

A request takes its copy of the cluster and of read-only (`Snapshot`), waits
for the tunnels' read lock, and only then reads the unlock and is decided
(`Send`, `Turned`); it keeps the read lock until `Answer`. PRIME and FORGET
change the clusters first and the routes later, under the write lock
(`Sending = {}`). A run of the scheduled job (`JobStart` ... `JobEnd`) is a
worker that takes the same path. `text` and `turned` are history: the setting
as the config spelled it, and whether a read-only config was primed since the
run began. `excuse` records why routes may not match the clusters.

The tunnels' lock prefers writers, so a PRIME that waits for the slowest
request in flight makes every new request wait behind it, tunnelled or not. The
run finds no state in which every worker is stuck; how long one waits is not
counted.

### DelaySink

Time in hours. `due` is the hours left, a run carries its age, and `Hour`
cannot pass over a run that is due while the timer is free, because the timer
looks every minute. DELAY_SINK_SET truncates the file, writes it, then changes
the settings. `history` is what the properties remember.

### Tunnel

One tunnel and the SOCKS connections (`opener`) it serves. `lock` is the async
mutex of the handle when it is held over an await, which is during a connection
attempt (`Connect`, `KeyChecked`, then `Connected` or `Failed`); `Reuse`, `Refused`,
`Discard` and `Close` need it free and hold it for their one step. `state`, `backing`
(the next attempt lies in the future) and `dropped` have locks of their own and
are written without the mutex by `Flag`, `Disconnected`, `SetIdle`, `ResetWait` and
`ResetState`; each of these is therefore a step. A message is TRUST_HOSTKEY
(`ReadOffered`, `SetPin`, the reset), UNTRUST_HOSTKEY (`Untrust`, `Close`, `SetIdle`,
the reset) or TUNNEL_RECONNECT (`Reconnect` and the same tail).

The SSH library is external and modelled from its use: a session that has ended
says so at once (`Closed`), and the callback `Disconnected` comes at any later
time; a session whose handle is dropped stays up while a stream uses it, or ends
by itself. A channel that is opened belongs to its session, and its opener is
free again. `Sessions` bounds how many exist at a time; a new one needs a free
slot, which restricts nothing else.

A few writes that follow each other without an await are one step: noting the
key and reading the pin in `KeyChecked`, and the last writes of an attempt in
`Connected` and `Failed`. What another message could write in between leaves the
tunnel in a state that some order of the whole steps reaches as well.

`history` says why a session may be up that should not be (`orphans`: sessions an
opener threw away, which `close` cannot find) or thrown away (`blame`), and why a
wait may be cut short (`lifted`) or wrongly in force (`cause`, `late`). None of it
restricts a step.

### FleetView and Refresh

`FleetView` is what the pages promise about what they show: of every cluster and
dataset nothing, or an answer somebody asked that cluster for, through the
client of the config in force (`now`) or of an earlier one (`earlier`), and the
latter only if it was on the page or on its way when the config was replaced.
An entry of `state.data` is two datasets: `data`, which every overview replaces,
and `kept`, what one may carry over from the entry it found (`prev`): snapshots,
and the info, disk, capacity and repositories of calls that failed.

`Refresh` is how `state.js` and `es.js` keep it. A `job` is one fetch of one cluster,
asked by the sweep or by a page, with the client it captured (`base`) and what the
entry it read before its first await carries over (`kept`, which is why an answer of
the new client can bring an earlier one's disk or snapshots with it);
`Answered` is the whole of what follows its await. `named` are the clusters of the
config, whose entries a reload keeps, and `enabled` those that are asked.
`fetchOverview` publishes and may go on to the snapshots; `fetchSnapshots` writes
into the entry it found; `fetchIndices` replaces its rows. `StartSweep`,
`AskLoad` and `EndSweep` are `refreshAll`, `RefreshModule` and `EndModule` the refresh
of one page; `SetConfig` keeps what `setConfig` keeps, and `Primed` is the answer to
`reprime`. `client` is the link state of each client with its back-off
(`Track`, `WaitEnds`). Three variables are history: `raced`, the clusters that had a
fetch in flight when the config was replaced or were listed on top of an entry from
before; `unread`, those not read since; `missed`, that the sweep a reload asks for was
dropped for one under way.

### The other parts of the page

One module per part; each has its world in it (the cluster, the core, the browser's
database, marked external in the map), so that an answer can be late against
anything. They are read best from their head comments.

| Module | Models | States |
| --- | --- | --- |
| `Session` | `bridge()`, the gate, sign-out, and what happens when a session is refused | `DropsNoLiveSession`, `NoStaleApp` |
| `Unlock` | the page's copy of the write unlock against the core's; tasks over several clusters | `OffersWhatTheCoreAllows`, `TasksKeepToTheirList` |
| `Credentials` | credentials in the file, sealed, typed for the session, or remembered; reloads between | `CredentialsAreWhereTheyBelong` |
| `ConfigEditor` | dialogs that edit and write the config; the master password | `SavedMeansWritten`, `OneMasterOpensAll` |
| `Routes` | jump hosts, `via`, and the ids of clusters, as edited and read back | `WrittenCanBeRead`, `IdsStayWithTheirClusters` |
| `Settings` | upload, history and restore of the config; the schedule form | `NothingReplacedIsLost`, `ArmedMeansPicked` |
| `Navigation` | tabs and the shared cluster picker of three kinds of page | `ShowsWhatWasChosen` |
| `Acks` | acknowledgements and notes: a copy, a database whose writes may fail, and drawings that overlap and prune between awaits | `WhatWasWrittenIsKept` |
| `Alerting` | from answers to alerts to announcements, with rules switched off | `AnnouncesOnce` |
| `SnapshotWatch` | listings of a repository, the outcomes announced, the failing streak | `OutcomesAreTold` |
| `Capacity` | the capacity alert over restarts of nodes whose disks differ; disk no index accounts for | `RestartsDoNotAlarm`, `GapsAreReal` |
| `Housekeeping` | retention and user rules as proposals; the dialogs that close and delete | `NothingLostUnasked` |
| `RuleBook` | building, previewing, storing and removing a rule | `StoredAsTold`, `OperatorsBelong`, `ScreenTellsTheRule`, `PanesAreOfTheRule` |
| `FanOut` | `runBounded` and its stop button | `AccountsForEverything` |
| `DelayView` | coverage and analysis as fan-outs, over the same entries (uses `FanOut`'s operators) | `NumbersAddUp` |
| `DeviceDelay` | fields and their cache, the fleet table of the last hours and of so many devices, and the close-up of a device or an address | `TableIsHonest`, `CloseUpAgrees` |
| `LogTail` | the live tail and the close-up card, each with a timer | `TimersAndCardsMatch` |
| `Archive` | paged listings of two buckets against the days of a cluster | `MissingMeansMissing` |
| `Volume` | daily volume, retention and headroom, repository size, spikes | `FiguresAreSafe` |
| `Balance` | watermarks, placement and the first thing to do about a full disk | `AdviceFits` |
| `Shards` | the shard page's picks, kept by a name that replicas and clusters share, and the moves made of them | `MovesWhatWasTicked` |
| `IndexTable` | filter, pages, ticks, bulk dialogs, and the search over snapshots | `SomethingIsShown`, `SettingsLeftAlone`, `SearchMissesNothing` |
| `RestConsole` | the request bar, confirmation, history and favourites | `NoWriteSlipsBy`, `FavouritesAreStored` |
| `SnapshotPage` | listing, creating, deleting, restoring, freeing live indices | `FreedCanBeFound` |

How they meet. Each of them talks to `state.js` and to the core through
`bridge()`; what the others need of that is that an answer may be late, fail, or
be of a config that was replaced, which every module that awaits has as steps of
its own. They share no variable that one writes and another relies on, so a
product of them would only multiply their states. `Console` therefore runs
them as alternatives: `part` names the one a behaviour is of, and the variables
`v1` ... are its; `MCConsole` has one more alternative. Where one page does two or
three things that share no state, its `about` (`Volume`, `Settings`, `RuleBook`,
`IndexTable`, `Capacity`, `Routes`, `Unlock`) says likewise which of them a behaviour
is of. Each property of the run collects
those of several modules that answer one question; where the code has exceptions
they are spelled out at the property, in its module.

## Runs

| Run | Bounds | Shows |
| --- | --- | --- |
| `accounts` | 2 names, 1 live session token, 2 messages at once | the accounts keep an administrator in memory and in every file; the shipped password can do nothing but be replaced; revocation reaches every session but those with a named excuse |
| `accounts_race` | same | VIOLATED: a sign-in that overlaps USER_REMOVE leaves a session without an account |
| `store_file` | 2 writers, 3 inodes, 3 changes | until two saves cross, and again from the next that nobody crosses, the file parses, holds what was saved and what was answered, and is an atomic cell |
| `store_file_race` | 2 writers, 4 inodes, 3 changes | VIOLATED: two saves share the temporary file and the target does not parse |
| `trust` | 1 cluster, 2 hosts, 2 certificates, 3 clients, 2 requests, 1 trust message | no request goes over trust withdrawn before it began, or over a client of another host |
| `gate` | 3 workers, 1 jump host, 2 routes | writes are permitted; routes stay under requests; clusters have their routes; the job uses the unlock only after a re-prime |
| `gate_background` | same | VIOLATED: a run of the job writes under the operator's unlock |
| `delay_sink` | day of 4 hours, 2 doublings, intervals 1 and 3, runs up to 1 hour, 2 settings messages | an armed job is attempted daily and for ever, not early, and its settings survive restarts |
| `delay_sink_retune` | same, 1 settings message | VIOLATED: a run in progress at DELAY_SINK_SET makes the next one early |
| `tunnel` | 2 keys, 2 connections, 3 sessions, 1 message | withdrawn trust ends every session but two named kinds; a trust decision lifts the back-off it was made for; no attempt during a back-off; a late callback costs one session |
| `refresh` | 1 cluster, a sweep and 1 page that asks, 1 reload, answers that succeed or find the cluster gone | the cache shows only answers and is clean after a reload; every sweep ends and owns its fetches; a reload is read, and the timer reaches a cluster that was down |
| `console` | the parts of the page, each with the constants in `MCConsole` | twelve questions, listed there: identity, saving, writing, alerts, deletion, rules, delays, choices, gaps, figures, sessions, announcements |

Why the bounds are enough. Every race in `Accounts` is between two messages
(one of them may be a sign-in) about one subject and one actor, and a second
name gives both; a second token only adds sessions of the same kinds, which the
proofs cover. In `StoreFile` two writers cross, and
three inodes are the target, the temporary file and one that a writer still holds or a
crash leaves behind; three changes are the two of saves that cross and one whose save
then puts things right. In `Trust` the second host and certificate make
"another" possible and a third client lets one be cached while both requests
hold one. In `Gate` three workers are a request, the job or an administrating
message, and one more that overlaps either. In `DelaySink` four hours and two
doublings of three and of one reach the ceiling from both sides, which is what
24 and 4 do. In `Tunnel` two connections are the one that makes a session and the
one that throws it away, and three sessions the one in the handle, the one being
made and one whose callback is late. In `Refresh` a page's fetch and the sweep's
are the two that can meet in one entry, and one reload makes "earlier" possible;
clusters meet only in the sweep, which waits for all of them, and the proofs are
for any number. Each excuse in the properties of `Tunnel` and `Refresh` was dropped
in turn, and TLC then found a counterexample within these bounds.

In `console` two clusters, names, hosts, master passwords or devices make "the
other one" possible, and three sessions let an answer be late by two sign-ins.
Thresholds are scaled so that both sides of each are met: a window of two
snapshots where the code has five, one document or favourite over a limit where
it has 500, a table of one device or of two where it has 500, sizes on both sides of a
gigabyte and five per cent. `MaxMoves`,
`MaxEdits`, `MaxSaves`, `MaxRuns`, `MaxFound`, `MaxFilters`, `MaxTaken`, `MaxGrown`,
`MaxAsked`, `MaxAged`, `MaxRaced`, `MaxDay` and `LastDay` bound how often the world, the operator or the
calendar moves, each declared as a bound in its module; two moves around a wait
are what a stale value needs.

Mutants. Each property of a passing run names a plausible bug (a dropped guard,
a swapped order, a missing reset), written next to the definition it changes;
replacing the definition by it makes TLC find the property violated. Where a
property of `console` has several conjuncts, each was also broken by a mutant of
its own module; they are the operators that a comment calls `Mutant of`.

Deadlock is checked except in `StoreFile`, whose bound on changes ends a
behaviour.

### Fairness

`DelaySink`. `WF_vars(Hour)`: time passes. `WF_vars(TimerRun)`: the loop of
`start_delay_sink` is scheduled by the runtime. `WF_vars(Finish)`: a run ends,
because it sends a bounded number of requests, each with a timeout of 60 seconds.
Nothing is assumed of administrators, of DELAY_SINK_SET messages or of restarts,
which may interrupt every run.

`Refresh`. `Answered` of each fetch and `Primed`: the bridge answers every message,
because the core gives every request a timeout. `WaitEnds`, `TimerFires` and
`IntervalPasses`: a back-off ends and the browser runs its timers. `AskLoad`,
`EndSweep` and `EndModule`: what follows the last answer in an `async` function runs.
Nobody has to press Refresh, and reloads are not fair.

`Tunnel` has no liveness property: that a connection is answered would rest on the
jump host, because opening a channel has no timeout. The parts of the page have
none: a page owes nothing unless somebody presses something.

## What the violated runs mean

They are kept because a comment in the code promises what the code does not
do; each is a finding in `PROJECT.json` with the quoted line.

* `SessionsGoWithTheAccount`: `login` verifies and then opens the session, with
  no lock over both. The same window exists for role changes and resets, which
  is the excuse `race` of `RevocationReachesSessions`.
* `TargetParses` with two writers: `save` runs outside the list's lock and all
  saves of a store share one temporary file. `open` takes a file that does not
  parse for an empty list, so the damage is silent. The run `store_file` and the
  proofs show that it takes two saves that cross, and that the next save which
  nobody crosses repairs it: serialising the saves would be enough.
* `NoBackgroundWriteByUnlock`: the job is refused at its start only. Its weaker,
  proved form is `JobUsesUnlockOnlyAfterATurn`: the config must have been made
  read-only during the run.
* `ArmingNeverRunsEarly`: the due time is written by the run that ends last.
  `FirstRunIsOneIntervalOut` is what does hold.

## Where the page differs from what it says

Met while modelling the page. The modules follow the code, and the exceptions in
their properties are these.

* Creating a user or an API key over clusters (`ui/cluster-users.js:139`): the
  button returns its result to a helper that drops it, so neither the toast, the
  report nor `onDone` follows, and a created key is shown nowhere, though "an API key
  is shown here because it is shown nowhere else" (line 152). The dialog stays open,
  and a second press creates again. `editDialog` reads a field by an element where a
  selector is wanted and throws before it asks; `ctx.close` (140, 177, 263) does not
  exist; removing a user reads `ok` of the answer's body and calls success failure.
* Ids (`core/config.js:149-153`): the editor refuses names that are equal, not
  names with one slug; the position is then appended, and removing an earlier
  cluster gives its id, with the data, credential and acknowledgements under it, to
  the other.
* Settings of indices (`ui/index-actions.js:290`): the dialog says an empty field is
  left alone, and always sends the write block. Bulk actions include ticked rows a
  filter hides (`pages/indices.js:277`).
* Rules (`ui/rule-builder.js:330`): "every control has to be repainted", but a
  redraw leaves out the scope and its count; a failed save after the write rolls
  the memory back and not the file.
* Delays (`core/log-delay.js:509-511`): "the same definition the fleet table uses, so a
  device cannot read DELAYED in one place and OK in the other". It is not the same
  where they read different documents. The table takes the newest document alone and
  says ERROR when that cannot be measured, while the close-up goes on with the newest
  that can. The table is of the hours chosen, the close-up of any hour (and calls its
  count "in the window", `pages/logs.js:715`). A device whose name looks like an
  address is looked up in the address fields of the documents (439-451), so that its
  close-up can show those of other devices, or none. And text without a keyword is in
  the close-up only. `CloseUpAgrees` holds where both read the same documents.
* Snapshots: days that only a failed or partial snapshot covers count as
  recoverable (`ui/snapshot-dialogs.js`, `pages/snapshots.js:178-183`), and indices
  of such a snapshot may be freed; Escape closes every open dialog at once
  (`ui/modal.js:14`).
* Disk: `_cat/indices` leaves hidden indices out, which is a gap for ever to
  `diskAccounting` (`core/state.js:827`); "persistent beats transient"
  (`core/disk-balance.js`) is the reverse of what Elasticsearch does.
* Alerts: "acknowledged alerts are never announced" (`core/notify.js:17`), but the
  acknowledgements are loaded on the Alerts page only; a failed listing forgets a
  running snapshot, whose outcome is then never told; a failed pull of the archive
  reports every past day missing (`core/ulm.js`).
* Console: a history entry is made from the editor after the answer came
  (`pages/console.js:381`), and the history is cut to 500 whatever is starred.
* Timers of the logs page go on after it is left, because nothing calls `onLeave`
  (`pages/logs.js:102`).
* Refresh: a fetch in flight at a reload puts back what it holds (the exception
  `raced` of `ReloadIsClean`), and one that begins after it carries over what `prev`
  has (`core/state.js:224,228,303-307`): of a cluster that keeps its id, the info, disk,
  capacity, repositories and snapshots can be those of the earlier client until the
  calls for them succeed. `ReloadIsClean` therefore speaks of what is not carried over.
  A sweep asked for during a sweep is dropped.
* Pins: TRUST_CERT and UNTRUST_CERT answer `ok` whether or not the file was written
  (`tls.rs:93-104`); the trust then lasts until the next start.
* Capacity: "A rolling restart should not page anybody" (`core/state.js:255`), but the
  comparison is of the number of nodes: when one node is back and another, with a disk of
  another size, has left between two refreshes, the totals differ and there is an alert
  (the exception `swapped` of `RestartsDoNotAlarm`).
* The page says of an upload that the version it replaced is in the history
  (`pages/settings.js:55`), and never reads `keptVersion`: the core goes on when nothing was
  kept (`vault_files.rs:194-213`, `bridge.rs:434-449`). `NothingReplacedIsLost` is of what
  was answered as kept.
* Shards: a tick is kept by index, number and primary or replica (`pages/shards.js:600`).
  Ticking one replica shows the other ticked too, and only one of them is moved; a row of
  another cluster takes the place of the one ticked. `MovesWhatWasTicked` says which is moved,
  and demands all rows only of names ticked once.
* Search (`core/snapshot-verify.js:19-20`): a repository that cannot be read is named, but
  the list of repositories is the one of the last overview (100), so before any, or when
  the listing of them failed, nothing is asked and the panel says that no snapshot holds the
  index. It also reads only the newest 1000 snapshots of each.
* Acknowledgements: two drawings of the Alerts page overlap (`pages/alerts.js:40-49`), each
  loading and pruning over the other; and a write that fails leaves memory and database
  apart (`core/acks.js:123-138`). `WhatWasWrittenIsKept` excepts the keys written meanwhile
  (`raced`).
* Config: two CONFIG_WRITEs share one temporary file, two versions of one second
  share one name (`crowded` in `Settings`); an upload is in service before it is saved.
* The shard page calls `client.retryFailed`, which does not exist, and reads `r.ok`
  of a parsed answer (737, 799).

## Proofs

Checked by TLAPS for every value of the constants that satisfies the modules'
assumptions (the shipped name is a name; the null values are outside the sets
they are added to).

* **Accounts.** `TypeCorrect` is inductive. `AlwaysAnAdmin` needs that every
  serialisation in flight (`worker[w].snap`) has an administrator too, because
  any of them may become the file: the invariant says so of the list, of the
  copies and of the file, and `LastAdmin` keeps it under a change.
  `ShippedPasswordConfines`, and with it `UnconfinedHaveChanged`, needs what callers
  and sign-ins in progress carry: a copy of an account still on the shipped
  password is confined, and a message past its change has left it.
  `RevocationHolds` is inductive with typing: a change outdates exactly the
  sessions its own worker will end.
* **StoreFile**, for any number of threads. The invariant follows every save that
  nobody has crossed through its steps: which inode it holds, that it is not the
  target, which blocks it has written, and that what it is about to rename is whole
  and no older than the file; while no two saves have crossed, at most one is in the
  middle, and when one that was alone renames, what crossing ones did is undone. It also
  gives `SavesImplementACell`, the refinement of `AtomicCell`: a rename by such a save is
  a `Store`, one by another a `Mix`, and no other step but a start moves the cell.
* **Trust.** What is pinned is not withdrawn (`PinInv`); a cached client has
  accepted nothing that is withdrawn (`CacheInv`); a client that is built and
  not yet inserted has no connection and one holder (`FreshInv`); the client a
  request holds is of its host and has accepted nothing the request must not
  use (`HeldInv`). `FreshInv` is why a client inserted after `ForgetClients` is
  harmless: its first handshake is still to come and asks for the pin then.
* **Gate.** A copy of read-only agrees with what its config said
  (`CopiesAreTrue`), a request being sent carries a verdict that agrees with
  its copy (`Verdict`), a run of the job with no re-prime behind it still has
  `readOnly: false` in force (`JobInv`), and the routes a request uses are the
  current ones. `RoutesServe` needs that without an excuse one message at a time
  administers, that a PRIME with its routes to make is of the config in force, and
  that a FORGET has left no cluster that needs one (`ServesInv`).
* **Tunnel.** `TunnelInv` says, besides typing: the pin in force is not withdrawn,
  and no message will count it as withdrawn (`PinInv`); while an attempt holds
  the mutex the handle is empty and the state is not `down` (`LockInv`); a session
  that is up is in the handle, held by an attempt, or orphaned (`KnownInv`); and
  what is in the handle, or will be put there by an attempt that has passed the
  key check, is of no key that is withdrawn or that a message which has already
  closed the tunnel is about to withdraw (`SlotInv`, `CheckedInv`). The last is where
  it matters that `close` waits for the mutex. `BackoffInv` and `RefusalInv` follow
  the wait and the refusal that began it; `FlagInv` says the flag is raised only
  with somebody to blame.
* **Refresh.** `RefreshInv` says, besides typing, which fetches the flag and the sweep
  stand for, that exactly the clusters of the config have a client (`ClientsOfConfig`),
  and that a fetch of a cluster not marked as raced asks through a client in force and
  writes an answer of now as its `data`, whatever it carries over (`CleanJobs`). It gives
  `SweepsOwnTheirFetches` and `ReloadsAreClean`; and `RefreshImplementsFleetView`: under
  the refinement mapping (`shown` by dataset, and the kinds of answers on their way)
  the initial states are initial, and each action is an `Ask`, an `Answer`, a `Replace`
  or a stutter of `FleetView`.
* **DelaySink.** `SinkInv` says, besides typing, that nobody has run for less time than
  the timer last had reason to begin (`QuietSinceBegun`); that while the timer is free
  what is past and what is ahead are a day and a run's time at most (`QuietEnds`); that
  the runs there are began since the settings were put in force, with them, and what is
  past since then and what is ahead make an interval (`SinceSet`); and that with one
  message at a time the file has what will be in force (`FileIsSet`). The provers know
  nothing of powers of two, so `PowerAssumption` says that those up to the last doubling
  are positive (TLC evaluates it); `FileAssumption` says that what stands for no file or
  for half of one is no settings.
* **Console.** `ConsoleInv` has one inductive invariant per part, and a step is of one
  part, so that each is proved alone and `ConsoleInvStep` puts them together. What the
  parts assume of their constants is in `Console`, and TLC evaluates it too. The eleven
  theorems are the properties of the run but `DelaysAreHonest`.

  | Part | What its invariant adds to the property |
  | --- | --- |
  | `Session` | only the app awaits answers, all under the session it has; whoever meets the login with a session has one the core no longer knows |
  | `Navigation` | the fleet is wanted back exactly as long as nobody picked a cluster |
  | `Unlock` | an answer that is current says what the core has; what a task wrote to is of the part of its list that has a result |
  | `Credentials` | what comes from the file needs nothing more, and what an unlocking set out with is sealed |
  | `ConfigEditor` | what was saved is in the file and in what is in service, so that neither a write nor a reload undoes it; neither has two masters |
  | `Routes` | of two entries of different clusters, one before an edit and one after it, one at least is in both lists |
  | `Acks` | a drawing does not prune while it loads, and what it has still to prune is each key once; of a key that was not raced the copies agree; a drawing that none crossed is the only one |
  | `Alerting` | what is not among the alerts of the last pass has been off the list |
  | `Capacity` | unless a node was rebuilt, the total is of the disks of the nodes that were seen, and as many as it says; without an exchange of unlike nodes it never changed |
  | `FanOut` | the items begun are those settled and those on their way, within the limit, and a run nobody stopped has one on its way until the last |
  | `DelayView` | an entry that waits is one a run has not heard from; the merged table is of the entries unless the choice just changed |
  | `LogTail` | a poll is of a card that was opened and, if that is the one on the screen, of its device |
  | `Archive` | what was stored all through a pull is in the bucket, and a copy listed empty without an error was empty |
  | `SnapshotWatch` | the listing is in order, what was seen running is of the last listing, and what is watched and no longer running was told |
  | `Housekeeping` | a delete dialog names only what was proved to be in a good snapshot or was asked about, step by step |
  | `Balance` | nothing but types: the advice is about the figures of one moment |
  | `Shards` | what is picked is one of the rows ticked under its name, a dialog moves ticked rows and all that were ticked alone, and a target is chosen only if some row is not on it |
  | `RestConsole` | an unconfirmed write under way is one the core refuses, unless the config changed under it, and ids are unique across the history, the database and a reading |
  | `SnapshotPage` | ids are not given twice, and what may be freed is in what the repository keeps and the page lists under that id |
  | `Volume` | what is still to be measured and what was measured come to no more than what was listed |
  | `Settings` | versions of one second are one; a save that no other crossed has the temporary file and, if one was kept, its version to itself |
  | `RuleBook` | while nothing is in doubt, one save at most, of one change, and no builder beside it; one preview at most while none overtakes another |
  | `IndexTable` | rows and ticks are of the indices there are; a search under way has found what those repositories it asks that it has read hold |

  `FiguresStaySafe` is about totals, which are recursive functions over the days. That a
  total of larger sizes is larger (`TotalsCompare`) holds because there is no least day at
  which it fails; the rest is arithmetic around the weight of the lightest of the
  heaviest days, which none of the others exceeds (`Exchange`): as many days as were
  averaged come to no more than the heaviest, and more of them to no more than the mean times their
  number (`Means`). Room that is said to be enough need not hold the heaviest day if the
  policy keeps fewer days than were averaged, since the code multiplies the mean; the
  property leaves that case out. Means are exact fractions in the model, so it says
  nothing of rounding.

  The recurring arguments are shared lemmas: finite sets of naturals have a greatest
  element, and what holds at every position of a list holds because there is no least
  position at which it fails (the provers have no induction over data).

The type invariants of these modules are proved, and their runs do not check them
again. Only model-checked: `DelaysAreHonest`, whose module selects, flattens, sorts and
folds sequences, which needs induction over data or operators that take an operator; the
liveness of `DelaySink` and `Refresh`; and the findings.
The parts in `Console` extend few modules and take no operators from the community
modules, because what a module extends is in the context of every obligation of
`ConsoleProofs`.

## Not modelled, and why

API tokens (their file is in `StoreFile`), the role table and path rules, and the
Zabbix module are planned (below). Cryptography (`crypto.rs`, `sigv4.rs`), the OS
vault, the S3 listing of the core, the HTTP front, rendering, charts, exports, the
widgets, the stand-alone Python script, packaging and deployment keep no state that
interleaves, or are I/O and formatting. Of the page, what is left out of each
component is in its note in `PROJECT.json`.

## Plan

1. Done: `Accounts`, `StoreFile`, `Trust`, `Gate`, `DelaySink`, `Tunnel`; `FleetView`
   and `Refresh`, which implements it; the other parts of the page, `Console` and
   `MCConsole`.
2. Done: the safety of every module but `DeviceDelay`, proved; `StoreFile` shown to
   implement an atomic cell.
3. `Accounts`' save to use that cell; tokens beside `Accounts`; `DeviceDelay` over sets
   of positions, to be proved about as `Volume` is.
4. `required_role`, `path_allowed` and the civil dates of the core against reference
   definitions; the reconciler of the Zabbix module.
