-------------------------------- MODULE Gate --------------------------------
(***************************************************************************)
(* What may reach a cluster, and over which route: PRIME, FORGET,          *)
(* TUNNEL_SECRET, WRITE_UNLOCK, the request path es_req() and the          *)
(* scheduled measurement run_delay_sink(), of bridge.rs, with the guard of *)
(* guard.rs between them.                                                  *)
(*                                                                         *)
(* Every message is handled by a worker of its own.  A request copies its  *)
(* cluster's spec and the config's read-only setting, then waits for the   *)
(* tunnels' read lock, which it holds until it is answered; only then does *)
(* it look at the operator's unlock and ask the guard.  PRIME and FORGET   *)
(* change the cluster specs first and the routes later, under the tunnels' *)
(* write lock.                                                             *)
(*                                                                         *)
(* Data left out: one cluster, reached directly or via one jump host; the  *)
(* specs of jump hosts (a re-prime may find each changed or not); requests *)
(* with a credential of their own.  The cache of HTTP clients, which these *)
(* messages also drop, is in Trust; when the job runs is in DelaySink.     *)
(***************************************************************************)
EXTENDS Naturals

CONSTANTS
  Workers,  \* messages and job runs in progress at the same time
  Jumps,    \* jump hosts
  Routes,   \* routes (an SSH tunnel and its SOCKS listener)
  None      \* no jump host, no route

ASSUME GateAssumption == None \notin Jumps \cup Routes

VARIABLES
  primed,   \* Core.primed: the cluster, if any, and the config's setting
  unlocked, \* Core.writes_unlocked: the operator's session switch
  routes,   \* Core.tunnels: jump host -> route
  worker,
  excuse    \* history: why the routes may not be those of the clusters

vars == <<primed, unlocked, routes, worker, excuse>>

\* clusters.yaml: how it spells readOnly, the jump hosts it defines and the
\* one its cluster goes via.
Config == {c \in [text : {"true", "false", "unset"}, jumps : SUBSET Jumps,
                  via : Jumps \cup {None}] : c.via \in c.jumps \cup {None}}

\* text is history: the setting in force as the config spells it.
Primed == [present : BOOLEAN, readOnly : BOOLEAN, via : Jumps \cup {None},
           text : {"true", "false", "unset"}]

Verdicts == {"none", "Blocked", "Operator", "Config"}

(* What a worker is doing.  origin: a page or the scheduled job.  method,  *)
(* asks, readOnly, via: the request and its copy of the settings.  text,   *)
(* turned: history, the setting in force when the request was made, and    *)
(* whether a read-only config was primed since the job began.              *)
Steps == {"idle", "routes", "unlock", "close", "wait", "sending", "job", "bulk"}
Worker == [pc : Steps, jumps : SUBSET Jumps, origin : {"page", "job"},
           method : {"read", "write"}, asks : BOOLEAN, readOnly : BOOLEAN,
           via : Jumps \cup {None}, route : Routes \cup {None}, writes : Verdicts,
           text : {"true", "false", "unset"}, turned : BOOLEAN]
Idle == [pc |-> "idle", jumps |-> {}, origin |-> "page", method |-> "read",
         asks |-> FALSE, readOnly |-> TRUE, via |-> None, route |-> None,
         writes |-> "none", text |-> "unset", turned |-> FALSE]

Administering == {w \in Workers : worker[w].pc \in {"routes", "unlock", "close"}}
Sending       == {w \in Workers : worker[w].pc = "sending"}

\* The types of the state; a worker has a verdict on writes exactly while it sends.
TypeOK ==
  /\ primed \in Primed
  /\ unlocked \in BOOLEAN
  /\ routes \in [Jumps -> Routes \cup {None}]
  /\ worker \in [Workers -> Worker]
  /\ \A w \in Workers : worker[w].pc = "sending" <=> worker[w].writes # "none"
  /\ excuse \in {"none", "overlap", "failed"}

Init ==
  /\ primed = [present |-> FALSE, readOnly |-> TRUE, via |-> None, text |-> "unset"]
  /\ unlocked = FALSE
  /\ routes = [j \in Jumps |-> None]
  /\ worker = [w \in Workers |-> Idle]
  /\ excuse = "none"

Finish(w) == worker' = [worker EXCEPT ![w] = Idle]
Free(w)   == worker[w].pc = "idle"

(***************************************************************************)
(* PRIME, under two locks: the clusters, then the routes.                  *)
(***************************************************************************)
\* Mutant of ReadOnly: a config that says nothing is taken to permit writes.
ReadOnlyIfSaid(text) == text = "true"

\* read_only != Some(false)
ReadOnly(text) == text # "false"

\* Mutant of PrimeClusters: with no jump host defined before, no route is made.
PrimeClustersOnly(w, c) ==
  /\ Free(w)
  /\ primed' = [present |-> TRUE, readOnly |-> ReadOnly(c.text), via |-> c.via,
                text |-> c.text]
  /\ worker' = [worker EXCEPT ![w] = IF \A j \in Jumps : routes[j] = None THEN Idle
                  ELSE [Idle EXCEPT !.pc = "routes", !.jumps = c.jumps]]
  /\ excuse' = IF Administering = {} THEN "none" ELSE "overlap"
  /\ UNCHANGED <<unlocked, routes>>

PrimeClusters(w, c) ==
  /\ Free(w)
  /\ primed' = [present |-> TRUE, readOnly |-> ReadOnly(c.text), via |-> c.via,
                text |-> c.text]
  /\ worker' = [v \in Workers |->
       IF v = w THEN [Idle EXCEPT !.pc = "routes", !.jumps = c.jumps]
       ELSE [worker[v] EXCEPT !.turned = @ \/ (worker[v].origin = "job" /\ c.text # "false")]]
  /\ excuse' = IF Administering = {} THEN "none" ELSE "overlap"
  /\ UNCHANGED <<unlocked, routes>>

\* A route is kept if its spec did not change; make_route may fail.
Rebuilt(js, new) ==
  /\ \A j \in Jumps \ js : new[j] = None
  /\ \A j \in js : new[j] \in {None, routes[j]} \/ \A i \in Jumps : routes[i] # new[j]
  /\ \A i, j \in Jumps : new[i] = new[j] => i = j \/ new[i] = None

Rebuild(w) ==
  /\ worker[w].pc = "routes"
  /\ \E new \in [Jumps -> Routes \cup {None}] :
       /\ Rebuilt(worker[w].jumps, new)
       /\ routes' = new
       /\ excuse' = IF \E j \in worker[w].jumps : new[j] = None THEN "failed" ELSE excuse
  /\ Finish(w)
  /\ UNCHANGED <<primed, unlocked>>

\* Mutant of PrimeRoutes: the routes are rebuilt without their write lock.
PrimeRoutesUnlocked(w) == Rebuild(w)

PrimeRoutes(w) == Sending = {} /\ Rebuild(w)

(***************************************************************************)
(* FORGET: the clusters, the unlock, the routes.  The read-only setting    *)
(* stays what the last PRIME made it.                                      *)
(***************************************************************************)
ForgetClusters(w) ==
  /\ Free(w)
  /\ primed' = [primed EXCEPT !.present = FALSE, !.via = None]
  /\ worker' = [worker EXCEPT ![w] = [Idle EXCEPT !.pc = "unlock"]]
  /\ excuse' = IF Administering = {} THEN excuse ELSE "overlap"
  /\ UNCHANGED <<unlocked, routes>>

ForgetUnlock(w) ==
  /\ worker[w].pc = "unlock"
  /\ unlocked' = FALSE
  /\ worker' = [worker EXCEPT ![w].pc = "close"]
  /\ UNCHANGED <<primed, routes, excuse>>

CloseTunnels(w) ==
  /\ worker[w].pc = "close"
  /\ Sending = {}
  /\ routes' = [j \in Jumps |-> None]
  /\ Finish(w)
  /\ UNCHANGED <<primed, unlocked, excuse>>

\* TUNNEL_SECRET: the old route goes, the new one may not come.
TunnelSecret(j) ==
  /\ Sending = {}
  /\ routes[j] # None
  /\ \E n \in Routes \cup {None} :
       /\ \A i \in Jumps : routes[i] = n => n = None
       /\ routes' = [routes EXCEPT ![j] = n]
       /\ excuse' = IF n = None THEN "failed" ELSE excuse
  /\ UNCHANGED <<primed, unlocked, worker>>

WriteUnlock ==
  /\ unlocked' \in BOOLEAN
  /\ UNCHANGED <<primed, routes, worker, excuse>>

(***************************************************************************)
(* A request.  With no cluster primed it is answered no_creds, and nothing *)
(* changes.                                                                *)
(***************************************************************************)
Decide(readOnly, on, asks) ==
  IF ~readOnly THEN "Config" ELSE IF on /\ asks THEN "Operator" ELSE "Blocked"

Snapshot(w, method, asks) ==
  /\ primed.present
  /\ worker' = [worker EXCEPT ![w] =
       [worker[w] EXCEPT !.pc = "wait", !.method = method, !.asks = asks,
                         !.readOnly = primed.readOnly, !.via = primed.via,
                         !.text = primed.text]]
  /\ UNCHANGED <<primed, unlocked, routes, excuse>>

PageRequest(w, method, asks) == Free(w) /\ Snapshot(w, method, asks)

\* Mutant of Resume: the job keeps what it was told for its last request.
ResumeKeeping(w, measured) ==
  worker' = [worker EXCEPT ![w] =
    IF worker[w].origin = "page" THEN Idle
    ELSE [worker[w] EXCEPT !.pc = IF measured /\ worker[w].method = "read" THEN "bulk" ELSE "job"]]

\* What follows an answer: a page is done; the job writes what it measured,
\* or goes on to the next cluster.
Resume(w, measured) ==
  worker' = [worker EXCEPT ![w] =
    IF worker[w].origin = "page" THEN Idle
    ELSE [Idle EXCEPT !.origin = "job", !.turned = worker[w].turned,
            !.pc = IF measured /\ worker[w].method = "read" THEN "bulk" ELSE "job"]]

\* The read lock is held, the route is there, the guard has agreed.
Send(w) ==
  LET r == worker[w]
      writes == Decide(r.readOnly, unlocked, r.asks)
  IN /\ r.pc = "wait"
     /\ r.via # None => routes[r.via] # None
     /\ r.method = "read" \/ writes # "Blocked"
     /\ worker' = [worker EXCEPT ![w] =
          [r EXCEPT !.pc = "sending", !.writes = writes,
                    !.route = IF r.via = None THEN None ELSE routes[r.via]]]
     /\ UNCHANGED <<primed, unlocked, routes, excuse>>

\* tunnel_error "missing", or blocked_readonly.
Turned(w) ==
  LET r == worker[w]
  IN /\ r.pc = "wait"
     /\ \/ r.via # None /\ routes[r.via] = None
        \/ r.method = "write" /\ Decide(r.readOnly, unlocked, r.asks) = "Blocked"
     /\ Resume(w, FALSE)
     /\ UNCHANGED <<primed, unlocked, routes, excuse>>

Answer(w, measured) ==
  /\ worker[w].pc = "sending"
  /\ Resume(w, measured)
  /\ UNCHANGED <<primed, unlocked, routes, excuse>>

(***************************************************************************)
(* A run of the job: refused, or for each cluster a search and then, if it *)
(* measured anything, a bulk write.                                        *)
(***************************************************************************)
\* Mutant of Refusal: the config's setting is left to the guard.
RefusalUnprimed == ~primed.present

Refusal == ~primed.present \/ Decide(primed.readOnly, FALSE, TRUE) = "Blocked"

JobStart(w) ==
  /\ Free(w)
  /\ ~Refusal
  /\ worker' = [worker EXCEPT ![w] = [Idle EXCEPT !.pc = "job", !.origin = "job"]]
  /\ UNCHANGED <<primed, unlocked, routes, excuse>>

JobSearch(w) == worker[w].pc = "job"  /\ Snapshot(w, "read", FALSE)
JobBulk(w)   == worker[w].pc = "bulk" /\ Snapshot(w, "write", TRUE)

\* The cluster is not primed any more: that request fails, the job goes on.
JobSkip(w) ==
  /\ worker[w].pc = "bulk"
  /\ ~primed.present
  /\ worker' = [worker EXCEPT ![w].pc = "job"]
  /\ UNCHANGED <<primed, unlocked, routes, excuse>>

JobEnd(w) ==
  /\ worker[w].pc = "job"
  /\ Finish(w)
  /\ UNCHANGED <<primed, unlocked, routes, excuse>>

Administer(w) == \/ \E c \in Config : PrimeClusters(w, c)
                 \/ PrimeRoutes(w)
                 \/ ForgetClusters(w) \/ ForgetUnlock(w) \/ CloseTunnels(w)

Ask(w) == \/ \E method \in {"read", "write"}, asks \in BOOLEAN : PageRequest(w, method, asks)
          \/ Send(w)
          \/ Turned(w)
          \/ \E measured \in BOOLEAN : Answer(w, measured)

Job(w) == JobStart(w) \/ JobSearch(w) \/ JobBulk(w) \/ JobSkip(w) \/ JobEnd(w)

Next == \/ \E w \in Workers : Administer(w) \/ Ask(w) \/ Job(w)
        \/ \E j \in Jumps : TunnelSecret(j)
        \/ WriteUnlock

Spec == Init /\ [][Next]_vars

-----------------------------------------------------------------------------
Writing == {w \in Sending : worker[w].method = "write"}

(* A write is on its way to a cluster only if the config in force when the *)
(* request was made said readOnly: false in so many words, or the operator *)
(* had unlocked writes and this request asked to write.  (The two gates of *)
(* guard.rs, through every re-prime and lock wait in between.)             *)
WritesWerePermitted ==
  \A w \in Writing : worker[w].text = "false" \/ (worker[w].writes = "Operator" /\ worker[w].asks)

(* A request uses the route of its jump host as it is now: no re-prime,    *)
(* FORGET or new secret takes a route away under a request in flight.      *)
RouteOutlivesRequest ==
  \A w \in Sending : worker[w].via # None => worker[w].route = routes[worker[w].via]

(* When no PRIME or FORGET is in progress the cluster's route is there,    *)
(* unless it could not be made, or the last of those messages overlapped   *)
(* another and left its routes under the clusters of the other.            *)
RoutesServeTheClusters ==
  Administering = {} /\ primed.via # None /\ excuse = "none" => routes[primed.via] # None

(* The job writes under the operator's unlock only if the config became    *)
(* read-only after the job had begun: it is refused at its start           *)
(* otherwise, unlock or no unlock.                                         *)
JobUsesUnlockOnlyAfterATurn ==
  \A w \in Writing : worker[w].origin = "job" /\ worker[w].writes = "Operator" => worker[w].turned

(* What the comments of WRITE_UNLOCK and of the job say: "nothing that     *)
(* polls in the background can write while it is on", and a background     *)
(* task "can never hold" the unlock.                                       *)
NoBackgroundWriteByUnlock ==
  \A w \in Writing : worker[w].origin = "job" => worker[w].writes # "Operator"

=============================================================================
