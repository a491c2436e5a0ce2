----------------------------- MODULE GateProofs -----------------------------
(***************************************************************************)
(* Proofs about Gate, for any number of messages and job runs in progress  *)
(* and any number of jump hosts and routes.                                *)
(***************************************************************************)
EXTENDS Gate, TLAPS

InFlight == {"wait", "sending"}

\* A copy of the setting is what the config in force spelled.
CopiesAreTrue ==
  /\ primed.readOnly <=> primed.text # "false"
  /\ \A w \in Workers : worker[w].pc \in InFlight =>
       (worker[w].readOnly <=> worker[w].text # "false")

\* What the guard found for a request that is being sent.
Verdict ==
  \A w \in Workers : worker[w].pc = "sending" =>
    /\ worker[w].writes = "Config" => ~worker[w].readOnly
    /\ worker[w].writes = "Operator" => worker[w].readOnly /\ worker[w].asks
    /\ worker[w].method = "write" => worker[w].writes # "Blocked"

\* Until a read-only config is primed, a run of the job goes by the config
\* that permitted it.
JobInv ==
  \A w \in Workers : worker[w].origin = "job" /\ ~worker[w].turned =>
    /\ primed.text = "false"
    /\ worker[w].pc \in InFlight => worker[w].text = "false"

\* Only a worker of the job, or one with nothing to do, has no page to answer.
OriginInv ==
  \A w \in Workers : worker[w].origin = "job" => worker[w].pc \in InFlight \cup {"job", "bulk"}

GateInv == TypeOK /\ CopiesAreTrue /\ Verdict /\ JobInv /\ OriginInv /\ RouteOutlivesRequest

-----------------------------------------------------------------------------
LEMMA IdleIsWorker == Idle \in Worker /\ Idle.pc = "idle" /\ Idle.origin = "page"
                        /\ Idle.writes = "none" /\ Idle.turned = FALSE
  BY DEF Idle, Worker, Steps, Verdicts

LEMMA InitGateInv == Init => GateInv
  <1> SUFFICES ASSUME Init PROVE GateInv
    OBVIOUS
  <1>1. \A w \in Workers : worker[w] = Idle
    BY DEF Init
  <1>2. worker \in [Workers -> Worker]
    BY IdleIsWorker DEF Init
  <1>3. primed \in Primed /\ unlocked \in BOOLEAN /\ excuse \in {"none", "overlap", "failed"}
    BY DEF Init, Primed
  <1>4. routes \in [Jumps -> Routes \cup {None}]
    BY DEF Init
  <1>5. TypeOK
    BY <1>1, <1>2, <1>3, <1>4, IdleIsWorker DEF TypeOK
  <1>6. CopiesAreTrue /\ Verdict /\ RouteOutlivesRequest
    BY <1>1, IdleIsWorker DEF Init, CopiesAreTrue, Verdict, RouteOutlivesRequest, Sending, InFlight
  <1>7. JobInv /\ OriginInv
    BY <1>1, IdleIsWorker DEF JobInv, OriginInv
  <1> QED
    BY <1>5, <1>6, <1>7 DEF GateInv

(* A step of one worker that leaves the settings and the routes alone      *)
(* keeps the invariant when the record it moves to satisfies it.           *)
LEMMA OneWorker ==
  ASSUME GateInv, NEW w \in Workers, NEW new \in Worker,
         worker' = [worker EXCEPT ![w] = new],
         UNCHANGED <<primed, unlocked, routes, excuse>>,
         new.pc = "sending" <=> new.writes # "none",
         new.pc \in InFlight => (new.readOnly <=> new.text # "false"),
         new.pc = "sending" =>
           /\ new.writes = "Config" => ~new.readOnly
           /\ new.writes = "Operator" => new.readOnly /\ new.asks
           /\ new.method = "write" => new.writes # "Blocked"
           /\ new.via # None => new.route = routes[new.via],
         new.origin = "job" => new.pc \in InFlight \cup {"job", "bulk"},
         new.origin = "job" /\ ~new.turned =>
           primed.text = "false" /\ (new.pc \in InFlight => new.text = "false")
  PROVE  GateInv'
  <1>1. \A v \in Workers : worker'[v] = IF v = w THEN new ELSE worker[v]
    BY DEF GateInv, TypeOK
  <1>2. TypeOK'
    BY <1>1 DEF GateInv, TypeOK
  <1>3. CopiesAreTrue' /\ Verdict'
    BY <1>1 DEF GateInv, CopiesAreTrue, Verdict
  <1>4. JobInv' /\ OriginInv'
    BY <1>1 DEF GateInv, JobInv, OriginInv
  <1>5. RouteOutlivesRequest'
    BY <1>1 DEF GateInv, RouteOutlivesRequest, Sending
  <1> QED
    BY <1>2, <1>3, <1>4, <1>5 DEF GateInv

LEMMA Finished ==
  ASSUME GateInv, NEW w \in Workers, Finish(w), UNCHANGED <<primed, unlocked, routes, excuse>>
  PROVE  GateInv'
  BY OneWorker, IdleIsWorker DEF Finish, InFlight

LEMMA Primes ==
  ASSUME GateInv, NEW w \in Workers, NEW c \in Config, PrimeClusters(w, c)
  PROVE  GateInv'
  <1> DEFINE new == [Idle EXCEPT !.pc = "routes", !.jumps = c.jumps]
  <1>1. /\ new \in Worker /\ new.pc = "routes" /\ new.writes = "none" /\ new.origin = "page"
    BY DEF Config, Idle, Worker, Steps, Verdicts
  <1>2. /\ primed' = [present |-> TRUE, readOnly |-> c.text # "false", via |-> c.via,
                      text |-> c.text]
        /\ UNCHANGED <<unlocked, routes>>
        /\ excuse' \in {"none", "overlap"}
    BY DEF PrimeClusters, ReadOnly
  <1>3. /\ worker' \in [Workers -> Worker]
        /\ worker'[w] = new
        /\ \A v \in Workers \ {w} :
             /\ worker'[v].pc = worker[v].pc /\ worker'[v].readOnly = worker[v].readOnly
             /\ worker'[v].text = worker[v].text /\ worker'[v].writes = worker[v].writes
             /\ worker'[v].asks = worker[v].asks /\ worker'[v].method = worker[v].method
             /\ worker'[v].origin = worker[v].origin /\ worker'[v].via = worker[v].via
             /\ worker'[v].route = worker[v].route
             /\ worker'[v].turned = (worker[v].turned
                                      \/ (worker[v].origin = "job" /\ c.text # "false"))
    <2> HIDE DEF new
    <2>1. worker' = [v \in Workers |->
            IF v = w THEN new
            ELSE [worker[v] EXCEPT !.turned = @ \/ (worker[v].origin = "job" /\ c.text # "false")]]
      BY DEF PrimeClusters, new
    <2>2. \A v \in Workers : worker[v] \in Worker
      BY DEF GateInv, TypeOK
    <2>3. \A v \in Workers :
            [worker[v] EXCEPT !.turned = @ \/ (worker[v].origin = "job" /\ c.text # "false")]
              \in Worker
      <3>1. \A x \in Worker, b \in BOOLEAN : [x EXCEPT !.turned = b] \in Worker
        BY DEF Worker
      <3> QED
        BY <2>2, <3>1
    <2> QED
      BY <1>1, <2>1, <2>2, <2>3 DEF Worker
  <1> HIDE DEF new
  <1>4. TypeOK'
    <2>1. primed' \in Primed
      BY <1>2 DEF Primed, Config
    <2>2. \A v \in Workers : worker'[v].pc = "sending" <=> worker'[v].writes # "none"
      BY <1>1, <1>3 DEF GateInv, TypeOK
    <2> QED
      BY <1>2, <1>3, <2>1, <2>2 DEF GateInv, TypeOK
  <1>5. CopiesAreTrue' /\ Verdict'
    <2>1. CopiesAreTrue'
      <3>1. primed'.readOnly <=> primed'.text # "false"
        BY <1>2
      <3>2. \A v \in Workers : worker'[v].pc \in InFlight =>
                               (worker'[v].readOnly <=> worker'[v].text # "false")
        BY <1>1, <1>3 DEF GateInv, CopiesAreTrue, InFlight
      <3> QED
        BY <3>1, <3>2 DEF CopiesAreTrue
    <2>2. Verdict'
      BY <1>1, <1>3 DEF GateInv, Verdict
    <2> QED
      BY <2>1, <2>2
  <1>6. OriginInv'
    BY <1>1, <1>3 DEF GateInv, OriginInv
  <1>7. JobInv'
    <2> SUFFICES ASSUME NEW v \in Workers, worker'[v].origin = "job", ~worker'[v].turned
                 PROVE  /\ primed'.text = "false"
                        /\ worker'[v].pc \in InFlight => worker'[v].text = "false"
      BY DEF JobInv
    <2>1. v # w /\ worker[v].origin = "job" /\ ~worker[v].turned /\ c.text = "false"
      <3>1. v # w
        BY <1>1, <1>3
      <3> QED
        BY <1>3, <3>1
    <2>2. worker[v].pc \in InFlight => worker[v].text = "false"
      BY <2>1 DEF GateInv, JobInv
    <2> QED
      BY <1>2, <1>3, <2>1, <2>2
  <1>8. RouteOutlivesRequest'
    BY <1>1, <1>2, <1>3 DEF GateInv, RouteOutlivesRequest, Sending
  <1> QED
    BY <1>4, <1>5, <1>6, <1>7, <1>8 DEF GateInv

\* The routes change only when no request is being sent.
LEMMA RoutesChange ==
  ASSUME GateInv, NEW w \in Workers, Sending = {},
         worker' = [worker EXCEPT ![w] = Idle] \/ worker' = worker,
         routes' \in [Jumps -> Routes \cup {None}],
         excuse' \in {"none", "overlap", "failed"},
         UNCHANGED <<primed, unlocked>>
  PROVE  GateInv'
  <1>1. \A v \in Workers : worker'[v] \in {Idle, worker[v]}
    BY DEF GateInv, TypeOK
  <1>2. worker' \in [Workers -> Worker]
    BY IdleIsWorker DEF GateInv, TypeOK
  <1>3. Sending' = {}
    BY <1>1, IdleIsWorker DEF Sending
  <1>4. TypeOK'
    BY <1>1, <1>2, IdleIsWorker DEF GateInv, TypeOK
  <1>5. CopiesAreTrue' /\ Verdict'
    BY <1>1, IdleIsWorker DEF GateInv, CopiesAreTrue, Verdict, InFlight
  <1>6. JobInv' /\ OriginInv'
    BY <1>1, IdleIsWorker DEF GateInv, JobInv, OriginInv
  <1>7. RouteOutlivesRequest'
    BY <1>3 DEF RouteOutlivesRequest
  <1> QED
    BY <1>4, <1>5, <1>6, <1>7 DEF GateInv

LEMMA Administers ==
  ASSUME GateInv, NEW w \in Workers, Administer(w)
  PROVE  GateInv'
  <1>1. ASSUME NEW c \in Config, PrimeClusters(w, c) PROVE GateInv'
    BY <1>1, Primes
  <1>2. CASE PrimeRoutes(w)
    BY <1>2, RoutesChange DEF PrimeRoutes, Rebuild, Finish, GateInv, TypeOK
  <1>3. CASE ForgetClusters(w)
    <2> DEFINE new == [Idle EXCEPT !.pc = "unlock"]
    <2>1. new \in Worker /\ new.pc = "unlock" /\ new.writes = "none" /\ new.origin = "page"
      BY DEF Idle, Worker, Steps, Verdicts
    <2>2. /\ primed' = [primed EXCEPT !.present = FALSE, !.via = None]
          /\ worker' = [worker EXCEPT ![w] = new]
          /\ excuse' \in {"none", "overlap", "failed"}
          /\ UNCHANGED <<unlocked, routes>>
      BY <1>3 DEF ForgetClusters, GateInv, TypeOK
    <2> HIDE DEF new
    <2>3. \A v \in Workers : worker'[v] = IF v = w THEN new ELSE worker[v]
      BY <2>2 DEF GateInv, TypeOK
    <2>4. primed' \in Primed /\ primed'.readOnly = primed.readOnly /\ primed'.text = primed.text
      BY <2>2 DEF GateInv, TypeOK, Primed
    <2>5. TypeOK'
      BY <2>1, <2>2, <2>3, <2>4 DEF GateInv, TypeOK
    <2>6. CopiesAreTrue' /\ Verdict'
      BY <2>1, <2>3, <2>4 DEF GateInv, CopiesAreTrue, Verdict, InFlight
    <2>7. JobInv' /\ OriginInv'
      BY <2>1, <2>3, <2>4 DEF GateInv, JobInv, OriginInv
    <2>8. RouteOutlivesRequest'
      BY <2>1, <2>2, <2>3 DEF GateInv, RouteOutlivesRequest, Sending
    <2> QED
      BY <2>5, <2>6, <2>7, <2>8 DEF GateInv
  <1>4. CASE ForgetUnlock(w)
    <2> DEFINE new == [worker[w] EXCEPT !.pc = "close"]
    <2>1. worker[w] \in Worker /\ worker[w].pc = "unlock" /\ worker[w].origin # "job"
          /\ worker[w].writes = "none"
      BY <1>4 DEF ForgetUnlock, GateInv, TypeOK, OriginInv, InFlight
    <2>2. new \in Worker /\ new.pc = "close" /\ new.writes = "none" /\ new.origin # "job"
      BY <2>1 DEF Worker, Steps
    <2>3. worker' = [worker EXCEPT ![w] = new] /\ unlocked' = FALSE
          /\ UNCHANGED <<primed, routes, excuse>>
      BY <1>4 DEF ForgetUnlock
    <2> HIDE DEF new
    <2>4. \A v \in Workers : worker'[v] = IF v = w THEN new ELSE worker[v]
      BY <2>3 DEF GateInv, TypeOK
    <2>5. TypeOK'
      BY <2>2, <2>3, <2>4 DEF GateInv, TypeOK
    <2>6. CopiesAreTrue' /\ Verdict' /\ JobInv' /\ OriginInv'
      BY <2>2, <2>3, <2>4 DEF GateInv, CopiesAreTrue, Verdict, JobInv, OriginInv, InFlight
    <2>7. RouteOutlivesRequest'
      BY <2>2, <2>3, <2>4 DEF GateInv, RouteOutlivesRequest, Sending
    <2> QED
      BY <2>5, <2>6, <2>7 DEF GateInv
  <1>5. CASE CloseTunnels(w)
    BY <1>5, RoutesChange DEF CloseTunnels, Finish, GateInv, TypeOK
  <1> QED
    BY <1>1, <1>2, <1>3, <1>4, <1>5 DEF Administer

LEMMA Snapshots ==
  ASSUME GateInv, NEW w \in Workers, NEW method \in {"read", "write"}, NEW asks \in BOOLEAN,
         worker[w].pc # "sending", Snapshot(w, method, asks)
  PROVE  GateInv'
  <1> DEFINE new == [worker[w] EXCEPT !.pc = "wait", !.method = method, !.asks = asks,
                       !.readOnly = primed.readOnly, !.via = primed.via,
                       !.text = primed.text]
  <1>1. worker[w] \in Worker /\ worker[w].writes = "none" /\ primed \in Primed
    BY DEF GateInv, TypeOK
  <1>2. /\ new \in Worker /\ new.pc = "wait" /\ new.writes = "none"
        /\ new.readOnly = primed.readOnly /\ new.text = primed.text
        /\ new.origin = worker[w].origin /\ new.turned = worker[w].turned
    <2>1. /\ primed.readOnly \in BOOLEAN /\ primed.via \in Jumps \cup {None}
          /\ primed.text \in {"true", "false", "unset"}
      BY <1>1 DEF Primed
    <2>2. new \in Worker
      BY <1>1, <2>1 DEF Worker, Steps
    <2> QED
      BY <1>1, <2>2 DEF Worker
  <1>3. worker' = [worker EXCEPT ![w] = new] /\ UNCHANGED <<primed, unlocked, routes, excuse>>
    BY DEF Snapshot
  <1>4. /\ new.readOnly <=> new.text # "false"
        /\ new.origin = "job" /\ ~new.turned => primed.text = "false"
    BY <1>2 DEF GateInv, CopiesAreTrue, JobInv
  <1> HIDE DEF new
  <1> QED
    BY <1>2, <1>3, <1>4, OneWorker DEF InFlight

LEMMA Sends ==
  ASSUME GateInv, NEW w \in Workers, Send(w)
  PROVE  GateInv'
  <1> DEFINE writes == Decide(worker[w].readOnly, unlocked, worker[w].asks)
             route  == IF worker[w].via = None THEN None ELSE routes[worker[w].via]
             new    == [worker[w] EXCEPT !.pc = "sending", !.writes = writes, !.route = route]
  <1>1. worker[w] \in Worker /\ worker[w].pc = "wait"
        /\ (worker[w].method = "read" \/ writes # "Blocked")
    BY DEF Send, GateInv, TypeOK
  <1>2. /\ writes \in Verdicts \ {"none"}
        /\ writes = "Config" => ~worker[w].readOnly
        /\ writes = "Operator" => worker[w].readOnly /\ worker[w].asks
    BY DEF Decide, Verdicts
  <1>3. route \in Routes \cup {None} /\ (worker[w].via # None => route = routes[worker[w].via])
    BY <1>1 DEF GateInv, TypeOK, Worker
  <1>4. worker' = [worker EXCEPT ![w] = new] /\ UNCHANGED <<primed, unlocked, routes, excuse>>
    BY DEF Send
  <1> HIDE DEF writes, route
  <1>5. /\ new \in Worker /\ new.pc = "sending" /\ new.writes = writes /\ new.route = route
        /\ new.readOnly = worker[w].readOnly /\ new.text = worker[w].text
        /\ new.asks = worker[w].asks /\ new.method = worker[w].method
        /\ new.via = worker[w].via
        /\ new.origin = worker[w].origin /\ new.turned = worker[w].turned
    BY <1>1, <1>2, <1>3 DEF Worker, Steps
  <1> HIDE DEF new
  <1>6. /\ new.readOnly <=> new.text # "false"
        /\ new.origin = "job" /\ ~new.turned => primed.text = "false" /\ new.text = "false"
    BY <1>1, <1>5 DEF GateInv, CopiesAreTrue, JobInv, InFlight
  <1>7. new.writes # "none" /\ (new.method = "write" => new.writes # "Blocked")
    BY <1>1, <1>2, <1>5 DEF Verdicts
  <1>8. /\ new.writes = "Config" => ~new.readOnly
        /\ new.writes = "Operator" => new.readOnly /\ new.asks
        /\ new.via # None => new.route = routes[new.via]
    BY <1>2, <1>3, <1>5
  <1>9. new.pc = "sending"
    BY <1>5
  <1> QED
    BY <1>4, <1>5, <1>6, <1>7, <1>8, <1>9, OneWorker DEF InFlight

LEMMA Resumes ==
  ASSUME GateInv, NEW w \in Workers, NEW measured \in BOOLEAN, worker[w].pc \in InFlight,
         Resume(w, measured), UNCHANGED <<primed, unlocked, routes, excuse>>
  PROVE  GateInv'
  <1>1. CASE worker[w].origin = "page"
    BY <1>1, Finished DEF Resume, Finish
  <1>2. CASE worker[w].origin # "page"
    <2> DEFINE pc  == IF measured /\ worker[w].method = "read" THEN "bulk" ELSE "job"
               new == [Idle EXCEPT !.origin = "job", !.turned = worker[w].turned, !.pc = pc]
    <2>1. worker[w] \in Worker /\ worker[w].origin = "job"
      BY <1>2 DEF GateInv, TypeOK, Worker
    <2>2. pc \in {"bulk", "job"}
      OBVIOUS
    <2>3. worker' = [worker EXCEPT ![w] = new]
      BY <1>2 DEF Resume
    <2> HIDE DEF pc
    <2>4. /\ new \in Worker /\ new.pc \in {"bulk", "job"} /\ new.writes = "none"
          /\ new.origin = "job" /\ new.turned = worker[w].turned
      <3>1. worker[w].turned \in BOOLEAN /\ pc \in Steps
        BY <2>1, <2>2 DEF Worker, Steps
      <3>2. new \in Worker
        BY <3>1, IdleIsWorker DEF Worker
      <3> QED
        BY <2>2, <3>2 DEF Idle
    <2> HIDE DEF new
    <2>5. ~new.turned => primed.text = "false"
      BY <2>1, <2>4 DEF GateInv, JobInv
    <2> QED
      BY <2>3, <2>4, <2>5, OneWorker DEF InFlight
  <1> QED
    BY <1>1, <1>2

LEMMA Jobs ==
  ASSUME GateInv, NEW w \in Workers, Job(w)
  PROVE  GateInv'
  <1>1. CASE JobStart(w)
    <2> DEFINE new == [Idle EXCEPT !.pc = "job", !.origin = "job"]
    <2>1. /\ new \in Worker /\ new.pc = "job" /\ new.writes = "none" /\ new.origin = "job"
      BY DEF Idle, Worker, Steps, Verdicts
    <2>2. worker' = [worker EXCEPT ![w] = new] /\ UNCHANGED <<primed, unlocked, routes, excuse>>
      BY <1>1 DEF JobStart
    <2>3. primed.text = "false"
      BY <1>1 DEF JobStart, Refusal, Decide, GateInv, CopiesAreTrue
    <2> HIDE DEF new
    <2> QED
      BY <2>1, <2>2, <2>3, OneWorker DEF InFlight
  <1>2. CASE JobSearch(w) \/ JobBulk(w)
    BY <1>2, Snapshots DEF JobSearch, JobBulk
  <1>3. CASE JobSkip(w)
    <2> DEFINE new == [worker[w] EXCEPT !.pc = "job"]
    <2>1. worker[w] \in Worker /\ worker[w].pc = "bulk" /\ worker[w].writes = "none"
      BY <1>3 DEF JobSkip, GateInv, TypeOK
    <2>2. /\ new \in Worker /\ new.pc = "job" /\ new.writes = "none"
          /\ new.origin = worker[w].origin /\ new.turned = worker[w].turned
      BY <2>1 DEF Worker, Steps
    <2>3. worker' = [worker EXCEPT ![w] = new] /\ UNCHANGED <<primed, unlocked, routes, excuse>>
      BY <1>3 DEF JobSkip
    <2> HIDE DEF new
    <2>4. new.origin = "job" /\ ~new.turned => primed.text = "false"
      BY <2>2 DEF GateInv, JobInv
    <2> QED
      BY <2>2, <2>3, <2>4, OneWorker DEF InFlight
  <1>4. CASE JobEnd(w)
    BY <1>4, Finished DEF JobEnd
  <1> QED
    BY <1>1, <1>2, <1>3, <1>4 DEF Job

LEMMA GateStep == GateInv /\ [Next]_vars => GateInv'
  <1> SUFFICES ASSUME GateInv, [Next]_vars PROVE GateInv'
    OBVIOUS
  <1>1. ASSUME NEW w \in Workers, Administer(w) PROVE GateInv'
    BY <1>1, Administers
  <1>2. ASSUME NEW w \in Workers, Ask(w) PROVE GateInv'
    <2>1. ASSUME NEW method \in {"read", "write"}, NEW asks \in BOOLEAN,
                 PageRequest(w, method, asks)
          PROVE  GateInv'
      BY <2>1, Snapshots DEF PageRequest, Free
    <2>2. CASE Send(w)
      BY <2>2, Sends
    <2>3. CASE Turned(w)
      BY <2>3, Resumes DEF Turned, InFlight
    <2>4. ASSUME NEW measured \in BOOLEAN, Answer(w, measured) PROVE GateInv'
      BY <2>4, Resumes DEF Answer, InFlight
    <2> QED
      BY <1>2, <2>1, <2>2, <2>3, <2>4 DEF Ask
  <1>3. ASSUME NEW w \in Workers, Job(w) PROVE GateInv'
    BY <1>3, Jobs
  <1>4. ASSUME NEW j \in Jumps, TunnelSecret(j) PROVE GateInv'
    <2>1. routes' \in [Jumps -> Routes \cup {None}] /\ excuse' \in {"none", "overlap", "failed"}
          /\ Sending = {} /\ UNCHANGED <<primed, unlocked, worker>>
      BY <1>4 DEF TunnelSecret, GateInv, TypeOK
    <2> QED
      BY <2>1 DEF GateInv, TypeOK, CopiesAreTrue, Verdict, JobInv, OriginInv,
                  RouteOutlivesRequest, Sending
  <1>5. CASE WriteUnlock
    BY <1>5 DEF WriteUnlock, GateInv, TypeOK, CopiesAreTrue, Verdict, JobInv, OriginInv,
                RouteOutlivesRequest, Sending
  <1>6. CASE UNCHANGED vars
    BY <1>6 DEF vars, GateInv, TypeOK, CopiesAreTrue, Verdict, JobInv, OriginInv,
                RouteOutlivesRequest, Sending
  <1> QED
    BY <1>1, <1>2, <1>3, <1>4, <1>5, <1>6 DEF Next

LEMMA GateInvHolds == Spec => []GateInv
  BY InitGateInv, GateStep, PTL DEF Spec

-----------------------------------------------------------------------------
(* Every write in flight was permitted by the config in force when it was  *)
(* asked for, or by the operator for that one request: prime(), es_req()   *)
(* and Writes::decide together.                                            *)
THEOREM NoWriteUnpermitted == Spec => []WritesWerePermitted
  <1>1. GateInv => WritesWerePermitted
    <2> SUFFICES ASSUME GateInv, NEW w \in Writing
                 PROVE  \/ worker[w].text = "false"
                        \/ worker[w].writes = "Operator" /\ worker[w].asks
      BY DEF WritesWerePermitted
    <2>1. w \in Workers /\ worker[w].pc = "sending" /\ worker[w].method = "write"
      BY DEF Writing, Sending
    <2>2. worker[w].writes \in {"Operator", "Config"}
      BY <2>1 DEF GateInv, TypeOK, Verdict, Worker, Verdicts
    <2> QED
      BY <2>1, <2>2 DEF GateInv, Verdict, CopiesAreTrue, InFlight
  <1> QED
    BY GateInvHolds, <1>1, PTL

(* The read lock a request holds keeps its route: prime(), FORGET and      *)
(* TUNNEL_SECRET change routes under the write lock only.                  *)
THEOREM RoutesOutliveRequests == Spec => []RouteOutlivesRequest
  <1>1. GateInv => RouteOutlivesRequest
    BY DEF GateInv
  <1> QED
    BY GateInvHolds, <1>1, PTL

(* A run of the job that was not overtaken by a read-only config never     *)
(* writes by the operator's unlock (delay_sink_refusal and es_req).        *)
THEOREM JobNeedsATurn == Spec => []JobUsesUnlockOnlyAfterATurn
  <1>1. GateInv => JobUsesUnlockOnlyAfterATurn
    <2> SUFFICES ASSUME GateInv, NEW w \in Writing, worker[w].origin = "job",
                        worker[w].writes = "Operator", ~worker[w].turned
                 PROVE  FALSE
      BY DEF JobUsesUnlockOnlyAfterATurn, GateInv, TypeOK, Worker, Writing, Sending
    <2>1. w \in Workers /\ worker[w].pc = "sending"
      BY DEF Writing, Sending
    <2>2. worker[w].readOnly /\ worker[w].text = "false"
      BY <2>1 DEF GateInv, Verdict, JobInv, InFlight
    <2> QED
      BY <2>1, <2>2 DEF GateInv, CopiesAreTrue, InFlight
  <1> QED
    BY GateInvHolds, <1>1, PTL

(* Every reachable state is well typed, whatever overlaps what.            *)
THEOREM GateTypeCorrect == Spec => []TypeOK
  <1>1. GateInv => TypeOK
    BY DEF GateInv
  <1> QED
    BY GateInvHolds, <1>1, PTL

-----------------------------------------------------------------------------
(***************************************************************************)
(* The routes and the clusters.  Without an excuse one message administers *)
(* at a time; a PRIME that has its routes still to make is of the config   *)
(* in force; and a FORGET has left no cluster that would need a route.     *)
(***************************************************************************)
AdminSteps == {"routes", "unlock", "close"}

ServesInv ==
  excuse = "none" =>
    /\ \A v, w \in Administering : v = w
    /\ \A w \in Workers : worker[w].pc = "routes" => primed.via \in worker[w].jumps \cup {None}
    /\ \A w \in Workers : worker[w].pc \in {"unlock", "close"} => primed.via = None
    /\ Administering = {} /\ primed.via # None => routes[primed.via] # None

(* A step of a worker that administers nothing, before or after it.        *)
LEMMA ServesThrough ==
  ASSUME TypeOK, ServesInv, NEW w \in Workers, NEW new,
         worker' = [worker EXCEPT ![w] = new],
         worker[w].pc \notin AdminSteps, new.pc \notin AdminSteps,
         UNCHANGED <<primed, routes, excuse>>
  PROVE  ServesInv'
  <1>1. \A v \in Workers : worker'[v] = IF v = w THEN new ELSE worker[v]
    BY DEF TypeOK
  <1>2. Administering' = Administering
    BY <1>1 DEF Administering, AdminSteps
  <1> QED
    BY <1>1, <1>2 DEF ServesInv, AdminSteps

LEMMA InitServes == Init => ServesInv
  <1> SUFFICES ASSUME Init PROVE ServesInv
    OBVIOUS
  <1>1. \A w \in Workers : worker[w].pc = "idle"
    BY IdleIsWorker DEF Init
  <1> QED
    BY <1>1 DEF Init, ServesInv, Administering

LEMMA AdministersServing ==
  ASSUME GateInv, ServesInv, NEW w \in Workers, Administer(w)
  PROVE  ServesInv'
  <1>0. TypeOK /\ worker[w] \in Worker
    BY DEF GateInv, TypeOK
  <1>1. ASSUME NEW c \in Config, PrimeClusters(w, c) PROVE ServesInv'
    <2> SUFFICES ASSUME excuse' = "none" PROVE ServesInv'
      BY DEF ServesInv
    <2>1. Administering = {} /\ primed'.via = c.via /\ c.via \in c.jumps \cup {None}
      BY <1>1 DEF PrimeClusters, Config
    <2>2. worker'[w].pc = "routes" /\ worker'[w].jumps = c.jumps
      BY <1>1 DEF PrimeClusters, Idle
    <2>3. \A v \in Workers : v # w => worker'[v].pc = worker[v].pc
      BY <1>1, <1>0 DEF PrimeClusters, TypeOK, Worker
    <2>4. Administering' = {w}
      BY <2>1, <2>2, <2>3 DEF Administering
    <2>5. \A v \in Workers : worker'[v].pc \in AdminSteps => v = w
      BY <2>4 DEF Administering, AdminSteps
    <2> QED
      BY <2>1, <2>2, <2>4, <2>5 DEF ServesInv, AdminSteps
  <1>2. ASSUME Finish(w) PROVE \A v \in Workers : worker'[v] = IF v = w THEN Idle ELSE worker[v]
    BY <1>0, <1>2 DEF Finish, TypeOK
  <1>3. ASSUME Finish(w), excuse = "none", worker[w].pc \in AdminSteps
        PROVE  /\ Administering' = {}
               /\ \A v \in Workers : worker'[v].pc \notin AdminSteps
    <2>1. \A v \in Workers : worker[v].pc \in AdminSteps => v = w
      BY <1>3 DEF ServesInv, Administering, AdminSteps
    <2> QED
      BY <1>2, <1>3, <2>1, IdleIsWorker DEF Administering, AdminSteps
  <1>4. CASE PrimeRoutes(w)
    <2> SUFFICES ASSUME excuse' = "none" PROVE ServesInv'
      BY DEF ServesInv
    <2>1. excuse = "none" /\ Finish(w) /\ worker[w].pc = "routes" /\ primed' = primed
          /\ \A j \in worker[w].jumps : routes'[j] # None
      BY <1>4 DEF PrimeRoutes, Rebuild
    <2>2. primed.via \in worker[w].jumps \cup {None}
      BY <2>1 DEF ServesInv
    <2> QED
      BY <1>3, <2>1, <2>2 DEF ServesInv, AdminSteps
  <1>5. CASE ForgetClusters(w)
    <2> SUFFICES ASSUME excuse' = "none" PROVE ServesInv'
      BY DEF ServesInv
    <2> DEFINE new == [Idle EXCEPT !.pc = "unlock"]
    <2>1. Administering = {} /\ primed'.via = None /\ worker' = [worker EXCEPT ![w] = new]
      BY <1>5, <1>0 DEF ForgetClusters, TypeOK, Primed
    <2>2. new.pc = "unlock"
      BY DEF Idle
    <2> HIDE DEF new
    <2>3. \A v \in Workers : worker'[v] = IF v = w THEN new ELSE worker[v]
      BY <1>0, <2>1 DEF TypeOK
    <2>4. \A v \in Workers : worker'[v].pc \in AdminSteps => v = w /\ worker'[v].pc = "unlock"
      BY <2>1, <2>2, <2>3 DEF Administering, AdminSteps
    <2> QED
      BY <2>1, <2>4 DEF ServesInv, Administering, AdminSteps
  <1>6. CASE ForgetUnlock(w)
    <2>1. \A v \in Workers : v # w => worker'[v] = worker[v]
      BY <1>6, <1>0 DEF ForgetUnlock, TypeOK
    <2>2. worker'[w].pc = "close" /\ worker[w].pc = "unlock" /\ UNCHANGED <<primed, routes, excuse>>
      BY <1>6, <1>0 DEF ForgetUnlock, TypeOK, Worker
    <2>3. Administering' = Administering
      BY <2>1, <2>2 DEF Administering
    <2> QED
      BY <2>1, <2>2, <2>3 DEF ServesInv
  <1>7. CASE CloseTunnels(w)
    <2> SUFFICES ASSUME excuse' = "none" PROVE ServesInv'
      BY DEF ServesInv
    <2>1. excuse = "none" /\ Finish(w) /\ worker[w].pc = "close" /\ primed' = primed
      BY <1>7 DEF CloseTunnels
    <2>2. primed.via = None
      BY <2>1 DEF ServesInv
    <2> QED
      BY <1>3, <2>1, <2>2 DEF ServesInv, AdminSteps
  <1> QED
    BY <1>1, <1>4, <1>5, <1>6, <1>7 DEF Administer

(* Requests and the job never administer: each of their steps is one of    *)
(* ServesThrough.                                                          *)
LEMMA AsksServing ==
  ASSUME GateInv, ServesInv, NEW w \in Workers, Ask(w) \/ Job(w)
  PROVE  ServesInv'
  <1>0. TypeOK /\ worker[w] \in Worker
    BY DEF GateInv, TypeOK
  <1>1. UNCHANGED <<primed, routes, excuse>> /\ worker[w].pc \notin AdminSteps
    BY DEF Ask, Job, PageRequest, Free, Snapshot, Send, Turned, Answer, JobStart, JobSearch,
           JobBulk, JobSkip, JobEnd, AdminSteps
  <1>2. \E new : worker' = [worker EXCEPT ![w] = new] /\ new.pc \notin AdminSteps
    <2>1. ASSUME NEW method \in {"read", "write"}, NEW asks \in BOOLEAN,
                 Snapshot(w, method, asks)
          PROVE  \E new : worker' = [worker EXCEPT ![w] = new] /\ new.pc \notin AdminSteps
      <3> DEFINE new == [worker[w] EXCEPT !.pc = "wait", !.method = method, !.asks = asks,
                           !.readOnly = primed.readOnly, !.via = primed.via,
                           !.text = primed.text]
      <3>1. worker' = [worker EXCEPT ![w] = new]
        BY <2>1 DEF Snapshot
      <3>2. new.pc = "wait"
        BY <1>0 DEF Worker
      <3> HIDE DEF new
      <3> QED
        BY <3>1, <3>2 DEF AdminSteps
    <2>2. ASSUME NEW measured \in BOOLEAN, Resume(w, measured)
          PROVE  \E new : worker' = [worker EXCEPT ![w] = new] /\ new.pc \notin AdminSteps
      <3> DEFINE pc  == IF measured /\ worker[w].method = "read" THEN "bulk" ELSE "job"
                 job == [Idle EXCEPT !.origin = "job", !.turned = worker[w].turned, !.pc = pc]
      <3>1. worker' = [worker EXCEPT ![w] = Idle] \/ worker' = [worker EXCEPT ![w] = job]
        BY <2>2 DEF Resume
      <3>2. job.pc = pc /\ Idle.pc = "idle" /\ pc \in {"bulk", "job"}
        BY DEF Idle
      <3> HIDE DEF pc, job
      <3> QED
        BY <3>1, <3>2 DEF AdminSteps
    <2>3. CASE Send(w)
      <3> DEFINE new == [worker[w] EXCEPT !.pc = "sending",
                           !.writes = Decide(worker[w].readOnly, unlocked, worker[w].asks),
                           !.route = IF worker[w].via = None THEN None
                                     ELSE routes[worker[w].via]]
      <3>1. worker' = [worker EXCEPT ![w] = new]
        BY <2>3 DEF Send
      <3>2. new.pc = "sending"
        BY <1>0 DEF Worker
      <3> HIDE DEF new
      <3> QED
        BY <3>1, <3>2 DEF AdminSteps
    <2>4. CASE JobStart(w)
      <3> DEFINE new == [Idle EXCEPT !.pc = "job", !.origin = "job"]
      <3>1. worker' = [worker EXCEPT ![w] = new] /\ new.pc = "job"
        BY <2>4 DEF JobStart, Idle
      <3> HIDE DEF new
      <3> QED
        BY <3>1 DEF AdminSteps
    <2>5. CASE JobSkip(w)
      <3> DEFINE new == [worker[w] EXCEPT !.pc = "job"]
      <3>1. worker' = [worker EXCEPT ![w] = new] /\ new.pc = "job"
        BY <1>0, <2>5 DEF JobSkip, Worker
      <3> HIDE DEF new
      <3> QED
        BY <3>1 DEF AdminSteps
    <2>6. CASE JobEnd(w)
      <3>1. worker' = [worker EXCEPT ![w] = Idle] /\ Idle.pc = "idle"
        BY <2>6, IdleIsWorker DEF JobEnd, Finish
      <3> HIDE DEF Idle
      <3> QED
        BY <3>1 DEF AdminSteps
    <2> QED
      BY <2>1, <2>2, <2>3, <2>4, <2>5, <2>6
      DEF Ask, Job, PageRequest, Turned, Answer, JobSearch, JobBulk
  <1> QED
    BY <1>0, <1>1, <1>2, ServesThrough

LEMMA ServesStep == GateInv /\ ServesInv /\ [Next]_vars => ServesInv'
  <1> SUFFICES ASSUME GateInv, ServesInv, [Next]_vars PROVE ServesInv'
    OBVIOUS
  <1>1. ASSUME NEW w \in Workers, Administer(w) PROVE ServesInv'
    BY <1>1, AdministersServing
  <1>2. ASSUME NEW w \in Workers, Ask(w) \/ Job(w) PROVE ServesInv'
    BY <1>2, AsksServing
  <1>3. ASSUME NEW j \in Jumps, TunnelSecret(j) PROVE ServesInv'
    <2> SUFFICES ASSUME excuse' = "none" PROVE ServesInv'
      BY DEF ServesInv
    <2> PICK n \in Routes \cup {None} :
          routes' = [routes EXCEPT ![j] = n] /\ excuse' = IF n = None THEN "failed" ELSE excuse
      BY <1>3 DEF TunnelSecret
    <2>1. n # None /\ excuse = "none" /\ UNCHANGED <<primed, worker>>
      BY <1>3 DEF TunnelSecret
    <2>2. \A i \in Jumps : routes[i] # None => routes'[i] # None
      BY <2>1 DEF GateInv, TypeOK
    <2>3. primed.via \in Jumps \cup {None} /\ Administering' = Administering
      BY <2>1 DEF GateInv, TypeOK, Primed, Administering
    <2> QED
      BY <2>1, <2>2, <2>3 DEF ServesInv
  <1>4. CASE WriteUnlock \/ UNCHANGED vars
    BY <1>4 DEF WriteUnlock, vars, ServesInv, Administering
  <1> QED
    BY <1>1, <1>2, <1>3, <1>4 DEF Next

(* When no PRIME or FORGET is in progress the cluster's route is there,    *)
(* but for the two named excuses: prime() and FORGET change the clusters   *)
(* and the routes under two locks, one after the other.                    *)
THEOREM RoutesServe == Spec => []RoutesServeTheClusters
  <1>1. ServesInv => RoutesServeTheClusters
    BY DEF ServesInv, RoutesServeTheClusters
  <1> QED
    BY InitServes, ServesStep, GateInvHolds, <1>1, PTL DEF Spec

=============================================================================
