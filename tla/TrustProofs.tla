---------------------------- MODULE TrustProofs -----------------------------
(***************************************************************************)
(* Proofs about Trust, for any number of clusters, hosts, certificates,    *)
(* clients, requests in flight and trust messages in progress.             *)
(***************************************************************************)
EXTENDS Trust, TLAPS

\* A pin in force is not withdrawn, nor about to be counted as withdrawn.
PinInv ==
  /\ \A h \in Hosts : pins[h] \notin withdrawn[h]
  /\ \A m \in Messages : message[m].host # None => pins[message[m].host] \notin message[m].was

\* What a request must not use is still withdrawn.
BannedInv == \A r \in Requests : Busy(r) => request[r].banned \subseteq withdrawn[request[r].host]

\* A cached client has accepted nothing that is withdrawn.
CacheInv ==
  \A k \in Clusters : clients[k] # None =>
    /\ client[clients[k]].host # None
    /\ client[clients[k]].accepted \cap withdrawn[client[clients[k]].host] = {}

\* A client not inserted yet has no connection and one holder.
FreshInv ==
  \A r \in Requests : request[r].pc = "insert" =>
    /\ client[request[r].client].accepted = {}
    /\ \A q \in Requests \ {r} : request[q].client # request[r].client
    /\ \A k \in Clusters : clients[k] # request[r].client

\* A request holds a client of its own host that accepted nothing it must
\* not use.
HeldInv ==
  \A r \in Requests : request[r].client # None =>
    /\ client[request[r].client].host = request[r].host
    /\ client[request[r].client].accepted \cap request[r].banned = {}
    /\ request[r].over \notin request[r].banned

TrustInv == TypeOK /\ PinInv /\ BannedInv /\ CacheInv /\ FreshInv /\ HeldInv

-----------------------------------------------------------------------------
LEMMA InitTrustInv == Init => TrustInv
  BY TrustAssumption
  DEF Init, TrustInv, TypeOK, PinInv, BannedInv, CacheInv, FreshInv, HeldInv,
      Client, Unused, Request, Idle, Message, NoMessage, Busy

(* Every step of a request but Build and Handshake leaves the clients      *)
(* alone, and every step of a request leaves the pins alone.               *)
LEMMA StartStep ==
  ASSUME TrustInv, NEW r \in Requests, NEW k \in Clusters, NEW h \in Hosts, Start(r, k, h)
  PROVE  TrustInv'
  <1> DEFINE new == [pc |-> "lookup", cluster |-> k, host |-> h, client |-> None,
                     over |-> None, banned |-> withdrawn[h]]
  <1>1. new \in Request
    BY DEF TrustInv, TypeOK, Request
  <1>2. /\ request' = [request EXCEPT ![r] = new]
        /\ UNCHANGED <<pins, clients, client, message, withdrawn>>
    BY DEF Start
  <1>3. \A q \in Requests : request'[q] = IF q = r THEN new ELSE request[q]
    BY <1>2 DEF TrustInv, TypeOK
  <1>4. TypeOK'
    BY <1>1, <1>2, <1>3, TrustAssumption DEF TrustInv, TypeOK, Busy
  <1>5. PinInv' /\ CacheInv'
    BY <1>2 DEF TrustInv, PinInv, CacheInv
  <1>6. new.pc = "lookup" /\ new.client = None /\ new.banned = withdrawn[new.host]
    OBVIOUS
  <1> HIDE DEF new
  <1>7. BannedInv'
    BY <1>2, <1>3, <1>6 DEF TrustInv, BannedInv, Busy
  <1>8. FreshInv'
    <2>1. \A q \in Requests : request[q].pc = "insert" => request[q].client # None
      BY DEF TrustInv, TypeOK
    <2> QED
      BY <1>2, <1>3, <1>6, <2>1 DEF TrustInv, FreshInv
  <1>9. HeldInv'
    BY <1>2, <1>3, <1>6 DEF TrustInv, HeldInv
  <1> QED
    BY <1>4, <1>5, <1>7, <1>8, <1>9 DEF TrustInv

LEMMA HitStep ==
  ASSUME TrustInv, NEW r \in Requests, Hit(r)
  PROVE  TrustInv'
  <1> DEFINE x == clients[request[r].cluster]
             new == [request[r] EXCEPT !.pc = "send", !.client = x]
  <1>1. /\ request[r].pc = "lookup" /\ request[r] \in Request
        /\ request[r].cluster \in Clusters /\ request[r].host \in Hosts
        /\ request[r].over = None
        /\ x \in Clients /\ client[x].host = request[r].host
    BY TrustAssumption DEF Hit, Signed, TrustInv, TypeOK, Request, Busy
  <1>2. /\ request' = [request EXCEPT ![r] = new]
        /\ UNCHANGED <<pins, clients, client, message, withdrawn>>
    BY DEF Hit
  <1>3. /\ new \in Request /\ new.pc = "send" /\ new.client = x /\ new.over = None
        /\ new.cluster = request[r].cluster /\ new.host = request[r].host
        /\ new.banned = request[r].banned
    BY <1>1 DEF Request
  <1>4. x # None /\ client[x].accepted \cap request[r].banned = {} /\ None \notin request[r].banned
    BY <1>1, TrustAssumption DEF TrustInv, TypeOK, BannedInv, CacheInv, Busy, Request
  <1> HIDE DEF new
  <1>5. \A q \in Requests : request'[q] = IF q = r THEN new ELSE request[q]
    BY <1>2 DEF TrustInv, TypeOK
  <1>6. TypeOK'
    BY <1>1, <1>2, <1>3, <1>4, <1>5, TrustAssumption DEF TrustInv, TypeOK, Busy
  <1>7. PinInv' /\ CacheInv'
    BY <1>2 DEF TrustInv, PinInv, CacheInv
  <1>8. BannedInv' /\ HeldInv'
    <2>1. BannedInv'
      BY <1>1, <1>2, <1>3, <1>5 DEF TrustInv, BannedInv, Busy
    <2>2. HeldInv'
      <3>1. client' = client
        BY <1>2
      <3>2. /\ client[new.client].host = new.host
            /\ client[new.client].accepted \cap new.banned = {}
            /\ new.over \notin new.banned
        BY <1>1, <1>3, <1>4
      <3> QED
        BY <1>5, <3>1, <3>2 DEF TrustInv, HeldInv
    <2> QED
      BY <2>1, <2>2
  <1>9. FreshInv'
    BY <1>1, <1>2, <1>3, <1>5 DEF TrustInv, FreshInv
  <1> QED
    BY <1>6, <1>7, <1>8, <1>9 DEF TrustInv

LEMMA BuildStep ==
  ASSUME TrustInv, NEW r \in Requests, NEW x \in Clients, Build(r, x)
  PROVE  TrustInv'
  <1> DEFINE new == [request[r] EXCEPT !.pc = "insert", !.client = x]
  <1>1. /\ request[r].pc = "lookup" /\ request[r] \in Request
        /\ request[r].host \in Hosts /\ request[r].over = None
        /\ x # None
        /\ \A k \in Clusters : clients[k] # x
        /\ \A q \in Requests : request[q].client # x
    BY TrustAssumption DEF Build, TrustInv, TypeOK, Request, Busy
  <1>2. /\ request' = [request EXCEPT ![r] = new]
        /\ client' = [client EXCEPT ![x] = [host |-> request[r].host, accepted |-> {}]]
        /\ UNCHANGED <<pins, clients, message, withdrawn>>
    BY DEF Build
  <1>3. /\ new \in Request /\ new.pc = "insert" /\ new.client = x /\ new.over = None
        /\ new.cluster = request[r].cluster /\ new.host = request[r].host
        /\ new.banned = request[r].banned
    BY <1>1 DEF Request
  <1> HIDE DEF new
  <1>4. \A q \in Requests : request'[q] = IF q = r THEN new ELSE request[q]
    BY <1>2 DEF TrustInv, TypeOK
  <1>5. /\ client'[x] = [host |-> request[r].host, accepted |-> {}]
        /\ client' \in [Clients -> Client]
        /\ \A y \in Clients \ {x} : client'[y] = client[y]
    BY <1>1, <1>2 DEF TrustInv, TypeOK, Client
  <1>6. TypeOK'
    BY <1>1, <1>2, <1>3, <1>4, <1>5, TrustAssumption DEF TrustInv, TypeOK, Busy
  <1>7. PinInv' /\ BannedInv'
    BY <1>1, <1>2, <1>3, <1>4 DEF TrustInv, PinInv, BannedInv, Busy
  <1>8. CacheInv'
    BY <1>1, <1>2, <1>5 DEF TrustInv, TypeOK, CacheInv
  <1>9. FreshInv'
    BY <1>1, <1>2, <1>3, <1>4, <1>5 DEF TrustInv, TypeOK, FreshInv, Request
  <1>10. HeldInv'
    <2>1. None \notin request[r].banned
      BY <1>1, TrustAssumption DEF Request
    <2> QED
      BY <2>1, <1>1, <1>2, <1>3, <1>4, <1>5 DEF TrustInv, TypeOK, HeldInv, Request
  <1> QED
    BY <1>6, <1>7, <1>8, <1>9, <1>10 DEF TrustInv

LEMMA InsertStep ==
  ASSUME TrustInv, NEW r \in Requests, Insert(r)
  PROVE  TrustInv'
  <1> DEFINE new == [request[r] EXCEPT !.pc = "send"]
  <1>1. /\ request[r].pc = "insert" /\ request[r] \in Request
        /\ request[r].cluster \in Clusters /\ request[r].host \in Hosts
        /\ request[r].client \in Clients
    BY TrustAssumption DEF Insert, TrustInv, TypeOK, Request, Busy
  <1>2. /\ request' = [request EXCEPT ![r] = new]
        /\ clients' = [clients EXCEPT ![request[r].cluster] = request[r].client]
        /\ UNCHANGED <<pins, client, message, withdrawn>>
    BY DEF Insert
  <1>3. /\ new \in Request /\ new.pc = "send" /\ new.client = request[r].client
        /\ new.over = request[r].over
        /\ new.cluster = request[r].cluster /\ new.host = request[r].host
        /\ new.banned = request[r].banned
    BY <1>1 DEF Request
  <1> HIDE DEF new
  <1>4. \A q \in Requests : request'[q] = IF q = r THEN new ELSE request[q]
    BY <1>2 DEF TrustInv, TypeOK
  <1>5. \A k \in Clusters : clients'[k] = IF k = request[r].cluster THEN request[r].client
                                          ELSE clients[k]
    BY <1>2 DEF TrustInv, TypeOK
  <1>6. TypeOK'
    BY <1>1, <1>2, <1>3, <1>4, TrustAssumption DEF TrustInv, TypeOK, Busy
  <1>7. PinInv' /\ BannedInv'
    BY <1>1, <1>2, <1>3, <1>4 DEF TrustInv, PinInv, BannedInv, Busy
  <1>8. CacheInv'
    <2>1. client[request[r].client].accepted = {} /\ client[request[r].client].host \in Hosts
      BY <1>1, TrustAssumption DEF TrustInv, FreshInv, HeldInv
    <2> QED
      BY <2>1, <1>2, <1>5, TrustAssumption DEF TrustInv, CacheInv
  <1>9. FreshInv'
    <2>1. \A q \in Requests : request'[q].pc = "insert" =>
                               q # r /\ request[q].pc = "insert" /\ request'[q] = request[q]
      BY <1>3, <1>4
    <2>2. \A q \in Requests : request'[q].client = request[q].client
      BY <1>3, <1>4
    <2>3. \A q \in Requests : request[q].pc = "insert" =>
            /\ \A k \in Clusters : clients[k] # request[q].client
            /\ q # r => request[r].client # request[q].client
            /\ client[request[q].client].accepted = {}
            /\ \A p \in Requests \ {q} : request[p].client # request[q].client
      BY DEF TrustInv, FreshInv
    <2>4. \A q \in Requests : request'[q].pc = "insert" =>
            \A k \in Clusters : clients'[k] # request'[q].client
      BY <1>5, <2>1, <2>3
    <2>5. \A q \in Requests : request'[q].pc = "insert" =>
            /\ client'[request'[q].client].accepted = {}
            /\ \A p \in Requests \ {q} : request'[p].client # request'[q].client
      <3>1. client' = client
        BY <1>2
      <3> QED
        BY <2>1, <2>2, <2>3, <3>1
    <2> QED
      BY <2>4, <2>5 DEF FreshInv
  <1>10. HeldInv'
    BY <1>1, <1>2, <1>3, <1>4 DEF TrustInv, HeldInv
  <1> QED
    BY <1>6, <1>7, <1>8, <1>9, <1>10 DEF TrustInv

LEMMA ReuseStep ==
  ASSUME TrustInv, NEW r \in Requests, NEW c \in Certs, Reuse(r, c)
  PROVE  TrustInv'
  <1> DEFINE new == [request[r] EXCEPT !.pc = "sent", !.over = c]
  <1>1. /\ request[r].pc = "send" /\ request[r] \in Request /\ request[r].client # None
        /\ c \in client[request[r].client].accepted
    BY DEF Reuse, TrustInv, TypeOK
  <1>2. /\ request' = [request EXCEPT ![r] = new]
        /\ UNCHANGED <<pins, clients, client, message, withdrawn>>
    BY DEF Reuse
  <1>3. /\ new \in Request /\ new.pc = "sent" /\ new.client = request[r].client
        /\ new.over = c
        /\ new.cluster = request[r].cluster /\ new.host = request[r].host
        /\ new.banned = request[r].banned
    BY <1>1 DEF Request
  <1>4. c \notin request[r].banned
    BY <1>1 DEF TrustInv, HeldInv
  <1> HIDE DEF new
  <1>5. \A q \in Requests : request'[q] = IF q = r THEN new ELSE request[q]
    BY <1>2 DEF TrustInv, TypeOK
  <1>6. TypeOK'
    BY <1>1, <1>2, <1>3, <1>5, TrustAssumption DEF TrustInv, TypeOK, Busy
  <1>7. PinInv' /\ CacheInv'
    BY <1>2 DEF TrustInv, PinInv, CacheInv
  <1>8. BannedInv' /\ FreshInv'
    BY <1>1, <1>2, <1>3, <1>5 DEF TrustInv, BannedInv, FreshInv, Busy
  <1>9. HeldInv'
    BY <1>1, <1>2, <1>3, <1>4, <1>5 DEF TrustInv, HeldInv
  <1> QED
    BY <1>6, <1>7, <1>8, <1>9 DEF TrustInv

LEMMA HandshakeStep ==
  ASSUME TrustInv, NEW r \in Requests, NEW c \in Certs, Handshake(r, c)
  PROVE  TrustInv'
  <1> DEFINE x == request[r].client
             new == [request[r] EXCEPT !.pc = "sent", !.over = c]
  <1>1. /\ request[r].pc = "send" /\ request[r] \in Request /\ x \in Clients
        /\ request[r].host \in Hosts /\ client[x].host = request[r].host
        /\ pins[request[r].host] = c
    BY TrustAssumption DEF Handshake, Verified, TrustInv, TypeOK, Request, Busy, HeldInv
  <1>2. /\ request' = [request EXCEPT ![r] = new]
        /\ client' = [client EXCEPT ![x].accepted = @ \cup {c}]
        /\ UNCHANGED <<pins, clients, message, withdrawn>>
    BY DEF Handshake
  <1>3. /\ new \in Request /\ new.pc = "sent" /\ new.client = x
        /\ new.over = c
        /\ new.cluster = request[r].cluster /\ new.host = request[r].host
        /\ new.banned = request[r].banned
    BY <1>1 DEF Request
  <1>4. c \notin withdrawn[request[r].host]
    BY <1>1 DEF TrustInv, PinInv
  <1> HIDE DEF new
  <1>5. \A q \in Requests : request'[q] = IF q = r THEN new ELSE request[q]
    BY <1>2 DEF TrustInv, TypeOK
  <1>6. /\ client' \in [Clients -> Client]
        /\ \A y \in Clients : client'[y].host = client[y].host
        /\ client'[x].accepted = client[x].accepted \cup {c}
        /\ \A y \in Clients \ {x} : client'[y].accepted = client[y].accepted
    BY <1>1, <1>2 DEF TrustInv, TypeOK, Client
  <1>7. TypeOK'
    BY <1>1, <1>2, <1>3, <1>5, <1>6, TrustAssumption DEF TrustInv, TypeOK, Busy
  <1>8. PinInv' /\ BannedInv'
    BY <1>1, <1>2, <1>3, <1>5 DEF TrustInv, PinInv, BannedInv, Busy
  <1>9. CacheInv'
    BY <1>1, <1>2, <1>4, <1>6 DEF TrustInv, TypeOK, CacheInv
  <1>10. FreshInv'
    BY <1>1, <1>2, <1>3, <1>5, <1>6 DEF TrustInv, TypeOK, FreshInv, Request
  <1>11. HeldInv'
    <2> SUFFICES ASSUME NEW q \in Requests, request'[q].client # None
                 PROVE  /\ client'[request'[q].client].host = request'[q].host
                        /\ client'[request'[q].client].accepted \cap request'[q].banned = {}
                        /\ request'[q].over \notin request'[q].banned
      BY DEF HeldInv
    <2>1. /\ request[q].client # None /\ request[q].client \in Clients
          /\ request'[q].client = request[q].client
          /\ request'[q].host = request[q].host /\ request'[q].banned = request[q].banned
          /\ request'[q].over = IF q = r THEN c ELSE request[q].over
      BY <1>1, <1>3, <1>5, TrustAssumption DEF TrustInv, TypeOK, Request
    <2>2. Busy(q) /\ request[q].banned \subseteq withdrawn[request[q].host]
      BY <2>1 DEF TrustInv, TypeOK, BannedInv, Busy
    <2>3. request[q].client = x => c \notin request[q].banned
      BY <1>1, <1>4, <2>1, <2>2 DEF TrustInv, HeldInv
    <2> QED
      BY <1>1, <1>6, <2>1, <2>3 DEF TrustInv, HeldInv
  <1> QED
    BY <1>7, <1>8, <1>9, <1>10, <1>11 DEF TrustInv

LEMMA FinishStep ==
  ASSUME TrustInv, NEW r \in Requests, Finish(r)
  PROVE  TrustInv'
  <1>1. /\ request' = [request EXCEPT ![r] = Idle]
        /\ UNCHANGED <<pins, clients, client, message, withdrawn>>
    BY DEF Finish
  <1>2. Idle \in Request
    BY DEF Idle, Request
  <1>3. \A q \in Requests : request'[q] = IF q = r THEN Idle ELSE request[q]
    BY <1>1 DEF TrustInv, TypeOK
  <1>4. TypeOK'
    BY <1>1, <1>2, <1>3 DEF TrustInv, TypeOK, Busy, Idle
  <1>5. PinInv' /\ CacheInv'
    BY <1>1 DEF TrustInv, PinInv, CacheInv
  <1>6. Idle.pc = "idle" /\ Idle.client = None
    BY DEF Idle
  <1>7. BannedInv'
    BY <1>1, <1>3, <1>6 DEF TrustInv, BannedInv, Busy
  <1>8. FreshInv'
    <2>1. \A q \in Requests : request[q].pc = "insert" => request[q].client # None
      BY DEF TrustInv, TypeOK
    <2> QED
      BY <1>1, <1>3, <1>6, <2>1 DEF TrustInv, FreshInv
  <1>9. HeldInv'
    BY <1>1, <1>3, <1>6 DEF TrustInv, HeldInv
  <1> QED
    BY <1>4, <1>5, <1>7, <1>8, <1>9 DEF TrustInv

LEMMA SetPinStep ==
  ASSUME TrustInv, NEW m \in Messages, NEW h \in Hosts, NEW c \in Certs \cup {None},
         SetPin(m, h, c)
  PROVE  TrustInv'
  <1>1. /\ pins' = [pins EXCEPT ![h] = c]
        /\ withdrawn' = [withdrawn EXCEPT ![h] = @ \ {c}]
        /\ UNCHANGED <<clients, client>>
    BY DEF SetPin
  <1>2. /\ request' \in [Requests -> Request]
        /\ \A q \in Requests :
             /\ request'[q].pc = request[q].pc /\ request'[q].cluster = request[q].cluster
             /\ request'[q].host = request[q].host /\ request'[q].client = request[q].client
             /\ request'[q].over = request[q].over
             /\ request'[q].banned = IF request[q].host = h THEN request[q].banned \ {c}
                                     ELSE request[q].banned
    BY DEF SetPin, TrustInv, TypeOK, Request
  <1>3. /\ message' \in [Messages -> Message]
        /\ \A n \in Messages : n # m =>
             /\ message'[n].host = message[n].host
             /\ message'[n].was = IF message[n].host = h THEN message[n].was \ {c}
                                  ELSE message[n].was
        /\ message'[m].host = h
        /\ message'[m].was = {pins[h]} \ {c, None}
    BY DEF SetPin, Drops, TrustInv, TypeOK, Message
  <1>4. /\ withdrawn' \in [Hosts -> SUBSET Certs] /\ pins' \in [Hosts -> Certs \cup {None}]
        /\ \A g \in Hosts : /\ withdrawn'[g] = IF g = h THEN withdrawn[g] \ {c} ELSE withdrawn[g]
                            /\ pins'[g] = IF g = h THEN c ELSE pins[g]
    BY <1>1 DEF TrustInv, TypeOK
  <1>5. TypeOK'
    <2>1. \A r \in Requests :
            /\ Busy(r)' => request'[r].cluster # None /\ request'[r].host # None
            /\ request'[r].pc \in {"insert", "send", "sent"} <=> request'[r].client # None
            /\ request'[r].pc = "sent" <=> request'[r].over # None
      <3>1. \A r \in Requests :
              /\ Busy(r) => request[r].cluster # None /\ request[r].host # None
              /\ request[r].pc \in {"insert", "send", "sent"} <=> request[r].client # None
              /\ request[r].pc = "sent" <=> request[r].over # None
        BY DEF TrustInv, TypeOK
      <3> QED
        BY <1>2, <3>1 DEF Busy
    <2>2. \A n \in Messages : message'[n].host = None => message'[n].was = {}
      <3> SUFFICES ASSUME NEW n \in Messages, message'[n].host = None PROVE message'[n].was = {}
        OBVIOUS
      <3>1. n # m
        BY <1>3, TrustAssumption
      <3>2. message[n].host = None /\ message[n].was = {} /\ message[n].host # h
        BY <1>3, <3>1, TrustAssumption DEF TrustInv, TypeOK
      <3> QED
        BY <1>3, <3>1, <3>2
    <2>3. clients' \in [Clusters -> Clients \cup {None}] /\ client' \in [Clients -> Client]
      BY <1>1 DEF TrustInv, TypeOK
    <2> QED
      BY <1>2, <1>3, <1>4, <2>1, <2>2, <2>3 DEF TypeOK
  <1>6. PinInv'
    <2>1. \A g \in Hosts : pins'[g] \notin withdrawn'[g]
      BY <1>4 DEF TrustInv, PinInv
    <2>2. ASSUME NEW n \in Messages, message'[n].host # None
          PROVE  pins'[message'[n].host] \notin message'[n].was
      <3>1. CASE n = m
        <4>1. pins'[h] = c
          BY <1>4
        <4> QED
          BY <1>3, <3>1, <4>1
      <3>2. CASE n # m /\ message[n].host = h
        <4>1. pins'[h] = c /\ message'[n].host = h /\ message'[n].was = message[n].was \ {c}
          BY <1>3, <1>4, <3>2
        <4> QED
          BY <4>1
      <3>3. CASE n # m /\ message[n].host # h
        <4>1. message'[n].host = message[n].host /\ message'[n].was = message[n].was
          BY <1>3, <3>3
        <4>2. message[n].host \in Hosts
          BY <2>2, <4>1 DEF TrustInv, TypeOK, Message
        <4>3. pins'[message[n].host] = pins[message[n].host]
          BY <1>4, <3>3, <4>2
        <4> QED
          BY <2>2, <4>1, <4>3 DEF TrustInv, PinInv
      <3> QED
        BY <3>1, <3>2, <3>3
    <2> QED
      BY <2>1, <2>2 DEF PinInv
  <1>7. BannedInv'
    <2> SUFFICES ASSUME NEW q \in Requests, Busy(q)'
                 PROVE  request'[q].banned \subseteq withdrawn'[request'[q].host]
      BY DEF BannedInv
    <2>1. Busy(q) /\ request[q].host \in Hosts
      <3>1. Busy(q)
        BY <1>2 DEF Busy
      <3>2. request[q] \in Request /\ request[q].host # None
        BY <3>1 DEF TrustInv, TypeOK
      <3> QED
        BY <3>1, <3>2 DEF Request
    <2>2. request[q].banned \subseteq withdrawn[request[q].host]
      BY <2>1 DEF TrustInv, BannedInv
    <2>3. CASE request[q].host = h
      BY <1>2, <1>4, <2>2, <2>3
    <2>4. CASE request[q].host # h
      <3>1. request'[q].banned = request[q].banned /\ request'[q].host = request[q].host
        BY <1>2, <2>4
      <3>2. withdrawn'[request[q].host] = withdrawn[request[q].host]
        BY <1>4, <2>1, <2>4
      <3> QED
        BY <2>2, <3>1, <3>2
    <2> QED
      BY <2>3, <2>4
  <1>8. CacheInv'
    <2> SUFFICES ASSUME NEW k \in Clusters, clients[k] # None
                 PROVE  /\ client[clients[k]].host # None
                        /\ client[clients[k]].accepted
                              \cap withdrawn'[client[clients[k]].host] = {}
      BY <1>1 DEF CacheInv
    <2>1. client[clients[k]].host \in Hosts
      BY DEF TrustInv, TypeOK, CacheInv, Client
    <2>2. withdrawn'[client[clients[k]].host] \subseteq withdrawn[client[clients[k]].host]
      BY <1>4, <2>1
    <2> QED
      BY <2>2 DEF TrustInv, CacheInv
  <1>9. FreshInv' /\ HeldInv'
    <2>1. \A q \in Requests :
            /\ request'[q].pc = request[q].pc /\ request'[q].client = request[q].client
            /\ request'[q].host = request[q].host /\ request'[q].over = request[q].over
            /\ request'[q].banned \subseteq request[q].banned
      BY <1>2
    <2>2. clients' = clients /\ client' = client
      BY <1>1
    <2>3. FreshInv'
      BY <2>1, <2>2 DEF TrustInv, FreshInv
    <2>4. HeldInv'
      <3> SUFFICES ASSUME NEW q \in Requests, request[q].client # None
                   PROVE  /\ client[request[q].client].host = request[q].host
                          /\ client[request[q].client].accepted \cap request'[q].banned = {}
                          /\ request[q].over \notin request'[q].banned
        BY <2>1, <2>2 DEF HeldInv
      <3> QED
        BY <2>1 DEF TrustInv, HeldInv
    <2> QED
      BY <2>3, <2>4
  <1> QED
    BY <1>5, <1>6, <1>7, <1>8, <1>9 DEF TrustInv

LEMMA ForgetStep ==
  ASSUME TrustInv, NEW m \in Messages, ForgetClients(m)
  PROVE  TrustInv'
  <1> DEFINE h == message[m].host
  <1>1. h \in Hosts /\ message[m].was \subseteq Certs
    BY DEF ForgetClients, TrustInv, TypeOK, Message, NoMessage
  <1>2. /\ clients' = [k \in Clusters |-> None]
        /\ withdrawn' = [withdrawn EXCEPT ![h] = @ \cup message[m].was]
        /\ message' = [message EXCEPT ![m] = NoMessage]
        /\ UNCHANGED <<pins, client, request>>
    BY DEF ForgetClients
  <1>3. /\ withdrawn' \in [Hosts -> SUBSET Certs]
        /\ \A g \in Hosts : withdrawn'[g] = IF g = h THEN withdrawn[g] \cup message[m].was
                                            ELSE withdrawn[g]
    BY <1>1, <1>2 DEF TrustInv, TypeOK
  <1>4. /\ message' \in [Messages -> Message]
        /\ \A n \in Messages : message'[n] = IF n = m THEN NoMessage ELSE message[n]
    BY <1>2 DEF TrustInv, TypeOK, Message, NoMessage
  <1>5. TypeOK'
    BY <1>2, <1>3, <1>4 DEF TrustInv, TypeOK, NoMessage, Busy
  <1>6. PinInv'
    BY <1>1, <1>2, <1>3, <1>4 DEF TrustInv, TypeOK, PinInv, NoMessage
  <1>7. BannedInv'
    BY <1>2, <1>3, TrustAssumption DEF TrustInv, TypeOK, BannedInv, Busy, Request
  <1>8. CacheInv'
    BY <1>2 DEF CacheInv
  <1>9. FreshInv' /\ HeldInv'
    BY <1>2, TrustAssumption DEF TrustInv, TypeOK, FreshInv, HeldInv, Request
  <1> QED
    BY <1>5, <1>6, <1>7, <1>8, <1>9 DEF TrustInv

LEMMA TrustStep == TrustInv /\ [Next]_vars => TrustInv'
  <1> SUFFICES ASSUME TrustInv, [Next]_vars PROVE TrustInv'
    OBVIOUS
  <1>1. ASSUME NEW r \in Requests, Ask(r) PROVE TrustInv'
    BY <1>1, StartStep, HitStep, BuildStep, InsertStep, ReuseStep, HandshakeStep, FinishStep
    DEF Ask
  <1>2. ASSUME NEW m \in Messages, Decide(m) PROVE TrustInv'
    BY <1>2, SetPinStep, ForgetStep DEF Decide, TrustCert, UntrustCert
  <1>3. CASE ForgetForAnotherReason
    <2>1. /\ clients' = [k \in Clusters |-> None]
          /\ UNCHANGED <<pins, client, request, message, withdrawn>>
      BY <1>3 DEF ForgetForAnotherReason
    <2>2. TypeOK' /\ PinInv' /\ BannedInv'
      BY <2>1 DEF TrustInv, TypeOK, PinInv, BannedInv, Busy
    <2>3. CacheInv' /\ HeldInv'
      BY <2>1 DEF TrustInv, CacheInv, HeldInv
    <2>4. FreshInv'
      <3>1. \A q \in Requests : request[q].pc = "insert" => request[q].client # None
        BY DEF TrustInv, TypeOK
      <3> QED
        BY <2>1, <3>1 DEF TrustInv, FreshInv
    <2> QED
      BY <2>2, <2>3, <2>4 DEF TrustInv
  <1>4. CASE UNCHANGED vars
    <2>1. TypeOK' /\ PinInv' /\ BannedInv'
      BY <1>4 DEF vars, TrustInv, TypeOK, PinInv, BannedInv, Busy
    <2>2. CacheInv' /\ FreshInv' /\ HeldInv'
      BY <1>4 DEF vars, TrustInv, CacheInv, FreshInv, HeldInv
    <2> QED
      BY <2>1, <2>2 DEF TrustInv
  <1> QED
    BY <1>1, <1>2, <1>3, <1>4 DEF Next

LEMMA TrustInvHolds == Spec => []TrustInv
  BY InitTrustInv, TrustStep, PTL DEF Spec

-----------------------------------------------------------------------------
(* Trust: every variable keeps its shape.                                  *)
THEOREM TrustTypeCorrect == Spec => []TypeOK
  <1>1. TrustInv => TypeOK
    BY DEF TrustInv
  <1> QED
    BY TrustInvHolds, <1>1, PTL

(* The order "drop the pin, then every client" is enough: no request that  *)
(* begins after trust was withdrawn goes out under it.  (TRUST_CERT,       *)
(* UNTRUST_CERT, client_for, verify_server_cert.)                          *)
THEOREM WithdrawnTrustIsNotUsed == Spec => []NeverOverWithdrawnTrust
  <1>1. TrustInv => NeverOverWithdrawnTrust
    BY DEF TrustInv, TypeOK, HeldInv, NeverOverWithdrawnTrust
  <1> QED
    BY TrustInvHolds, <1>1, PTL

(* The signature kept with a cached client is enough: a request goes out   *)
(* over a client whose verifier asks for the pin of the request's host.    *)
THEOREM PinsAreOfTheRightHost == Spec => []SentToItsOwnHost
  <1>1. TrustInv => SentToItsOwnHost
    BY DEF TrustInv, TypeOK, HeldInv, SentToItsOwnHost
  <1> QED
    BY TrustInvHolds, <1>1, PTL

=============================================================================
