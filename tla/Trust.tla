-------------------------------- MODULE Trust -------------------------------
(***************************************************************************)
(* Certificate pins, the clients built under them, and the requests sent   *)
(* over those clients: PinStore and PinningVerifier of tls.rs, client_for  *)
(* and request of http.rs, and TRUST_CERT / UNTRUST_CERT of bridge.rs.     *)
(*                                                                         *)
(* A request looks its cluster's client up under the cache's lock, and     *)
(* builds and inserts a new one if there is none for this host; only a     *)
(* handshake reads the pins.  A pooled connection, or a resumed TLS        *)
(* session, is used without asking again, so withdrawing trust means       *)
(* dropping the pin and then every client.                                 *)
(*                                                                         *)
(* Only what a pin decides is here: tls mode "auto" and certificates the   *)
(* system does not vouch for.  A connection is the certificate it was      *)
(* accepted with; the pin file is the subject of StoreFile.                *)
(***************************************************************************)
EXTENDS FiniteSets, TLC

CONSTANTS
  Clusters, Hosts, Certs,
  Clients,    \* HTTP clients that exist at the same time
  Requests,   \* requests in flight at the same time
  Messages,   \* TRUST_CERT and UNTRUST_CERT messages in progress
  None        \* no certificate, no client, no host

ASSUME TrustAssumption == None \notin Clusters \cup Hosts \cup Certs \cup Clients

VARIABLES
  pins,       \* PinStore.data.certs: host -> pinned certificate
  clients,    \* Transport.clients: cluster -> cached client
  client,     \* client -> the host of its verifier, what its connections accepted
  request,
  message,
  withdrawn   \* history: host -> certificates whose trust was withdrawn, by a
              \* message that has been answered, and not given again since

vars == <<pins, clients, client, request, message, withdrawn>>

Client == [host : Hosts \cup {None}, accepted : SUBSET Certs]
Unused == [host |-> None, accepted |-> {}]

\* banned is history: what was withdrawn before the request began.
Request == [pc : {"idle", "lookup", "insert", "send", "sent"},
            cluster : Clusters \cup {None}, host : Hosts \cup {None},
            client : Clients \cup {None}, over : Certs \cup {None},
            banned : SUBSET Certs]
Idle    == [pc |-> "idle", cluster |-> None, host |-> None, client |-> None,
            over |-> None, banned |-> {}]

\* was: the certificate a pin was withdrawn from, until its clients are gone.
Message == [host : Hosts \cup {None}, was : SUBSET Certs]
NoMessage == [host |-> None, was |-> {}]

Busy(r) == request[r].pc # "idle"

\* The types of the state, and what a request holds at which step.
TypeOK ==
  /\ pins \in [Hosts -> Certs \cup {None}]
  /\ clients \in [Clusters -> Clients \cup {None}]
  /\ client \in [Clients -> Client]
  /\ request \in [Requests -> Request]
  /\ \A r \in Requests :
       /\ Busy(r) => request[r].cluster # None /\ request[r].host # None
       /\ request[r].pc \in {"insert", "send", "sent"} <=> request[r].client # None
       /\ request[r].pc = "sent" <=> request[r].over # None
  /\ message \in [Messages -> Message]
  /\ \A m \in Messages : message[m].host = None => message[m].was = {}
  /\ withdrawn \in [Hosts -> SUBSET Certs]

\* The pins are those of the file, whatever an earlier process put there.
Init ==
  /\ pins \in [Hosts -> Certs \cup {None}]
  /\ clients = [k \in Clusters |-> None]
  /\ client = [x \in Clients |-> Unused]
  /\ request = [r \in Requests |-> Idle]
  /\ message = [m \in Messages |-> NoMessage]
  /\ withdrawn = [h \in Hosts |-> {}]

(***************************************************************************)
(* One request.                                                            *)
(***************************************************************************)
Start(r, k, h) ==
  /\ ~Busy(r)
  /\ request' = [request EXCEPT ![r] =
       [pc |-> "lookup", cluster |-> k, host |-> h, client |-> None,
        over |-> None, banned |-> withdrawn[h]]]
  /\ UNCHANGED <<pins, clients, client, message, withdrawn>>

\* Mutant of Signed: any client of the cluster will do.
AnyClient(x, h) == x # None

\* The signature of the cached client: it was built for this host and port.
Signed(x, h) == x # None /\ client[x].host = h

Hit(r) ==
  LET x == clients[request[r].cluster]
  IN /\ request[r].pc = "lookup"
     /\ Signed(x, request[r].host)
     /\ request' = [request EXCEPT ![r].pc = "send", ![r].client = x]
     /\ UNCHANGED <<pins, clients, client, message, withdrawn>>

\* A client of its own, with a verifier for this host and no connection yet.
Build(r, x) ==
  /\ request[r].pc = "lookup"
  /\ ~Signed(clients[request[r].cluster], request[r].host)
  /\ \A k \in Clusters : clients[k] # x
  /\ \A q \in Requests : request[q].client # x
  /\ client' = [client EXCEPT ![x] = [host |-> request[r].host, accepted |-> {}]]
  /\ request' = [request EXCEPT ![r].pc = "insert", ![r].client = x]
  /\ UNCHANGED <<pins, clients, message, withdrawn>>

Insert(r) ==
  /\ request[r].pc = "insert"
  /\ clients' = [clients EXCEPT ![request[r].cluster] = request[r].client]
  /\ request' = [request EXCEPT ![r].pc = "send"]
  /\ UNCHANGED <<pins, client, message, withdrawn>>

\* The credential goes out over an open connection or a resumed session.
Reuse(r, c) ==
  /\ request[r].pc = "send"
  /\ c \in client[request[r].client].accepted
  /\ request' = [request EXCEPT ![r].pc = "sent", ![r].over = c]
  /\ UNCHANGED <<pins, clients, client, message, withdrawn>>

\* verify_server_cert: the verifier asks for its own host, and asks now.
Verified(x, c) == pins[client[x].host] = c

Handshake(r, c) ==
  LET x == request[r].client
  IN /\ request[r].pc = "send"
     /\ Verified(x, c)
     /\ client' = [client EXCEPT ![x].accepted = @ \cup {c}]
     /\ request' = [request EXCEPT ![r].pc = "sent", ![r].over = c]
     /\ UNCHANGED <<pins, clients, message, withdrawn>>

\* Mutant of Finish: a request that ended still holds its client.
FinishHolding(r) ==
  /\ request[r].pc \in {"send", "sent"}
  /\ request' = [request EXCEPT ![r].pc = "idle", ![r].over = None]
  /\ UNCHANGED <<pins, clients, client, message, withdrawn>>

\* An answer, a timeout, or a handshake refused before anything was sent.
Finish(r) ==
  /\ request[r].pc \in {"send", "sent"}
  /\ request' = [request EXCEPT ![r] = Idle]
  /\ UNCHANGED <<pins, clients, client, message, withdrawn>>

(***************************************************************************)
(* Trust given (c is the certificate the operator was shown) or withdrawn  *)
(* (c is None): the pin first, then the clients.                         *)
(***************************************************************************)
Drops(h, c) == {pins[h]} \ {c, None}

\* Mutant of SetPin: the clients first, then the pin.
SetPinLast(m, h, c) ==
  /\ message[m] = NoMessage
  /\ pins' = [pins EXCEPT ![h] = c]
  /\ withdrawn' = [withdrawn EXCEPT ![h] = (@ \cup Drops(h, c)) \ {c}]
  /\ request' = [r \in Requests |->
       IF request[r].host = h THEN [request[r] EXCEPT !.banned = @ \ {c}] ELSE request[r]]
  /\ UNCHANGED <<clients, client, message>>

SetPin(m, h, c) ==
  /\ message[m] = NoMessage
  /\ pins' = [pins EXCEPT ![h] = c]
  /\ message' = [n \in Messages |->
       IF n = m THEN [host |-> h, was |-> Drops(h, c)]
       ELSE IF message[n].host = h THEN [message[n] EXCEPT !.was = @ \ {c}]
       ELSE message[n]]
  /\ withdrawn' = [withdrawn EXCEPT ![h] = @ \ {c}]
  /\ request' = [r \in Requests |->
       IF request[r].host = h THEN [request[r] EXCEPT !.banned = @ \ {c}] ELSE request[r]]
  /\ UNCHANGED <<clients, client>>

TrustCert(m, h)   == \E c \in Certs : SetPin(m, h, c)
UntrustCert(m, h) == SetPin(m, h, None)

ForgetClients(m) ==
  /\ message[m] # NoMessage
  /\ clients' = [k \in Clusters |-> None]
  /\ withdrawn' = [withdrawn EXCEPT ![message[m].host] = @ \cup message[m].was]
  /\ message' = [message EXCEPT ![m] = NoMessage]
  /\ UNCHANGED <<pins, client, request>>

\* PRIME, FORGET and TUNNEL_SECRET drop the clients too.
ForgetForAnotherReason ==
  /\ clients' = [k \in Clusters |-> None]
  /\ UNCHANGED <<pins, client, request, message, withdrawn>>

Ask(r) == \/ \E k \in Clusters, h \in Hosts : Start(r, k, h)
          \/ Hit(r)
          \/ \E x \in Clients : Build(r, x)
          \/ Insert(r)
          \/ \E c \in Certs : Reuse(r, c) \/ Handshake(r, c)
          \/ Finish(r)

Decide(m) == \/ \E h \in Hosts : TrustCert(m, h) \/ UntrustCert(m, h)
             \/ ForgetClients(m)

Next == \/ \E r \in Requests : Ask(r)
        \/ \E m \in Messages : Decide(m)
        \/ ForgetForAnotherReason

Spec == Init /\ [][Next]_vars

-----------------------------------------------------------------------------
(* A request that begins after trust in a certificate was withdrawn is     *)
(* never sent over a connection that was accepted under that trust,        *)
(* whatever older requests were building, inserting or keeping open.       *)
(* ("The app will then accept exactly this certificate for this address,   *)
(* and refuse a different one.")                                           *)
NeverOverWithdrawnTrust ==
  \A r \in Requests : request[r].pc = "sent" => request[r].over \notin request[r].banned

(* A credential for one host never goes over a connection verified for     *)
(* another: the cache is keyed by cluster, and a cluster's URL may change  *)
(* or be overridden by a request.                                          *)
SentToItsOwnHost ==
  \A r \in Requests :
    request[r].pc = "sent" => client[request[r].client].host = request[r].host

\* Hosts, certificates, clients and requests of one kind are alike.
Symmetry == Permutations(Hosts) \cup Permutations(Certs) \cup Permutations(Clients)
              \cup Permutations(Requests)

=============================================================================
