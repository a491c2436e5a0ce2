------------------------------- MODULE Tunnel -------------------------------
(***************************************************************************)
(* One SSH tunnel: the session that every SOCKS connection shares, the     *)
(* mutex of its handle, the back-off after a failure, and the messages     *)
(* that give and withdraw trust in the jump host's key (ssh.rs, socks.rs,  *)
(* and TUNNEL_RECONNECT, TRUST_HOSTKEY, UNTRUST_HOSTKEY of bridge.rs).     *)
(*                                                                         *)
(* An opener is one SOCKS connection being served.  The mutex is held for  *)
(* the whole of a connection attempt; the state, the time of the next      *)
(* attempt and the dropped flag have locks of their own, and the messages  *)
(* write them without the mutex.  One flag serves every session the tunnel *)
(* ever has, and the callback that sets it may be late.                    *)
(*                                                                         *)
(* Time is whether the next attempt lies in the future.                    *)
(***************************************************************************)
CONSTANTS
  Keys,       \* host keys the jump host may offer
  Openers,    \* SOCKS connections served at the same time
  Messages,   \* trust and reconnect messages in progress
  Sessions,   \* SSH sessions that exist at the same time
  None

ASSUME TunnelAssumption == None \notin Keys \cup Openers \cup Sessions

VARIABLES
  pin,        \* PinStore.hostkey_pin of this jump host
  offered,    \* Tunnel.offered: the key of the last handshake
  slot,       \* Tunnel.handle
  lock,       \* who holds the mutex of the handle across an await
  state,      \* Tunnel.state
  backing,    \* next_attempt lies in the future
  dropped,    \* Tunnel.dropped
  session, opener, message,
  history

vars == <<pin, offered, slot, lock, state, backing, dropped, session, opener,
          message, history>>
tunnel == <<pin, offered, slot, lock, state, backing, dropped>>

\* "closed": is_closed() holds and the callback is still to come.  The key is
\* kept while the session is up.
Session == [key : Keys \cup {None}, status : {"up", "ending", "closed", "gone"}]

Opener == [pc : {"idle", "session", "connect", "checked", "refused", "channel",
                 "discard", "flag"},
           session : Sessions \cup {None}, attempt : {0, 1},
           late : BOOLEAN]        \* history: its key was pinned after its refusal
Idle == [pc |-> "idle", session |-> None, attempt |-> 0, late |-> FALSE]

Connecting == {"connect", "checked", "refused"}

\* want: the key TRUST_HOSTKEY read; was: the pin UNTRUST_HOSTKEY removed.
Message == [pc : {"idle", "pin", "close", "settle", "wait", "state"},
            want : Keys \cup {None}, was : SUBSET Keys]
NoMessage == [pc |-> "idle", want |-> None, was |-> {}]

(* withdrawn: keys whose UNTRUST was answered, not trusted again since     *)
(* orphans:   sessions that are up and that an opener threw away           *)
(* blame:     a callback or an opener raised the flag since the last       *)
(*            session was made                                             *)
(* lifted:    a message wrote the state during the wait in force           *)
(* cause:     the key whose refusal began that wait; late: the key was     *)
(*            pinned between the refusal and the failure                   *)
History == [withdrawn : SUBSET Keys, orphans : SUBSET Sessions, blame : BOOLEAN,
            lifted : BOOLEAN, cause : Keys \cup {None}, late : BOOLEAN]

\* The mutex is held during an attempt, a session in or after one.
Holds(o) == /\ lock = o <=> opener[o].pc \in Connecting
            /\ opener[o].session = None <=> opener[o].pc \in {"idle", "session", "flag"}

\* The types of the state, and who holds the mutex and a session when.
TypeOK ==
  /\ pin \in Keys \cup {None} /\ offered \in Keys \cup {None}
  /\ slot \in Sessions \cup {None}
  /\ lock \in Openers \cup {None}
  /\ state \in {"idle", "connecting", "up", "down"}
  /\ backing \in BOOLEAN /\ dropped \in BOOLEAN
  /\ session \in [Sessions -> Session]
  /\ opener \in [Openers -> Opener]
  /\ message \in [Messages -> Message]
  /\ history \in History
  /\ \A o \in Openers : Holds(o)

Init ==
  /\ pin \in Keys \cup {None}
  /\ offered = None /\ slot = None /\ lock = None
  /\ state = "idle" /\ backing = FALSE /\ dropped = FALSE
  /\ session = [s \in Sessions |-> [key |-> None, status |-> "gone"]]
  /\ opener = [o \in Openers |-> Idle]
  /\ message = [m \in Messages |-> NoMessage]
  /\ history = [withdrawn |-> {}, orphans |-> {}, blame |-> FALSE,
                lifted |-> FALSE, cause |-> None, late |-> FALSE]

(***************************************************************************)
(* session(): reuse the live session, or make one.                         *)
(***************************************************************************)
Free(s) == session[s].status = "gone" /\ \A o \in Openers : opener[o].session # s

Closed(s) == session[s].status \in {"closed", "gone"}
Usable == slot # None /\ ~Closed(slot) /\ ~dropped
Live == {s \in Sessions : s = slot /\ session[s].status = "up"}

\* A connection accepted by the SOCKS listener, its request read.
Ask(o) ==
  /\ opener[o].pc = "idle"
  /\ opener' = [opener EXCEPT ![o].pc = "session"]
  /\ UNCHANGED <<tunnel, session, message, history>>

Reuse(o) ==
  /\ opener[o].pc = "session" /\ lock = None
  /\ Usable
  /\ opener' = [opener EXCEPT ![o].pc = "channel", ![o].session = slot]
  /\ UNCHANGED <<tunnel, session, message, history>>

\* A failure is waited out only while the state still says so.
Waiting == backing /\ state = "down"

Refused(o) ==
  /\ opener[o].pc = "session" /\ lock = None
  /\ ~Usable /\ Waiting
  /\ slot' = None
  /\ opener' = [opener EXCEPT ![o] = Idle]
  /\ history' = [history EXCEPT !.orphans = @ \cup Live]
  /\ UNCHANGED <<pin, offered, lock, state, backing, dropped, session, message>>

Connect(o, s) ==
  /\ opener[o].pc = "session" /\ lock = None
  /\ ~Usable /\ ~Waiting
  /\ Free(s)
  /\ slot' = None /\ lock' = o /\ state' = "connecting"
  /\ opener' = [opener EXCEPT ![o].pc = "connect", ![o].session = s]
  /\ history' = [history EXCEPT !.orphans = @ \cup Live]
  /\ UNCHANGED <<pin, offered, backing, dropped, session, message>>

\* check_server_key: the pin is read now.
KeyChecked(o, k) ==
  /\ opener[o].pc = "connect"
  /\ offered' = k
  /\ session' = [session EXCEPT ![opener[o].session] = [key |-> k, status |-> "up"]]
  /\ opener' = [opener EXCEPT ![o].pc = IF pin = k THEN "checked" ELSE "refused"]
  /\ UNCHANGED <<pin, slot, lock, state, backing, dropped, message, history>>

\* Mutant of Connected: the flag is still what the last session left.
ConnectedStaleFlag(o) ==
  /\ opener[o].pc = "checked"
  /\ slot' = opener[o].session /\ lock' = None /\ state' = "up"
  /\ opener' = [opener EXCEPT ![o].pc = "channel"]
  /\ history' = [history EXCEPT !.blame = FALSE]
  /\ UNCHANGED <<pin, offered, backing, dropped, session, message>>

\* Authenticated.  The session may have ended meanwhile.
Connected(o) ==
  /\ opener[o].pc = "checked"
  /\ slot' = opener[o].session /\ lock' = None /\ state' = "up"
  /\ dropped' = FALSE
  /\ opener' = [opener EXCEPT ![o].pc = "channel"]
  /\ history' = [history EXCEPT !.blame = FALSE]
  /\ UNCHANGED <<pin, offered, backing, session, message>>

\* What is left of a session that is disconnected or let go.
Left(s) == IF session[s].status = "up" THEN [key |-> None, status |-> "ending"]
           ELSE session[s]

\* Mutant of Failed: the time of the next attempt is set, the state is not.
FailedStateless(o) ==
  LET s == opener[o].session
  IN /\ opener[o].pc \in Connecting
     /\ session' = [session EXCEPT ![s] = Left(s)]
     /\ backing' = TRUE /\ state' = "idle" /\ lock' = None
     /\ opener' = [opener EXCEPT ![o] = Idle]
     /\ history' = [history EXCEPT !.lifted = FALSE, !.cause = None, !.late = FALSE]
     /\ UNCHANGED <<pin, offered, slot, dropped, message>>

\* No connection, a timeout, a key that is not the pinned one, no authentication.
Failed(o) ==
  LET s == opener[o].session
  IN /\ opener[o].pc \in Connecting
     /\ \/ session' = [session EXCEPT ![s] = Left(s)]
        \/ /\ opener[o].pc = "connect"
           /\ session' = [session EXCEPT ![s].status = "closed"]
     /\ backing' = TRUE /\ state' = "down" /\ lock' = None
     /\ opener' = [opener EXCEPT ![o] = Idle]
     /\ history' = [history EXCEPT !.lifted = FALSE, !.late = opener[o].late,
          !.cause = IF opener[o].pc = "refused" THEN offered ELSE None]
     /\ UNCHANGED <<pin, offered, slot, dropped, message>>

(***************************************************************************)
(* open(): a channel over the session, and one more try if it was dead.    *)
(***************************************************************************)
\* The stream is the session's from here on, for as long as that is up.
OpenChannel(o) ==
  /\ opener[o].pc = "channel"
  /\ session[opener[o].session].status = "up"
  /\ opener' = [opener EXCEPT ![o] = Idle]
  /\ UNCHANGED <<tunnel, session, message, history>>

\* The far side refuses, or the session is over; the flag makes it look dead.
ChannelFails(o) ==
  LET s == opener[o].session
  IN /\ opener[o].pc = "channel"
     /\ session[s].status # "ending"
     /\ opener' = [opener EXCEPT ![o] =
          IF (Closed(s) \/ dropped) /\ @.attempt = 0
          THEN [@ EXCEPT !.pc = "discard"] ELSE Idle]
     /\ UNCHANGED <<tunnel, session, message, history>>

\* Mutant of Discard: the loop keeps the dead handle.
DiscardHolding(o) ==
  /\ opener[o].pc = "discard" /\ lock = None
  /\ slot' = None
  /\ opener' = [opener EXCEPT ![o].pc = "flag", ![o].attempt = 1]
  /\ history' = [history EXCEPT !.orphans = @ \cup Live]
  /\ UNCHANGED <<pin, offered, lock, state, backing, dropped, session, message>>

\* Whatever session the handle holds by now, not only the one that failed.
Discard(o) ==
  /\ opener[o].pc = "discard" /\ lock = None
  /\ slot' = None
  /\ opener' = [opener EXCEPT ![o].pc = "flag", ![o].session = None, ![o].attempt = 1]
  /\ history' = [history EXCEPT !.orphans = @ \cup Live]
  /\ UNCHANGED <<pin, offered, lock, state, backing, dropped, session, message>>

Flag(o) ==
  /\ opener[o].pc = "flag"
  /\ dropped' = TRUE
  /\ opener' = [opener EXCEPT ![o].pc = "session"]
  /\ history' = [history EXCEPT !.blame = TRUE]
  /\ UNCHANGED <<pin, offered, slot, lock, state, backing, session, message>>

(***************************************************************************)
(* The SSH library's task for a session, and the clock.                    *)
(***************************************************************************)
Ends(s) ==
  /\ session[s].status \in {"up", "ending"}
  /\ session' = [session EXCEPT ![s] = [key |-> None, status |-> "closed"]]
  /\ history' = [history EXCEPT !.orphans = @ \ {s}]
  /\ UNCHANGED <<tunnel, opener, message>>

Disconnected(s) ==
  /\ session[s].status = "closed"
  /\ session' = [session EXCEPT ![s].status = "gone"]
  /\ dropped' = TRUE
  /\ history' = [history EXCEPT !.blame = TRUE]
  /\ UNCHANGED <<pin, offered, slot, lock, state, backing, opener, message>>

NoWait == [history EXCEPT !.lifted = FALSE, !.cause = None, !.late = FALSE]

WaitOver ==
  /\ backing
  /\ backing' = FALSE
  /\ history' = NoWait
  /\ UNCHANGED <<pin, offered, slot, lock, state, dropped, session, opener, message>>

(***************************************************************************)
(* TRUST_HOSTKEY: read the key offered, pin it, reset the back-off.        *)
(* UNTRUST_HOSTKEY: remove the pin, close the tunnel, reset the back-off.  *)
(* TUNNEL_RECONNECT: the last two.                                         *)
(***************************************************************************)
ReadOffered(m) ==
  /\ message[m] = NoMessage /\ offered # None
  /\ message' = [message EXCEPT ![m].pc = "pin", ![m].want = offered]
  /\ UNCHANGED <<tunnel, session, opener, history>>

\* Mutant of SetPin: the back-off is left as it is.
SetPinNoReset(m) ==
  /\ message[m].pc = "pin"
  /\ pin' = message[m].want
  /\ message' = [message EXCEPT ![m] = NoMessage]
  /\ history' = [history EXCEPT !.withdrawn = @ \ {message[m].want}]
  /\ UNCHANGED <<offered, slot, lock, state, backing, dropped, session, opener>>

SetPin(m) ==
  LET k == message[m].want
  IN /\ message[m].pc = "pin"
     /\ pin' = k
     /\ message' = [n \in Messages |->
          IF n = m THEN [NoMessage EXCEPT !.pc = "wait"]
          ELSE [message[n] EXCEPT !.was = @ \ {k}]]
     /\ opener' = [o \in Openers |->
          [opener[o] EXCEPT !.late = @ \/ (opener[o].pc = "refused" /\ offered = k)]]
     /\ history' = [history EXCEPT !.withdrawn = @ \ {k}]
     /\ UNCHANGED <<offered, slot, lock, state, backing, dropped, session>>

Untrust(m) ==
  /\ message[m] = NoMessage
  /\ pin' = None
  /\ message' = [message EXCEPT ![m].pc = "close", ![m].was = {pin} \ {None}]
  /\ UNCHANGED <<offered, slot, lock, state, backing, dropped, session, opener, history>>

Reconnect(m) ==
  /\ message[m] = NoMessage
  /\ message' = [message EXCEPT ![m].pc = "close"]
  /\ UNCHANGED <<tunnel, session, opener, history>>

\* Mutant of Close: it does not wait for a connection attempt to end.
CloseAtOnce(m) ==
  /\ message[m].pc = "close"
  /\ slot' = None
  /\ session' = [s \in Sessions |-> IF s = slot THEN Left(s) ELSE session[s]]
  /\ message' = [message EXCEPT ![m].pc = "settle"]
  /\ UNCHANGED <<pin, offered, lock, state, backing, dropped, opener, history>>

\* close(), under the mutex: it waits for a connection attempt to end.
Close(m) ==
  /\ message[m].pc = "close" /\ lock = None
  /\ slot' = None
  /\ session' = [s \in Sessions |-> IF s = slot THEN Left(s) ELSE session[s]]
  /\ message' = [message EXCEPT ![m].pc = "settle"]
  /\ UNCHANGED <<pin, offered, lock, state, backing, dropped, opener, history>>

\* The rest of close(), after the mutex is gone.
SetIdle(m) ==
  /\ message[m].pc = "settle"
  /\ state' = "idle"
  /\ message' = [message EXCEPT ![m].pc = "wait"]
  /\ history' = [history EXCEPT !.lifted = backing]
  /\ UNCHANGED <<pin, offered, slot, lock, backing, dropped, session, opener>>

ResetWait(m) ==
  /\ message[m].pc = "wait"
  /\ backing' = FALSE
  /\ message' = [message EXCEPT ![m].pc = "state"]
  /\ history' = NoWait
  /\ UNCHANGED <<pin, offered, slot, lock, state, dropped, session, opener>>

\* The message is answered.
ResetState(m) ==
  /\ message[m].pc = "state"
  /\ state' = IF state = "down" THEN "idle" ELSE state
  /\ message' = [message EXCEPT ![m] = NoMessage]
  /\ history' = [history EXCEPT !.lifted = @ \/ Waiting, !.withdrawn = @ \cup message[m].was]
  /\ UNCHANGED <<pin, offered, slot, lock, backing, dropped, session, opener>>

-----------------------------------------------------------------------------
Open(o) == \/ Ask(o) \/ Reuse(o) \/ Refused(o)
           \/ \E s \in Sessions : Connect(o, s)
           \/ \E k \in Keys : KeyChecked(o, k)
           \/ Connected(o) \/ Failed(o)
           \/ OpenChannel(o) \/ ChannelFails(o) \/ Discard(o) \/ Flag(o)

Decide(m) == \/ ReadOffered(m) \/ SetPin(m) \/ Untrust(m) \/ Reconnect(m)
             \/ Close(m) \/ SetIdle(m) \/ ResetWait(m) \/ ResetState(m)

Next == \/ \E o \in Openers : Open(o)
        \/ \E m \in Messages : Decide(m)
        \/ \E s \in Sessions : Ends(s) \/ Disconnected(s)
        \/ WaitOver

Spec == Init /\ [][Next]_vars

-----------------------------------------------------------------------------
(* Once UNTRUST_HOSTKEY is answered, no session made under the withdrawn   *)
(* key is handed out any more, and none stays up, whatever attempts had    *)
(* passed the check of the key when the pin went, and whatever streams use *)
(* it.  Two excuses: an attempt just refused still has its connection, and *)
(* close() does not know a live session that an opener threw away before   *)
(* (for a late callback, or in its Discard).                               *)
UntrustEndsSessions ==
  \A s \in Sessions :
    session[s].status = "up" /\ session[s].key \in history.withdrawn =>
      /\ slot # s
      /\ \/ s \in history.orphans
         \/ \E o \in Openers : opener[o].session = s /\ opener[o].pc = "refused"

(* A trust decision is not undone by the wait it was to lift: once         *)
(* TRUST_HOSTKEY has reset the back-off, the tunnel does not wait out a    *)
(* refusal of the very key that is pinned, unless the attempt that was     *)
(* refused was still in progress when the key was pinned.                  *)
(* ("Forget the back-off so the next request tries immediately (after a    *)
(* trust decision).")                                                      *)
TrustLiftsBackoff ==
  Waiting /\ pin # None /\ history.cause = pin /\ (\A m \in Messages : message[m].pc # "wait")
    => history.late

(* No attempt begins while a failure is waited out, unless an operator's   *)
(* message wrote the state since: the state and the time of the next       *)
(* attempt have a lock each and are written in different orders.           *)
(* ("so forty clusters do not hammer a dead jump host")                    *)
BackoffIsRespected ==
  [][\A o \in Openers :
       opener[o].pc = "session" /\ opener'[o].pc = "connect" /\ backing => history.lifted]_vars

(* session() throws a live session away only if, since that session was    *)
(* made, another one's callback came or an opener raised the flag: one     *)
(* late callback costs one session, not every later one.                   *)
LiveSessionKept ==
  [][\A o \in Openers :
       opener[o].pc = "session" /\ opener'[o].pc # "session" /\ Live # {} /\ slot' # slot
         => history.blame]_vars

=============================================================================
