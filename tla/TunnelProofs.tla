---------------------------- MODULE TunnelProofs ----------------------------
(***************************************************************************)
(* Proofs about Tunnel, for any number of keys, openers, sessions and      *)
(* messages in progress.                                                   *)
(***************************************************************************)
EXTENDS Tunnel, TLAPS

\* Withdrawn, or about to be: the tunnel has been closed since the pin went.
Settled(k) ==
  \/ k \in history.withdrawn
  \/ \E m \in Messages : message[m].pc \in {"settle", "wait", "state"} /\ k \in message[m].was

Up(s) == session[s].status = "up"

\* A pin in force is not withdrawn, nor about to be counted as withdrawn.
PinInv == pin \notin history.withdrawn /\ \A m \in Messages : pin \notin message[m].was

\* During a connection attempt the handle is empty and nothing is waited out.
LockInv == lock # None => slot = None /\ state # "down"

\* Whose a session is that is up.
KnownInv ==
  \A s \in Sessions : Up(s) =>
    \/ s = slot
    \/ s \in history.orphans
    \/ \E o \in Openers : opener[o].session = s /\ opener[o].pc \in {"checked", "refused"}

\* What is, or will be, handed out.
SlotInv    == slot # None /\ Up(slot) => ~Settled(session[slot].key)
CheckedInv == \A o \in Openers : opener[o].pc = "checked" /\ Up(opener[o].session)
                => ~Settled(session[opener[o].session].key)

\* The back-off and the reasons the history gives for what is done about it.
BackoffInv == backing => state = "down" \/ history.lifted
RefusalInv == \A o \in Openers :
                opener[o].pc = "refused" /\ pin # None /\ offered = pin => opener[o].late
FlagInv    == dropped => history.blame

SafetyInv == /\ PinInv /\ LockInv /\ KnownInv /\ SlotInv /\ CheckedInv
             /\ BackoffInv /\ RefusalInv /\ TrustLiftsBackoff /\ FlagInv

TunnelInv == TypeOK /\ SafetyInv

-----------------------------------------------------------------------------
LEMMA InitTunnelInv == Init => TunnelInv
  <1> SUFFICES ASSUME Init PROVE TunnelInv
    OBVIOUS
  <1>1. session \in [Sessions -> Session] /\ history \in History
    BY DEF Init, Session, History
  <1>2. opener \in [Openers -> Opener] /\ message \in [Messages -> Message]
    BY DEF Init, Opener, Idle, Message, NoMessage
  <1>3. \A o \in Openers : /\ opener[o].pc = "idle" /\ opener[o].session = None
                            /\ lock # o
    BY TunnelAssumption DEF Init, Idle
  <1>4. TypeOK
    BY <1>1, <1>2, <1>3 DEF Init, TypeOK, Holds, Connecting
  <1>5. \A s \in Sessions : ~Up(s)
    BY DEF Init, Up
  <1>6. PinInv /\ LockInv /\ FlagInv
    BY DEF Init, PinInv, LockInv, FlagInv, NoMessage
  <1>7. KnownInv /\ SlotInv /\ CheckedInv
    BY <1>3, <1>5 DEF Init, KnownInv, SlotInv, CheckedInv
  <1>8. BackoffInv /\ RefusalInv /\ TrustLiftsBackoff
    BY <1>3 DEF Init, BackoffInv, RefusalInv, TrustLiftsBackoff, Waiting
  <1> QED
    BY <1>4, <1>6, <1>7, <1>8 DEF TunnelInv, SafetyInv

-----------------------------------------------------------------------------
(* Steps of an opener.                                                     *)

\* One opener moves, outside a connection attempt, and nothing else does.
LEMMA QuietStep ==
  ASSUME TunnelInv, NEW o \in Openers, NEW r \in Opener,
         opener[o].pc \notin Connecting, r.pc \notin Connecting,
         r.session = None <=> r.pc \in {"idle", "session", "flag"},
         opener' = [opener EXCEPT ![o] = r],
         UNCHANGED <<tunnel, session, message, history>>
  PROVE  TunnelInv'
  <1>1. /\ opener' \in [Openers -> Opener]
        /\ \A p \in Openers : opener'[p] = IF p = o THEN r ELSE opener[p]
    BY DEF TunnelInv, TypeOK
  <1>2. UNCHANGED <<pin, offered, slot, lock, state, backing, dropped, session, message, history>>
    BY DEF tunnel
  <1>3. TypeOK'
    <2>1. \A p \in Openers : Holds(p)'
      BY <1>1, <1>2 DEF TunnelInv, TypeOK, Holds
    <2> QED
      BY <1>1, <1>2, <2>1 DEF TunnelInv, TypeOK
  <1>4. PinInv' /\ LockInv' /\ SlotInv' /\ BackoffInv' /\ FlagInv' /\ TrustLiftsBackoff'
    BY <1>2 DEF TunnelInv, SafetyInv, PinInv, LockInv, SlotInv, BackoffInv, FlagInv,
                TrustLiftsBackoff, Waiting, Settled, Up
  <1>5. KnownInv'
    BY <1>1, <1>2 DEF TunnelInv, SafetyInv, KnownInv, Up, Connecting
  <1>6. CheckedInv' /\ RefusalInv'
    BY <1>1, <1>2 DEF TunnelInv, SafetyInv, CheckedInv, RefusalInv, Settled, Up, Connecting
  <1> QED
    BY <1>3, <1>4, <1>5, <1>6 DEF TunnelInv, SafetyInv

\* The same, and the handle is emptied while nobody holds the mutex.
LEMMA DropStep ==
  ASSUME TunnelInv, NEW o \in Openers, NEW r \in Opener,
         opener[o].pc \notin Connecting, r.pc \notin Connecting,
         r.session = None <=> r.pc \in {"idle", "session", "flag"},
         opener' = [opener EXCEPT ![o] = r],
         lock = None, slot' = None,
         history' = [history EXCEPT !.orphans = @ \cup Live],
         UNCHANGED <<pin, offered, lock, state, backing, dropped, session, message>>
  PROVE  TunnelInv'
  <1>1. /\ opener' \in [Openers -> Opener]
        /\ \A p \in Openers : opener'[p] = IF p = o THEN r ELSE opener[p]
    BY DEF TunnelInv, TypeOK
  <1>2. /\ history' \in History
        /\ history'.orphans = history.orphans \cup Live
        /\ history'.withdrawn = history.withdrawn /\ history'.blame = history.blame
        /\ history'.lifted = history.lifted /\ history'.cause = history.cause
        /\ history'.late = history.late
    BY DEF TunnelInv, TypeOK, History, Live
  <1>3. TypeOK'
    <2>1. \A p \in Openers : Holds(p)'
      BY <1>1 DEF TunnelInv, TypeOK, Holds
    <2> QED
      BY <1>1, <1>2, <2>1 DEF TunnelInv, TypeOK
  <1>4. PinInv' /\ LockInv' /\ SlotInv' /\ BackoffInv' /\ FlagInv' /\ TrustLiftsBackoff'
    BY <1>2 DEF TunnelInv, SafetyInv, PinInv, LockInv, SlotInv, BackoffInv, FlagInv,
                TrustLiftsBackoff, Waiting
  <1>5. KnownInv'
    BY <1>1, <1>2 DEF TunnelInv, SafetyInv, KnownInv, Up, Live, Connecting
  <1>6. CheckedInv' /\ RefusalInv'
    BY <1>1, <1>2 DEF TunnelInv, SafetyInv, CheckedInv, RefusalInv, Settled, Up, Connecting
  <1> QED
    BY <1>3, <1>4, <1>5, <1>6 DEF TunnelInv, SafetyInv

LEMMA FlagStep ==
  ASSUME TunnelInv, NEW o \in Openers, Flag(o)
  PROVE  TunnelInv'
  <1> DEFINE new == [opener[o] EXCEPT !.pc = "session"]
  <1>1. /\ new \in Opener /\ new.pc = "session" /\ new.session = None
        /\ opener[o].pc = "flag"
    BY DEF TunnelInv, TypeOK, Holds, Flag, Opener
  <1>2. /\ opener' = [opener EXCEPT ![o] = new] /\ dropped' = TRUE
        /\ history' = [history EXCEPT !.blame = TRUE]
        /\ UNCHANGED <<pin, offered, slot, lock, state, backing, session, message>>
    BY DEF Flag
  <1> HIDE DEF new
  <1>3. /\ opener' \in [Openers -> Opener]
        /\ \A p \in Openers : opener'[p] = IF p = o THEN new ELSE opener[p]
    BY <1>1, <1>2 DEF TunnelInv, TypeOK
  <1>4. /\ history' \in History /\ history'.blame = TRUE
        /\ history'.orphans = history.orphans
        /\ history'.withdrawn = history.withdrawn
        /\ history'.lifted = history.lifted /\ history'.cause = history.cause
        /\ history'.late = history.late
    BY <1>2 DEF TunnelInv, TypeOK, History
  <1>5. TypeOK'
    <2>1. \A p \in Openers : Holds(p)'
      BY <1>1, <1>2, <1>3 DEF TunnelInv, TypeOK, Holds, Connecting
    <2> QED
      BY <1>2, <1>3, <1>4, <2>1 DEF TunnelInv, TypeOK
  <1>6. PinInv' /\ LockInv' /\ SlotInv' /\ BackoffInv' /\ FlagInv' /\ TrustLiftsBackoff'
    BY <1>2, <1>4 DEF TunnelInv, SafetyInv, PinInv, LockInv, SlotInv, BackoffInv, FlagInv,
                      TrustLiftsBackoff, Waiting, Settled, Up
  <1>7. KnownInv' /\ CheckedInv' /\ RefusalInv'
    BY <1>1, <1>2, <1>3, <1>4
    DEF TunnelInv, SafetyInv, KnownInv, CheckedInv, RefusalInv, Settled, Up
  <1> QED
    BY <1>5, <1>6, <1>7 DEF TunnelInv, SafetyInv

LEMMA ConnectStep ==
  ASSUME TunnelInv, NEW o \in Openers, NEW s \in Sessions, Connect(o, s)
  PROVE  TunnelInv'
  <1> DEFINE new == [opener[o] EXCEPT !.pc = "connect", !.session = s]
  <1>1. new \in Opener /\ new.pc = "connect" /\ new.session = s
    BY DEF TunnelInv, TypeOK, Opener
  <1>2. /\ lock = None /\ ~Waiting
        /\ slot' = None /\ lock' = o /\ state' = "connecting"
        /\ opener' = [opener EXCEPT ![o] = new]
        /\ history' = [history EXCEPT !.orphans = @ \cup Live]
        /\ UNCHANGED <<pin, offered, backing, dropped, session, message>>
    BY DEF Connect
  <1> HIDE DEF new
  <1>3. /\ opener' \in [Openers -> Opener]
        /\ \A p \in Openers : opener'[p] = IF p = o THEN new ELSE opener[p]
    BY <1>1, <1>2 DEF TunnelInv, TypeOK
  <1>4. /\ history' \in History
        /\ history'.orphans = history.orphans \cup Live
        /\ history'.withdrawn = history.withdrawn /\ history'.blame = history.blame
        /\ history'.lifted = history.lifted /\ history'.cause = history.cause
        /\ history'.late = history.late
    BY <1>2 DEF TunnelInv, TypeOK, History, Live
  <1>5. \A p \in Openers : opener[p].pc \notin Connecting
    BY <1>2, TunnelAssumption DEF TunnelInv, TypeOK, Holds
  <1>6. TypeOK'
    <2>1. s # None /\ o # None
      BY TunnelAssumption
    <2>2. \A p \in Openers : Holds(p)'
      BY <1>1, <1>2, <1>3, <1>5, <2>1 DEF TunnelInv, TypeOK, Holds, Connecting
    <2> QED
      BY <1>2, <1>3, <1>4, <2>2 DEF TunnelInv, TypeOK
  <1>7. PinInv' /\ LockInv' /\ SlotInv' /\ FlagInv'
    BY <1>2, <1>4 DEF TunnelInv, SafetyInv, PinInv, LockInv, SlotInv, FlagInv
  <1>8. BackoffInv' /\ TrustLiftsBackoff'
    BY <1>2, <1>4 DEF TunnelInv, SafetyInv, BackoffInv, TrustLiftsBackoff, Waiting
  <1>9. KnownInv'
    BY <1>2, <1>4, <1>5 DEF TunnelInv, SafetyInv, KnownInv, Up, Live, Connecting
  <1>10. CheckedInv' /\ RefusalInv'
    BY <1>1, <1>3, <1>5 DEF CheckedInv, RefusalInv, Connecting
  <1> QED
    BY <1>6, <1>7, <1>8, <1>9, <1>10 DEF TunnelInv, SafetyInv

\* A key that is accepted is the pin, and the pin is not settled.
LEMMA KeyCheckedStep ==
  ASSUME TunnelInv, NEW o \in Openers, NEW k \in Keys, KeyChecked(o, k)
  PROVE  TunnelInv'
  <1> DEFINE new == [opener[o] EXCEPT !.pc = IF pin = k THEN "checked" ELSE "refused"]
             x   == opener[o].session
  <1>1. /\ new \in Opener /\ new.session = x /\ new.late = opener[o].late
        /\ new.pc = IF pin = k THEN "checked" ELSE "refused"
        /\ opener[o].pc = "connect" /\ lock = o
        /\ x \in Sessions
    BY DEF TunnelInv, TypeOK, Holds, KeyChecked, Opener, Connecting
  <1>2. /\ opener' = [opener EXCEPT ![o] = new] /\ offered' = k
        /\ session' = [session EXCEPT ![x] = [key |-> k, status |-> "up"]]
        /\ UNCHANGED <<pin, slot, lock, state, backing, dropped, message, history>>
    BY DEF KeyChecked
  <1> HIDE DEF new, x
  <1>3. /\ opener' \in [Openers -> Opener]
        /\ \A p \in Openers : opener'[p] = IF p = o THEN new ELSE opener[p]
    BY <1>1, <1>2 DEF TunnelInv, TypeOK
  <1>4. /\ session' \in [Sessions -> Session]
        /\ session'[x] = [key |-> k, status |-> "up"]
        /\ \A s \in Sessions \ {x} : session'[s] = session[s]
    BY <1>1, <1>2 DEF TunnelInv, TypeOK, Session
  <1>5. slot = None /\ \A p \in Openers \ {o} : opener[p].pc \notin Connecting
    BY <1>1, TunnelAssumption DEF TunnelInv, TypeOK, Holds, SafetyInv, LockInv
  <1>6. TypeOK'
    <2>1. \A p \in Openers : Holds(p)'
      BY <1>1, <1>2, <1>3, TunnelAssumption DEF TunnelInv, TypeOK, Holds, Connecting
    <2> QED
      BY <1>2, <1>3, <1>4, <2>1 DEF TunnelInv, TypeOK
  <1>7. PinInv' /\ LockInv' /\ SlotInv' /\ FlagInv' /\ BackoffInv' /\ TrustLiftsBackoff'
    BY <1>2, <1>5 DEF TunnelInv, SafetyInv, PinInv, LockInv, SlotInv, FlagInv, BackoffInv,
                      TrustLiftsBackoff, Waiting
  <1>8. KnownInv'
    BY <1>1, <1>2, <1>3, <1>4, <1>5 DEF TunnelInv, SafetyInv, KnownInv, Up, Connecting
  <1>9. CheckedInv'
    <2>1. ASSUME new.pc = "checked" PROVE ~Settled(k)
      BY <1>1, <2>1 DEF TunnelInv, SafetyInv, PinInv, Settled
    <2>2. ~Settled(k) => ~Settled(k)'
      BY <1>2 DEF Settled
    <2> QED
      BY <1>1, <1>3, <1>4, <1>5, <2>1, <2>2 DEF CheckedInv, Connecting, Settled
  <1>10. RefusalInv'
    BY <1>1, <1>2, <1>3, <1>5 DEF RefusalInv, Connecting
  <1> QED
    BY <1>6, <1>7, <1>8, <1>9, <1>10 DEF TunnelInv, SafetyInv

LEMMA ConnectedStep ==
  ASSUME TunnelInv, NEW o \in Openers, Connected(o)
  PROVE  TunnelInv'
  <1> DEFINE new == [opener[o] EXCEPT !.pc = "channel"]
             x   == opener[o].session
  <1>1. /\ new \in Opener /\ new.session = x /\ new.pc = "channel"
        /\ opener[o].pc = "checked" /\ lock = o
        /\ x \in Sessions
    BY DEF TunnelInv, TypeOK, Holds, Connected, Opener, Connecting
  <1>2. /\ opener' = [opener EXCEPT ![o] = new]
        /\ slot' = x /\ lock' = None /\ state' = "up" /\ dropped' = FALSE
        /\ history' = [history EXCEPT !.blame = FALSE]
        /\ UNCHANGED <<pin, offered, backing, session, message>>
    BY DEF Connected
  <1> HIDE DEF new
  <1>3. /\ opener' \in [Openers -> Opener]
        /\ \A p \in Openers : opener'[p] = IF p = o THEN new ELSE opener[p]
    BY <1>1, <1>2 DEF TunnelInv, TypeOK
  <1>4. /\ history' \in History
        /\ history'.orphans = history.orphans
        /\ history'.withdrawn = history.withdrawn
        /\ history'.lifted = history.lifted /\ history'.cause = history.cause
        /\ history'.late = history.late
    BY <1>2 DEF TunnelInv, TypeOK, History
  <1>5. /\ slot = None /\ state # "down"
        /\ \A p \in Openers \ {o} : opener[p].pc \notin Connecting
    BY <1>1, TunnelAssumption DEF TunnelInv, TypeOK, Holds, SafetyInv, LockInv
  <1>6. TypeOK'
    <2>1. \A p \in Openers : Holds(p)'
      BY <1>1, <1>2, <1>3, <1>5, TunnelAssumption DEF TunnelInv, TypeOK, Holds, Connecting
    <2> QED
      BY <1>1, <1>2, <1>3, <1>4, <2>1 DEF TunnelInv, TypeOK
  <1>7. PinInv' /\ LockInv' /\ FlagInv' /\ BackoffInv' /\ TrustLiftsBackoff'
    BY <1>2, <1>4, <1>5 DEF TunnelInv, SafetyInv, PinInv, LockInv, FlagInv, BackoffInv,
                            TrustLiftsBackoff, Waiting
  <1>8. KnownInv'
    BY <1>1, <1>2, <1>3, <1>4, <1>5, TunnelAssumption
    DEF TunnelInv, SafetyInv, KnownInv, Up, Connecting
  <1>9. SlotInv'
    BY <1>1, <1>2, <1>4 DEF TunnelInv, SafetyInv, SlotInv, CheckedInv, Settled, Up
  <1>10. CheckedInv' /\ RefusalInv'
    BY <1>1, <1>3, <1>5 DEF CheckedInv, RefusalInv, Connecting
  <1> QED
    BY <1>6, <1>7, <1>8, <1>9, <1>10 DEF TunnelInv, SafetyInv

LEMMA FailedStep ==
  ASSUME TunnelInv, NEW o \in Openers, Failed(o)
  PROVE  TunnelInv'
  <1> DEFINE x == opener[o].session
  <1>1. /\ opener[o].pc \in Connecting /\ lock = o /\ x \in Sessions
        /\ Idle \in Opener /\ Idle.pc = "idle" /\ Idle.session = None
    BY DEF TunnelInv, TypeOK, Holds, Failed, Opener, Connecting, Idle
  <1>2. /\ opener' = [opener EXCEPT ![o] = Idle]
        /\ backing' = TRUE /\ state' = "down" /\ lock' = None
        /\ history' = [history EXCEPT !.lifted = FALSE, !.late = opener[o].late,
             !.cause = IF opener[o].pc = "refused" THEN offered ELSE None]
        /\ UNCHANGED <<pin, offered, slot, dropped, message>>
    BY DEF Failed
  <1>3. /\ opener' \in [Openers -> Opener]
        /\ \A p \in Openers : opener'[p] = IF p = o THEN Idle ELSE opener[p]
    BY <1>1, <1>2 DEF TunnelInv, TypeOK
  <1>4. /\ session' \in [Sessions -> Session]
        /\ session'[x].status # "up"
        /\ \A s \in Sessions \ {x} : session'[s] = session[s]
    <2>1. ASSUME opener[o].pc = "connect", session' = [session EXCEPT ![x].status = "closed"]
          PROVE  <1>4!1 /\ <1>4!2 /\ <1>4!3
      BY <1>1, <2>1 DEF TunnelInv, TypeOK, Session
    <2>2. ASSUME session' = [session EXCEPT ![x] = Left(x)]
          PROVE  <1>4!1 /\ <1>4!2 /\ <1>4!3
      BY <1>1, <2>2 DEF TunnelInv, TypeOK, Session, Left
    <2> QED
      BY <2>1, <2>2 DEF Failed
  <1>5. /\ history' \in History
        /\ history'.orphans = history.orphans
        /\ history'.withdrawn = history.withdrawn /\ history'.blame = history.blame
        /\ history'.cause = IF opener[o].pc = "refused" THEN offered ELSE None
        /\ history'.late = opener[o].late
    BY <1>2 DEF TunnelInv, TypeOK, History, Opener
  <1>6. slot = None /\ \A p \in Openers \ {o} : opener[p].pc \notin Connecting
    BY <1>1, TunnelAssumption DEF TunnelInv, TypeOK, Holds, SafetyInv, LockInv
  <1>7. TypeOK'
    <2>1. \A p \in Openers : Holds(p)'
      BY <1>1, <1>2, <1>3, <1>6, TunnelAssumption DEF TunnelInv, TypeOK, Holds, Connecting
    <2> QED
      BY <1>2, <1>3, <1>4, <1>5, <2>1 DEF TunnelInv, TypeOK
  <1>8. PinInv' /\ LockInv' /\ FlagInv' /\ BackoffInv' /\ SlotInv'
    BY <1>2, <1>5, <1>6 DEF TunnelInv, SafetyInv, PinInv, LockInv, FlagInv, BackoffInv, SlotInv
  <1>9. TrustLiftsBackoff'
    BY <1>1, <1>2, <1>5 DEF TunnelInv, SafetyInv, RefusalInv, TrustLiftsBackoff
  <1>10. KnownInv'
    BY <1>1, <1>2, <1>3, <1>4, <1>5, <1>6 DEF TunnelInv, SafetyInv, KnownInv, Up, Connecting
  <1>11. CheckedInv' /\ RefusalInv'
    BY <1>1, <1>3, <1>6 DEF CheckedInv, RefusalInv, Connecting
  <1> QED
    BY <1>7, <1>8, <1>9, <1>10, <1>11 DEF TunnelInv, SafetyInv

LEMMA OpenStep ==
  ASSUME TunnelInv, NEW o \in Openers, Open(o)
  PROVE  TunnelInv'
  <1> DEFINE new(pc) == [opener[o] EXCEPT !.pc = pc]
  <1>1. CASE Ask(o)
    <2>1. /\ new("session") \in Opener /\ new("session").pc = "session"
          /\ new("session").session = None /\ opener[o].pc = "idle"
      BY <1>1 DEF Ask, TunnelInv, TypeOK, Holds, Opener
    <2>2. opener' = [opener EXCEPT ![o] = new("session")]
      BY <1>1 DEF Ask
    <2> QED
      BY <1>1, <2>1, <2>2, QuietStep DEF Ask, Connecting
  <1>2. CASE Reuse(o)
    <2> DEFINE r == [opener[o] EXCEPT !.pc = "channel", !.session = slot]
    <2>1. /\ r \in Opener /\ r.pc = "channel" /\ r.session # None /\ opener[o].pc = "session"
      BY <1>2 DEF Reuse, Usable, TunnelInv, TypeOK, Opener
    <2>2. opener' = [opener EXCEPT ![o] = r]
      BY <1>2 DEF Reuse
    <2> HIDE DEF r
    <2> QED
      BY <1>2, <2>1, <2>2, QuietStep DEF Reuse, Connecting
  <1>3. CASE Refused(o)
    <2>1. Idle \in Opener /\ Idle.pc = "idle" /\ Idle.session = None
      BY DEF Idle, Opener
    <2> QED
      BY <1>3, <2>1, DropStep DEF Refused, Connecting
  <1>4. CASE OpenChannel(o) \/ ChannelFails(o)
    <2>1. /\ Idle \in Opener /\ Idle.pc = "idle" /\ Idle.session = None
          /\ opener[o].pc = "channel"
      BY <1>4 DEF OpenChannel, ChannelFails, Idle, Opener
    <2>2. /\ new("discard") \in Opener /\ new("discard").pc = "discard"
          /\ new("discard").session # None
      BY <2>1 DEF TunnelInv, TypeOK, Holds, Opener
    <2>3. \/ opener' = [opener EXCEPT ![o] = Idle]
          \/ opener' = [opener EXCEPT ![o] = new("discard")]
      BY <1>4 DEF OpenChannel, ChannelFails
    <2>4. UNCHANGED <<tunnel, session, message, history>>
      BY <1>4 DEF OpenChannel, ChannelFails
    <2> HIDE DEF new
    <2> QED
      BY <2>1, <2>2, <2>3, <2>4, QuietStep DEF Connecting
  <1>5. CASE Discard(o)
    <2> DEFINE r == [opener[o] EXCEPT !.pc = "flag", !.session = None, !.attempt = 1]
    <2>1. r \in Opener /\ r.pc = "flag" /\ r.session = None /\ opener[o].pc = "discard"
      BY <1>5 DEF Discard, TunnelInv, TypeOK, Opener
    <2>2. opener' = [opener EXCEPT ![o] = r]
      BY <1>5 DEF Discard
    <2> HIDE DEF r
    <2> QED
      BY <1>5, <2>1, <2>2, DropStep DEF Discard, Connecting
  <1> QED
    BY <1>1, <1>2, <1>3, <1>4, <1>5, FlagStep, ConnectStep, KeyCheckedStep, ConnectedStep, FailedStep
    DEF Open

-----------------------------------------------------------------------------
(* Steps of a message.                                                     *)

\* What the safety part needs when no session, opener or handle changes.
LEMMA SameSessions ==
  ASSUME TunnelInv, \A k : Settled(k)' => Settled(k),
         history'.orphans = history.orphans,
         UNCHANGED <<slot, session>>,
         \A o \in Openers : opener'[o].pc = opener[o].pc /\ opener'[o].session = opener[o].session
  PROVE  KnownInv' /\ SlotInv' /\ CheckedInv'
  <1>1. KnownInv'
    BY DEF TunnelInv, SafetyInv, KnownInv, Up
  <1>2. SlotInv'
    <2>1. ASSUME slot' # None, Up(slot)' PROVE ~Settled(session[slot].key)
      BY <2>1 DEF TunnelInv, SafetyInv, SlotInv, Up
    <2>2. SlotInv' <=> (slot' # None /\ Up(slot)' => ~(Settled(session[slot].key)'))
      BY DEF SlotInv
    <2>3. Settled(session[slot].key)' => Settled(session[slot].key)
      BY DEF Settled
    <2> QED
      BY <2>1, <2>2, <2>3
  <1>3. CheckedInv'
    <2>1. ASSUME NEW o \in Openers, opener'[o].pc = "checked",
                 session'[opener'[o].session].status = "up"
          PROVE  ~Settled(session'[opener'[o].session].key)
      BY <2>1 DEF TunnelInv, SafetyInv, CheckedInv, Up
    <2>2. \A o \in Openers :
            Settled(session[opener[o].session].key)' => Settled(session'[opener'[o].session].key)
      BY DEF Settled
    <2> QED
      BY <2>1, <2>2 DEF CheckedInv, Up, Settled
  <1> QED
    BY <1>1, <1>2, <1>3

\* TRUST_HOSTKEY and TUNNEL_RECONNECT begin: nothing but the message changes.
LEMMA BeginStep ==
  ASSUME TunnelInv, NEW m \in Messages, ReadOffered(m) \/ Reconnect(m)
  PROVE  TunnelInv'
  <1> DEFINE r == IF ReadOffered(m) THEN [message[m] EXCEPT !.pc = "pin", !.want = offered]
                  ELSE [message[m] EXCEPT !.pc = "close"]
  <1>1. /\ r \in Message /\ r.was = {} /\ r.pc \in {"pin", "close"} /\ message[m].pc = "idle"
    BY DEF ReadOffered, Reconnect, TunnelInv, TypeOK, Message, NoMessage
  <1>2. /\ message' = [message EXCEPT ![m] = r]
        /\ UNCHANGED <<tunnel, session, opener, history>>
    BY DEF ReadOffered, Reconnect
  <1> HIDE DEF r
  <1>3. /\ message' \in [Messages -> Message]
        /\ \A n \in Messages : message'[n] = IF n = m THEN r ELSE message[n]
    BY <1>1, <1>2 DEF TunnelInv, TypeOK
  <1>4. UNCHANGED <<pin, offered, slot, lock, state, backing, dropped, session, opener, history>>
    BY <1>2 DEF tunnel
  <1>5. TypeOK'
    BY <1>3, <1>4 DEF TunnelInv, TypeOK, Holds
  <1>6. KnownInv' /\ SlotInv' /\ CheckedInv'
    <2>1. \A k : Settled(k)' => Settled(k)
      BY <1>1, <1>3, <1>4 DEF Settled
    <2> QED
      BY <1>4, <2>1, SameSessions
  <1>7. PinInv' /\ LockInv' /\ BackoffInv' /\ RefusalInv' /\ FlagInv'
    BY <1>1, <1>3, <1>4
    DEF TunnelInv, SafetyInv, PinInv, LockInv, BackoffInv, RefusalInv, FlagInv
  <1>8. TrustLiftsBackoff'
    BY <1>1, <1>3, <1>4 DEF TunnelInv, SafetyInv, TrustLiftsBackoff, Waiting
  <1> QED
    BY <1>5, <1>6, <1>7, <1>8 DEF TunnelInv, SafetyInv

LEMMA UntrustStep ==
  ASSUME TunnelInv, NEW m \in Messages, Untrust(m)
  PROVE  TunnelInv'
  <1>1. message[m] = NoMessage /\ {pin} \ {None} \in SUBSET Keys
    BY DEF Untrust, TunnelInv, TypeOK
  <1>2. NoMessage \in Message /\ NoMessage.pc = "idle"
    BY DEF Message, NoMessage
  <1> DEFINE w == {pin} \ {None}
             r == [message[m] EXCEPT !.pc = "close", !.was = w]
  <1>3. w \in SUBSET Keys
    BY <1>1
  <1> HIDE DEF w
  <1>4. /\ r \in Message /\ r.was \subseteq Keys /\ r.pc = "close" /\ message[m].pc = "idle"
    <2>1. r.was = w /\ r.pc = "close"
      BY <1>1, <1>2 DEF Message
    <2>2. r \in Message
      BY <1>1, <1>2, <1>3 DEF Message
    <2> QED
      BY <2>1, <2>2, <1>3, <1>1, <1>2
  <1>5. /\ message' = [message EXCEPT ![m] = r] /\ pin' = None
        /\ UNCHANGED <<offered, slot, lock, state, backing, dropped, session, opener, history>>
    BY DEF Untrust, w
  <1> HIDE DEF r
  <1>6. /\ message' \in [Messages -> Message]
        /\ \A n \in Messages : message'[n] = IF n = m THEN r ELSE message[n]
    BY <1>4, <1>5 DEF TunnelInv, TypeOK
  <1>7. TypeOK'
    BY <1>5, <1>6 DEF TunnelInv, TypeOK, Holds
  <1>8. KnownInv' /\ SlotInv' /\ CheckedInv'
    <2>1. \A k : Settled(k)' => Settled(k)
      BY <1>4, <1>5, <1>6 DEF Settled
    <2> QED
      BY <1>5, <2>1, SameSessions
  <1>9. PinInv'
    <2>1. None \notin history.withdrawn /\ \A n \in Messages : None \notin message'[n].was
      BY <1>4, <1>6, TunnelAssumption DEF TunnelInv, TypeOK, History, Message
    <2> QED
      BY <1>5, <2>1 DEF PinInv
  <1>10. LockInv' /\ BackoffInv' /\ RefusalInv' /\ FlagInv' /\ TrustLiftsBackoff'
    BY <1>5 DEF TunnelInv, SafetyInv, LockInv, BackoffInv, RefusalInv, FlagInv, TrustLiftsBackoff
  <1> QED
    BY <1>7, <1>8, <1>9, <1>10 DEF TunnelInv, SafetyInv

LEMMA SetPinStep ==
  ASSUME TunnelInv, NEW m \in Messages, SetPin(m)
  PROVE  TunnelInv'
  <1> DEFINE k == message[m].want
             r == [NoMessage EXCEPT !.pc = "wait"]
  <1>1. k \in Keys \cup {None} /\ r \in Message /\ r.was = {} /\ r.pc = "wait"
    BY DEF TunnelInv, TypeOK, Message, NoMessage
  <1>2. /\ pin' = k
        /\ message' = [n \in Messages |-> IF n = m THEN r ELSE [message[n] EXCEPT !.was = @ \ {k}]]
        /\ opener' = [o \in Openers |->
             [opener[o] EXCEPT !.late = @ \/ (opener[o].pc = "refused" /\ offered = k)]]
        /\ history' = [history EXCEPT !.withdrawn = @ \ {k}]
        /\ UNCHANGED <<offered, slot, lock, state, backing, dropped, session>>
    BY DEF SetPin
  <1> HIDE DEF k, r
  <1>3. /\ message' \in [Messages -> Message]
        /\ message'[m] = r
        /\ \A n \in Messages \ {m} : /\ message'[n].pc = message[n].pc
                                     /\ message'[n].was = message[n].was \ {k}
    BY <1>1, <1>2 DEF TunnelInv, TypeOK, Message
  <1>4. /\ opener' \in [Openers -> Opener]
        /\ \A o \in Openers :
             /\ opener'[o].pc = opener[o].pc /\ opener'[o].session = opener[o].session
             /\ opener[o].pc = "refused" /\ offered = k => opener'[o].late
    <2> DEFINE late(o) == opener[o].late \/ (opener[o].pc = "refused" /\ offered = k)
    <2>1. opener' = [o \in Openers |-> [opener[o] EXCEPT !.late = late(o)]]
      BY <1>2
    <2>2. \A x \in Opener, b \in BOOLEAN :
            /\ [x EXCEPT !.late = b] \in Opener /\ [x EXCEPT !.late = b].late = b
            /\ [x EXCEPT !.late = b].pc = x.pc /\ [x EXCEPT !.late = b].session = x.session
      BY DEF Opener
    <2>3. \A o \in Openers : opener[o] \in Opener
      BY DEF TunnelInv, TypeOK
    <2>4. \A o \in Openers : late(o) \in BOOLEAN
      BY <2>3 DEF Opener
    <2>5. \A o \in Openers : opener[o].pc = "refused" /\ offered = k => late(o)
      OBVIOUS
    <2> HIDE DEF late
    <2> QED
      BY <2>1, <2>2, <2>3, <2>4, <2>5
  <1>5. /\ history' \in History
        /\ history'.withdrawn = history.withdrawn \ {k}
        /\ history'.orphans = history.orphans /\ history'.blame = history.blame
        /\ history'.lifted = history.lifted
    BY <1>2 DEF TunnelInv, TypeOK, History
  <1>6. TypeOK'
    <2>1. \A o \in Openers : Holds(o)'
      <3>1. \A o \in Openers : Holds(o)
        BY DEF TunnelInv, TypeOK
      <3> QED
        BY <1>2, <1>4, <3>1 DEF Holds
    <2> QED
      BY <1>1, <1>2, <1>3, <1>4, <1>5, <2>1 DEF TunnelInv, TypeOK
  <1>7. KnownInv' /\ SlotInv' /\ CheckedInv'
    <2>1. \A j : Settled(j)' => Settled(j)
      BY <1>1, <1>3, <1>5 DEF Settled
    <2> QED
      BY <1>2, <1>4, <1>5, <2>1, SameSessions
  <1>8. PinInv'
    BY <1>1, <1>2, <1>3, <1>5 DEF PinInv
  <1>9. RefusalInv'
    BY <1>2, <1>4 DEF RefusalInv
  <1>10. TrustLiftsBackoff'
    BY <1>1, <1>3 DEF TrustLiftsBackoff
  <1>11. LockInv' /\ BackoffInv' /\ FlagInv'
    BY <1>2, <1>5 DEF TunnelInv, SafetyInv, LockInv, BackoffInv, FlagInv
  <1> QED
    BY <1>6, <1>7, <1>8, <1>9, <1>10, <1>11 DEF TunnelInv, SafetyInv

\* No attempt is in progress and the handle is emptied: nothing is left to be
\* handed out under the key whose pin went.
LEMMA CloseStep ==
  ASSUME TunnelInv, NEW m \in Messages, Close(m)
  PROVE  TunnelInv'
  <1> DEFINE r == [message[m] EXCEPT !.pc = "settle"]
  <1>1. /\ r \in Message /\ r.was = message[m].was /\ r.pc = "settle"
        /\ message[m].pc = "close"
    BY DEF Close, TunnelInv, TypeOK, Message
  <1>2. /\ message' = [message EXCEPT ![m] = r] /\ slot' = None /\ lock = None
        /\ UNCHANGED <<pin, offered, lock, state, backing, dropped, opener, history>>
    BY DEF Close
  <1> HIDE DEF r
  <1>3. /\ message' \in [Messages -> Message]
        /\ \A n \in Messages : message'[n] = IF n = m THEN r ELSE message[n]
    BY <1>1, <1>2 DEF TunnelInv, TypeOK
  <1>4. /\ session' \in [Sessions -> Session]
        /\ \A s \in Sessions : IF s = slot THEN session'[s].status # "up"
                               ELSE session'[s] = session[s]
    BY DEF Close, Left, TunnelInv, TypeOK, Session
  <1>5. \A o \in Openers : opener[o].pc \notin Connecting
    BY <1>2, TunnelAssumption DEF TunnelInv, TypeOK, Holds
  <1>6. TypeOK'
    <2>1. \A o \in Openers : Holds(o)'
      BY <1>2 DEF TunnelInv, TypeOK, Holds
    <2> QED
      BY <1>2, <1>3, <1>4, <2>1 DEF TunnelInv, TypeOK
  <1>7. KnownInv'
    BY <1>2, <1>4 DEF TunnelInv, SafetyInv, KnownInv, Up
  <1>8. SlotInv' /\ CheckedInv'
    BY <1>2, <1>5 DEF SlotInv, CheckedInv, Connecting
  <1>9. PinInv'
    BY <1>1, <1>2, <1>3 DEF TunnelInv, SafetyInv, PinInv
  <1>10. TrustLiftsBackoff'
    BY <1>1, <1>2, <1>3 DEF TunnelInv, SafetyInv, TrustLiftsBackoff, Waiting
  <1>11. LockInv' /\ BackoffInv' /\ RefusalInv' /\ FlagInv'
    BY <1>2 DEF TunnelInv, SafetyInv, LockInv, BackoffInv, RefusalInv, FlagInv
  <1> QED
    BY <1>6, <1>7, <1>8, <1>9, <1>10, <1>11 DEF TunnelInv, SafetyInv

LEMMA SetIdleStep ==
  ASSUME TunnelInv, NEW m \in Messages, SetIdle(m)
  PROVE  TunnelInv'
  <1> DEFINE r == [message[m] EXCEPT !.pc = "wait"]
  <1>1. /\ r \in Message /\ r.was = message[m].was /\ r.pc = "wait"
        /\ message[m].pc = "settle"
    BY DEF SetIdle, TunnelInv, TypeOK, Message
  <1>2. /\ message' = [message EXCEPT ![m] = r] /\ state' = "idle"
        /\ history' = [history EXCEPT !.lifted = backing]
        /\ UNCHANGED <<pin, offered, slot, lock, backing, dropped, session, opener>>
    BY DEF SetIdle
  <1> HIDE DEF r
  <1>3. /\ message' \in [Messages -> Message]
        /\ \A n \in Messages : message'[n] = IF n = m THEN r ELSE message[n]
    BY <1>1, <1>2 DEF TunnelInv, TypeOK
  <1>4. /\ history' \in History /\ history'.lifted = backing
        /\ history'.withdrawn = history.withdrawn
        /\ history'.orphans = history.orphans /\ history'.blame = history.blame
    BY <1>2 DEF TunnelInv, TypeOK, History
  <1>5. TypeOK'
    BY <1>2, <1>3, <1>4 DEF TunnelInv, TypeOK, Holds
  <1>6. KnownInv' /\ SlotInv' /\ CheckedInv'
    <2>1. \A k : Settled(k)' => Settled(k)
      BY <1>1, <1>3, <1>4 DEF Settled
    <2> QED
      BY <1>2, <1>4, <2>1, SameSessions
  <1>7. PinInv'
    BY <1>1, <1>2, <1>3, <1>4 DEF TunnelInv, SafetyInv, PinInv
  <1>8. LockInv' /\ BackoffInv' /\ RefusalInv' /\ FlagInv' /\ TrustLiftsBackoff'
    BY <1>2, <1>4 DEF TunnelInv, SafetyInv, LockInv, BackoffInv, RefusalInv, FlagInv,
                      TrustLiftsBackoff, Waiting
  <1> QED
    BY <1>5, <1>6, <1>7, <1>8 DEF TunnelInv, SafetyInv

LEMMA ResetWaitStep ==
  ASSUME TunnelInv, NEW m \in Messages, ResetWait(m)
  PROVE  TunnelInv'
  <1> DEFINE r == [message[m] EXCEPT !.pc = "state"]
  <1>1. /\ r \in Message /\ r.was = message[m].was /\ r.pc = "state"
        /\ message[m].pc = "wait"
    BY DEF ResetWait, TunnelInv, TypeOK, Message
  <1>2. /\ message' = [message EXCEPT ![m] = r] /\ backing' = FALSE
        /\ history' = [history EXCEPT !.lifted = FALSE, !.cause = None, !.late = FALSE]
        /\ UNCHANGED <<pin, offered, slot, lock, state, dropped, session, opener>>
    BY DEF ResetWait, NoWait
  <1> HIDE DEF r
  <1>3. /\ message' \in [Messages -> Message]
        /\ \A n \in Messages : message'[n] = IF n = m THEN r ELSE message[n]
    BY <1>1, <1>2 DEF TunnelInv, TypeOK
  <1>4. /\ history' \in History
        /\ history'.withdrawn = history.withdrawn
        /\ history'.orphans = history.orphans /\ history'.blame = history.blame
    BY <1>2 DEF TunnelInv, TypeOK, History
  <1>5. TypeOK'
    BY <1>2, <1>3, <1>4 DEF TunnelInv, TypeOK, Holds
  <1>6. KnownInv' /\ SlotInv' /\ CheckedInv'
    <2>1. \A k : Settled(k)' => Settled(k)
      BY <1>1, <1>3, <1>4 DEF Settled
    <2> QED
      BY <1>2, <1>4, <2>1, SameSessions
  <1>7. PinInv'
    BY <1>1, <1>2, <1>3, <1>4 DEF TunnelInv, SafetyInv, PinInv
  <1>8. LockInv' /\ BackoffInv' /\ RefusalInv' /\ FlagInv' /\ TrustLiftsBackoff'
    BY <1>2, <1>4 DEF TunnelInv, SafetyInv, LockInv, BackoffInv, RefusalInv, FlagInv,
                      TrustLiftsBackoff, Waiting
  <1> QED
    BY <1>5, <1>6, <1>7, <1>8 DEF TunnelInv, SafetyInv

LEMMA ResetStateStep ==
  ASSUME TunnelInv, NEW m \in Messages, ResetState(m)
  PROVE  TunnelInv'
  <1>1. /\ NoMessage \in Message /\ NoMessage.was = {} /\ NoMessage.pc = "idle"
        /\ message[m].was \subseteq Keys /\ message[m].pc = "state"
    BY DEF ResetState, TunnelInv, TypeOK, Message, NoMessage
  <1>2. /\ message' = [message EXCEPT ![m] = NoMessage]
        /\ state' = IF state = "down" THEN "idle" ELSE state
        /\ history' = [history EXCEPT !.lifted = @ \/ Waiting, !.withdrawn = @ \cup message[m].was]
        /\ UNCHANGED <<pin, offered, slot, lock, backing, dropped, session, opener>>
    BY DEF ResetState
  <1>3. /\ message' \in [Messages -> Message]
        /\ \A n \in Messages : message'[n] = IF n = m THEN NoMessage ELSE message[n]
    BY <1>1, <1>2 DEF TunnelInv, TypeOK
  <1>4. /\ history' \in History
        /\ history'.lifted = (history.lifted \/ Waiting)
        /\ history'.withdrawn = history.withdrawn \cup message[m].was
        /\ history'.orphans = history.orphans /\ history'.blame = history.blame
    BY <1>1, <1>2 DEF TunnelInv, TypeOK, History, Waiting
  <1>5. TypeOK'
    BY <1>2, <1>3, <1>4 DEF TunnelInv, TypeOK, Holds
  <1>6. KnownInv' /\ SlotInv' /\ CheckedInv'
    <2>1. \A k : Settled(k)' => Settled(k)
      BY <1>1, <1>3, <1>4 DEF Settled
    <2> QED
      BY <1>2, <1>4, <2>1, SameSessions
  <1>7. PinInv'
    BY <1>1, <1>2, <1>3, <1>4 DEF TunnelInv, SafetyInv, PinInv
  <1>8. LockInv' /\ BackoffInv' /\ RefusalInv' /\ FlagInv' /\ TrustLiftsBackoff'
    BY <1>2, <1>4 DEF TunnelInv, SafetyInv, LockInv, BackoffInv, RefusalInv, FlagInv,
                      TrustLiftsBackoff, Waiting
  <1> QED
    BY <1>5, <1>6, <1>7, <1>8 DEF TunnelInv, SafetyInv

-----------------------------------------------------------------------------
(* The session's task, and the clock.                                      *)
LEMMA EndsStep ==
  ASSUME TunnelInv, NEW s \in Sessions, Ends(s)
  PROVE  TunnelInv'
  <1>1. /\ session' = [session EXCEPT ![s] = [key |-> None, status |-> "closed"]]
        /\ history' = [history EXCEPT !.orphans = @ \ {s}]
        /\ UNCHANGED <<pin, offered, slot, lock, state, backing, dropped, opener, message>>
    BY DEF Ends, tunnel
  <1>2. /\ session' \in [Sessions -> Session]
        /\ session'[s].status # "up"
        /\ \A x \in Sessions \ {s} : session'[x] = session[x]
    BY <1>1 DEF TunnelInv, TypeOK, Session
  <1>3. /\ history' \in History
        /\ history'.orphans = history.orphans \ {s}
        /\ history'.withdrawn = history.withdrawn /\ history'.blame = history.blame
        /\ history'.lifted = history.lifted /\ history'.cause = history.cause
        /\ history'.late = history.late
    BY <1>1 DEF TunnelInv, TypeOK, History
  <1>4. TypeOK'
    BY <1>1, <1>2, <1>3 DEF TunnelInv, TypeOK, Holds
  <1>5. KnownInv'
    BY <1>1, <1>2, <1>3 DEF TunnelInv, SafetyInv, KnownInv, Up
  <1>6. SlotInv'
    BY <1>1, <1>2, <1>3 DEF TunnelInv, TypeOK, SafetyInv, SlotInv, Settled, Up
  <1>7. CheckedInv'
    <2>1. \A o \in Openers : opener[o].pc = "checked" => opener[o].session \in Sessions
      BY DEF TunnelInv, TypeOK, Holds, Opener
    <2> QED
      BY <1>1, <1>2, <1>3, <2>1 DEF TunnelInv, SafetyInv, CheckedInv, Settled, Up
  <1>8. PinInv' /\ LockInv' /\ BackoffInv' /\ RefusalInv' /\ FlagInv' /\ TrustLiftsBackoff'
    BY <1>1, <1>3 DEF TunnelInv, SafetyInv, PinInv, LockInv, BackoffInv, RefusalInv, FlagInv,
                      TrustLiftsBackoff, Waiting
  <1> QED
    BY <1>4, <1>5, <1>6, <1>7, <1>8 DEF TunnelInv, SafetyInv

LEMMA DisconnectedStep ==
  ASSUME TunnelInv, NEW s \in Sessions, Disconnected(s)
  PROVE  TunnelInv'
  <1>1. /\ session' = [session EXCEPT ![s].status = "gone"] /\ dropped' = TRUE
        /\ history' = [history EXCEPT !.blame = TRUE]
        /\ UNCHANGED <<pin, offered, slot, lock, state, backing, opener, message>>
    BY DEF Disconnected
  <1>2. /\ session' \in [Sessions -> Session]
        /\ session'[s].status # "up"
        /\ \A x \in Sessions \ {s} : session'[x] = session[x]
    BY <1>1 DEF TunnelInv, TypeOK, Session
  <1>3. /\ history' \in History /\ history'.blame = TRUE
        /\ history'.orphans = history.orphans
        /\ history'.withdrawn = history.withdrawn
        /\ history'.lifted = history.lifted /\ history'.cause = history.cause
        /\ history'.late = history.late
    BY <1>1 DEF TunnelInv, TypeOK, History
  <1>4. TypeOK'
    BY <1>1, <1>2, <1>3 DEF TunnelInv, TypeOK, Holds
  <1>5. KnownInv'
    BY <1>1, <1>2, <1>3 DEF TunnelInv, SafetyInv, KnownInv, Up
  <1>6. SlotInv'
    BY <1>1, <1>2, <1>3 DEF TunnelInv, TypeOK, SafetyInv, SlotInv, Settled, Up
  <1>7. CheckedInv'
    <2>1. \A o \in Openers : opener[o].pc = "checked" => opener[o].session \in Sessions
      BY DEF TunnelInv, TypeOK, Holds, Opener
    <2> QED
      BY <1>1, <1>2, <1>3, <2>1 DEF TunnelInv, SafetyInv, CheckedInv, Settled, Up
  <1>8. PinInv' /\ LockInv' /\ BackoffInv' /\ RefusalInv' /\ FlagInv' /\ TrustLiftsBackoff'
    BY <1>1, <1>3 DEF TunnelInv, SafetyInv, PinInv, LockInv, BackoffInv, RefusalInv, FlagInv,
                      TrustLiftsBackoff, Waiting
  <1> QED
    BY <1>4, <1>5, <1>6, <1>7, <1>8 DEF TunnelInv, SafetyInv

LEMMA WaitOverStep ==
  ASSUME TunnelInv, WaitOver
  PROVE  TunnelInv'
  <1>1. /\ backing' = FALSE
        /\ history' = [history EXCEPT !.lifted = FALSE, !.cause = None, !.late = FALSE]
        /\ UNCHANGED <<pin, offered, slot, lock, state, dropped, session, opener, message>>
    BY DEF WaitOver, NoWait
  <1>2. /\ history' \in History
        /\ history'.withdrawn = history.withdrawn
        /\ history'.orphans = history.orphans /\ history'.blame = history.blame
    BY <1>1 DEF TunnelInv, TypeOK, History
  <1>3. TypeOK'
    BY <1>1, <1>2 DEF TunnelInv, TypeOK, Holds
  <1>4. KnownInv' /\ SlotInv' /\ CheckedInv'
    BY <1>1, <1>2, SameSessions DEF Settled
  <1>5. PinInv' /\ LockInv' /\ BackoffInv' /\ RefusalInv' /\ FlagInv' /\ TrustLiftsBackoff'
    BY <1>1, <1>2 DEF TunnelInv, SafetyInv, PinInv, LockInv, BackoffInv, RefusalInv, FlagInv,
                      TrustLiftsBackoff, Waiting
  <1> QED
    BY <1>3, <1>4, <1>5 DEF TunnelInv, SafetyInv

-----------------------------------------------------------------------------
LEMMA TunnelStep == TunnelInv /\ [Next]_vars => TunnelInv'
  <1> SUFFICES ASSUME TunnelInv, [Next]_vars PROVE TunnelInv'
    OBVIOUS
  <1>1. ASSUME NEW m \in Messages, Decide(m) PROVE TunnelInv'
    BY <1>1, BeginStep, SetPinStep, UntrustStep, CloseStep, SetIdleStep, ResetWaitStep,
       ResetStateStep DEF Decide
  <1>2. CASE UNCHANGED vars
    BY <1>2 DEF vars, TunnelInv, TypeOK, Holds, SafetyInv, PinInv, LockInv, KnownInv, SlotInv,
                CheckedInv, BackoffInv, RefusalInv, TrustLiftsBackoff, FlagInv, Settled, Up, Waiting
  <1> QED
    BY <1>1, <1>2, OpenStep, EndsStep, DisconnectedStep, WaitOverStep DEF Next

LEMMA TunnelInvHolds == Spec => []TunnelInv
  BY InitTunnelInv, TunnelStep, PTL DEF Spec

(* Tunnel: every variable keeps its shape, and the mutex is held exactly   *)
(* during an attempt.                                                      *)
THEOREM TunnelTypeCorrect == Spec => []TypeOK
  <1>1. TunnelInv => TypeOK
    BY DEF TunnelInv
  <1> QED
    BY TunnelInvHolds, <1>1, PTL

(* Removing the pin and then closing under the mutex is enough: attempts   *)
(* that had passed the check are waited for and their session is taken     *)
(* out, and later ones find no pin.  (UNTRUST_HOSTKEY, close, session.)    *)
THEOREM UntrustIsFinal == Spec => []UntrustEndsSessions
  <1>1. TunnelInv => UntrustEndsSessions
    <2> SUFFICES ASSUME TunnelInv, NEW s \in Sessions, session[s].status = "up",
                        session[s].key \in history.withdrawn
                 PROVE  /\ slot # s
                        /\ \/ s \in history.orphans
                           \/ \E o \in Openers : opener[o].session = s /\ opener[o].pc = "refused"
      BY DEF UntrustEndsSessions
    <2>1. slot # s
      BY TunnelAssumption DEF TunnelInv, SafetyInv, SlotInv, Settled, Up
    <2>2. \A o \in Openers : opener[o].session = s => opener[o].pc # "checked"
      BY DEF TunnelInv, SafetyInv, CheckedInv, Settled, Up
    <2> QED
      BY <2>1, <2>2 DEF TunnelInv, SafetyInv, KnownInv, Up
  <1> QED
    BY TunnelInvHolds, <1>1, PTL

(* A trust decision is not undone by the wait it was to lift, but for an   *)
(* attempt that had been refused already and was still ending.             *)
(* (TRUST_HOSTKEY, reset_backoff, check_server_key.)                       *)
THEOREM TrustTakesEffect == Spec => []TrustLiftsBackoff
  <1>1. TunnelInv => TrustLiftsBackoff
    BY DEF TunnelInv, SafetyInv
  <1> QED
    BY TunnelInvHolds, <1>1, PTL

-----------------------------------------------------------------------------
\* An opener leaves session() by one of three steps of its own.
LEMMA LeavesSession ==
  ASSUME TunnelInv, [Next]_vars, NEW o \in Openers,
         opener[o].pc = "session", opener'[o].pc # "session"
  PROVE  Reuse(o) \/ Refused(o) \/ \E s \in Sessions : Connect(o, s)
  <1>1. opener \in [Openers -> Opener]
    BY DEF TunnelInv, TypeOK
  <1>2. ASSUME NEW p \in Openers, Open(p) PROVE p = o
    <2>1. \A q \in Openers \ {p} : opener'[q] = opener[q]
      BY <1>1, <1>2
      DEF Open, Ask, Reuse, Refused, Connect, KeyChecked, Connected, Failed, OpenChannel,
          ChannelFails, Discard, Flag
    <2> QED
      BY <2>1
  <1>3. ASSUME Open(o) PROVE Reuse(o) \/ Refused(o) \/ \E s \in Sessions : Connect(o, s)
    BY <1>3 DEF Open, Ask, KeyChecked, Connected, Failed, Connecting, OpenChannel,
                ChannelFails, Discard, Flag
  <1>4. ASSUME NEW m \in Messages, Decide(m) PROVE FALSE
    <2>1. opener'[o].pc = opener[o].pc
      <3>1. CASE SetPin(m)
        BY <1>1, <3>1 DEF SetPin, Opener
      <3>2. CASE ~SetPin(m)
        BY <1>4, <3>2 DEF Decide, ReadOffered, Untrust, Reconnect, Close, SetIdle, ResetWait, ResetState
      <3> QED
        BY <3>1, <3>2
    <2> QED
      BY <2>1
  <1>5. ASSUME NEW s \in Sessions, Ends(s) \/ Disconnected(s) PROVE FALSE
    BY <1>5 DEF Ends, Disconnected
  <1>6. ~WaitOver /\ ~UNCHANGED vars
    BY DEF WaitOver, vars
  <1> QED
    BY <1>2, <1>3, <1>4, <1>5, <1>6 DEF Next

(* No attempt begins during a wait that no operator's message touched.     *)
(* (session, reset_backoff, close.)                                        *)
THEOREM NoAttemptWhileWaiting == Spec => BackoffIsRespected
  <1>1. TunnelInv /\ [Next]_vars =>
          [\A o \in Openers : opener[o].pc = "session" /\ opener'[o].pc = "connect" /\ backing
                                => history.lifted]_vars
    <2> SUFFICES ASSUME TunnelInv, [Next]_vars, NEW o \in Openers,
                        opener[o].pc = "session", opener'[o].pc = "connect", backing
                 PROVE  history.lifted
      OBVIOUS
    <2>1. ~Reuse(o) /\ ~Refused(o)
      <3>1. opener \in [Openers -> Opener]
        BY DEF TunnelInv, TypeOK
      <3>2. Reuse(o) => opener'[o].pc = "channel"
        BY <3>1 DEF Reuse, Opener
      <3>3. Refused(o) => opener'[o].pc = "idle"
        BY <3>1 DEF Refused, Idle
      <3> QED
        BY <3>2, <3>3
    <2>2. ~Waiting
      BY <2>1, LeavesSession DEF Connect
    <2> QED
      BY <2>2 DEF TunnelInv, SafetyInv, BackoffInv, Waiting
  <1> QED
    BY TunnelInvHolds, <1>1, PTL DEF Spec, BackoffIsRespected

(* A live session is thrown away by session() only for a callback or a     *)
(* flag raised since it was made.  (session, disconnected, open.)          *)
THEOREM LateCallbackCostsOne == Spec => LiveSessionKept
  <1>1. TunnelInv /\ [Next]_vars =>
          [\A o \in Openers : opener[o].pc = "session" /\ opener'[o].pc # "session"
                               /\ Live # {} /\ slot' # slot => history.blame]_vars
    <2> SUFFICES ASSUME TunnelInv, [Next]_vars, NEW o \in Openers,
                        opener[o].pc = "session", opener'[o].pc # "session",
                        Live # {}, slot' # slot
                 PROVE  history.blame
      OBVIOUS
    <2>1. ~Reuse(o)
      BY DEF Reuse, tunnel
    <2>2. ~Usable
      BY <2>1, LeavesSession DEF Refused, Connect
    <2>3. slot # None /\ ~Closed(slot)
      BY TunnelAssumption DEF Live, Closed
    <2> QED
      BY <2>2, <2>3 DEF TunnelInv, SafetyInv, FlagInv, Usable
  <1> QED
    BY TunnelInvHolds, <1>1, PTL DEF Spec, LiveSessionKept

=============================================================================
