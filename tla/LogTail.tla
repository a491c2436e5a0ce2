------------------------------- MODULE LogTail -------------------------------
(***************************************************************************)
(* The two timers of pages/logs.js: the live tail of one cluster, and the  *)
(* close-up of one device.  All pages draw into the same element, and      *)
(* nothing calls this page's onLeave: its timers go on under other pages,  *)
(* and what they read is drawn over them.                                  *)
(***************************************************************************)
EXTENDS Naturals, FiniteSets

CONSTANTS
  Cluster,      \* the clusters the tail may follow
  Device,
  MaxAsked,     \* bound: searches, and polls, on their way at a time
  None

VARIABLES
  here,         \* the log explorer is the page of the navigation
  painted,      \* and it is what is painted
  tailed,       \* ui.tailClusterId
  searches,     \* the searches on their way, in the order they were asked
  hits,         \* the cluster ui.hits are of; None
  tail,         \* ui.tail
  ticking,      \* the intervals that exist for the tail
  watch,        \* delay.watch: [device, live, running, docs, card]; None
  polls,        \* the polls on their way: the card each writes to, and what it asks for
  beating,      \* the intervals that exist for the close-up
  cards         \* how many cards were opened, which names them (bound: MaxAsked + 1)

vars == <<here, painted, tailed, searches, hits, tail, ticking, watch, polls, beating, cards>>

Init ==
  /\ here = TRUE /\ painted = TRUE
  /\ tailed \in Cluster
  /\ searches = {} /\ hits = None
  /\ tail = FALSE /\ ticking = 0
  /\ watch = None /\ polls = {} /\ beating = 0 /\ cards = 0

Draw == painted' = TRUE

-----------------------------------------------------------------------------
\* search: the cluster of now is asked; silent or not, its answer is drawn.
Ask(c) ==
  /\ Cardinality(searches) < MaxAsked
  /\ \E n \in 1..MaxAsked : (\A s \in searches : s.n # n) /\ searches' = searches \cup {[n |-> n, of |-> c]}

Search ==
  /\ here /\ Ask(tailed) /\ Draw
  /\ UNCHANGED <<here, tailed, hits, tail, ticking, watch, polls, beating, cards>>

\* An answer, in whatever order they come; an error leaves nothing to show.
Found(s, ok) ==
  /\ s \in searches /\ searches' = searches \ {s}
  /\ hits' = IF ok THEN s.of ELSE None
  /\ Draw
  /\ UNCHANGED <<here, tailed, tail, ticking, watch, polls, beating, cards>>

\* Mutant of StopTail: the flag is lowered, the interval left.
StopTailFlagOnly == tail' = FALSE /\ UNCHANGED ticking

\* stopTail: the one interval whose handle is kept.
StopTail == tail' = FALSE /\ ticking' = IF ticking > 0 THEN ticking - 1 ELSE 0

StartTail ==
  /\ here /\ ~tail /\ Ask(tailed) /\ Draw
  /\ tail' = TRUE /\ ticking' = 1 + (IF ticking > 0 THEN ticking - 1 ELSE 0)
  /\ UNCHANGED <<here, tailed, hits, watch, polls, beating, cards>>

TailTick ==
  /\ ticking > 0 /\ Ask(tailed)
  /\ UNCHANGED <<here, painted, tailed, hits, tail, ticking, watch, polls, beating, cards>>

PressStopTail ==
  /\ here /\ tail /\ StopTail /\ Draw
  /\ UNCHANGED <<here, tailed, searches, hits, watch, polls, beating, cards>>

\* tailClusterPicker
PickTailed(c) ==
  /\ here /\ c # tailed /\ tailed' = c
  /\ StopTail /\ Ask(c) /\ Draw
  /\ UNCHANGED <<here, hits, watch, polls, beating, cards>>

-----------------------------------------------------------------------------
\* Mutant of Card: an answer goes to whichever card is open when it comes.
CardOpen(p) == watch # None

\* The card a poll set out for is the one on the screen.
Card(p) == watch # None /\ watch.card = p.card

\* pollWatch
Poll(w) ==
  IF w.running THEN watch' = w /\ UNCHANGED polls
  ELSE Cardinality(polls) < MaxAsked /\ watch' = [w EXCEPT !.running = TRUE] /\ polls' = polls \cup {[card |-> w.card, of |-> w.device]}

\* watchDevice: whichever interval there was is cleared, and one begun.
WatchDevice(x) ==
  /\ here /\ cards < MaxAsked + 1 /\ cards' = cards + 1
  /\ Poll([device |-> x, live |-> TRUE, running |-> FALSE, docs |-> None, card |-> cards'])
  /\ beating' = 1
  /\ Draw
  /\ UNCHANGED <<here, tailed, searches, hits, tail, ticking>>

\* The interval: a card that is closed or paused ends it, and so would a page that is gone.
WatchTick ==
  /\ beating > 0
  /\ IF watch # None /\ watch.live
     THEN Poll(watch) /\ UNCHANGED beating /\ painted' = (painted \/ ~watch.running)
     ELSE beating' = 0 /\ UNCHANGED <<watch, polls, painted>>
  /\ UNCHANGED <<here, tailed, searches, hits, tail, ticking, cards>>

Polled(p, ok) ==
  /\ p \in polls /\ polls' = polls \ {p}
  /\ watch' = IF ~Card(p) THEN watch
              ELSE [watch EXCEPT !.running = FALSE, !.docs = IF ok THEN p.of ELSE @]
  /\ Draw
  /\ UNCHANGED <<here, tailed, searches, hits, tail, ticking, beating, cards>>

\* toggleWatchLive: resuming polls once; an interval that ended itself is not begun again.
ToggleWatchLive ==
  /\ here /\ watch # None
  /\ IF watch.live THEN watch' = [watch EXCEPT !.live = FALSE] /\ UNCHANGED polls
     ELSE Poll([watch EXCEPT !.live = TRUE])
  /\ Draw
  /\ UNCHANGED <<here, tailed, searches, hits, tail, ticking, beating, cards>>

CloseWatch ==
  /\ here /\ watch # None /\ watch' = None /\ beating' = 0 /\ Draw
  /\ UNCHANGED <<here, tailed, searches, hits, tail, ticking, polls, cards>>

-----------------------------------------------------------------------------
\* go: the other page is drawn into the same element.
Leave ==
  /\ here /\ here' = FALSE /\ painted' = FALSE
  /\ UNCHANGED <<tailed, searches, hits, tail, ticking, watch, polls, beating, cards>>

\* render: what was found before is shown again, and asked for only if nothing was.
Return ==
  /\ ~here /\ here' = TRUE /\ Draw
  /\ IF hits = None /\ searches = {} THEN Ask(tailed) ELSE UNCHANGED searches
  /\ UNCHANGED <<tailed, hits, tail, ticking, watch, polls, beating, cards>>

Next ==
  \/ Search \/ StartTail \/ TailTick \/ PressStopTail
  \/ \E s \in searches, ok \in BOOLEAN : Found(s, ok)
  \/ \E c \in Cluster : PickTailed(c)
  \/ \E x \in Device : WatchDevice(x)
  \/ WatchTick \/ ToggleWatchLive \/ CloseWatch
  \/ \E p \in polls, ok \in BOOLEAN : Polled(p, ok)
  \/ Leave \/ Return

Spec == Init /\ [][Next]_vars

-----------------------------------------------------------------------------
(***************************************************************************)
(* However a tail and a close-up are started, paused, closed, left and     *)
(* come back to: there is one interval for a tail that is on and none for  *)
(* one that is off, none for a card that is closed, and the documents in a *)
(* card are those of its device, though polls of closed cards come late.   *)
(***************************************************************************)
TimersAndCardsMatch ==
  /\ ticking = IF tail THEN 1 ELSE 0
  /\ watch = None => beating = 0
  /\ watch # None => watch.docs \in {None, watch.device}

\* The inductive invariant behind it (ConsoleProofs): a poll is of a card that was opened, and
\* if that is the one on the screen, of its device.
Watch == [device : Device, live : BOOLEAN, running : BOOLEAN, docs : Device \cup {None}, card : Nat]
LogTailInv ==
  /\ cards \in Nat /\ tail \in BOOLEAN
  /\ polls \subseteq [card : Nat, of : Device] /\ \A p \in polls : p.card <= cards
  /\ watch # None =>
       watch \in Watch /\ watch.card <= cards /\ \A p \in polls : Card(p) => p.of = watch.device
  /\ TimersAndCardsMatch
=============================================================================
