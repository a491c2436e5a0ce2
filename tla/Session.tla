------------------------------ MODULE Session -------------------------------
(***************************************************************************)
(* Signing in, as the pages see it: the session token of core/transport.js *)
(* that goes out with every message, the gate of ui/login.js, and what     *)
(* app.js does when the core no longer knows the session.                  *)
(*                                                                         *)
(* A message is the session it carries.  Which of them are still in force  *)
(* only the core knows (live); an answer to one that is not clears the     *)
(* session the page has now.  A reload of the page drops every answer that *)
(* is on its way and starts again from WHOAMI.                             *)
(***************************************************************************)
CONSTANTS
  Token,        \* the sessions the core may open (a bound of the model)
  None

VARIABLES
  live,       \* external: the sessions the core knows
  required,   \* external: this build has accounts
  shipped,    \* external: the account still has the password it was shipped with
  session,    \* transport.js: session, which sessionStorage holds as well
  screen,     \* what is drawn: nothing yet, the gate in one of two modes, or the app
  me,         \* app.js: somebody is signed in
  asked,      \* the sessions carried by messages whose answers are on their way
  leaving,    \* LOGOUT is on its way
  blind       \* WHOAMI failed, and the page took the build for one without accounts

vars == <<live, required, shipped, session, screen, me, asked, leaving, blind>>

Init ==
  /\ live = {}
  /\ required \in BOOLEAN /\ shipped \in BOOLEAN
  /\ session = None /\ screen = "boot" /\ me = FALSE
  /\ asked = {} /\ leaving = FALSE /\ blind = FALSE

\* location.reload(): the page forgets everything but sessionStorage.
Reload ==
  /\ screen' = "boot" /\ me' = FALSE
  /\ asked' = {} /\ leaving' = FALSE /\ blind' = FALSE

\* The core lets a session lapse or an administrator revokes it.
Lapse(t) ==
  /\ t \in live
  /\ live' = live \ {t}
  /\ UNCHANGED <<required, shipped, session, screen, me, asked, leaving, blind>>

-----------------------------------------------------------------------------
(***************************************************************************)
(* gateOnAuth.  Without an answer, or where there are no accounts, the app *)
(* is shown to nobody in particular; with a live session it is shown to    *)
(* its holder; on the shipped password there is only the screen to change  *)
(* it; everybody else meets the login.                                     *)
(***************************************************************************)
GateOnAuth ==
  /\ screen = "boot"
  /\ \E answered \in BOOLEAN :
       /\ blind' = ~answered
       /\ \/ /\ ~answered \/ ~required
             /\ screen' = "app" /\ me' = FALSE
          \/ /\ answered /\ required
             /\ screen' = IF session \notin live THEN "login"
                          ELSE IF shipped THEN "change" ELSE "app"
             /\ me' = (session \in live /\ ~shipped)
  \* WHOAMI is for everybody: it is not refused for the session it carries.
  /\ UNCHANGED <<live, required, shipped, session, asked, leaving>>

\* LOGIN, answered with a session; nothing else is asked before somebody is in.
SignIn(t) ==
  /\ screen = "login" /\ t \notin live /\ t # session /\ t \notin asked
  /\ live' = live \cup {t}
  /\ session' = t
  /\ screen' = IF shipped THEN "change" ELSE "app"
  /\ me' = ~shipped
  /\ UNCHANGED <<required, shipped, asked, leaving, blind>>

\* The forced change of the shipped password.  A session that lapsed meanwhile is cleared
\* by the refusal, and the screen stays: nobody is signed in yet whom a reload would serve.
ChangePassword ==
  /\ screen = "change" /\ session # None
  /\ \/ /\ session \in live
        /\ shipped' = FALSE /\ screen' = "app" /\ me' = TRUE
        /\ UNCHANGED session
     \/ /\ session \notin live
        /\ session' = None
        /\ UNCHANGED <<shipped, screen, me>>
  /\ UNCHANGED <<live, required, asked, leaving, blind>>

-----------------------------------------------------------------------------
\* Any message of a page, the status poll among them.
Ask ==
  /\ screen = "app"
  /\ asked' = asked \cup {session}
  /\ UNCHANGED <<live, required, shipped, session, screen, me, leaving, blind>>

\* One answer has come; others to messages of the same session may be on their way still.
Answered(t) == asked' \in {asked, asked \ {t}}

\* An answer that is not a refusal changes nothing here.
Served(t) ==
  /\ t \in asked /\ (~required \/ t \in live)
  /\ Answered(t)
  /\ UNCHANGED <<live, required, shipped, session, screen, me, leaving, blind>>

\* Mutant of SessionLost: the gate is drawn over the page, which goes on living.
SessionLostInPlace(t) ==
  /\ screen' = (IF me THEN "login" ELSE screen)
  /\ me' = FALSE
  /\ Answered(t)
  /\ UNCHANGED <<leaving, blind>>

\* app.js: back to the gate, if somebody was signed in.
SessionLost(t) ==
  \/ me /\ Reload
  \/ ~me /\ Answered(t) /\ UNCHANGED <<screen, me, leaving, blind>>

\* bridge(): an `unauthenticated` answer clears the session of now, whichever was refused.
Refused(t) ==
  /\ t \in asked /\ required /\ t \notin live
  /\ \/ /\ session # None
        /\ session' = None
        /\ SessionLost(t)
     \/ /\ session = None
        /\ Answered(t)
        /\ UNCHANGED <<session, screen, me, leaving, blind>>
  /\ UNCHANGED <<live, required, shipped>>

\* Sign out: LOGOUT is sent, and its answer awaited.
SignOut ==
  /\ screen = "app" /\ me /\ ~leaving
  /\ leaving' = TRUE
  /\ UNCHANGED <<live, required, shipped, session, screen, me, asked, blind>>

\* signOut goes on whatever became of LOGOUT; a lost one leaves the session to lapse.
SignedOut ==
  /\ leaving
  /\ live' \in {live, live \ {session}}
  /\ session' = None
  /\ Reload
  /\ UNCHANGED <<required, shipped>>

\* The user reloads the page by hand.
PressReload ==
  /\ Reload
  /\ UNCHANGED <<live, required, shipped, session>>

Next ==
  \/ \E t \in Token : Lapse(t) \/ SignIn(t)
  \/ GateOnAuth \/ ChangePassword \/ Ask
  \/ \E t \in Token \cup {None} : Served(t) \/ Refused(t)
  \/ SignOut \/ SignedOut \/ PressReload

Spec == Init /\ [][Next]_vars

-----------------------------------------------------------------------------
(***************************************************************************)
(* Nobody is signed out by an answer to somebody else: the page gives up   *)
(* a session the core still knows only to sign out, however late the       *)
(* answers to messages under an earlier session come.  What ensures it is  *)
(* that no answer outlives the page that asked.  (Of a step.)              *)
(***************************************************************************)
DropsNoLiveSession ==
  session # None /\ session' # session /\ ~leaving => session \notin live

(***************************************************************************)
(* A page whose session is gone shows the gate and not the figures it read *)
(* before, unless WHOAMI had failed and nobody knew there were accounts.   *)
(***************************************************************************)
NoStaleApp == screen = "app" /\ required /\ session = None => blind

-----------------------------------------------------------------------------
(***************************************************************************)
(* The inductive invariant behind both (proved in ConsoleProofs).          *)
(***************************************************************************)
TypeOK ==
  /\ live \subseteq Token
  /\ required \in BOOLEAN /\ shipped \in BOOLEAN
  /\ session \in Token \cup {None}
  /\ screen \in {"boot", "login", "change", "app"}
  /\ me \in BOOLEAN /\ leaving \in BOOLEAN /\ blind \in BOOLEAN
  /\ asked \subseteq Token \cup {None}

\* Answers are awaited by the app only, and all under the session it has, if it has one.
NoAnswerOutlivesItsPage ==
  /\ \A t \in asked : screen = "app" /\ session \in {t, None}
  /\ leaving \/ me => screen = "app"

\* Somebody is signed in on every app of a build with accounts, by a session; and whoever meets
\* the login with a session has one the core no longer knows.
TheAppHasItsHolder ==
  /\ screen = "app" /\ required /\ ~blind => me
  /\ me => session # None
  /\ screen = "login" /\ session # None => session \notin live

SessionInv == TypeOK /\ NoAnswerOutlivesItsPage /\ TheAppHasItsHolder
=============================================================================
