------------------------------ MODULE Accounts ------------------------------
(***************************************************************************)
(* The accounts of an installed or hosted core and the sessions opened on  *)
(* them: UserStore and Sessions of auth.rs, and the handlers of bridge.rs  *)
(* that use them (LOGIN, LOGOUT, USER_ADD, USER_REMOVE, USER_SET_ROLE,     *)
(* USER_SET_PASSWORD) behind gate().                                       *)
(*                                                                         *)
(* The core is multithreaded: every message runs on a worker of its own    *)
(* and the two stores have locks of their own, held for one step at a      *)
(* time.  A worker's step is what it does under one lock; between two      *)
(* steps of a worker every other worker may move.                          *)
(*                                                                         *)
(* Data left out: passwords, hashes and salts (verify succeeds or the      *)
(* message has no effect), the guest role (to these handlers a role is     *)
(* admin or it is not) and the disabled flag (set_disabled is reached from *)
(* no message, so it is false in every account this program wrote).        *)
(***************************************************************************)
EXTENDS Functions

CONSTANTS
  Names,    \* account names, compared without case by the code
  Shipped,  \* DEFAULT_USER, the account a fresh install starts with
  Tokens,   \* session tokens; their number bounds the live sessions
  Workers   \* messages being handled at the same time

ASSUME ShippedAssumption == Shipped \in Names

VARIABLES
  accounts, \* UserStore.accounts, the list in memory
  disk,     \* users.json, as the next start would read it
  sessions, \* Sessions.map: live token -> session
  worker    \* what each message being handled has done so far

vars == <<accounts, disk, sessions, worker>>

Roles == {"user", "admin"}

Account   == [role : Roles \cup {"none"}, mustChange : BOOLEAN]
NoAccount == [role |-> "none", mustChange |-> FALSE]

Exists(store, n)  == store[n].role # "none"
IsAdmin(store, n) == store[n].role = "admin"

\* What seed_default() leaves when the file held no account.
Seeded == [n \in Names |->
            IF n = Shipped THEN [role |-> "admin", mustChange |-> TRUE]
                           ELSE NoAccount]
NoFile == [n \in Names |-> NoAccount]

RequestTypes == {"USER_ADD", "USER_REMOVE", "USER_SET_ROLE", "USER_SET_PASSWORD"}
Request == [type : RequestTypes, name : Names]

(* A person: who a session or a resolved caller says it is.  outdated and  *)
(* excuse are history.  outdated: the account was removed, re-roled or had *)
(* its password reset by another since this copy of it was taken.  excuse: *)
(* why the code does not end such a session ("race": it was outdated       *)
(* before it was opened; "unsaved": the save of the change failed).        *)
Excuses == {"none", "race", "unsaved"}
Person  == [user : Names, role : Roles, mustChange : BOOLEAN, outdated : BOOLEAN]
Session == [user : Names, role : Roles, mustChange : BOOLEAN,
            outdated : BOOLEAN, excuse : Excuses]

Steps == {"idle", "begin", "act", "snapshot", "commit", "clear", "end_all"}
Worker == [pc : Steps, who : Person, req : Request, snap : [Names -> Account]]

Nobody == [user |-> Shipped, role |-> "user", mustChange |-> FALSE, outdated |-> FALSE]
Idle   == [pc |-> "idle", who |-> Nobody,
           req |-> [type |-> "USER_ADD", name |-> Shipped],
           snap |-> NoFile]

\* The types of the state, of every copy of an account and of the file.
TypeOK ==
  /\ accounts \in [Names -> Account]
  /\ disk \in [Names -> Account]
  /\ DOMAIN sessions \subseteq Tokens
  /\ \A k \in DOMAIN sessions : sessions[k] \in Session
  /\ worker \in [Workers -> Worker]

\* Core::new on an empty data directory; the save of the seed may fail.
Init ==
  /\ accounts = Seeded
  /\ disk \in {Seeded, NoFile}
  /\ sessions = [k \in {} |-> Idle]
  /\ worker = [w \in Workers |-> Idle]

Drop(ks) == Restrict(sessions, DOMAIN sessions \ ks)

Become(w, pc) == worker' = [worker EXCEPT ![w].pc = pc]
Finish(w)     == worker' = [worker EXCEPT ![w] = Idle]

PersonOf(n) == [user |-> n, role |-> accounts[n].role,
                mustChange |-> accounts[n].mustChange, outdated |-> FALSE]

(***************************************************************************)
(* LOGIN: verify() copies the account under the read lock; begin() then    *)
(* opens a session from that copy.                                         *)
(***************************************************************************)
Verify(w, n) ==
  /\ worker[w].pc = "idle"
  /\ Exists(accounts, n)
  /\ worker' = [worker EXCEPT ![w] = [Idle EXCEPT !.pc = "begin", !.who = PersonOf(n)]]
  /\ UNCHANGED <<accounts, disk, sessions>>

\* Mutant of Begin: the session is opened from a second look at the list.
BeginFromList(w, k) ==
  LET n == worker[w].who.user
      s == [user |-> n, role |-> accounts[n].role, mustChange |-> accounts[n].mustChange,
            outdated |-> FALSE, excuse |-> "none"]
  IN /\ worker[w].pc = "begin"
     /\ k \notin DOMAIN sessions
     /\ sessions' = [t \in DOMAIN sessions \cup {k} |-> IF t = k THEN s ELSE sessions[t]]
     /\ Finish(w)
     /\ UNCHANGED <<accounts, disk>>

Begin(w, k) ==
  LET p == worker[w].who
      s == [user |-> p.user, role |-> p.role, mustChange |-> p.mustChange,
            outdated |-> p.outdated,
            excuse |-> IF p.outdated THEN "race" ELSE "none"]
  IN /\ worker[w].pc = "begin"
     /\ k \notin DOMAIN sessions
     /\ sessions' = [t \in DOMAIN sessions \cup {k} |-> IF t = k THEN s ELSE sessions[t]]
     /\ Finish(w)
     /\ UNCHANGED <<accounts, disk>>

(***************************************************************************)
(* Who is asking.  resolve() first drops every session idle for too long,  *)
(* whichever those are, then answers with a copy of the one it was asked   *)
(* for; a name vouched for by the proxy is looked up among the accounts.   *)
(***************************************************************************)
Asking(w, p) ==
  worker' = [worker EXCEPT ![w] = [Idle EXCEPT !.pc = "act", !.who = p]]

Resolve(w, k, idle) ==
  /\ worker[w].pc = "idle"
  /\ k \in DOMAIN sessions \ idle
  /\ Asking(w, [user |-> sessions[k].user, role |-> sessions[k].role,
                mustChange |-> sessions[k].mustChange, outdated |-> FALSE])
  /\ sessions' = Drop(idle)
  /\ UNCHANGED <<accounts, disk>>

\* A token that is not live, or count(): only the idle sessions go.
ResolveNobody(idle) ==
  /\ sessions' = Drop(idle)
  /\ UNCHANGED <<accounts, disk, worker>>

ResolveProxy(w, n) ==
  /\ worker[w].pc = "idle"
  /\ Exists(accounts, n)
  /\ Asking(w, PersonOf(n))
  /\ UNCHANGED <<accounts, disk, sessions>>

Logout(k, idle) ==
  /\ k \in DOMAIN sessions
  /\ sessions' = Drop(idle \cup {k})
  /\ UNCHANGED <<accounts, disk, worker>>

(***************************************************************************)
(* gate() and the refusals of users_msg() and of the store.  All but the   *)
(* last three conjuncts read the worker's own copy of the caller only;     *)
(* those three are read under the write lock the change is made under.     *)
(***************************************************************************)
\* Mutant of GateAllows: the shipped password is not asked about.
GateAllowsShipped(c, req) == c.role = "admin"

GateAllows(c, req) ==
  /\ c.mustChange => req.type = "USER_SET_PASSWORD"
  /\ c.role = "admin"

\* Mutant of LastAdmin: counts accounts where it should count administrators.
LastAccount(n) == IsAdmin(accounts, n) /\ \A m \in Names \ {n} : ~Exists(accounts, m)

LastAdmin(n) == IsAdmin(accounts, n) /\ \A m \in Names \ {n} : ~IsAdmin(accounts, m)

Permitted(c, req, role) ==
  LET self == req.name = c.user
  IN /\ GateAllows(c, req)
     /\ req.type = "USER_REMOVE" => ~self
     /\ req.type = "USER_SET_ROLE" /\ self => role = "admin"
     /\ req.type = "USER_SET_PASSWORD" /\ c.mustChange => self
     /\ Exists(accounts, req.name) <=> req.type # "USER_ADD"
     /\ req.type = "USER_REMOVE" => ~LastAdmin(req.name)
     /\ req.type = "USER_SET_ROLE" /\ role # "admin" => ~LastAdmin(req.name)

Refuse(w, req, role) ==
  /\ worker[w].pc = "act"
  /\ ~Permitted(worker[w].who, req, role)
  /\ Finish(w)
  /\ UNCHANGED <<accounts, disk, sessions>>

(* The changes, each under the accounts' write lock.  A change that other  *)
(* people's sessions must not survive outdates every copy a session was,   *)
(* or is about to be, opened from.                                         *)
Revoking(c, req) == \/ req.type \in {"USER_REMOVE", "USER_SET_ROLE"}
                    \/ req.type = "USER_SET_PASSWORD" /\ req.name # c.user
Revokes(w) == Revoking(worker[w].who, worker[w].req)

Change(w, req, role, account) ==
  LET hit == Revoking(worker[w].who, req)
  IN /\ worker[w].pc = "act"
     /\ Permitted(worker[w].who, req, role)
     /\ accounts' = [accounts EXCEPT ![req.name] = account]
     /\ worker' = [v \in Workers |->
          IF v = w THEN [worker[w] EXCEPT !.pc = "snapshot", !.req = req]
          ELSE [worker[v] EXCEPT !.who.outdated =
                  @ \/ (hit /\ worker[v].pc = "begin" /\ worker[v].who.user = req.name)]]
     /\ sessions' = [k \in DOMAIN sessions |->
          [sessions[k] EXCEPT !.outdated = @ \/ (hit /\ sessions[k].user = req.name)]]
     /\ UNCHANGED disk

AddUser(w, req, role) ==
  /\ req.type = "USER_ADD"
  /\ Change(w, req, role, [role |-> role, mustChange |-> FALSE])

RemoveUser(w, req, role) ==
  /\ req.type = "USER_REMOVE"
  /\ Change(w, req, role, NoAccount)

SetRole(w, req, role) ==
  /\ req.type = "USER_SET_ROLE"
  /\ Change(w, req, role, [accounts[req.name] EXCEPT !.role = role])

\* Mutant of SetPassword: the forced change is not over when it happens.
SetPasswordOnly(w, req, role) ==
  /\ req.type = "USER_SET_PASSWORD"
  /\ Change(w, req, role, accounts[req.name])

SetPassword(w, req, role) ==
  /\ req.type = "USER_SET_PASSWORD"
  /\ Change(w, req, role, [accounts[req.name] EXCEPT !.mustChange = FALSE])

(***************************************************************************)
(* save(), after the write lock is gone: the list is serialised under the  *)
(* read lock, then written beside the file and renamed over it.  Two saves *)
(* are not ordered against each other.  (What two writers do to the        *)
(* temporary file they share is the subject of StoreFile.)                 *)
(***************************************************************************)
Snapshot(w) ==
  /\ worker[w].pc = "snapshot"
  /\ worker' = [worker EXCEPT ![w].snap = accounts, ![w].pc = "commit"]
  /\ UNCHANGED <<accounts, disk, sessions>>

\* Mutant of AfterSave: a change of role leaves the sessions alone.
AfterSaveKeepsDemoted(w) ==
  CASE worker[w].req.type = "USER_SET_PASSWORD" -> "clear"
    [] worker[w].req.type = "USER_REMOVE" -> "end_all"
    [] OTHER -> "idle"

\* What the handler has left to do once save() succeeded.
AfterSave(w) ==
  CASE worker[w].req.type = "USER_SET_PASSWORD" -> "clear"
    [] worker[w].req.type \in {"USER_REMOVE", "USER_SET_ROLE"} -> "end_all"
    [] OTHER -> "idle"

Commit(w) ==
  /\ worker[w].pc = "commit"
  /\ disk' = worker[w].snap
  /\ IF AfterSave(w) = "idle" THEN Finish(w)
     ELSE worker' = [worker EXCEPT ![w].snap = NoFile, ![w].pc = AfterSave(w)]
  /\ UNCHANGED <<accounts, sessions>>

\* save() failed: the handler answers bad_request and does nothing more,
\* though the change stays in memory.
CommitFails(w) ==
  /\ worker[w].pc = "commit"
  /\ sessions' = [k \in DOMAIN sessions |->
       IF Revokes(w) /\ sessions[k].outdated /\ sessions[k].user = worker[w].req.name
         THEN [sessions[k] EXCEPT !.excuse = "unsaved"]
         ELSE sessions[k]]
  /\ Finish(w)
  /\ UNCHANGED <<accounts, disk>>

(***************************************************************************)
(* After a successful save the sessions follow the account.                *)
(***************************************************************************)
ClearMustChange(w) ==
  LET n == worker[w].req.name
  IN /\ worker[w].pc = "clear"
     /\ sessions' = [k \in DOMAIN sessions |->
                       [sessions[k] EXCEPT !.mustChange = @ /\ sessions[k].user # n]]
     /\ IF Revokes(w) THEN Become(w, "end_all") ELSE Finish(w)
     /\ UNCHANGED <<accounts, disk>>

EndAllFor(w) ==
  LET n == worker[w].req.name
  IN /\ worker[w].pc = "end_all"
     /\ sessions' = Drop({k \in DOMAIN sessions : sessions[k].user = n})
     /\ Finish(w)
     /\ UNCHANGED <<accounts, disk>>

(***************************************************************************)
(* The process stops at any moment and starts again: sessions and handlers *)
(* are gone, the accounts are what the file holds, or the seed if none.    *)
(***************************************************************************)
Restart ==
  /\ IF \E n \in Names : Exists(disk, n)
       THEN accounts' = disk /\ UNCHANGED disk
       ELSE accounts' = Seeded /\ disk' \in {disk, Seeded}
  /\ sessions' = [k \in {} |-> Idle]
  /\ worker' = [w \in Workers |-> Idle]

Login(w)  == \/ \E n \in Names : Verify(w, n)
             \/ \E k \in Tokens : Begin(w, k)

Ask(w)    == \/ \E k \in DOMAIN sessions, idle \in SUBSET DOMAIN sessions :
                  Resolve(w, k, idle)
             \/ \E n \in Names : ResolveProxy(w, n)

Act(w)    == \E req \in Request, role \in Roles :
               \/ Refuse(w, req, role)
               \/ AddUser(w, req, role) \/ RemoveUser(w, req, role)
               \/ SetRole(w, req, role) \/ SetPassword(w, req, role)

Finalise(w) == \/ Snapshot(w) \/ Commit(w) \/ CommitFails(w)
               \/ ClearMustChange(w) \/ EndAllFor(w)

Leave     == \E idle \in SUBSET DOMAIN sessions :
               \/ ResolveNobody(idle)
               \/ \E k \in Tokens : Logout(k, idle)

Next == \/ \E w \in Workers : Login(w) \/ Ask(w) \/ Act(w) \/ Finalise(w)
        \/ Leave
        \/ Restart

Spec == Init /\ [][Next]_vars

-----------------------------------------------------------------------------
(***************************************************************************)
(* Properties.                                                             *)
(***************************************************************************)

(* There is always an administrator, and every accounts file a restart     *)
(* could read has one: whatever two administrators do to each other at     *)
(* once, and whichever of their saves lands last or fails, somebody can    *)
(* still administer the deployment.  (UserStore::remove and set_role count *)
(* the administrators under the lock the change is made under.)            *)
HasAdmin(store) == \E n \in Names : IsAdmin(store, n)

AdminAlways ==
  /\ HasAdmin(accounts)
  /\ disk = NoFile \/ HasAdmin(disk)

(* While an account is still on the password it shipped with it is alone:  *)
(* it is the shipped administrator and nobody has created or changed       *)
(* anything through it.  (gate()'s must_change refusal, the cached flag in *)
(* every session and caller, and the order "set_password, then             *)
(* clear_must_change" carry this together.)                                *)
ShippedIsAlone ==
  \A n \in Names : accounts[n].mustChange => accounts = Seeded

(* A session stops being confined to changing the password only after its  *)
(* account has really left the shipped password, for every interleaving of *)
(* sign-ins, password changes and failed saves.                            *)
UnconfinedMeansChanged ==
  \A k \in DOMAIN sessions :
    accounts[sessions[k].user].mustChange => sessions[k].mustChange

(* A session that outlived a removal, a change of role or a password reset *)
(* has one of three explanations: its sign-in had already copied the       *)
(* account when the change was made, the handler that made the change has  *)
(* yet to end it, or the change could not be saved.                        *)
PendingEnd(n) ==
  \E w \in Workers : /\ worker[w].pc \in {"snapshot", "commit", "clear", "end_all"}
                     /\ worker[w].req.name = n
                     /\ Revokes(w)

RevocationReachesSessions ==
  \A k \in DOMAIN sessions :
    sessions[k].outdated => sessions[k].excuse # "none" \/ PendingEnd(sessions[k].user)

(* What the comment of USER_REMOVE says: once the handler is done, the     *)
(* sessions of a removed account went with it (they do not "keep working   *)
(* until the idle timeout on an account that no longer exists").  A change *)
(* whose save failed is not held against the code here.                    *)
SessionsGoWithTheAccount ==
  (\A w \in Workers : worker[w].pc = "idle") =>
    \A k \in DOMAIN sessions :
      Exists(accounts, sessions[k].user) \/ sessions[k].excuse = "unsaved"

=============================================================================
