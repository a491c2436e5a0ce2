--------------------------- MODULE AccountsProofs ---------------------------
(***************************************************************************)
(* Proofs about Accounts for any number of names, sessions and messages in *)
(* flight.  Each theorem follows the same plan: the invariant is           *)
(* strengthened until it is inductive, the strengthening is shown to       *)
(* survive each action, and PTL carries it to every reachable state.       *)
(***************************************************************************)
EXTENDS Accounts, TLAPS

(***************************************************************************)
(* Type correctness.                                                       *)
(***************************************************************************)
LEMMA SeededType == Seeded \in [Names -> Account] /\ NoFile \in [Names -> Account]
  BY DEF Seeded, NoFile, NoAccount, Account, Roles

LEMMA IdleType == Idle \in Worker
  BY ShippedAssumption, SeededType
     DEF Idle, Worker, Steps, Person, Nobody, Request, RequestTypes, Roles

LEMMA PersonType ==
  ASSUME TypeOK, NEW n \in Names, Exists(accounts, n)
  PROVE  PersonOf(n) \in Person
  BY DEF TypeOK, Exists, PersonOf, Person, Account, Roles

(* One change of the list of accounts keeps every variable in its type.    *)
LEMMA ChangeType ==
  ASSUME TypeOK, NEW w \in Workers, NEW req \in Request, NEW role \in Roles,
         NEW account \in Account, Change(w, req, role, account)
  PROVE  TypeOK'
  <1>1. accounts' \in [Names -> Account]
    BY DEF TypeOK, Change, Request
  <1>2. DOMAIN sessions' = DOMAIN sessions
    BY DEF Change
  <1>3. \A k \in DOMAIN sessions' : sessions'[k] \in Session
    <2>1. \A s \in Session, b \in BOOLEAN : [s EXCEPT !.outdated = b] \in Session
      BY DEF Session
    <2>2. \A s \in Session : s.outdated \in BOOLEAN
      BY DEF Session
    <2>3. \A k \in DOMAIN sessions : sessions[k] \in Session
      BY DEF TypeOK
    <2> DEFINE hit(k) == \/ sessions[k].outdated
                         \/ Revoking(worker[w].who, req) /\ sessions[k].user = req.name
    <2>4. sessions' = [k \in DOMAIN sessions |-> [sessions[k] EXCEPT !.outdated = hit(k)]]
      BY DEF Change
    <2>5. \A k \in DOMAIN sessions : hit(k) \in BOOLEAN
      BY <2>2, <2>3
    <2> HIDE DEF hit
    <2> QED
      BY <2>1, <2>3, <2>4, <2>5
  <1>4. worker' \in [Workers -> Worker]
    <2>1. [worker[w] EXCEPT !.pc = "snapshot", !.req = req] \in Worker
      BY DEF TypeOK, Worker, Steps
    <2>2. ASSUME NEW v \in Workers, NEW b \in BOOLEAN
          PROVE  [worker[v] EXCEPT !.who.outdated = b] \in Worker
      BY DEF TypeOK, Worker, Person
    <2> DEFINE hits(v) == \/ worker[v].who.outdated
                          \/ /\ Revoking(worker[w].who, req)
                             /\ worker[v].pc = "begin" /\ worker[v].who.user = req.name
    <2>3. worker' = [v \in Workers |->
                      IF v = w THEN [worker[w] EXCEPT !.pc = "snapshot", !.req = req]
                               ELSE [worker[v] EXCEPT !.who.outdated = hits(v)]]
      BY DEF Change
    <2>4. \A v \in Workers : hits(v) \in BOOLEAN
      OBVIOUS
    <2> HIDE DEF hits
    <2> QED
      BY <2>1, <2>2, <2>3, <2>4
  <1> QED
    BY <1>1, <1>2, <1>3, <1>4 DEF TypeOK, Change

(* The type invariant of Accounts holds for all values of its constants.   *)
THEOREM TypeCorrect == Spec => []TypeOK
  <1>1. Init => TypeOK
    BY SeededType, IdleType DEF Init, TypeOK
  <1>2. TypeOK /\ [Next]_vars => TypeOK'
    <2> SUFFICES ASSUME TypeOK, [Next]_vars PROVE TypeOK'
      OBVIOUS
    <2>1. ASSUME NEW w \in Workers, NEW n \in Names, Verify(w, n) PROVE TypeOK'
      <3>1. [Idle EXCEPT !.pc = "begin", !.who = PersonOf(n)] \in Worker
        BY <2>1, IdleType, PersonType DEF Verify, Worker, Steps
      <3> QED
        BY <2>1, <3>1 DEF Verify, TypeOK
    <2>2. ASSUME NEW w \in Workers, NEW k \in Tokens, Begin(w, k) PROVE TypeOK'
      <3>1. worker[w].who \in Person
        BY DEF TypeOK, Worker
      <3> QED
        BY <2>2, <3>1, IdleType DEF Begin, Finish, TypeOK, Person, Session, Excuses
    <2>3. ASSUME NEW w \in Workers, NEW k \in DOMAIN sessions,
                 NEW idle \in SUBSET DOMAIN sessions, Resolve(w, k, idle)
          PROVE TypeOK'
      <3> DEFINE p == [user |-> sessions[k].user, role |-> sessions[k].role,
                       mustChange |-> sessions[k].mustChange, outdated |-> FALSE]
      <3>1. p \in Person
        BY DEF TypeOK, Session, Person
      <3>2. [Idle EXCEPT !.pc = "act", !.who = p] \in Worker
        BY <3>1, IdleType DEF Worker, Steps
      <3> QED
        BY <2>3, <3>2 DEF Resolve, Asking, Drop, Restrict, TypeOK
    <2>4. ASSUME NEW w \in Workers, NEW n \in Names, ResolveProxy(w, n) PROVE TypeOK'
      <3>1. [Idle EXCEPT !.pc = "act", !.who = PersonOf(n)] \in Worker
        BY <2>4, IdleType, PersonType DEF ResolveProxy, Worker, Steps
      <3> QED
        BY <2>4, <3>1 DEF ResolveProxy, Asking, TypeOK
    <2>5. ASSUME NEW w \in Workers, NEW req \in Request, NEW role \in Roles,
                 Refuse(w, req, role)
          PROVE TypeOK'
      BY <2>5, IdleType DEF Refuse, Finish, TypeOK
    <2>6. ASSUME NEW w \in Workers, NEW req \in Request, NEW role \in Roles,
                 \/ AddUser(w, req, role) \/ RemoveUser(w, req, role)
                 \/ SetRole(w, req, role) \/ SetPassword(w, req, role)
          PROVE TypeOK'
      <3>1. accounts[req.name] \in Account
        BY DEF TypeOK, Request
      <3>2. /\ [role |-> role, mustChange |-> FALSE] \in Account
            /\ NoAccount \in Account
            /\ [accounts[req.name] EXCEPT !.role = role] \in Account
            /\ [accounts[req.name] EXCEPT !.mustChange = FALSE] \in Account
        BY <3>1 DEF Account, NoAccount, Roles
      <3> QED
        BY <2>6, <3>2, ChangeType DEF AddUser, RemoveUser, SetRole, SetPassword
    <2>7. ASSUME NEW w \in Workers, Snapshot(w) PROVE TypeOK'
      BY <2>7 DEF Snapshot, TypeOK, Worker, Steps
    <2>8. ASSUME NEW w \in Workers, Commit(w) PROVE TypeOK'
      <3>1. disk' \in [Names -> Account]
        BY <2>8 DEF Commit, TypeOK, Worker
      <3>2. AfterSave(w) \in Steps
        BY DEF AfterSave, Steps
      <3>3. worker' \in [Workers -> Worker]
        BY <2>8, <3>2, IdleType, SeededType DEF Commit, Finish, TypeOK, Worker
      <3> QED
        BY <2>8, <3>1, <3>3 DEF Commit, TypeOK
    <2>9. ASSUME NEW w \in Workers, CommitFails(w) PROVE TypeOK'
      BY <2>9, IdleType DEF CommitFails, Finish, TypeOK, Session, Excuses
    <2>10. ASSUME NEW w \in Workers, ClearMustChange(w) PROVE TypeOK'
      <3>1. worker' \in [Workers -> Worker]
        <4>1. [worker[w] EXCEPT !.pc = "end_all"] \in Worker
          BY DEF TypeOK, Worker, Steps
        <4>2. CASE Revokes(w)
          BY <2>10, <4>1, <4>2 DEF ClearMustChange, Become, TypeOK
        <4>3. CASE ~Revokes(w)
          BY <2>10, <4>3, IdleType DEF ClearMustChange, Finish, TypeOK
        <4> QED
          BY <4>2, <4>3
      <3>2. ASSUME NEW k \in DOMAIN sessions, NEW b \in BOOLEAN
            PROVE  [sessions[k] EXCEPT !.mustChange = b] \in Session
        BY DEF TypeOK, Session
      <3> DEFINE keeps(k) == sessions[k].mustChange /\ sessions[k].user # worker[w].req.name
      <3>3. sessions' = [k \in DOMAIN sessions |-> [sessions[k] EXCEPT !.mustChange = keeps(k)]]
        BY <2>10 DEF ClearMustChange
      <3>4. \A k \in DOMAIN sessions : keeps(k) \in BOOLEAN
        OBVIOUS
      <3> HIDE DEF keeps
      <3>5. \A k \in DOMAIN sessions' : sessions'[k] \in Session
        BY <3>2, <3>3, <3>4
      <3> QED
        BY <2>10, <3>1, <3>3, <3>5 DEF ClearMustChange, TypeOK
    <2>11. ASSUME NEW w \in Workers, EndAllFor(w) PROVE TypeOK'
      BY <2>11, IdleType DEF EndAllFor, Drop, Restrict, Finish, TypeOK
    <2>12. ASSUME NEW idle \in SUBSET DOMAIN sessions, ResolveNobody(idle) PROVE TypeOK'
      BY <2>12 DEF ResolveNobody, Drop, Restrict, TypeOK
    <2>13. ASSUME NEW idle \in SUBSET DOMAIN sessions, NEW k \in Tokens, Logout(k, idle)
           PROVE TypeOK'
      BY <2>13 DEF Logout, Drop, Restrict, TypeOK
    <2>14. ASSUME Restart PROVE TypeOK'
      BY <2>14, IdleType, SeededType DEF Restart, TypeOK
    <2>15. CASE UNCHANGED vars
      BY <2>15 DEF vars, TypeOK
    <2> QED
      BY <2>1, <2>2, <2>3, <2>4, <2>5, <2>6, <2>7, <2>8, <2>9, <2>10, <2>11,
         <2>12, <2>13, <2>14, <2>15 DEF Next, Login, Ask, Act, Finalise, Leave
  <1> QED
    BY <1>1, <1>2, PTL DEF Spec

(***************************************************************************)
(* There is always an administrator.                                       *)
(*                                                                         *)
(* The list alone is not inductive: a restart puts the file in its place,  *)
(* and the file is some worker's snapshot.  So the snapshots waiting to be *)
(* written have an administrator too.                                      *)
(***************************************************************************)
AdminInv ==
  /\ AdminAlways
  /\ \A w \in Workers : worker[w].pc = "commit" => HasAdmin(worker[w].snap)

LEMMA SeededHasAdmin == HasAdmin(Seeded)
  BY ShippedAssumption DEF HasAdmin, IsAdmin, Seeded

(* Under the lock, a permitted change leaves an administrator in the list. *)
LEMMA ChangeKeepsAdmin ==
  ASSUME TypeOK, HasAdmin(accounts),
         NEW w \in Workers, NEW req \in Request, NEW role \in Roles,
         \/ AddUser(w, req, role) \/ RemoveUser(w, req, role)
         \/ SetRole(w, req, role) \/ SetPassword(w, req, role)
  PROVE  HasAdmin(accounts')
  <1>1. req.name \in Names
    BY DEF Request
  <1>2. PICK m \in Names : IsAdmin(accounts, m)
    BY DEF HasAdmin
  <1>3. CASE AddUser(w, req, role)
    <2>1. m # req.name
      BY <1>2, <1>3 DEF AddUser, Change, Permitted, Exists, IsAdmin
    <2> QED
      BY <1>1, <1>2, <1>3, <2>1 DEF AddUser, Change, HasAdmin, IsAdmin, TypeOK
  <1>4. CASE RemoveUser(w, req, role)
    <2>1. ~LastAdmin(req.name)
      BY <1>4 DEF RemoveUser, Change, Permitted
    <2>2. PICK o \in Names \ {req.name} : IsAdmin(accounts, o)
      BY <1>2, <2>1 DEF LastAdmin
    <2> QED
      BY <1>1, <1>4, <2>2 DEF RemoveUser, Change, HasAdmin, IsAdmin, TypeOK
  <1>5. CASE SetRole(w, req, role)
    <2>1. CASE role = "admin"
      BY <1>1, <1>5, <2>1 DEF SetRole, Change, HasAdmin, IsAdmin, TypeOK, Account
    <2>2. CASE role # "admin"
      <3>1. ~LastAdmin(req.name)
        BY <1>5, <2>2 DEF SetRole, Change, Permitted
      <3>2. PICK o \in Names \ {req.name} : IsAdmin(accounts, o)
        BY <1>2, <3>1 DEF LastAdmin
      <3> QED
        BY <1>1, <1>5, <3>2 DEF SetRole, Change, HasAdmin, IsAdmin, TypeOK
    <2> QED
      BY <2>1, <2>2
  <1>6. CASE SetPassword(w, req, role)
    BY <1>1, <1>2, <1>6 DEF SetPassword, Change, HasAdmin, IsAdmin, TypeOK, Account
  <1> QED
    BY <1>3, <1>4, <1>5, <1>6

(* AdminAlways holds for any number of administrators acting at once.      *)
THEOREM AlwaysAnAdmin == Spec => []AdminAlways
  <1>1. Init => AdminInv
    BY SeededHasAdmin DEF Init, AdminInv, AdminAlways, Idle
  <1>2. TypeOK /\ AdminInv /\ [Next]_vars => AdminInv'
    <2> SUFFICES ASSUME TypeOK, AdminInv, [Next]_vars PROVE AdminInv'
      OBVIOUS
    <2> USE DEF AdminInv, AdminAlways
    <2>1. ASSUME NEW w \in Workers, Login(w) \/ Ask(w) PROVE AdminInv'
      <3>1. CASE \E n \in Names : Verify(w, n)
        BY <3>1 DEF Verify, Idle, TypeOK
      <3>2. CASE \E k \in Tokens : Begin(w, k)
        BY <3>2 DEF Begin, Finish, Idle, TypeOK
      <3>3. CASE Ask(w)
        BY <3>3 DEF Ask, Resolve, ResolveProxy, Asking, Idle, TypeOK
      <3> QED
        BY <2>1, <3>1, <3>2, <3>3 DEF Login
    <2>2. ASSUME NEW w \in Workers, NEW req \in Request, NEW role \in Roles,
                 Refuse(w, req, role)
          PROVE AdminInv'
      BY <2>2 DEF Refuse, Finish, Idle, TypeOK
    <2>3. ASSUME NEW w \in Workers, NEW req \in Request, NEW role \in Roles,
                 \/ AddUser(w, req, role) \/ RemoveUser(w, req, role)
                 \/ SetRole(w, req, role) \/ SetPassword(w, req, role)
          PROVE AdminInv'
      <3>1. HasAdmin(accounts')
        BY <2>3, ChangeKeepsAdmin
      <3>2. PICK account : Change(w, req, role, account)
        BY <2>3 DEF AddUser, RemoveUser, SetRole, SetPassword
      <3>3. \A v \in Workers : worker'[v].pc = "commit" =>
                               worker[v].pc = "commit" /\ worker'[v].snap = worker[v].snap
        <4> DEFINE told(v) == \/ worker[v].who.outdated
                              \/ /\ Revoking(worker[w].who, req)
                                 /\ worker[v].pc = "begin" /\ worker[v].who.user = req.name
                   next(v) == IF v = w THEN [worker[w] EXCEPT !.pc = "snapshot", !.req = req]
                              ELSE [worker[v] EXCEPT !.who.outdated = told(v)]
        <4>1. worker' = [v \in Workers |-> next(v)]
          BY <3>2 DEF Change
        <4>2. \A x \in Worker, b \in BOOLEAN :
                /\ [x EXCEPT !.who.outdated = b].pc = x.pc
                /\ [x EXCEPT !.who.outdated = b].snap = x.snap
                /\ [x EXCEPT !.pc = "snapshot", !.req = req].pc = "snapshot"
          BY DEF Worker
        <4>3. \A v \in Workers : worker[v] \in Worker
          BY DEF TypeOK
        <4>4. \A v \in Workers : told(v) \in BOOLEAN
          BY <4>3 DEF Worker, Person
        <4> HIDE DEF told
        <4> QED
          BY <4>1, <4>2, <4>3, <4>4
      <3> QED
        BY <3>1, <3>2, <3>3 DEF Change
    <2>4. ASSUME NEW w \in Workers, Snapshot(w) PROVE AdminInv'
      BY <2>4 DEF Snapshot, TypeOK, Worker
    <2>5. ASSUME NEW w \in Workers, Commit(w) PROVE AdminInv'
      <3>1. \A v \in Workers : worker'[v].pc = "commit" => worker'[v] = worker[v]
        BY <2>5 DEF Commit, Finish, Idle, AfterSave, TypeOK, Worker
      <3> QED
        BY <2>5, <3>1 DEF Commit
    <2>6. ASSUME NEW w \in Workers, CommitFails(w) \/ ClearMustChange(w) \/ EndAllFor(w)
          PROVE AdminInv'
      <3>1. Finish(w) \/ Become(w, "end_all")
        BY <2>6 DEF CommitFails, ClearMustChange, EndAllFor
      <3>2. \A v \in Workers : worker'[v].pc = "commit" => worker'[v] = worker[v]
        BY <3>1 DEF Finish, Become, Idle, TypeOK, Worker
      <3>3. UNCHANGED <<accounts, disk>>
        BY <2>6 DEF CommitFails, ClearMustChange, EndAllFor
      <3> QED
        BY <3>2, <3>3
    <2>7. ASSUME Leave PROVE AdminInv'
      BY <2>7 DEF Leave, ResolveNobody, Logout
    <2>8. ASSUME Restart PROVE AdminInv'
      <3>1. HasAdmin(accounts')
        BY <2>8, SeededHasAdmin DEF Restart, Exists, NoFile, NoAccount
      <3>2. disk' = NoFile \/ HasAdmin(disk')
        BY <2>8, SeededHasAdmin DEF Restart
      <3> QED
        BY <2>8, <3>1, <3>2 DEF Restart, Idle
    <2>9. CASE UNCHANGED vars
      BY <2>9 DEF vars
    <2> QED
      BY <2>1, <2>2, <2>3, <2>4, <2>5, <2>6, <2>7, <2>8, <2>9 DEF Next, Act, Finalise
  <1>3. AdminInv => AdminAlways
    BY DEF AdminInv
  <1> QED
    BY <1>1, <1>2, <1>3, TypeCorrect, PTL DEF Spec

(***************************************************************************)
(* While the shipped password stands, nothing has happened.                *)
(*                                                                         *)
(* Fresh says some account still carries the shipped password.  Then the   *)
(* list is the seed, everybody signed in or asking is the confined shipped *)
(* administrator, and no change is past the lock; and a change is the end  *)
(* of it, because no snapshot taken after one is fresh.                    *)
(***************************************************************************)
Fresh(store) == \E n \in Names : store[n].mustChange

ConfinedInv ==
  /\ Fresh(accounts) =>
       /\ accounts = Seeded
       /\ \A k \in DOMAIN sessions : sessions[k].user = Shipped /\ sessions[k].mustChange
       /\ \A w \in Workers :
            /\ worker[w].pc \in {"idle", "begin", "act"}
            /\ worker[w].pc # "idle" => worker[w].who.user = Shipped /\ worker[w].who.mustChange
  /\ Fresh(disk) => disk = Seeded
  /\ \A w \in Workers : worker[w].pc = "commit" => ~Fresh(worker[w].snap)

LEMMA ConfinedGivesProperties ==
  ASSUME TypeOK, ConfinedInv PROVE ShippedIsAlone /\ UnconfinedMeansChanged
  BY DEF TypeOK, ConfinedInv, Fresh, ShippedIsAlone, UnconfinedMeansChanged, Session

LEMMA SeedAlone ==
  /\ \A n \in Names : Exists(Seeded, n) => n = Shipped /\ Seeded[n].mustChange
  /\ ~Fresh(NoFile)
  BY ShippedAssumption DEF Seeded, Exists, NoAccount, NoFile, Fresh

(* No change can leave an account on the shipped password: on a fresh list *)
(* only the shipped administrator can act, and all it may do is replace    *)
(* its own password.                                                       *)
LEMMA ChangeEndsFresh ==
  ASSUME TypeOK, ConfinedInv,
         NEW w \in Workers, NEW req \in Request, NEW role \in Roles,
         \/ AddUser(w, req, role) \/ RemoveUser(w, req, role)
         \/ SetRole(w, req, role) \/ SetPassword(w, req, role)
  PROVE  ~Fresh(accounts')
  <1>1. req.name \in Names
    BY DEF Request
  <1>2. PICK account \in Account :
          /\ Change(w, req, role, account)
          /\ account.mustChange => req.type = "USER_SET_ROLE" /\ accounts[req.name].mustChange
    <2>1. accounts[req.name] \in Account
      BY <1>1 DEF TypeOK
    <2>2. CASE AddUser(w, req, role)
      <3>1. [role |-> role, mustChange |-> FALSE] \in Account
        BY DEF Account
      <3> QED
        BY <2>2, <3>1 DEF AddUser
    <2>3. CASE RemoveUser(w, req, role)
      <3>1. NoAccount \in Account /\ ~NoAccount.mustChange
        BY DEF Account, NoAccount
      <3> QED
        BY <2>3, <3>1 DEF RemoveUser
    <2>4. CASE SetRole(w, req, role)
      <3> DEFINE a == [accounts[req.name] EXCEPT !.role = role]
      <3>1. a \in Account /\ a.mustChange = accounts[req.name].mustChange
        BY <2>1 DEF Account
      <3> QED
        BY <2>4, <3>1 DEF SetRole
    <2>5. CASE SetPassword(w, req, role)
      <3> DEFINE a == [accounts[req.name] EXCEPT !.mustChange = FALSE]
      <3>1. a \in Account /\ ~a.mustChange
        BY <2>1 DEF Account
      <3> QED
        BY <2>5, <3>1 DEF SetPassword
    <2> QED
      BY <2>2, <2>3, <2>4, <2>5
  <1>3. CASE ~Fresh(accounts)
    BY <1>1, <1>2, <1>3 DEF Fresh, Change, TypeOK
  <1>4. CASE Fresh(accounts)
    <2>1. accounts = Seeded /\ worker[w].who.user = Shipped /\ worker[w].who.mustChange
      BY <1>2, <1>4 DEF ConfinedInv, Change
    <2>2. req.type = "USER_SET_PASSWORD" /\ req.name = Shipped
      BY <1>2, <2>1 DEF Change, Permitted, GateAllows
    <2>3. ~account.mustChange
      BY <1>2, <2>2
    <2>4. \A n \in Names \ {Shipped} : ~accounts[n].mustChange
      BY <2>1 DEF Seeded, NoAccount
    <2> QED
      BY <1>2, <2>2, <2>3, <2>4 DEF Change, Fresh, TypeOK
  <1> QED
    BY <1>3, <1>4

LEMMA ConfinedStep == TypeOK /\ ConfinedInv /\ [Next]_vars => ConfinedInv'
  <1> SUFFICES ASSUME TypeOK, ConfinedInv, [Next]_vars PROVE ConfinedInv'
    OBVIOUS
  <1>1. ASSUME NEW w \in Workers, NEW n \in Names, Verify(w, n) PROVE ConfinedInv'
    BY <1>1, SeedAlone DEF Verify, ConfinedInv, TypeOK, Idle, PersonOf
  <1>2. ASSUME NEW w \in Workers, NEW k \in Tokens, Begin(w, k) PROVE ConfinedInv'
    BY <1>2 DEF Begin, Finish, ConfinedInv, TypeOK, Idle
  <1>3. ASSUME NEW w \in Workers, NEW k \in DOMAIN sessions,
               NEW idle \in SUBSET DOMAIN sessions, Resolve(w, k, idle)
        PROVE ConfinedInv'
    BY <1>3 DEF Resolve, Asking, Drop, Restrict, ConfinedInv, TypeOK, Idle
  <1>4. ASSUME NEW w \in Workers, NEW n \in Names, ResolveProxy(w, n) PROVE ConfinedInv'
    BY <1>4, SeedAlone DEF ResolveProxy, Asking, ConfinedInv, TypeOK, Idle, PersonOf
  <1>5. ASSUME NEW w \in Workers, NEW req \in Request, NEW role \in Roles,
               Refuse(w, req, role)
        PROVE ConfinedInv'
    BY <1>5 DEF Refuse, Finish, ConfinedInv, TypeOK, Idle
  <1>6. ASSUME NEW w \in Workers, NEW req \in Request, NEW role \in Roles,
               \/ AddUser(w, req, role) \/ RemoveUser(w, req, role)
               \/ SetRole(w, req, role) \/ SetPassword(w, req, role)
        PROVE ConfinedInv'
    <2>1. ~Fresh(accounts')
      BY <1>6, ChangeEndsFresh
    <2>2. PICK account : Change(w, req, role, account)
      BY <1>6 DEF AddUser, RemoveUser, SetRole, SetPassword
    <2>3. \A v \in Workers : worker'[v].pc = "commit" =>
                             worker[v].pc = "commit" /\ worker'[v].snap = worker[v].snap
      BY <2>2 DEF Change, TypeOK, Worker
    <2> QED
      BY <2>1, <2>2, <2>3 DEF Change, ConfinedInv
  <1>7. ASSUME NEW w \in Workers, Snapshot(w) PROVE ConfinedInv'
    <2>1. ~Fresh(accounts)
      BY <1>7 DEF Snapshot, ConfinedInv
    <2> QED
      BY <1>7, <2>1 DEF Snapshot, ConfinedInv, TypeOK, Worker
  <1>8. ASSUME NEW w \in Workers, Commit(w) PROVE ConfinedInv'
    <2>1. ~Fresh(accounts) /\ ~Fresh(worker[w].snap)
      BY <1>8 DEF Commit, ConfinedInv
    <2>2. \A v \in Workers : worker'[v].pc = "commit" => worker'[v] = worker[v]
      BY <1>8 DEF Commit, Finish, Idle, AfterSave, TypeOK, Worker
    <2> QED
      BY <1>8, <2>1, <2>2 DEF Commit, ConfinedInv
  <1>9. ASSUME NEW w \in Workers, CommitFails(w) \/ ClearMustChange(w) \/ EndAllFor(w)
        PROVE ConfinedInv'
    <2>1. ~Fresh(accounts)
      BY <1>9 DEF CommitFails, ClearMustChange, EndAllFor, ConfinedInv
    <2>2. \A v \in Workers : worker'[v].pc = "commit" => worker'[v] = worker[v]
      BY <1>9 DEF CommitFails, ClearMustChange, EndAllFor, Become, Finish, Idle, TypeOK, Worker
    <2>3. UNCHANGED <<accounts, disk>>
      BY <1>9 DEF CommitFails, ClearMustChange, EndAllFor
    <2> QED
      BY <2>1, <2>2, <2>3 DEF ConfinedInv
  <1>10. ASSUME Leave PROVE ConfinedInv'
    BY <1>10 DEF Leave, ResolveNobody, Logout, Drop, Restrict, ConfinedInv
  <1>11. ASSUME Restart PROVE ConfinedInv'
    <2>1. accounts' = Seeded \/ ~Fresh(accounts')
      BY <1>11 DEF Restart, ConfinedInv
    <2>2. Fresh(disk') => disk' = Seeded
      BY <1>11 DEF Restart, ConfinedInv
    <2> QED
      BY <1>11, <2>1, <2>2 DEF Restart, ConfinedInv, Idle
  <1>12. CASE UNCHANGED vars
    BY <1>12 DEF vars, ConfinedInv
  <1> QED
    BY <1>1, <1>2, <1>3, <1>4, <1>5, <1>6, <1>7, <1>8, <1>9, <1>10, <1>11, <1>12
       DEF Next, Login, Ask, Act, Finalise

(* ShippedIsAlone and UnconfinedMeansChanged hold whatever the number of   *)
(* people signing in, and through every failed save and restart.           *)
THEOREM ShippedPasswordConfines == Spec => [](ShippedIsAlone /\ UnconfinedMeansChanged)
  <1>1. Init => ConfinedInv
    BY SeedAlone DEF Init, ConfinedInv, Idle
  <1> QED
    BY <1>1, ConfinedStep, ConfinedGivesProperties, TypeCorrect, PTL DEF Spec

(* Of the two, by itself: no session is unconfined while its account still *)
(* has the shipped password, whatever sign-ins, changes and failed saves   *)
(* overlap (begin() copies must_change, clear_must_change() comes after    *)
(* set_password()).                                                        *)
THEOREM UnconfinedHaveChanged == Spec => []UnconfinedMeansChanged
  BY ShippedPasswordConfines, PTL

(***************************************************************************)
(* Revocation reaches the sessions.  The property is inductive as it       *)
(* stands: a worker that owes an end_all_for keeps owing it until it does  *)
(* it or its save fails, and whoever outdates a session owes one.          *)
(***************************************************************************)
Owes(w, n) == /\ worker[w].pc \in {"snapshot", "commit", "clear", "end_all"}
              /\ worker[w].req.name = n
              /\ Revokes(w)

LEMMA RevocationStep == TypeOK /\ RevocationReachesSessions /\ [Next]_vars
                          => RevocationReachesSessions'
  <1> SUFFICES ASSUME TypeOK, RevocationReachesSessions, [Next]_vars
               PROVE  RevocationReachesSessions'
    OBVIOUS
  <1> DEFINE ReachedBy == \A k \in DOMAIN sessions :
               sessions[k].outdated => \/ sessions[k].excuse # "none"
                                       \/ \E w \in Workers : Owes(w, sessions[k].user)
  <1>0. RevocationReachesSessions <=> ReachedBy
    BY DEF RevocationReachesSessions, PendingEnd, Owes
  <1>. SUFFICES ReachedBy'
    BY DEF RevocationReachesSessions, PendingEnd, Owes
  <1> HIDE DEF ReachedBy
  <1>1. ASSUME NEW w \in Workers, worker[w].pc \in {"idle", "begin", "act"},
               \A v \in Workers \ {w} : worker'[v] = worker[v],
               \A k \in DOMAIN sessions' :
                 \/ k \in DOMAIN sessions /\ sessions'[k] = sessions[k]
                 \/ sessions'[k].outdated => sessions'[k].excuse # "none"
        PROVE  ReachedBy'
    <2>1. \A v \in Workers, n \in Names : Owes(v, n) => Owes(v, n)'
      BY <1>1 DEF Owes, Revokes, Revoking
    <2> QED
      BY <1>0, <1>1, <2>1 DEF ReachedBy, TypeOK, Session
  <1>2. ASSUME NEW w \in Workers, NEW n \in Names, Verify(w, n) PROVE ReachedBy'
    BY <1>1, <1>2 DEF Verify, TypeOK
  <1>3. ASSUME NEW w \in Workers, NEW k \in Tokens, Begin(w, k) PROVE ReachedBy'
    <2>1. \A t \in DOMAIN sessions' :
             \/ t \in DOMAIN sessions /\ sessions'[t] = sessions[t]
             \/ sessions'[t].outdated => sessions'[t].excuse # "none"
      BY <1>3 DEF Begin
    <2> QED
      BY <1>1, <1>3, <2>1 DEF Begin, Finish, TypeOK
  <1>4. ASSUME NEW w \in Workers, Ask(w) PROVE ReachedBy'
    BY <1>1, <1>4 DEF Ask, Resolve, ResolveProxy, Asking, Drop, Restrict, TypeOK
  <1>5. ASSUME NEW w \in Workers, NEW req \in Request, NEW role \in Roles,
               Refuse(w, req, role)
        PROVE ReachedBy'
    BY <1>1, <1>5 DEF Refuse, Finish, TypeOK
  <1>6. ASSUME NEW w \in Workers, NEW req \in Request, NEW role \in Roles,
               \/ AddUser(w, req, role) \/ RemoveUser(w, req, role)
               \/ SetRole(w, req, role) \/ SetPassword(w, req, role)
        PROVE ReachedBy'
    <2>1. PICK account : Change(w, req, role, account)
      BY <1>6 DEF AddUser, RemoveUser, SetRole, SetPassword
    <2>2. \A v \in Workers \ {w} : /\ worker'[v].pc = worker[v].pc
                                   /\ worker'[v].req = worker[v].req
                                   /\ worker'[v].who.user = worker[v].who.user
      BY <2>1 DEF Change, TypeOK, Worker, Person
    <2>3. worker[w].pc = "act"
      BY <2>1 DEF Change
    <2>4. \A v \in Workers, n \in Names : Owes(v, n) => Owes(v, n)'
      BY <2>2, <2>3 DEF Owes, Revokes, Revoking
    <2>5. Revoking(worker[w].who, req) => Owes(w, req.name)'
      BY <2>1 DEF Change, Owes, Revokes, Revoking, TypeOK, Worker
    <2>6. DOMAIN sessions' = DOMAIN sessions
      BY <2>1 DEF Change
    <2>7. ASSUME NEW k \in DOMAIN sessions
          PROVE  /\ sessions'[k].user = sessions[k].user
                 /\ sessions'[k].excuse = sessions[k].excuse
                 /\ sessions'[k].outdated =>
                      \/ sessions[k].outdated
                      \/ Revoking(worker[w].who, req) /\ sessions[k].user = req.name
      BY <2>1 DEF Change, TypeOK, Session
    <2> QED
      BY <1>0, <2>4, <2>5, <2>6, <2>7 DEF ReachedBy, TypeOK, Session
  <1>7. ASSUME NEW w \in Workers, Snapshot(w) \/ Commit(w) PROVE ReachedBy'
    <2>1. \A v \in Workers \ {w} : worker'[v] = worker[v]
      BY <1>7 DEF Snapshot, Commit, Finish, TypeOK
    <2>2. \A n \in Names : Owes(w, n) => Owes(w, n)'
      BY <1>7 DEF Snapshot, Commit, Finish, Owes, Revokes, Revoking, AfterSave, TypeOK, Worker
    <2>3. \A v \in Workers, n \in Names : Owes(v, n) => Owes(v, n)'
      BY <2>1, <2>2 DEF Owes, Revokes, Revoking
    <2> QED
      BY <1>0, <1>7, <2>3 DEF Snapshot, Commit, ReachedBy, TypeOK, Session
  <1>8. ASSUME NEW w \in Workers, CommitFails(w) PROVE ReachedBy'
    <2>1. \A v \in Workers \ {w}, n \in Names : Owes(v, n) => Owes(v, n)'
      BY <1>8 DEF CommitFails, Finish, Owes, Revokes, Revoking, TypeOK
    <2>2. DOMAIN sessions' = DOMAIN sessions
      BY <1>8 DEF CommitFails
    <2>3. ASSUME NEW k \in DOMAIN sessions
          PROVE  /\ sessions'[k].user = sessions[k].user
                 /\ sessions'[k].outdated = sessions[k].outdated
                 /\ sessions[k].excuse # "none" => sessions'[k].excuse # "none"
                 /\ sessions[k].outdated /\ Owes(w, sessions[k].user)
                      => sessions'[k].excuse # "none"
      BY <1>8 DEF CommitFails, Owes, TypeOK, Session
    <2> QED
      BY <1>0, <2>1, <2>2, <2>3 DEF ReachedBy, TypeOK, Session
  <1>9. ASSUME NEW w \in Workers, ClearMustChange(w) PROVE ReachedBy'
    <2>1. \A v \in Workers \ {w}, n \in Names : Owes(v, n) => Owes(v, n)'
      BY <1>9 DEF ClearMustChange, Become, Finish, Owes, Revokes, Revoking, TypeOK
    <2>2. \A n \in Names : Owes(w, n) => Owes(w, n)'
      <3>1. CASE Revokes(w)
        BY <1>9, <3>1 DEF ClearMustChange, Become, Owes, Revokes, Revoking, TypeOK, Worker
      <3>2. CASE ~Revokes(w)
        BY <3>2 DEF Owes
      <3> QED
        BY <3>1, <3>2
    <2>3. DOMAIN sessions' = DOMAIN sessions
      BY <1>9 DEF ClearMustChange
    <2>4. ASSUME NEW k \in DOMAIN sessions
          PROVE  /\ sessions'[k].user = sessions[k].user
                 /\ sessions'[k].outdated = sessions[k].outdated
                 /\ sessions'[k].excuse = sessions[k].excuse
      BY <1>9 DEF ClearMustChange, TypeOK, Session
    <2> QED
      BY <1>0, <2>1, <2>2, <2>3, <2>4 DEF ReachedBy, TypeOK, Session
  <1>10. ASSUME NEW w \in Workers, EndAllFor(w) PROVE ReachedBy'
    <2>1. \A v \in Workers \ {w}, n \in Names : Owes(v, n) => Owes(v, n)'
      BY <1>10 DEF EndAllFor, Finish, Owes, Revokes, Revoking, TypeOK
    <2>2. \A k \in DOMAIN sessions' :
             /\ k \in DOMAIN sessions /\ sessions'[k] = sessions[k]
             /\ ~Owes(w, sessions[k].user)
      BY <1>10 DEF EndAllFor, Drop, Restrict, Owes
    <2> QED
      BY <1>0, <2>1, <2>2 DEF ReachedBy, TypeOK, Session
  <1>11. ASSUME Leave PROVE ReachedBy'
    <2>1. \A k \in DOMAIN sessions' : k \in DOMAIN sessions /\ sessions'[k] = sessions[k]
      BY <1>11 DEF Leave, ResolveNobody, Logout, Drop, Restrict
    <2>2. \A v \in Workers, n \in Names : Owes(v, n) => Owes(v, n)'
      BY <1>11 DEF Leave, ResolveNobody, Logout, Owes, Revokes, Revoking
    <2> QED
      BY <1>0, <2>1, <2>2 DEF ReachedBy, TypeOK, Session
  <1>12. CASE Restart
    BY <1>12 DEF Restart, ReachedBy
  <1>13. CASE UNCHANGED vars
    BY <1>0, <1>13 DEF vars, ReachedBy, Owes, Revokes, Revoking
  <1> QED
    BY <1>2, <1>3, <1>4, <1>5, <1>6, <1>7, <1>8, <1>9, <1>10, <1>11, <1>12, <1>13
       DEF Next, Login, Act, Finalise

(* RevocationReachesSessions holds for any number of messages in flight.   *)
THEOREM RevocationHolds == Spec => []RevocationReachesSessions
  <1>1. Init => RevocationReachesSessions
    BY DEF Init, RevocationReachesSessions
  <1> QED
    BY <1>1, RevocationStep, TypeCorrect, PTL DEF Spec
=============================================================================
