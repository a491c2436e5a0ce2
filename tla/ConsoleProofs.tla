---------------------------- MODULE ConsoleProofs ----------------------------
(***************************************************************************)
(* Proofs about the parts of the page.  A section is about one part, with  *)
(* the names that Console gives its definitions; v1, v2 .. are that part's *)
(* variables, in the order of its INSTANCE in Console.  It says that the   *)
(* part's invariant holds at first, that each of its steps keeps it, and   *)
(* what follows from it; the last section puts the parts together.         *)
(***************************************************************************)
EXTENDS FiniteSetTheorems, SequenceTheorems, WellFoundedInduction, TLAPS, Console

-----------------------------------------------------------------------------
(* Sets of naturals. *)

\* A set of naturals that is not empty has a least element, and if it is finite a greatest.
LEMMA Least ==
  ASSUME NEW S \in SUBSET Nat, S # {}
  PROVE  \E x \in S : \A y \in S : x <= y
<1> DEFINE R == {ss \in Nat \X Nat : ss[1] < ss[2]}
<1>1. IsWellFoundedOn(R, Nat)
  BY NatLessThanWellFounded DEF OpToRel
<1>2. \A x, y \in Nat : y < x => <<y, x>> \in R
  OBVIOUS
<1> HIDE DEF R
<1>3. PICK x \in S : \A y \in S : ~(<<y, x>> \in R)
  BY <1>1, WFMin
<1>4. \A y \in S : x <= y
  <2> TAKE y \in S
  <2>1. x \in Nat /\ y \in Nat /\ ~(y < x)
    BY <1>2, <1>3
  <2> QED
    BY <2>1
<1> QED
  BY <1>4

\* What holds of 0 and of every successor up to N holds of all numbers up to N.
LEMMA UpTo ==
  ASSUME NEW N \in Nat, NEW S, 0 \in S, \A n \in 0..N : n \in S /\ n + 1 \in 0..N => n + 1 \in S
  PROVE  0..N \subseteq S
<1> DEFINE T == {n \in 0..N : n \notin S}
<1>1. CASE T = {}
  BY <1>1
<1>2. CASE T # {}
  <2>1. T \in SUBSET Nat
    OBVIOUS
  <2> HIDE DEF T
  <2>2. PICK x \in T : \A y \in T : x <= y
    BY <1>2, <2>1, Least
  <2> USE DEF T
  <2>3. x \in 0..N /\ x # 0 /\ x - 1 \in 0..N
    BY <2>2
  <2>4. x - 1 \in S
    BY <2>2, <2>3
  <2>5. (x - 1) + 1 = x
    BY <2>3
  <2> QED
    BY <2>2, <2>3, <2>4, <2>5
<1> QED
  BY <1>1, <1>2

LEMMA Greatest ==
  ASSUME NEW S \in SUBSET Nat, IsFiniteSet(S), S # {}
  PROVE  \E x \in S : \A y \in S : y <= x
<1> DEFINE Above(x) == {y \in S : x < y}
           T == {Above(x) : x \in S}
<1>1. PICK A \in T : \A B \in T : ~(<<B, A>> \in StrictSubsetOrdering(S))
  <2>1. T \subseteq FiniteSubsetsOf(S) /\ T # {}
    <3>1. \A U \in SUBSET S : IsFiniteSet(U)
      BY FS_Subset
    <3> QED
      BY <3>1 DEF FiniteSubsetsOf
  <2> HIDE DEF T
  <2> QED
    BY <2>1, WFMin, FS_StrictSubsetOrderingWellFounded
<1>2. PICK x \in S : A = Above(x)
  OBVIOUS
<1>3. ASSUME NEW y \in S, x < y
      PROVE  FALSE
  <2>1. Above(y) \in T /\ Above(y) \subseteq Above(x) /\ y \in Above(x) /\ y \notin Above(y)
    <3>1. ~(y < y) /\ \A z \in S : y < z => x < z
      BY <1>3
    <3> QED
      BY <1>3, <3>1, Zenon
  <2>2. Above(x) \in SUBSET S /\ Above(y) \in SUBSET S
    OBVIOUS
  <2> QED
    BY <1>1, <1>2, <2>1, <2>2 DEF StrictSubsetOrdering
<1>4. \A y \in S : y <= x
  BY <1>3
<1> QED
  BY <1>4

\* Every rank in a finite set is some element's.
LEMMA EveryRank ==
  ASSUME NEW n \in Nat, NEW S \in SUBSET (1..n), NEW r \in Nat, r < Cardinality(S)
  PROVE  \E i \in S, B \in SUBSET S : (\A j \in S : j \in B <=> j < i) /\ Cardinality(B) = r
<1> DEFINE Below(i) == {j \in S : j < i}
           T == {i \in S : r <= Cardinality(Below(i))}
<1>1. IsFiniteSet(S) /\ \A U \in SUBSET S : IsFiniteSet(U) /\ Cardinality(U) \in Nat
  <2>1. IsFiniteSet(1..n)
    BY FS_Interval
  <2>2. IsFiniteSet(S)
    BY <2>1, FS_Subset
  <2> QED
    BY <2>2, FS_Subset, FS_CardinalityType
<1>2. S \in SUBSET Nat /\ S # {} /\ \A j \in S : j \in 1..n /\ j \in Int
  BY <1>1, FS_EmptySet
<1>3. PICK top \in S : \A y \in S : y <= top
  BY <1>1, <1>2, Greatest
<1>4. Below(top) = S \ {top}
  <2>1. \A j \in S : j < top <=> j # top
    BY <1>2, <1>3
  <2> QED
    BY <2>1, Zenon
<1>5. top \in T
  <2>1. Cardinality(S \ {top}) = Cardinality(S) - 1
    BY <1>1, FS_RemoveElement
  <2> QED
    BY <1>1, <1>4, <2>1
<1>6. PICK i \in T : \A y \in T : i <= y
  <2>1. T \in SUBSET S
    BY Zenon
  <2> HIDE DEF T
  <2>2. T \in SUBSET Nat /\ T # {}
    BY <1>2, <1>5, <2>1
  <2> QED
    BY <2>2, Least
<1>7. ASSUME r < Cardinality(Below(i))
      PROVE  FALSE
  <2>1. Below(i) \in SUBSET Nat /\ Below(i) \in SUBSET S
    BY <1>2
  <2>2. PICK j \in Below(i) : \A y \in Below(i) : y <= j
    <3>1. Below(i) # {}
      BY <1>7, FS_EmptySet
    <3> HIDE DEF Below
    <3> QED
      BY <1>1, <2>1, <3>1, Greatest
  <2>3. Below(j) = Below(i) \ {j}
    <3>1. \A y \in S : y < j <=> y < i /\ y # j
      BY <1>2, <2>2
    <3> QED
      BY <3>1, Zenon
  <2>4. Cardinality(Below(i) \ {j}) = Cardinality(Below(i)) - 1
    <3> HIDE DEF Below
    <3> QED
      BY <1>1, <2>1, <2>2, FS_RemoveElement
  <2> QED
    BY <1>1, <1>2, <1>6, <1>7, <2>1, <2>2, <2>3, <2>4
<1>8. Below(i) \in SUBSET S /\ Cardinality(Below(i)) = r /\ \A j \in S : j \in Below(i) <=> j < i
  BY <1>1, <1>6, <1>7
<1> HIDE DEF Below
<1> QED
  BY <1>6, <1>8

-----------------------------------------------------------------------------
(* Session *)

\* A session that is not live is nobody's; and a refusal is always of the session the page has,
\* since no answer outlives the page that asked.
LEMMA SessionInit == Se!Init => Se!SessionInv
BY DEF Se!Init, Se!SessionInv, Se!TypeOK, Se!NoAnswerOutlivesItsPage, Se!TheAppHasItsHolder

LEMMA SessionStep ==
  ASSUME Se!SessionInv, [Se!Next]_(Se!vars)
  PROVE  Se!SessionInv' /\ Se!DropsNoLiveSession
<1> USE SessionAssumption DEF Se!SessionInv, Se!TypeOK, Se!NoAnswerOutlivesItsPage,
        Se!TheAppHasItsHolder, Se!DropsNoLiveSession
<1>1. ASSUME NEW t \in Token, Se!Lapse(t)
      PROVE  Se!SessionInv' /\ Se!DropsNoLiveSession
  BY <1>1 DEF Se!Lapse
<1>2. ASSUME NEW t \in Token, Se!SignIn(t)
      PROVE  Se!SessionInv' /\ Se!DropsNoLiveSession
  BY <1>2 DEF Se!SignIn
<1>3. CASE Se!GateOnAuth
  BY <1>3 DEF Se!GateOnAuth
<1>4. CASE Se!ChangePassword
  <2>1. CASE v4 \in v1
    BY <1>4, <2>1 DEF Se!ChangePassword
  <2>2. CASE v4 \notin v1
    BY <1>4, <2>2 DEF Se!ChangePassword
  <2> QED
    BY <2>1, <2>2
<1>5. CASE Se!Ask
  BY <1>5 DEF Se!Ask
<1>6. ASSUME NEW t \in Token \cup {None}, Se!Served(t)
      PROVE  Se!SessionInv' /\ Se!DropsNoLiveSession
  BY <1>6 DEF Se!Served, Se!Answered
<1>7. ASSUME NEW t \in Token \cup {None}, Se!Refused(t)
      PROVE  Se!SessionInv' /\ Se!DropsNoLiveSession
  <2>1. CASE v4 = None
    BY <1>7, <2>1 DEF Se!Refused, Se!Answered
  <2>2. CASE v4 = t /\ v6
    BY <1>7, <2>2 DEF Se!Refused, Se!SessionLost, Se!Answered, Se!Reload
  <2>3. CASE v4 = t /\ ~v6
    BY <1>7, <2>3 DEF Se!Refused, Se!SessionLost, Se!Answered, Se!Reload
  <2> QED
    BY <1>7, <2>1, <2>2, <2>3 DEF Se!Refused
<1>8. CASE Se!SignOut \/ Se!SignedOut \/ Se!PressReload
  BY <1>8 DEF Se!SignOut, Se!SignedOut, Se!PressReload, Se!Reload
<1>9. CASE UNCHANGED Se!vars
  BY <1>9 DEF Se!vars
<1> QED
  BY <1>1, <1>2, <1>3, <1>4, <1>5, <1>6, <1>7, <1>8, <1>9 DEF Se!Next

-----------------------------------------------------------------------------
(* Navigation *)

\* No cluster is called All, so the first of a config is none of the fleet's names.
LEMMA FirstIsACluster ==
  ASSUME NEW f \in Fleets, f # <<>>
  PROVE  f[1] # All
BY NavigationAssumption

LEMMA NavigationInit == Na!Init => Na!NavigationInv
<1> SUFFICES ASSUME Na!Init
             PROVE  Na!NavigationInv
  OBVIOUS
<1>1. v2 # <<>> => v2[1] # All
  BY FirstIsACluster DEF Na!Init
<1> QED
  BY <1>1 DEF Na!Init, Na!Resolved, Na!NavigationInv, Na!ShowsWhatWasChosen, Na!FleetIsWantedBack

\* An arrival shows what was chosen, if the selection it comes with is that or the fleet's.
LEMMA GoShowsWhatWasChosen ==
  ASSUME NEW f \in Fleets, NEW p, NEW s, NEW c, NEW ask,
         c # All => s = c,
         v2' = f, v7' = c, v6' = ask,
         Na!Go(p, f, s, c = All, ask)
  PROVE  Na!ShowsWhatWasChosen'
BY FirstIsACluster DEF Na!Go, Na!Resolved, Na!ShowsWhatWasChosen

LEMMA NavigationStep ==
  ASSUME Na!NavigationInv, [Na!Next]_(Na!vars)
  PROVE  Na!NavigationInv'
<1> USE DEF Na!NavigationInv, Na!FleetIsWantedBack
<1>1. ASSUME NEW v \in Na!Members(v2) \cup {All}, Na!Pick(v)
      PROVE  Na!NavigationInv'
  BY <1>1, GoShowsWhatWasChosen DEF Na!Pick
<1>2. ASSUME NEW p, Na!Open(p)
      PROVE  Na!NavigationInv'
  BY <1>2, GoShowsWhatWasChosen DEF Na!Open, Na!ShowsWhatWasChosen
<1>3. ASSUME NEW p, NEW c \in Na!Members(v2), Na!HandOff(p, c)
      PROVE  Na!NavigationInv'
  BY <1>3, NavigationAssumption DEF Na!HandOff, Na!Go, Na!Resolved, Na!ShowsWhatWasChosen
<1>4. ASSUME NEW f \in Fleets, Na!Focused(f)
      PROVE  Na!NavigationInv'
  BY <1>4, GoShowsWhatWasChosen DEF Na!Focused, Na!ShowsWhatWasChosen
<1>5. CASE UNCHANGED Na!vars
  BY <1>5 DEF Na!vars, Na!ShowsWhatWasChosen
<1> QED
  BY <1>1, <1>2, <1>3, <1>4, <1>5 DEF Na!Next

-----------------------------------------------------------------------------
(* Unlock *)

\* The dialog counts as this module does: each has its own instance of FiniteSets.
LEMMA UnlockCounts == \A S : Un!Cardinality(S) = Cardinality(S)
BY DEF IsFiniteSet, Un!IsFiniteSet, Cardinality, Un!Cardinality

LEMMA SwitchInit == Un!Init => Un!UnlockInv
BY DEF Un!Init, Un!UnlockInv, Un!Message

\* Whatever the core's switch becomes, what was answered before is outdated or as it is now.
LEMMA SwitchOutdates ==
  ASSUME Un!UnlockInv, NEW v \in BOOLEAN, NEW others \in SUBSET v6, NEW answers \in SUBSET Un!Message,
         \A x \in answers : x.says = Un!Said(v), Un!Switch(v, others, answers)
  PROVE  /\ v2' = v /\ v6' \subseteq Un!Message
         /\ \A x \in v6' : x.current => x.says = Un!Said(v)
         /\ v7' => v5 = v
<1> DEFINE Now(x) == [x EXCEPT !.current = @ /\ v = v2]
<1>1. v6' = {Now(x) : x \in others} \cup answers /\ v2' = v
  BY DEF Un!Switch
<1>2. \A x \in others : Now(x) \in Un!Message /\ (Now(x).current => x.current /\ v = v2) /\ Now(x).says = x.says
  BY DEF Un!UnlockInv, Un!Message
<1> HIDE DEF Now
<1> QED
  BY <1>1, <1>2 DEF Un!UnlockInv, Un!Switch

LEMMA SwitchStep ==
  ASSUME Un!UnlockInv, [Un!Next]_(Un!vars)
  PROVE  Un!UnlockInv'
<1>1. ASSUME NEW want \in {"ping", "on", "off"}, v1 = "switch", Un!Ask(want)
      PROVE  Un!UnlockInv'
  <2> DEFINE m == [want |-> want, says |-> "asked", current |-> FALSE]
  <2>1. m \in Un!Message /\ ~m.current
    BY DEF Un!Message
  <2>2. v6' = v6 \cup {m} /\ UNCHANGED <<v1, v2, v3, v5, v4, v7>>
    BY <1>1 DEF Un!Ask
  <2> HIDE DEF m
  <2> QED
    BY <1>1, <2>1, <2>2 DEF Un!UnlockInv
<1>2. ASSUME NEW x \in v6, v1 = "switch", Un!Handle(x)
      PROVE  Un!UnlockInv'
  <2> DEFINE v == IF x.want = "ping" THEN v2 ELSE x.want = "on"
             answer == [x EXCEPT !.says = Un!Said(v), !.current = TRUE]
             failure == [x EXCEPT !.says = "failed"]
  <2>1. CASE Un!Switch(v, v6 \ {x}, {answer})
    <3>1. v \in BOOLEAN /\ answer \in Un!Message /\ answer.says = Un!Said(v)
      BY DEF Un!UnlockInv, Un!Message, Un!Said
    <3> HIDE DEF v, answer
    <3>2. /\ v2' = v /\ v6' \subseteq Un!Message
          /\ \A y \in v6' : y.current => y.says = Un!Said(v)
          /\ v7' => v5 = v
      BY <2>1, <3>1, SwitchOutdates
    <3> QED
      BY <1>2, <3>1, <3>2 DEF Un!Handle, Un!task, Un!UnlockInv
  <2>2. CASE v6' = (v6 \ {x}) \cup {failure} /\ UNCHANGED <<v2, v7>>
    <3>1. failure \in Un!Message /\ ~failure.current
      BY <1>2 DEF Un!Handle, Un!UnlockInv, Un!Message, Un!Said
    <3> QED
      BY <1>2, <2>2, <3>1 DEF Un!Handle, Un!task, Un!UnlockInv
  <2> QED
    BY <1>2, <2>1, <2>2 DEF Un!Handle
<1>3. ASSUME NEW x \in v6, v1 = "switch", Un!Answer(x)
      PROVE  Un!UnlockInv'
  BY <1>3 DEF Un!Answer, Un!task, Un!Shown, Un!Said, Un!UnlockInv, Un!Message
<1>4. CASE v1 = "task" /\ Un!Task
  <2>1. CASE Un!EnsureWrites
    BY <1>4, <2>1 DEF Un!EnsureWrites, Un!task, Un!UnlockInv
  <2>2. CASE UNCHANGED <<v1, Un!switch>>
    BY <2>2 DEF Un!switch, Un!UnlockInv
  <2> QED
    BY <1>4, <2>1, <2>2 DEF Un!Task, Un!Tick, Un!Create, Un!Return, Un!Start, Un!RunNext, Un!Reconfigure
<1>5. CASE Un!Elsewhere
  <2>1. v1 = "task" => v6' = {}
    BY <1>5 DEF Un!Elsewhere, Un!Switch, Un!UnlockInv
  <2> QED
    BY <1>5, <2>1, SwitchOutdates DEF Un!Elsewhere, Un!task, Un!UnlockInv
<1>6. CASE Un!Reload \/ Un!Prime
  <2>1. UNCHANGED <<v1, v2, v5, v6, v7>> /\ v4' \in BOOLEAN /\ v3' \in BOOLEAN
    BY <1>6 DEF Un!Reload, Un!Prime, Un!UnlockInv
  <2> QED
    BY <2>1 DEF Un!UnlockInv
<1>7. CASE UNCHANGED Un!vars
  BY <1>7 DEF Un!vars, Un!switch, Un!UnlockInv
<1> QED
  BY <1>1, <1>2, <1>3, <1>4, <1>5, <1>6, <1>7 DEF Un!Next

LEMMA UnlockOffers == Un!UnlockInv => Un!OffersWhatTheCoreAllows
BY DEF Un!UnlockInv, Un!OffersWhatTheCoreAllows, Un!Offered, Un!Allowed

\* What is ticked is a list of listed clusters, none of them twice.
LEMMA TickedIsAList ==
  /\ Un!Ticked \in Seq(Un!Listed)
  /\ \A k, l \in DOMAIN Un!Ticked : Un!Ticked[k] = Un!Ticked[l] => k = l
<1> DEFINE at == {i \in DOMAIN ClusterList : ClusterList[i] \in v9}
           Below(i) == {j \in at : j < i}
           n == Un!Cardinality(at)
           pos == [k \in 1..n |-> CHOOSE i \in at : Un!Cardinality(Below(i)) = k - 1]
<1>1. at \in SUBSET (1..Len(ClusterList)) /\ Len(ClusterList) \in Nat /\ DOMAIN ClusterList = 1..Len(ClusterList)
  OBVIOUS
<1>2. n = Cardinality(at) /\ n \in Nat
  <2> HIDE DEF at
  <2>1. IsFiniteSet(1..Len(ClusterList))
    BY FS_Interval
  <2> QED
    BY <1>1, <2>1, FS_Subset, FS_CardinalityType, UnlockCounts
<1>3. Un!Ticked = [k \in 1..n |-> ClusterList[CHOOSE i \in at : Un!Cardinality(Below(i)) = k - 1]]
  BY DEF Un!Ticked
<1>4. \A k \in 1..n : pos[k] \in at /\ Un!Cardinality(Below(pos[k])) = k - 1
  <2> TAKE k \in 1..n
  <2>1. k - 1 \in Nat /\ k - 1 < Cardinality(at)
    BY <1>2
  <2>2. PICK i \in at, B \in SUBSET at : (\A j \in at : j \in B <=> j < i) /\ Cardinality(B) = k - 1
    <3> HIDE DEF at, Below, pos, n
    <3> QED
      BY <1>1, <2>1, EveryRank, Zenon
  <2>3. \E x \in at : Un!Cardinality(Below(x)) = k - 1
    BY <2>2, UnlockCounts
  <2> QED
    BY <2>3, Zenon
<1>5. Un!Ticked = [k \in 1..n |-> ClusterList[pos[k]]]
  BY <1>3
<1> HIDE DEF at, Below, pos, n
<1>6. \A k \in 1..n : ClusterList[pos[k]] \in Un!Listed /\ pos[k] \in DOMAIN ClusterList
  BY <1>1, <1>4 DEF Un!Listed
<1>7. Un!Ticked \in Seq(Un!Listed)
  BY <1>2, <1>5, <1>6
<1>8. ASSUME NEW k \in 1..n, NEW l \in 1..n, ClusterList[pos[k]] = ClusterList[pos[l]]
      PROVE  k = l
  <2>1. pos[k] = pos[l]
    BY <1>6, <1>8, UnlockAssumption
  <2>2. k - 1 = l - 1
    BY <1>4, <2>1
  <2> QED
    BY <2>2
<1> QED
  BY <1>5, <1>7, <1>8

LEMMA TaskInit == Un!Init => Un!TaskInv
BY DEF Un!Init, Un!TaskInv

\* What n results say of what was written to.
Tells(picked, out, n, wrote) ==
  /\ wrote \in SUBSET Un!Listed
  /\ \A w \in wrote : \E i \in 1..n : w = picked[i]
  /\ \A i \in 1..n : out[i] # "failed" => (out[i] = "applied" <=> picked[i] \in wrote)

\* `says` is a result for the next of a list without repetitions, and `now` holds it if it should.
Follows(picked, out, m, wrote, n, says, now) ==
  /\ \A i, j \in DOMAIN picked : picked[i] = picked[j] => i = j
  /\ m = Len(out) /\ Tells(picked, out, m, wrote)
  /\ n = m + 1 /\ n <= Len(picked)
  /\ now \in {wrote, wrote \cup {picked[n]}}
  /\ says = "applied" => now # wrote
  /\ now # wrote => says = "applied" \/ says = "failed"

LEMMA OneResultMore ==
  ASSUME NEW picked \in Seq(Un!Listed), NEW out \in Seq(Un!Result), NEW m \in Nat, NEW n \in Nat,
         NEW wrote, NEW says \in Un!Result, NEW now, Follows(picked, out, m, wrote, n, says, now),
         NEW new, new = Append(out, says)
  PROVE  Tells(picked, new, n, now)
<1> USE DEF Tells, Follows
<1> QED
  OBVIOUS

LEMMA RunOf ==
  ASSUME NEW phase \in {"asks", "runs", "ran"}, NEW picked \in Seq(Un!Listed), NEW out \in Seq(Un!Result),
         NEW wrote \in SUBSET Un!Listed
  PROVE  [phase |-> phase, picked |-> picked, out |-> out, wrote |-> wrote] \in Un!Run
BY DEF Un!Run

LEMMA AnsweredKeepsTo ==
  ASSUME Un!TaskInv, v10 # None, v10.phase = "runs", Len(v10.out) < Len(v10.picked),
         NEW says \in Un!Result,
         NEW wrote \in {v10.wrote, v10.wrote \cup {v10.picked[Len(v10.out) + 1]}},
         says = "applied" => wrote = v10.wrote \cup {v10.picked[Len(v10.out) + 1]},
         wrote # v10.wrote => says = "applied" \/ says = "failed",
         v10' = Un!Answered([v10 EXCEPT !.wrote = wrote], says)
  PROVE  Un!TaskInv'
<1>1. PICK picked \in Seq(Un!Listed), out \in Seq(Un!Result),
           before \in SUBSET Un!Listed :
        picked = v10.picked /\ out = v10.out /\ before = v10.wrote
  BY DEF Un!TaskInv, Un!Run
<1>2. PICK m \in Nat, n \in Nat : m = Len(out) /\ n = m + 1
  OBVIOUS
<1>3. /\ \A i, j \in DOMAIN picked : picked[i] = picked[j] => i = j
      /\ \A w \in before : \E i \in 1..Len(out) : w = picked[i]
      /\ \A i \in DOMAIN out : out[i] # "failed" => (out[i] = "applied" <=> picked[i] \in before)
      /\ v10 \in Un!Run
  BY <1>1 DEF Un!TaskInv, Un!TasksKeepToTheirList
<1>4. n <= Len(picked) /\ Len(picked) \in Nat
  BY <1>1, <1>2
<1>5. PICK new : new = Append(out, says)
  OBVIOUS
<1>6. /\ new \in Seq(Un!Result)
      /\ Len(new) = n /\ DOMAIN new = 1..n
  BY <1>2, <1>5
<1>7. PICK phase \in {"ran", "runs"} :
        /\ phase = "ran" => n = Len(picked)
        /\ v10' = [phase |-> phase, picked |-> picked, out |-> new, wrote |-> wrote]
  <2>1. v10 = [phase |-> "runs", picked |-> picked, out |-> out, wrote |-> before]
    BY <1>1, <1>3 DEF Un!Run
  <2>2. v10' = [phase |-> IF n >= Len(picked) THEN "ran" ELSE "runs", picked |-> picked,
                out |-> new, wrote |-> wrote]
    BY <1>2, <1>5, <2>1 DEF Un!Answered, Un!Picked
  <2>3. CASE n >= Len(picked)
    BY <1>4, <2>2
  <2>4. CASE ~(n >= Len(picked))
    BY <2>2, <2>4
  <2> QED
    BY <2>3, <2>4
<1>8. Tells(picked, new, n, wrote)
  <2>1. Tells(picked, out, m, before)
    BY <1>2, <1>3 DEF Tells
  <2>2. picked[n] \notin before
    <3>1. \A i \in 1..Len(out) : picked[i] # picked[n]
      BY <1>2, <1>3, <1>4
    <3> QED
      BY <1>3, <3>1
  <2>3. Follows(picked, out, m, before, n, says, wrote)
    BY <1>1, <1>2, <1>3, <2>1, <2>2 DEF Follows
  <2> QED
    BY <1>5, <2>3, OneResultMore
<1>9. v10' \in Un!Run
  <2>1. wrote \in SUBSET Un!Listed /\ new \in Seq(Un!Result)
    BY <1>6, <1>8 DEF Tells
  <2> QED
    BY <1>7, <2>1, RunOf
<1>10. v10'.phase = phase /\ v10'.picked = picked /\ v10'.out = new /\ v10'.wrote = wrote
  BY <1>7
<1>11. DOMAIN picked = 1..Len(picked) /\ 1..n \subseteq 1..Len(picked)
  BY <1>4
<1>12. Un!TasksKeepToTheirList'
  BY <1>6, <1>7, <1>8, <1>10, <1>11 DEF Tells, Un!TasksKeepToTheirList
<1>13. v10'.wrote \subseteq {v10'.picked[i] : i \in 1..Len(v10'.out)}
  <2>1. \A w \in v10'.wrote : \E i \in 1..Len(v10'.out) : w = v10'.picked[i]
    <3>1. \A w \in wrote : \E i \in 1..n : w = picked[i]
      BY <1>8 DEF Tells
    <3> QED
      BY <1>6, <1>10, <3>1
  <2> QED
    BY <2>1
<1>14. Len(v10'.out) <= Len(v10'.picked)
  BY <1>4, <1>6, <1>10
<1>15. \A i, j \in DOMAIN v10'.picked : v10'.picked[i] = v10'.picked[j] => i = j
  BY <1>3, <1>10
<1> QED
  BY <1>9, <1>12, <1>13, <1>14, <1>15 DEF Un!TaskInv

LEMMA TaskStep == ASSUME Un!TaskInv, [Un!Next]_(Un!vars) PROVE Un!TaskInv'
<1>1. CASE Un!RunNext
  <2> DEFINE c == v10.picked[Len(v10.out) + 1]
  <2>1. v10 # None /\ v10.phase = "runs" /\ Len(v10.out) < Len(v10.picked)
    BY <1>1 DEF Un!RunNext, Un!Picked
  <2>2. PICK says \in Un!Result, wrote \in {v10.wrote, v10.wrote \cup {c}} :
          /\ says = "applied" => wrote = v10.wrote \cup {c}
          /\ wrote # v10.wrote => says = "applied" \/ says = "failed"
          /\ v10' = Un!Answered([v10 EXCEPT !.wrote = wrote], says)
    <3>1. [v10 EXCEPT !.wrote = v10.wrote] = v10
      BY <2>1 DEF Un!TaskInv, Un!Run
    <3>2. {"no client", "refused", "applied", "failed"} = Un!Result
      BY DEF Un!Result
    <3>3. /\ "no client" \in Un!Result /\ "refused" \in Un!Result /\ "applied" \in Un!Result /\ "failed" \in Un!Result
          /\ "no client" # "applied" /\ "refused" # "applied" /\ "failed" # "applied"
      BY <3>2
    <3>4. CASE \E says \in Un!Result : says # "applied" /\ v10' = Un!Answered(v10, says)
      BY <3>1, <3>4
    <3> QED
      BY <1>1, <3>3, <3>4 DEF Un!RunNext, Un!Picked
  <2> QED
    BY <2>1, <2>2, AnsweredKeepsTo
<1>2. CASE Un!Create
  <2>1. v10' = [phase |-> "asks", picked |-> Un!Ticked, out |-> <<>>, wrote |-> {}]
    BY <1>2 DEF Un!Create
  <2>2. /\ v10'.phase = "asks" /\ v10'.picked = Un!Ticked /\ v10'.out = <<>> /\ v10'.wrote = {}
    BY <2>1
  <2>3. v10' \in Un!Run /\ Len(v10'.out) = 0 /\ Len(v10'.picked) \in Nat /\ DOMAIN v10'.out = {}
    BY <2>1, TickedIsAList DEF Un!Run
  <2> QED
    BY <2>2, <2>3, TickedIsAList DEF Un!TaskInv, Un!TasksKeepToTheirList
<1>3. CASE Un!Start
  <2>1. v10' = [v10 EXCEPT !.phase = "runs"] /\ v10 # None
    BY <1>3 DEF Un!Start
  <2>2. /\ v10' \in Un!Run /\ v10'.phase = "runs"
        /\ v10'.picked = v10.picked /\ v10'.out = v10.out /\ v10'.wrote = v10.wrote
    BY <2>1 DEF Un!TaskInv, Un!Run
  <2> QED
    BY <2>1, <2>2 DEF Un!TaskInv, Un!TasksKeepToTheirList
<1>4. CASE Un!Return
  BY <1>4 DEF Un!Return, Un!TaskInv
<1>5. CASE UNCHANGED v10
  BY <1>5 DEF Un!TaskInv, Un!TasksKeepToTheirList
<1>6. CASE Un!Elsewhere \/ Un!Reload \/ Un!Prime
  BY <1>5, <1>6 DEF Un!Elsewhere, Un!Reload, Un!Prime, Un!task
<1>7. CASE UNCHANGED Un!vars
  BY <1>5, <1>7 DEF Un!vars, Un!task
<1>8. ASSUME NEW want, Un!Ask(want) PROVE Un!TaskInv'
  BY <1>5, <1>8 DEF Un!Ask, Un!task
<1>9. ASSUME NEW x, Un!Handle(x) \/ Un!Answer(x) PROVE Un!TaskInv'
  BY <1>5, <1>9 DEF Un!Handle, Un!Answer, Un!task
<1>10. ASSUME NEW x, Un!Tick(x) PROVE Un!TaskInv'
  BY <1>5, <1>10 DEF Un!Tick
<1>11. CASE Un!EnsureWrites \/ Un!Reconfigure
  BY <1>5, <1>11 DEF Un!EnsureWrites, Un!Reconfigure, Un!task
<1> QED
  BY <1>1, <1>2, <1>3, <1>4, <1>6, <1>7, <1>8, <1>9, <1>10, <1>11 DEF Un!Next, Un!Task

LEMMA UnlockInit == Un!Init => Un!UnlockInv /\ Un!TaskInv
BY SwitchInit, TaskInit

LEMMA UnlockStep == ASSUME Un!UnlockInv, Un!TaskInv, [Un!Next]_(Un!vars) PROVE Un!UnlockInv' /\ Un!TaskInv'
BY SwitchStep, TaskStep

LEMMA TaskHolds == Un!TaskInv => Un!TasksKeepToTheirList
BY DEF Un!TaskInv, Un!TasksKeepToTheirList

-----------------------------------------------------------------------------
(* Credentials *)

\* What holds of the way one cluster is reached.
Belongs(c, held, r, cred, late, forced) ==
  /\ r \in Cr!Reached /\ (r.source = "file" => ~r.needs)
  /\ r.source = "session" => cred # None /\ r.header = cred
  /\ r.source = "file" /\ c \notin late => r.header = IF held = "own" THEN "own" ELSE Cr!Opened[held]
  /\ held = "own" /\ r.source # "file" => c \in forced
  /\ r.needs <=> r.header = None

LEMMA EachBelongs ==
  Cr!CredentialsInv <=>
    /\ v2 \in [Cluster -> Cr!Reached]
    /\ v3 \in {None} \cup Cr!Typed /\ v4 \in {None} \cup Cr!Typed
    /\ DOMAIN v5 \subseteq Cluster /\ \A c \in DOMAIN v5 : v5[c] \in DOMAIN Cr!Opened
    /\ \A c \in Cluster : Belongs(c, v1[c], v2[c], v3, v7, v8)
BY DEF Cr!CredentialsInv, Cr!CredentialsAreWhereTheyBelong, Belongs

\* applySessionCredential, of one cluster.
LEMMA AppliedBelongs ==
  ASSUME NEW c \in Cluster, NEW held, NEW r, NEW old, NEW late, NEW forced,
         Belongs(c, held, r, old, late, forced),
         NEW cred \in {None} \cup Cr!Typed, NEW all \in BOOLEAN, cred = None => old = None
  PROVE  Belongs(c, held, IF cred # None /\ (r.needs \/ r.source = "session" \/ all)
                          THEN Cr!Stamp(cred, "session") ELSE r,
                 cred, late, IF all THEN Cluster ELSE forced)
<1>1. CASE cred # None /\ (r.needs \/ r.source = "session" \/ all)
  BY DEF Belongs, Cr!Stamp, Cr!Reached
<1>2. CASE ~(cred # None /\ (r.needs \/ r.source = "session" \/ all))
  BY <1>2 DEF Belongs
<1> QED
  BY <1>1, <1>2

LEMMA ParsedBelongs ==
  ASSUME NEW f, NEW c \in Cluster
  PROVE  Belongs(c, f[c], Cr!Parsed(f)[c], None, {}, {})
BY CredentialsAssumption DEF Belongs, Cr!Parsed, Cr!Stamp, Cr!Unusable, Cr!Reached

LEMMA CredentialsInit == Cr!Init => Cr!CredentialsInv
<1> SUFFICES ASSUME Cr!Init PROVE Cr!CredentialsInv
  OBVIOUS
<1>1. v2 = Cr!Parsed(v1) /\ v3 = None /\ DOMAIN v5 = {} /\ v7 = {} /\ v8 = {}
  BY DEF Cr!Init
<1>2. v4 \in {None} \cup Cr!Typed
  BY DEF Cr!Init, Cr!Typed
<1>3. \A c \in Cluster : Belongs(c, v1[c], v2[c], v3, v7, v8)
  BY <1>1, ParsedBelongs
<1>4. v2 \in [Cluster -> Cr!Reached]
  <2>1. \A c \in Cluster : v2[c] \in Cr!Reached
    BY <1>3 DEF Belongs
  <2> QED
    BY <1>1, <2>1 DEF Cr!Parsed
<1> QED
  BY <1>1, <1>2, <1>3, <1>4, EachBelongs

LEMMA CredentialsStep == ASSUME Cr!CredentialsInv, [Cr!Next]_(Cr!vars) PROVE Cr!CredentialsInv'
<1> USE EachBelongs
\* It is enough to look at each cluster.
<1>1. ASSUME v2' = [c \in Cluster |-> v2'[c]],
             v3' \in {None} \cup Cr!Typed, v4' \in {None} \cup Cr!Typed,
             DOMAIN v5' \subseteq Cluster, \A c \in DOMAIN v5' : v5'[c] \in DOMAIN Cr!Opened,
             \A c \in Cluster : Belongs(c, v1'[c], v2'[c], v3', v7', v8')
      PROVE  Cr!CredentialsInv'
  BY <1>1 DEF Cr!CredentialsInv, Cr!CredentialsAreWhereTheyBelong, Belongs
<1>2. ASSUME NEW f, Cr!SetConfig(f) PROVE Cr!CredentialsInv'
  <2>1. /\ v1' = f /\ v2' = Cr!Applied(Cr!Parsed(f), v3, FALSE) /\ v7' = {} /\ v8' = {}
        /\ UNCHANGED <<v3, v4, v5>>
    BY <1>2 DEF Cr!SetConfig
  <2>2. ASSUME NEW c \in Cluster
        PROVE  Belongs(c, v1'[c], v2'[c], v3', v7', v8')
    <3>1. Belongs(c, f[c], Cr!Parsed(f)[c], None, {}, {})
      BY ParsedBelongs
    <3>2. \A all \in BOOLEAN :
            Belongs(c, f[c], IF v3 # None /\ (Cr!Parsed(f)[c].needs \/ Cr!Parsed(f)[c].source = "session" \/ all)
                             THEN Cr!Stamp(v3, "session") ELSE Cr!Parsed(f)[c],
                    v3, {}, IF all THEN Cluster ELSE {})
      BY <3>1, AppliedBelongs
    <3> QED
      BY <2>1, <3>2 DEF Cr!Applied
  <2> QED
    BY <1>1, <2>1, <2>2 DEF Cr!Applied
<1>3. ASSUME NEW cred \in Cr!Typed, NEW all \in BOOLEAN, Cr!SetSessionCredential(cred, all),
             v4' \in {None} \cup Cr!Typed
      PROVE  Cr!CredentialsInv'
  <2>1. /\ v2' = Cr!Applied(v2, cred, all) /\ v3' = cred
        /\ UNCHANGED <<v1, v5, v7>>
        /\ v8' = IF all THEN Cluster ELSE v8
    BY <1>3 DEF Cr!SetSessionCredential
  <2>2. ASSUME NEW c \in Cluster
        PROVE  Belongs(c, v1'[c], v2'[c], v3', v7', v8')
    <3>1. Belongs(c, v1[c], IF cred # None /\ (v2[c].needs \/ v2[c].source = "session" \/ all)
                            THEN Cr!Stamp(cred, "session") ELSE v2[c],
                  cred, v7, IF all THEN Cluster ELSE v8)
      BY CredentialsAssumption, AppliedBelongs
    <3> QED
      BY <2>1, <3>1 DEF Cr!Applied
  <2> QED
    BY <1>1, <1>3, <2>1, <2>2 DEF Cr!Applied
<1>4. ASSUME NEW cred \in Cr!Typed, NEW all \in BOOLEAN, NEW remember, Cr!Connect(cred, all, remember)
      PROVE  Cr!CredentialsInv'
  BY <1>3, <1>4 DEF Cr!Connect
<1>5. CASE Cr!Unlock
  BY <1>1, <1>5 DEF Cr!Unlock
<1>6. CASE Cr!Unlocked
  <2>1. CASE UNCHANGED <<v2, v7, v8>>
    BY <1>1, <1>6, <2>1 DEF Cr!Unlocked
  <2>2. CASE /\ v2' = [c \in Cluster |-> IF c \in DOMAIN v5
                                        THEN Cr!Stamp(Cr!Opened[v5[c]], "file") ELSE v2[c]]
             /\ v7' = (v7 \ DOMAIN v5) \cup {c \in DOMAIN v5 : v1[c] # v5[c]}
             /\ v8' = v8 \ DOMAIN v5
    <3>1. UNCHANGED <<v1, v3, v4>> /\ DOMAIN v5' = {}
      BY <1>6 DEF Cr!Unlocked
    <3>2. ASSUME NEW c \in Cluster
          PROVE  Belongs(c, v1'[c], v2'[c], v3', v7', v8')
      <4>1. CASE c \in DOMAIN v5
        <5>1. /\ v2'[c] = Cr!Stamp(Cr!Opened[v5[c]], "file")
              /\ v5[c] \in DOMAIN Cr!Opened /\ (c \in v7' <=> v1[c] # v5[c])
          BY <2>2, <4>1
        <5> QED
          BY <3>1, <5>1, CredentialsAssumption DEF Belongs, Cr!Stamp, Cr!Opened, Cr!Reached
      <4>2. CASE c \notin DOMAIN v5
        BY <2>2, <3>1, <4>2 DEF Belongs
      <4> QED
        BY <4>1, <4>2
    <3> QED
      BY <1>1, <2>2, <3>1, <3>2
  <2> QED
    BY <1>6, <2>1, <2>2 DEF Cr!Unlocked
<1>7. CASE Cr!Seek
  BY <1>1, <1>7 DEF Cr!Seek
<1>8. CASE Cr!Found
  BY <1>1, <1>3, <1>8 DEF Cr!Found
<1>9. CASE Cr!ContinueAnonymously
  <2>1. /\ v2' = [c \in Cluster |-> [v2[c] EXCEPT !.anonymous = @ \/ v2[c].needs]]
        /\ UNCHANGED <<v1, v3, v4, v5, v7, v8>>
    BY <1>9 DEF Cr!ContinueAnonymously
  <2>2. ASSUME NEW c \in Cluster
        PROVE  Belongs(c, v1'[c], v2'[c], v3', v7', v8')
    <3>1. v2[c] \in Cr!Reached /\ v2'[c] = [v2[c] EXCEPT !.anonymous = @ \/ v2[c].needs]
      BY <2>1
    <3>2. /\ v2'[c] \in Cr!Reached /\ v2'[c].source = v2[c].source
          /\ v2'[c].needs = v2[c].needs /\ v2'[c].header = v2[c].header
      BY <3>1 DEF Cr!Reached
    <3> QED
      BY <2>1, <3>2 DEF Belongs
  <2> QED
    BY <1>1, <2>1, <2>2
<1>10. CASE Cr!ClearSessionCredential
  <2>1. /\ v2' = [c \in Cluster |-> IF v2[c].source = "session" THEN Cr!Unusable ELSE v2[c]]
        /\ v3' = None /\ UNCHANGED <<v1, v4, v5, v7, v8>>
    BY <1>10 DEF Cr!ClearSessionCredential
  <2>2. ASSUME NEW c \in Cluster
        PROVE  Belongs(c, v1'[c], v2'[c], v3', v7', v8')
    BY <2>1 DEF Belongs, Cr!Unusable, Cr!Reached
  <2> QED
    BY <1>1, <2>1, <2>2
<1>11. CASE UNCHANGED Cr!vars
  BY <1>1, <1>11 DEF Cr!vars
<1> QED
  BY <1>2, <1>4, <1>5, <1>6, <1>7, <1>8, <1>9, <1>10, <1>11 DEF Cr!Next

-----------------------------------------------------------------------------
(* ConfigEditor *)

LEMMA ConfigEditorInit == Ed!Init => Ed!SavedInv /\ Ed!MastersInv
<1> SUFFICES ASSUME Ed!Init PROVE Ed!SavedInv /\ Ed!MastersInv
  OBVIOUS
<1>1. v1 \in Ed!Config /\ Ed!Single(v1) /\ v2 = v1
  BY DEF Ed!Init, Ed!Config
<1>2. v4 = None /\ v5 = None /\ v6 = [n \in Name |-> None]
  BY DEF Ed!Init
<1> QED
  BY <1>1, <1>2, ConfigEditorAssumption DEF Ed!SavedInv, Ed!Typed, Ed!Has, Ed!MastersInv

LEMMA MastersStep == ASSUME Ed!SavedInv, Ed!MastersInv, [Ed!Next]_(Ed!vars) PROVE Ed!MastersInv'
<1> USE DEF Ed!MastersInv
<1>1. ASSUME NEW m \in Password, Ed!Save(m) PROVE Ed!MastersInv'
  <2>1. /\ UNCHANGED v1 /\ v9' = (v9 \/ ~(Ed!Masters(v2) \cup Ed!Masters(v1) \subseteq {m}))
        /\ v2' \in {v2, [v2 EXCEPT ![v4.name] = m]}
    BY <1>1 DEF Ed!Save, Ed!Sealing, Ed!Changed, Ed!Held
  <2>2. CASE ~v9'
    <3>1. \A n \in Name : v2[n] # None => v2[n] = m
      BY <2>1, <2>2 DEF Ed!Masters
    <3>2. \A n \in Name : v2'[n] # None => v2'[n] = m
      BY <2>1, <3>1 DEF Ed!SavedInv, Ed!Typed, Ed!Config
    <3> QED
      BY <2>1, <3>2 DEF Ed!Single, Ed!Masters
  <2> QED
    BY <2>2
<1>2. CASE Ed!Remove
  <2>1. UNCHANGED <<v1, v9>> /\ v2' \in {v2, [v2 EXCEPT ![v4.name] = None]}
    BY <1>2 DEF Ed!Remove, Ed!Changed, Ed!Held
  <2>2. \A n \in Name : v2'[n] # None => v2'[n] = v2[n]
    BY <2>1 DEF Ed!SavedInv, Ed!Typed, Ed!Config
  <2> QED
    BY <2>1, <2>2 DEF Ed!Single, Ed!Masters
<1>3. CASE Ed!Focused
  BY <1>3 DEF Ed!Focused, Ed!InService, Ed!Single, Ed!Masters
<1>4. CASE Ed!Write
  BY <1>4 DEF Ed!Write, Ed!Failed, Ed!Single, Ed!Masters
<1>5. ASSUME NEW cs \in Ed!Config, Ed!WrittenElsewhere(cs) PROVE Ed!MastersInv'
  BY <1>5 DEF Ed!WrittenElsewhere, Ed!Single
<1>6. CASE Ed!ReadBack
  BY <1>6 DEF Ed!ReadBack, Ed!Failed
<1>7. ASSUME NEW n, Ed!Open(n) PROVE Ed!MastersInv'
  BY <1>7 DEF Ed!Open
<1>8. ASSUME NEW m, Ed!Unlock(m) PROVE Ed!MastersInv'
  BY <1>8 DEF Ed!Unlock
<1>9. CASE Ed!Cancel \/ UNCHANGED Ed!vars
  BY <1>9 DEF Ed!Cancel, Ed!vars
<1> QED
  BY <1>1, <1>2, <1>3, <1>4, <1>5, <1>6, <1>7, <1>8, <1>9 DEF Ed!Next, Ed!Config

\* A change by the dialog: in the config in service it is there to be written, and in another
\* it is in nobody's way.
LEMMA ChangedKeeps ==
  ASSUME Ed!SavedInv, v4 # None, NEW v \in {None} \cup Password, v # None <=> v4.to = "in",
         Ed!Changed([Ed!Held EXCEPT ![v4.name] = v]), v5' = "write", UNCHANGED <<v1, v7, v8>>
  PROVE  Ed!SavedInv'
<1> DEFINE cs == [Ed!Held EXCEPT ![v4.name] = v]
<1>1. v4 \in Ed!Editor /\ Ed!Held \in Ed!Config /\ v2 \in Ed!Config /\ v4.name \in Name
  BY DEF Ed!SavedInv, Ed!Typed, Ed!Held, Ed!Editor
<1>2. cs \in Ed!Config /\ \A n \in Name : cs[n] = IF n = v4.name THEN v ELSE Ed!Held[n]
  BY <1>1 DEF Ed!Config
<1> HIDE DEF cs
<1>3. /\ IF v4.own = None THEN v2' = cs /\ UNCHANGED v4
         ELSE v4' = [v4 EXCEPT !.own = cs] /\ UNCHANGED v2
      /\ v6' = [v6 EXCEPT ![v4.name] = None]
  BY DEF Ed!Changed, cs
<1>4. v4' \in Ed!Editor /\ v4'.name = v4.name /\ v4'.to = v4.to
      /\ (v4'.own = None <=> v4.own = None)
  BY <1>1, <1>2, <1>3, ConfigEditorAssumption DEF Ed!Editor
<1>5. v2' \in Ed!Config /\ (v4.own = None => Ed!Has(v2', v4.name, v4.to))
  BY <1>1, <1>2, <1>3 DEF Ed!Has, Ed!Editor
<1>6. \A n \in Name : n # v4.name => v2'[n] = v2[n] /\ v6'[n] = v6[n]
  BY <1>2, <1>3 DEF Ed!Held, Ed!SavedInv, Ed!Typed
<1>7. v6'[v4.name] = None /\ v6' \in [Name -> {None, "in", "out"}]
  BY <1>1, <1>3 DEF Ed!SavedInv, Ed!Typed
<1>8. \A n \in Name \ v7 : ~v8 => Ed!Has(v2', n, v6'[n]) /\ Ed!Has(v1, n, v6'[n])
  BY <1>6, <1>7, ConfigEditorAssumption DEF Ed!SavedInv, Ed!Has
<1> QED
  BY <1>4, <1>5, <1>7, <1>8, ConfigEditorAssumption DEF Ed!SavedInv, Ed!Typed, Ed!Has

LEMMA SavedStep == ASSUME Ed!SavedInv, [Ed!Next]_(Ed!vars) PROVE Ed!SavedInv'
<1> USE DEF Ed!SavedInv, Ed!Typed
<1>1. ASSUME NEW n \in Name, Ed!Open(n) PROVE Ed!SavedInv'
  <2>1. v4' \in Ed!Editor
    BY <1>1 DEF Ed!Open, Ed!Editor
  <2> QED
    BY <1>1, <2>1, ConfigEditorAssumption DEF Ed!Open, Ed!Has
<1>2. CASE Ed!Cancel
  BY <1>2, ConfigEditorAssumption DEF Ed!Cancel, Ed!Has
<1>3. CASE Ed!Focused
  <2>1. v2' = v1 /\ UNCHANGED <<v1, v5, v6, v7, v8>>
    BY <1>3 DEF Ed!Focused, Ed!InService
  <2>2. v4 # None => v4' = [v4 EXCEPT !.own = Ed!Held] /\ Ed!Held \in Ed!Config
    BY <1>3 DEF Ed!Focused, Ed!InService, Ed!Held, Ed!Editor
  <2>3. v4 = None => v4' = None
    BY <1>3 DEF Ed!Focused, Ed!InService
  <2>4. v4 # None => v4' \in Ed!Editor /\ v4'.own # None
    BY <2>2, ConfigEditorAssumption DEF Ed!Editor
  <2> QED
    BY <2>1, <2>3, <2>4, ConfigEditorAssumption DEF Ed!Has
<1>4. ASSUME NEW m \in Password, Ed!Save(m) PROVE Ed!SavedInv'
  BY <1>4, ChangedKeeps, ConfigEditorAssumption DEF Ed!Save
<1>5. CASE Ed!Remove
  BY <1>5, ChangedKeeps DEF Ed!Remove
<1>6. CASE Ed!Write
  <2>1. CASE v1' = v2 /\ v5' = "read" /\ UNCHANGED <<v2, v4, v6, v7>>
    BY <1>6, <2>1, ConfigEditorAssumption DEF Ed!Write, Ed!Has
  <2>2. CASE UNCHANGED v1 /\ Ed!Failed
    BY <1>6, ConfigEditorAssumption DEF Ed!Write, Ed!Failed, Ed!Has
  <2> QED
    BY <1>6, <2>1, <2>2 DEF Ed!Write
<1>7. CASE Ed!ReadBack
  <2>1. CASE Ed!Failed
    BY <1>7, <2>1 DEF Ed!ReadBack, Ed!Failed, Ed!Has
  <2>2. CASE /\ v5' = None /\ v4' = None /\ UNCHANGED v2
             /\ v6' = [v6 EXCEPT ![v4.name] = v4.to]
             /\ v7' = IF v4.own = None THEN v7 ELSE v7 \cup {v4.name}
    <3>1. v4 \in Ed!Editor /\ v5 = "read" /\ UNCHANGED <<v1, v8>>
      BY <1>7, ConfigEditorAssumption DEF Ed!ReadBack
    <3>2. v4.name \in Name /\ v4.to \in {"in", "out"}
      BY <3>1 DEF Ed!Editor
    <3>3. v6' \in [Name -> {None, "in", "out"}]
      BY <2>2, <3>2
    <3> QED
      BY <2>2, <3>1, <3>3, ConfigEditorAssumption DEF Ed!Has
  <2> QED
    BY <1>7, <2>1, <2>2 DEF Ed!ReadBack
<1>8. ASSUME NEW cs \in Ed!Config, Ed!WrittenElsewhere(cs) PROVE Ed!SavedInv'
  BY <1>8 DEF Ed!WrittenElsewhere, Ed!Has
<1>9. ASSUME NEW m, Ed!Unlock(m) PROVE Ed!SavedInv'
  BY <1>9 DEF Ed!Unlock
<1>10. CASE UNCHANGED Ed!vars
  BY <1>10 DEF Ed!vars
<1> QED
  BY <1>1, <1>2, <1>3, <1>4, <1>5, <1>6, <1>7, <1>8, <1>9, <1>10 DEF Ed!Next, Ed!Config

LEMMA ConfigEditorStep ==
  ASSUME Ed!SavedInv, Ed!MastersInv, [Ed!Next]_(Ed!vars)
  PROVE  Ed!SavedInv' /\ Ed!MastersInv'
BY SavedStep, MastersStep

LEMMA ConfigEditorHolds == Ed!SavedInv /\ Ed!MastersInv => Ed!SavedMeansWritten /\ Ed!OneMasterOpensAll
<1>1. Ed!SavedInv => Ed!SavedMeansWritten
  BY DEF Ed!SavedInv, Ed!SavedMeansWritten, Ed!Has
<1>2. Ed!SavedInv /\ Ed!MastersInv => Ed!OneMasterOpensAll
  BY DEF Ed!MastersInv, Ed!OneMasterOpensAll
<1> QED
  BY <1>1, <1>2

-----------------------------------------------------------------------------
(* Routes *)

LEMMA RoutesInit == Ro!Init => Ro!RoutesInv /\ Ro!ListInv
<1> SUFFICES ASSUME Ro!Init PROVE Ro!RoutesInv /\ Ro!ListInv
  OBVIOUS
<1>1. \A c \in Cluster : v3[c] \in v2 \cup {None}
  BY DEF Ro!Init
<1>2. v5 = <<>> /\ v6 = <<>>
  BY DEF Ro!Init
<1>3. Ro!ListInv
  BY <1>2 DEF Ro!ListInv
<1> QED
  BY <1>1, <1>3 DEF Ro!RoutesInv

LEMMA RoutesReadable == Ro!RoutesInv => Ro!WrittenCanBeRead
BY DEF Ro!RoutesInv, Ro!WrittenCanBeRead, Ro!Readable, Ro!Route

LEMMA RouteStep == ASSUME Ro!RoutesInv, [Ro!Next]_(Ro!vars) PROVE Ro!RoutesInv'
<1> USE DEF Ro!RoutesInv
<1>1. ASSUME NEW h, Ro!AddHost(h) \/ Ro!RemoveHost(h) PROVE Ro!RoutesInv'
  BY <1>1 DEF Ro!AddHost, Ro!RemoveHost
<1>2. ASSUME NEW h, NEW g, Ro!RenameHost(h, g) PROVE Ro!RoutesInv'
  BY <1>2 DEF Ro!RenameHost, Ro!Followed
<1>3. ASSUME NEW c, NEW h, Ro!SetRoute(c, h) PROVE Ro!RoutesInv'
  <2>1. v2' = v2 /\ v3' = [v3 EXCEPT ![c] = h] /\ h \in v2 \cup {None}
    BY <1>3 DEF Ro!SetRoute
  <2> QED
    BY <2>1
<1>4. CASE Ro!Mend
  BY <1>4 DEF Ro!Mend
<1>5. CASE UNCHANGED Ro!routes
  BY <1>5 DEF Ro!routes
<1>6. CASE Ro!EditList \/ UNCHANGED Ro!vars
  BY <1>5, <1>6 DEF Ro!EditList, Ro!vars
<1> QED
  BY <1>1, <1>2, <1>3, <1>4, <1>6 DEF Ro!Next, Ro!Edit

LEMMA ListStep == ASSUME Ro!ListInv, [Ro!Next]_(Ro!vars) PROVE Ro!ListInv'
<1>1. CASE UNCHANGED Ro!lists
  BY <1>1 DEF Ro!lists, Ro!ListInv
<1>2. CASE Ro!EditList
  <2>1. v6' = v5 /\ v5 \in Seq(Ro!Item)
    BY <1>2 DEF Ro!EditList, Ro!ListInv
  <2>2. ASSUME v5' \in Seq(Ro!Item),
               \A i \in DOMAIN v5', j \in DOMAIN v5 :
                 v5'[i].entry # v5[j].entry =>
                   (\E k \in DOMAIN v5 : v5[k] = v5'[i]) \/ (\E k \in DOMAIN v5' : v5'[k] = v5[j])
        PROVE  Ro!ListInv'
    BY <2>1, <2>2 DEF Ro!ListInv
  <2>3. ASSUME NEW name \in Spelling, Ro!AddCluster(name) PROVE Ro!ListInv'
    <3>1. PICK e \in 1..MaxClusters : v5' = Append(v5, [entry |-> e, name |-> name])
      BY <2>3 DEF Ro!AddCluster
    <3>2. e \in Nat /\ [entry |-> e, name |-> name] \in Ro!Item
      BY DEF Ro!Item
    <3>3. v5' \in Seq(Ro!Item) /\ \A j \in DOMAIN v5 : j \in DOMAIN v5' /\ v5'[j] = v5[j]
      BY <2>1, <3>1, <3>2
    <3> QED
      BY <2>2, <3>3
  <2>4. ASSUME NEW name \in Spelling, NEW r \in DOMAIN v5, Ro!RenameCluster(r, name) PROVE Ro!ListInv'
    <3>1. v5' = [v5 EXCEPT ![r].name = name]
      BY <2>4 DEF Ro!RenameCluster
    <3>2. v5[r] \in Ro!Item
      BY <2>1
    <3>3. [v5[r] EXCEPT !.name = name] \in Ro!Item /\ [v5[r] EXCEPT !.name = name].entry = v5[r].entry
      BY <3>2 DEF Ro!Item
    <3>4. /\ DOMAIN v5' = DOMAIN v5 /\ v5'[r].entry = v5[r].entry
          /\ \A j \in DOMAIN v5 : j # r => v5'[j] = v5[j]
      BY <3>1, <3>3
    <3>5. v5' \in Seq(Ro!Item)
      BY <2>1, <3>1, <3>3
    <3> QED
      BY <2>2, <3>4, <3>5
  <2>5. ASSUME NEW r \in DOMAIN v5, Ro!RemoveCluster(r) PROVE Ro!ListInv'
    <3> DEFINE before == SubSeq(v5, 1, r - 1)
               after == SubSeq(v5, r + 1, Len(v5))
    <3>1. r \in 1..Len(v5) /\ Len(v5) \in Nat /\ DOMAIN v5 = 1..Len(v5)
      OBVIOUS
    <3>2. /\ before \in Seq(Ro!Item) /\ Len(before) = r - 1 /\ \A i \in 1..(r - 1) : before[i] = v5[i]
          /\ after \in Seq(Ro!Item) /\ Len(after) = Len(v5) - r
          /\ \A i \in 1..(Len(v5) - r) : after[i] = v5[r + i]
      <4>1. \A i \in 1..Len(v5) : v5[i] \in Ro!Item
        BY <2>1
      <4>2. before \in Seq(Ro!Item) /\ Len(before) = r - 1 /\ \A i \in 1..(r - 1) : before[i] = v5[i]
        <5>1. /\ before \in Seq(Ro!Item)
              /\ Len(before) = IF 1 <= r - 1 THEN r - 1 - 1 + 1 ELSE 0
              /\ \A i \in 1..(r - 1 - 1 + 1) : before[i] = v5[1 + i - 1]
          <6>1. 1 \in Int /\ r - 1 \in Int /\ \A i \in 1..(r - 1) : v5[i] \in Ro!Item
            BY <4>1
          <6> QED
            BY <6>1
        <5> QED
          BY <3>1, <5>1
      <4>3. after \in Seq(Ro!Item) /\ Len(after) = Len(v5) - r
            /\ \A i \in 1..(Len(v5) - r) : after[i] = v5[r + i]
        <5>1. /\ after \in Seq(Ro!Item)
              /\ Len(after) = IF r + 1 <= Len(v5) THEN Len(v5) - (r + 1) + 1 ELSE 0
              /\ \A i \in 1..(Len(v5) - (r + 1) + 1) : after[i] = v5[r + 1 + i - 1]
          <6>1. r + 1 \in Int /\ Len(v5) \in Int /\ \A i \in (r + 1)..Len(v5) : v5[i] \in Ro!Item
            BY <4>1
          <6> QED
            BY <6>1, SubSeqProperties
        <5> QED
          BY <5>1
      <4> QED
        BY <4>2, <4>3
    <3>3. v5' = before \o after
      BY <2>5 DEF Ro!RemoveCluster
    <3> HIDE DEF before, after
    <3>4. v5' \in Seq(Ro!Item) /\ \A i \in DOMAIN v5' : \E k \in DOMAIN v5 : v5[k] = v5'[i]
      <4>1. v5' \in Seq(Ro!Item) /\ DOMAIN v5' = 1..(Len(v5) - 1)
        <5>1. Len(before \o after) = Len(before) + Len(after) /\ before \o after \in Seq(Ro!Item)
          BY <3>2, ConcatProperties
        <5>2. Len(before) + Len(after) = Len(v5) - 1
          BY <3>2
        <5>3. Len(v5') = Len(v5) - 1 /\ v5' \in Seq(Ro!Item)
          BY <3>3, <5>1, <5>2
        <5> QED
          BY <5>3
      <4>2. \A i \in 1..(Len(v5) - 1) : v5'[i] = IF i <= r - 1 THEN before[i] ELSE after[i - (r - 1)]
        <5>1. \A i \in 1..Len(before) + Len(after) :
                (before \o after)[i] = IF i <= Len(before) THEN before[i] ELSE after[i - Len(before)]
          BY ConcatProperties
        <5>2. Len(before) + Len(after) = Len(v5) - 1
          BY <3>2
        <5>3. \A i \in 1..(Len(v5) - 1) : (before \o after)[i] = IF i <= r - 1 THEN before[i] ELSE after[i - (r - 1)]
          BY <3>2, <5>1, <5>2
        <5> QED
          BY <3>3, <5>3
      <4>3. ASSUME NEW i \in 1..(Len(v5) - 1)
            PROVE  \E k \in DOMAIN v5 : v5[k] = v5'[i]
        <5>1. CASE i <= r - 1
          <6>1. i \in 1..(r - 1) /\ i \in DOMAIN v5
            BY <5>1
          <6>2. v5'[i] = before[i]
            BY <4>2, <5>1
          <6>3. before[i] = v5[i]
            BY <3>2, <6>1
          <6> QED
            BY <6>2, <6>3
        <5>2. CASE i > r - 1
          <6>1. v5'[i] = after[i - (r - 1)] /\ i - (r - 1) \in 1..(Len(v5) - r)
            BY <4>2, <5>2
          <6>2. v5'[i] = v5[r + (i - (r - 1))] /\ r + (i - (r - 1)) \in DOMAIN v5
            BY <3>1, <3>2, <6>1
          <6> QED
            BY <6>2
        <5> QED
          BY <5>1, <5>2
      <4> QED
        BY <4>1, <4>3
    <3> QED
      BY <2>2, <3>4
  <2> QED
    BY <1>2, <2>3, <2>4, <2>5 DEF Ro!EditList
<1>3. ASSUME NEW h, NEW g, Ro!AddHost(h) \/ Ro!RemoveHost(h) \/ Ro!RenameHost(h, g) PROVE Ro!ListInv'
  BY <1>1, <1>3 DEF Ro!AddHost, Ro!RemoveHost, Ro!RenameHost
<1>4. ASSUME NEW c, NEW h, Ro!SetRoute(c, h) PROVE Ro!ListInv'
  BY <1>1, <1>4 DEF Ro!SetRoute
<1>5. CASE Ro!Mend \/ UNCHANGED Ro!vars
  BY <1>1, <1>5 DEF Ro!Mend, Ro!vars
<1> QED
  BY <1>2, <1>3, <1>4, <1>5 DEF Ro!Next, Ro!Edit

LEMMA RoutesStep == ASSUME Ro!RoutesInv, Ro!ListInv, [Ro!Next]_(Ro!vars) PROVE Ro!RoutesInv' /\ Ro!ListInv'
BY RouteStep, ListStep

LEMMA Times ==
  ASSUME NEW i \in Nat, NEW k \in Nat
  PROVE  [j \in 1..k |-> i] \in Seq(Nat) /\ Len([j \in 1..k |-> i]) = k
OBVIOUS

LEMMA Shortest ==
  ASSUME NEW S, S \subseteq Seq(Nat), S # {}
  PROVE  \E x \in S : \A y \in S : Len(x) <= Len(y)
<1> DEFINE L == {Len(x) : x \in S}
<1>1. L \in SUBSET Nat /\ L # {}
  <2>1. \A x \in S : Len(x) \in Nat
    OBVIOUS
  <2> QED
    BY <2>1
<1> HIDE DEF L
<1>2. PICK n \in L : \A m \in L : n <= m
  BY <1>1, Least
<1>3. PICK x \in S : n = Len(x)
  BY DEF L
<1>4. \A y \in S : Len(y) \in L
  BY DEF L
<1> QED
  BY <1>2, <1>3, <1>4

\* The id that is picked is none of the earlier ones, and the slug itself if that is free.
LEMMA IdIsFree ==
  ASSUME NEW slug \in Seq(Nat), NEW i \in Nat,
         NEW seen, IsFiniteSet(seen), Cardinality(seen) <= i
  PROVE  /\ Ro!Id(slug, i, seen) \in Seq(Nat) /\ Ro!Id(slug, i, seen) \notin seen
         /\ slug \notin seen => Ro!Id(slug, i, seen) = slug
<1> DEFINE tail(k) == [j \in 1..k |-> i]
           longer == {slug \o tail(k) : k \in 0..i}
<1>1. \A k \in 0..i : slug \o tail(k) \in Seq(Nat) /\ Len(slug \o tail(k)) = Len(slug) + k
  <2> TAKE k \in 0..i
  <2> QED
    OBVIOUS
<1>2. slug \o tail(0) = slug
  OBVIOUS
<1>3. Len(slug) \in Nat
  OBVIOUS
<1> HIDE DEF tail
<1>4. longer \ seen # {}
  <2> SUFFICES ASSUME longer \subseteq seen PROVE FALSE
    OBVIOUS
  <2> DEFINE f == [k \in 0..i |-> slug \o tail(k)]
  <2>1. f \in Injection(0..i, seen)
    <3>1. f \in [0..i -> seen]
      OBVIOUS
    <3>2. ASSUME NEW k \in 0..i, NEW m \in 0..i, f[k] = f[m] PROVE k = m
      <4>1. Len(slug) + k = Len(slug) + m
        BY <1>1, <3>2
      <4> QED
        BY <4>1
    <3> HIDE DEF f
    <3> QED
      BY <3>1, <3>2 DEF Injection, IsInjective
  <2> HIDE DEF f
  <2>2. Cardinality(0..i) = i + 1
    BY FS_Interval
  <2>3. Cardinality(0..i) <= Cardinality(seen) /\ Cardinality(seen) \in Nat
    BY <2>1, FS_Injection, FS_CardinalityType
  <2> QED
    BY <2>2, <2>3
<1>5. longer \subseteq Seq(Nat) /\ \A x \in longer : Len(x) \in Nat /\ Len(slug) <= Len(x)
  <2> SUFFICES ASSUME NEW x \in longer PROVE x \in Seq(Nat) /\ Len(x) \in Nat /\ Len(slug) <= Len(x)
    OBVIOUS
  <2>1. PICK k \in 0..i : x = slug \o tail(k)
    OBVIOUS
  <2> QED
    BY <1>1, <1>3, <2>1
<1>6. slug \in longer /\ \A x \in longer : Len(x) = Len(slug) => x = slug
  <2>1. slug \in longer
    BY <1>2
  <2>2. ASSUME NEW x \in longer, Len(x) = Len(slug) PROVE x = slug
    <3>1. PICK k \in 0..i : x = slug \o tail(k)
      OBVIOUS
    <3>2. k = 0
      BY <1>1, <2>2, <3>1
    <3> QED
      BY <1>2, <3>1, <3>2
  <2> QED
    BY <2>1, <2>2
<1> HIDE DEF longer
<1>7. \E x \in longer \ seen : \A y \in longer \ seen : Len(x) <= Len(y)
  BY <1>4, <1>5, Shortest
<1> DEFINE id == CHOOSE x \in longer \ seen : \A y \in longer \ seen : Len(x) <= Len(y)
<1>8. id \in longer \ seen /\ \A y \in longer \ seen : Len(id) <= Len(y)
  BY <1>7, Zenon
<1>9. Ro!Id(slug, i, seen) = id
  BY DEF Ro!Id, longer, tail
<1> HIDE DEF id
<1>10. slug \notin seen => id = slug
  BY <1>5, <1>6, <1>8
<1> QED
  BY <1>5, <1>8, <1>9, <1>10

\* The ids of the first n clusters of a list are told apart, and are the slugs of a plain one.
IdsOf(l, n, s) ==
  /\ s \in Seq(Seq(Nat)) /\ Len(s) = n
  /\ \A i, j \in 1..n : i # j => s[i] # s[j]
  /\ Ro!Plain(l) => \A i \in 1..n : s[i] = l[i].name.slug

Grow(l, n, s) == Append(s, Ro!Id(l[n].name.slug, n - 1, {s[j] : j \in 1..(n - 1)}))

LEMMA PlainSlugs ==
  ASSUME NEW l \in Seq(Ro!Item), Ro!Plain(l), NEW i \in DOMAIN l, NEW j \in DOMAIN l, i # j
  PROVE  l[j].name.slug \in Seq(Nat) /\ l[i].name.slug # l[j].name.slug
<1> DEFINE t == l[j].name.slug
<1>1. t \in Seq(Nat) /\ Len(t) \in Nat
  <2>1. l[j] \in Ro!Item
    OBVIOUS
  <2>2. t \in Seq(Nat)
    BY <2>1, RoutesAssumption DEF Ro!Item
  <2> HIDE DEF t
  <2> QED
    BY <2>2
<1>2. \A n \in 0..Len(t) : SubSeq(t, 1, n) # l[i].name.slug
  BY DEF Ro!Plain
<1> HIDE DEF t
<1>3. SubSeq(t, 1, Len(t)) = t
  BY <1>1
<1>4. t # l[i].name.slug
  BY <1>2, <1>3
<1> QED
  BY <1>1, <1>4 DEF t

LEMMA GrowIds ==
  ASSUME NEW l \in Seq(Ro!Item), NEW n \in Nat, n + 1 \in DOMAIN l, NEW s, IdsOf(l, n, s)
  PROVE  IdsOf(l, n + 1, Grow(l, n + 1, s))
<1> DEFINE seen == {s[j] : j \in 1..n}
           slug == l[n + 1].name.slug
           id == Ro!Id(slug, n, seen)
<1>1. slug \in Seq(Nat)
  <2>1. l[n + 1] \in Ro!Item
    OBVIOUS
  <2> QED
    BY <2>1, RoutesAssumption DEF Ro!Item
<1>2. s \in Seq(Seq(Nat)) /\ Len(s) = n /\ DOMAIN s = 1..n
  BY DEF IdsOf
<1>3. IsFiniteSet(seen) /\ Cardinality(seen) <= n
  <2>1. s \in Surjection(1..n, seen)
    <3>1. s \in [1..n -> Seq(Nat)]
      BY <1>2
    <3> QED
      BY <3>1 DEF Surjection
  <2>2. IsFiniteSet(1..n) /\ Cardinality(1..n) = n
    BY FS_Interval
  <2> HIDE DEF seen
  <2> QED
    BY <2>1, <2>2, FS_Surjection
<1>4. id \in Seq(Nat) /\ id \notin seen /\ (slug \notin seen => id = slug)
  <2> HIDE DEF seen, slug
  <2> QED
    BY <1>1, <1>3, IdIsFree
<1>5. Grow(l, n + 1, s) = Append(s, id)
  BY DEF Grow
<1>6. \A j \in 1..n : s[j] \in seen
  OBVIOUS
<1>7. ASSUME Ro!Plain(l) PROVE slug \notin seen
  <2>1. ASSUME NEW j \in 1..n PROVE s[j] # slug
    <3>1. s[j] = l[j].name.slug
      BY <1>7 DEF IdsOf
    <3> QED
      BY <1>7, <3>1, PlainSlugs
  <2> QED
    BY <2>1
<1> HIDE DEF seen, id
<1> DEFINE a == Append(s, id)
<1>8. /\ a \in Seq(Seq(Nat)) /\ Len(a) = n + 1 /\ a[n + 1] = id
      /\ \A i \in 1..n : a[i] = s[i]
  BY <1>2, <1>4
<1> HIDE DEF a
<1>9. \A i \in 1..(n + 1) : i \in 1..n \/ i = n + 1
  OBVIOUS
<1>10. \A i, j \in 1..(n + 1) : i # j => a[i] # a[j]
  <2>1. \A i, j \in 1..n : i # j => s[i] # s[j]
    BY DEF IdsOf
  <2> QED
    BY <1>4, <1>6, <1>8, <1>9, <2>1
<1>11. Ro!Plain(l) => \A i \in 1..(n + 1) : a[i] = l[i].name.slug
  <2>1. Ro!Plain(l) => \A i \in 1..n : s[i] = l[i].name.slug
    BY DEF IdsOf
  <2> QED
    BY <1>4, <1>7, <1>8, <1>9, <2>1
<1>12. a = Grow(l, n + 1, s)
  BY <1>5 DEF a
<1>13. IdsOf(l, n + 1, a)
  BY <1>8, <1>10, <1>11, Zenon DEF IdsOf
<1> QED
  BY <1>12, <1>13

LEMMA IdsExist ==
  ASSUME NEW l, NEW N \in Nat
  PROVE  \E g : g = [n \in 0..N |-> IF n = 0 THEN <<>> ELSE Grow(l, n, g[n - 1])]
<1> DEFINE Good(g, m) == g = [n \in 0..m |-> IF n = 0 THEN <<>> ELSE Grow(l, n, g[n - 1])]
           S == {m \in 0..N : \E g : Good(g, m)}
<1>1. 0 \in S
  <2>1. Good([n \in 0..0 |-> <<>>], 0)
    OBVIOUS
  <2> HIDE DEF Good
  <2>2. 0 \in 0..N
    OBVIOUS
  <2> QED
    BY <2>1, <2>2, Zenon
<1>2. ASSUME NEW m \in 0..N, m \in S, m + 1 \in 0..N
      PROVE  m + 1 \in S
  <2>1. PICK g : Good(g, m)
    BY <1>2
  <2> DEFINE h == [n \in 0..(m + 1) |-> IF n = m + 1 THEN Grow(l, m + 1, g[m]) ELSE g[n]]
             k == [n \in 0..(m + 1) |-> IF n = 0 THEN <<>> ELSE Grow(l, n, h[n - 1])]
  <2>2. \A n \in 0..(m + 1) : h[n] = k[n]
    <3> TAKE n \in 0..(m + 1)
    <3>1. CASE n # m + 1
      <4>1. n \in 0..m /\ h[n] = g[n] /\ (n # 0 => n - 1 \in 0..m /\ n - 1 # m + 1)
        BY <3>1
      <4>2. g[n] = IF n = 0 THEN <<>> ELSE Grow(l, n, g[n - 1])
        BY <2>1, <4>1
      <4> QED
        BY <4>2
    <3> QED
      BY <3>1
  <2>3. Good(h, m + 1)
    <3>1. h = k
      BY <2>2
    <3> QED
      BY <3>1
  <2> HIDE DEF h, k, Good
  <2> QED
    BY <1>2, <2>3
<1>3. 0..N \subseteq S
  <2> HIDE DEF S
  <2> QED
    BY <1>1, <1>2, UpTo
<1>4. N \in S
  <2> HIDE DEF S
  <2> QED
    BY <1>3
<1> QED
  BY <1>4

LEMMA IdsAreTold ==
  ASSUME NEW l \in Seq(Ro!Item)
  PROVE  IdsOf(l, Len(l), Ro!Ids(l))
<1> DEFINE F(g) == [n \in 0..Len(l) |-> IF n = 0 THEN <<>> ELSE Grow(l, n, g[n - 1])]
           f == CHOOSE g : g = F(g)
           S == {n \in 0..Len(l) : IdsOf(l, n, f[n])}
<1>1. Len(l) \in Nat /\ DOMAIN l = 1..Len(l)
  OBVIOUS
<1>2. f = F(f)
  <2> HIDE DEF F
  <2> QED
    OBVIOUS
<1>3. Ro!Ids(l) = f[Len(l)]
  BY DEF Ro!Ids, Grow
<1> HIDE DEF f
<1>4. f[0] = <<>> /\ \A n \in 0..Len(l) : n + 1 \in 0..Len(l) => f[n + 1] = Grow(l, n + 1, f[n])
  <2>1. \A n \in 0..Len(l) : f[n] = IF n = 0 THEN <<>> ELSE Grow(l, n, f[n - 1])
    BY <1>2
  <2> HIDE DEF F
  <2>2. f[0] = <<>>
    BY <1>1, <2>1
  <2>3. ASSUME NEW n \in 0..Len(l), n + 1 \in 0..Len(l) PROVE f[n + 1] = Grow(l, n + 1, f[n])
    BY <2>1, <2>3
  <2> QED
    BY <2>2, <2>3
<1>5. IdsOf(l, 0, <<>>)
  BY DEF IdsOf
<1>6. ASSUME NEW n \in 0..Len(l), n \in S, n + 1 \in 0..Len(l) PROVE n + 1 \in S
  <2>1. IdsOf(l, n + 1, f[n + 1])
    BY <1>4, <1>6, GrowIds
  <2> QED
    BY <1>6, <2>1
<1>7. 0 \in S
  BY <1>4, <1>5
<1> HIDE DEF S
<1>8. 0..Len(l) \subseteq S
  BY <1>1, <1>6, <1>7, UpTo
<1>9. Len(l) \in S
  BY <1>8
<1> QED
  BY <1>3, <1>9 DEF S

LEMMA RoutesTell == Ro!ListInv => Ro!IdsStayWithTheirClusters
<1> SUFFICES ASSUME Ro!ListInv PROVE Ro!IdsStayWithTheirClusters
  OBVIOUS
<1>1. IdsOf(v5, Len(v5), Ro!Ids(v5)) /\ IdsOf(v6, Len(v6), Ro!Ids(v6))
  BY IdsAreTold DEF Ro!ListInv
<1>2. DOMAIN v5 = 1..Len(v5) /\ DOMAIN v6 = 1..Len(v6)
  BY DEF Ro!ListInv
<1>3. \A i, j \in DOMAIN v5 : i # j => Ro!IdIn(v5, i) # Ro!IdIn(v5, j)
  BY <1>1, <1>2 DEF IdsOf, Ro!IdIn
<1>4. ASSUME Ro!Plain(v5), Ro!Plain(v6), NEW i \in DOMAIN v5, NEW j \in DOMAIN v6,
             v5[i].entry # v6[j].entry
      PROVE  Ro!IdIn(v5, i) # Ro!IdIn(v6, j)
  <2>1. Ro!IdIn(v5, i) = v5[i].name.slug /\ Ro!IdIn(v6, j) = v6[j].name.slug
    BY <1>1, <1>4 DEF IdsOf, Ro!IdIn
  <2>2. CASE \E k \in DOMAIN v6 : v6[k] = v5[i]
    <3>1. PICK k \in DOMAIN v6 : v6[k] = v5[i]
      BY <2>2
    <3> QED
      BY <1>4, <2>1, <3>1, PlainSlugs DEF Ro!ListInv
  <2>3. CASE \E k \in DOMAIN v5 : v5[k] = v6[j]
    <3>1. PICK k \in DOMAIN v5 : v5[k] = v6[j]
      BY <2>3
    <3> QED
      BY <1>4, <2>1, <3>1, PlainSlugs DEF Ro!ListInv
  <2> QED
    BY <1>4, <2>2, <2>3 DEF Ro!ListInv
<1> QED
  BY <1>3, <1>4 DEF Ro!IdsStayWithTheirClusters

-----------------------------------------------------------------------------
(* Acks *)

LEMMA AcksCounts == (\A S : Ac!Cardinality(S) = Cardinality(S)) /\ (\A S : Ac!IsFiniteSet(S) = IsFiniteSet(S))
BY DEF IsFiniteSet, Ac!IsFiniteSet, Cardinality, Ac!Cardinality

\* What is done to a record: its clock is set, or one of its marks is turned.
Clocked(r, m) == [r EXCEPT !.missingSince = m]
Turned(r) == [r EXCEPT !.acked = ~@]
Annotated(r) == [r EXCEPT !.note = ~@]

LEMMA RecordsMove ==
  ASSUME NEW r \in Ac!Record
  PROVE  /\ r # None /\ r.acked \in BOOLEAN /\ r.note \in BOOLEAN /\ r.missingSince \in Nat \cup {None}
         /\ \A m \in Nat \cup {None} :
              /\ Clocked(r, m) \in Ac!Record /\ Clocked(r, m) # None /\ Clocked(r, m).missingSince = m
              /\ Clocked(r, m).acked = r.acked /\ Clocked(r, m).note = r.note
         /\ Turned(r) \in Ac!Record /\ Turned(r) # None /\ Turned(r).missingSince = r.missingSince
         /\ Annotated(r) \in Ac!Record /\ Annotated(r) # None /\ Annotated(r).missingSince = r.missingSince
<1>1. \A q \in Ac!Record : q # None
  BY AcksAssumption DEF Ac!Record
<1>2. r.acked \in BOOLEAN /\ r.note \in BOOLEAN /\ r.missingSince \in Nat \cup {None}
  BY DEF Ac!Record
<1>3. \A m \in Nat \cup {None} :
        /\ Clocked(r, m) \in Ac!Record /\ Clocked(r, m).missingSince = m
        /\ Clocked(r, m).acked = r.acked /\ Clocked(r, m).note = r.note
  BY DEF Ac!Record, Clocked
<1>4. Turned(r) \in Ac!Record /\ Turned(r).missingSince = r.missingSince
  BY DEF Ac!Record, Turned
<1>5. Annotated(r) \in Ac!Record /\ Annotated(r).missingSince = r.missingSince
  BY DEF Ac!Record, Annotated
<1> QED
  BY <1>1, <1>2, <1>3, <1>4, <1>5

LEMMA AcksInit == Ac!Init => Ac!AcksInv
<1> SUFFICES ASSUME Ac!Init PROVE Ac!AcksInv
  OBVIOUS
<1> DEFINE old == [Ac!Blank EXCEPT !.acked = TRUE]
<1>1. /\ v1 = 0 /\ v3 = [k \in Name |-> IF k \in Watched THEN None ELSE old]
      /\ v4 = v3 /\ v5 = [d \in Ac!Drawing |-> None] /\ v6 = [d \in Ac!Drawing |-> <<>>]
      /\ v10 = FALSE
      /\ v8 = [k \in Name |-> [acked |-> k \notin Watched, note |-> FALSE]]
      /\ v9 = [k \in Name |-> None]
  BY DEF Ac!Init
<1>2. old \in Ac!Record /\ old.acked = TRUE /\ old.note = FALSE /\ old.missingSince = None
  BY DEF Ac!Blank, Ac!Record
<1> HIDE DEF old
<1>3. v3 \in Ac!Records
  BY <1>1, <1>2 DEF Ac!Records
<1>4. Ac!PruningInv
  BY <1>1 DEF Ac!PruningInv, Ac!UnderWay
<1>e. \A k \in Name : Ac!Ahead(k) = {}
  BY <1>1 DEF Ac!Ahead
<1>5. \A k \in Name : Ac!Kept(k)
  <2> TAKE k \in Name
  <2>1. v8[k] = [acked |-> k \notin Watched, note |-> FALSE] /\ v3[k] = v4[k] /\ v9[k] = None
    BY <1>1
  <2>2. CASE k \in Watched
    <3>1. v4[k] = None /\ (k \notin Watched) = FALSE
      BY <1>1, <2>2
    <3>2. v8[k] = Ac!Nothing
      BY <2>1, <3>1 DEF Ac!Nothing
    <3> QED
      BY <1>1, <1>e, <3>1, <3>2 DEF Ac!Kept
  <2>3. CASE k \notin Watched
    <3>1. v4[k] = old /\ (k \notin Watched) = TRUE
      BY <1>1, <2>3
    <3>2. v8[k] = [acked |-> v4[k].acked, note |-> v4[k].note]
      BY <1>2, <2>1, <3>1
    <3>3. v4[k] # None
      BY <1>2, <3>1, RecordsMove
    <3> QED
      BY <1>1, <1>2, <1>e, <3>1, <3>2, <3>3 DEF Ac!Kept
  <2> QED
    BY <2>2, <2>3
<1> QED
  BY <1>1, <1>3, <1>4, <1>5 DEF Ac!AcksInv

LEMMA RenderStep == ASSUME Ac!AcksInv, NEW d \in Ac!Drawing, Ac!Render(d) PROVE Ac!AcksInv'
<1>1. /\ d \notin Ac!UnderWay /\ v5' = [v5 EXCEPT ![d] = v4]
      /\ v10' \in BOOLEAN /\ (~v10' => Ac!UnderWay = {})
      /\ UNCHANGED <<v1, v2, v3, v4, v6, v7, v8, v9, v11>>
  BY DEF Ac!Render
<1>2. /\ v5 \in [Ac!Drawing -> Ac!Records \cup {None}] /\ v4 \in Ac!Records /\ Ac!PruningInv
      /\ \A o \in Ac!Drawing : o # d => v5'[o] = v5[o]
  BY <1>1 DEF Ac!AcksInv
<1>3. \A k \in Name : Ac!Ahead(k)' = Ac!Ahead(k)
  BY <1>1 DEF Ac!Ahead
<1>4. \A k \in Name \ v11 : Ac!Kept(k)'
  BY <1>1, <1>2, <1>3 DEF Ac!AcksInv, Ac!Kept
<1>5. Ac!PruningInv'
  <2>1. \A o \in Ac!Drawing : v5'[o] # None => v6'[o] = <<>>
    BY <1>1, <1>2 DEF Ac!PruningInv, Ac!UnderWay
  <2>2. ASSUME ~v10'
        PROVE  /\ \A o, p \in Ac!UnderWay' : o = p
               /\ \A o \in Ac!Drawing : \A i \in DOMAIN v6'[o] :
                    v6'[o][i].seen <=> v9'[v6'[o][i].key] = None
    <3>1. \A o \in Ac!Drawing : v5[o] = None /\ v6[o] = <<>>
      BY <1>1, <2>2 DEF Ac!UnderWay
    <3>2. \A o \in Ac!UnderWay' : o = d
      BY <1>1, <1>2, <3>1 DEF Ac!UnderWay
    <3> QED
      BY <1>1, <3>1, <3>2
  <2> QED
    BY <1>1, <1>2, <2>1, <2>2 DEF Ac!PruningInv
<1> QED
  BY <1>1, <1>2, <1>4, <1>5 DEF Ac!AcksInv

LEMMA LoadedStep == ASSUME Ac!AcksInv, NEW d \in Ac!Drawing, Ac!Loaded(d) PROVE Ac!AcksInv'
<1> DEFINE kept == {k \in Name : v3'[k] # None}
           list == v6'[d]
<1>1. /\ v5[d] # None /\ v5' = [v5 EXCEPT ![d] = None] /\ v3' \in {v5[d], v3}
      /\ UNCHANGED <<v1, v2, v4, v8, v10, v11>>
      /\ v9' = [k \in Name |-> IF k \in v2 THEN None ELSE IF v9[k] = None THEN v1 ELSE v9[k]]
  BY DEF Ac!Loaded, Ac!Prune
<1>2. PICK order \in Ac!Orders(kept) :
        v6' = [v6 EXCEPT ![d] =
          [i \in DOMAIN order |-> [key |-> order[i], rec |-> v3'[order[i]], seen |-> order[i] \in v2]]]
  BY DEF Ac!Loaded, Ac!Prune
<1>i. /\ Ac!PruningInv /\ v6 \in [Ac!Drawing -> Seq(Ac!Entry)] /\ v5 \in [Ac!Drawing -> Ac!Records \cup {None}]
      /\ v3 \in Ac!Records /\ v4 \in Ac!Records /\ v6[d] = <<>>
  BY <1>1 DEF Ac!AcksInv, Ac!PruningInv
<1> DEFINE n == Cardinality(kept)
<1>3. n \in Nat /\ Ac!Cardinality(kept) = n
  <2>1. IsFiniteSet(kept)
    BY AcksAssumption, AcksCounts, FS_Subset
  <2> QED
    BY <2>1, AcksCounts, FS_CardinalityType
<1>4. /\ order \in [1..n -> kept]
      /\ \A i, j \in 1..n : order[i] = order[j] => i = j
      /\ \A k \in kept : \E i \in 1..n : order[i] = k
  <2>1. /\ order \in [1..n -> kept]
        /\ \A k \in kept : \E i \in 1..n : \A j \in 1..n : order[j] = k <=> j = i
    <3> HIDE DEF n, kept
    <3> DEFINE m == Ac!Cardinality(kept)
    <3>1. order \in {s \in [1..m -> kept] : \A k \in kept : \E i \in DOMAIN s : \A j \in DOMAIN s : s[j] = k <=> j = i}
      BY DEF Ac!Orders
    <3>2. m = n
      BY <1>3
    <3> HIDE DEF m
    <3> QED
      BY <3>1, <3>2
  <2> HIDE DEF n, kept
  <2> QED
    BY <2>1
<1>5. v3' \in Ac!Records /\ \A k \in kept : k \in Name /\ v3'[k] \in Ac!Record
  BY <1>1, <1>i DEF Ac!Records
<1> HIDE DEF n, kept
<1>o. /\ list = [i \in 1..n |-> [key |-> order[i], rec |-> v3'[order[i]], seen |-> order[i] \in v2]]
      /\ \A o \in Ac!Drawing : o # d => v6'[o] = v6[o] /\ v5'[o] = v5[o]
      /\ v5'[d] = None
  BY <1>1, <1>2, <1>4, <1>i
<1>6. /\ DOMAIN list = 1..n
      /\ \A i \in 1..n : /\ list[i].key = order[i] /\ list[i].rec = v3'[order[i]]
                         /\ list[i].seen = (order[i] \in v2)
  BY <1>o
<1>7. list \in Seq(Ac!Entry) /\ \A i \in 1..n : list[i] \in Ac!Entry
  <2>1. ASSUME NEW i \in 1..n PROVE list[i] \in Ac!Entry
    <3> DEFINE s == order[i] \in v2
    <3>1. list[i] = [key |-> order[i], rec |-> v3'[order[i]], seen |-> s]
      BY <1>o
    <3>2. s \in BOOLEAN
      OBVIOUS
    <3> HIDE DEF s, list
    <3> QED
      BY <1>4, <1>5, <3>1, <3>2 DEF Ac!Entry
  <2>2. list = [i \in 1..n |-> list[i]]
    BY <1>o
  <2>3. list \in [1..n -> Ac!Entry]
    BY <2>1, <2>2
  <2> QED
    BY <1>3, <2>1, <2>3
<1>8. \A k \in Name : v9'[k] = None <=> k \in v2
  BY <1>1, AcksAssumption DEF Ac!AcksInv
<1>9. Ac!PruningInv'
  <2>1. \A i, j \in 1..n : list[i].key = list[j].key => i = j
    BY <1>4, <1>6
  <2>2. \A i \in 1..n : list[i].seen <=> v9'[list[i].key] = None
    <3> TAKE i \in 1..n
    <3>1. order[i] \in Name /\ list[i].key = order[i] /\ list[i].seen = (order[i] \in v2)
      BY <1>4, <1>5, <1>6
    <3>2. v9'[order[i]] = None <=> order[i] \in v2
      BY <1>8, <3>1
    <3> QED
      BY <3>1, <3>2
  <2>3. v6' \in [Ac!Drawing -> Seq(Ac!Entry)]
    BY <1>2, <1>7, <1>i
  <2>4. \A o \in Ac!Drawing : \A i, j \in DOMAIN v6'[o] : v6'[o][i].key = v6'[o][j].key => i = j
    <3> TAKE o \in Ac!Drawing
    <3>1. CASE o = d
      BY <1>6, <2>1, <3>1
    <3>2. CASE o # d
      BY <1>o, <1>i, <3>2 DEF Ac!PruningInv
    <3> QED
      BY <3>1, <3>2
  <2>5. \A o \in Ac!Drawing : v5'[o] # None => v6'[o] = <<>>
    BY <1>o, <1>i DEF Ac!PruningInv
  <2>6. ASSUME ~v10'
        PROVE  /\ \A o, p \in Ac!UnderWay' : o = p
               /\ \A o \in Ac!Drawing : \A i \in DOMAIN v6'[o] :
                    v6'[o][i].seen <=> v9'[v6'[o][i].key] = None
    <3>1. \A o \in Ac!Drawing : o # d => v5[o] = None /\ v6[o] = <<>>
      BY <1>1, <1>i, <2>6 DEF Ac!PruningInv, Ac!UnderWay
    <3>2. \A o \in Ac!UnderWay' : o = d
      BY <1>o, <3>1 DEF Ac!UnderWay
    <3>3. \A o \in Ac!Drawing : o # d => DOMAIN v6'[o] = {}
      BY <1>o, <3>1
    <3> QED
      BY <1>6, <2>2, <3>2, <3>3
  <2> QED
    BY <2>3, <2>4, <2>5, <2>6 DEF Ac!PruningInv
<1>10. ASSUME NEW k \in Name \ v11 PROVE Ac!Kept(k)'
  <2>1. Ac!Kept(k) /\ v5[d][k] = v4[k] /\ v3'[k] = v4[k]
    BY <1>1 DEF Ac!AcksInv, Ac!Kept
  <2>2. ASSUME NEW e \in Ac!Ahead(k)' PROVE v4[k] # None /\ e.rec = v4[k]
    <3>p1. PICK o \in Ac!Drawing : \E i \in DOMAIN v6'[o] : v6'[o][i] = e /\ e.key = k
      BY DEF Ac!Ahead
    <3>1. PICK i \in DOMAIN v6'[o] : v6'[o][i] = e /\ e.key = k
      BY <3>p1
    <3>2. CASE o = d
      <4>1. i \in 1..n /\ e = list[i]
        BY <1>6, <3>1, <3>2
      <4>2. order[i] = k /\ e.rec = v3'[order[i]] /\ order[i] \in kept
        BY <1>4, <1>6, <3>1, <4>1
      <4> QED
        BY <2>1, <4>2 DEF kept
    <3>3. CASE o # d
      <4>1. e \in Ac!Ahead(k)
        BY <1>o, <2>2, <3>1, <3>3 DEF Ac!Ahead
      <4> QED
        BY <2>1, <4>1 DEF Ac!Kept
    <3> QED
      BY <3>2, <3>3
  <2>3. ASSUME v4[k] # None, v4[k].missingSince # None
        PROVE  (v9'[k] # None /\ v9'[k] <= v4[k].missingSince) \/ \E e \in Ac!Ahead(k)' : e.seen
    <3>1. CASE k \in v2
      <4>1. PICK i \in 1..n : order[i] = k
        BY <1>4, <2>1, <2>3 DEF kept
      <4>2. list[i].key = k /\ list[i].seen /\ list[i] \in Ac!Entry /\ i \in DOMAIN list
        BY <1>6, <1>7, <3>1, <4>1
      <4>3. list[i] \in Ac!Ahead(k)'
        BY <4>2 DEF Ac!Ahead
      <4> QED
        BY <4>2, <4>3
    <3>2. CASE k \notin v2
      <4>1. CASE v9[k] # None /\ v9[k] <= v4[k].missingSince
        BY <1>1, <3>2, <4>1
      <4>2. ASSUME NEW e \in Ac!Ahead(k), e.seen
            PROVE  e \in Ac!Ahead(k)'
        <5>p1. PICK o \in Ac!Drawing : \E i \in DOMAIN v6[o] : v6[o][i] = e /\ e.key = k
          BY <4>2 DEF Ac!Ahead
        <5>1. PICK i \in DOMAIN v6[o] : v6[o][i] = e /\ e.key = k
          BY <5>p1
        <5>2. o # d
          BY <1>i, <5>1
        <5> QED
          BY <1>o, <4>2, <5>1, <5>2 DEF Ac!Ahead
      <4> QED
        BY <2>1, <2>3, <4>1, <4>2 DEF Ac!Kept
    <3> QED
      BY <3>1, <3>2
  <2>4. \A o \in Ac!Drawing : v5'[o] # None => v5'[o][k] = v4[k]
    BY <1>o, <2>1 DEF Ac!Kept
  <2> QED
    BY <1>1, <2>1, <2>2, <2>3, <2>4 DEF Ac!Kept
<1>11. /\ v9' \in [Name -> Nat \cup {None}] /\ \A k \in Name : v9'[k] # None => v9'[k] <= v1
       /\ v5' \in [Ac!Drawing -> Ac!Records \cup {None}]
  BY <1>1, <1>i DEF Ac!AcksInv
<1> QED
  BY <1>1, <1>5, <1>9, <1>10, <1>11 DEF Ac!AcksInv

\* What a write of the pruning makes of the record it holds: what becomes of its clock.
LEMMA PrunedMakes ==
  ASSUME NEW e \in Ac!Entry, Ac!Pruned(e)
  PROVE  \E rec :
           /\ v3' = [v3 EXCEPT ![e.key] = rec] /\ v4' \in {v4, [v4 EXCEPT ![e.key] = rec]}
           /\ \/ e.seen /\ rec = Clocked(e.rec, None)
              \/ ~e.seen /\ rec = Clocked(e.rec, v1)
              \/ /\ ~e.seen /\ ~e.rec.note /\ e.rec.missingSince # None
                 /\ v1 - e.rec.missingSince >= Grace /\ rec = None
<1>1. ASSUME Ac!Put(e.key, [e.rec EXCEPT !.missingSince = None])
      PROVE  /\ v3' = [v3 EXCEPT ![e.key] = Clocked(e.rec, None)]
             /\ v4' \in {v4, [v4 EXCEPT ![e.key] = Clocked(e.rec, None)]}
  BY <1>1 DEF Ac!Put, Clocked
<1>2. ASSUME Ac!Put(e.key, [e.rec EXCEPT !.missingSince = v1])
      PROVE  /\ v3' = [v3 EXCEPT ![e.key] = Clocked(e.rec, v1)]
             /\ v4' \in {v4, [v4 EXCEPT ![e.key] = Clocked(e.rec, v1)]}
  BY <1>2 DEF Ac!Put, Clocked
<1>3. ASSUME Ac!Put(e.key, None)
      PROVE  v3' = [v3 EXCEPT ![e.key] = None] /\ v4' \in {v4, [v4 EXCEPT ![e.key] = None]}
  BY <1>3 DEF Ac!Put
<1> QED
  BY <1>1, <1>2, <1>3, Zenon DEF Ac!Pruned

\* What is ahead when one record of a drawing's pruning has been gone through.
LEMMA AheadMoves ==
  ASSUME Ac!PruningInv, NEW d \in Ac!Drawing, NEW e, e = Head(v6[d]), v6[d] # <<>>,
         v6' = [v6 EXCEPT ![d] = Tail(@)],
         UNCHANGED <<v5, v10, v9>>
  PROVE  /\ e \in Ac!Ahead(e.key)
         /\ \A k \in Name : /\ Ac!Ahead(k)' \subseteq Ac!Ahead(k)
                            /\ \A x \in Ac!Ahead(k) : x \in Ac!Ahead(k)' \/ x = e
         /\ ~v10 => /\ \A o \in Ac!Drawing : v5[o] = None
                    /\ Ac!Ahead(e.key) = {e}
                    /\ Ac!Ahead(e.key)' = {}
                    /\ e.seen <=> v9[e.key] = None
         /\ Ac!PruningInv'
<1> DEFINE p == v6[d]
           q == Tail(p)
<1>1. p \in Seq(Ac!Entry) /\ v6 \in [Ac!Drawing -> Seq(Ac!Entry)] /\ p # <<>>
  BY DEF Ac!PruningInv
<1>2. /\ e = p[1] /\ e \in Ac!Entry /\ 1 \in DOMAIN p /\ q \in Seq(Ac!Entry)
      /\ \A i \in DOMAIN q : i + 1 # 1 /\ i + 1 \in DOMAIN p /\ q[i] = p[i + 1]
      /\ \A i \in DOMAIN p : i = 1 \/ (i - 1 \in DOMAIN q /\ q[i - 1] = p[i])
      /\ \A i, j \in DOMAIN q : i + 1 = j + 1 => i = j
  <2>1. /\ e \in Ac!Entry /\ e = Head(p) /\ q \in Seq(Ac!Entry) /\ Len(q) = Len(p) - 1 /\ Len(p) \in Nat
        /\ \A i \in 1..Len(q) : q[i] = p[i + 1]
    BY <1>1
  <2>2. e = p[1] /\ e = Head(p) /\ DOMAIN p = 1..Len(p) /\ DOMAIN q = 1..Len(q)
    BY <1>1
  <2>3. Len(p) # 0
    BY <1>1
  <2> HIDE DEF p, q
  <2>4. \A i \in 1..Len(p) : i = 1 \/ (i - 1 \in 1..Len(q) /\ (i - 1) + 1 = i)
    BY <2>1
  <2> QED
    BY <2>1, <2>2, <2>3, <2>4
<1>3. v6'[d] = q /\ \A o \in Ac!Drawing : o # d => v6'[o] = v6[o]
  BY <1>1
<1>4. \A i, j \in DOMAIN p : p[i].key = p[j].key => i = j
  BY DEF Ac!PruningInv
<1> HIDE DEF p, q
<1>5. e \in Ac!Ahead(e.key)
  BY <1>2 DEF Ac!Ahead, p
<1>6. ASSUME NEW k \in Name
      PROVE  /\ Ac!Ahead(k)' \subseteq Ac!Ahead(k)
             /\ \A x \in Ac!Ahead(k) : x \in Ac!Ahead(k)' \/ x = e
  <2>1. ASSUME NEW x \in Ac!Ahead(k)' PROVE x \in Ac!Ahead(k)
    <3>p1. PICK o \in Ac!Drawing : \E i \in DOMAIN v6'[o] : v6'[o][i] = x /\ x.key = k /\ x \in Ac!Entry
      BY <2>1 DEF Ac!Ahead
    <3>1. PICK i \in DOMAIN v6'[o] : v6'[o][i] = x /\ x.key = k /\ x \in Ac!Entry
      BY <3>p1
    <3>2. CASE o = d
      BY <1>2, <1>3, <3>1, <3>2 DEF Ac!Ahead, p
    <3>3. CASE o # d
      BY <1>3, <3>1, <3>3 DEF Ac!Ahead
    <3> QED
      BY <3>2, <3>3
  <2>2. ASSUME NEW x \in Ac!Ahead(k), x # e PROVE x \in Ac!Ahead(k)'
    <3>p1. PICK o \in Ac!Drawing : \E i \in DOMAIN v6[o] : v6[o][i] = x /\ x.key = k /\ x \in Ac!Entry
      BY <2>2 DEF Ac!Ahead
    <3>1. PICK i \in DOMAIN v6[o] : v6[o][i] = x /\ x.key = k /\ x \in Ac!Entry
      BY <3>p1
    <3>2. CASE o = d
      <4>1. i - 1 \in DOMAIN q /\ q[i - 1] = x
        BY <1>2, <2>2, <3>1, <3>2 DEF p
      <4> QED
        BY <1>3, <3>1, <4>1 DEF Ac!Ahead
    <3>3. CASE o # d
      BY <1>3, <3>1, <3>3 DEF Ac!Ahead
    <3> QED
      BY <3>2, <3>3
  <2> QED
    BY <2>1, <2>2
<1>7. e.key \in Name
  BY <1>2 DEF Ac!Entry
<1>8. ASSUME ~v10
      PROVE  /\ \A o \in Ac!Drawing : v5[o] = None
             /\ Ac!Ahead(e.key) = {e} /\ Ac!Ahead(e.key)' = {}
             /\ e.seen <=> v9[e.key] = None
  <2>1. \A o \in Ac!Drawing : o # d => v5[o] = None /\ v6[o] = <<>>
    BY <1>1, <1>8 DEF Ac!PruningInv, Ac!UnderWay, p
  <2>2. v5[d] = None
    BY <1>1 DEF Ac!PruningInv, p
  <2>3. ASSUME NEW x \in Ac!Ahead(e.key) PROVE x = e
    <3>p1. PICK o \in Ac!Drawing : \E i \in DOMAIN v6[o] : v6[o][i] = x /\ x.key = e.key
      BY <2>3 DEF Ac!Ahead
    <3>1. PICK i \in DOMAIN v6[o] : v6[o][i] = x /\ x.key = e.key
      BY <3>p1
    <3>2. o = d
      BY <2>1, <3>1
    <3> QED
      BY <1>2, <1>4, <3>1, <3>2 DEF p
  <2>4. ASSUME NEW x \in Ac!Ahead(e.key)' PROVE FALSE
    <3>p1. PICK o \in Ac!Drawing : \E i \in DOMAIN v6'[o] : v6'[o][i] = x /\ x.key = e.key
      BY <2>4 DEF Ac!Ahead
    <3>1. PICK i \in DOMAIN v6'[o] : v6'[o][i] = x /\ x.key = e.key
      BY <3>p1
    <3>2. o = d
      BY <1>3, <2>1, <3>1
    <3>3. i + 1 \in DOMAIN p /\ i + 1 # 1 /\ p[i + 1] = x
      BY <1>2, <1>3, <3>1, <3>2
    <3> QED
      BY <1>2, <1>4, <3>1, <3>3
  <2>5. e.seen <=> v9[e.key] = None
    BY <1>2, <1>8 DEF Ac!PruningInv, p
  <2> QED
    BY <1>5, <2>1, <2>2, <2>3, <2>4, <2>5
<1>9. Ac!PruningInv'
  <2>1. v6' \in [Ac!Drawing -> Seq(Ac!Entry)]
    BY <1>1, <1>2 DEF p, q
  <2>2. \A o \in Ac!Drawing : v5'[o] # None => v6'[o] = <<>>
    BY <1>1, <1>3 DEF Ac!PruningInv, p
  <2>3. \A o \in Ac!Drawing : \A i, j \in DOMAIN v6'[o] : v6'[o][i].key = v6'[o][j].key => i = j
    <3> TAKE o \in Ac!Drawing
    <3>1. CASE o = d
      <4>1. ASSUME NEW i \in DOMAIN q, NEW j \in DOMAIN q, q[i].key = q[j].key PROVE i = j
        <5>1. i + 1 \in DOMAIN p /\ q[i] = p[i + 1] /\ j + 1 \in DOMAIN p /\ q[j] = p[j + 1]
          BY <1>2
        <5>2. i + 1 = j + 1
          BY <1>4, <4>1, <5>1
        <5> QED
          BY <1>2, <5>2
      <4> QED
        BY <1>3, <3>1, <4>1
    <3>2. CASE o # d
      BY <1>3, <3>2 DEF Ac!PruningInv
    <3> QED
      BY <3>1, <3>2
  <2>4. ASSUME ~v10'
        PROVE  /\ \A o, r \in Ac!UnderWay' : o = r
               /\ \A o \in Ac!Drawing : \A i \in DOMAIN v6'[o] :
                    v6'[o][i].seen <=> v9'[v6'[o][i].key] = None
    <3>1. Ac!UnderWay' \subseteq Ac!UnderWay
      BY <1>1, <1>3 DEF Ac!UnderWay, p
    <3>2. /\ \A o, r \in Ac!UnderWay : o = r
          /\ \A o \in Ac!Drawing : \A i \in DOMAIN v6[o] : v6[o][i].seen <=> v9[v6[o][i].key] = None
      BY <2>4 DEF Ac!PruningInv
    <3>3. ASSUME NEW o \in Ac!Drawing, NEW i \in DOMAIN v6'[o]
          PROVE  v6'[o][i].seen <=> v9'[v6'[o][i].key] = None
      <4>1. CASE o = d
        <5>1. i \in DOMAIN q /\ v6'[o][i] = q[i]
          BY <1>3, <4>1
        <5>2. i + 1 \in DOMAIN v6[d] /\ q[i] = v6[d][i + 1]
          BY <1>2, <5>1 DEF p
        <5> QED
          BY <3>2, <5>1, <5>2
      <4>2. CASE o # d
        BY <1>3, <3>2, <4>2
      <4> QED
        BY <4>1, <4>2
    <3> QED
      BY <3>1, <3>2, <3>3
  <2> QED
    BY <2>1, <2>2, <2>3, <2>4 DEF Ac!PruningInv
<1> QED
  BY <1>5, <1>6, <1>7, <1>8, <1>9 DEF p

LEMMA PruneStepStep == ASSUME Ac!AcksInv, NEW d \in Ac!Drawing, Ac!PruneStep(d) PROVE Ac!AcksInv'
<1>0. PICK e : e = Head(v6[d])
  OBVIOUS
<1> DEFINE k == e.key
<1>1. /\ v6[d] # <<>> /\ v6' = [v6 EXCEPT ![d] = Tail(@)]
      /\ UNCHANGED <<v1, v2, v5, v9, v10>>
  BY DEF Ac!PruneStep
<1>2. /\ e \in Ac!Ahead(k)
      /\ \A j \in Name : Ac!Ahead(j)' \subseteq Ac!Ahead(j) /\ \A x \in Ac!Ahead(j) : x \in Ac!Ahead(j)' \/ x = e
      /\ ~v10 => /\ \A o \in Ac!Drawing : v5[o] = None
                 /\ Ac!Ahead(k) = {e} /\ Ac!Ahead(k)' = {}
                 /\ e.seen <=> v9[k] = None
      /\ Ac!PruningInv'
  BY <1>0, <1>1, AheadMoves DEF Ac!AcksInv
<1>3. e \in Ac!Entry /\ k \in Name /\ e.rec \in Ac!Record /\ e.seen \in BOOLEAN
  BY <1>2 DEF Ac!Ahead, Ac!Entry
<1>4. \A j \in Name : j # k => Ac!Ahead(j)' = Ac!Ahead(j)
  BY <1>2 DEF Ac!Ahead
<1>5. /\ v4 \in Ac!Records /\ v3 \in Ac!Records /\ v1 \in Nat
      /\ v8 \in [Name -> [acked : BOOLEAN, note : BOOLEAN]]
  BY DEF Ac!AcksInv
<1>6. CASE Ac!LeftAlone(e) /\ UNCHANGED <<v3, v4, v8, v11>>
  <2>1. ASSUME NEW j \in Name \ v11 PROVE Ac!Kept(j)'
    <3>1. Ac!Kept(j)
      BY DEF Ac!AcksInv
    <3>2. CASE j = k
      <4>1. v4[j] # None /\ e.rec = v4[j]
        BY <1>2, <3>1, <3>2 DEF Ac!Kept
      <4>2. e.seen => v4[j].missingSince = None
        BY <1>6, <4>1 DEF Ac!LeftAlone
      <4>3. ASSUME v4[j].missingSince # None
            PROVE  (v9[j] # None /\ v9[j] <= v4[j].missingSince) \/ \E x \in Ac!Ahead(j)' : x.seen
        <5> QED
          BY <1>2, <3>1, <3>2, <4>1, <4>2, <4>3 DEF Ac!Kept
      <4> HIDE DEF k
      <4> QED
        BY <1>1, <1>2, <1>6, <3>1, <4>1, <4>3 DEF Ac!Kept
    <3>3. CASE j # k
      <4> HIDE DEF k
      <4> QED
        BY <1>1, <1>4, <1>6, <3>1, <3>3 DEF Ac!Kept
    <3> QED
      BY <3>2, <3>3
  <2> QED
    BY <1>1, <1>2, <1>6, <2>1 DEF Ac!AcksInv
<1>7. ASSUME Ac!Pruned(e),
             v8' = (IF v4'[k] = None /\ Ac!Forgettable(k) THEN [v8 EXCEPT ![k] = Ac!Nothing] ELSE v8),
             v11' = (IF v10 \/ v4'[k] # v3'[k] THEN v11 \cup {k} ELSE v11)
      PROVE  Ac!AcksInv'
  <2>1. PICK rec :
          /\ v3' = [v3 EXCEPT ![k] = rec] /\ v4' \in {v4, [v4 EXCEPT ![k] = rec]}
          /\ \/ e.seen /\ rec = Clocked(e.rec, None)
             \/ ~e.seen /\ rec = Clocked(e.rec, v1)
             \/ /\ ~e.seen /\ ~e.rec.note /\ e.rec.missingSince # None
                /\ v1 - e.rec.missingSince >= Grace /\ rec = None
    BY <1>3, <1>7, PrunedMakes
  <2>2. rec \in {None} \cup Ac!Record
    <3>1. Clocked(e.rec, None) \in Ac!Record /\ Clocked(e.rec, v1) \in Ac!Record
      BY <1>3, <1>5, RecordsMove
    <3> QED
      BY <2>1, <3>1
  <2>3. /\ v3' \in Ac!Records /\ v4' \in Ac!Records /\ v3'[k] = rec
        /\ \A j \in Name : j # k => v3'[j] = v3[j] /\ v4'[j] = v4[j]
    <3> HIDE DEF k
    <3> QED
      BY <1>3, <1>5, <2>1, <2>2 DEF Ac!Records
  <2>4. /\ v8' \in [Name -> [acked : BOOLEAN, note : BOOLEAN]]
        /\ \A j \in Name : j # k => v8'[j] = v8[j]
        /\ v4'[k] = None /\ Ac!Forgettable(k) => v8'[k] = Ac!Nothing
        /\ v4'[k] # None => v8'[k] = v8[k]
    <3>1. Ac!Nothing \in [acked : BOOLEAN, note : BOOLEAN]
      BY DEF Ac!Nothing
    <3> HIDE DEF k
    <3> QED
      BY <1>3, <1>5, <1>7, <3>1
  <2>5. ASSUME NEW j \in Name \ v11' PROVE Ac!Kept(j)'
    <3>1. Ac!Kept(j) /\ j \in Name \ v11
      BY <1>7 DEF Ac!AcksInv
    <3>2. CASE j = k
      <4>0. ~v10 /\ v4'[k] = rec
        BY <1>7, <2>3, <3>2
      <4>1. v4[k] # None /\ e.rec = v4[k] /\ v8[k] = [acked |-> e.rec.acked, note |-> e.rec.note]
        BY <1>2, <3>1, <3>2 DEF Ac!Kept
      <4>2. v9[k] # None => v9[k] <= v1 /\ v9[k] \in Nat
        BY <1>3 DEF Ac!AcksInv
      <4>3. /\ Ac!Ahead(k)' = {} /\ (e.seen <=> v9[k] = None) /\ Ac!Ahead(k) = {e}
            /\ \A o \in Ac!Drawing : v5'[o] = None
        BY <1>1, <1>2, <4>0
      <4>4. CASE rec = None
        <5>1. ~e.seen /\ ~e.rec.note /\ e.rec.missingSince # None /\ v1 - e.rec.missingSince >= Grace
          BY <1>3, <1>5, <2>1, <4>4, RecordsMove
        <5>2. v9[k] # None /\ v9[k] <= e.rec.missingSince /\ e.rec.missingSince \in Nat
          BY <1>3, <3>1, <3>2, <4>1, <4>3, <5>1, RecordsMove DEF Ac!Kept
        <5>3. Ac!Forgettable(k)
          <6>1. v1 - v9[k] >= Grace
            BY <1>5, <4>2, <5>1, <5>2, AcksAssumption
          <6>2. ~v8[k].note
            BY <4>1, <5>1
          <6> QED
            BY <5>2, <6>1, <6>2 DEF Ac!Forgettable
        <5>4. v8'[k] = Ac!Nothing
          BY <2>4, <4>0, <4>4, <5>3
        <5> HIDE DEF k
        <5> QED
          BY <1>1, <2>3, <3>2, <4>0, <4>3, <4>4, <5>4 DEF Ac!Kept
      <4>5. CASE rec # None
        <5>1. /\ rec.acked = e.rec.acked /\ rec.note = e.rec.note
              /\ rec.missingSince # None => v9[k] # None /\ v9[k] <= rec.missingSince
          <6>1. \A m \in Nat \cup {None} :
                  /\ Clocked(e.rec, m) \in Ac!Record /\ Clocked(e.rec, m) # None /\ Clocked(e.rec, m).missingSince = m
                  /\ Clocked(e.rec, m).acked = e.rec.acked /\ Clocked(e.rec, m).note = e.rec.note
            BY <1>3, RecordsMove, Zenon
          <6>2. CASE rec = Clocked(e.rec, None)
            BY <6>1, <6>2
          <6>3. CASE ~e.seen /\ rec = Clocked(e.rec, v1)
            BY <1>5, <4>2, <4>3, <6>1, <6>3
          <6> QED
            BY <2>1, <4>5, <6>2, <6>3
        <5>2. v8'[k] = [acked |-> rec.acked, note |-> rec.note]
          BY <2>4, <4>0, <4>1, <4>5, <5>1
        <5> HIDE DEF k
        <5> QED
          BY <1>1, <2>3, <3>2, <4>0, <4>3, <4>5, <5>1, <5>2 DEF Ac!Kept
      <4> QED
        BY <4>4, <4>5
    <3>3. CASE j # k
      <4> HIDE DEF k
      <4> QED
        BY <1>1, <1>4, <2>3, <2>4, <3>1, <3>3 DEF Ac!Kept
    <3> QED
      BY <3>2, <3>3
  <2> QED
    BY <1>1, <1>2, <2>3, <2>4, <2>5 DEF Ac!AcksInv
<1> QED
  BY <1>0, <1>6, <1>7 DEF Ac!PruneStep

\* What an operator does to the copy, and to the database if that takes it.
LEMMA SaveStep ==
  ASSUME Ac!AcksInv, NEW k \in Name, NEW rec \in Ac!Record, Ac!Save(k, rec), rec.missingSince = Ac!AckFor(k).missingSince
  PROVE  Ac!AcksInv'
<1>1. /\ v3' = [v3 EXCEPT ![k] = rec] /\ (v4' = v4 \/ v4' = [v4 EXCEPT ![k] = rec])
      /\ v8' = [v8 EXCEPT ![k] = [acked |-> rec.acked, note |-> rec.note]]
      /\ v11' = IF Ac!UnderWay # {} \/ v4'[k] # rec THEN v11 \cup {k} ELSE v11
      /\ UNCHANGED <<v1, v2, v5, v6, v7, v9, v10>>
  BY DEF Ac!Save, Ac!Put
<1>2. [acked |-> rec.acked, note |-> rec.note] \in [acked : BOOLEAN, note : BOOLEAN] /\ rec # None
  BY RecordsMove
<1>3. v4 \in Ac!Records /\ v3 \in Ac!Records /\ v8 \in [Name -> [acked : BOOLEAN, note : BOOLEAN]]
  BY DEF Ac!AcksInv
<1>4. /\ v3' \in Ac!Records /\ v4' \in Ac!Records /\ v3'[k] = rec
      /\ v8' \in [Name -> [acked : BOOLEAN, note : BOOLEAN]]
      /\ v8'[k] = [acked |-> rec.acked, note |-> rec.note]
      /\ \A j \in Name : j # k => v3'[j] = v3[j] /\ v4'[j] = v4[j] /\ v8'[j] = v8[j]
  BY <1>1, <1>2, <1>3 DEF Ac!Records
<1>5. Ac!PruningInv'
  BY <1>1 DEF Ac!AcksInv, Ac!PruningInv, Ac!UnderWay
<1>a. \A j \in Name : Ac!Ahead(j)' = Ac!Ahead(j)
  BY <1>1 DEF Ac!Ahead
<1>6. ASSUME NEW j \in Name \ v11' PROVE Ac!Kept(j)'
  <2>1. j \in Name \ v11
    BY <1>1
  <2>2. Ac!Kept(j)
    BY <2>1 DEF Ac!AcksInv
  <2>3. CASE j # k
    BY <1>1, <1>4, <1>a, <2>2, <2>3 DEF Ac!Kept
  <2>4. CASE j = k
    <3>1. Ac!UnderWay = {} /\ v4'[k] = rec
      BY <1>1, <2>4
    <3>e. Ac!Ahead(k) = {} /\ \A d \in Ac!Drawing : v5'[d] = None
      BY <1>1, <3>1 DEF Ac!UnderWay, Ac!Ahead
    <3>2. rec.missingSince # None => v9[k] # None /\ v9[k] <= rec.missingSince
      <4>1. CASE v3[k] = None
        BY <4>1 DEF Ac!AckFor, Ac!Blank
      <4>2. CASE v3[k] # None
        BY <2>2, <2>4, <3>e, <4>2 DEF Ac!AckFor, Ac!Kept
      <4> QED
        BY <4>1, <4>2
    <3> QED
      BY <1>1, <1>2, <1>4, <1>a, <2>4, <3>1, <3>e, <3>2 DEF Ac!Kept
  <2> QED
    BY <2>3, <2>4
<1> QED
  BY <1>1, <1>4, <1>5, <1>6 DEF Ac!AcksInv

LEMMA AcksStep == ASSUME Ac!AcksInv, [Ac!Next]_(Ac!vars) PROVE Ac!AcksInv'
<1>1. ASSUME NEW k \in Name, Ac!Touch(k) PROVE Ac!AcksInv'
  <2>1. Ac!AckFor(k) \in Ac!Record
    <3>1. Ac!Blank \in Ac!Record
      BY DEF Ac!Blank, Ac!Record
    <3> QED
      BY <3>1 DEF Ac!AckFor, Ac!AcksInv, Ac!Records
  <2>2. Ac!Save(k, Turned(Ac!AckFor(k))) \/ Ac!Save(k, Annotated(Ac!AckFor(k)))
    BY <1>1 DEF Ac!Touch, Turned, Annotated
  <2> QED
    BY <2>1, <2>2, SaveStep, RecordsMove
<1>2. ASSUME UNCHANGED <<v3, v4, v5, v6, v8, v9, v10, v11>>, v1' \in Nat, v1 <= v1'
      PROVE  Ac!AcksInv'
  <2>1. \A k \in Name \ v11 : Ac!Kept(k)'
    BY <1>2 DEF Ac!AcksInv, Ac!Kept, Ac!Ahead
  <2>2. Ac!PruningInv'
    BY <1>2 DEF Ac!AcksInv, Ac!PruningInv, Ac!UnderWay
  <2> QED
    BY <1>2, <2>1, <2>2 DEF Ac!AcksInv
<1>3. CASE Ac!Day
  BY <1>2, <1>3 DEF Ac!Day, Ac!AcksInv
<1>4. ASSUME NEW k \in Name, Ac!Comes(k) PROVE Ac!AcksInv'
  BY <1>2, <1>4 DEF Ac!Comes, Ac!AcksInv
<1>5. CASE UNCHANGED Ac!vars
  BY <1>2, <1>5 DEF Ac!vars, Ac!AcksInv
<1> QED
  BY <1>1, <1>3, <1>4, <1>5, PruneStepStep, RenderStep, LoadedStep DEF Ac!Next

LEMMA AcksHolds == Ac!AcksInv => Ac!WhatWasWrittenIsKept
<1> SUFFICES ASSUME Ac!AcksInv, NEW k \in Name \ v11
             PROVE  LET rec == IF v4[k] = None THEN Ac!Blank ELSE v4[k]
                    IN  rec.acked = v8[k].acked /\ rec.note = v8[k].note
  BY DEF Ac!WhatWasWrittenIsKept
<1>1. Ac!Kept(k)
  BY DEF Ac!AcksInv
<1>2. CASE v4[k] = None
  <2>1. v8[k] = Ac!Nothing
    BY <1>1, <1>2 DEF Ac!Kept
  <2>2. Ac!Blank.acked = Ac!Nothing.acked /\ Ac!Blank.note = Ac!Nothing.note
    BY DEF Ac!Blank, Ac!Nothing
  <2> QED
    BY <1>2, <2>1, <2>2
<1>3. CASE v4[k] # None
  BY <1>1, <1>3 DEF Ac!Kept
<1> QED
  BY <1>2, <1>3

-----------------------------------------------------------------------------
(* Alerting *)

LEMMA AlertingInit == Al!Init => Al!UnseenIsGone
BY DEF Al!Init, Al!UnseenIsGone

LEMMA AlertingStep ==
  ASSUME Al!UnseenIsGone, [Al!Next]_(Al!vars)
  PROVE  Al!UnseenIsGone' /\ [Al!AnnouncesOnce]_(Al!vars)
<1> USE DEF Al!UnseenIsGone, Al!AnnouncesOnce
<1>1. ASSUME NEW root, NEW health, NEW cat, NEW slm, Al!Refresh(root, health, cat, slm)
      PROVE  Al!UnseenIsGone' /\ [Al!AnnouncesOnce]_(Al!vars)
  <2>1. Al!Raised(v4') \subseteq Al!Rule
    BY DEF Al!Raised, Al!Rule
  <2> QED
    BY <1>1, <2>1 DEF Al!Refresh, Al!Fresh
<1>2. CASE Al!Configure \/ Al!Reset \/ Al!World
  BY <1>2 DEF Al!Configure, Al!Reset, Al!World
<1>3. CASE UNCHANGED Al!vars
  BY <1>3 DEF Al!vars
<1> QED
  BY <1>1, <1>2, <1>3 DEF Al!Next

-----------------------------------------------------------------------------
(* Capacity *)

LEMMA CapacityCounts == (\A S : Ca!Cardinality(S) = Cardinality(S)) /\ (\A S : Ca!IsFiniteSet(S) = IsFiniteSet(S))
BY DEF IsFiniteSet, Ca!IsFiniteSet, Cardinality, Ca!Cardinality

LEMMA SomeNodes == ASSUME NEW S \in SUBSET DataNode PROVE IsFiniteSet(S) /\ Cardinality(S) \in Nat
BY CapacityAssumption, CapacityCounts, FS_Subset, FS_CardinalityType

\* The disk of some nodes is that of any part of them and of the rest.
LEMMA UnitsSplit ==
  ASSUME v2 \in [DataNode -> 1..Path], NEW A \in SUBSET DataNode, NEW B \in SUBSET DataNode, A \cap B = {}
  PROVE  Ca!Units(A \cup B) = Ca!Units(A) + Ca!Units(B) /\ Ca!Units(A) \in Nat /\ Ca!Units(B) \in Nat
<1> DEFINE U(S) == {x \in S \X (1..Path) : x[2] <= v2[x[1]]}
<1>1. \A S \in SUBSET DataNode : IsFiniteSet(U(S)) /\ Cardinality(U(S)) \in Nat /\ Ca!Units(S) = Cardinality(U(S))
  <2>1. ASSUME NEW S \in SUBSET DataNode
        PROVE  IsFiniteSet(S \X (1..Path)) /\ U(S) \in SUBSET (S \X (1..Path)) /\ Ca!Units(S) = Cardinality(U(S))
    <3>1. IsFiniteSet(S) /\ IsFiniteSet(1..Path)
      BY SomeNodes, CapacityAssumption, FS_Interval
    <3>2. IsFiniteSet(S \X (1..Path))
      BY <3>1, FS_Product
    <3>3. Ca!Units(S) = Cardinality(U(S))
      BY CapacityCounts DEF Ca!Units
    <3> QED
      BY <3>2, <3>3
  <2> HIDE DEF U
  <2> QED
    BY <2>1, FS_Subset, FS_CardinalityType
<1>2. U(A \cup B) = U(A) \cup U(B)
  OBVIOUS
<1>3. U(A) \cap U(B) = {}
  OBVIOUS
<1>4. A \cup B \in SUBSET DataNode
  OBVIOUS
<1> HIDE DEF U
<1>5. Cardinality(U(A) \cup U(B)) = Cardinality(U(A)) + Cardinality(U(B)) - Cardinality(U(A) \cap U(B))
  BY <1>1, FS_Union
<1>6. Cardinality(U(A) \cap U(B)) = 0
  BY <1>3, FS_EmptySet
<1>7. /\ Ca!Units(A \cup B) = Cardinality(U(A) \cup U(B))
      /\ Ca!Units(A) = Cardinality(U(A)) /\ Cardinality(U(A)) \in Nat
      /\ Ca!Units(B) = Cardinality(U(B)) /\ Cardinality(U(B)) \in Nat
  BY <1>1, <1>2, <1>4
<1> QED
  BY <1>5, <1>6, <1>7

\* Nodes of k units each.
LEMMA UnitsAlike ==
  ASSUME v2 \in [DataNode -> 1..Path], NEW A \in SUBSET DataNode, NEW k \in 1..Path, \A n \in A : v2[n] = k
  PROVE  Ca!Units(A) = Cardinality(A) * k
<1>1. {x \in A \X (1..Path) : x[2] <= v2[x[1]]} = A \X (1..k)
  BY CapacityAssumption
<1>2. IsFiniteSet(1..k) /\ Cardinality(1..k) = k
  BY CapacityAssumption, FS_Interval
<1> QED
  BY <1>1, <1>2, SomeNodes, FS_Product, CapacityCounts DEF Ca!Units

LEMMA NodesSplit ==
  ASSUME NEW A \in SUBSET DataNode, NEW B \in SUBSET DataNode, A \cap B = {}
  PROVE  Cardinality(A \cup B) = Cardinality(A) + Cardinality(B)
<1>1. Cardinality(A \cup B) = Cardinality(A) + Cardinality(B) - Cardinality(A \cap B)
  BY SomeNodes, FS_Union
<1>2. Cardinality(A \cap B) = 0
  BY FS_EmptySet
<1> QED
  BY <1>1, <1>2, SomeNodes

\* As many nodes, none of them in the place of one that is unlike it, have as much disk.
LEMMA AsMuchDisk ==
  ASSUME Ca!NodesInv, Cardinality(v5) = Cardinality(v3), ~Ca!Unlike(v5, v3)
  PROVE  Ca!Units(v5) = Ca!Units(v3)
<1> DEFINE A == v5 \ v3
           B == v3 \ v5
           C == v5 \cap v3
<1>1. /\ A \in SUBSET DataNode /\ B \in SUBSET DataNode /\ C \in SUBSET DataNode /\ A \cap C = {} /\ B \cap C = {}
      /\ v5 = A \cup C /\ v3 = B \cup C /\ v2 \in [DataNode -> 1..Path]
  BY DEF Ca!NodesInv
<1>2. \A m \in A, n \in B : v2[m] = v2[n]
  BY DEF Ca!Unlike
<1> HIDE DEF A, B, C
<1>3. Cardinality(A) = Cardinality(B)
  <2>1. Cardinality(v5) = Cardinality(A) + Cardinality(C) /\ Cardinality(v3) = Cardinality(B) + Cardinality(C)
    BY <1>1, NodesSplit
  <2>2. Cardinality(A) \in Nat /\ Cardinality(B) \in Nat /\ Cardinality(C) \in Nat
    BY <1>1, SomeNodes
  <2>3. Cardinality(A) + Cardinality(C) = Cardinality(B) + Cardinality(C)
    BY <2>1
  <2>4. \A a, b, c \in Nat : a + c = b + c => a = b
    OBVIOUS
  <2> QED
    BY <2>2, <2>3, <2>4
<1>4. Ca!Units(A) = Ca!Units(B)
  <2>1. CASE A = {}
    <3>1. B = {}
      BY <1>1, <1>3, <2>1, SomeNodes, FS_EmptySet
    <3> QED
      BY <2>1, <3>1
  <2>2. CASE A # {}
    <3>1. B # {}
      BY <1>1, <1>3, <2>2, SomeNodes, FS_EmptySet
    <3>2. PICK m \in A, n \in B : TRUE
      BY <2>2, <3>1
    <3>3. v2[n] \in 1..Path /\ (\A x \in A : v2[x] = v2[n]) /\ (\A x \in B : v2[x] = v2[n])
      BY <1>1, <1>2
    <3> QED
      BY <1>1, <1>3, <3>3, UnitsAlike
  <2> QED
    BY <2>1, <2>2
<1> QED
  BY <1>1, <1>4, UnitsSplit

LEMMA CapacityInit == Ca!Init => Ca!NodesInv /\ Ca!DiskInv
<1> SUFFICES ASSUME Ca!Init PROVE Ca!NodesInv /\ Ca!DiskInv
  OBVIOUS
<1>1. /\ v2 \in [DataNode -> 1..Path] /\ v3 = DataNode /\ v5 = {} /\ v4 = [total |-> None, fleet |-> None, from |-> None, age |-> None]
      /\ v6 = FALSE /\ v7 = FALSE /\ v10 = None /\ v11 = None
  BY DEF Ca!Init
<1>2. v8 \in Nat /\ v9 \in Nat
  <2>1. (v8 \in DiskSizes /\ v9 \in Rests) \/ (v8 = 0 /\ v9 = 0)
    BY DEF Ca!Init
  <2>2. v8 \in DiskSizes /\ v9 \in Rests => v8 \in Nat /\ v9 \in Nat
    BY CapacityAssumption
  <2> QED
    BY <2>1, <2>2
<1>3. Ca!NodesInv
  BY <1>1, CapacityAssumption DEF Ca!NodesInv
<1> QED
  BY <1>1, <1>2, <1>3 DEF Ca!DiskInv

LEMMA ReadingStep == ASSUME Ca!NodesInv, Ca!DiskInv, Ca!Reading PROVE Ca!NodesInv' /\ Ca!DiskInv'
<1> DEFINE total == Ca!Units(v3)
           count == Ca!Cardinality(v3)
           from == IF Ca!Changed(total, count) THEN v4.total ELSE v4.from
           age == IF Ca!Changed(total, count) THEN 0 ELSE Ca!Aged(v4.age)
           other == v4.fleet = count /\ Ca!Unlike(v5, v3)
<1>1. /\ v4' = [total |-> total, fleet |-> count, from |-> from, age |-> age]
      /\ v10' = v8 + v9 /\ v12' = [kept |-> v8, rest |-> v9] /\ v5' = v3
      /\ v7' = (v7 \/ other)
      /\ v2' = v2 /\ v3' = v3 /\ v6' = v6 /\ v8' = v8 /\ v9' = v9 /\ v11' = v11
  BY DEF Ca!Reading
<1>2. ASSUME ~v6, ~v7, ~other
      PROVE  age = None
  <2>1. ~Ca!Changed(total, count)
    <3>1. ASSUME v4.total # None, v4.fleet = count
          PROVE  v4.total = total
      <4>1. Ca!Cardinality(v5) = count /\ v4.total = Ca!Units(v5)
        BY <1>2, <3>1 DEF Ca!NodesInv
      <4>2. Cardinality(v5) = Cardinality(v3)
        BY <4>1, CapacityCounts
      <4> QED
        BY <1>2, <3>1, <4>1, <4>2, AsMuchDisk
    <3> HIDE DEF total, count
    <3> QED
      BY <3>1 DEF Ca!Changed
  <2>2. Ca!Aged(v4.age) = None
    BY <1>2 DEF Ca!NodesInv, Ca!Aged
  <2> HIDE DEF total, count
  <2> QED
    BY <2>1, <2>2
<1>3. Ca!Units(v5)' = total /\ Ca!Cardinality(v5)' = count
  BY <1>1 DEF Ca!Units
<1>4. other \in BOOLEAN
  BY DEF Ca!Unlike
<1> HIDE DEF total, count, from, age, other
<1>5. Ca!NodesInv'
  BY <1>1, <1>2, <1>3, <1>4 DEF Ca!NodesInv
<1>6. Ca!DiskInv'
  BY <1>1 DEF Ca!DiskInv
<1> QED
  BY <1>5, <1>6

LEMMA CapacityStep == ASSUME Ca!NodesInv, Ca!DiskInv, [Ca!Next]_(Ca!vars) PROVE Ca!NodesInv' /\ Ca!DiskInv'
<1>1. CASE Ca!Missed
  <2>1. /\ v4' = [v4 EXCEPT !.age = Ca!Aged(@)]
        /\ UNCHANGED <<v2, v3, v5, v6, v7, v8, v9, v10, v11, v12>>
    BY <1>1 DEF Ca!Missed, Ca!disk
  <2>2. v4.age = None => Ca!Aged(v4.age) = None
    BY DEF Ca!Aged
  <2> QED
    BY <2>1, <2>2 DEF Ca!NodesInv, Ca!DiskInv, Ca!Units
<1>2. CASE Ca!Rebuild
  <2>1. /\ UNCHANGED <<v3, v4, v5, v7, v8, v9, v10, v11, v12>> /\ v6' = TRUE
        /\ v2' \in [DataNode -> 1..Path]
    BY <1>2 DEF Ca!Rebuild, Ca!disk, Ca!NodesInv
  <2> QED
    BY <2>1 DEF Ca!NodesInv, Ca!DiskInv
<1>3. CASE Ca!Restart
  <2>1. v3' \in SUBSET DataNode /\ UNCHANGED <<v2, v4, v5, v6, v7, v8, v9, v10, v11, v12>>
    BY <1>3 DEF Ca!Restart, Ca!disk
  <2> QED
    BY <2>1 DEF Ca!NodesInv, Ca!DiskInv, Ca!Units
<1>4. CASE Ca!Grow
  BY <1>4, CapacityAssumption DEF Ca!Grow, Ca!fleet, Ca!NodesInv, Ca!DiskInv, Ca!Units
<1>5. CASE Ca!List
  BY <1>5 DEF Ca!List, Ca!fleet, Ca!NodesInv, Ca!DiskInv, Ca!Units
<1>6. CASE UNCHANGED Ca!vars
  BY <1>6 DEF Ca!vars, Ca!fleet, Ca!disk, Ca!NodesInv, Ca!DiskInv, Ca!Units
<1> QED
  BY <1>1, <1>2, <1>3, <1>4, <1>5, <1>6, ReadingStep DEF Ca!Next

LEMMA CapacityHolds == Ca!NodesInv /\ Ca!DiskInv => Ca!RestartsDoNotAlarm /\ Ca!GapsAreReal
<1> SUFFICES ASSUME Ca!NodesInv, Ca!DiskInv PROVE Ca!RestartsDoNotAlarm /\ Ca!GapsAreReal
  OBVIOUS
<1>1. Ca!RestartsDoNotAlarm
  BY DEF Ca!NodesInv, Ca!RestartsDoNotAlarm
<1>2. Ca!Unaccounted => v12.rest > 0 \/ (v11 # None /\ v11 < v12.kept)
  BY DEF Ca!Unaccounted, Ca!Material, Ca!DiskInv
<1>3. ASSUME v10 # None, v11 \notin {None, 0}, v11 <= v12.kept, Ca!Material(v12.rest) PROVE Ca!Unaccounted
  <2>1. v12.kept \in Nat /\ v12.rest \in Nat /\ v10 = v12.kept + v12.rest /\ v11 \in Nat
    BY <1>3 DEF Ca!DiskInv
  <2>2. v12.rest > 1 /\ 20 * v12.rest > v10
    BY <1>3 DEF Ca!Material
  <2>3. v10 - v11 \in Int /\ v10 - v11 >= v12.rest
    BY <1>3, <2>1
  <2>4. v10 - v11 > 1 /\ 20 * (v10 - v11) > v10 /\ v10 # 0
    BY <2>1, <2>2, <2>3
  <2> QED
    BY <1>3, <2>4 DEF Ca!Unaccounted, Ca!Material
<1> QED
  BY <1>1, <1>2, <1>3 DEF Ca!GapsAreReal

-----------------------------------------------------------------------------
(* FanOut *)

\* The part counts as this module does: each has its own instance of FiniteSets.
LEMMA FanOutCounts == \A S : (Fa!IsFiniteSet(S) <=> IsFiniteSet(S)) /\ Fa!Cardinality(S) = Cardinality(S)
BY DEF IsFiniteSet, Fa!IsFiniteSet, Cardinality, Fa!Cardinality

LEMMA FanOutInit == Fa!Init => Fa!RunInv
BY DEF Fa!Init, Fa!RunInv

\* A run that begins takes as many items as there are places, or all of them.
LEMMA BegunRun ==
  ASSUME NEW items \in Lists, v1' = Fa!Begun(items)
  PROVE  Fa!RunInv'
<1> DEFINE first == IF Len(items) < FanOutLimit THEN Len(items) ELSE FanOutLimit
<1>1. first \in 0..Len(items) /\ first <= FanOutLimit /\ (Len(items) > 0 => first > 0)
  BY FanOutAssumption
<1>2. v1' = [items |-> items, next |-> first, flying |-> 1..first, settled |-> {},
             cancelled |-> FALSE]
  BY DEF Fa!Begun
<1> HIDE DEF first
<1>3. IsFiniteSet(1..first) /\ Cardinality(1..first) = first
  BY <1>1, FS_Interval
<1>4. Fa!IsFiniteSet(1..first) /\ Fa!Cardinality(1..first) <= FanOutLimit
  BY <1>1, <1>3, FanOutCounts
<1>5. /\ v1' = [items |-> v1'.items, next |-> v1'.next, flying |-> v1'.flying,
                 settled |-> v1'.settled, cancelled |-> v1'.cancelled]
      /\ v1'.items = items /\ v1'.next = first /\ v1'.flying = 1..first
      /\ v1'.settled = {} /\ v1'.cancelled = FALSE
  BY <1>2
<1>6. /\ v1'.settled \cup v1'.flying = 1..v1'.next /\ v1'.settled \cap v1'.flying = {}
      /\ ~v1'.cancelled /\ v1'.next < Len(v1'.items) => v1'.flying # {}
  BY <1>1, <1>5
<1>7. v1'.items \in Lists /\ v1'.next \in 0..Len(v1'.items) /\ v1'.cancelled \in BOOLEAN
  BY <1>1, <1>5
<1>8. Fa!IsFiniteSet(v1'.flying) /\ Fa!Cardinality(v1'.flying) <= FanOutLimit
  BY <1>4, <1>5
<1> QED
  BY <1>5, <1>6, <1>7, <1>8 DEF Fa!RunInv

\* An item that is settled frees one place, and the next item takes it at most.
LEMMA SettledRun ==
  ASSUME Fa!RunInv, NEW i, Fa!Settle(i)
  PROVE  Fa!RunInv'
<1> DEFINE left == v1.flying \ {i}
           more == left \cup {v1.next + 1}
<1>1. IsFiniteSet(v1.flying) /\ i \in v1.flying /\ v1 # None
  BY FanOutCounts DEF Fa!Settle, Fa!RunInv
<1>2. IsFiniteSet(left) /\ Cardinality(left) = Cardinality(v1.flying) - 1
  BY <1>1, FS_RemoveElement
<1>3. IsFiniteSet(more) /\ Cardinality(more) \in {Cardinality(left), Cardinality(left) + 1}
  BY <1>2, FS_AddElement
<1>4. Cardinality(v1.flying) \in Nat
  BY <1>1, FS_CardinalityType
<1>5. CASE v1.cancelled \/ v1.next = Len(v1.items)
  <2>1. v1' = [items |-> v1.items, next |-> v1.next, flying |-> left,
               settled |-> v1.settled \cup {i}, cancelled |-> v1.cancelled]
    BY <1>5 DEF Fa!Settle, Fa!Settled, Fa!RunInv
  <2> QED
    BY <1>1, <1>2, <1>4, <1>5, <2>1, FanOutAssumption, FanOutCounts DEF Fa!RunInv
<1>6. CASE ~v1.cancelled /\ v1.next < Len(v1.items)
  <2>1. v1' = [items |-> v1.items, next |-> v1.next + 1, flying |-> more,
               settled |-> v1.settled \cup {i}, cancelled |-> v1.cancelled]
    <3>1. v1.next # Len(v1.items)
      BY <1>6, FanOutCounts DEF Fa!RunInv
    <3> QED
      BY <1>6, <3>1 DEF Fa!Settle, Fa!Settled, Fa!RunInv
  <2> HIDE DEF more
  <2>2. (v1.settled \cup {i}) \cup more = 1..(v1.next + 1)
    BY <1>1 DEF Fa!RunInv, more
  <2>3. (v1.settled \cup {i}) \cap more = {}
    BY <1>1 DEF Fa!RunInv, more
  <2>4. Cardinality(more) <= FanOutLimit /\ more # {}
    BY <1>1, <1>2, <1>3, <1>4, FanOutAssumption, FanOutCounts DEF Fa!RunInv, more
  <2> QED
    BY <1>1, <1>3, <1>6, <2>1, <2>2, <2>3, <2>4, FanOutCounts DEF Fa!RunInv
<1> QED
  BY <1>1, <1>5, <1>6, FanOutCounts DEF Fa!RunInv

LEMMA FanOutStep ==
  ASSUME Fa!RunInv, [Fa!Next]_(Fa!vars)
  PROVE  Fa!RunInv'
<1>1. CASE Fa!Cancel
  BY <1>1 DEF Fa!Cancel, Fa!Cancelled, Fa!RunInv
<1>2. CASE Fa!End \/ UNCHANGED Fa!vars
  BY <1>2 DEF Fa!End, Fa!vars, Fa!RunInv
<1> QED
  BY <1>1, <1>2, BegunRun, SettledRun DEF Fa!Next, Fa!Begin

LEMMA FanOutAccounts == Fa!RunInv => Fa!AccountsForEverything
BY FanOutCounts DEF Fa!RunInv, Fa!AccountsForEverything, Fa!Skipped, Fa!Over

-----------------------------------------------------------------------------
(* DelayView *)

LEMMA DelayViewCounts == (\A S : De!Cardinality(S) = Cardinality(S)) /\ (\A S : De!IsFiniteSet(S) = IsFiniteSet(S))
BY DEF IsFiniteSet, De!IsFiniteSet, Cardinality, De!Cardinality

\* A list has each of its clusters once.
LEMMA ListHolds ==
  ASSUME NEW S \in SUBSET Cluster
  PROVE  /\ De!List(S) \in Seq(Cluster)
         /\ \A i, j \in DOMAIN De!List(S) : De!List(S)[i] = De!List(S)[j] => i = j
         /\ \A i \in DOMAIN De!List(S) : De!List(S)[i] \in S
         /\ \A c \in S : \E i \in DOMAIN De!List(S) : De!List(S)[i] = c
<1> DEFINE n == Cardinality(S)
           m == De!Cardinality(S)
<1>1. IsFiniteSet(S)
  BY DelayViewAssumption, DelayViewCounts, FS_Subset
<1>2. n \in Nat /\ m = n
  BY <1>1, DelayViewCounts, FS_CardinalityType
<1>3. ExistsBijection(1..n, S)
  BY <1>1, FS_CardinalityType
<1>4. PICK f : f \in Bijection(1..n, S)
  BY <1>3 DEF ExistsBijection
<1> HIDE DEF n, m
<1>5. /\ f \in [1..n -> S]
      /\ \A i, j \in 1..n : f[i] = f[j] => i = j
      /\ \A x \in S : \E i \in 1..n : f[i] = x
  BY <1>4 DEF Bijection, Injection, Surjection, IsInjective
<1> DEFINE P(s) == \A x \in S : \E i \in DOMAIN s : \A j \in DOMAIN s : s[j] = x <=> j = i
<1>6. P(f) /\ f \in [1..m -> S]
  BY <1>2, <1>5
<1>7. De!List(S) \in [1..m -> S] /\ P(De!List(S))
  <2>1. \E s \in [1..De!Cardinality(S) -> S] : \A x \in S : \E i \in DOMAIN s : \A j \in DOMAIN s : s[j] = x <=> j = i
    BY <1>6 DEF m
  <2>2. /\ De!List(S) \in [1..De!Cardinality(S) -> S]
        /\ \A x \in S : \E i \in DOMAIN De!List(S) : \A j \in DOMAIN De!List(S) : De!List(S)[j] = x <=> j = i
    BY <2>1, Zenon DEF De!List
  <2> QED
    BY <2>2 DEF m
<1>8. De!List(S) \in [1..n -> S]
  BY <1>2, <1>7
<1>9. De!List(S) \in Seq(Cluster) /\ DOMAIN De!List(S) = 1..n
  <2>1. De!List(S) \in [1..n -> Cluster]
    BY <1>8
  <2> QED
    BY <1>2, <2>1
<1>10. \A i \in 1..n : De!List(S)[i] \in S
  BY <1>8
<1> QED
  BY <1>7, <1>9, <1>10

LEMMA BegunHolds ==
  ASSUME NEW S \in SUBSET Cluster
  PROVE  /\ De!F!Begun(De!List(S)) \in De!Runs /\ De!F!Begun(De!List(S)) # None
         /\ \A c \in S : De!Awaits(De!F!Begun(De!List(S)), c)
         /\ \A c \in Cluster : De!Awaits(De!F!Begun(De!List(S)), c) => c \in S
<1> DEFINE s == De!List(S)
           first == IF Len(s) < DelayLimit THEN Len(s) ELSE DelayLimit
           r == De!F!Begun(s)
<1>1. s \in Seq(Cluster) /\ Len(s) \in Nat /\ DOMAIN s = 1..Len(s)
  BY ListHolds
<1>2. r = [items |-> s, next |-> first, flying |-> 1..first, settled |-> {}, cancelled |-> FALSE]
  BY DEF De!F!Begun
<1>3. first \in Nat /\ first <= Len(s)
  BY DelayViewAssumption
<1> HIDE DEF s, first, r
<1>4. r \in [items : Seq(Cluster), next : Nat, flying : SUBSET Nat, settled : SUBSET Nat, cancelled : BOOLEAN]
  BY <1>1, <1>2, <1>3
<1>5. r \in De!Runs
  <2>1. \A i, j \in DOMAIN s : s[i] = s[j] => i = j
    BY ListHolds DEF s
  <2> QED
    BY <1>2, <1>3, <1>4, <2>1 DEF De!Runs
<1>6. r # None
  BY <1>4, DelayViewAssumption
<1>7. /\ \A c \in S : \E i \in DOMAIN s : s[i] = c
      /\ \A i \in DOMAIN s : s[i] \in S
  BY ListHolds DEF s
<1>8. /\ \A c \in S : De!Awaits(r, c)
      /\ \A c \in Cluster : De!Awaits(r, c) => c \in S
  BY <1>2, <1>6, <1>7 DEF De!Awaits
<1> QED
  BY <1>5, <1>6, <1>8 DEF s, r

LEMMA SettledHolds ==
  ASSUME NEW r \in De!Runs, NEW i \in r.flying
  PROVE  /\ De!F!Settled(r, i) \in De!Runs /\ De!F!Settled(r, i) # None
         /\ i \in DOMAIN r.items /\ r.items[i] \in Cluster /\ De!Awaits(r, r.items[i])
         /\ ~De!Awaits(De!F!Settled(r, i), r.items[i])
         /\ \A c : c # r.items[i] => (De!Awaits(De!F!Settled(r, i), c) <=> De!Awaits(r, c))
<1> DEFINE q == De!F!Settled(r, i)
<1>1. /\ r \in [items : Seq(Cluster), next : Nat, flying : SUBSET Nat, settled : SUBSET Nat, cancelled : BOOLEAN]
      /\ \A k, j \in DOMAIN r.items : r.items[k] = r.items[j] => k = j
      /\ r.next <= Len(r.items)
      /\ r.settled \cup r.flying = 1..r.next /\ r.settled \cap r.flying = {}
  BY DEF De!Runs
<1>2. DOMAIN r.items = 1..Len(r.items) /\ Len(r.items) \in Nat /\ r # None
  BY <1>1, DelayViewAssumption
<1>3. i \in 1..r.next /\ i \notin r.settled /\ i \in DOMAIN r.items
  BY <1>1
<1>4. r.items[i] \in Cluster
  BY <1>1
<1>5. /\ q \in [items : Seq(Cluster), next : Nat, flying : SUBSET Nat, settled : SUBSET Nat, cancelled : BOOLEAN]
      /\ q.items = r.items /\ q.settled = r.settled \cup {i}
      /\ \/ q.next = r.next /\ q.flying = r.flying \ {i}
         \/ q.next = r.next + 1 /\ r.next # Len(r.items) /\ q.flying = (r.flying \ {i}) \cup {r.next + 1}
  <2>1. CASE r.cancelled \/ r.next = Len(r.items)
    <3>1. q = [r EXCEPT !.flying = @ \ {i}, !.settled = @ \cup {i}]
      BY <2>1 DEF De!F!Settled
    <3> QED
      BY <1>1, <1>3, <3>1
  <2>2. CASE ~(r.cancelled \/ r.next = Len(r.items))
    <3>1. q = [r EXCEPT !.flying = (@ \ {i}) \cup {r.next + 1}, !.settled = @ \cup {i}, !.next = @ + 1]
      BY <2>2 DEF De!F!Settled
    <3>2. r.next # Len(r.items) /\ r.next + 1 \in Nat /\ r.settled \cup {i} \in SUBSET Nat
          /\ (r.flying \ {i}) \cup {r.next + 1} \in SUBSET Nat
      BY <1>1, <2>2
    <3>3. /\ q.items = r.items /\ q.settled = r.settled \cup {i} /\ q.next = r.next + 1
          /\ q.flying = (r.flying \ {i}) \cup {r.next + 1} /\ q.cancelled = r.cancelled
          /\ q = [items |-> q.items, next |-> q.next, flying |-> q.flying, settled |-> q.settled,
                  cancelled |-> q.cancelled]
      BY <1>1, <3>1
    <3> HIDE DEF q
    <3>4. q \in [items : Seq(Cluster), next : Nat, flying : SUBSET Nat, settled : SUBSET Nat, cancelled : BOOLEAN]
      BY <1>1, <3>3
    <3> QED
      BY <3>2, <3>3, <3>4
  <2> QED
    BY <2>1, <2>2
<1> HIDE DEF q
<1>6. q \in De!Runs
  BY <1>5 DEF De!Runs
<1>7. q # None
  BY <1>5, DelayViewAssumption
<1>8. De!Awaits(r, r.items[i])
  BY <1>2, <1>3 DEF De!Awaits
<1>9. ~De!Awaits(q, r.items[i])
  BY <1>1, <1>5 DEF De!Awaits
<1>10. \A c : c # r.items[i] => (De!Awaits(q, c) <=> De!Awaits(r, c))
  BY <1>2, <1>5, <1>7 DEF De!Awaits
<1> QED
  BY <1>3, <1>4, <1>6, <1>7, <1>8, <1>9, <1>10 DEF q

LEMMA CancelledHolds ==
  ASSUME NEW r \in De!Runs
  PROVE  /\ De!F!Cancelled(r) \in De!Runs /\ De!F!Cancelled(r) # None
         /\ \A c : De!Awaits(De!F!Cancelled(r), c) <=> De!Awaits(r, c)
<1> DEFINE q == De!F!Cancelled(r)
<1>1. /\ r \in [items : Seq(Cluster), next : Nat, flying : SUBSET Nat, settled : SUBSET Nat, cancelled : BOOLEAN]
      /\ \A k, j \in DOMAIN r.items : r.items[k] = r.items[j] => k = j
      /\ r.next <= Len(r.items)
      /\ r.settled \cup r.flying = 1..r.next /\ r.settled \cap r.flying = {}
  BY DEF De!Runs
<1>2. /\ q \in [items : Seq(Cluster), next : Nat, flying : SUBSET Nat, settled : SUBSET Nat, cancelled : BOOLEAN]
      /\ q.items = r.items /\ q.settled = r.settled /\ q.flying = r.flying /\ q.next = r.next
  BY <1>1 DEF De!F!Cancelled
<1> HIDE DEF q
<1>3. q \in De!Runs
  BY <1>2 DEF De!Runs
<1>4. q # None /\ r # None
  BY <1>1, <1>2, DelayViewAssumption
<1>5. \A c : De!Awaits(q, c) <=> De!Awaits(r, c)
  BY <1>2, <1>4 DEF De!Awaits
<1> QED
  BY <1>3, <1>4, <1>5 DEF q

\* When a run is over, what it has not heard from is what it never asked.
LEMMA OverHolds ==
  ASSUME NEW r \in De!Runs, De!F!Over(r), NEW c, De!Awaits(r, c)
  PROVE  \E i \in De!F!Skipped(r) : r.items[i] = c
<1>1. /\ r.items \in Seq(Cluster) /\ r.next \in Nat /\ r.settled \cup r.flying = 1..r.next /\ r.flying = {}
  BY DEF De!Runs, De!F!Over
<1>2. PICK i \in DOMAIN r.items \ r.settled : r.items[i] = c
  BY DEF De!Awaits
<1>3. i \in (r.next + 1)..Len(r.items)
  BY <1>1
<1> QED
  BY <1>2, <1>3 DEF De!F!Skipped

\* What is in the table depends on which clusters have devices, and on nothing else.
LEMMA SameTable ==
  ASSUME NEW e, NEW f, \A c \in v1 : e[c].rec = f[c].rec
  PROVE  De!Merged(e) = De!Merged(f)
BY DEF De!Merged

LEMMA DelayViewInit == De!Init => De!DelayViewInv
<1> SUFFICES ASSUME De!Init PROVE De!DelayViewInv
  OBVIOUS
<1>1. \A c \in Cluster : /\ DOMAIN v2[c] = {"st", "pre", "rec"} /\ v2[c].rec = FALSE
                         /\ v2[c].pre # "loading" /\ v2[c].st = "idle"
  BY DelayViewAssumption DEF De!Init, De!Idle
<1> QED
  BY <1>1, DelayViewAssumption DEF De!Init, De!DelayViewInv, De!EntriesInv, De!Merged

LEMMA RunPreflightStep ==
  ASSUME De!DelayViewInv, De!RunPreflight
  PROVE  De!DelayViewInv'
<1>1. /\ v3' \in De!Runs /\ v3' # None
      /\ \A c \in v1 : De!Awaits(v3', c)
  BY BegunHolds DEF De!RunPreflight, De!DelayViewInv, De!EntriesInv
<1>2. /\ DOMAIN v2' = Cluster
      /\ \A c \in Cluster : /\ DOMAIN v2'[c] = {"st", "pre", "rec"} /\ v2'[c].rec = FALSE
                            /\ v2'[c].pre # "loading"
                            /\ v2'[c].st \in {"idle", "waiting"}
                            /\ v2'[c].st = "waiting" => c \in v1
  BY DelayViewAssumption DEF De!RunPreflight, De!Idle
<1>3. {c \in v1' : v2'[c].rec} = {}
  <2>1. v1' = v1 /\ v1 \subseteq Cluster
    BY DEF De!RunPreflight, De!DelayViewInv, De!EntriesInv
  <2> QED
    BY <1>2, <2>1
<1>4. v6' = De!Merged(v2)'
  BY <1>3 DEF De!Merged, De!RunPreflight
<1>5. v1' = v1 /\ v4' = v4 /\ v5' = "check"
  BY DEF De!RunPreflight
<1>6. De!EntriesInv'
  BY <1>1, <1>2, <1>5 DEF De!DelayViewInv, De!EntriesInv
<1> QED
  BY <1>4, <1>6 DEF De!DelayViewInv

LEMMA CheckedStep ==
  ASSUME De!DelayViewInv, NEW i, NEW pre \in {"yes", "no", "unknown"}, De!Checked(i, pre)
  PROVE  De!DelayViewInv'
<1> DEFINE x == v3.items[i]
<1>1. /\ v3' \in De!Runs /\ v3' # None /\ x \in Cluster
      /\ \A c : c # x => (De!Awaits(v3', c) <=> De!Awaits(v3, c))
  BY SettledHolds DEF De!Checked, De!DelayViewInv, De!EntriesInv
<1>2. v2' = [v2 EXCEPT ![x].st = "checked", ![x].pre = pre]
  BY DEF De!Checked
<1> HIDE DEF x
<1>3. /\ DOMAIN v2' = Cluster
      /\ \A c \in Cluster : c # x => v2'[c] = v2[c]
      /\ DOMAIN v2'[x] = {"st", "pre", "rec"} /\ v2'[x].rec = v2[x].rec
      /\ v2'[x].st = "checked" /\ v2'[x].pre = pre
  BY <1>1, <1>2 DEF De!DelayViewInv, De!EntriesInv
<1>4. UNCHANGED <<v1, v4, v5, v6, v7>>
  BY DEF De!Checked
<1>5. De!EntriesInv'
  BY <1>1, <1>3, <1>4 DEF De!DelayViewInv, De!EntriesInv
<1>6. De!Merged(v2)' = De!Merged(v2)
  <2>1. \A c \in v1 : v2'[c].rec = v2[c].rec
    BY <1>3 DEF De!DelayViewInv, De!EntriesInv
  <2>2. De!Merged(v2') = De!Merged(v2)
    BY <2>1, SameTable
  <2> QED
    BY <1>4, <2>2 DEF De!Merged
<1> QED
  BY <1>4, <1>5, <1>6 DEF De!DelayViewInv

\* Naming the clusters a stop left out leaves nobody waiting for the run.
LEMMA NeverAskedHolds ==
  ASSUME NEW r \in De!Runs, NEW v \in {"skipped", "not-asked"}, De!F!Over(r), De!EntriesInv,
         NEW e, e = De!NeverAsked(r, v)
  PROVE  /\ DOMAIN e = Cluster
         /\ \A c \in Cluster : /\ DOMAIN e[c] = {"st", "pre", "rec"} /\ e[c].rec = v2[c].rec
                               /\ e[c].pre = v2[c].pre
                               /\ e[c].st = v2[c].st \/ e[c].st = v
                               /\ De!Awaits(r, c) => e[c].st = v
<1>1. DOMAIN e = Cluster
  BY DEF De!NeverAsked
<1>2. ASSUME NEW c \in Cluster
      PROVE  /\ DOMAIN e[c] = {"st", "pre", "rec"} /\ e[c].rec = v2[c].rec
             /\ e[c].pre = v2[c].pre
             /\ e[c].st = v2[c].st \/ e[c].st = v
             /\ De!Awaits(r, c) => e[c].st = v
  <2>1. e[c] = IF \E i \in De!F!Skipped(r) : r.items[i] = c THEN [v2[c] EXCEPT !.st = v] ELSE v2[c]
    BY DEF De!NeverAsked
  <2>2. DOMAIN v2[c] = {"st", "pre", "rec"}
    BY DEF De!EntriesInv
  <2>3. De!Awaits(r, c) => \E i \in De!F!Skipped(r) : r.items[i] = c
    BY OverHolds
  <2>4. CASE \E i \in De!F!Skipped(r) : r.items[i] = c
    <3>1. e[c] = [v2[c] EXCEPT !.st = v]
      BY <2>1, <2>4
    <3> QED
      BY <2>2, <3>1
  <2>5. CASE ~\E i \in De!F!Skipped(r) : r.items[i] = c
    <3>1. e[c] = v2[c]
      BY <2>1, <2>5
    <3> QED
      BY <2>2, <2>3, <2>5, <3>1
  <2> QED
    BY <2>4, <2>5
<1> QED
  BY <1>1, <1>2

LEMMA CheckEndsStep ==
  ASSUME De!DelayViewInv, De!CheckEnds
  PROVE  De!DelayViewInv'
<1>1. /\ DOMAIN v2' = Cluster
      /\ \A c \in Cluster : /\ DOMAIN v2'[c] = {"st", "pre", "rec"} /\ v2'[c].rec = v2[c].rec
                            /\ v2'[c].pre = v2[c].pre
                            /\ v2'[c].st = v2[c].st \/ v2'[c].st = "skipped"
                            /\ De!Awaits(v3, c) => v2'[c].st = "skipped"
  BY NeverAskedHolds DEF De!CheckEnds, De!DelayViewInv, De!EntriesInv
<1>2. v3' = None /\ v5' = None /\ UNCHANGED <<v1, v4, v6, v7>>
  BY DEF De!CheckEnds
<1>3. /\ None # "check" /\ None # "fetch"
      /\ \A c \in Cluster : /\ v2'[c].rec \in BOOLEAN
                            /\ v2'[c].rec => v2'[c].st # "failed" /\ ~De!Awaits(v4, c)
                            /\ v2'[c].st # "waiting"
                            /\ v2'[c].st = "fetching" => De!Awaits(v4, c)
  BY <1>1, DelayViewAssumption DEF De!DelayViewInv, De!EntriesInv
<1>4. De!EntriesInv'
  BY <1>1, <1>2, <1>3 DEF De!DelayViewInv, De!EntriesInv
<1>5. v1 \subseteq Cluster
  BY DEF De!DelayViewInv, De!EntriesInv
<1>6. \A c \in v1 : v2'[c].rec = v2[c].rec
  BY <1>1, <1>5
<1>7. De!Merged(v2') = De!Merged(v2)
  BY <1>6, SameTable
<1> QED
  BY <1>2, <1>4, <1>7 DEF De!DelayViewInv, De!Merged

LEMMA FetchDelayStep ==
  ASSUME De!DelayViewInv, De!FetchDelay
  PROVE  De!DelayViewInv'
<1>1. De!Analysable \in SUBSET Cluster
  BY DEF De!Analysable, De!DelayViewInv, De!EntriesInv
<1>2. /\ v4' \in De!Runs /\ v4' # None
      /\ \A c \in De!Analysable : De!Awaits(v4', c)
      /\ \A c \in Cluster : De!Awaits(v4', c) => c \in De!Analysable
  BY <1>1, BegunHolds DEF De!FetchDelay
<1>3. /\ DOMAIN v2' = Cluster
      /\ \A c \in Cluster \ De!Analysable : v2'[c] = v2[c]
      /\ \A c \in De!Analysable : v2'[c] = [v2[c] EXCEPT !.st = "fetching", !.rec = FALSE]
  BY <1>1 DEF De!FetchDelay
<1>4. \A c \in De!Analysable : /\ DOMAIN v2'[c] = {"st", "pre", "rec"} /\ v2'[c].rec = FALSE
                               /\ v2'[c].pre = v2[c].pre /\ v2'[c].st = "fetching"
  BY <1>1, <1>3 DEF De!DelayViewInv, De!EntriesInv
<1>5. \A c \in Cluster : De!Awaits(v4, c) = FALSE /\ De!Awaits(v3, c) = FALSE
  BY DEF De!FetchDelay, De!Awaits
<1>6. v5' = "fetch" /\ UNCHANGED <<v1, v3, v6, v7>>
  BY DEF De!FetchDelay
<1> QED
  BY <1>1, <1>2, <1>3, <1>4, <1>5, <1>6 DEF De!DelayViewInv, De!EntriesInv

LEMMA FetchedStep ==
  ASSUME De!DelayViewInv, NEW i, NEW ok \in BOOLEAN, De!Fetched(i, ok)
  PROVE  De!DelayViewInv'
<1> DEFINE x == v4.items[i]
<1>1. /\ v4' \in De!Runs /\ v4' # None /\ x \in Cluster
      /\ De!Awaits(v4, x) /\ ~De!Awaits(v4', x)
      /\ \A c : c # x => (De!Awaits(v4', c) <=> De!Awaits(v4, c))
  BY SettledHolds DEF De!Fetched, De!DelayViewInv, De!EntriesInv
<1>2. v2' = IF ok THEN [v2 EXCEPT ![x].st = "done", ![x].rec = TRUE]
            ELSE [v2 EXCEPT ![x].st = "failed"]
  BY DEF De!Fetched
<1> HIDE DEF x
<1>3. /\ DOMAIN v2' = Cluster
      /\ \A c \in Cluster : c # x => v2'[c] = v2[c]
      /\ DOMAIN v2'[x] = {"st", "pre", "rec"} /\ v2'[x].pre = v2[x].pre
      /\ \/ v2'[x].st = "done" /\ v2'[x].rec = TRUE
         \/ v2'[x].st = "failed" /\ v2'[x].rec = v2[x].rec
  <2>1. CASE ok
    <3>1. v2' = [v2 EXCEPT ![x].st = "done", ![x].rec = TRUE]
      BY <1>2, <2>1
    <3> QED
      BY <1>1, <3>1 DEF De!DelayViewInv, De!EntriesInv
  <2>2. CASE ~ok
    <3>1. v2' = [v2 EXCEPT ![x].st = "failed"]
      BY <1>2, <2>2
    <3> QED
      BY <1>1, <3>1 DEF De!DelayViewInv, De!EntriesInv
  <2> QED
    BY <2>1, <2>2
<1>4. UNCHANGED <<v1, v3, v5>> /\ v6' = De!Merged(v2')
  BY DEF De!Fetched
<1>5. De!EntriesInv'
  BY <1>1, <1>3, <1>4 DEF De!DelayViewInv, De!EntriesInv
<1> QED
  BY <1>4, <1>5 DEF De!DelayViewInv, De!Merged

LEMMA FetchEndsStep ==
  ASSUME De!DelayViewInv, De!FetchEnds
  PROVE  De!DelayViewInv'
<1>1. /\ DOMAIN v2' = Cluster
      /\ \A c \in Cluster : /\ DOMAIN v2'[c] = {"st", "pre", "rec"} /\ v2'[c].rec = v2[c].rec
                            /\ v2'[c].pre = v2[c].pre
                            /\ v2'[c].st = v2[c].st \/ v2'[c].st = "not-asked"
                            /\ De!Awaits(v4, c) => v2'[c].st = "not-asked"
  BY NeverAskedHolds DEF De!FetchEnds, De!DelayViewInv, De!EntriesInv
<1>2. v4' = None /\ v5' = None /\ UNCHANGED <<v1, v3>> /\ v6' = De!Merged(v2')
  BY DEF De!FetchEnds
<1>3. \A c : ~De!Awaits(v4', c)
  BY <1>2 DEF De!Awaits
<1>4. /\ None # "check" /\ None # "fetch"
      /\ \A c \in Cluster : /\ v2'[c].rec \in BOOLEAN
                            /\ v2'[c].rec => v2'[c].st # "failed"
                            /\ v2'[c].st # "fetching"
                            /\ v2'[c].st = "waiting" => De!Awaits(v3, c)
  BY <1>1, DelayViewAssumption DEF De!DelayViewInv, De!EntriesInv
<1>5. De!EntriesInv'
  BY <1>1, <1>2, <1>3, <1>4 DEF De!DelayViewInv, De!EntriesInv
<1> QED
  BY <1>2, <1>5 DEF De!DelayViewInv, De!Merged

LEMMA StopStep ==
  ASSUME De!DelayViewInv, De!Stop
  PROVE  De!DelayViewInv'
<1>1. UNCHANGED <<v1, v2, v5, v6, v7>>
  BY DEF De!Stop
<1>2. /\ v3' # None => v3' \in De!Runs
      /\ v3' # None <=> v3 # None
      /\ \A c : De!Awaits(v3', c) <=> De!Awaits(v3, c)
      /\ v4' # None => v4' \in De!Runs
      /\ v4' # None <=> v4 # None
      /\ \A c : De!Awaits(v4', c) <=> De!Awaits(v4, c)
  <2>1. CASE v5 = "check" /\ v3' = De!F!Cancelled(v3) /\ UNCHANGED v4
    BY <2>1, CancelledHolds DEF De!DelayViewInv, De!EntriesInv
  <2>2. CASE v5 = "fetch" /\ v4' = De!F!Cancelled(v4) /\ UNCHANGED v3
    BY <2>2, CancelledHolds DEF De!DelayViewInv, De!EntriesInv
  <2> QED
    BY <2>1, <2>2 DEF De!Stop
<1>3. De!EntriesInv'
  BY <1>1, <1>2 DEF De!DelayViewInv, De!EntriesInv
<1> QED
  BY <1>1, <1>2, <1>3 DEF De!DelayViewInv, De!Merged

LEMMA DelayViewStep ==
  ASSUME De!DelayViewInv, [De!Next]_(De!vars)
  PROVE  De!DelayViewInv'
<1>1. ASSUME NEW S \in SUBSET Cluster, De!Pick(S) PROVE De!DelayViewInv'
  BY <1>1 DEF De!Pick, De!DelayViewInv, De!EntriesInv
<1>2. CASE UNCHANGED De!vars
  BY <1>2 DEF De!vars, De!DelayViewInv, De!EntriesInv, De!Merged
<1> QED
  BY <1>1, <1>2, RunPreflightStep, CheckedStep, CheckEndsStep, FetchDelayStep, FetchedStep, FetchEndsStep,
     StopStep DEF De!Next

LEMMA DelayViewHolds == De!DelayViewInv => De!NumbersAddUp
<1> SUFFICES ASSUME De!DelayViewInv PROVE De!NumbersAddUp
  OBVIOUS
<1> DEFINE of == {c \in v1 : v2[c].pre = "yes"}
<1>1. /\ De!FetchCoverage(v1).ok = {c \in of : v2[c].rec}
      /\ De!FetchCoverage(v1).failed = {c \in of : v2[c].st = "failed"}
  BY DEF De!FetchCoverage
<1>2. \A c \in of : v2[c].st = "failed" => ~v2[c].rec
  BY DEF De!DelayViewInv, De!EntriesInv
<1>3. De!FetchCoverage(v1).ok \cap De!FetchCoverage(v1).failed = {}
  BY <1>1, <1>2
<1>4. \A c \in De!FetchCoverage(v1).failed : De!Reason(v2[c]) = "failed"
  BY <1>1, <1>2 DEF De!Reason
<1>5. v3 = None /\ v4 = None => \A c \in Cluster : De!Row(v2[c]) # "loading"
  BY DEF De!DelayViewInv, De!EntriesInv, De!Awaits, De!Row
<1> QED
  BY <1>3, <1>4, <1>5 DEF De!NumbersAddUp, De!DelayViewInv

-----------------------------------------------------------------------------
(* LogTail *)

LEMMA LogTailInit == Lo!Init => Lo!LogTailInv
<1>1. Lo!Init => v11 = 0 /\ v6 \in BOOLEAN /\ ~v6 /\ v7 = 0 /\ v9 = {} /\ v8 = None /\ v10 = 0
  BY DEF Lo!Init
<1> QED
  BY <1>1 DEF Lo!LogTailInv, Lo!TimersAndCardsMatch

\* A poll of the open card writes to no other.
LEMMA PollStep ==
  ASSUME Lo!LogTailInv, NEW w \in Lo!Watch, w.docs \in {None, w.device},
         v11' \in Nat, v11 <= v11', w.card <= v11',
         \A p \in v9 : p.card = w.card => p.of = w.device,
         Lo!Poll(w)
  PROVE  /\ v9' \subseteq [card : Nat, of : Name] /\ \A p \in v9' : p.card <= v11'
         /\ v8' \in Lo!Watch /\ v8' # None /\ v8'.card <= v11'
         /\ \A p \in v9' : Lo!Card(p)' => p.of = v8'.device
         /\ v8'.docs \in {None, v8'.device}
<1>1. v8' \in Lo!Watch /\ v8'.card = w.card /\ v8'.device = w.device /\ v8'.docs = w.docs
  BY DEF Lo!Poll, Lo!Watch
<1>2. \A p \in v9' : p \in v9 \/ p = [card |-> w.card, of |-> w.device]
  BY DEF Lo!Poll
<1>3. w.card \in Nat /\ w.device \in Name
  BY DEF Lo!Watch
<1> QED
  BY <1>1, <1>2, <1>3, LogTailAssumption DEF Lo!LogTailInv, Lo!Card

LEMMA LogTailStep ==
  ASSUME Lo!LogTailInv, [Lo!Next]_(Lo!vars)
  PROVE  Lo!LogTailInv'
<1> USE DEF Lo!LogTailInv, Lo!TimersAndCardsMatch
\* The tail, and what leaves the close-up alone.
<1>1. CASE UNCHANGED <<v8, v9, v10, v11>> /\ v7' = (IF v6' THEN 1 ELSE 0) /\ v6' \in BOOLEAN
  BY <1>1 DEF Lo!Card
<1>2. ASSUME NEW c \in Cluster, Lo!PickTailed(c)
      PROVE  Lo!LogTailInv'
  <2>1. UNCHANGED <<v8, v9, v10, v11>> /\ v6' = FALSE /\ v7' = 0
    BY <1>2 DEF Lo!PickTailed, Lo!StopTail
  <2> QED
    BY <1>1, <2>1
<1>3. ASSUME NEW s \in v4, NEW ok, Lo!Found(s, ok)
      PROVE  Lo!LogTailInv'
  BY <1>1, <1>3 DEF Lo!Found
<1>4. CASE Lo!Search \/ Lo!StartTail \/ Lo!TailTick \/ Lo!PressStopTail \/ Lo!Leave \/ Lo!Return
  <2>1. UNCHANGED <<v8, v9, v10, v11>> /\ v6' \in BOOLEAN /\ v7' = (IF v6' THEN 1 ELSE 0)
    <3>1. CASE Lo!StartTail
      BY <3>1 DEF Lo!StartTail
    <3>2. CASE Lo!PressStopTail
      <4>1. v6' = FALSE /\ v7' = 0
        BY <3>2 DEF Lo!PressStopTail, Lo!StopTail
      <4>2. UNCHANGED <<v8, v9, v10, v11>>
        BY <3>2 DEF Lo!PressStopTail
      <4> QED
        BY <4>1, <4>2
    <3>3. CASE Lo!Search \/ Lo!TailTick \/ Lo!Leave \/ Lo!Return
      BY <3>3 DEF Lo!Search, Lo!TailTick, Lo!Leave, Lo!Return
    <3> QED
      BY <1>4, <3>1, <3>2, <3>3
  <2> QED
    BY <1>1, <2>1
\* The close-up.
<1>5. ASSUME NEW x \in Name, Lo!WatchDevice(x)
      PROVE  Lo!LogTailInv'
  <2> DEFINE w == [device |-> x, live |-> TRUE, running |-> FALSE, docs |-> None, card |-> v11']
  <2>1. Lo!Poll(w) /\ v11' = v11 + 1 /\ UNCHANGED <<v6, v7>>
    BY <1>5 DEF Lo!WatchDevice
  <2>2. w \in Lo!Watch /\ w.docs = None /\ w.card = v11'
    BY <2>1 DEF Lo!Watch
  <2> HIDE DEF w
  <2> QED
    BY <2>1, <2>2, PollStep
<1>6. CASE Lo!WatchTick
  <2>1. CASE v8 # None /\ v8.live
    <3>1. Lo!Poll(v8) /\ UNCHANGED <<v6, v7, v10, v11>>
      BY <1>6, <2>1 DEF Lo!WatchTick
    <3> QED
      BY <2>1, <3>1, PollStep DEF Lo!Card
  <2>2. CASE ~(v8 # None /\ v8.live)
    BY <1>6, <2>2 DEF Lo!WatchTick, Lo!Card
  <2> QED
    BY <2>1, <2>2
<1>7. CASE Lo!ToggleWatchLive
  <2>1. UNCHANGED <<v6, v7, v10, v11>> /\ v8 # None
    BY <1>7 DEF Lo!ToggleWatchLive
  <2>2. CASE v8.live
    <3>1. UNCHANGED v9 /\ v8' = [v8 EXCEPT !.live = FALSE]
      BY <1>7, <2>2 DEF Lo!ToggleWatchLive
    <3>2. v8' \in Lo!Watch /\ v8'.card = v8.card /\ v8'.device = v8.device /\ v8'.docs = v8.docs
      BY <2>1, <3>1 DEF Lo!Watch
    <3> QED
      BY <2>1, <3>1, <3>2, LogTailAssumption DEF Lo!Card
  <2>3. CASE ~v8.live
    <3> DEFINE w == [v8 EXCEPT !.live = TRUE]
    <3>1. Lo!Poll(w)
      BY <1>7, <2>3 DEF Lo!ToggleWatchLive
    <3>2. w \in Lo!Watch /\ w.card = v8.card /\ w.device = v8.device /\ w.docs = v8.docs
      BY <2>1 DEF Lo!Watch
    <3> HIDE DEF w
    <3> QED
      BY <2>1, <3>1, <3>2, PollStep DEF Lo!Card
  <2> QED
    BY <2>2, <2>3
<1>8. CASE Lo!CloseWatch
  BY <1>8 DEF Lo!CloseWatch
\* An answer: to the card on the screen, which is of the device it asked for, or to none.
<1>9. ASSUME NEW p \in v9, NEW ok, Lo!Polled(p, ok)
      PROVE  Lo!LogTailInv'
  <2>1. UNCHANGED <<v6, v7, v10, v11>> /\ v9' \subseteq v9
    BY <1>9 DEF Lo!Polled
  <2>2. CASE ~Lo!Card(p)
    <3>1. v8' = v8
      BY <1>9, <2>2 DEF Lo!Polled
    <3> QED
      BY <2>1, <3>1 DEF Lo!Card
  <2>3. CASE Lo!Card(p)
    <3>1. v8 # None /\ v8' = [v8 EXCEPT !.running = FALSE, !.docs = IF ok THEN p.of ELSE @]
      BY <1>9, <2>3 DEF Lo!Polled, Lo!Card
    <3>2. p.of = v8.device /\ p.of \in Name
      BY <2>3, <3>1
    <3>3. /\ v8' \in Lo!Watch /\ v8'.card = v8.card /\ v8'.device = v8.device
          /\ v8'.docs \in {None, v8.device}
      BY <3>1, <3>2 DEF Lo!Watch
    <3> QED
      BY <2>1, <3>1, <3>3, LogTailAssumption DEF Lo!Card
  <2> QED
    BY <2>2, <2>3
<1>10. CASE UNCHANGED Lo!vars
  BY <1>1, <1>10 DEF Lo!vars
<1> QED
  BY <1>2, <1>3, <1>4, <1>5, <1>6, <1>7, <1>8, <1>9, <1>10 DEF Lo!Next

-----------------------------------------------------------------------------
(* Archive *)

LEMMA ArchiveInit == Ar!Init => Ar!PullInv /\ Ar!MissingMeansMissing
BY DEF Ar!Init, Ar!PullInv, Ar!MissingMeansMissing

LEMMA PullIs ==
  ASSUME NEW copy \in Ar!Copy, NEW days \in [Ar!Copy -> SUBSET Ar!Day], NEW error \in BOOLEAN,
         NEW whole \in [Ar!Copy -> SUBSET Ar!Day],
         v3' = [copy |-> copy, days |-> days, error |-> error, stored |-> whole]
  PROVE  /\ v3' \in Ar!Pull /\ v3' # None
         /\ v3'.copy = copy /\ v3'.days = days /\ v3'.error = error /\ v3'.stored = whole
<1>1. v3' \in Ar!Pull
  BY DEF Ar!Pull
<1> QED
  BY <1>1, ArchiveAssumption

LEMMA ArchiveStep ==
  ASSUME Ar!PullInv, Ar!MissingMeansMissing, [Ar!Next]_(Ar!vars)
  PROVE  Ar!PullInv' /\ Ar!MissingMeansMissing'
<1> USE DEF Ar!PullInv, Ar!MissingMeansMissing, Ar!Screen
<1>1. CASE Ar!UlmPull \/ Ar!ScheduledPull
  <2>1. v3' = [copy |-> "raw", days |-> [k \in Ar!Copy |-> {}], error |-> FALSE, stored |-> v1]
        /\ UNCHANGED v1
    BY <1>1 DEF Ar!UlmPull, Ar!ScheduledPull, Ar!Started
  <2>2. [k \in Ar!Copy |-> {}] \in [Ar!Copy -> SUBSET Ar!Day] /\ "raw" \in Ar!Copy
    BY DEF Ar!Copy
  <2> QED
    BY <2>1, <2>2, PullIs
<1>2. CASE Ar!UlmSchedule \/ Ar!DayPasses \/ UNCHANGED Ar!vars
  BY <1>2 DEF Ar!UlmSchedule, Ar!DayPasses, Ar!vars
<1>3. ASSUME NEW days \in SUBSET Ar!Day, NEW error \in BOOLEAN, NEW truncated \in BOOLEAN,
             Ar!Listed(days, error, truncated)
      PROVE  Ar!PullInv' /\ Ar!MissingMeansMissing'
  <2>1. CASE v3.copy = "raw"
    <3> DEFINE come == [v3.days EXCEPT !["raw"] = days]
    <3>1. v3' = [copy |-> "enriched", days |-> come, error |-> v3.error \/ error, stored |-> v3.stored]
          /\ UNCHANGED v1 /\ v3 \in Ar!Pull /\ (v3.error \/ error) \in BOOLEAN
      BY <1>3, <2>1 DEF Ar!Listed, Ar!Pull
    <3>2. come \in [Ar!Copy -> SUBSET Ar!Day] /\ come["raw"] = days /\ "enriched" \in Ar!Copy /\ "raw" \in Ar!Copy
      BY <3>1 DEF Ar!Pull, Ar!Copy
    <3>3. ~error /\ days = {} => v1["raw"] = {}
      BY <1>3, <2>1 DEF Ar!Listed
    <3> HIDE DEF come
    <3> QED
      BY <1>3, <3>1, <3>2, PullIs DEF Ar!Listed, Ar!Pull
  <2>2. CASE v3.copy = "enriched"
    \* Nothing came although nothing went wrong: then nothing was stored all through.
    BY <1>3, <2>2 DEF Ar!Listed, Ar!MissingArchive, Ar!Archived, Ar!Pull, Ar!Copy
  <2> QED
    BY <1>3, <2>1, <2>2 DEF Ar!Listed, Ar!Pull, Ar!Copy
<1>4. ASSUME NEW k \in Ar!Copy, NEW d \in Ar!Day, Ar!Bucket(k, d)
      PROVE  Ar!PullInv' /\ Ar!MissingMeansMissing'
  <2>1. /\ v1' \in [Ar!Copy -> SUBSET Ar!Day]
        /\ \A c \in Ar!Copy : c # k => v1'[c] = v1[c]
    BY <1>4 DEF Ar!Bucket
  <2>2. CASE v3 = None
    BY <1>4, <2>2 DEF Ar!Bucket
  <2>3. CASE v3 # None
    <3> DEFINE left == [c \in Ar!Copy |-> v3.stored[c] \cap v1'[c]]
    <3>1. v3' = [copy |-> v3.copy, days |-> v3.days, error |-> v3.error, stored |-> left]
      <4>1. v3' = [v3 EXCEPT !.stored = left]
        BY <1>4, <2>3 DEF Ar!Bucket
      <4> HIDE DEF left
      <4> QED
        BY <2>3, <4>1 DEF Ar!Pull
    <3>2. left \in [Ar!Copy -> SUBSET Ar!Day] /\ \A c \in Ar!Copy : left[c] \subseteq v3.stored[c] /\ left[c] \subseteq v1'[c]
      BY <2>1 DEF Ar!Pull
    <3>3. "raw" \in Ar!Copy
      BY DEF Ar!Copy
    <3> HIDE DEF left
    <3> QED
      BY <2>1, <2>3, <3>1, <3>2, <3>3, PullIs DEF Ar!Pull
  <2> QED
    BY <2>2, <2>3
<1>5. ASSUME NEW d \in Ar!Day, Ar!Indices(d)
      PROVE  Ar!PullInv' /\ Ar!MissingMeansMissing'
  BY <1>5 DEF Ar!Indices
<1> QED
  BY <1>1, <1>2, <1>3, <1>4, <1>5 DEF Ar!Next

-----------------------------------------------------------------------------
(* SnapshotWatch *)

LEMMA SnapshotWatchInit == Sn!Init => Sn!WatchInv
<1> SUFFICES ASSUME Sn!Init PROVE Sn!WatchInv
  OBVIOUS
<1>1. /\ v2 = 1 /\ v4 = <<>> /\ v5 = FALSE /\ v6 = {} /\ v8 = {}
      /\ v7 = [i \in 1..MaxSnapshots |-> 0]
  BY DEF Sn!Init
<1>2. Sn!Listing(<<>>) /\ Sn!InProgress(<<>>) = {} /\ Sn!Ids(<<>>) = {}
  BY DEF Sn!Listing, Sn!InProgress, Sn!Ids
<1>3. Sn!Listing(v1) /\ Sn!Ids(v1) \subseteq 1..1
  <2>1. ASSUME NEW r \in Sn!Run, r.id = 1 PROVE Sn!Listing(<<r>>) /\ Sn!Ids(<<r>>) \subseteq 1..1
    BY <2>1 DEF Sn!Listing, Sn!Ids
  <2>2. [id |-> 1, st |-> "ok"] \in Sn!Run /\ [id |-> 1, st |-> "running"] \in Sn!Run
    BY DEF Sn!Run
  <2> QED
    BY <1>2, <2>1, <2>2 DEF Sn!Init
<1> QED
  <2>1. v2 \in 1..MaxSnapshots /\ v7 \in [1..MaxSnapshots -> {0, 1}] /\ \A i \in 1..MaxSnapshots : v7[i] # 1
    BY <1>1, SnapshotWatchAssumption
  <2> QED
    BY <1>1, <1>2, <1>3, <2>1 DEF Sn!WatchInv

\* The repository changes; what the page has of it does not.
LEMMA WorldStep ==
  ASSUME Sn!WatchInv, Sn!World
  PROVE  /\ v2' \in 1..MaxSnapshots /\ v2 <= v2' /\ Sn!Listing(v1') /\ Sn!Ids(v1') \subseteq 1..v2'
         /\ \A i \in Sn!InProgress(v1') : i \in Sn!InProgress(v1) \/ i > v2
<1>1. v1 \in Seq(Sn!Run) /\ Len(v1) \in Nat /\ DOMAIN v1 = 1..Len(v1) /\ v2 \in 1..MaxSnapshots
  BY DEF Sn!WatchInv, Sn!Listing
<1>2. \A i \in DOMAIN v1 : v1[i] \in Sn!Run /\ v1[i].id \in 1..v2
  <2>1. \A i \in DOMAIN v1 : v1[i] \in Sn!Run
    BY <1>1
  <2> QED
    BY <2>1 DEF Sn!WatchInv, Sn!Ids
<1>3. \A i, j \in DOMAIN v1 : i < j => v1[j].id < v1[i].id
  BY DEF Sn!WatchInv, Sn!Listing
<1>4. CASE v2 < MaxSnapshots /\ v2' = v2 + 1 /\ v1' = <<[id |-> v2', st |-> "running"]>> \o v1
  <2> DEFINE new == [id |-> v2', st |-> "running"]
             one == <<new>>
  <2>1. new \in Sn!Run /\ new.id = v2 + 1
    BY <1>1, <1>4 DEF Sn!Run
  <2> HIDE DEF new
  <2>2. one \in Seq(Sn!Run) /\ Len(one) = 1 /\ one[1] = new
    BY <2>1
  <2> HIDE DEF one
  <2>3. v1' = one \o v1
    BY <1>4 DEF one, new
  <2>4. /\ v1' \in Seq(Sn!Run) /\ Len(v1') = 1 + Len(v1)
        /\ \A i \in 1..(1 + Len(v1)) : v1'[i] = IF i <= 1 THEN one[i] ELSE v1[i - 1]
    <3>1. /\ one \o v1 \in Seq(Sn!Run) /\ Len(one \o v1) = Len(one) + Len(v1)
          /\ \A i \in 1..Len(one) + Len(v1) : (one \o v1)[i] = IF i <= Len(one) THEN one[i] ELSE v1[i - Len(one)]
      BY <1>1, <2>2, ConcatProperties
    <3> QED
      BY <2>2, <2>3, <3>1
  <2>5. \A i \in DOMAIN v1' : \/ i = 1 /\ v1'[i] = new
                              \/ i # 1 /\ i - 1 \in DOMAIN v1 /\ v1'[i] = v1[i - 1]
    BY <2>2, <2>4
  <2>6. \A i, j \in DOMAIN v1' : i < j => v1'[j].id < v1'[i].id
    <3> SUFFICES ASSUME NEW i \in DOMAIN v1', NEW j \in DOMAIN v1', i < j PROVE v1'[j].id < v1'[i].id
      OBVIOUS
    <3>1. i \in Nat /\ j \in Nat /\ j # 1 /\ j - 1 \in DOMAIN v1 /\ v1'[j] = v1[j - 1]
      BY <1>1, <2>5
    <3>2. CASE i = 1
      <4>1. v1'[i].id = v2 + 1
        BY <2>1, <2>5, <3>2
      <4> QED
        BY <1>1, <1>2, <3>1, <4>1
    <3>3. CASE i # 1
      <4>1. i - 1 \in DOMAIN v1 /\ v1'[i] = v1[i - 1] /\ i - 1 < j - 1
        BY <2>5, <3>1, <3>3
      <4> QED
        BY <1>3, <3>1, <4>1
    <3> QED
      BY <3>2, <3>3
  <2>7. \A i \in DOMAIN v1' : v1'[i].id \in 1..(v2 + 1)
    BY <1>1, <1>2, <2>1, <2>5
  <2>8. \A i \in Sn!InProgress(v1') : i \in Sn!InProgress(v1) \/ i > v2
    BY <1>1, <2>1, <2>5 DEF Sn!InProgress
  <2>9. v2' \in 1..MaxSnapshots /\ v2 <= v2'
    BY <1>1, <1>4, SnapshotWatchAssumption
  <2>10. Sn!Listing(v1') /\ Sn!Ids(v1') \subseteq 1..(v2 + 1)
    BY <2>4, <2>6, <2>7 DEF Sn!Listing, Sn!Ids
  <2> QED
    BY <1>4, <2>8, <2>9, <2>10
<1>5. ASSUME NEW i \in DOMAIN v1, NEW st \in {"ok", "bad"},
             v1[i].st = "running" /\ v1' = [v1 EXCEPT ![i].st = st]
      PROVE  /\ Sn!Listing(v1') /\ Sn!Ids(v1') \subseteq 1..v2
             /\ \A j \in Sn!InProgress(v1') : j \in Sn!InProgress(v1)
  <2> DEFINE r == [v1[i] EXCEPT !.st = st]
  <2>1. r \in Sn!Run /\ r.id = v1[i].id /\ r.st = st
    BY <1>2 DEF Sn!Run
  <2> HIDE DEF r
  <2>2. v1' = [v1 EXCEPT ![i] = r]
    BY <1>5 DEF r
  <2>3. v1' \in Seq(Sn!Run) /\ DOMAIN v1' = DOMAIN v1
    BY <1>1, <2>1, <2>2
  <2>4. \A j \in DOMAIN v1 : v1'[j].id = v1[j].id /\ (v1'[j].st = "running" => v1[j].st = "running")
    BY <1>5
  <2> QED
    BY <1>2, <1>3, <2>3, <2>4 DEF Sn!Listing, Sn!Ids, Sn!InProgress
<1>6. ASSUME v1 # <<>>, v1' = SubSeq(v1, 1, Len(v1) - 1)
      PROVE  /\ Sn!Listing(v1') /\ Sn!Ids(v1') \subseteq 1..v2
             /\ \A j \in Sn!InProgress(v1') : j \in Sn!InProgress(v1)
  <2>1. /\ v1' \in Seq(Sn!Run) /\ Len(v1') = Len(v1) - 1
        /\ \A i \in 1..(Len(v1) - 1) : v1'[i] = v1[i]
    BY <1>1, <1>6
  <2>2. \A i \in DOMAIN v1' : i \in DOMAIN v1 /\ v1'[i] = v1[i]
    BY <2>1
  <2>3. Sn!Listing(v1')
    BY <1>3, <2>1 DEF Sn!Listing
  <2>4. Sn!Ids(v1') \subseteq 1..v2 /\ \A j \in Sn!InProgress(v1') : j \in Sn!InProgress(v1)
    BY <1>2, <2>2 DEF Sn!Ids, Sn!InProgress
  <2> QED
    BY <2>3, <2>4
<1>7. Sn!Listing(v1) /\ Sn!Ids(v1) \subseteq 1..v2 /\ v2 <= v2
  BY DEF Sn!WatchInv
<1> QED
  BY <1>1, <1>4, <1>5, <1>6, <1>7 DEF Sn!World

\* A refresh tells of what the last one saw in progress and this one sees ended, and of no other.
LEMMA RefreshStep ==
  ASSUME Sn!WatchInv, NEW ok \in BOOLEAN, Sn!Refresh(ok)
  PROVE  Sn!WatchInv'
<1>1. /\ v1' = v1 /\ v2' = v2 /\ v5' = ~ok /\ v6' = Sn!InProgress(v4')
      /\ v4' = IF ok THEN v1 ELSE <<>>
      /\ v7' = [i \in 1..MaxSnapshots |-> IF i \in Sn!Outcomes(v4') THEN v7[i] + 1 ELSE v7[i]]
      /\ v8' = IF ok THEN (v8 \cup Sn!InProgress(v1)) \cap Sn!Ids(v1) ELSE {}
  BY DEF Sn!Refresh
<1>2. \A i \in 1..MaxSnapshots : v7[i] \in {0, 1} /\ (v7[i] = 1 => i <= v2 /\ i \notin Sn!InProgress(v1) /\ i \notin v6)
  BY DEF Sn!WatchInv
<1>3. \A i \in 1..MaxSnapshots :
        \/ i \in Sn!Outcomes(v4') /\ v7[i] = 0 /\ v7'[i] = 1
        \/ i \notin Sn!Outcomes(v4') /\ v7'[i] = v7[i]
  BY <1>1, <1>2 DEF Sn!Outcomes
<1>4. v7' \in [1..MaxSnapshots -> {0, 1}]
  BY <1>1, <1>2, <1>3
<1>5. Sn!Listing(v4') /\ (v5' => v4' = <<>>) /\ v5' \in BOOLEAN
  <2>1. Sn!Listing(<<>>) /\ Sn!Listing(v1)
    BY DEF Sn!WatchInv, Sn!Listing
  <2> QED
    BY <1>1, <2>1
<1>6. Sn!Ids(v1) \subseteq 1..v2 /\ Sn!Ids(v1) \subseteq 1..MaxSnapshots
  <2>1. Sn!Ids(v1) \subseteq 1..v2 /\ v2 \in 1..MaxSnapshots
    BY DEF Sn!WatchInv
  <2> QED
    BY <2>1, SnapshotWatchAssumption
<1>7. CASE ok
  <2>1. v4' = v1 /\ v6' = Sn!InProgress(v1) /\ v8' = (v8 \cup Sn!InProgress(v1)) \cap Sn!Ids(v1)
    BY <1>1, <1>7
  <2>2. Sn!Outcomes(v4') = (Sn!Ids(v1) \cap v6) \ Sn!InProgress(v1)
    BY <2>1 DEF Sn!Outcomes
  <2>3. \A i \in 1..MaxSnapshots : v7'[i] = 1 => i <= v2 /\ i \notin Sn!InProgress(v1) /\ i \notin v6'
    BY <1>2, <1>3, <1>6, <2>1, <2>2
  <2>4. ASSUME NEW i \in v8', i \notin Sn!InProgress(v1) PROVE i \in 1..MaxSnapshots /\ v7'[i] = 1
    <3>1. i \in v8 /\ i \in Sn!Ids(v1) /\ i \in 1..MaxSnapshots
      BY <1>6, <2>1, <2>4
    <3>2. CASE i \in v6
      BY <1>3, <2>2, <2>4, <3>1, <3>2
    <3>3. CASE i \notin v6
      <4>1. v7[i] = 1
        BY <3>1, <3>3 DEF Sn!WatchInv
      <4> QED
        BY <1>3, <3>1, <4>1
    <3> QED
      BY <3>2, <3>3
  <2> QED
    BY <1>1, <1>4, <1>5, <2>3, <2>4 DEF Sn!WatchInv
<1>8. CASE ~ok
  <2>1. v4' = <<>> /\ v8' = {}
    BY <1>1, <1>8
  <2>2. Sn!InProgress(v4') = {} /\ Sn!Outcomes(v4') = {}
    BY <2>1 DEF Sn!InProgress, Sn!Ids, Sn!Outcomes
  <2>3. v6' = {} /\ \A i \in 1..MaxSnapshots : v7'[i] = v7[i]
    BY <1>1, <2>2
  <2> QED
    BY <1>1, <1>5, <2>1, <2>3 DEF Sn!WatchInv
<1> QED
  BY <1>7, <1>8

LEMMA SnapshotWatchStep == ASSUME Sn!WatchInv, [Sn!Next]_(Sn!vars) PROVE Sn!WatchInv'
<1>1. CASE Sn!World
  <2>1. UNCHANGED <<v4, v5, v6, v7, v8>>
    BY <1>1 DEF Sn!World
  <2> QED
    BY <1>1, <2>1, WorldStep DEF Sn!WatchInv
<1>2. CASE UNCHANGED Sn!vars
  BY <1>2 DEF Sn!vars, Sn!WatchInv
<1> QED
  BY <1>1, <1>2, RefreshStep DEF Sn!Next

LEMMA SnapshotWatchHolds == Sn!WatchInv => Sn!OutcomesAreTold
<1> SUFFICES ASSUME Sn!WatchInv PROVE Sn!OutcomesAreTold
  OBVIOUS
<1>1. \A i \in 1..MaxSnapshots : v7[i] <= 1
  BY DEF Sn!WatchInv
<1>2. \A i \in v8 \ Sn!InProgress(v4) : v7[i] = 1
  BY DEF Sn!WatchInv
<1>3. ASSUME v4 # <<>>, v4[1].st = "bad"
      PROVE  /\ Sn!Alert.kind = "failing"
             /\ \A k \in DOMAIN v4 : v4[k].id >= Sn!Alert.since => v4[k].st = "bad"
             /\ \A k \in DOMAIN v4 : v4[k].id = Sn!Alert.since =>
                  k = Len(v4) \/ v4[k + 1].st # "bad" \/ Sn!Alert.earlier
  <2>1. /\ v4 \in Seq(Sn!Run) /\ Len(v4) \in Nat \ {0} /\ DOMAIN v4 = 1..Len(v4)
        /\ \A i, j \in DOMAIN v4 : i < j => v4[j].id < v4[i].id
    BY <1>3 DEF Sn!WatchInv, Sn!Listing
  <2>2. \A k \in DOMAIN v4 : v4[k].id \in Nat
    <3>1. \A k \in DOMAIN v4 : v4[k] \in Sn!Run
      BY <2>1
    <3> QED
      BY <3>1 DEF Sn!Run
  <2> DEFINE n == IF Len(v4) < SnapshotWindow THEN Len(v4) ELSE SnapshotWindow
  <2>3. n \in 1..Len(v4)
    BY <2>1, SnapshotWatchAssumption
  <2>4. /\ Sn!Recent \in Seq(Sn!Run) /\ Len(Sn!Recent) = n /\ DOMAIN Sn!Recent = 1..n
        /\ \A i \in 1..n : Sn!Recent[i] = v4[i] /\ i \in DOMAIN v4
    <3>1. Sn!Recent = SubSeq(v4, 1, n)
      BY DEF Sn!Recent
    <3> HIDE DEF n
    <3> QED
      BY <2>1, <2>3, <3>1
  <2> HIDE DEF n
  <2>5. Sn!Streak \in SUBSET (1..n) /\ 1 \in Sn!Streak
    BY <1>3, <2>3, <2>4 DEF Sn!Streak
  <2> DEFINE m == CHOOSE i \in Sn!Streak : \A j \in Sn!Streak : j <= i
  <2>6. m \in Sn!Streak /\ \A j \in Sn!Streak : j <= m
    <3>1. \E i \in Sn!Streak : \A j \in Sn!Streak : j <= i
      <4>1. IsFiniteSet(1..n)
        BY <2>3, FS_Interval
      <4>2. Sn!Streak \in SUBSET Nat /\ IsFiniteSet(Sn!Streak) /\ Sn!Streak # {}
        <5>1. IsFiniteSet(Sn!Streak)
          BY <2>5, <4>1, FS_Subset
        <5> QED
          BY <2>5, <5>1
      <4> QED
        BY <4>2, Greatest
    <3> QED
      BY <3>1, Zenon
  <2> DEFINE alert == [kind |-> "failing", since |-> Sn!Recent[m].id,
                       earlier |-> Sn!Streak = DOMAIN Sn!Recent /\ Len(v4) > Len(Sn!Recent)]
  <2>7. Sn!Alert = alert
    <3>1. ~v5 /\ v4 # <<>> /\ Sn!Streak # {}
      BY <1>3, <2>5 DEF Sn!WatchInv
    <3> QED
      BY <3>1, Zenon DEF Sn!Alert
  <2>8. Sn!Alert.kind = "failing" /\ Sn!Alert.since = Sn!Recent[m].id
    BY <2>7
  <2>9. Sn!Alert.earlier <=> Sn!Streak = DOMAIN Sn!Recent /\ Len(v4) > Len(Sn!Recent)
    BY <2>7
  <2> HIDE DEF m, alert
  <2>10. m \in 1..n /\ Sn!Recent[m] = v4[m] /\ m \in DOMAIN v4
    BY <2>4, <2>5, <2>6
  <2>11. ASSUME NEW k \in DOMAIN v4, v4[k].id >= Sn!Alert.since PROVE v4[k].st = "bad"
    <3>1. ~(m < k)
      BY <2>1, <2>2, <2>8, <2>10, <2>11
    <3>2. k \in 1..m /\ k \in 1..n
      BY <2>3, <2>10, <3>1
    <3>3. Sn!Recent[k].st = "bad"
      BY <2>6, <3>2 DEF Sn!Streak
    <3> QED
      BY <2>4, <3>2, <3>3
  <2>12. ASSUME NEW k \in DOMAIN v4, v4[k].id = Sn!Alert.since, k # Len(v4), v4[k + 1].st = "bad"
         PROVE  Sn!Alert.earlier
    <3>1. k = m
      BY <2>1, <2>2, <2>8, <2>10, <2>12
    <3>2. m + 1 \notin Sn!Streak
      BY <2>6, <2>10
    <3>3. m + 1 \notin 1..n
      <4>1. ASSUME m + 1 \in 1..n PROVE m + 1 \in Sn!Streak
        <5>1. \A j \in 1..m : Sn!Recent[j].st = "bad"
          BY <2>6 DEF Sn!Streak
        <5>2. Sn!Recent[m + 1].st = "bad"
          BY <2>4, <2>12, <3>1, <4>1
        <5>3. \A j \in 1..(m + 1) : j \in 1..m \/ j = m + 1
          BY <2>10
        <5> QED
          BY <2>4, <4>1, <5>1, <5>2, <5>3 DEF Sn!Streak
      <4> QED
        BY <3>2, <4>1
    <3>4. m = n
      BY <2>3, <2>10, <3>3
    <3>5. Sn!Streak = DOMAIN Sn!Recent
      <4>1. \A i \in 1..n : i \in Sn!Streak
        <5> TAKE i \in 1..n
        <5>1. \A j \in 1..i : j \in 1..m
          BY <2>3, <3>4
        <5>2. \A j \in 1..m : Sn!Recent[j].st = "bad"
          BY <2>6 DEF Sn!Streak
        <5> QED
          BY <2>4, <5>1, <5>2 DEF Sn!Streak
      <4> QED
        BY <2>4, <2>5, <4>1
    <3>6. Len(v4) > Len(Sn!Recent)
      BY <2>4, <2>12, <3>1, <3>4
    <3> QED
      BY <2>9, <3>5, <3>6
  <2> QED
    BY <2>8, <2>11, <2>12
<1> QED
  BY <1>1, <1>2, <1>3 DEF Sn!OutcomesAreTold

-----------------------------------------------------------------------------
(* Housekeeping *)

LEMMA HousekeepingInit == Ho!Init => Ho!HousekeepingInv
BY DEF Ho!Init, Ho!HousekeepingInv, Ho!NothingLostUnasked, Ho!DialogIsCareful

\* Past the trigger nothing is proposed to be deleted yet.
LEMMA TriggeredIsSafe ==
  ASSUME Ho!HousekeepingInv, NEW rule, NEW picked, NEW newest, Ho!Triggered(rule, picked, newest),
         UNCHANGED <<v1, v2, v3, v4, v5, v8, v9, v10, v11, v12>>
  PROVE  Ho!HousekeepingInv'
BY DEF Ho!Triggered, Ho!HousekeepingInv, Ho!NothingLostUnasked, Ho!DialogIsCareful

LEMMA HousekeepingStep == ASSUME Ho!HousekeepingInv, [Ho!Next]_(Ho!vars) PROVE Ho!HousekeepingInv'
<1> USE DEF Ho!HousekeepingInv, Ho!NothingLostUnasked, Ho!DialogIsCareful
<1>1. CASE Ho!RetentionRule
  BY <1>1 DEF Ho!RetentionRule, Ho!Ask, Ho!Expired
<1>2. CASE Ho!RetentionVerdict
  BY <1>2 DEF Ho!RetentionVerdict, Ho!Conclude, Ho!ToDelete, Ho!Covered
<1>3. CASE Ho!UserRule
  <2> HIDE DEF Ho!HousekeepingInv, Ho!NothingLostUnasked, Ho!DialogIsCareful
  <2>1. CASE UNCHANGED v6 /\ v7' = None
    BY <1>3, <2>1 DEF Ho!UserRule, Ho!HousekeepingInv, Ho!NothingLostUnasked, Ho!DialogIsCareful
  <2>2. CASE UNCHANGED v7
    BY <1>3, TriggeredIsSafe DEF Ho!UserRule, Ho!HousekeepingInv, Ho!NothingLostUnasked, Ho!DialogIsCareful
  <2>3. CASE \E rule, picked, newest : Ho!Triggered(rule, picked, newest)
    BY <1>3, <2>3, TriggeredIsSafe DEF Ho!UserRule
  <2> QED
    BY <1>3, <2>1, <2>2, <2>3 DEF Ho!UserRule
<1>4. CASE Ho!UserMatch
  <2>1. CASE \E rule, picked, newest : Ho!Triggered(rule, picked, newest)
    BY <1>4, TriggeredIsSafe DEF Ho!UserMatch
  <2> QED
    BY <1>4, <2>1 DEF Ho!UserMatch
<1>5. CASE Ho!UserVerdict
  BY <1>5 DEF Ho!UserVerdict, Ho!Conclude, Ho!ToDelete, Ho!Covered
<1>6. CASE Ho!Review \/ Ho!Choose
  BY <1>6 DEF Ho!Review, Ho!Choose, Ho!Open
<1>7. CASE Ho!Reads
  BY <1>7 DEF Ho!Reads, Ho!Known, Ho!Covered
<1>8. CASE Ho!Yes
  BY <1>8 DEF Ho!Yes
<1>9. CASE Ho!Act
  BY <1>9 DEF Ho!Act
<1>10. CASE Ho!World \/ Ho!FetchIndices \/ Ho!Cancel \/ Ho!Done \/ UNCHANGED Ho!vars
  BY <1>10 DEF Ho!World, Ho!FetchIndices, Ho!Cancel, Ho!Done, Ho!vars
<1> QED
  BY <1>1, <1>2, <1>3, <1>4, <1>5, <1>6, <1>7, <1>8, <1>9, <1>10 DEF Ho!Next

-----------------------------------------------------------------------------
(* Balance *)

LEMMA BalanceInit == Ba!Init => Ba!BalanceInv
BY DEF Ba!Init, Ba!BalanceInv, Ba!Quiet

LEMMA BalanceStep == ASSUME Ba!BalanceInv, [Ba!Next]_(Ba!vars) PROVE Ba!BalanceInv'
<1>1. CASE Ba!ReadDisk
  BY <1>1 DEF Ba!ReadDisk, Ba!BalanceInv
<1>2. CASE Ba!ReadShards
  BY <1>2 DEF Ba!ReadShards, Ba!BalanceInv
<1>3. CASE Ba!ReadSettings
  BY <1>3 DEF Ba!ReadSettings, Ba!BalanceInv, Ba!Scope
<1>4. CASE UNCHANGED Ba!vars
  BY <1>4 DEF Ba!vars, Ba!BalanceInv
<1> QED
  BY <1>1, <1>2, <1>3, <1>4 DEF Ba!Next

\* The fullest and the emptiest node are nodes, and every other one is between them.
LEMMA NodesAreBetween ==
  ASSUME Ba!BalanceInv, Ba!Nodes # {}
  PROVE  /\ \E n \in Ba!Nodes : v1[n] = Ba!Fullest
         /\ \E n \in Ba!Nodes : v1[n] = Ba!Emptiest
         /\ \A n \in Ba!Nodes : v1[n] \in Nat /\ Ba!Emptiest <= v1[n] /\ v1[n] <= Ba!Fullest
<1>1. \A n \in Ba!Nodes : v1[n] \in Nat
  BY BalanceAssumption DEF Ba!BalanceInv, Ba!Nodes
<1>2. Ba!Shares \in SUBSET Nat /\ Ba!Shares # {} /\ IsFiniteSet(Ba!Shares)
  <2>1. IsFiniteSet(Ba!Nodes)
    BY BalanceAssumption, FS_Subset DEF Ba!Nodes
  <2> DEFINE f == [n \in Ba!Nodes |-> v1[n]]
  <2>2. f \in Surjection(Ba!Nodes, Ba!Shares)
    BY DEF Surjection, Ba!Shares
  <2>3. IsFiniteSet(Ba!Shares)
    BY <2>1, <2>2, FS_Surjection
  <2> QED
    BY <1>1, <2>3 DEF Ba!Shares
<1>3. Ba!Fullest \in Ba!Shares /\ \A q \in Ba!Shares : q <= Ba!Fullest
  BY <1>2, Greatest DEF Ba!Fullest
<1>4. Ba!Emptiest \in Ba!Shares /\ \A q \in Ba!Shares : Ba!Emptiest <= q
  BY <1>2, Least DEF Ba!Emptiest
<1> QED
  BY <1>1, <1>3, <1>4 DEF Ba!Shares

LEMMA BalanceHolds == ASSUME Ba!BalanceInv PROVE Ba!AdviceFits
<1>1. Ba!Low \in Nat /\ v2 \in BOOLEAN
  BY BalanceAssumption DEF Ba!BalanceInv, Ba!Low, Ba!FirstSaid, Ba!Scope
<1>2. /\ None # "look" /\ None # "explain" /\ None # "unblock" /\ None # "enable" /\ None # "move"
      /\ None # "oldest" /\ None # "proposed"
  BY BalanceAssumption, Zenon
<1>3. Ba!Applicable => Ba!Nodes # {}
  BY DEF Ba!Applicable
<1>4. \A n \in Ba!Nodes : v1[n] \in Nat
  BY NodesAreBetween
<1>5. Ba!Nodes # {} => Ba!Spread \in Int /\ Ba!Emptiest \in Nat /\ Ba!Fullest \in Nat
  BY NodesAreBetween DEF Ba!Spread
<1>6. Ba!Applicable => Ba!Primary # None
  <2>1. ~Ba!MayMove => "enable" \in Ba!Suggestions
    BY Zenon DEF Ba!Suggestions
  <2>2. Ba!AboveFlood # {} => "unblock" \in Ba!Suggestions
    BY Zenon DEF Ba!Suggestions
  <2>3. Ba!AllFull => "oldest" \in Ba!Suggestions
    BY Zenon DEF Ba!Suggestions
  <2>4. v2 => "explain" \in Ba!Suggestions
    BY Zenon DEF Ba!Suggestions
  <2>5. Ba!Helps => "move" \in Ba!Suggestions
    BY Zenon DEF Ba!Suggestions, Ba!Helps
  <2>6. "look" \in Ba!Suggestions
    BY Zenon DEF Ba!Suggestions
  <2> QED
    BY <1>2, <2>1, <2>2, <2>3, <2>4, <2>5, <2>6 DEF Ba!Primary, Ba!Offered
<1>7. Ba!Verdict = "ok" =>
        Ba!MayMove /\ ~v2 /\ Ba!Spread < 10 /\ \A n \in Ba!Nodes : v1[n] < Ba!Low /\ v1[n] < Ba!High
  <2> SUFFICES ASSUME Ba!Verdict = "ok"
               PROVE  Ba!MayMove /\ ~v2 /\ Ba!Spread < 10 /\ \A n \in Ba!Nodes : v1[n] < Ba!Low /\ v1[n] < Ba!High
    OBVIOUS
  <2>1. /\ Ba!Applicable /\ Ba!AboveFlood = {} /\ Ba!AboveHigh = {} /\ ~v2 /\ Ba!MayMove
        /\ ~(Ba!Spread >= 10) /\ Ba!AboveLow = {}
    BY DEF Ba!Verdict
  <2>2. Ba!Spread < 10
    BY <1>3, <1>5, <2>1
  <2>3. \A n \in Ba!Nodes : v1[n] < Ba!High
    BY <1>4, <2>1 DEF Ba!AboveFlood, Ba!AboveHigh, Ba!High, Ba!Flood
  <2>4. \A n \in Ba!Nodes : v1[n] < Ba!Low
    BY <1>1, <1>4, <2>1, <2>3 DEF Ba!AboveLow
  <2> QED
    BY <2>1, <2>2, <2>3, <2>4
<1>8. Ba!Primary = "move" =>
        /\ Ba!MayMove /\ ~Ba!AllFull
        /\ \E n, to \in Ba!Nodes : v1[to] < Ba!Low /\ v1[n] > v1[to] /\ (v1[n] >= v1[to] + 10 \/ v1[n] >= Ba!High)
  <2> SUFFICES ASSUME Ba!Primary = "move"
               PROVE  /\ Ba!MayMove /\ ~Ba!AllFull
                      /\ \E n, to \in Ba!Nodes : /\ v1[to] < Ba!Low /\ v1[n] > v1[to]
                                                 /\ v1[n] >= v1[to] + 10 \/ v1[n] >= Ba!High
    OBVIOUS
  <2>1. Ba!MayMove /\ Ba!Helps /\ Ba!Applicable
    BY <1>2 DEF Ba!Primary, Ba!Offered
  <2>2. ~Ba!AllFull /\ Ba!Headroom /\ (Ba!Spread >= 10 \/ Ba!AboveHigh # {} \/ Ba!AboveFlood # {})
    BY <2>1 DEF Ba!Helps
  <2>3. PICK to \in Ba!Nodes : v1[to] = Ba!Emptiest
    BY <1>3, <2>1, NodesAreBetween
  <2>4. v1[to] < Ba!Low /\ v1[to] \in Nat
    BY <1>4, <2>2, <2>3 DEF Ba!Headroom
  <2>5. CASE Ba!Spread >= 10
    <3>1. PICK n \in Ba!Nodes : v1[n] = Ba!Fullest
      BY NodesAreBetween
    <3>2. v1[n] - v1[to] >= 10 /\ v1[n] \in Nat
      BY <1>4, <2>3, <2>5, <3>1 DEF Ba!Spread
    <3>3. v1[n] > v1[to] /\ v1[n] >= v1[to] + 10
      BY <2>4, <3>2
    <3> QED
      BY <2>1, <2>2, <2>4, <3>3
  <2>6. CASE Ba!AboveHigh # {} \/ Ba!AboveFlood # {}
    <3>1. PICK n \in Ba!Nodes : v1[n] >= Ba!High
      BY <1>4, <2>6 DEF Ba!AboveHigh, Ba!AboveFlood, Ba!High, Ba!Flood
    <3>2. PICK m \in Ba!Nodes : ~(v1[m] >= Ba!High)
      BY <2>2 DEF Ba!AllFull
    <3>3. v1[to] <= v1[m]
      BY <2>3, NodesAreBetween
    <3>4. v1[n] > v1[to]
      BY <1>4, <3>1, <3>2, <3>3 DEF Ba!High
    <3> QED
      BY <2>1, <2>2, <2>4, <3>1, <3>4
  <2> QED
    BY <2>2, <2>5, <2>6
<1>9. Ba!Verdict \in {"critical", "required"} /\ Ba!AllFull => Ba!Primary # "move" /\ Ba!Headline \in {"flood", "capacity"}
  BY <1>2 DEF Ba!Primary, Ba!Offered, Ba!Headline
<1>10. Ba!Headline = "skewed" => Ba!Spread >= 20 /\ Ba!Headroom
  <2>1. Ba!Headline = "skewed" => Ba!Verdict = "required" /\ Ba!AboveHigh = {} /\ ~v2
    BY DEF Ba!Headline, Ba!Verdict
  <2>2. Ba!Verdict = "required" => Ba!AboveHigh # {} \/ v2 \/ (Ba!Spread >= 20 /\ Ba!Headroom)
    BY DEF Ba!Verdict
  <2> QED
    BY <2>1, <2>2
<1>11. Ba!RetryRule = "proposed" => Ba!Nodes = {} \/ \E n \in Ba!Nodes : v1[n] < Ba!High
  <2>1. Ba!RetryRule = "proposed" => Ba!Nodes = {} \/ ~Ba!AllFull
    BY <1>2 DEF Ba!RetryRule
  <2>2. ~Ba!AllFull => \E n \in Ba!Nodes : v1[n] < Ba!High
    BY <1>4 DEF Ba!AllFull, Ba!High
  <2> QED
    BY <2>1, <2>2
<1> QED
  BY <1>6, <1>7, <1>8, <1>9, <1>10, <1>11 DEF Ba!AdviceFits

-----------------------------------------------------------------------------
(* Shards *)

LEMMA ShardsInit == Sh!Init => Sh!ShardsInv
BY DEF Sh!Init, Sh!ShardsInv

\* What is left to move is one of the rows that were asked for, and holds all that had to be.
LEMMA CommandsAreRight == ASSUME Sh!ShardsInv, Sh!Confirm PROVE ~Sh!Wrong(Sh!Commands(v5.rows, v5.to))
BY DEF Sh!ShardsInv, Sh!Confirm, Sh!Wrong, Sh!Commands

\* A row of the listing is a shard and a node.
LEMMA RowsAreRows == \A c, r : r \in Sh!Rows(c) => r.shard \in Name /\ r.node \in Host /\ r = [shard |-> r.shard, node |-> r.node]
BY DEF Sh!Rows

LEMMA Ticks ==
  ASSUME Sh!ShardsInv, NEW c \in Cluster, Sh!Tick(c) \/ Sh!TickAll(c) \/ Sh!Clear(c)
  PROVE  Sh!ShardsInv'
<1> USE DEF Sh!ShardsInv, Sh!On
<1>1. CASE Sh!Tick(c)
  <2>1. PICK r \in Sh!Rows(c) :
          IF v3[r.shard] = None
          THEN /\ v3' = [v3 EXCEPT ![r.shard] = Sh!On(c, r.node)]
               /\ v4' = [v4 EXCEPT ![r.shard] = {Sh!On(c, r.node)}]
          ELSE /\ v3' = [v3 EXCEPT ![r.shard] = None]
               /\ v4' = [v4 EXCEPT ![r.shard] = {}]
    BY <1>1 DEF Sh!Tick
  <2>2. r.shard \in Name /\ Sh!On(c, r.node) \in [cluster : Cluster, node : Host] /\ UNCHANGED <<v5, v6>>
    BY <1>1, RowsAreRows DEF Sh!Tick
  <2> QED
    BY <2>1, <2>2, ShardsAssumption
<1>2. CASE Sh!TickAll(c)
  <2>1. PICK nodes \in [Name -> SUBSET Host] :
          \/ /\ v3' = [s \in Name |-> IF nodes[s] = {} THEN v3[s] ELSE None]
             /\ v4' = [s \in Name |-> IF nodes[s] = {} THEN v4[s] ELSE {}]
          \/ /\ \E last \in [Name -> Host] :
                  /\ \A s \in Name : nodes[s] # {} => last[s] \in nodes[s]
                  /\ v3' = [s \in Name |-> IF nodes[s] = {} THEN v3[s] ELSE Sh!On(c, last[s])]
             /\ v4' = [s \in Name |-> v4[s] \cup {Sh!On(c, n) : n \in nodes[s]}]
    <3>1. PICK shown \in SUBSET Sh!Rows(c) \ {{}} :
            LET nodes(s) == {n \in Host : [shard |-> s, node |-> n] \in shown}
                allOn == \A r \in shown : v3[r.shard] # None
            IN  IF allOn
                THEN /\ v3' = [s \in Name |-> IF nodes(s) = {} THEN v3[s] ELSE None]
                     /\ v4' = [s \in Name |-> IF nodes(s) = {} THEN v4[s] ELSE {}]
                ELSE /\ \E last \in [Name -> Host] :
                          /\ \A s \in Name : nodes(s) # {} => last[s] \in nodes(s)
                          /\ v3' = [s \in Name |-> IF nodes(s) = {} THEN v3[s] ELSE Sh!On(c, last[s])]
                     /\ v4' = [s \in Name |-> v4[s] \cup {Sh!On(c, n) : n \in nodes(s)}]
      BY <1>2 DEF Sh!TickAll
    <3> DEFINE of(s) == {n \in Host : [shard |-> s, node |-> n] \in shown}
               nodes == [s \in Name |-> of(s)]
    <3>2. nodes \in [Name -> SUBSET Host] /\ \A s \in Name : nodes[s] = of(s)
      OBVIOUS
    <3>3. CASE /\ v3' = [s \in Name |-> IF of(s) = {} THEN v3[s] ELSE None]
               /\ v4' = [s \in Name |-> IF of(s) = {} THEN v4[s] ELSE {}]
      <4> HIDE DEF nodes, of
      <4>1. /\ v3' = [s \in Name |-> IF nodes[s] = {} THEN v3[s] ELSE None]
            /\ v4' = [s \in Name |-> IF nodes[s] = {} THEN v4[s] ELSE {}]
        BY <3>2, <3>3
      <4> QED
        BY <3>2, <4>1
    <3>4. ASSUME NEW last \in [Name -> Host], \A s \in Name : of(s) # {} => last[s] \in of(s),
                 v3' = [s \in Name |-> IF of(s) = {} THEN v3[s] ELSE Sh!On(c, last[s])],
                 v4' = [s \in Name |-> v4[s] \cup {Sh!On(c, n) : n \in of(s)}]
          PROVE  \E marked \in [Name -> SUBSET Host], l \in [Name -> Host] :
                   /\ \A s \in Name : marked[s] # {} => l[s] \in marked[s]
                   /\ v3' = [s \in Name |-> IF marked[s] = {} THEN v3[s] ELSE Sh!On(c, l[s])]
                   /\ v4' = [s \in Name |-> v4[s] \cup {Sh!On(c, n) : n \in marked[s]}]
      <4> HIDE DEF nodes, of
      <4>1. /\ \A s \in Name : nodes[s] # {} => last[s] \in nodes[s]
            /\ v3' = [s \in Name |-> IF nodes[s] = {} THEN v3[s] ELSE Sh!On(c, last[s])]
            /\ v4' = [s \in Name |-> v4[s] \cup {Sh!On(c, n) : n \in nodes[s]}]
        BY <3>2, <3>4
      <4> QED
        BY <3>2, <4>1
    <3>5. \/ /\ v3' = [s \in Name |-> IF of(s) = {} THEN v3[s] ELSE None]
             /\ v4' = [s \in Name |-> IF of(s) = {} THEN v4[s] ELSE {}]
          \/ \E last \in [Name -> Host] :
               /\ \A s \in Name : of(s) # {} => last[s] \in of(s)
               /\ v3' = [s \in Name |-> IF of(s) = {} THEN v3[s] ELSE Sh!On(c, last[s])]
               /\ v4' = [s \in Name |-> v4[s] \cup {Sh!On(c, n) : n \in of(s)}]
      BY <3>1
    <3> HIDE DEF nodes, of
    <3> QED
      BY <3>3, <3>4, <3>5
  <2>2. UNCHANGED v5 /\ UNCHANGED v6
    BY <1>2 DEF Sh!TickAll
  <2>3. CASE /\ v3' = [s \in Name |-> IF nodes[s] = {} THEN v3[s] ELSE None]
             /\ v4' = [s \in Name |-> IF nodes[s] = {} THEN v4[s] ELSE {}]
    BY <2>2, <2>3
  <2>4. ASSUME NEW last \in [Name -> Host], \A s \in Name : nodes[s] # {} => last[s] \in nodes[s],
               v3' = [s \in Name |-> IF nodes[s] = {} THEN v3[s] ELSE Sh!On(c, last[s])],
               v4' = [s \in Name |-> v4[s] \cup {Sh!On(c, n) : n \in nodes[s]}]
        PROVE  Sh!ShardsInv'
    <3>1. /\ v3' \in [Name -> [cluster : Cluster, node : Host] \cup {None}]
          /\ v4' \in [Name -> SUBSET [cluster : Cluster, node : Host]]
      BY <2>4
    <3>2. ASSUME NEW s \in Name
          PROVE  IF v3'[s] = None THEN v4'[s] = {} ELSE v3'[s] \in v4'[s]
      <4>1. CASE nodes[s] = {}
        BY <2>4, <4>1
      <4>2. CASE nodes[s] # {}
        BY <2>4, <4>2, ShardsAssumption
      <4> QED
        BY <4>1, <4>2
    <3> QED
      BY <2>2, <3>1, <3>2
  <2> QED
    BY <2>1, <2>3, <2>4
<1>3. CASE Sh!Clear(c)
  BY <1>3 DEF Sh!Clear
<1> QED
  BY <1>1, <1>2, <1>3

LEMMA Opens ==
  ASSUME Sh!ShardsInv, NEW c \in Cluster, Sh!MoveMany(c) \/ Sh!MoveOne(c) \/ Sh!MoveListed(c)
  PROVE  Sh!ShardsInv'
<1> USE DEF Sh!ShardsInv, Sh!On
<1>1. CASE Sh!MoveMany(c)
  <2> DEFINE rows == {[shard |-> s, node |-> v3[s].node] : s \in Sh!Mine(c)}
  <2>1. rows \subseteq Sh!Asked(c)
    BY DEF Sh!Asked, Sh!Mine
  <2>2. Sh!Sole(c) \subseteq rows
    <3>1. ASSUME NEW r \in Sh!Sole(c)
          PROVE  r \in rows
      <4>1. r.shard \in Name /\ r = [shard |-> r.shard, node |-> r.node] /\ v4[r.shard] = {Sh!On(c, r.node)}
        BY DEF Sh!Sole
      <4>2. v3[r.shard] = Sh!On(c, r.node)
        BY <4>1
      <4> QED
        BY <4>1, <4>2, ShardsAssumption DEF Sh!Mine
    <3> QED
      BY <3>1
  <2>3. /\ v5' = [cluster |-> c, rows |-> rows, asked |-> Sh!Asked(c), sole |-> Sh!Sole(c), to |-> None, stays |-> TRUE]
        /\ rows # {} /\ (\E m, n \in Host : m # n) /\ UNCHANGED <<v3, v4, v6>>
    BY <1>1 DEF Sh!MoveMany, Sh!OpenMove
  <2> HIDE DEF rows
  <2> QED
    BY <2>1, <2>2, <2>3
<1>2. CASE Sh!MoveOne(c) \/ Sh!MoveListed(c)
  BY <1>2 DEF Sh!MoveOne, Sh!MoveListed, Sh!OpenMove
<1> QED
  BY <1>1, <1>2

LEMMA ShardsStep ==
  ASSUME Sh!ShardsInv, [Sh!Next]_(Sh!vars)
  PROVE  Sh!ShardsInv'
<1>1. CASE Sh!World \/ Sh!Choose \/ Sh!Refuse
  BY <1>1 DEF Sh!World, Sh!Choose, Sh!Refuse, Sh!ShardsInv
<1>2. CASE Sh!Confirm
  BY <1>2, CommandsAreRight DEF Sh!Confirm, Sh!ShardsInv
<1>3. ASSUME NEW c \in Cluster, Sh!Load(c)
      PROVE  Sh!ShardsInv'
  BY <1>3 DEF Sh!Load, Sh!ShardsInv
<1>4. CASE UNCHANGED Sh!vars
  BY <1>4 DEF Sh!vars, Sh!ShardsInv
<1> QED
  BY <1>1, <1>2, <1>3, <1>4, Ticks, Opens DEF Sh!Next

-----------------------------------------------------------------------------
(* RestConsole *)

LEMMA RestConsoleInit == Re!Init => Re!RestConsoleInv
<1>1. Re!Init => Re!TypeOK
  <2>1. Re!Init => v2 \in BOOLEAN /\ v4 \in BOOLEAN /\ v1 \in BOOLEAN /\ v3 \in BOOLEAN
    BY DEF Re!Init
  <2> QED
    BY <2>1 DEF Re!Init, Re!TypeOK
<1>2. Re!Init => Re!UnconfirmedAreHarmless /\ Re!IdsAreUnique /\ Re!NoneIsInDoubt
  BY DEF Re!Init, Re!UnconfirmedAreHarmless, Re!IdsAreUnique, Re!OneEntryEach, Re!NoneIsInDoubt, Re!InDatabase
<1> QED
  BY <1>1, <1>2 DEF Re!RestConsoleInv

\* What is written, and what is not touched, is in the database or in doubt, for the page and
\* for a listing under way.
LEMMA WrittenKeeps ==
  ASSUME Re!RestConsoleInv, NEW ids, NEW s, Re!Written(ids, s), v10' = v10,
         \A e \in v8' : e.fav /\ e.id \in ids => e \in s,
         \A e \in v8' : e.fav /\ e.id \notin ids /\ e.id \notin v13 => e \in v9,
         \A e \in v9 : e.id \notin ids => e \in s
  PROVE  Re!NoneIsInDoubt' /\ v9' \in {v9, s}
<1> USE DEF Re!Written, Re!RestConsoleInv, Re!NoneIsInDoubt, Re!InDatabase
<1> QED
  OBVIOUS

\* Where only the editor, the question and the requests change, nothing is in doubt that was not.
LEMMA LogStays ==
  ASSUME Re!RestConsoleInv, UNCHANGED Re!log
  PROVE  Re!NoneIsInDoubt'
BY DEF Re!log, Re!RestConsoleInv, Re!NoneIsInDoubt, Re!InDatabase

\* A request that is sent has an id of its own, and is a confirmed one or harmless.
LEMMA SentIsHarmless ==
  ASSUME Re!RestConsoleInv, v11' = v11 + 1, UNCHANGED <<v1, v2, v3, v4, v5, v12>>,
         UNCHANGED Re!log, NEW confirmed \in BOOLEAN, Re!Send(confirmed), ~Re!Confirmable(v5) \/ confirmed
  PROVE  Re!RestConsoleInv'
<1> DEFINE r == [id |-> v11 + 1, req |-> v5, allowWrites |-> v3, confirmed |-> confirmed,
                 changed |-> v2 # v4]
<1>1. v7' = v7 \cup {r}
  BY DEF Re!Send
<1>2. /\ r.id = v11 + 1 /\ r \in Re!Request'
      /\ r.req = "write" /\ ~r.confirmed /\ ~r.changed => v2 /\ ~r.allowWrites
  BY DEF Re!RestConsoleInv, Re!TypeOK, Re!Request, Re!Confirmable
<1>3. \A f \in v7 : f \in Re!Request' /\ f.id <= v11 /\ f.id \in Nat
  BY DEF Re!RestConsoleInv, Re!TypeOK, Re!Request
<1>4. \A e \in Re!Entry : e \in Re!Entry' /\ e.id <= v11 /\ e.id \in Nat
  BY DEF Re!RestConsoleInv, Re!TypeOK, Re!Entry
<1> HIDE DEF r
<1>5. Re!TypeOK'
  BY <1>1, <1>2, <1>3, <1>4 DEF Re!log, Re!RestConsoleInv, Re!TypeOK
<1>6. Re!UnconfirmedAreHarmless'
  BY <1>1, <1>2 DEF Re!RestConsoleInv, Re!UnconfirmedAreHarmless
<1>7. Re!IdsAreUnique'
  BY <1>1, <1>2, <1>3, <1>4 DEF Re!log, Re!RestConsoleInv, Re!TypeOK, Re!IdsAreUnique, Re!OneEntryEach
<1> QED
  BY <1>5, <1>6, <1>7, LogStays DEF Re!RestConsoleInv

\* What the history and the database hold after an entry of an id that no request has.
LEMMA HistoryStep ==
  ASSUME Re!RestConsoleInv, Re!NoneIsInDoubt', NEW e, e \in Re!Entry', NEW s,
         v11' \in Nat /\ v11' >= v11,
         UNCHANGED <<v1, v2, v3, v4, v10>>, ~v12', v5' \in {"read", "write"},
         v7' \subseteq v7, \A f \in v7' : f.id # e.id,
         v9' \in {v9, s}, s \subseteq v9 \cup {e}, \A x \in s : x.id = e.id => x = e,
         v8' \subseteq v8 \cup {e}, \A x \in v8' : x.id = e.id => x = e
  PROVE  Re!RestConsoleInv'
<1>1. \A x \in Re!Entry : x \in Re!Entry'
  BY DEF Re!RestConsoleInv, Re!TypeOK, Re!Entry
<1>2. \A f \in Re!Request : f \in Re!Request'
  BY DEF Re!RestConsoleInv, Re!TypeOK, Re!Request
<1>3. Re!TypeOK'
  BY <1>1, <1>2 DEF Re!RestConsoleInv, Re!TypeOK
<1>4. Re!UnconfirmedAreHarmless'
  BY DEF Re!RestConsoleInv, Re!UnconfirmedAreHarmless
<1>5. Re!IdsAreUnique'
  BY DEF Re!RestConsoleInv, Re!IdsAreUnique, Re!OneEntryEach
<1> QED
  BY <1>3, <1>4, <1>5 DEF Re!RestConsoleInv

LEMMA AnsweredStep ==
  ASSUME Re!RestConsoleInv, NEW f \in v7, Re!Answered(f)
  PROVE  Re!RestConsoleInv'
<1> DEFINE e == [id |-> f.id, req |-> v5, fav |-> FALSE]
           s == {x \in v9 : x.id # e.id} \cup {e}
<1>1. e \in Re!Entry' /\ e.id = f.id /\ ~e.fav
  BY DEF Re!Answered, Re!RestConsoleInv, Re!TypeOK, Re!Request, Re!Entry
<1>2. Re!Written({e.id}, s) /\ v8' \subseteq v8 \cup {e}
  BY DEF Re!Answered, Re!Put, Re!Newest
<1>3. \A x \in v8 \cup v9 : x.id # e.id
  BY DEF Re!RestConsoleInv, Re!IdsAreUnique
<1>4. \A g \in v7' : g.id # e.id
  BY DEF Re!Answered, Re!RestConsoleInv, Re!IdsAreUnique, Re!OneEntryEach
<1>5. UNCHANGED <<v1, v2, v3, v4, v10, v5, v11>> /\ v7' \subseteq v7
  BY DEF Re!Answered, Re!guard
\* What went out unconfirmed met a core that lets nothing through.
<1>6. ~v12'
  BY DEF Re!Answered, Re!RestConsoleInv, Re!TypeOK, Re!UnconfirmedAreHarmless
<1> HIDE DEF e
<1>7. Re!NoneIsInDoubt' /\ v9' \in {v9, s}
  BY <1>2, <1>3, <1>5, WrittenKeeps DEF Re!RestConsoleInv, Re!NoneIsInDoubt, Re!InDatabase
<1>8. /\ s \subseteq v9 \cup {e} /\ \A x \in s : x.id = e.id => x = e
      /\ \A x \in v8' : x.id = e.id => x = e
  BY <1>2, <1>3
<1>9. v11' \in Nat /\ v11' >= v11 /\ v5' \in {"read", "write"}
  BY <1>5 DEF Re!RestConsoleInv, Re!TypeOK
<1> HIDE DEF s
<1> QED
  BY <1>1, <1>2, <1>4, <1>5, <1>6, <1>7, <1>8, <1>9, HistoryStep

LEMMA NothingIsSent ==
  ASSUME Re!RestConsoleInv, UNCHANGED <<v2, v4, v7, v11, v12>>, UNCHANGED Re!log,
         v1' \in BOOLEAN, v3' \in BOOLEAN, v5' \in {"read", "write"}
  PROVE  Re!RestConsoleInv'
<1>1. Re!TypeOK'
  BY DEF Re!log, Re!RestConsoleInv, Re!TypeOK, Re!Entry, Re!Request
<1>2. Re!UnconfirmedAreHarmless' /\ Re!IdsAreUnique'
  BY DEF Re!log, Re!RestConsoleInv, Re!UnconfirmedAreHarmless, Re!IdsAreUnique, Re!OneEntryEach
<1> QED
  BY <1>1, <1>2, LogStays DEF Re!RestConsoleInv

\* Whatever is under way when the config changes has seen it change.
LEMMA ReloadStep ==
  ASSUME Re!RestConsoleInv, Re!Reload
  PROVE  Re!RestConsoleInv'
<1> DEFINE Seen(f) == [f EXCEPT !.changed = TRUE]
<1>1. \A f \in v7 : Seen(f) \in Re!Request /\ Seen(f).id = f.id /\ Seen(f).changed
  BY DEF Re!RestConsoleInv, Re!TypeOK, Re!Request
<1>2. v7' = {Seen(f) : f \in v7} /\ UNCHANGED <<v1, v3, v5, v11, v12>> /\ UNCHANGED Re!log
  BY DEF Re!Reload
<1>3. v2' \in BOOLEAN /\ v4' \in BOOLEAN
  BY DEF Re!Reload, Re!RestConsoleInv, Re!TypeOK
<1> HIDE DEF Seen
<1>4. Re!TypeOK'
  BY <1>1, <1>2, <1>3 DEF Re!log, Re!RestConsoleInv, Re!TypeOK, Re!Entry, Re!Request
<1>5. Re!UnconfirmedAreHarmless' /\ Re!IdsAreUnique'
  BY <1>1, <1>2 DEF Re!log, Re!RestConsoleInv, Re!UnconfirmedAreHarmless, Re!IdsAreUnique, Re!OneEntryEach
<1> QED
  BY <1>2, <1>4, <1>5, LogStays DEF Re!RestConsoleInv

LEMMA RunStep ==
  ASSUME Re!RestConsoleInv, Re!Run \/ Re!Confirm
  PROVE  Re!RestConsoleInv'
<1> USE DEF Re!guard
<1>1. CASE UNCHANGED <<v7, v11>>
  BY <1>1, NothingIsSent DEF Re!Run, Re!Confirm, Re!RestConsoleInv, Re!TypeOK
<1>2. CASE Re!Run /\ ~Re!Confirmable(v5)
  BY <1>2, SentIsHarmless DEF Re!Run
<1>3. CASE Re!Confirm /\ v11' = v11 + 1 /\ Re!Send(TRUE)
  BY <1>3, SentIsHarmless DEF Re!Confirm
<1> QED
  BY <1>1, <1>2, <1>3 DEF Re!Run, Re!Confirm

LEMMA ListingStep ==
  ASSUME Re!RestConsoleInv, Re!Render \/ Re!Read
  PROVE  Re!RestConsoleInv'
<1>1. UNCHANGED <<v5, v7, v11, v12, v1, v2, v3, v4, v9, v13>>
  BY DEF Re!Render, Re!Read, Re!guard
<1>2. \/ UNCHANGED v8 /\ v10' = v9
      \/ v8' = v10 /\ v10' = None /\ v10 # None
  BY DEF Re!Render, Re!Read
<1>3. Re!TypeOK'
  BY <1>1, <1>2 DEF Re!RestConsoleInv, Re!TypeOK, Re!Entry, Re!Request
<1>4. Re!UnconfirmedAreHarmless' /\ Re!IdsAreUnique'
  BY <1>1, <1>2 DEF Re!RestConsoleInv, Re!UnconfirmedAreHarmless, Re!IdsAreUnique, Re!OneEntryEach
<1>5. Re!NoneIsInDoubt'
  BY <1>1, <1>2 DEF Re!RestConsoleInv, Re!NoneIsInDoubt, Re!InDatabase
<1> QED
  BY <1>3, <1>4, <1>5 DEF Re!RestConsoleInv

LEMMA SaveFavStep ==
  ASSUME Re!RestConsoleInv, Re!SaveFav
  PROVE  Re!RestConsoleInv'
<1> DEFINE e == [id |-> v11 + 1, req |-> v5, fav |-> TRUE]
           s == {x \in v9 : x.id # e.id} \cup {e}
<1>1. e \in Re!Entry' /\ e.id = v11 + 1
  BY DEF Re!SaveFav, Re!RestConsoleInv, Re!TypeOK, Re!Entry
<1>2. Re!Written({e.id}, s) /\ v8' = v8 \cup {e}
  BY DEF Re!SaveFav, Re!Put
<1>3. \A x \in v8 \cup v9 \cup v7 : x.id # v11 + 1
  BY DEF Re!RestConsoleInv, Re!TypeOK, Re!Entry, Re!Request
<1>4. UNCHANGED <<v1, v2, v3, v4, v10, v5, v7, v12>> /\ v11' = v11 + 1
  BY DEF Re!SaveFav, Re!guard
<1> HIDE DEF e
<1>5. Re!NoneIsInDoubt' /\ v9' \in {v9, s}
  BY <1>1, <1>2, <1>3, <1>4, WrittenKeeps DEF Re!RestConsoleInv, Re!NoneIsInDoubt, Re!InDatabase
<1>6. /\ v11' \in Nat /\ v11' >= v11 /\ v5' \in {"read", "write"} /\ ~v12'
      /\ s \subseteq v9 \cup {e} /\ \A x \in s : x.id = e.id => x = e
  BY <1>4 DEF Re!RestConsoleInv, Re!TypeOK, Re!UnconfirmedAreHarmless
<1> HIDE DEF s
<1> QED
  BY <1>1, <1>2, <1>3, <1>4, <1>5, <1>6, HistoryStep

LEMMA StarStep ==
  ASSUME Re!RestConsoleInv, NEW e \in v8, Re!Star(e)
  PROVE  Re!RestConsoleInv'
<1> DEFINE y == [e EXCEPT !.fav = ~@]
           s == {x \in v9 : x.id # y.id} \cup {y}
<1>1. y \in Re!Entry /\ Re!Entry' = Re!Entry /\ y.id = e.id
  BY DEF Re!Star, Re!RestConsoleInv, Re!TypeOK, Re!Entry
<1>2. Re!Written({y.id}, s) /\ v8' = (v8 \ {e}) \cup {y}
  BY DEF Re!Star, Re!Put
<1>3. UNCHANGED <<v1, v2, v3, v4, v10, v5, v7, v11, v12>>
  BY DEF Re!Star, Re!guard
<1> HIDE DEF y
<1>4. \A x \in v8' : x.id = y.id => x = y
  BY <1>1, <1>2 DEF Re!RestConsoleInv, Re!IdsAreUnique, Re!OneEntryEach
<1>5. Re!NoneIsInDoubt' /\ v9' \in {v9, s}
  BY <1>2, <1>3, <1>4, WrittenKeeps DEF Re!RestConsoleInv, Re!NoneIsInDoubt, Re!InDatabase
<1>6. \A f \in v7' : f.id # y.id
  BY <1>1, <1>3 DEF Re!RestConsoleInv, Re!IdsAreUnique
<1>7. /\ v11' \in Nat /\ v11' >= v11 /\ v5' \in {"read", "write"} /\ ~v12'
      /\ s \subseteq v9 \cup {y} /\ \A x \in s : x.id = y.id => x = y
  BY <1>3 DEF Re!RestConsoleInv, Re!TypeOK, Re!UnconfirmedAreHarmless
<1> HIDE DEF s
<1> QED
  BY <1>1, <1>2, <1>3, <1>4, <1>5, <1>6, <1>7, HistoryStep

LEMMA DeleteStep ==
  ASSUME Re!RestConsoleInv, NEW e \in v8, Re!Delete(e)
  PROVE  Re!RestConsoleInv'
<1> DEFINE s == {x \in v9 : x.id # e.id}
<1>1. Re!Written({e.id}, s) /\ v8' = v8 \ {e}
  BY DEF Re!Delete
<1>2. UNCHANGED <<v1, v2, v3, v4, v10, v5, v7, v11, v12>>
  BY DEF Re!Delete, Re!guard
<1>3. \A x \in v8' : x.id # e.id
  BY <1>1 DEF Re!RestConsoleInv, Re!IdsAreUnique, Re!OneEntryEach
<1>4. Re!NoneIsInDoubt' /\ v9' \in {v9, s}
  BY <1>1, <1>2, <1>3, WrittenKeeps DEF Re!RestConsoleInv, Re!NoneIsInDoubt, Re!InDatabase
<1>5. e \in Re!Entry /\ Re!Entry' = Re!Entry /\ \A f \in v7' : f.id # e.id
  BY <1>2 DEF Re!RestConsoleInv, Re!TypeOK, Re!Entry, Re!IdsAreUnique
<1>6. /\ v11' \in Nat /\ v11' >= v11 /\ v5' \in {"read", "write"} /\ ~v12'
      /\ s \subseteq v9 \cup {e} /\ \A x \in s : x.id = e.id => x = e
  BY <1>2 DEF Re!RestConsoleInv, Re!TypeOK, Re!UnconfirmedAreHarmless
<1> HIDE DEF s
<1> QED
  BY <1>1, <1>2, <1>3, <1>4, <1>5, <1>6, HistoryStep

LEMMA ClearStep ==
  ASSUME Re!RestConsoleInv, Re!Clear
  PROVE  Re!RestConsoleInv'
<1>1. Re!Written({e.id : e \in v8 \cup v9}, Re!Favourites) /\ v8' = Re!Favourites
  BY DEF Re!Clear, Re!Favourites
<1>2. UNCHANGED <<v1, v2, v3, v4, v10, v5, v7, v11, v12>>
  BY DEF Re!Clear, Re!guard
<1>3. Re!Favourites \subseteq v8
  BY DEF Re!Favourites
<1>4. Re!NoneIsInDoubt' /\ v9' \in {v9, Re!Favourites}
  BY <1>1, <1>2, <1>3, WrittenKeeps
<1>5. Re!TypeOK' /\ Re!UnconfirmedAreHarmless'
  BY <1>1, <1>2, <1>3, <1>4 DEF Re!RestConsoleInv, Re!TypeOK, Re!UnconfirmedAreHarmless, Re!Entry, Re!Request
<1>6. Re!IdsAreUnique'
  BY <1>1, <1>2, <1>3, <1>4 DEF Re!RestConsoleInv, Re!IdsAreUnique, Re!OneEntryEach
<1> QED
  BY <1>4, <1>5, <1>6 DEF Re!RestConsoleInv

LEMMA RestConsoleStep ==
  ASSUME Re!RestConsoleInv, [Re!Next]_(Re!vars)
  PROVE  Re!RestConsoleInv'
<1>1. CASE Re!Switch \/ Re!Edit
  BY <1>1, NothingIsSent DEF Re!Switch, Re!Edit, Re!guard, Re!RestConsoleInv, Re!TypeOK
<1>2. ASSUME NEW e \in v8, Re!Load(e)
      PROVE  Re!RestConsoleInv'
  BY <1>2, NothingIsSent DEF Re!Load, Re!guard, Re!RestConsoleInv, Re!TypeOK, Re!Entry
<1>3. CASE UNCHANGED Re!vars
  BY <1>3, NothingIsSent DEF Re!vars, Re!log, Re!RestConsoleInv, Re!TypeOK
<1> QED
  BY <1>1, <1>2, <1>3, ReloadStep, RunStep, ListingStep, AnsweredStep, SaveFavStep, StarStep,
     DeleteStep, ClearStep DEF Re!Next

LEMMA RestConsoleHolds == Re!RestConsoleInv => Re!NoWriteSlipsBy /\ Re!FavouritesAreStored
BY DEF Re!RestConsoleInv, Re!UnconfirmedAreHarmless, Re!NoneIsInDoubt, Re!InDatabase, Re!NoWriteSlipsBy,
       Re!FavouritesAreStored

-----------------------------------------------------------------------------
(* SnapshotPage *)

LEMMA SnapshotPageInit == Sp!Init => Sp!SnapshotPageInv
BY DEF Sp!Init, Sp!SnapshotPageInv, Sp!RepoInv, Sp!RowsInv, Sp!DialogInv, Sp!RemovingInv

\* The range the page gives holds the day of every index it lists by name.
LEMMA RangeHolds ==
  ASSUME Sp!RowsInv, NEW r \in v4, r.names # None, NEW i \in r.names
  PROVE  Sp!From <= i /\ i <= Sp!To
<1>1. Sp!Named \in SUBSET DailyIndex /\ i \in Sp!Named
  BY DEF Sp!Named, Sp!RowsInv
<1>2. Sp!Named \in SUBSET Nat /\ IsFiniteSet(Sp!Named) /\ Sp!Named # {}
  BY <1>1, SnapshotPageAssumption, FS_Subset
<1>3. \A y \in Sp!Named : Sp!From <= y
  BY <1>2, Least DEF Sp!From
<1>4. \A y \in Sp!Named : y <= Sp!To
  BY <1>2, Greatest DEF Sp!To
<1> QED
  BY <1>1, <1>3, <1>4

LEMMA SnapshotPageHolds == Sp!SnapshotPageInv => Sp!FreedCanBeFound
<1> SUFFICES ASSUME Sp!SnapshotPageInv PROVE Sp!FreedCanBeFound
  OBVIOUS
<1> QED
  BY RangeHolds DEF Sp!FreedCanBeFound, Sp!SnapshotPageInv, Sp!InSnapshot, Sp!RepoInv

\* However the repository moves on and the page reads it, what was in a snapshot stays there.
LEMMA StaysInSnapshot ==
  ASSUME Sp!RepoInv, Sp!RowsInv, Sp!RepoInv', v10 <= v10',
         \A t \in v2' : \/ \E s \in v2 : s.id = t.id /\ s.holds = t.holds
                        \/ t.id = v10' /\ v10' = v10 + 1,
         v4' = v4 \/ v4' \in Sp!Listing(v2')
  PROVE  Sp!RowsInv' /\ \A id, those : Sp!InSnapshot(id, those) => Sp!InSnapshot(id, those)'
<1>1. \A n \in 1..v10 : n \in 1..v10' /\ (v10' = v10 + 1 => n # v10')
  BY DEF Sp!RepoInv
<1>2. CASE v4' = v4
  BY <1>1, <1>2 DEF Sp!RowsInv, Sp!InSnapshot
<1>3. CASE v4' \in Sp!Listing(v2')
  <2>1. \A r \in v4' : \E t \in v2' : r.id = t.id /\ (r.names # None => r.names = t.holds)
    BY <1>3 DEF Sp!Listing
  <2>2. Sp!RowsInv'
    BY <2>1 DEF Sp!RowsInv, Sp!RepoInv, Sp!Snapshot
  <2> QED
    BY <1>1, <2>1, <2>2 DEF Sp!InSnapshot
<1> QED
  BY <1>2, <1>3

Onward ==
  /\ Sp!RepoInv' /\ v10 <= v10'
  /\ \A t \in v2' : \/ \E s \in v2 : s.id = t.id /\ s.holds = t.holds
                    \/ t.id = v10' /\ v10' = v10 + 1

LEMMA RepoGoesOn == ASSUME Sp!SnapshotPageInv, [Sp!Next]_(Sp!vars) PROVE Onward
<1> USE DEF Sp!SnapshotPageInv, Sp!RepoInv, Sp!Snapshot, Onward
<1>1. ASSUME NEW names \in SUBSET DailyIndex, Sp!Taking(names), UNCHANGED v1
      PROVE  Onward
  BY <1>1 DEF Sp!Taking
<1>2. CASE Sp!World
  <2>1. CASE Sp!Taking(v1) /\ UNCHANGED v1
    BY <1>1, <2>1
  <2>2. ASSUME NEW s \in v2, s.status = "IN_PROGRESS", NEW w \in {s.holds, {}}, UNCHANGED <<v1, v10>>,
               v2' = (v2 \ {s}) \cup
                  {[s EXCEPT !.whole = w, !.status = IF w = s.holds THEN "SUCCESS" ELSE "PARTIAL"]}
        PROVE  Onward
    <3>1. PICK t \in Sp!Snapshot : /\ t.id = s.id /\ t.holds = s.holds /\ (t.status = "SUCCESS" => t.whole = t.holds)
                                   /\ v2' = (v2 \ {s}) \cup {t}
      BY <2>2
    <3> QED
      BY <2>2, <3>1
  <2>3. CASE \E s \in v2 : v2' = v2 \ {s} /\ UNCHANGED <<v1, v10>>
    BY <2>3
  <2>4. CASE \E i \in DailyIndex \ v1 : v1' = v1 \cup {i} /\ UNCHANGED <<v2, v10>>
    BY <2>4
  <2> QED
    BY <1>2, <2>1, <2>2, <2>3, <2>4 DEF Sp!World
<1>3. CASE Sp!Create
  BY <1>1, <1>3 DEF Sp!Create
<1>4. CASE Sp!Restore
  <2>1. v1' \subseteq DailyIndex
    BY <1>4 DEF Sp!Restore, Sp!Kept
  <2> QED
    BY <1>4, <2>1 DEF Sp!Restore
<1>5. CASE Sp!FreeOne \/ Sp!Register
  <2>1. v1' \subseteq v1
    BY <1>5 DEF Sp!FreeOne, Sp!Register
  <2>2. UNCHANGED <<v2, v10>>
    BY <1>5 DEF Sp!FreeOne, Sp!Register
  <2> QED
    BY <2>1, <2>2
<1>6. CASE Sp!Delete
  BY <1>6 DEF Sp!Delete
<1> QED
  BY <1>2, <1>3, <1>4, <1>5, <1>6
     DEF Sp!Next, Sp!vars, Sp!cluster, Sp!Reload, Sp!Choose, Sp!OpenDialog, Sp!Pick, Sp!Free, Sp!Freed, Sp!Dismiss

LEMMA RowsGoOn ==
  ASSUME Sp!SnapshotPageInv, [Sp!Next]_(Sp!vars)
  PROVE  Sp!RowsInv' /\ \A id, those : Sp!InSnapshot(id, those) => Sp!InSnapshot(id, those)'
<1>1. v4' = v4 \/ v4' \in Sp!Shown
  BY DEF Sp!Next, Sp!vars, Sp!page, Sp!World, Sp!Reload, Sp!Choose, Sp!OpenDialog, Sp!Pick, Sp!Create, Sp!Restore, Sp!Free, Sp!FreeOne, Sp!Freed, Sp!Dismiss, Sp!Delete, Sp!Register
<1>2. v4' = v4 \/ v4' \in Sp!Listing(v2')
  BY <1>1 DEF Sp!Shown, Sp!Listing
<1> QED
  BY <1>2, RepoGoesOn, StaysInSnapshot DEF Sp!SnapshotPageInv, Onward

LEMMA FreesOne ==
  ASSUME Sp!RemovingInv, Sp!FreeOne
  PROVE  \E i, id, todo, rest :
           /\ v8' = v8 \/ v8' = v8 \cup {[index |-> i, snap |-> id]}
           /\ v7.snap = id /\ v7.todo = todo /\ i \in todo /\ rest \subseteq todo
           /\ v7'.snap = id /\ v7'.todo = rest /\ DOMAIN v7' = DOMAIN v7
<1>1. PICK i \in v7.todo :
        /\ v8' = v8 \/ v8' = v8 \cup {[index |-> i, snap |-> v7.snap]}
        /\ v7'.snap = v7.snap /\ v7'.todo \subseteq v7.todo
        /\ DOMAIN v7' = DOMAIN v7
  BY DEF Sp!RemovingInv, Sp!FreeOne
<1> QED
  BY <1>1

LEMMA SnapshotPageStep == ASSUME Sp!SnapshotPageInv, [Sp!Next]_(Sp!vars) PROVE Sp!SnapshotPageInv'
<1>1. /\ Sp!RepoInv' /\ Sp!RowsInv'
      /\ \A id, those : Sp!InSnapshot(id, those) => Sp!InSnapshot(id, those)'
      /\ \A id, those, fewer : Sp!InSnapshot(id, those)' /\ fewer \subseteq those => Sp!InSnapshot(id, fewer)'
  BY RepoGoesOn, RowsGoOn DEF Onward, Sp!InSnapshot
<1> USE <1>1 DEF Sp!SnapshotPageInv, Sp!DialogInv, Sp!RemovingInv
<1>2. CASE Sp!World \/ Sp!Reload \/ Sp!Choose \/ Sp!Delete \/ Sp!Register \/ UNCHANGED Sp!vars
  <2>1. UNCHANGED <<v6, v7, v8, v9>>
    BY <1>2 DEF Sp!World, Sp!Reload, Sp!Choose, Sp!Delete, Sp!Register, Sp!page, Sp!vars
  <2> QED
    BY <2>1
<1>3. CASE Sp!OpenDialog
  <2>1. CASE Sp!OpenCreate \/ \E r \in v4 : Sp!OpenRestore(r)
    BY <1>3, <2>1 DEF Sp!OpenDialog, Sp!OpenCreate, Sp!OpenRestore, Sp!Open
  <2>2. ASSUME NEW r \in v4, Sp!OpenFree(r)
        PROVE  Sp!DialogInv'
    <3>1. PICK x \in v2, there \in {v1, {}} : x.id = r.id /\ Sp!Open("free", r.id, Sp!Offers(x.holds, there))
      BY <2>2 DEF Sp!OpenFree, Sp!Kept
    <3>2. Sp!InSnapshot(r.id, x.holds)
      BY <3>1 DEF Sp!InSnapshot, Sp!RepoInv, Sp!RowsInv
    <3>3. Sp!InSnapshot(r.id, Sp!Offers(x.holds, there))'
      BY <3>2 DEF Sp!Offers
    <3> QED
      BY <3>1, <3>3 DEF Sp!Open
  <2> QED
    BY <1>3, <2>1, <2>2 DEF Sp!OpenDialog
<1>4. CASE Sp!Pick
  BY <1>4 DEF Sp!Pick, Sp!cluster
<1>5. CASE Sp!Create \/ Sp!Restore
  BY <1>5 DEF Sp!Create, Sp!Restore, Sp!Answered, Sp!Ready, Sp!Meant
<1>6. CASE Sp!Free
  BY <1>6 DEF Sp!Free, Sp!cluster
<1>7. CASE Sp!FreeOne
  <2>1. UNCHANGED <<v6, v9>>
    BY <1>7 DEF Sp!FreeOne
  <2>2. PICK i, id, todo, rest :
          /\ v8' = v8 \/ v8' = v8 \cup {[index |-> i, snap |-> id]}
          /\ v7.snap = id /\ v7.todo = todo /\ i \in todo /\ rest \subseteq todo
          /\ v7'.snap = id /\ v7'.todo = rest /\ DOMAIN v7' = DOMAIN v7
    BY <1>7, FreesOne
  <2>3. Sp!InSnapshot(id, rest)' /\ Sp!InSnapshot(id, {i})'
    <3>1. Sp!InSnapshot(id, todo)
      BY <1>7, <2>2 DEF Sp!FreeOne
    <3>2. Sp!InSnapshot(id, todo)' /\ {i} \subseteq todo
      BY <2>2, <3>1
    <3> QED
      BY <2>2, <3>2
  <2>4. Sp!RemovingInv'
    BY <1>7, <2>2 DEF Sp!FreeOne
  <2>5. ASSUME NEW f \in v8'
        PROVE  Sp!InSnapshot(f.snap, {f.index})'
    <3>1. CASE f.snap = id /\ f.index = i
      BY <2>3, <3>1 DEF Sp!InSnapshot
    <3>2. f \in v8 \/ (f.snap = id /\ f.index = i)
      BY <2>2
    <3> QED
      BY <3>1, <3>2
  <2> QED
    BY <2>1, <2>4, <2>5
<1>8. CASE Sp!Freed \/ Sp!Dismiss
  BY <1>8 DEF Sp!Freed, Sp!Dismiss, Sp!Busy
<1> QED
  BY <1>2, <1>3, <1>4, <1>5, <1>6, <1>7, <1>8 DEF Sp!Next

-----------------------------------------------------------------------------
(* Settings *)

LEMMA SettingsCounts == (\A S : St!Cardinality(S) = Cardinality(S)) /\ (\A S : St!IsFiniteSet(S) = IsFiniteSet(S))
BY DEF IsFiniteSet, St!IsFiniteSet, Cardinality, St!Cardinality

\* What has fewer than Keep newer ones after the oldest were trimmed had as many before.
LEMMA TrimKeeps ==
  ASSUME NEW S \in SUBSET St!Version, IsFiniteSet(S), NEW n \in Nat, \A v \in S : v.at <= n,
         NEW a \in Nat, St!Cardinality({v \in St!Trim(S) : v.at > a}) < Keep
  PROVE  {v \in S : v.at > a} \subseteq St!Trim(S)
<1> DEFINE Newer(x) == {v \in S : v.at > x}
           D == {v \in Newer(a) : v \notin St!Trim(S)}
           at == {v.at : v \in D}
<1>1. \A v \in S : v.at \in Nat /\ v.at <= n
  BY DEF St!Version
<1>2. \A v \in S : v \in St!Trim(S) <=> Cardinality(Newer(v.at)) < Keep
  BY SettingsCounts DEF St!Trim
<1>3. CASE D # {}
  <2>1. at \in SUBSET Nat /\ at # {} /\ \A x \in at : x <= n
    BY <1>1, <1>3
  <2> HIDE DEF at
  <2>2. PICK m \in at : \A y \in at : y <= m
    BY <2>1, FS_BoundedSetOfNaturals, Greatest
  <2>3. PICK w \in D : m = w.at
    BY DEF at
  <2>4. \A v \in D : v.at <= w.at
    BY <2>2, <2>3 DEF at
  <2>5. Newer(w.at) \subseteq {v \in St!Trim(S) : v.at > a}
    <3> SUFFICES ASSUME NEW v \in S, v.at > w.at PROVE v \in St!Trim(S) /\ v.at > a
      OBVIOUS
    <3>1. w \in S /\ w.at > a /\ w.at \in Nat /\ v.at \in Nat
      BY <1>1
    <3>2. v.at > a
      BY <3>1
    <3>3. v \notin D
      BY <2>4, <3>1
    <3> QED
      BY <3>2, <3>3
  <2>6. IsFiniteSet({v \in St!Trim(S) : v.at > a})
    BY FS_Subset DEF St!Trim
  <2> DEFINE B == {v \in St!Trim(S) : v.at > a}
             G == Newer(w.at)
  <2>7. Cardinality(B) < Keep
    BY SettingsCounts
  <2> HIDE DEF B, G
  <2>8. Cardinality(G) <= Cardinality(B) /\ Cardinality(G) \in Nat /\ Cardinality(B) \in Nat
    BY <2>5, <2>6, FS_Subset, FS_CardinalityType DEF B, G
  <2>9. w \in St!Trim(S)
    BY <1>2, <2>7, <2>8, SettingsAssumption DEF G
  <2> QED
    BY <2>9
<1> QED
  BY <1>3

\* Whatever comes of a snapshot, what was kept before still is.
LEMMA SnapshotKeeps ==
  ASSUME St!FileInv, NEW a \in Nat, a <= v2, NEW b \in Nat, St!Kept(a, b), v2' = v2,
         NEW what \in Nat \cup {None}, v5' \in {St!Trim(St!With(what)), St!With(what)},
         v11' = IF \E v \in v5 : v.at = v2 THEN v11 \cup {v2} ELSE v11
  PROVE  St!Kept(a, b)'
<1> DEFINE new == [at |-> v2, of |-> what]
           S == {v \in v5 : v.at # v2} \cup {new}
           M == {v \in v5 : v.at > a}
           N == {v \in S : v.at > a}
           B == {v \in v5' : v.at > a}
<1>0. S = St!With(what) /\ St!Trim(S) \subseteq S
  BY DEF St!With, St!Trim
<1>1. SUFFICES ASSUME a \notin v11', Cardinality(B) < Keep PROVE [at |-> a, of |-> b] \in v5'
  BY SettingsCounts DEF St!Kept
<1>2. v2 \in Nat /\ new \in St!Version /\ new.at = v2
  BY DEF St!FileInv, St!Version
<1>3. S \in SUBSET St!Version /\ IsFiniteSet(S) /\ \A v \in S : v.at \in Nat /\ v.at <= v2
  <2>1. IsFiniteSet({v \in v5 : v.at # v2})
    BY SettingsCounts, FS_Subset DEF St!FileInv
  <2>2. IsFiniteSet(S)
    BY <2>1, FS_AddElement
  <2>3. \A v \in v5 : v \in St!Version /\ v.at \in Nat /\ v.at <= v2
    BY DEF St!FileInv, St!Version
  <2> QED
    BY <1>2, <2>2, <2>3
<1>4. a \notin v11
  BY <1>1
<1>5. CASE a = v2
  <2>1. \A v \in v5 : v.at # v2
    BY <1>1, <1>5
  <2>2. M = {}
    <3>1. \A v \in v5 : ~(v.at > v2)
      BY DEF St!FileInv, St!Version
    <3> QED
      BY <1>5, <3>1
  <2>3. St!Cardinality({v \in v5 : v.at > a}) < Keep
    <3>1. Cardinality(M) = 0
      BY <2>2, FS_EmptySet
    <3>2. Cardinality(B) \in Nat
      <4>1. IsFiniteSet(B)
        BY <1>0, <1>3, FS_Subset
      <4> QED
        BY <4>1, FS_CardinalityType
    <3>3. Cardinality(M) < Keep
      BY <1>1, <3>1, <3>2, SettingsAssumption
    <3> QED
      BY <3>3, SettingsCounts
  <2>4. [at |-> a, of |-> b] \in v5
    BY <1>4, <2>3 DEF St!Kept
  <2> QED
    BY <1>5, <2>1, <2>4
<1>6. CASE a < v2
  <2>1. N \subseteq v5'
    <3>1. CASE v5' = S
      BY <3>1
    <3>2. CASE v5' = St!Trim(S)
      <4>1. St!Cardinality({v \in St!Trim(S) : v.at > a}) < Keep
        BY <1>1, <3>2, SettingsCounts
      <4> HIDE DEF S
      <4>2. N \subseteq St!Trim(S)
        BY <1>2, <1>3, <4>1, TrimKeeps
      <4> QED
        BY <3>2, <4>2
    <3> QED
      BY <1>0, <3>1, <3>2
  <2>2. N = B
    BY <1>0, <2>1
  <2>3. IsFiniteSet(N) /\ Cardinality(N) \in Nat /\ Cardinality(N) < Keep
    <3>1. IsFiniteSet(N)
      BY <1>3, FS_Subset
    <3> QED
      BY <1>1, <2>2, <3>1, FS_CardinalityType
  <2> DEFINE g == [v \in M |-> IF v.at = v2 THEN new ELSE v]
  <2>4. g \in Injection(M, N)
    <3>1. \A v, w \in M : g[v] = g[w] => v = w
      <4>1. \A v, w \in v5 : v.at = w.at => v = w
        BY DEF St!FileInv
      <4> QED
        BY <4>1
    <3> QED
      BY <3>1 DEF Injection, IsInjective
  <2>5. Cardinality(M) <= Cardinality(N) /\ Cardinality(M) \in Nat
    BY <2>3, <2>4, FS_Injection, FS_CardinalityType
  <2>6. St!Cardinality({v \in v5 : v.at > a}) < Keep
    <3>1. Cardinality(M) < Keep
      BY <2>3, <2>5, SettingsAssumption
    <3> QED
      BY <3>1, SettingsCounts
  <2> DEFINE r == [at |-> a, of |-> b]
  <2>7. r \in v5
    BY <1>4, <2>6 DEF St!Kept
  <2>8. r \in S /\ r.at = a
    BY <1>6, <2>7
  <2>9. St!Cardinality({w \in S : w.at > a}) < Keep
    BY <2>3, SettingsCounts
  <2> HIDE DEF S
  <2>10. r \in St!Trim(S)
    BY <2>8, <2>9 DEF St!Trim
  <2> QED
    BY <1>0, <2>8, <2>10
<1> QED
  BY <1>2, <1>5, <1>6

LEMMA SettingsInit == St!Init => St!FileInv /\ St!SaveInv /\ St!ScheduleInv
<1> SUFFICES ASSUME St!Init PROVE St!FileInv /\ St!SaveInv /\ St!ScheduleInv
  OBVIOUS
<1>1. /\ v2 = 1 /\ v3 = 0 /\ v4 = None /\ v5 = {} /\ v6 = 0 /\ v8 = 0
      /\ v9 = [u \in 1..2 |-> None] /\ v10 = {}
      /\ v13 = [enabled |-> FALSE, to |-> None, clusters |-> {}] /\ v18 = None
  BY DEF St!Init
<1>2. St!FileInv
  BY <1>1, SettingsCounts, FS_EmptySet DEF St!FileInv
<1>3. St!SaveInv /\ St!ScheduleInv
  BY <1>1 DEF St!SaveInv, St!ScheduleInv
<1> QED
  BY <1>2, <1>3

LEMMA ScheduleStep == ASSUME St!ScheduleInv, [St!Next]_(St!vars) PROVE St!ScheduleInv'
<1> USE DEF St!ScheduleInv
<1>1. CASE St!Save
  BY <1>1 DEF St!Save, St!Ready, St!Refusal
<1>2. CASE St!WrittenByHand
  <2>1. v18' = None /\ v13'.to \in Cluster
    BY <1>2 DEF St!WrittenByHand
  <2> QED
    BY <2>1, SettingsAssumption
<1>3. St!File \/ UNCHANGED St!vars => UNCHANGED <<v13, v18>>
  BY DEF St!File, St!UploadConfig, St!Restore, St!Toggle, St!Begin, St!Refused, St!Write, St!WriteTmp, St!Rename, St!ReadBack, St!Reload,
         St!EditedByHand, St!SecondPasses, St!sinkVars, St!vars
<1>4. St!LoadSink \/ St!Landed \/ St!OnData \/ St!Edit \/ St!Clusters \/ (\E s \in {"file", "schedule"} : St!Open(s))
        => UNCHANGED <<v13, v18>>
  BY DEF St!LoadSink, St!Landed, St!OnData, St!Edit, St!Clusters, St!Open
<1> QED
  BY <1>1, <1>2, <1>3, <1>4 DEF St!Next, St!Schedule

\* What the other half does touches nothing of the file.
LEMMA FileStays == ASSUME St!FileInv, St!SaveInv, UNCHANGED St!fileVars PROVE St!FileInv' /\ St!SaveInv'
<1>1. /\ v2' = v2 /\ v3' = v3 /\ v4' = v4 /\ v5' = v5 /\ v6' = v6
      /\ v8' = v8 /\ v9' = v9 /\ v10' = v10 /\ v11' = v11
  BY DEF St!fileVars
<1>2. \A a, b : St!Kept(a, b)' <=> St!Kept(a, b)
  BY <1>1 DEF St!Kept
<1> QED
  BY <1>1, <1>2 DEF St!FileInv, St!SaveInv

LEMMA SavesRun ==
  /\ \A s \in St!Stage, c \in Nat, a \in Nat, b \in BOOLEAN :
       [st |-> s, of |-> c, at |-> a, alone |-> b] \in St!Running
  /\ "applied" \in St!Stage /\ "kept" \in St!Stage /\ "written" \in St!Stage /\ "renamed" \in St!Stage
<1>1. \A s \in St!Stage, c \in Nat, a \in Nat, b \in BOOLEAN :
        [st |-> s, of |-> c, at |-> a, alone |-> b] \in St!Running
  BY DEF St!Running
<1>2. "applied" \in St!Stage /\ "kept" \in St!Stage /\ "written" \in St!Stage /\ "renamed" \in St!Stage
  BY Zenon DEF St!Stage
<1> QED
  BY <1>1, <1>2

Moved(q, s, c, a) == [q EXCEPT !.st = s, !.of = c, !.at = a]

LEMMA SaveMoves ==
  ASSUME NEW q \in St!Running, NEW s \in St!Stage, NEW c \in Nat, NEW a \in Nat
  PROVE  /\ Moved(q, s, c, a) \in St!Running /\ Moved(q, s, c, a).st = s /\ Moved(q, s, c, a).of = c
         /\ Moved(q, s, c, a).at = a /\ Moved(q, s, c, a).alone = q.alone
BY DEF St!Running, Moved

\* A save that begins, or a hand that edits the file, leaves no save alone but the one.
LEMMA OthersAreCrossed ==
  ASSUME NEW st \in [1..2 -> {None} \cup St!Running], NEW u
  PROVE  /\ St!Others(u, st) \in [1..2 -> {None} \cup St!Running]
         /\ \A v \in 1..2 : v = u => St!Others(u, st)[v] = st[v]
         /\ \A v \in 1..2 : v # u /\ St!Others(u, st)[v] # None => St!Others(u, st)[v].alone = FALSE
         /\ \A v \in 1..2 : st[v] = None => St!Others(u, st)[v] = None
<1>1. \A v \in 1..2 : st[v] # None =>
        /\ st[v] \in St!Running /\ [st[v] EXCEPT !.alone = FALSE] \in St!Running
        /\ [st[v] EXCEPT !.alone = FALSE].alone = FALSE
  BY DEF St!Running
<1> QED
  BY <1>1 DEF St!Others

LEMMA BeginStep ==
  ASSUME St!FileInv, St!SaveInv, NEW u \in 1..2, NEW c \in Nat, St!Begin(u, c)
  PROVE  St!FileInv' /\ St!SaveInv'
<1> DEFINE all == \A v \in 1..2 : v9[v] = None
           r == [st |-> "applied", of |-> c, at |-> 0, alone |-> all]
           st == [v9 EXCEPT ![u] = r]
<1>1. /\ v9[u] = None /\ v8' = v8 + 1 /\ v6' = c /\ v9' = St!Others(u, st)
      /\ v2' = v2 /\ v3' = v3 /\ v4' = v4 /\ v5' = v5
      /\ v10' = v10 /\ v11' = v11
  BY DEF St!Begin
<1>2. r \in St!Running /\ r.st = "applied" /\ r.alone = all
  <2>1. \A b \in BOOLEAN : [st |-> "applied", of |-> c, at |-> 0, alone |-> b] \in St!Running
    BY SavesRun DEF St!FileInv
  <2>2. all \in BOOLEAN
    BY Zenon
  <2> HIDE DEF all
  <2> QED
    BY <2>1, <2>2
<1>3. st \in [1..2 -> {None} \cup St!Running] /\ st[u] = r /\ \A v \in 1..2 : v # u => st[v] = v9[v]
  BY <1>2 DEF St!FileInv
<1> HIDE DEF r, st, all
<1>4. /\ v9' \in [1..2 -> {None} \cup St!Running] /\ v9'[u] = r
      /\ \A v \in 1..2 : v # u /\ v9'[v] # None => v9'[v].alone = FALSE
      /\ \A v \in 1..2 : v # u /\ v9[v] = None => v9'[v] = None
  <2>1. /\ St!Others(u, st) \in [1..2 -> {None} \cup St!Running]
        /\ \A v \in 1..2 : v = u => St!Others(u, st)[v] = st[v]
        /\ \A v \in 1..2 : v # u /\ St!Others(u, st)[v] # None => St!Others(u, st)[v].alone = FALSE
        /\ \A v \in 1..2 : st[v] = None => St!Others(u, st)[v] = None
    BY <1>3, OthersAreCrossed, Zenon
  <2> QED
    BY <1>1, <1>3, <2>1
<1>5. \A a, b : St!Kept(a, b)' <=> St!Kept(a, b)
  BY <1>1 DEF St!Kept
<1>6. St!FileInv'
  BY <1>1, <1>4, <1>5 DEF St!FileInv
<1>7. St!SaveInv'
  <2> SUFFICES ASSUME NEW v \in 1..2, v9'[v] # None, v9'[v].alone
               PROVE  /\ \A w \in 1..2 : w # v => v9'[w] = None
                      /\ v9'[v].st = "applied"
    BY DEF St!SaveInv
  <2>1. \A w \in 1..2 : v9[w] = None
    BY <1>2, <1>4 DEF all
  <2> QED
    BY <1>2, <1>4, <2>1
<1> QED
  BY <1>6, <1>7

\* A step of save u that only changes what it is at.
LEMMA WriteStep ==
  ASSUME St!FileInv, St!SaveInv, NEW u \in 1..2, St!Write(u)
  PROVE  St!FileInv' /\ St!SaveInv'
<1>1. PICK kept \in BOOLEAN :
      /\ St!Snapshot(kept, v5')
      /\ v9' = [v9 EXCEPT ![u].st = "kept", ![u].of = v6,
                          ![u].at = IF kept THEN v2 ELSE 0]
  BY DEF St!Write
<1> DEFINE at == IF kept THEN v2 ELSE 0
           r == [v9[u] EXCEPT !.st = "kept", !.of = v6, !.at = at]
<1>2. /\ v9[u] # None /\ v9[u].st = "applied" /\ v9' = [v9 EXCEPT ![u] = r]
      /\ v11' = IF \E v \in v5 : v.at = v2 THEN v11 \cup {v2} ELSE v11
      /\ v2' = v2 /\ v3' = v3 /\ v4' = v4 /\ v6' = v6 /\ v8' = v8
      /\ v10' = v10
  BY <1>1 DEF St!Write
<1>3. v9[u] \in St!Running /\ v2 \in Nat /\ v6 \in Nat /\ v3 \in Nat /\ at \in Nat
  BY <1>2 DEF St!FileInv
<1> HIDE DEF at
<1>4. r \in St!Running /\ r.st = "kept" /\ r.at = at /\ r.alone = v9[u].alone
  <2>1. "kept" \in St!Stage
    BY SavesRun
  <2> DEFINE m == Moved(v9[u], "kept", v6, at)
  <2>2. m \in St!Running /\ m.st = "kept" /\ m.at = at /\ m.alone = v9[u].alone
    BY <1>3, <2>1, SaveMoves
  <2> QED
    BY <2>2 DEF Moved
<1> HIDE DEF r
<1>5. /\ v9' \in [1..2 -> {None} \cup St!Running] /\ v9'[u] = r
      /\ \A v \in 1..2 : v # u => v9'[v] = v9[v]
  BY <1>2, <1>4 DEF St!FileInv
<1>6. \/ v5' = v5
      \/ \E what \in Nat \cup {None} : v5' \in {St!Trim(St!With(what)), St!With(what)}
  BY <1>1, <1>3 DEF St!Snapshot
<1>7. ASSUME NEW what \in Nat \cup {None}
      PROVE  /\ St!With(what) \subseteq St!Version /\ IsFiniteSet(St!With(what))
             /\ \A v, w \in St!With(what) : v.at <= v2 /\ (v.at = w.at => v = w)
  <2> DEFINE new == [at |-> v2, of |-> what]
  <2>1. new \in St!Version /\ new.at = v2
    BY <1>3 DEF St!Version
  <2>2. St!With(what) \subseteq St!Version /\ \A v, w \in St!With(what) : v.at <= v2 /\ (v.at = w.at => v = w)
    BY <1>3, <2>1 DEF St!FileInv, St!With
  <2>3. IsFiniteSet({v \in v5 : v.at # v2})
    BY SettingsCounts, FS_Subset DEF St!FileInv
  <2> QED
    BY <2>2, <2>3, FS_AddElement DEF St!With
<1>8. /\ v5' \subseteq St!Version /\ IsFiniteSet(v5')
      /\ \A v, w \in v5' : v.at <= v2 /\ (v.at = w.at => v = w)
  <2>1. CASE v5' = v5
    BY <2>1, SettingsCounts DEF St!FileInv
  <2>2. ASSUME NEW what \in Nat \cup {None}, v5' \in {St!Trim(St!With(what)), St!With(what)}
        PROVE  /\ v5' \subseteq St!Version /\ IsFiniteSet(v5')
               /\ \A v, w \in v5' : v.at <= v2 /\ (v.at = w.at => v = w)
    <3>1. v5' \subseteq St!With(what)
      BY <2>2 DEF St!Trim
    <3> QED
      BY <1>7, <3>1, FS_Subset
  <2> QED
    BY <1>6, <2>1, <2>2
<1>9. ASSUME NEW a \in Nat, a <= v2, NEW b \in Nat, St!Kept(a, b) PROVE St!Kept(a, b)'
  <2>1. CASE v5' = v5
    BY <1>2, <1>9, <2>1 DEF St!Kept
  <2> QED
    BY <1>2, <1>6, <1>9, <2>1, SnapshotKeeps
<1>10. St!FileInv'
  <2>1. \A q \in v10 : q.at \in Nat /\ q.was \in Nat /\ q.at <= v2 /\ St!Kept(q.at, q.was)
    BY DEF St!FileInv
  <2>2. \A q \in v10' : q.at <= v2' /\ St!Kept(q.at, q.was)'
    BY <1>2, <1>9, <2>1
  <2> QED
    BY <1>2, <1>5, <1>8, <2>2, SettingsCounts DEF St!FileInv
<1>11. kept => St!Kept(v2, v3)'
  <2> SUFFICES ASSUME kept PROVE St!Kept(v2, v3)'
    OBVIOUS
  <2> DEFINE new == [at |-> v2, of |-> v3]
             S == St!With(v3)
  <2>1. v5' = St!Trim(S) /\ new \in S
    BY <1>1 DEF St!Snapshot, St!With
  <2>2. {w \in S : w.at > v2} = {}
    <3>1. \A w \in S : w.at \in Nat /\ w.at <= v2
      BY <1>3, <1>7 DEF St!Version
    <3>2. \A w \in S : ~(w.at > v2)
      BY <1>3, <3>1
    <3> HIDE DEF S
    <3> QED
      BY <3>2
  <2>3. Cardinality({w \in S : w.at > v2}) = 0
    BY <2>2, FS_EmptySet
  <2>4. Keep # 0 => new \in v5'
    <3>1. Keep # 0 => Cardinality({w \in S : w.at > new.at}) < Keep
      BY <2>3, SettingsAssumption
    <3> HIDE DEF S, new
    <3> QED
      BY <2>1, <3>1, SettingsCounts DEF St!Trim
  <2>5. ~(Cardinality({v \in v5' : v.at > v2}) < 0)
    <3>1. IsFiniteSet({v \in v5' : v.at > v2})
      BY <1>8, FS_Subset
    <3> QED
      BY <3>1, FS_CardinalityType
  <2> QED
    BY <1>2, <2>4, <2>5, SettingsCounts DEF St!Kept
<1>12. St!SaveInv'
  <2> SUFFICES ASSUME NEW v \in 1..2, v9'[v] # None, v9'[v].alone
               PROVE  /\ \A w \in 1..2 : w # v => v9'[w] = None
                      /\ v9'[v].at # 0 => v9'[v].at <= v2' /\ \A a : a = v9'[v].at => St!Kept(a, v3)'
                      /\ v9'[v].st = "written" => v4' = v9'[v].of
                      /\ v9'[v].st = "renamed" => v3' = v9'[v].of
    BY DEF St!SaveInv
  <2>1. v = u
    BY <1>2, <1>5 DEF St!SaveInv
  <2>2. \A w \in 1..2 : w # v => v9'[w] = None
    BY <1>2, <1>4, <1>5, <2>1 DEF St!SaveInv
  <2>3. at # 0 => kept /\ at = v2
    BY DEF at
  <2> QED
    BY <1>2, <1>3, <1>4, <1>5, <1>11, <2>1, <2>2, <2>3
<1> QED
  BY <1>10, <1>12

Advanced(q, s) == [q EXCEPT !.st = s]

LEMMA SaveGoesOn ==
  ASSUME NEW q \in St!Running, NEW s \in St!Stage
  PROVE  /\ Advanced(q, s) \in St!Running /\ Advanced(q, s).st = s /\ Advanced(q, s).of = q.of
         /\ Advanced(q, s).at = q.at /\ Advanced(q, s).alone = q.alone
BY DEF St!Running, Advanced

LEMMA WriteTmpStep ==
  ASSUME St!FileInv, St!SaveInv, NEW u \in 1..2, St!WriteTmp(u)
  PROVE  St!FileInv' /\ St!SaveInv'
<1> DEFINE r == Advanced(v9[u], "written")
<1>1. /\ v9[u] # None /\ v9[u].st = "kept" /\ v4' = v9[u].of /\ v9' = [v9 EXCEPT ![u] = r]
      /\ v2' = v2 /\ v3' = v3 /\ v5' = v5 /\ v6' = v6
      /\ v8' = v8 /\ v10' = v10 /\ v11' = v11
  BY DEF St!WriteTmp, Advanced
<1>2. v9[u] \in St!Running /\ v9[u].of \in Nat
  BY <1>1 DEF St!FileInv, St!Running
<1>3. /\ r \in St!Running /\ r.st = "written" /\ r.of = v9[u].of
      /\ r.at = v9[u].at /\ r.alone = v9[u].alone
  BY <1>2, SaveGoesOn, SavesRun
<1> HIDE DEF r
<1>4. /\ v9' \in [1..2 -> {None} \cup St!Running] /\ v9'[u] = r
      /\ \A v \in 1..2 : v # u => v9'[v] = v9[v]
  BY <1>1, <1>3 DEF St!FileInv
<1>5. \A a, b : St!Kept(a, b)' <=> St!Kept(a, b)
  BY <1>1 DEF St!Kept
<1>6. St!FileInv'
  BY <1>1, <1>2, <1>4, <1>5 DEF St!FileInv
<1>7. St!SaveInv'
  <2> SUFFICES ASSUME NEW v \in 1..2, v9'[v] # None, v9'[v].alone
               PROVE  /\ \A w \in 1..2 : w # v => v9'[w] = None
                      /\ v9'[v].at # 0 => v9'[v].at <= v2' /\ \A a : a = v9'[v].at => St!Kept(a, v3)'
                      /\ v9'[v].st = "written" => v4' = v9'[v].of
                      /\ v9'[v].st = "renamed" => v3' = v9'[v].of
    BY DEF St!SaveInv
  <2>1. v = u
    BY <1>1 DEF St!SaveInv
  <2>2. v9[u].alone /\ (v9[u].at # 0 => v9[u].at <= v2 /\ St!Kept(v9[u].at, v3))
    BY <1>1, <1>3 DEF St!SaveInv
  <2>3. \A w \in 1..2 : w # v => v9'[w] = None
    BY <1>1, <2>2 DEF St!SaveInv
  <2> QED
    BY <1>1, <1>3, <1>5, <2>1, <2>2, <2>3
<1> QED
  BY <1>6, <1>7

LEMMA RenameStep ==
  ASSUME St!FileInv, St!SaveInv, NEW u \in 1..2, St!Rename(u)
  PROVE  St!FileInv' /\ St!SaveInv'
<1>1. /\ v9[u] # None /\ v9[u].st = "written"
      /\ v2' = v2 /\ v5' = v5 /\ v6' = v6 /\ v8' = v8 /\ v11' = v11
  BY DEF St!Rename
<1>2. v9[u] \in St!Running /\ v9[u].of \in Nat /\ v9[u].at \in Nat /\ v3 \in Nat
  BY <1>1 DEF St!FileInv, St!Running
<1>3. \A a, b : St!Kept(a, b)' <=> St!Kept(a, b)
  BY <1>1 DEF St!Kept
<1>4. CASE v4 = None
  <2>1. v9' = [v9 EXCEPT ![u] = None] /\ v3' = v3 /\ v4' = v4 /\ v10' = v10
    BY <1>4 DEF St!Rename
  <2>2. St!FileInv'
    BY <1>1, <1>3, <2>1 DEF St!FileInv
  <2>3. St!SaveInv'
    BY <1>1, <1>3, <2>1 DEF St!SaveInv
  <2> QED
    BY <2>2, <2>3
<1>5. CASE v4 # None
  <2> DEFINE r == Advanced(v9[u], "renamed")
             gone == [at |-> v9[u].at, was |-> v3]
  <2>1. /\ v3' = v4 /\ v4' = None /\ v9' = [v9 EXCEPT ![u] = r]
        /\ v10' = IF v9[u].alone /\ v9[u].at # 0 THEN v10 \cup {gone} ELSE v10
    BY <1>5 DEF St!Rename, Advanced
  <2>2. r \in St!Running /\ r.st = "renamed" /\ r.of = v9[u].of /\ r.alone = v9[u].alone
    BY <1>2, SaveGoesOn, SavesRun
  <2>3. gone \in [at : Nat, was : Nat] /\ gone.at = v9[u].at /\ gone.was = v3
    BY <1>2
  <2>4. /\ v4 \in Nat
        /\ v9[u].alone => v3' = v9[u].of
        /\ v9[u].alone /\ v9[u].at # 0 => v9[u].at <= v2 /\ St!Kept(v9[u].at, v3)
    BY <1>1, <1>5, <2>1 DEF St!FileInv, St!SaveInv
  <2> HIDE DEF r, gone
  <2>5. /\ v9' \in [1..2 -> {None} \cup St!Running] /\ v9'[u] = r
        /\ \A v \in 1..2 : v # u => v9'[v] = v9[v]
    BY <2>1, <2>2 DEF St!FileInv
  <2>6. v10' \subseteq [at : Nat, was : Nat] /\ \A q \in v10' : q.at <= v2 /\ St!Kept(q.at, q.was)
    BY <2>1, <2>3, <2>4 DEF St!FileInv
  <2>7. St!FileInv'
    BY <1>1, <1>3, <2>1, <2>4, <2>5, <2>6 DEF St!FileInv
  <2>8. St!SaveInv'
    <3> SUFFICES ASSUME NEW v \in 1..2, v9'[v] # None, v9'[v].alone
                 PROVE  /\ \A w \in 1..2 : w # v => v9'[w] = None
                        /\ v9'[v].st = "renamed" /\ v3' = v9'[v].of
      BY DEF St!SaveInv
    <3>1. v = u
      BY <1>1, <2>5 DEF St!SaveInv
    <3>2. v9[u].alone
      BY <2>2, <2>5, <3>1
    <3>3. \A w \in 1..2 : w # v => v9'[w] = None
      BY <1>1, <2>5, <3>2 DEF St!SaveInv
    <3> QED
      BY <2>2, <2>4, <2>5, <3>1, <3>3
  <2> QED
    BY <2>7, <2>8
<1> QED
  BY <1>4, <1>5

LEMMA FileStep == ASSUME St!FileInv, St!SaveInv, [St!Next]_(St!vars) PROVE St!FileInv' /\ St!SaveInv'
<1>1. \A v \in v5 : v.of # None => v.of \in Nat
  BY DEF St!FileInv, St!Version
<1>2. v8 + 1 \in Nat /\ v3 \in Nat
  BY DEF St!FileInv
<1>3. ASSUME NEW u \in 1..2, St!UploadConfig(u) \/ St!Toggle(u) \/ St!Restore(u) PROVE St!FileInv' /\ St!SaveInv'
  BY <1>1, <1>2, <1>3, BeginStep DEF St!UploadConfig, St!Toggle, St!Restore
<1>4. ASSUME NEW u \in 1..2, St!ReadBack(u) PROVE St!FileInv' /\ St!SaveInv'
  <2>1. /\ v9[u] # None /\ v6' = v9[u].of /\ v9' = [v9 EXCEPT ![u] = None]
        /\ v2' = v2 /\ v3' = v3 /\ v4' = v4 /\ v5' = v5
        /\ v8' = v8 /\ v10' = v10 /\ v11' = v11
    BY <1>4 DEF St!ReadBack
  <2>2. v9[u].of \in Nat
    BY <2>1 DEF St!FileInv, St!Running
  <2>3. /\ v9' \in [1..2 -> {None} \cup St!Running] /\ v9'[u] = None
        /\ \A v \in 1..2 : v # u => v9'[v] = v9[v]
    BY <2>1 DEF St!FileInv
  <2>4. \A a, b : St!Kept(a, b)' <=> St!Kept(a, b)
    BY <2>1 DEF St!Kept
  <2>5. St!FileInv'
    BY <2>1, <2>2, <2>4 DEF St!FileInv
  <2>6. St!SaveInv'
    BY <2>1, <2>3 DEF St!SaveInv
  <2> QED
    BY <2>5, <2>6
<1>5. CASE St!Reload
  <2>1. /\ v6' = v3
        /\ v2' = v2 /\ v3' = v3 /\ v4' = v4 /\ v5' = v5 /\ v9' = v9
        /\ v8' = v8 /\ v10' = v10 /\ v11' = v11
    BY <1>5 DEF St!Reload
  <2>2. \A a, b : St!Kept(a, b)' <=> St!Kept(a, b)
    BY <2>1 DEF St!Kept
  <2> QED
    BY <2>1, <2>2 DEF St!FileInv, St!SaveInv
<1>6. CASE St!EditedByHand
  <2>1. /\ v8' = v8 + 1 /\ v3' = v8 + 1 /\ v9' = St!Others(0, v9)
        /\ v2' = v2 /\ v4' = v4 /\ v5' = v5 /\ v6' = v6
        /\ v10' = v10 /\ v11' = v11
    BY <1>6 DEF St!EditedByHand
  <2>2. v9 \in [1..2 -> {None} \cup St!Running]
    BY DEF St!FileInv
  <2>3. /\ St!Others(0, v9) \in [1..2 -> {None} \cup St!Running]
        /\ \A v \in 1..2 : v # 0 /\ St!Others(0, v9)[v] # None => St!Others(0, v9)[v].alone = FALSE
    BY <2>2, OthersAreCrossed, Zenon
  <2>4. \A v \in 1..2 : v9'[v] # None => ~v9'[v].alone
    BY <2>1, <2>3
  <2>5. \A a, b : St!Kept(a, b)' <=> St!Kept(a, b)
    BY <2>1 DEF St!Kept
  <2>6. St!FileInv'
    BY <2>1, <2>3, <2>5 DEF St!FileInv
  <2>7. St!SaveInv'
    BY <2>4 DEF St!SaveInv
  <2> QED
    BY <2>6, <2>7
<1>7. CASE St!SecondPasses
  <2>1. /\ v2' = v2 + 1 /\ v3' = v3 /\ v4' = v4 /\ v5' = v5 /\ v6' = v6
        /\ v9' = v9 /\ v8' = v8 /\ v10' = v10 /\ v11' = v11
    BY <1>7 DEF St!SecondPasses
  <2>2. \A a, b : St!Kept(a, b)' <=> St!Kept(a, b)
    BY <2>1 DEF St!Kept
  <2>3. \A n \in Nat : n <= v2 => n <= v2'
    BY <2>1 DEF St!FileInv
  <2>4. /\ \A v \in v5 : v.at \in Nat /\ v.at <= v2 /\ \A w \in v5 : v.at = w.at => v = w
        /\ \A r \in v10 : r.at \in Nat /\ r.at <= v2 /\ St!Kept(r.at, r.was)
        /\ \A u \in 1..2 : v9[u] # None => v9[u].at \in Nat
    BY DEF St!FileInv, St!Version, St!Running
  <2>5. St!FileInv'
    BY <2>1, <2>2, <2>4 DEF St!FileInv
  <2>6. St!SaveInv'
    BY <2>1, <2>2, <2>3, <2>4 DEF St!SaveInv
  <2> QED
    BY <2>5, <2>6
<1>8. St!Schedule \/ St!Refused \/ UNCHANGED St!vars => UNCHANGED St!fileVars
  BY DEF St!Schedule, St!LoadSink, St!Landed, St!OnData, St!Edit, St!Save, St!WrittenByHand, St!Clusters, St!Open, St!Refused, St!vars, St!fileVars
<1> QED
  BY <1>3, <1>4, <1>5, <1>6, <1>7, <1>8, FileStays, WriteStep, WriteTmpStep, RenameStep DEF St!Next, St!File

LEMMA SettingsStep ==
  ASSUME St!FileInv, St!SaveInv, St!ScheduleInv, [St!Next]_(St!vars) PROVE St!FileInv' /\ St!SaveInv' /\ St!ScheduleInv'
BY FileStep, ScheduleStep

LEMMA SettingsHolds == St!FileInv /\ St!SaveInv /\ St!ScheduleInv => St!NothingReplacedIsLost /\ St!ArmedMeansPicked
<1> SUFFICES ASSUME St!FileInv, St!SaveInv, St!ScheduleInv PROVE St!NothingReplacedIsLost /\ St!ArmedMeansPicked
  OBVIOUS
<1>1. St!NothingReplacedIsLost
  BY DEF St!NothingReplacedIsLost, St!FileInv, St!SaveInv
<1>2. v13.enabled /\ v18 # None => St!Targets \subseteq v18
  BY DEF St!ScheduleInv, St!Targets
<1>3. v14 = v13 /\ v17 = St!Shown(v14) => St!Targets \subseteq v17.clusters
  <2>1. St!Shown(v13).clusters = St!Targets
    BY DEF St!Shown, St!Targets
  <2> QED
    BY <2>1
<1> QED
  BY <1>1, <1>2, <1>3 DEF St!ArmedMeansPicked, St!ScheduleInv

-----------------------------------------------------------------------------
(* Volume *)

LEMMA VolumeCounts == \A S : Vo!Cardinality(S) = Cardinality(S)
BY DEF IsFiniteSet, Vo!IsFiniteSet, Cardinality, Vo!Cardinality

\* A running total is what its recursion says it is.
LEMMA RunningTotal ==
  ASSUME NEW g \in [Vo!Day -> Int]
  PROVE  \E r \in [0..VolumeDays -> Int] :
           /\ r[0] = 0 /\ r[VolumeDays] = Vo!Total(g)
           /\ \A n \in 0..VolumeDays : n + 1 \in 0..VolumeDays => r[n + 1] = r[n] + g[n + 1]
<1> DEFINE Is(f, N) == f = [d \in 0..N |-> IF d = 0 THEN 0 ELSE f[d - 1] + g[d]]
           S == {n \in 0..VolumeDays : \E f : Is(f, n)}
<1>1. VolumeDays \in Nat
  BY VolumeAssumption
<1>2. 0 \in S
  <2> DEFINE f == [d \in 0..0 |-> 0]
  <2>1. Is(f, 0)
    OBVIOUS
  <2> HIDE DEF f
  <2> QED
    BY <1>1, <2>1
<1>3. ASSUME NEW n \in 0..VolumeDays, n \in S, n + 1 \in 0..VolumeDays
      PROVE  n + 1 \in S
  <2>1. PICK f : Is(f, n)
    BY <1>3
  <2> DEFINE h == [d \in 0..(n + 1) |-> IF d = n + 1 THEN f[n] + g[d] ELSE f[d]]
  <2>2. Is(h, n + 1)
    <3>1. \A d \in 0..(n + 1) : h[d] = IF d = 0 THEN 0 ELSE h[d - 1] + g[d]
      BY <2>1
    <3> QED
      BY <3>1
  <2> HIDE DEF h, Is
  <2> QED
    BY <1>3, <2>2
<1>4. VolumeDays \in S
  <2> HIDE DEF S
  <2> QED
    BY <1>1, <1>2, <1>3, UpTo
<1>5. \E f : f = [d \in 0..VolumeDays |-> IF d = 0 THEN 0 ELSE f[d - 1] + g[d]]
  BY <1>4
<1> DEFINE r == CHOOSE f : f = [d \in 0..VolumeDays |-> IF d = 0 THEN 0 ELSE f[d - 1] + g[d]]
<1>6. r = [d \in 0..VolumeDays |-> IF d = 0 THEN 0 ELSE r[d - 1] + g[d]]
  <2> HIDE DEF S
  <2> QED
    BY <1>5
<1>7. Vo!Total(g) = r[VolumeDays]
  BY DEF Vo!Total
<1> HIDE DEF r
<1>8. \A n \in 0..VolumeDays : r[n] = IF n = 0 THEN 0 ELSE r[n - 1] + g[n]
  BY <1>6
<1> DEFINE W == {n \in 0..VolumeDays : r[n] \in Int}
<1>9. 0 \in W
  BY <1>1, <1>8
<1>10. ASSUME NEW n \in 0..VolumeDays, n \in W, n + 1 \in 0..VolumeDays
       PROVE  n + 1 \in W
  <2>1. g[n + 1] \in Int /\ (n + 1) - 1 = n /\ n + 1 # 0
    BY <1>10 DEF Vo!Day
  <2> QED
    BY <1>8, <1>10, <2>1
<1>11. 0..VolumeDays \subseteq W
  <2> HIDE DEF W
  <2> QED
    BY <1>1, <1>9, <1>10, UpTo
<1>12. r \in [0..VolumeDays -> Int]
  <2>1. \A n \in 0..VolumeDays : r[n] \in Int
    BY <1>11
  <2> QED
    BY <1>6, <2>1
<1>13. \A n \in 0..VolumeDays : n + 1 \in 0..VolumeDays => r[n + 1] = r[n] + g[n + 1]
  BY <1>8
<1>14. r[0] = 0
  BY <1>1, <1>8
<1> QED
  BY <1>7, <1>12, <1>13, <1>14

\* Totals compare as what they are totals of.
LEMMA TotalsCompare ==
  ASSUME NEW f \in [Vo!Day -> Int], NEW g \in [Vo!Day -> Int], NEW h \in [Vo!Day -> Int], NEW k \in [Vo!Day -> Int],
         \A d \in Vo!Day : f[d] + g[d] <= h[d] + k[d]
  PROVE  /\ Vo!Total(f) \in Int /\ Vo!Total(g) \in Int /\ Vo!Total(h) \in Int /\ Vo!Total(k) \in Int
         /\ Vo!Total(f) + Vo!Total(g) <= Vo!Total(h) + Vo!Total(k)
<1>1. VolumeDays \in Nat
  BY VolumeAssumption
<1>2. PICK rf \in [0..VolumeDays -> Int] :
        /\ rf[0] = 0 /\ rf[VolumeDays] = Vo!Total(f)
        /\ \A n \in 0..VolumeDays : n + 1 \in 0..VolumeDays => rf[n + 1] = rf[n] + f[n + 1]
  BY RunningTotal
<1>3. PICK rg \in [0..VolumeDays -> Int] :
        /\ rg[0] = 0 /\ rg[VolumeDays] = Vo!Total(g)
        /\ \A n \in 0..VolumeDays : n + 1 \in 0..VolumeDays => rg[n + 1] = rg[n] + g[n + 1]
  BY RunningTotal
<1>4. PICK rh \in [0..VolumeDays -> Int] :
        /\ rh[0] = 0 /\ rh[VolumeDays] = Vo!Total(h)
        /\ \A n \in 0..VolumeDays : n + 1 \in 0..VolumeDays => rh[n + 1] = rh[n] + h[n + 1]
  BY RunningTotal
<1>5. PICK rk \in [0..VolumeDays -> Int] :
        /\ rk[0] = 0 /\ rk[VolumeDays] = Vo!Total(k)
        /\ \A n \in 0..VolumeDays : n + 1 \in 0..VolumeDays => rk[n + 1] = rk[n] + k[n + 1]
  BY RunningTotal
<1> DEFINE S == {n \in 0..VolumeDays : rf[n] + rg[n] <= rh[n] + rk[n]}
<1>6. 0 \in S
  BY <1>1, <1>2, <1>3, <1>4, <1>5
<1>7. ASSUME NEW n \in 0..VolumeDays, n \in S, n + 1 \in 0..VolumeDays
      PROVE  n + 1 \in S
  <2>1. n + 1 \in Vo!Day
    BY <1>7 DEF Vo!Day
  <2>2. f[n + 1] \in Int /\ g[n + 1] \in Int /\ h[n + 1] \in Int /\ k[n + 1] \in Int
    BY <2>1
  <2>3. f[n + 1] + g[n + 1] <= h[n + 1] + k[n + 1] /\ rf[n] + rg[n] <= rh[n] + rk[n]
    BY <1>7, <2>1
  <2>4. /\ rf[n + 1] = rf[n] + f[n + 1] /\ rg[n + 1] = rg[n] + g[n + 1]
        /\ rh[n + 1] = rh[n] + h[n + 1] /\ rk[n + 1] = rk[n] + k[n + 1]
    BY <1>2, <1>3, <1>4, <1>5, <1>7
  <2>5. (rf[n] + f[n + 1]) + (rg[n] + g[n + 1]) <= (rh[n] + h[n + 1]) + (rk[n] + k[n + 1])
    <3>1. \A a, b, c, d, p, q, s, t \in Int :
            a + b <= c + d /\ p + q <= s + t => (a + p) + (b + q) <= (c + s) + (d + t)
      OBVIOUS
    <3> QED
      BY <2>2, <2>3, <3>1, Zenon
  <2>6. rf[n + 1] + rg[n + 1] <= rh[n + 1] + rk[n + 1]
    BY <2>4, <2>5
  <2> QED
    BY <1>7, <2>6
<1>8. VolumeDays \in S
  <2>1. 0..VolumeDays \subseteq S
    <3> HIDE DEF S
    <3> QED
      BY <1>1, <1>6, <1>7, UpTo, Zenon
  <2> QED
    BY <1>1, <2>1
<1> QED
  BY <1>2, <1>3, <1>4, <1>5, <1>8

\* So much a day makes that many times as much.
LEMMA TotalOfSame ==
  ASSUME NEW c \in Nat, NEW S \in SUBSET Vo!Day
  PROVE  /\ IsFiniteSet(S) /\ Cardinality(S) \in Nat
         /\ Vo!Total([d \in Vo!Day |-> IF d \in S THEN c ELSE 0]) = c * Cardinality(S)
<1> DEFINE g == [d \in Vo!Day |-> IF d \in S THEN c ELSE 0]
           Upto(n) == {d \in S : d <= n}
<1>1. VolumeDays \in Nat /\ \A d \in Vo!Day : d \in Nat /\ d # 0
  BY VolumeAssumption DEF Vo!Day
<1>2. IsFiniteSet(Vo!Day)
  BY <1>1, FS_Interval DEF Vo!Day
<1>3. \A U \in SUBSET S : IsFiniteSet(U) /\ Cardinality(U) \in Nat
  BY <1>2, FS_Subset, FS_CardinalityType
<1>4. g \in [Vo!Day -> Int] /\ \A d \in Vo!Day : g[d] = IF d \in S THEN c ELSE 0
  OBVIOUS
<1> HIDE DEF g
<1>5. PICK r \in [0..VolumeDays -> Int] :
        /\ r[0] = 0 /\ r[VolumeDays] = Vo!Total(g)
        /\ \A n \in 0..VolumeDays : n + 1 \in 0..VolumeDays => r[n + 1] = r[n] + g[n + 1]
  BY <1>4, RunningTotal
<1> DEFINE T == {n \in 0..VolumeDays : r[n] = c * Cardinality(Upto(n))}
<1>6. 0 \in T
  <2>1. Upto(0) = {}
    BY <1>1
  <2> HIDE DEF Upto
  <2>2. r[0] = c * Cardinality(Upto(0))
    BY <1>5, <2>1, FS_EmptySet
  <2> QED
    BY <1>1, <2>2
<1>7. ASSUME NEW n \in 0..VolumeDays, n \in T, n + 1 \in 0..VolumeDays
      PROVE  n + 1 \in T
  <2>1. n + 1 \in Vo!Day /\ n \in Nat
    BY <1>7 DEF Vo!Day
  <2>2. Upto(n) \in SUBSET S /\ n + 1 \notin Upto(n) /\ (\A d \in S : d <= n + 1 <=> d <= n \/ d = n + 1)
    BY <1>1
  <2>3. CASE n + 1 \in S
    <3>1. Upto(n + 1) = Upto(n) \cup {n + 1}
      BY <2>2, <2>3, Zenon
    <3> HIDE DEF Upto
    <3>2. Cardinality(Upto(n + 1)) = Cardinality(Upto(n)) + 1 /\ Cardinality(Upto(n)) \in Nat
      BY <1>3, <2>2, <3>1, FS_AddElement
    <3> QED
      BY <1>4, <1>5, <1>7, <2>3, <3>2
  <2>4. CASE n + 1 \notin S
    <3>1. Upto(n + 1) = Upto(n)
      BY <2>2, <2>4, Zenon
    <3> HIDE DEF Upto
    <3>2. Cardinality(Upto(n)) \in Nat /\ g[n + 1] = 0
      BY <1>3, <1>4, <2>1, <2>2, <2>4
    <3> QED
      BY <1>5, <1>7, <3>1, <3>2
  <2> QED
    BY <2>3, <2>4
<1>8. VolumeDays \in T
  <2>1. 0..VolumeDays \subseteq T
    <3> HIDE DEF T
    <3> QED
      BY <1>1, <1>6, <1>7, UpTo, Zenon
  <2> QED
    BY <1>1, <2>1
<1>9. Upto(VolumeDays) = S
  <2>1. \A d \in S : d <= VolumeDays
    BY DEF Vo!Day
  <2> QED
    BY <2>1, Zenon
<1> HIDE DEF Upto
<1>10. Vo!Total(g) = c * Cardinality(S)
  BY <1>5, <1>8, <1>9
<1> QED
  BY <1>3, <1>10 DEF g

Worth(f, d) == IF f[d] = None THEN 0 ELSE f[d]
Told(f, S) == [d \in Vo!Day |-> IF d \in S THEN Worth(f, d) ELSE 0]
AllOf(c, S) == [d \in Vo!Day |-> IF d \in S THEN c ELSE 0]

LEMMA SumTold ==
  ASSUME NEW f, NEW S \in SUBSET Vo!Day, \A d \in S : f[d] \in Nat \cup {None}
  PROVE  Vo!Sum(f, S) = Vo!Total(Told(f, S)) /\ Told(f, S) \in [Vo!Day -> Int]
<1>1. \A d \in S : Worth(f, d) \in Nat
  BY DEF Worth
<1>2. [d \in Vo!Day |-> IF d \in S /\ f[d] # None THEN f[d] ELSE 0] = Told(f, S)
  <2>1. \A d \in Vo!Day : (IF d \in S /\ f[d] # None THEN f[d] ELSE 0) = (IF d \in S THEN Worth(f, d) ELSE 0)
    BY DEF Worth
  <2> QED
    BY <2>1 DEF Told
<1>3. Vo!Sum(f, S) = Vo!Total(Told(f, S))
  BY <1>2 DEF Vo!Sum
<1> QED
  BY <1>1, <1>3 DEF Told

LEMMA AllTold ==
  ASSUME NEW c \in Nat, NEW S \in SUBSET Vo!Day
  PROVE  AllOf(c, S) \in [Vo!Day -> Int] /\ Vo!Total(AllOf(c, S)) = c * Cardinality(S)
<1>1. AllOf(c, S) \in [Vo!Day -> Int]
  BY DEF AllOf
<1> QED
  BY <1>1, TotalOfSame DEF AllOf

\* Days worth c or more for days worth c or less: what is left of each after c a day.
LEMMA Exchange ==
  ASSUME NEW f, NEW W \in SUBSET Vo!Day, \A d \in W : f[d] \in Nat \cup {None},
         NEW H \in SUBSET W, NEW S \in SUBSET W, NEW c \in Nat,
         \A d \in H : c <= Worth(f, d), \A d \in W \ H : Worth(f, d) <= c
  PROVE  /\ Vo!Sum(f, S) \in Int /\ Vo!Sum(f, H) \in Int
         /\ Vo!Sum(f, S) + c * Cardinality(H) <= Vo!Sum(f, H) + c * Cardinality(S)
<1>1. /\ Vo!Sum(f, S) = Vo!Total(Told(f, S)) /\ Told(f, S) \in [Vo!Day -> Int]
      /\ Vo!Sum(f, H) = Vo!Total(Told(f, H)) /\ Told(f, H) \in [Vo!Day -> Int]
  BY SumTold
<1>2. /\ AllOf(c, H) \in [Vo!Day -> Int] /\ Vo!Total(AllOf(c, H)) = c * Cardinality(H)
      /\ AllOf(c, S) \in [Vo!Day -> Int] /\ Vo!Total(AllOf(c, S)) = c * Cardinality(S)
  BY AllTold
<1>3. ASSUME NEW d \in Vo!Day
      PROVE  Told(f, S)[d] + AllOf(c, H)[d] <= Told(f, H)[d] + AllOf(c, S)[d]
  <2>1. d \in W => Worth(f, d) \in Nat
    BY DEF Worth
  <2> QED
    BY <2>1 DEF Told, AllOf
<1> QED
  BY <1>1, <1>2, <1>3, TotalsCompare

LEMMA SumOfNone ==
  ASSUME NEW f
  PROVE  Vo!Sum(f, {}) = 0
<1>1. Vo!Sum(f, {}) = Vo!Total(Told(f, {}))
  BY SumTold
<1>2. Told(f, {}) = AllOf(0, {})
  BY DEF Told, AllOf
<1>3. Vo!Total(AllOf(0, {})) = 0 * Cardinality({})
  BY AllTold
<1> QED
  BY <1>1, <1>2, <1>3, FS_EmptySet

\* A part is worth no more than the whole, and no less than nothing.
LEMMA SumOfPart ==
  ASSUME NEW f, NEW W \in SUBSET Vo!Day, \A d \in W : f[d] \in Nat \cup {None}, NEW S \in SUBSET W
  PROVE  Vo!Sum(f, S) \in Nat /\ Vo!Sum(f, W) \in Nat /\ Vo!Sum(f, S) <= Vo!Sum(f, W)
<1>1. \A d \in W : 0 <= Worth(f, d)
  BY DEF Worth
<1>2. \A U \in SUBSET Vo!Day : Cardinality(U) \in Nat
  BY TotalOfSame
<1>3. Cardinality(S) \in Nat /\ Cardinality(W) \in Nat /\ Cardinality({}) \in Nat
  BY <1>2
<1>4. Vo!Sum(f, S) + 0 * Cardinality(W) <= Vo!Sum(f, W) + 0 * Cardinality(S) /\ Vo!Sum(f, S) \in Int /\ Vo!Sum(f, W) \in Int
  BY <1>1, Exchange
<1>5. Vo!Sum(f, {}) + 0 * Cardinality(S) <= Vo!Sum(f, S) + 0 * Cardinality({})
  <2>1. (\A d \in S : f[d] \in Nat \cup {None}) /\ (\A d \in S : 0 <= Worth(f, d)) /\ S \ S = {}
    BY <1>1
  <2> QED
    BY <2>1, Exchange
<1> QED
  BY <1>3, <1>4, <1>5, SumOfNone

LEMMA SumLessOne ==
  ASSUME NEW f, NEW W \in SUBSET Vo!Day, \A d \in W : f[d] \in Nat \cup {None},
         NEW d \in W, NEW n \in {f[d], 0} \ {None}
  PROVE  n \in Nat /\ Vo!Sum(f, W \ {d}) + n <= Vo!Sum(f, W)
<1>1. n \in Nat /\ n <= Worth(f, d)
  BY DEF Worth
<1>2. \A e \in W : Worth(f, e) \in Nat
  BY DEF Worth
<1>3. /\ Vo!Sum(f, W) = Vo!Total(Told(f, W)) /\ Told(f, W) \in [Vo!Day -> Int]
      /\ Vo!Sum(f, W \ {d}) = Vo!Total(Told(f, W \ {d})) /\ Told(f, W \ {d}) \in [Vo!Day -> Int]
  BY SumTold
<1>4. /\ AllOf(n, {d}) \in [Vo!Day -> Int] /\ Vo!Total(AllOf(n, {d})) = n * Cardinality({d})
      /\ AllOf(0, {}) \in [Vo!Day -> Int] /\ Vo!Total(AllOf(0, {})) = 0 * Cardinality({})
  BY AllTold
<1>5. \A e \in Vo!Day : Told(f, W \ {d})[e] + AllOf(n, {d})[e] <= Told(f, W)[e] + AllOf(0, {})[e]
  BY <1>1, <1>2 DEF Told, AllOf
<1>6. Cardinality({d}) = 1 /\ Cardinality({}) = 0
  BY FS_Singleton, FS_EmptySet
<1>7. /\ Vo!Total(Told(f, W \ {d})) + Vo!Total(AllOf(n, {d})) <= Vo!Total(Told(f, W)) + Vo!Total(AllOf(0, {}))
      /\ Vo!Total(Told(f, W \ {d})) \in Int /\ Vo!Total(Told(f, W)) \in Int
  BY <1>3, <1>4, <1>5, TotalsCompare
<1> QED
  BY <1>3, <1>4, <1>6, <1>7

LEMMA VolumeInit == Vo!Init => Vo!VolumeInv
<1> SUFFICES ASSUME Vo!Init PROVE Vo!VolumeInv
  OBVIOUS
<1>1. /\ v2 = 2 /\ v3 = [d \in Vo!Day |-> None] /\ v4 \in Windows
      /\ v5 = [s \in Vo!Store |-> None] /\ v6 = [s \in Vo!Applied |-> None]
      /\ v7 = 0 /\ v8 = <<>> /\ v9 = None /\ v10 = None /\ v12 = None
  BY DEF Vo!Init
<1>2. v2 \in Vo!Day
  BY <1>1, VolumeAssumption DEF Vo!Day
<1> QED
  BY <1>1, <1>2 DEF Vo!VolumeInv, Vo!VolumeTypes, Vo!MeasuringInv, Vo!Listing

LEMMA VolumeStep == ASSUME Vo!VolumeInv, [Vo!Next]_(Vo!vars) PROVE Vo!VolumeInv'
<1> USE DEF Vo!VolumeInv
<1>1. CASE Vo!Tomorrow
  <2>1. v2' \in Vo!Day
    BY <1>1, VolumeAssumption DEF Vo!Tomorrow, Vo!VolumeTypes, Vo!Day
  <2>2. UNCHANGED <<v3, v4, v5, v6, v7, v8, v9, v10, v11, v12>>
    BY <1>1 DEF Vo!Tomorrow, Vo!fixed, Vo!figures, Vo!backups
  <2> QED
    BY <2>1, <2>2 DEF Vo!VolumeTypes, Vo!MeasuringInv, Vo!Listing, Vo!Sum, Vo!Total
<1>2. CASE Vo!Read
  <2>1. UNCHANGED <<v2, v4, v5, v8, v9, v10, v11, v12>> /\ v1 \in Vo!Store
    BY <1>2 DEF Vo!Read, Vo!fixed, Vo!backups
  <2>2. v3' \in [Vo!Day -> Nat \cup {None}] /\ v6' \in [Vo!Applied -> Policies \cup {None}] /\ v7' \in {0, DiskTotal}
    <3>1. CASE (\E d \in 1..v2, b \in DaySizes : v3' = [v3 EXCEPT ![d] = b]) /\ UNCHANGED <<v6, v7>>
      BY <3>1, VolumeAssumption DEF Vo!VolumeTypes, Vo!Day
    <3>2. CASE /\ \E p, q \in Policies :
                    v6' = [v6 EXCEPT ![v1] = p, !["listed"] = IF v1 = "backup" THEN q ELSE @]
               /\ v7' \in {v7, DiskTotal} /\ UNCHANGED v3
      <4>1. PICK p \in Policies, q \in Policies :
              v6' = [v6 EXCEPT ![v1] = p, !["listed"] = IF v1 = "backup" THEN q ELSE @]
        BY <3>2
      <4>2. v6' \in [Vo!Applied -> Policies \cup {None}]
        BY <4>1 DEF Vo!VolumeTypes
      <4> QED
        BY <3>2, <4>2 DEF Vo!VolumeTypes
    <3> QED
      BY <1>2, <3>1, <3>2 DEF Vo!Read
  <2> QED
    BY <2>1, <2>2 DEF Vo!VolumeTypes, Vo!MeasuringInv, Vo!Listing, Vo!Sum, Vo!Total
<1>3. CASE Vo!Reload
  <2>1. UNCHANGED <<v2, v6, v7, v8, v9, v10, v11>> /\ v12' = None
    BY <1>3 DEF Vo!Reload, Vo!backups
  <2>2. v3' \in [Vo!Day -> Nat \cup {None}] /\ v4' \in Windows /\ v5' \in [Vo!Store -> Policies \cup {None}]
    BY <1>3 DEF Vo!Reload, Vo!VolumeTypes
  <2> QED
    BY <2>1, <2>2 DEF Vo!VolumeTypes, Vo!MeasuringInv, Vo!Listing, Vo!Sum, Vo!Total
<1>4. CASE Vo!List
  <2>1. UNCHANGED <<v2, v3, v4, v5, v6, v7, v9, v10, v11, v12>>
    BY <1>4 DEF Vo!List, Vo!fixed, Vo!figures
  <2>2. Vo!Listing(v8')
    <3>1. PICK S \in SUBSET (1..v2) : v8' \in [S -> DaySizes]
      BY <1>4 DEF Vo!List
    <3>2. S \subseteq Vo!Day
      BY VolumeAssumption DEF Vo!VolumeTypes, Vo!Day
    <3> QED
      BY <3>1, <3>2, VolumeAssumption DEF Vo!Listing
  <2> QED
    BY <2>1, <2>2 DEF Vo!VolumeTypes, Vo!MeasuringInv, Vo!Listing, Vo!Sum, Vo!Total
<1>5. CASE Vo!Measure
  <2>1. UNCHANGED <<v2, v3, v4, v5, v6, v7, v8, v10, v11, v12>>
    BY <1>5 DEF Vo!Measure, Vo!fixed, Vo!figures
  <2>2. v9' = [listed |-> v8, todo |-> Vo!Newest(DOMAIN v8, MeasuredAtMost), total |-> 0]
    BY <1>5 DEF Vo!Measure
  <2>3. Vo!Newest(DOMAIN v8, MeasuredAtMost) \in SUBSET DOMAIN v8
    BY DEF Vo!Newest
  <2>4. Vo!Sum(v8, Vo!Newest(DOMAIN v8, MeasuredAtMost)) \in Nat
        /\ Vo!Sum(v8, Vo!Newest(DOMAIN v8, MeasuredAtMost)) <= Vo!Sum(v8, DOMAIN v8)
    <3>1. DOMAIN v8 \in SUBSET Vo!Day /\ \A d \in DOMAIN v8 : v8[d] \in Nat \cup {None}
      BY DEF Vo!VolumeTypes, Vo!Listing
    <3> QED
      BY <2>3, <3>1, SumOfPart
  <2>5. Vo!MeasuringInv'
    BY <2>2, <2>3, <2>4 DEF Vo!MeasuringInv, Vo!VolumeTypes, Vo!Listing, Vo!Sum, Vo!Total
  <2> QED
    BY <2>1, <2>5 DEF Vo!VolumeTypes, Vo!Listing
<1>6. CASE Vo!MeasureOne
  <2>1. UNCHANGED <<v2, v3, v4, v5, v6, v7, v8, v10, v11, v12>>
    BY <1>6 DEF Vo!MeasureOne, Vo!fixed, Vo!figures
  <2> DEFINE l == v9.listed  W == v9.todo
  <2>2. v9 # None /\ W \in SUBSET Vo!Day /\ (\A d \in W : l[d] \in Nat \cup {None})
    BY <1>6 DEF Vo!MeasureOne, Vo!MeasuringInv, Vo!Listing
  <2>3. PICK d \in W : \E n \in {l[d], 0} \ {None} :
          v9' = [listed |-> l, todo |-> W \ {d}, total |-> v9.total + n]
    BY <1>6 DEF Vo!MeasureOne
  <2> PICK n \in {l[d], 0} \ {None} :
          v9' = [listed |-> l, todo |-> W \ {d}, total |-> v9.total + n]
    BY <2>3
  <2>4. n \in Nat /\ Vo!Sum(l, W \ {d}) + n <= Vo!Sum(l, W)
    BY <2>2, SumLessOne
  <2>5. Vo!Sum(l, W \ {d}) \in Nat /\ Vo!Sum(l, W) \in Nat /\ Vo!Sum(l, DOMAIN l) \in Nat
    BY <2>2, SumOfPart DEF Vo!MeasuringInv, Vo!Listing
  <2>6. Vo!MeasuringInv'
    BY <2>2, <2>3, <2>4, <2>5 DEF Vo!MeasuringInv, Vo!Listing, Vo!Sum, Vo!Total
  <2> QED
    BY <2>1, <2>6 DEF Vo!VolumeTypes, Vo!Listing
<1>7. CASE Vo!Measured
  <2>1. UNCHANGED <<v2, v3, v4, v5, v6, v7, v8, v12>> /\ v9' = None
    BY <1>7 DEF Vo!Measured, Vo!fixed, Vo!figures
  <2>2. v10' = v9.total /\ v11' = Vo!Sum(v9.listed, DOMAIN v9.listed)
        /\ v9 # None /\ v9.todo = {}
    BY <1>7 DEF Vo!Measured
  <2>3. v10' <= v11'
    <3>1. Vo!Sum(v9.listed, {}) = 0 /\ Vo!Sum(v9.listed, DOMAIN v9.listed) \in Nat
      BY <2>2, SumOfNone, SumOfPart DEF Vo!MeasuringInv, Vo!Listing
    <3> QED
      BY <2>2, <3>1 DEF Vo!MeasuringInv
  <2> QED
    BY <2>1, <2>3 DEF Vo!VolumeTypes, Vo!MeasuringInv, Vo!Listing
<1>8. CASE Vo!Analyse
  <2>1. UNCHANGED <<v2, v3, v4, v5, v6, v7, v8, v9, v10, v11>>
    BY <1>8 DEF Vo!Analyse, Vo!fixed, Vo!figures, Vo!backups
  <2>2. Vo!Listing(v12'.docs) /\ \A d \in DOMAIN v12'.docs : v12'.docs[d] # None
    <3>1. PICK first \in 1..2, last \in {v2 - 1, v2} :
            \E docs \in [first..last -> DaySizes \ {None}] : v12' = [at |-> v2, docs |-> docs]
      BY <1>8 DEF Vo!Analyse
    <3>2. PICK docs \in [first..last -> DaySizes \ {None}] : v12' = [at |-> v2, docs |-> docs]
      BY <3>1
    <3>3. first..last \subseteq Vo!Day
      BY VolumeAssumption DEF Vo!VolumeTypes, Vo!Day
    <3> QED
      BY <3>2, <3>3, VolumeAssumption DEF Vo!Listing
  <2> QED
    BY <2>1, <2>2 DEF Vo!VolumeTypes, Vo!MeasuringInv, Vo!Listing, Vo!Sum, Vo!Total
<1>9. CASE UNCHANGED Vo!vars
  BY <1>9 DEF Vo!vars, Vo!VolumeTypes, Vo!MeasuringInv, Vo!Listing, Vo!Sum, Vo!Total
<1> QED
  BY <1>1, <1>2, <1>3, <1>4, <1>5, <1>6, <1>7, <1>8, <1>9 DEF Vo!Next

\* The settings, clamped.
LEMMA SizesClamped ==
  ASSUME Vo!VolumeTypes
  PROVE  Vo!WindowDays \in Nat /\ Vo!TopDays \in Nat \ {0} /\ Vo!Headroom \in Nat
<1>1. /\ v4.windowDays \in Int /\ v4.topDays \in Int /\ v4.headroomPercent \in Int
  BY VolumeAssumption DEF Vo!VolumeTypes
<1> QED
  BY <1>1 DEF Vo!WindowDays, Vo!TopDays, Vo!Headroom, Vo!AtLeast

\* The heaviest days are of the window, heavier than the rest of it, and there are any if it has any.
LEMMA HeaviestDays ==
  ASSUME Vo!VolumeTypes
  PROVE  /\ Vo!Window \in SUBSET Vo!Day /\ Vo!Heaviest \in SUBSET Vo!Window
         /\ \A d \in Vo!Window : v3[d] \in Nat
         /\ \A d \in Vo!Heaviest, e \in Vo!Window \ Vo!Heaviest : v3[d] >= v3[e]
         /\ Vo!Window # {} => \E d \in Vo!Heaviest : \A e \in Vo!Window : v3[e] <= v3[d]
<1> DEFINE Ahead(d) == {e \in Vo!Window : Vo!Before(e, d)}
<1>1. Vo!Window \in SUBSET Vo!Day /\ \A d \in Vo!Window : v3[d] \in Nat
  BY DEF Vo!Window, Vo!Newest, Vo!VolumeTypes
<1>2. Vo!Heaviest = {d \in Vo!Window : Cardinality(Ahead(d)) < Vo!TopDays} /\ Vo!TopDays \in Nat \ {0}
  BY SizesClamped, VolumeCounts DEF Vo!Heaviest
<1>3. \A U \in SUBSET Vo!Window : IsFiniteSet(U) /\ Cardinality(U) \in Nat
  <2>1. IsFiniteSet(Vo!Window)
    BY <1>1, TotalOfSame
  <2> QED
    BY <2>1, FS_Subset, FS_CardinalityType
<1>4. \A d \in Vo!Window : d \in Nat /\ Ahead(d) \in SUBSET Vo!Window /\ d \notin Ahead(d)
  BY <1>1 DEF Vo!Day, Vo!Before
<1>5. ASSUME NEW d \in Vo!Window, NEW e \in Vo!Window, Vo!Before(e, d)
      PROVE  Ahead(e) \subseteq Ahead(d) \ {e}
  BY <1>1, <1>4, <1>5 DEF Vo!Before
<1>6. ASSUME NEW d \in Vo!Window, NEW e \in Vo!Window, Vo!Before(e, d)
      PROVE  Cardinality(Ahead(e)) < Cardinality(Ahead(d))
  <2>1. e \in Ahead(d) /\ Ahead(e) \subseteq Ahead(d) \ {e}
    BY <1>5, <1>6
  <2> HIDE DEF Ahead
  <2>2. Cardinality(Ahead(d) \ {e}) = Cardinality(Ahead(d)) - 1
    BY <1>3, <1>4, <2>1, FS_RemoveElement
  <2>3. Cardinality(Ahead(e)) <= Cardinality(Ahead(d) \ {e})
    <3>1. IsFiniteSet(Ahead(d) \ {e})
      BY <1>3, <1>4
    <3> QED
      BY <2>1, <3>1, FS_Subset
  <2> QED
    BY <1>3, <1>4, <2>2, <2>3
<1>7. ASSUME NEW d \in Vo!Heaviest, NEW e \in Vo!Window \ Vo!Heaviest PROVE v3[d] >= v3[e]
  <2> SUFFICES ASSUME v3[e] > v3[d] PROVE FALSE
    BY <1>1, <1>2
  <2>1. d \in Vo!Window /\ e \in Vo!Window /\ Vo!Before(e, d)
    BY <1>2 DEF Vo!Before
  <2> HIDE DEF Ahead
  <2>2. Cardinality(Ahead(e)) < Cardinality(Ahead(d)) /\ Cardinality(Ahead(d)) < Vo!TopDays
    BY <1>2, <1>6, <2>1
  <2>3. Cardinality(Ahead(e)) \in Nat /\ Cardinality(Ahead(d)) \in Nat
    BY <1>3, <1>4, <2>1
  <2> QED
    BY <1>2, <2>2, <2>3
<1>8. ASSUME Vo!Window # {}
      PROVE  \E d \in Vo!Heaviest : \A e \in Vo!Window : v3[e] <= v3[d]
  <2> DEFINE Ranks == {r \in Nat : \E d \in Vo!Window : r = Cardinality(Ahead(d))}
  <2>1. Ranks \in SUBSET Nat /\ Ranks # {}
    <3>1. PICK d \in Vo!Window : TRUE
      BY <1>8
    <3>2. Cardinality(Ahead(d)) \in Nat
      BY <1>3
    <3> HIDE DEF Ahead
    <3> QED
      BY <3>2
  <2>2. PICK r \in Ranks : \A q \in Ranks : r <= q
    <3> HIDE DEF Ranks
    <3> QED
      BY <2>1, Least
  <2>3. PICK d \in Vo!Window : r = Cardinality(Ahead(d))
    OBVIOUS
  <2>4. ASSUME NEW e \in Vo!Window, Vo!Before(e, d)
        PROVE  FALSE
    <3>1. Cardinality(Ahead(e)) < r
      BY <1>6, <2>3, <2>4
    <3>2. Cardinality(Ahead(e)) \in Ranks
      BY <1>3
    <3> QED
      BY <2>1, <2>2, <3>1, <3>2
  <2>5. Ahead(d) = {}
    BY <2>4
  <2>6. d \in Vo!Heaviest
    <3> HIDE DEF Ahead
    <3> QED
      BY <1>2, <2>5, FS_EmptySet
  <2>7. \A e \in Vo!Window : v3[e] <= v3[d]
    BY <1>1, <2>4 DEF Vo!Before
  <2> QED
    BY <2>6, <2>7
<1> HIDE DEF Ahead
<1> QED
  BY <1>1, <1>2, <1>7, <1>8

\* The days a mean is taken of, the heaviest, and c, what the lightest of them weighs.
LEMMA HeaviestMean ==
  ASSUME Vo!VolumeTypes, Vo!Window # {}
  PROVE  /\ Vo!PerDay = [sum |-> Vo!Sum(v3, Vo!Heaviest), over |-> Cardinality(Vo!Heaviest)]
         /\ Vo!Sum(v3, Vo!Heaviest) \in Nat /\ Cardinality(Vo!Heaviest) \in Nat \ {0}
         /\ \E c \in Nat : \A S \in SUBSET Vo!Window :
              /\ Vo!Sum(v3, S) \in Nat /\ Cardinality(S) \in Nat
              /\ Vo!Sum(v3, S) + c * Cardinality(Vo!Heaviest) <= Vo!Sum(v3, Vo!Heaviest) + c * Cardinality(S)
              /\ c * Cardinality(Vo!Heaviest) <= Vo!Sum(v3, Vo!Heaviest)
<1>1. /\ Vo!Window \in SUBSET Vo!Day /\ Vo!Heaviest \in SUBSET Vo!Window /\ Vo!Heaviest # {}
      /\ \A d \in Vo!Window : v3[d] \in Nat
      /\ \A d \in Vo!Heaviest, e \in Vo!Window \ Vo!Heaviest : v3[d] >= v3[e]
  BY HeaviestDays
<1>2. \A S \in SUBSET Vo!Window : Vo!Sum(v3, S) \in Nat /\ IsFiniteSet(S) /\ Cardinality(S) \in Nat
  <2> TAKE S \in SUBSET Vo!Window
  <2> QED
    BY <1>1, SumOfPart, TotalOfSame
<1>3. Cardinality(Vo!Heaviest) \in Nat \ {0}
  BY <1>1, <1>2, FS_EmptySet
<1>4. Vo!PerDay = [sum |-> Vo!Sum(v3, Vo!Heaviest), over |-> Cardinality(Vo!Heaviest)]
  BY <1>1, VolumeCounts DEF Vo!PerDay, Vo!Mean
<1> DEFINE Weights == {w \in Nat : \E d \in Vo!Heaviest : w = v3[d]}
<1>5. Weights \in SUBSET Nat /\ Weights # {}
  BY <1>1
<1>6. PICK c \in Weights : \A w \in Weights : c <= w
  <2> HIDE DEF Weights
  <2> QED
    BY <1>5, Least
<1>7. c \in Nat /\ (\A d \in Vo!Heaviest : c <= v3[d]) /\ \E d \in Vo!Heaviest : c = v3[d]
  BY <1>1, <1>6
<1> HIDE DEF Weights
<1>8. \A d \in Vo!Window : Worth(v3, d) = v3[d] /\ v3[d] \in Nat \cup {None}
  BY <1>1, VolumeAssumption DEF Worth
<1>9. (\A d \in Vo!Heaviest : c <= Worth(v3, d)) /\ \A d \in Vo!Window \ Vo!Heaviest : Worth(v3, d) <= c
  BY <1>1, <1>7, <1>8
<1>10. ASSUME NEW S \in SUBSET Vo!Window
       PROVE  Vo!Sum(v3, S) + c * Cardinality(Vo!Heaviest) <= Vo!Sum(v3, Vo!Heaviest) + c * Cardinality(S)
  BY <1>1, <1>7, <1>9, Exchange
<1>11. c * Cardinality(Vo!Heaviest) <= Vo!Sum(v3, Vo!Heaviest)
  <2>1. Vo!Sum(v3, {}) + c * Cardinality(Vo!Heaviest) <= Vo!Sum(v3, Vo!Heaviest) + c * Cardinality({})
    BY <1>10
  <2>2. Vo!Sum(v3, {}) = 0 /\ Cardinality({}) = 0 /\ c * 0 = 0
    BY <1>7, SumOfNone, FS_EmptySet
  <2>3. c * Cardinality(Vo!Heaviest) \in Nat /\ Vo!Sum(v3, Vo!Heaviest) \in Nat
    BY <1>1, <1>2, <1>7
  <2> QED
    BY <2>1, <2>2, <2>3
<1>12. \A S \in SUBSET Vo!Window :
          /\ Vo!Sum(v3, S) \in Nat /\ Cardinality(S) \in Nat
          /\ Vo!Sum(v3, S) + c * Cardinality(Vo!Heaviest) <= Vo!Sum(v3, Vo!Heaviest) + c * Cardinality(S)
          /\ c * Cardinality(Vo!Heaviest) <= Vo!Sum(v3, Vo!Heaviest)
  BY <1>2, <1>10, <1>11, Zenon
<1> QED
  BY <1>1, <1>3, <1>4, <1>7, <1>12

\* The arithmetic of means: a set S of days, the heaviest H, and c, what the lightest of H weighs.
LEMMA Means ==
  ASSUME NEW s \in Nat, NEW h \in Nat, NEW n \in Nat, NEW m \in Nat, NEW c \in Nat,
         s + c * m <= h + c * n, c * m <= h
  PROVE  /\ m <= n => s * m <= h * n
         /\ \A room, asked \in Nat : m # 0 /\ n <= asked /\ m <= asked /\ h * asked <= room * m => s <= room
<1> DEFINE e == h - c * m
<1> HIDE DEF e
<1> QED
  OBVIOUS

LEMMA NumberOfHours ==
  ASSUME NEW v \in Policies \cup {None}
  PROVE  Vo!Hours(v) \in Nat \cup {None}
<1>1. v # None => v[1] \in Nat
  BY VolumeAssumption
<1> DEFINE factor == CASE v[2] = "h" -> 1 [] v[2] = "w" -> 168 [] v[2] = "m" -> 720 [] v[2] = "y" -> 8760 [] OTHER -> 24
           mute == v = None \/ v[2] \notin {"h", "d", "w", "m", "y"}
<1>2. factor \in Nat
  OBVIOUS
<1>3. ~mute => v # None
  OBVIOUS
<1>4. Vo!Hours(v) = IF mute THEN None ELSE v[1] * factor
  BY DEF Vo!Hours
<1> HIDE DEF factor, mute
<1> QED
  BY <1>1, <1>2, <1>3, <1>4

\* A verdict is about room and days that are known.
LEMMA Verdicts ==
  ASSUME Vo!VolumeTypes, NEW s \in Vo!Store, Vo!Met(s) # "unknown"
  PROVE  Vo!Room(s) \in Nat \ {0} /\ Vo!Asked(s) \in Nat
<1>1. /\ Vo!Hours(v5[s]) \in Nat \cup {None} /\ Vo!Hours(v6[s]) \in Nat \cup {None}
      /\ Vo!Hours(v6["listed"]) \in Nat \cup {None}
  BY NumberOfHours DEF Vo!VolumeTypes, Vo!Applied
<1>2. Vo!Retention(s) \in Nat \cup {None}
  BY <1>1 DEF Vo!Retention
<1>3. Vo!Asked(s) \in Nat
  BY <1>2 DEF Vo!Met, Vo!Asked
<1>4. Vo!Room(s) # 0
  BY DEF Vo!Met
<1>5. Vo!Size(BackupCapacity) = None \/ Vo!Size(BackupCapacity) \in Nat
  BY VolumeAssumption DEF Vo!Size
<1>6. Vo!Room(s) \in Nat
  BY <1>5, VolumeAssumption DEF Vo!Room, Vo!VolumeTypes
<1> QED
  BY <1>3, <1>4, <1>6

\* A term that has jumped was rarer before.
LEMMA SpikesAreNew ==
  ASSUME Vo!VolumeTypes, Vo!Spiked
  PROVE  /\ Vo!Latest < v12.at
         /\ \E d \in DOMAIN v12.docs : d < Vo!Latest /\ v12.docs[d] < v12.docs[Vo!Latest]
<1> DEFINE docs == v12.docs
<1>1. /\ DOMAIN docs \subseteq Vo!Day /\ \A d \in DOMAIN docs : docs[d] \in Nat /\ docs[d] # None
      /\ Cardinality(Vo!Complete) >= 2
  BY VolumeCounts DEF Vo!Spiked, Vo!VolumeTypes, Vo!Listing
<1>2. Vo!Complete \in SUBSET Vo!Day /\ Vo!Complete \subseteq DOMAIN docs /\ Vo!Complete \in SUBSET Nat
      /\ \A d \in Vo!Complete : d < v12.at
  BY <1>1 DEF Vo!Complete, Vo!Day
<1>3. IsFiniteSet(Vo!Complete)
  BY <1>2, TotalOfSame
<1>4. Vo!Complete # {}
  BY <1>1, FS_EmptySet
<1>5. \E x \in Vo!Complete : \A y \in Vo!Complete : y <= x
  BY <1>2, <1>3, <1>4, Greatest
<1>6. Vo!Latest \in Vo!Complete /\ \A y \in Vo!Complete : y <= Vo!Latest
  BY <1>5 DEF Vo!Latest
<1> DEFINE m == docs[Vo!Latest]  B == Vo!Baseline
<1>7. B \in SUBSET Vo!Complete /\ Vo!Latest \notin B
  BY DEF Vo!Baseline, Vo!Newest
<1>8. \A d \in B : d \in DOMAIN docs /\ d < Vo!Latest
  BY <1>2, <1>6, <1>7
<1>9. m \in Nat /\ B \in SUBSET Vo!Day
  BY <1>1, <1>2, <1>6, <1>7
<1>10. Vo!Sum(docs, B) > 0 /\ m * Cardinality(B) * 10 > Vo!Sum(docs, B) * 14
  BY VolumeCounts DEF Vo!Spiked
<1> HIDE DEF B
<1>11. ASSUME \A d \in B : m <= docs[d]
       PROVE  FALSE
  <2>1. (\A d \in B : docs[d] \in Nat \cup {None}) /\ \A d \in B : m <= Worth(docs, d)
    BY <1>1, <1>8, <1>11 DEF Worth
  <2>2. Vo!Sum(docs, {}) + m * Cardinality(B) <= Vo!Sum(docs, B) + m * Cardinality({}) /\ Vo!Sum(docs, B) \in Int
    BY <1>9, <2>1, Exchange
  <2>3. Cardinality(B) \in Nat
    BY <1>9, TotalOfSame
  <2>4. m * Cardinality(B) <= Vo!Sum(docs, B)
    <3>1. Vo!Sum(docs, {}) = 0 /\ Cardinality({}) = 0 /\ m * 0 = 0 /\ m * Cardinality(B) \in Nat
      BY <1>9, <2>3, SumOfNone, FS_EmptySet
    <3> QED
      BY <2>2, <3>1
  <2>5. m * Cardinality(B) \in Nat
    BY <1>9, <2>3
  <2> QED
    BY <1>10, <2>2, <2>4, <2>5
<1>12. PICK d \in B : ~(m <= docs[d])
  BY <1>11
<1>13. d \in DOMAIN docs /\ d < Vo!Latest /\ docs[d] < m
  BY <1>1, <1>8, <1>9, <1>12
<1> QED
  BY <1>2, <1>6, <1>13

LEMMA VolumeHolds == Vo!VolumeInv => Vo!FiguresAreSafe
<1> SUFFICES ASSUME Vo!VolumeInv PROVE Vo!FiguresAreSafe
  OBVIOUS
<1> USE DEF Vo!VolumeInv
<1>1. Vo!PerDay.sum * Vo!Mean(Vo!Window).over >= Vo!Mean(Vo!Window).sum * Vo!PerDay.over
  <2>1. CASE Vo!Window = {}
    <3>1. Vo!Heaviest = {}
      BY <2>1, HeaviestDays
    <3> QED
      BY <2>1, <3>1 DEF Vo!PerDay, Vo!Mean
  <2>2. CASE Vo!Window # {}
    <3>1. PICK c \in Nat : \A S \in SUBSET Vo!Window :
            /\ Vo!Sum(v3, S) \in Nat /\ Cardinality(S) \in Nat
            /\ Vo!Sum(v3, S) + c * Cardinality(Vo!Heaviest) <= Vo!Sum(v3, Vo!Heaviest) + c * Cardinality(S)
            /\ c * Cardinality(Vo!Heaviest) <= Vo!Sum(v3, Vo!Heaviest)
      BY <2>2, HeaviestMean
    <3>2. Vo!PerDay = [sum |-> Vo!Sum(v3, Vo!Heaviest), over |-> Cardinality(Vo!Heaviest)]
          /\ Vo!Sum(v3, Vo!Heaviest) \in Nat /\ Cardinality(Vo!Heaviest) \in Nat
      BY <2>2, HeaviestMean
    <3>3. Vo!Mean(Vo!Window) = [sum |-> Vo!Sum(v3, Vo!Window), over |-> Cardinality(Vo!Window)]
      BY <2>2, VolumeCounts DEF Vo!Mean
    <3>4. Cardinality(Vo!Heaviest) <= Cardinality(Vo!Window)
      <4>1. IsFiniteSet(Vo!Window) /\ Vo!Heaviest \in SUBSET Vo!Window
        BY HeaviestDays, TotalOfSame
      <4> QED
        BY <4>1, FS_Subset
    <3>5. /\ Vo!Sum(v3, Vo!Window) \in Nat /\ Cardinality(Vo!Window) \in Nat
          /\ Vo!Sum(v3, Vo!Window) + c * Cardinality(Vo!Heaviest) <= Vo!Sum(v3, Vo!Heaviest) + c * Cardinality(Vo!Window)
          /\ c * Cardinality(Vo!Heaviest) <= Vo!Sum(v3, Vo!Heaviest)
      BY <3>1
    <3>6. Vo!Sum(v3, Vo!Window) * Cardinality(Vo!Heaviest) <= Vo!Sum(v3, Vo!Heaviest) * Cardinality(Vo!Window)
      BY <3>2, <3>4, <3>5
    <3> QED
      BY <3>2, <3>3, <3>6
  <2> QED
    BY <2>1, <2>2
<1>2. Vo!Window # {} => \E d \in Vo!Window : Vo!PerDay.sum <= v3[d] * Vo!PerDay.over
  <2> SUFFICES ASSUME Vo!Window # {} PROVE \E d \in Vo!Window : Vo!PerDay.sum <= v3[d] * Vo!PerDay.over
    OBVIOUS
  <2>1. Vo!PerDay = [sum |-> Vo!Sum(v3, Vo!Heaviest), over |-> Cardinality(Vo!Heaviest)]
    BY HeaviestMean
  <2>2. PICK d \in Vo!Heaviest : \A e \in Vo!Window : v3[e] <= v3[d]
    BY HeaviestDays
  <2>3. /\ d \in Vo!Window /\ Vo!Heaviest \in SUBSET Vo!Window /\ Vo!Window \in SUBSET Vo!Day
        /\ \A e \in Vo!Window : v3[e] \in Nat
    BY HeaviestDays
  <2>4. \A e \in Vo!Window : Worth(v3, e) <= v3[d] /\ v3[e] \in Nat \cup {None}
    BY <2>2, <2>3 DEF Worth
  <2>5. Vo!Sum(v3, Vo!Heaviest) + v3[d] * Cardinality({}) <= Vo!Sum(v3, {}) + v3[d] * Cardinality(Vo!Heaviest)
        /\ Vo!Sum(v3, Vo!Heaviest) \in Int
    <3>1. {} \in SUBSET Vo!Window /\ \A e \in {} : v3[d] <= Worth(v3, e)
      OBVIOUS
    <3>2. v3[d] \in Nat /\ \A e \in Vo!Window \ {} : Worth(v3, e) <= v3[d]
      BY <2>3, <2>4
    <3> QED
      BY <2>3, <2>4, <3>1, <3>2, Exchange
  <2>6. Vo!Sum(v3, Vo!Heaviest) <= v3[d] * Cardinality(Vo!Heaviest)
    <3>1. Vo!Sum(v3, {}) = 0 /\ Cardinality({}) = 0 /\ v3[d] * 0 = 0
      BY <2>3, SumOfNone, FS_EmptySet
    <3>2. v3[d] * Cardinality(Vo!Heaviest) \in Nat
      BY <2>3, HeaviestMean
    <3> QED
      BY <2>5, <3>1, <3>2
  <2> QED
    BY <2>1, <2>3, <2>6
<1>3. Vo!Met("live") # "unknown" => v7 = DiskTotal /\ (Vo!Hours(v5["live"]) # None \/ Vo!Hours(v6["live"]) # None)
  BY DEF Vo!Met, Vo!Room, Vo!Asked, Vo!Retention, Vo!VolumeTypes
<1>4. ASSUME NEW s \in Vo!Store, Vo!Met(s) = "YES", Cardinality(Vo!Heaviest) * 24 <= Vo!Asked(s),
             NEW S \in SUBSET Vo!Window, Cardinality(S) * 24 <= Vo!Asked(s)
      PROVE  Vo!Sum(v3, S) <= Vo!Room(s)
  <2>1. Vo!Room(s) \in Nat /\ Vo!Asked(s) \in Nat
    BY <1>4, Verdicts
  <2>2. CASE Vo!Window = {}
    <3>1. Vo!Sum(v3, S) = 0
      BY <2>2, SumOfNone
    <3> QED
      BY <2>1, <3>1
  <2>3. CASE Vo!Window # {}
    <3>1. /\ Vo!PerDay = [sum |-> Vo!Sum(v3, Vo!Heaviest), over |-> Cardinality(Vo!Heaviest)]
          /\ Vo!Sum(v3, Vo!Heaviest) \in Nat /\ Cardinality(Vo!Heaviest) \in Nat \ {0}
      BY <2>3, HeaviestMean
    <3>2. PICK c \in Nat :
            /\ Vo!Sum(v3, S) \in Nat /\ Cardinality(S) \in Nat
            /\ Vo!Sum(v3, S) + c * Cardinality(Vo!Heaviest) <= Vo!Sum(v3, Vo!Heaviest) + c * Cardinality(S)
            /\ c * Cardinality(Vo!Heaviest) <= Vo!Sum(v3, Vo!Heaviest)
      BY <2>3, HeaviestMean
    <3>3. Vo!Room(s) * (Cardinality(Vo!Heaviest) * 100 * 24) >= Vo!Sum(v3, Vo!Heaviest) * (100 + Vo!Headroom) * Vo!Asked(s)
      BY <1>4, <3>1 DEF Vo!Met, Vo!Needed
    <3> DEFINE days == Vo!Asked(s) \div 24
    <3>4. days \in Nat /\ Cardinality(S) <= days /\ Cardinality(Vo!Heaviest) <= days /\ days * 24 <= Vo!Asked(s)
      BY <1>4, <2>1, <3>1, <3>2
    <3> HIDE DEF days
    <3>5. Vo!Sum(v3, Vo!Heaviest) * days <= Vo!Room(s) * Cardinality(Vo!Heaviest)
      <4>1. Vo!Headroom \in Nat
        BY SizesClamped
      <4>2. \A sum, over, room, asked, d, h \in Nat :
              d * 24 <= asked /\ room * (over * 100 * 24) >= sum * (100 + h) * asked => sum * d <= room * over
        <5> SUFFICES ASSUME NEW sum \in Nat, NEW over \in Nat, NEW room \in Nat, NEW asked \in Nat,
                            NEW d \in Nat, NEW h \in Nat,
                            d * 24 <= asked, room * (over * 100 * 24) >= sum * (100 + h) * asked
                     PROVE  sum * d <= room * over
          OBVIOUS
        <5>1. sum * (100 * (d * 24)) <= sum * ((100 + h) * asked)
          <6>1. 100 * (d * 24) <= (100 + h) * asked
            OBVIOUS
          <6> QED
            BY <6>1
        <5> QED
          BY <5>1
      <4> QED
        BY <2>1, <3>1, <3>3, <3>4, <4>1, <4>2
    <3>6. \A room, asked \in Nat :
            Cardinality(Vo!Heaviest) # 0 /\ Cardinality(S) <= asked /\ Cardinality(Vo!Heaviest) <= asked
            /\ Vo!Sum(v3, Vo!Heaviest) * asked <= room * Cardinality(Vo!Heaviest) => Vo!Sum(v3, S) <= room
      BY <3>1, <3>2, Means
    <3> QED
      BY <2>1, <3>1, <3>4, <3>5, <3>6
  <2> QED
    BY <2>2, <2>3
<1>5. \A s \in Vo!Store : Vo!PolicyMatches(s) = "YES" => Vo!Retention(s) = Vo!Hours(v6[s])
  BY DEF Vo!PolicyMatches, Vo!Retention
<1>6. Vo!Spiked => Vo!Latest < v12.at /\ \E d \in DOMAIN v12.docs : d < Vo!Latest /\ v12.docs[d] < v12.docs[Vo!Latest]
  BY SpikesAreNew
<1> QED
  <2>1. \A s \in Vo!Store : Vo!Met(s) = "YES" /\ Vo!Cardinality(Vo!Heaviest) * 24 <= Vo!Asked(s) =>
          \A S \in SUBSET Vo!Window : Vo!Cardinality(S) * 24 <= Vo!Asked(s) => Vo!Sum(v3, S) <= Vo!Room(s)
    BY <1>4, VolumeCounts
  <2> QED
    BY <1>1, <1>2, <1>3, <1>5, <1>6, <2>1 DEF Vo!FiguresAreSafe

-----------------------------------------------------------------------------
(* RuleBook *)

\* A field with one of its operators, and any value, is a condition.
LEMMA CondBelongs ==
  ASSUME NEW fields, NEW f \in DOMAIN fields, NEW i \in DOMAIN fields[f].ops, NEW v \in {"", "odd", "fits"}
  PROVE  Rb!Cond(f, fields[f].ops[i], v) \in Rb!Conditions(fields)
<1>1. fields[f].ops[i] \in Rb!OpsOf(fields)
  <2> DEFINE A(g) == {fields[g].ops[j] : j \in DOMAIN fields[g].ops}
  <2>1. fields[f].ops[i] \in A(f)
    OBVIOUS
  <2> QED
    BY <2>1, Zenon DEF Rb!OpsOf
<1> QED
  BY <1>1 DEF Rb!Conditions, Rb!Cond, Rb!HasOp

\* The other way round: what a condition is made of.
LEMMA CondHas ==
  ASSUME NEW fields, NEW c \in Rb!Conditions(fields)
  PROVE  /\ c.field \in DOMAIN fields /\ c.value \in {"", "odd", "fits"} /\ Rb!HasOp(c, fields)
         /\ \A op : [c EXCEPT !.op = op] = Rb!Cond(c.field, op, c.value)
         /\ \A v : [c EXCEPT !.value = v] = Rb!Cond(c.field, c.op, v)
<1>1. c \in [field : DOMAIN fields, op : Rb!OpsOf(fields), value : {"", "odd", "fits"}] /\ Rb!HasOp(c, fields)
  BY DEF Rb!Conditions
<1>2. c = Rb!Cond(c.field, c.op, c.value)
  BY <1>1 DEF Rb!Cond
<1>3. \A f, o, x, op, v : /\ [Rb!Cond(f, o, x) EXCEPT !.op = op] = Rb!Cond(f, op, x)
                        /\ [Rb!Cond(f, o, x) EXCEPT !.value = v] = Rb!Cond(f, o, v)
  BY DEF Rb!Cond
<1>4. ASSUME NEW op PROVE [c EXCEPT !.op = op] = Rb!Cond(c.field, op, c.value)
  BY <1>2, <1>3
<1>5. ASSUME NEW v PROVE [c EXCEPT !.value = v] = Rb!Cond(c.field, c.op, v)
  BY <1>2, <1>3
<1> QED
  BY <1>1, <1>4, <1>5

LEMMA Vocabulary ==
  /\ \A f \in DOMAIN Rb!FIELDS : 1 \in DOMAIN Rb!FIELDS[f].ops
  /\ \A f \in DOMAIN Rb!CLUSTER_FIELDS : 1 \in DOMAIN Rb!CLUSTER_FIELDS[f].ops
<1>1. \A f \in DOMAIN Rb!FIELDS : 1 \in DOMAIN Rb!FIELDS[f].ops
  BY DEF Rb!FIELDS
<1>2. \A f \in DOMAIN Rb!CLUSTER_FIELDS : 1 \in DOMAIN Rb!CLUSTER_FIELDS[f].ops
  BY DEF Rb!CLUSTER_FIELDS
<1> QED
  BY <1>1, <1>2

LEMMA Used ==
  /\ Rb!Cond("day", "olderThan", "fits") \in Rb!Conditions(Rb!FIELDS)
  /\ Rb!Cond("name", "contains", "") \in Rb!Conditions(Rb!FIELDS)
  /\ Rb!Cond("name", "startsWith", "fits") \in Rb!Conditions(Rb!FIELDS)
  /\ Rb!Cond("backedUp", "is", "fits") \in Rb!Conditions(Rb!FIELDS)
  /\ Rb!Cond("diskPercent", "greaterThan", "fits") \in Rb!Conditions(Rb!CLUSTER_FIELDS)
  /\ Rb!Cond("ilmState", "is", "fits") \in Rb!Conditions(Rb!CLUSTER_FIELDS)
  /\ Rb!Cond("slmState", "is", "fits") \in Rb!Conditions(Rb!CLUSTER_FIELDS)
  /\ Rb!Cond("retentionFits", "is", "fits") \in Rb!Conditions(Rb!CLUSTER_FIELDS)
<1>1. /\ "day" \in DOMAIN Rb!FIELDS /\ "name" \in DOMAIN Rb!FIELDS /\ "backedUp" \in DOMAIN Rb!FIELDS
      /\ Rb!FIELDS["day"].ops = <<"olderThan", "newerThan">> /\ Rb!FIELDS["backedUp"].ops = <<"is">>
      /\ Rb!FIELDS["name"].ops = <<"contains", "notContains", "startsWith", "endsWith">>
  BY DEF Rb!FIELDS
<1>2. /\ "diskPercent" \in DOMAIN Rb!CLUSTER_FIELDS /\ "ilmState" \in DOMAIN Rb!CLUSTER_FIELDS
      /\ "slmState" \in DOMAIN Rb!CLUSTER_FIELDS /\ "retentionFits" \in DOMAIN Rb!CLUSTER_FIELDS
      /\ Rb!CLUSTER_FIELDS["diskPercent"].ops = <<"greaterThan", "lessThan">>
      /\ Rb!CLUSTER_FIELDS["ilmState"].ops = <<"is", "isNot">>
      /\ Rb!CLUSTER_FIELDS["slmState"].ops = <<"is", "isNot">>
      /\ Rb!CLUSTER_FIELDS["retentionFits"].ops = <<"is">>
  BY DEF Rb!CLUSTER_FIELDS
<1>3. /\ 1 \in DOMAIN Rb!FIELDS["day"].ops /\ Rb!FIELDS["day"].ops[1] = "olderThan"
      /\ 1 \in DOMAIN Rb!FIELDS["name"].ops /\ Rb!FIELDS["name"].ops[1] = "contains"
      /\ 3 \in DOMAIN Rb!FIELDS["name"].ops /\ Rb!FIELDS["name"].ops[3] = "startsWith"
      /\ 1 \in DOMAIN Rb!FIELDS["backedUp"].ops /\ Rb!FIELDS["backedUp"].ops[1] = "is"
  BY <1>1
<1>4. /\ 1 \in DOMAIN Rb!CLUSTER_FIELDS["diskPercent"].ops /\ Rb!CLUSTER_FIELDS["diskPercent"].ops[1] = "greaterThan"
      /\ 1 \in DOMAIN Rb!CLUSTER_FIELDS["ilmState"].ops /\ Rb!CLUSTER_FIELDS["ilmState"].ops[1] = "is"
      /\ 1 \in DOMAIN Rb!CLUSTER_FIELDS["slmState"].ops /\ Rb!CLUSTER_FIELDS["slmState"].ops[1] = "is"
      /\ 1 \in DOMAIN Rb!CLUSTER_FIELDS["retentionFits"].ops /\ Rb!CLUSTER_FIELDS["retentionFits"].ops[1] = "is"
  BY <1>2
<1> QED
  BY <1>1, <1>2, <1>3, <1>4, CondBelongs

\* A change of one part of a rule leaves it a rule.
LEMMA ShapesKeep ==
  ASSUME NEW r, Rb!Shaped(r)
  PROVE  /\ \A c \in Seq(Rb!Conditions(Rb!FIELDS)) : Rb!Shaped([r EXCEPT !.conditions = c])
         /\ \A w \in Seq(Rb!Conditions(Rb!CLUSTER_FIELDS)) : Rb!Shaped([r EXCEPT !.when = w])
         /\ \A x : /\ Rb!Shaped([r EXCEPT !.named = x]) /\ Rb!Shaped([r EXCEPT !.clusters = x])
                   /\ Rb!Shaped([r EXCEPT !.trigger = x]) /\ Rb!Shaped([r EXCEPT !.count = x])
                   /\ Rb!Shaped([r EXCEPT !.scope = x]) /\ Rb!Shaped([r EXCEPT !.days = x])
                   /\ Rb!Shaped([r EXCEPT !.action = x]) /\ Rb!Shaped([r EXCEPT !.alert = x])
                   /\ Rb!Shaped([r EXCEPT !.webhook = x])
<1>1. \A c \in Seq(Rb!Conditions(Rb!FIELDS)) : Rb!Shaped([r EXCEPT !.conditions = c])
  BY DEF Rb!Shaped
<1>2. \A w \in Seq(Rb!Conditions(Rb!CLUSTER_FIELDS)) : Rb!Shaped([r EXCEPT !.when = w])
  BY DEF Rb!Shaped
<1>3. \A x : /\ Rb!Shaped([r EXCEPT !.named = x]) /\ Rb!Shaped([r EXCEPT !.clusters = x])
             /\ Rb!Shaped([r EXCEPT !.trigger = x]) /\ Rb!Shaped([r EXCEPT !.count = x])
             /\ Rb!Shaped([r EXCEPT !.scope = x])
  BY DEF Rb!Shaped
<1>4. \A x : /\ Rb!Shaped([r EXCEPT !.days = x])
             /\ Rb!Shaped([r EXCEPT !.action = x]) /\ Rb!Shaped([r EXCEPT !.alert = x])
             /\ Rb!Shaped([r EXCEPT !.webhook = x])
  BY DEF Rb!Shaped
<1> QED
  BY <1>1, <1>2, <1>3, <1>4

LEMMA FirstShapes == Rb!Shaped(Rb!blankRule) /\ Rb!Shaped(Rb!diskPressurePreset)
<1>1. /\ Rb!blankRule.conditions = <<Rb!Cond("day", "olderThan", "fits")>> /\ Rb!blankRule.when = <<>>
      /\ "conditions" \in DOMAIN Rb!blankRule /\ "when" \in DOMAIN Rb!blankRule
  BY DEF Rb!blankRule
<1>2. /\ DOMAIN Rb!diskPressurePreset = DOMAIN Rb!blankRule
      /\ Rb!diskPressurePreset.conditions = <<Rb!Cond("name", "startsWith", "fits"), Rb!Cond("backedUp", "is", "fits")>>
      /\ Rb!diskPressurePreset.when =
           <<Rb!Cond("diskPercent", "greaterThan", "fits"), Rb!Cond("ilmState", "is", "fits"),
             Rb!Cond("slmState", "is", "fits"), Rb!Cond("retentionFits", "is", "fits")>>
  BY DEF Rb!diskPressurePreset
<1>3. \A S : /\ <<>> \in Seq(S)
             /\ \A a \in S : <<a>> \in Seq(S)
             /\ \A a, b \in S : <<a, b>> \in Seq(S)
             /\ \A a, b, c, d \in S : <<a, b, c, d>> \in Seq(S)
  OBVIOUS
<1>4. Rb!blankRule.conditions \in Seq(Rb!Conditions(Rb!FIELDS)) /\ Rb!blankRule.when \in Seq(Rb!Conditions(Rb!CLUSTER_FIELDS))
  BY <1>1, <1>3, Used, Zenon
<1>5. /\ Rb!diskPressurePreset.conditions \in Seq(Rb!Conditions(Rb!FIELDS))
      /\ Rb!diskPressurePreset.when \in Seq(Rb!Conditions(Rb!CLUSTER_FIELDS))
  BY <1>2, <1>3, Used, Zenon
<1> QED
  BY <1>2, <1>4, <1>5 DEF Rb!Shaped

\* Each choice in a row leaves the operator one of the field's.
LEMMA RowsBelong ==
  /\ \A c \in Rb!Conditions(Rb!FIELDS) : Rb!conditionRow(c) \subseteq Rb!Conditions(Rb!FIELDS)
  /\ \A c \in Rb!Conditions(Rb!CLUSTER_FIELDS) : Rb!whenRow(c) \subseteq Rb!Conditions(Rb!CLUSTER_FIELDS)
<1>1. \A kind : Rb!Values(kind) \subseteq {"", "odd", "fits"}
  BY DEF Rb!Values
<1>2. ASSUME NEW fields, NEW c \in Rb!Conditions(fields)
      PROVE  /\ \A i \in DOMAIN fields[c.field].ops :
                  [c EXCEPT !.op = fields[c.field].ops[i]] \in Rb!Conditions(fields)
             /\ \A v \in {"", "odd", "fits"} : [c EXCEPT !.value = v] \in Rb!Conditions(fields)
  <2>1. /\ c.field \in DOMAIN fields /\ c.value \in {"", "odd", "fits"} /\ Rb!HasOp(c, fields)
        /\ \A op : [c EXCEPT !.op = op] = Rb!Cond(c.field, op, c.value)
        /\ \A v : [c EXCEPT !.value = v] = Rb!Cond(c.field, c.op, v)
    BY CondHas, Zenon
  <2>2. \A i \in DOMAIN fields[c.field].ops : Rb!Cond(c.field, fields[c.field].ops[i], c.value) \in Rb!Conditions(fields)
    BY <2>1, CondBelongs, Zenon
  <2>3. PICK k \in DOMAIN fields[c.field].ops : fields[c.field].ops[k] = c.op
    BY <2>1, Zenon DEF Rb!HasOp
  <2>4. \A v \in {"", "odd", "fits"} : Rb!Cond(c.field, c.op, v) \in Rb!Conditions(fields)
    BY <2>1, <2>3, CondBelongs, Zenon
  <2>5. ASSUME NEW i \in DOMAIN fields[c.field].ops
        PROVE  [c EXCEPT !.op = fields[c.field].ops[i]] \in Rb!Conditions(fields)
    <3>1. [c EXCEPT !.op = fields[c.field].ops[i]] = Rb!Cond(c.field, fields[c.field].ops[i], c.value)
      BY <2>1
    <3> QED
      BY <2>2, <3>1
  <2>6. ASSUME NEW v \in {"", "odd", "fits"} PROVE [c EXCEPT !.value = v] \in Rb!Conditions(fields)
    <3>1. [c EXCEPT !.value = v] = Rb!Cond(c.field, c.op, v)
      BY <2>1
    <3> QED
      BY <2>4, <3>1
  <2> QED
    BY <2>5, <2>6
<1>3. ASSUME NEW c \in Rb!Conditions(Rb!FIELDS), NEW d \in Rb!conditionRow(c) PROVE d \in Rb!Conditions(Rb!FIELDS)
  <2>1. \A f \in DOMAIN Rb!FIELDS : Rb!Cond(f, Rb!First(Rb!FIELDS, f), IF Rb!FIELDS[f].value = "choice" THEN "fits" ELSE "") \in Rb!Conditions(Rb!FIELDS)
    BY Vocabulary, CondBelongs DEF Rb!First
  <2> QED
    <3>1. \A i \in DOMAIN Rb!FIELDS[c.field].ops : [c EXCEPT !.op = Rb!FIELDS[c.field].ops[i]] \in Rb!Conditions(Rb!FIELDS)
      BY <1>2, Zenon
    <3>2. \A v \in Rb!Values(Rb!FIELDS[c.field].value) : [c EXCEPT !.value = v] \in Rb!Conditions(Rb!FIELDS)
      <4>1. \A v \in {"", "odd", "fits"} : [c EXCEPT !.value = v] \in Rb!Conditions(Rb!FIELDS)
        BY <1>2, Zenon
      <4> QED
        BY <1>1, <4>1, Zenon
    <3> QED
      BY <2>1, <3>1, <3>2, Zenon DEF Rb!conditionRow
<1>4. ASSUME NEW c \in Rb!Conditions(Rb!CLUSTER_FIELDS), NEW d \in Rb!whenRow(c) PROVE d \in Rb!Conditions(Rb!CLUSTER_FIELDS)
  <2>1. \A f \in DOMAIN Rb!CLUSTER_FIELDS : Rb!Cond(f, Rb!First(Rb!CLUSTER_FIELDS, f), "fits") \in Rb!Conditions(Rb!CLUSTER_FIELDS)
    BY Vocabulary, CondBelongs DEF Rb!First
  <2> QED
    <3>1. \A i \in DOMAIN Rb!CLUSTER_FIELDS[c.field].ops : [c EXCEPT !.op = Rb!CLUSTER_FIELDS[c.field].ops[i]] \in Rb!Conditions(Rb!CLUSTER_FIELDS)
      BY <1>2, Zenon
    <3>2. \A v \in Rb!Values(Rb!CLUSTER_FIELDS[c.field].value) : [c EXCEPT !.value = v] \in Rb!Conditions(Rb!CLUSTER_FIELDS)
      <4>1. \A v \in {"", "odd", "fits"} : [c EXCEPT !.value = v] \in Rb!Conditions(Rb!CLUSTER_FIELDS)
        BY <1>2, Zenon
      <4> QED
        BY <1>1, <4>1, Zenon
    <3> QED
      BY <2>1, <3>1, <3>2, Zenon DEF Rb!whenRow
<1> QED
  BY <1>3, <1>4

LEMMA ListsKeep ==
  ASSUME NEW S, NEW s \in Seq(S)
  PROVE  /\ \A c \in S : Append(s, c) \in Seq(S)
         /\ \A i \in DOMAIN s : Rb!Without(s, i) \in Seq(S) /\ \A c \in S : Rb!Replaced(s, i, c) \in Seq(S)
<1>1. ASSUME NEW i \in DOMAIN s PROVE Rb!Without(s, i) \in Seq(S)
  BY DEF Rb!Without
<1>2. ASSUME NEW i \in DOMAIN s, NEW c \in S PROVE Rb!Replaced(s, i, c) \in Seq(S)
  BY DEF Rb!Replaced
<1> QED
  BY <1>1, <1>2

RuleBookInv == Rb!BookInv /\ Rb!BuilderInv /\ Rb!PanesInv /\ Rb!SavingInv

LEMMA RuleBookInit == Rb!Init => Rb!BookInv /\ Rb!BuilderInv /\ Rb!PanesInv /\ Rb!SavingInv
<1> SUFFICES ASSUME Rb!Init PROVE Rb!BookInv /\ Rb!BuilderInv /\ Rb!PanesInv /\ Rb!SavingInv
  OBVIOUS
<1> USE DEF Rb!Init, Rb!Idle
<1>1. Rb!BookInv
  BY DEF Rb!BookInv
<1>2. Rb!BuilderInv /\ Rb!PanesInv
  BY DEF Rb!BuilderInv, Rb!PanesInv
<1>3. Rb!SavingInv
  BY DEF Rb!SavingInv, Rb!Quiet
<1> QED
  BY <1>1, <1>2, <1>3

\* A change in the builder that leaves its conditions in the vocabulary, and the screen of the rule.
LEMMA BuilderMoves ==
  ASSUME RuleBookInv, v4 # None, v6' = TRUE, UNCHANGED <<v7, v8, v9, Rb!bookVars>>,
         DOMAIN v4' = {"id", "rule", "existing", "cluster", "shown"},
         v4'.id = v4.id, v4'.existing = v4.existing,
         Rb!Shaped(v4'.rule), Rb!ScreenTellsTheRule'
  PROVE  RuleBookInv'
<1> USE DEF RuleBookInv
<1>1. Rb!BookInv'
  BY DEF Rb!BookInv, Rb!bookVars
<1>2. Rb!BuilderInv'
  BY DEF Rb!BuilderInv
<1>3. Rb!PanesInv'
  BY DEF Rb!PanesInv
<1>4. Rb!SavingInv'
  BY DEF Rb!SavingInv, Rb!bookVars, Rb!Quiet
<1> QED
  BY <1>1, <1>2, <1>3, <1>4

LEMMA ChangeStep == ASSUME RuleBookInv, v4 # None, NEW r, Rb!Shaped(r), Rb!Change(r) PROVE RuleBookInv'
<1>1. DOMAIN v4 = {"id", "rule", "existing", "cluster", "shown"}
  BY DEF RuleBookInv, Rb!BuilderInv
<1>2. v4' = [v4 EXCEPT !.rule = r, !.shown = r] /\ v6' = TRUE
      /\ UNCHANGED <<v7, v8, v9, Rb!bookVars>>
  BY DEF Rb!Change, Rb!refresh
<1>3. /\ DOMAIN v4' = DOMAIN v4 /\ v4'.id = v4.id /\ v4'.existing = v4.existing
      /\ v4'.rule = r /\ v4'.shown = r
  BY <1>2
<1>4. Rb!ScreenTellsTheRule'
  BY <1>3 DEF Rb!ScreenTellsTheRule
<1> QED
  BY <1>1, <1>2, <1>4, BuilderMoves

LEMMA BuildingStep ==
  ASSUME RuleBookInv, Rb!drawConditions \/ Rb!drawWhen \/ Rb!Controls \/ Rb!Template \/ Rb!PreviewAgainst
  PROVE  RuleBookInv'
<1> DEFINE r == v4.rule
<1>1. /\ v4 # None /\ Rb!Shaped(r)
      /\ r.conditions \in Seq(Rb!Conditions(Rb!FIELDS)) /\ r.when \in Seq(Rb!Conditions(Rb!CLUSTER_FIELDS))
      /\ DOMAIN v4 = {"id", "rule", "existing", "cluster", "shown"} /\ Rb!ScreenTellsTheRule
  BY DEF Rb!drawConditions, Rb!drawWhen, Rb!Controls, Rb!Template, Rb!PreviewAgainst, RuleBookInv, Rb!BuilderInv, Rb!Shaped
<1>2. CASE Rb!drawConditions
  <2>1. ASSUME NEW s \in Seq(Rb!Conditions(Rb!FIELDS)), Rb!Change([r EXCEPT !.conditions = s]) PROVE RuleBookInv'
    <3>1. Rb!Shaped([r EXCEPT !.conditions = s])
      BY <1>1, ShapesKeep
    <3> QED
      BY <1>1, <2>1, <3>1, ChangeStep
  <2>2. CASE Rb!Change([r EXCEPT !.conditions = Append(r.conditions, Rb!Cond("name", "contains", ""))])
    <3>1. Append(r.conditions, Rb!Cond("name", "contains", "")) \in Seq(Rb!Conditions(Rb!FIELDS))
      BY <1>1, Used, ListsKeep
    <3> QED
      BY <2>1, <2>2, <3>1
  <2>3. ASSUME NEW i \in DOMAIN r.conditions, Rb!Change([r EXCEPT !.conditions = Rb!Without(r.conditions, i)]) PROVE RuleBookInv'
    <3>1. Rb!Without(r.conditions, i) \in Seq(Rb!Conditions(Rb!FIELDS))
      BY <1>1, ListsKeep
    <3> QED
      BY <2>1, <2>3, <3>1
  <2>4. ASSUME NEW i \in DOMAIN r.conditions, NEW c \in Rb!conditionRow(r.conditions[i]),
               Rb!Change([r EXCEPT !.conditions = Rb!Replaced(r.conditions, i, c)])
        PROVE  RuleBookInv'
    <3>1. r.conditions[i] \in Rb!Conditions(Rb!FIELDS)
      BY <1>1
    <3>2. c \in Rb!Conditions(Rb!FIELDS)
      BY <3>1, RowsBelong
    <3>3. Rb!Replaced(r.conditions, i, c) \in Seq(Rb!Conditions(Rb!FIELDS))
      BY <1>1, <3>2, ListsKeep
    <3> QED
      BY <2>1, <2>4, <3>3
  <2> QED
    BY <1>2, <2>2, <2>3, <2>4 DEF Rb!drawConditions
<1>3. CASE Rb!drawWhen
  <2>1. ASSUME NEW s \in Seq(Rb!Conditions(Rb!CLUSTER_FIELDS)), Rb!Change([r EXCEPT !.when = s]) PROVE RuleBookInv'
    <3>1. Rb!Shaped([r EXCEPT !.when = s])
      BY <1>1, ShapesKeep
    <3> QED
      BY <1>1, <2>1, <3>1, ChangeStep
  <2>2. CASE Rb!Change([r EXCEPT !.when = Append(r.when, Rb!Cond("diskPercent", "greaterThan", "fits"))])
    <3>1. Append(r.when, Rb!Cond("diskPercent", "greaterThan", "fits")) \in Seq(Rb!Conditions(Rb!CLUSTER_FIELDS))
      BY <1>1, Used, ListsKeep
    <3> QED
      BY <2>1, <2>2, <3>1
  <2>3. ASSUME NEW i \in DOMAIN r.when, Rb!Change([r EXCEPT !.when = Rb!Without(r.when, i)]) PROVE RuleBookInv'
    <3>1. Rb!Without(r.when, i) \in Seq(Rb!Conditions(Rb!CLUSTER_FIELDS))
      BY <1>1, ListsKeep
    <3> QED
      BY <2>1, <2>3, <3>1
  <2>4. ASSUME NEW i \in DOMAIN r.when, NEW c \in Rb!whenRow(r.when[i]),
               Rb!Change([r EXCEPT !.when = Rb!Replaced(r.when, i, c)])
        PROVE  RuleBookInv'
    <3>1. r.when[i] \in Rb!Conditions(Rb!CLUSTER_FIELDS)
      BY <1>1
    <3>2. c \in Rb!Conditions(Rb!CLUSTER_FIELDS)
      BY <3>1, RowsBelong
    <3>3. Rb!Replaced(r.when, i, c) \in Seq(Rb!Conditions(Rb!CLUSTER_FIELDS))
      BY <1>1, <3>2, ListsKeep
    <3> QED
      BY <2>1, <2>4, <3>3
  <2> QED
    BY <1>3, <2>2, <2>3, <2>4 DEF Rb!drawWhen
<1>4. CASE Rb!Controls
  <2>1. PICK q : Rb!Shaped(q) /\ Rb!Change(q)
    BY <1>1, <1>4, ShapesKeep DEF Rb!Controls
  <2> QED
    BY <1>1, <2>1, ChangeStep
<1>5. CASE Rb!Template
  <2>1. /\ v6' = TRUE /\ UNCHANGED <<v7, v8, v9, Rb!bookVars>>
        /\ v4' = [v4 EXCEPT !.rule = Rb!diskPressurePreset,
                            !.shown = Rb!redrawAll(v4.shown, Rb!diskPressurePreset)]
    BY <1>5 DEF Rb!Template, Rb!refresh
  <2>2. /\ DOMAIN v4' = DOMAIN v4 /\ v4'.id = v4.id /\ v4'.existing = v4.existing
        /\ v4'.rule = Rb!diskPressurePreset /\ v4'.shown = Rb!redrawAll(v4.shown, Rb!diskPressurePreset)
    BY <2>1
  <2>3. Rb!ScreenTellsTheRule'
    BY <2>2 DEF Rb!ScreenTellsTheRule, Rb!redrawAll
  <2> QED
    BY <1>1, <2>1, <2>3, FirstShapes, BuilderMoves
<1>6. CASE Rb!PreviewAgainst
  <2>1. PICK c : v4' = [v4 EXCEPT !.cluster = c]
    BY <1>6 DEF Rb!PreviewAgainst
  <2>2. v6' = TRUE /\ UNCHANGED <<v7, v8, v9, Rb!bookVars>>
    BY <1>6 DEF Rb!PreviewAgainst, Rb!refresh
  <2>3. /\ DOMAIN v4' = DOMAIN v4 /\ v4'.id = v4.id /\ v4'.existing = v4.existing
        /\ v4'.rule = v4.rule /\ v4'.shown = v4.shown
    BY <2>1
  <2>4. Rb!ScreenTellsTheRule'
    BY <1>1, <2>3 DEF Rb!ScreenTellsTheRule
  <2> QED
    BY <1>1, <2>2, <2>3, <2>4, BuilderMoves
<1> QED
  BY <1>2, <1>3, <1>4, <1>5, <1>6

LEMMA OpeningStep == ASSUME RuleBookInv, Rb!ruleBuilder PROVE RuleBookInv'
<1> USE DEF RuleBookInv
<1>1. PICK x \in {y \in Name : v2[y] # None} \cup Rb!NewId, c \in {CHOOSE d \in Cluster : TRUE, None} :
        v4' = [id |-> x, rule |-> IF v2[x] = None THEN Rb!blankRule ELSE v2[x], existing |-> v2[x],
               cluster |-> c, shown |-> IF v2[x] = None THEN Rb!blankRule ELSE v2[x]]
  BY DEF Rb!ruleBuilder
<1>2. /\ v6' = TRUE /\ v7' = <<>> /\ v8' = [match |-> None, action |-> None]
      /\ v9' = FALSE /\ v13' = (v13 \/ ~Rb!Quiet)
      /\ UNCHANGED <<v1, v5, v2, v3, v10, v11, v12>>
  BY DEF Rb!ruleBuilder
<1>3. x \in Name
  BY DEF Rb!NewId
<1>4. Rb!BookInv'
  BY <1>2 DEF Rb!BookInv
<1>5. Rb!BuilderInv'
  <2>1. Rb!Shaped(IF v2[x] = None THEN Rb!blankRule ELSE v2[x]) /\ (v2[x] # None => Rb!Shaped(v2[x]))
    BY <1>3, FirstShapes DEF Rb!BookInv
  <2> QED
    BY <1>1, <1>3, <2>1 DEF Rb!BuilderInv, Rb!ScreenTellsTheRule
<1>6. Rb!PanesInv'
  BY <1>2 DEF Rb!PanesInv
<1>7. Rb!SavingInv'
  BY <1>1, <1>2 DEF Rb!SavingInv, Rb!Quiet
<1> QED
  BY <1>4, <1>5, <1>6, <1>7

\* PanesInv of the next state, piece by piece.
LEMMA PanesFrom ==
  ASSUME v9' \in BOOLEAN, v6' \in BOOLEAN, v8' = [match |-> v8'.match, action |-> v8'.action],
         ~v9' => v7' = <<>> \/ v7' = <<v7'[1]>>,
         ~v9' /\ ~v6' /\ v7' = <<>> => v8'.match = Rb!Now' /\ v8'.action = Rb!Now',
         ~v9' /\ ~v6' /\ v7' # <<>> => v7'[1].of = Rb!Now',
         ~v9' /\ ~v6' /\ v7' # <<>> /\ v7'[1].pane = "action" => v8'.match = Rb!Now'
  PROVE  Rb!PanesInv'
BY DEF Rb!PanesInv

\* A step of the previews only.
LEMMA PreviewMoves ==
  ASSUME RuleBookInv, Rb!PanesInv', UNCHANGED <<v4, v5, Rb!bookVars>>
  PROVE  RuleBookInv'
<1> USE DEF RuleBookInv
<1>1. Rb!BookInv'
  BY DEF Rb!BookInv, Rb!bookVars
<1>2. Rb!BuilderInv'
  BY DEF Rb!BuilderInv, Rb!ScreenTellsTheRule
<1>3. Rb!SavingInv'
  BY DEF Rb!SavingInv, Rb!bookVars, Rb!Quiet
<1> QED
  BY <1>1, <1>2, <1>3

LEMMA PreviewStep ==
  ASSUME RuleBookInv, NEW k \in 1..2, Rb!runPreviews \/ Rb!MatchAnswer(k) \/ Rb!ActionAnswer(k)
  PROVE  RuleBookInv'
<1>1. Rb!PanesInv /\ UNCHANGED <<v4, v5, Rb!bookVars>> /\ v4 # None
  BY DEF RuleBookInv, Rb!runPreviews, Rb!MatchAnswer, Rb!ActionAnswer
<1>2. Rb!Now' = Rb!Now
  BY <1>1 DEF Rb!Now
<1>3. ASSUME Rb!runPreviews PROVE Rb!PanesInv'
  <2>1. v6' = FALSE /\ v9' = (v9 \/ v7 # <<>>)
    BY <1>3 DEF Rb!runPreviews
  <2>2. CASE v8' = [match |-> Rb!Now, action |-> Rb!Now] /\ UNCHANGED v7
    <3>1. ~v9' => v7' = <<>>
      BY <2>1, <2>2
    <3>2. v8' = [match |-> v8'.match, action |-> v8'.action] /\ v8'.match = Rb!Now' /\ v8'.action = Rb!Now'
      BY <1>2, <2>2
    <3>3. v6' \in BOOLEAN /\ v9' \in BOOLEAN
      BY <2>1
    <3> QED
      BY <3>1, <3>2, <3>3, PanesFrom
  <2>3. CASE v7' = Append(v7, [pane |-> "match", of |-> Rb!Now]) /\ UNCHANGED v8
    <3>1. v7 = <<>> => v7' = <<[pane |-> "match", of |-> Rb!Now]>>
      BY <2>3
    <3>2. ~v9' => v7 = <<>>
      BY <2>1
    <3>3. v7 = <<>> => v7' = <<v7'[1]>> /\ v7'[1].of = Rb!Now /\ v7'[1].pane # "action" /\ v7' # <<>>
      BY <3>1
    <3>4. v6' \in BOOLEAN /\ v9' \in BOOLEAN
      BY <2>1
    <3>5. v8' = [match |-> v8'.match, action |-> v8'.action]
      BY <1>1, <2>3 DEF Rb!PanesInv
    <3> QED
      BY <1>2, <3>2, <3>3, <3>4, <3>5, PanesFrom
  <2> QED
    BY <1>3, <2>2, <2>3 DEF Rb!runPreviews
<1>4. ASSUME Rb!MatchAnswer(k) PROVE Rb!PanesInv'
  <2>1. /\ k \in DOMAIN v7 /\ v8' = [v8 EXCEPT !.match = Rb!Mounted(v7[k])]
        /\ v7' = [v7 EXCEPT ![k] = [pane |-> "action", of |-> Rb!Now]]
        /\ UNCHANGED <<v6, v9>>
    BY <1>4 DEF Rb!MatchAnswer
  <2>2. ASSUME v7 = <<v7[1]>>
        PROVE  k = 1 /\ v7' = <<[pane |-> "action", of |-> Rb!Now]>>
    <3> DEFINE p == v7[1]
    <3>1. v7 = <<p>>
      BY <2>2
    <3> HIDE DEF p
    <3> QED
      BY <2>1, <3>1
  <2>3. ~v9 => v7 = <<v7[1]>>
    <3>1. v7 # <<>>
      BY <2>1
    <3> QED
      BY <1>1, <3>1 DEF Rb!PanesInv
  <2>4. ~v9 => v7' = <<v7'[1]>> /\ v7'[1].of = Rb!Now /\ v7' # <<>>
    BY <2>2, <2>3
  <2>5. ~v9 /\ ~v6 => v7[k].of = Rb!Now
    BY <1>1, <2>1 DEF Rb!PanesInv
  <2>6. v8'.match = Rb!Mounted(v7[k]) /\ v8' = [match |-> v8'.match, action |-> v8'.action]
    BY <1>1, <2>1 DEF Rb!PanesInv
  <2>7. ~v9 /\ ~v6 => v8'.match = Rb!Now
    BY <2>5, <2>6 DEF Rb!Mounted
  <2> QED
    <3>1. v6' \in BOOLEAN /\ v9' \in BOOLEAN /\ v9' = v9 /\ v6' = v6
      BY <1>1, <2>1 DEF Rb!PanesInv
    <3> QED
      BY <1>2, <2>4, <2>6, <2>7, <3>1, PanesFrom
<1>5. ASSUME Rb!ActionAnswer(k) PROVE Rb!PanesInv'
  <2>1. /\ k \in DOMAIN v7 /\ v8' = [v8 EXCEPT !.action = Rb!Mounted(v7[k])]
        /\ v7[k].pane = "action" /\ v7' = Rb!Without(v7, k)
        /\ UNCHANGED <<v6, v9>>
    BY <1>5 DEF Rb!ActionAnswer
  <2>2. ~v9 => v7 = <<v7[1]>>
    <3>1. v7 # <<>>
      BY <2>1
    <3> QED
      BY <1>1, <3>1 DEF Rb!PanesInv
  <2>3. ASSUME v7 = <<v7[1]>>
        PROVE  k = 1 /\ v7' = <<>>
    <3> DEFINE p == v7[1]
    <3>1. v7 = <<p>>
      BY <2>3
    <3> HIDE DEF p
    <3>2. k = 1 /\ Len(v7) = 1
      BY <2>1, <3>1
    <3> QED
      BY <2>1, <3>2 DEF Rb!Without
  <2>4. v8'.action = Rb!Mounted(v7[k]) /\ v8'.match = v8.match /\ v8' = [match |-> v8'.match, action |-> v8'.action]
    BY <1>1, <2>1 DEF Rb!PanesInv
  <2>5. ~v9 /\ ~v6 => v7[k].of = Rb!Now /\ v8.match = Rb!Now
    BY <1>1, <2>1 DEF Rb!PanesInv
  <2>6. ~v9 /\ ~v6 => v8'.action = Rb!Now /\ v8'.match = Rb!Now
    BY <2>4, <2>5 DEF Rb!Mounted
  <2> QED
    <3>1. v6' \in BOOLEAN /\ v9' \in BOOLEAN /\ v9' = v9 /\ v6' = v6
      BY <1>1, <2>1 DEF Rb!PanesInv
    <3> QED
      BY <1>2, <2>2, <2>3, <2>4, <2>6, <3>1, PanesFrom
<1> QED
  BY <1>1, <1>3, <1>4, <1>5, PreviewMoves

\* The builder closed, or not there before and after.
LEMMA ClosedInvs ==
  ASSUME v4' = None, v6' \in BOOLEAN, v9' \in BOOLEAN,
         v8' = [match |-> v8'.match, action |-> v8'.action]
  PROVE  Rb!BuilderInv' /\ Rb!PanesInv'
BY DEF Rb!BuilderInv, Rb!PanesInv

LEMMA CloseCloses == Rb!Close => v4' = None /\ Rb!BuilderInv' /\ Rb!PanesInv'
BY ClosedInvs DEF Rb!Close

LEMMA PutStep ==
  ASSUME RuleBookInv, NEW s \in 1..2, NEW x \in Name, NEW r, NEW was, Rb!Put(s, x, r, was), v4' = None,
         r # None => Rb!Shaped(r), was # None => Rb!Shaped(was),
         ~v13 /\ Rb!Quiet => was = v12[x]
  PROVE  Rb!BookInv' /\ Rb!SavingInv'
<1> USE DEF RuleBookInv
<1> DEFINE q == [id |-> x, was |-> was, text |-> v2', st |-> "asked"]
<1>1. /\ v10[s].st = "idle" /\ v2' = [v2 EXCEPT ![x] = r]
      /\ v10' = [v10 EXCEPT ![s] = q] /\ v13' = (v13 \/ ~Rb!Quiet)
      /\ UNCHANGED <<v1, v3, v12>>
  BY DEF Rb!Put
<1>2. /\ DOMAIN q = DOMAIN Rb!Idle /\ q.id = x /\ q.was = was /\ q.text = v2' /\ q.st = "asked"
  BY DEF Rb!Idle
<1> HIDE DEF q
<1>3. /\ v2' = [y \in Name |-> v2'[y]] /\ v2'[x] = r /\ \A y \in Name \ {x} : v2'[y] = v2[y]
  BY <1>1 DEF Rb!BookInv
<1>4. /\ DOMAIN v10' = 1..2 /\ v10'[s] = q /\ \A u \in 1..2 \ {s} : v10'[u] = v10[u]
  BY <1>1 DEF Rb!BookInv
<1>5. Rb!BookInv'
  BY <1>2, <1>3, <1>4 DEF Rb!BookInv
<1>6. Rb!SavingInv'
  <2>1. ASSUME ~v13'
        PROVE  /\ ~Rb!Quiet' /\ v2' = [v12 EXCEPT ![x] = r] /\ v3 = v12 /\ was = v12[x]
               /\ \A u \in 1..2 \ {s} : v10'[u].st = "idle"
    <3>1. ~v13 /\ Rb!Quiet
      BY <1>1, <2>1 DEF Rb!SavingInv
    <3>2. v2 = v12 /\ v3 = v12 /\ was = v12[x]
      BY <3>1 DEF Rb!SavingInv
    <3> QED
      BY <1>1, <1>2, <1>4, <3>1, <3>2 DEF Rb!Quiet
  <2> QED
    BY <1>1, <1>2, <1>4, <2>1 DEF Rb!SavingInv
<1> QED
  BY <1>5, <1>6

LEMMA CancelStep == ASSUME RuleBookInv, Rb!Cancel PROVE RuleBookInv'
<1> USE DEF RuleBookInv
<1>1. UNCHANGED Rb!bookVars /\ v4' = None /\ Rb!BuilderInv' /\ Rb!PanesInv'
  BY CloseCloses DEF Rb!Cancel
<1>2. Rb!BookInv'
  BY <1>1 DEF Rb!BookInv, Rb!bookVars
<1>3. Rb!SavingInv'
  BY <1>1 DEF Rb!SavingInv, Rb!bookVars, Rb!Quiet
<1> QED
  BY <1>1, <1>2, <1>3

LEMMA AskingStep ==
  ASSUME RuleBookInv, NEW s \in 1..2, Rb!edit(s) \/ Rb!destroy(s)
  PROVE  RuleBookInv'
<1>1. CASE Rb!edit(s)
  <2>1. v4 # None /\ Rb!Put(s, v4.id, v4.rule, v4.existing) /\ Rb!Close
    BY <1>1 DEF Rb!edit
  <2>2. /\ v4.id \in Name /\ Rb!Shaped(v4.rule) /\ (v4.existing # None => Rb!Shaped(v4.existing))
    BY <2>1 DEF RuleBookInv, Rb!BuilderInv
  <2>3. ~v13 => v4.existing = v12[v4.id]
    BY <2>1 DEF RuleBookInv, Rb!SavingInv
  <2>4. v4' = None /\ Rb!BuilderInv' /\ Rb!PanesInv'
    BY <2>1, CloseCloses
  <2>5. Rb!BookInv' /\ Rb!SavingInv'
    BY <2>1, <2>2, <2>3, <2>4, PutStep
  <2> QED
    BY <2>4, <2>5 DEF RuleBookInv
<1>2. CASE Rb!destroy(s)
  <2>1. PICK x \in Name : v2[x] # None /\ Rb!Put(s, x, None, v2[x])
    BY <1>2 DEF Rb!destroy
  <2>2. v4 = None /\ v4' = None /\ UNCHANGED Rb!builderVars
    BY <1>2 DEF Rb!destroy, Rb!builderVars
  <2>3. Rb!BuilderInv' /\ Rb!PanesInv'
    BY <2>2, ClosedInvs DEF RuleBookInv, Rb!PanesInv, Rb!builderVars
  <2>4. Rb!Shaped(v2[x])
    BY <2>1 DEF RuleBookInv, Rb!BookInv
  <2>5. ~v13 /\ Rb!Quiet => v2[x] = v12[x]
    BY DEF RuleBookInv, Rb!SavingInv
  <2>6. Rb!BookInv' /\ Rb!SavingInv'
    BY <2>1, <2>2, <2>4, <2>5, PutStep
  <2> QED
    BY <2>3, <2>6 DEF RuleBookInv
<1> QED
  BY <1>1, <1>2

LEMMA BuilderStays == ASSUME Rb!BuilderInv, Rb!PanesInv, UNCHANGED Rb!builderVars PROVE Rb!BuilderInv' /\ Rb!PanesInv'
<1>1. /\ v4' = v4 /\ v6' = v6 /\ v7' = v7 /\ v8' = v8 /\ v9' = v9
  BY DEF Rb!builderVars
<1>2. Rb!Now' = Rb!Now
  BY <1>1 DEF Rb!Now
<1>3. Rb!BuilderInv'
  BY <1>1 DEF Rb!BuilderInv, Rb!ScreenTellsTheRule
<1> QED
  BY <1>1, <1>2, <1>3 DEF Rb!PanesInv

LEMMA WrittenStep == ASSUME RuleBookInv, NEW s \in 1..2, Rb!Written(s) PROVE RuleBookInv'
<1> USE DEF RuleBookInv
<1> DEFINE q == [v10[s] EXCEPT !.st = "written"]
<1>1. /\ v10[s].st = "asked" /\ v3' = v10[s].text /\ v10' = [v10 EXCEPT ![s] = q]
      /\ UNCHANGED <<v2, v11, v12, v13, v1, Rb!builderVars>>
  BY DEF Rb!Written
<1>2. Rb!BuilderInv' /\ Rb!PanesInv'
  BY <1>1, BuilderStays
<1>3. /\ DOMAIN q = DOMAIN Rb!Idle /\ q.id = v10[s].id /\ q.was = v10[s].was /\ q.text = v10[s].text
      /\ q.st = "written"
  BY DEF Rb!BookInv, Rb!Idle
<1> HIDE DEF q
<1>4. DOMAIN v10' = 1..2 /\ v10'[s] = q /\ \A u \in 1..2 \ {s} : v10'[u] = v10[u]
  BY <1>1 DEF Rb!BookInv
<1>5. Rb!BookInv'
  BY <1>1, <1>3 DEF Rb!BookInv
<1>6. Rb!SavingInv'
  <2>1. v13' = v13 /\ v12' = v12 /\ v2' = v2 /\ v4' = v4
    BY <1>1 DEF Rb!builderVars
  <2>2. ASSUME ~v13
        PROVE  /\ ~Rb!Quiet' /\ v4 = None /\ \A u \in 1..2 \ {s} : v10[u].st = "idle"
               /\ v10[s].was = v12[v10[s].id] /\ v2 = v10[s].text
               /\ v2 = [v12 EXCEPT ![v10[s].id] = v2[v10[s].id]]
    <3>1. ~Rb!Quiet
      BY <1>1 DEF Rb!Quiet
    <3>2. ~Rb!Quiet'
      BY <1>3, <1>4 DEF Rb!Quiet
    <3> QED
      BY <1>1, <2>2, <3>1, <3>2 DEF Rb!SavingInv
  <2> QED
    BY <1>1, <1>3, <1>4, <2>1, <2>2 DEF Rb!SavingInv
<1> QED
  BY <1>2, <1>5, <1>6

\* The save that is answered is the only one, if nothing is in doubt; and then nothing is going on.
LEMMA SaveEnds ==
  ASSUME RuleBookInv, NEW s \in 1..2, v10[s].st # "idle", v10' = [v10 EXCEPT ![s] = Rb!Idle],
         UNCHANGED <<v1, v11, Rb!builderVars>>, v2' = [x \in Name |-> v2'[x]], v12' = [x \in Name |-> v12'[x]],
         \A x \in Name : v2'[x] # None => Rb!Shaped(v2'[x]), v13' \in BOOLEAN,
         ~v13' => ~v13 /\ v2' = v12' /\ v3' = v12'
  PROVE  RuleBookInv'
<1> USE DEF RuleBookInv
<1>1. Rb!BuilderInv' /\ Rb!PanesInv'
  BY BuilderStays
<1>2. DOMAIN v10' = 1..2 /\ v10'[s] = Rb!Idle /\ \A u \in 1..2 \ {s} : v10'[u] = v10[u]
  BY DEF Rb!BookInv
<1>3. Rb!Idle.st = "idle" /\ Rb!Idle.was = None
  BY DEF Rb!Idle
<1>4. Rb!BookInv'
  BY <1>3 DEF Rb!BookInv
<1>5. ~v13 => v4 = None /\ \A u \in 1..2 \ {s} : v10[u].st = "idle"
  <2>1. ~Rb!Quiet
    BY DEF Rb!Quiet
  <2> QED
    BY <2>1 DEF Rb!SavingInv
<1>6. ~v13' => v4' = None /\ \A u \in 1..2 : v10'[u].st = "idle"
  BY <1>2, <1>3, <1>5 DEF Rb!builderVars
<1>7. Rb!SavingInv'
  BY <1>6 DEF Rb!SavingInv
<1> QED
  BY <1>1, <1>4, <1>7

LEMMA AnswerStep ==
  ASSUME RuleBookInv, NEW s \in 1..2, Rb!Stored(s) \/ Rb!Failed(s)
  PROVE  RuleBookInv'
<1>1. /\ v10[s].st # "idle" /\ v10[s].id \in Name /\ (v10[s].was # None => Rb!Shaped(v10[s].was))
      /\ v2 = [x \in Name |-> v2[x]] /\ v12 = [x \in Name |-> v12[x]] /\ v13 \in BOOLEAN
      /\ \A x \in Name : v2[x] # None => Rb!Shaped(v2[x])
  BY DEF Rb!Stored, Rb!Failed, RuleBookInv, Rb!BookInv, Rb!SavingInv
<1>2. ~v13 =>
        /\ v10[s].was = v12[v10[s].id] /\ v2 = v10[s].text
        /\ v2 = [v12 EXCEPT ![v10[s].id] = v2[v10[s].id]]
        /\ v10[s].st = "asked" => v3 = v12
        /\ v10[s].st # "asked" => v3 = v10[s].text
  BY <1>1 DEF RuleBookInv, Rb!SavingInv
<1>3. CASE Rb!Stored(s)
  <2>1. /\ v10[s].st = "written" /\ v10' = [v10 EXCEPT ![s] = Rb!Idle]
        /\ v12' = [v12 EXCEPT ![v10[s].id] = v10[s].text[v10[s].id]]
        /\ UNCHANGED <<v1, v2, v3, v11, v13, Rb!builderVars>>
    BY <1>3 DEF Rb!Stored
  <2>2. ~v13 => v2' = v12' /\ v3' = v12'
    BY <1>2, <2>1
  <2> QED
    BY <1>1, <2>1, <2>2, SaveEnds
<1>4. CASE Rb!Failed(s)
  <2>1. /\ v10' = [v10 EXCEPT ![s] = Rb!Idle] /\ v2' = [v2 EXCEPT ![v10[s].id] = v10[s].was]
        /\ v13' = (v13 \/ v10[s].st = "written")
        /\ UNCHANGED <<v1, v3, v11, v12, Rb!builderVars>>
    BY <1>4 DEF Rb!Failed, Rb!Undone
  <2>2. ASSUME ~v13' PROVE ~v13 /\ v2' = v12' /\ v3' = v12'
    <3>1. ~v13 /\ v10[s].st # "written"
      BY <2>1, <2>2
    <3>2. v10[s].st = "asked"
      BY <1>1, <3>1 DEF RuleBookInv, Rb!BookInv
    <3>3. v2' = v12
      BY <1>1, <1>2, <2>1, <3>1
    <3> QED
      BY <1>2, <2>1, <3>1, <3>2, <3>3
  <2> QED
    BY <1>1, <2>1, <2>2, SaveEnds
<1> QED
  BY <1>3, <1>4

LEMMA RuleBookStep ==
  ASSUME Rb!BookInv, Rb!BuilderInv, Rb!PanesInv, Rb!SavingInv, [Rb!Next]_(Rb!vars)
  PROVE  Rb!BookInv' /\ Rb!BuilderInv' /\ Rb!PanesInv' /\ Rb!SavingInv'
<1>1. RuleBookInv
  BY DEF RuleBookInv
<1>2. CASE UNCHANGED Rb!vars
  <2>1. UNCHANGED Rb!bookVars /\ UNCHANGED Rb!builderVars
    BY <1>2 DEF Rb!vars, Rb!bookVars, Rb!builderVars
  <2>2. Rb!BookInv' /\ Rb!SavingInv'
    BY <2>1 DEF Rb!BookInv, Rb!SavingInv, Rb!bookVars, Rb!builderVars, Rb!Quiet
  <2> QED
    BY <2>1, <2>2, BuilderStays
<1>3. CASE Rb!Next
  <2>1. RuleBookInv'
    BY <1>1, <1>3, OpeningStep, BuildingStep, PreviewStep, CancelStep, AskingStep, WrittenStep, AnswerStep DEF Rb!Next
  <2> QED
    BY <2>1 DEF RuleBookInv
<1> QED
  BY <1>2, <1>3

LEMMA RuleBookHolds ==
  ASSUME Rb!BookInv, Rb!BuilderInv, Rb!PanesInv, Rb!SavingInv
  PROVE  Rb!StoredAsTold /\ Rb!OperatorsBelong /\ Rb!ScreenTellsTheRule /\ Rb!PanesAreOfTheRule
<1>1. Rb!StoredAsTold
  BY DEF Rb!SavingInv, Rb!StoredAsTold
<1>2. Rb!OperatorsBelong
  <2> SUFFICES ASSUME v4 # None
               PROVE  /\ \A i \in DOMAIN v4.rule.conditions : Rb!HasOp(v4.rule.conditions[i], Rb!FIELDS)
                      /\ \A i \in DOMAIN v4.rule.when : Rb!HasOp(v4.rule.when[i], Rb!CLUSTER_FIELDS)
    BY DEF Rb!OperatorsBelong
  <2>1. v4.rule.conditions \in Seq(Rb!Conditions(Rb!FIELDS)) /\ v4.rule.when \in Seq(Rb!Conditions(Rb!CLUSTER_FIELDS))
    BY DEF Rb!BuilderInv, Rb!Shaped
  <2>2. /\ \A i \in DOMAIN v4.rule.conditions : v4.rule.conditions[i] \in Rb!Conditions(Rb!FIELDS)
        /\ \A i \in DOMAIN v4.rule.when : v4.rule.when[i] \in Rb!Conditions(Rb!CLUSTER_FIELDS)
    BY <2>1
  <2> QED
    BY <2>2, CondHas
<1>3. Rb!ScreenTellsTheRule
  BY DEF Rb!BuilderInv, Rb!ScreenTellsTheRule
<1>4. Rb!PanesAreOfTheRule
  BY DEF Rb!PanesInv, Rb!PanesAreOfTheRule
<1> QED
  BY <1>1, <1>2, <1>3, <1>4

-----------------------------------------------------------------------------
(* IndexTable *)

\* The table counts as this module does: each has its own instance of FiniteSets.
LEMMA IndexTableCounts == \A S : It!Cardinality(S) = Cardinality(S)
BY DEF IsFiniteSet, It!IsFiniteSet, Cardinality, It!Cardinality

LEMMA IndexTableInit == It!Init => It!TableInv /\ It!DialogInv /\ It!SearchInv
<1> USE IndexTableAssumption
<1> SUFFICES ASSUME It!Init PROVE It!TableInv /\ It!DialogInv /\ It!SearchInv
  OBVIOUS
<1>1. It!TableInv
  BY DEF It!Init, It!TableInv, It!Index
<1>2. It!DialogInv
  BY DEF It!Init, It!DialogInv, It!SettingsLeftAlone
<1>3. It!SearchInv
  BY DEF It!Init, It!SearchInv
<1> QED
  BY <1>1, <1>2, <1>3

\* A page that is clamped begins before the last row.
LEMMA Clamped ==
  ASSUME NEW p \in Nat, NEW n \in Nat
  PROVE  /\ It!clampPage(p, n) \in Nat
         /\ n # 0 => It!clampPage(p, n) * PerPage \in Nat /\ It!clampPage(p, n) * PerPage < n
<1> USE IndexTableAssumption
<1> DEFINE q == (n + PerPage - 1) \div PerPage
<1>1. n = 0 => It!clampPage(p, n) \in Nat
  BY DEF It!clampPage, It!pageCount
<1>2. CASE n # 0
  <2>1. q \in Nat /\ q # 0 /\ q * PerPage <= n + PerPage - 1
    BY <1>2
  <2>2. It!clampPage(p, n) \in 0..(q - 1)
    BY <1>2 DEF It!clampPage, It!pageCount
  <2> HIDE DEF q
  <2>3. (q - 1) * PerPage < n /\ \A c \in 0..(q - 1) : c * PerPage <= (q - 1) * PerPage /\ c * PerPage \in Nat /\ (q - 1) * PerPage \in Nat
    BY <2>1
  <2> QED
    BY <2>2, <2>3
<1> QED
  BY <1>1, <1>2

LEMMA RowsAreFinite ==
  ASSUME It!TableInv, NEW f
  PROVE  It!rowsFor(f) \in SUBSET It!Index /\ It!Cardinality(It!rowsFor(f)) \in Nat /\ (It!rowsFor(f) # {} => It!Cardinality(It!rowsFor(f)) # 0)
<1>1. It!rowsFor(f) \in SUBSET It!Index
  BY DEF It!rowsFor, It!TableInv
<1>2. IsFiniteSet(It!Index)
  BY FS_Interval, IndexTableAssumption DEF It!Index
<1> QED
  BY <1>1, <1>2, FS_Subset, FS_CardinalityType, IndexTableCounts, FS_EmptySet

LEMMA RankInTable ==
  ASSUME NEW S, NEW r, S \in SUBSET (1..LastIndex), r \in Nat, r < It!Cardinality(S)
  PROVE  \E i \in S, B \in SUBSET S : (\A j \in S : j \in B <=> j < i) /\ It!Cardinality(B) = r
<1>1. LastIndex \in Nat
  BY IndexTableAssumption
<1> QED
  BY <1>1, EveryRank, IndexTableCounts

LEMMA IndexTableShows == It!TableInv => It!SomethingIsShown
<1> SUFFICES ASSUME It!TableInv, It!rowsFor(v5) # {} PROVE It!Shown # {}
  BY DEF It!SomethingIsShown
<1> DEFINE rows == It!rowsFor(v5)
           at == It!clampPage(v7, It!Cardinality(rows)) * PerPage
<1>1. rows \in SUBSET (1..LastIndex) /\ at \in Nat /\ at < It!Cardinality(rows)
  BY RowsAreFinite, Clamped DEF It!TableInv, It!Index
<1>2. It!Shown = {i \in rows : LET rank == It!Cardinality({j \in rows : j < i}) IN rank >= at /\ rank < at + PerPage}
  BY DEF It!Shown, It!pageSlice
<1>3. PerPage \in Nat \ {0}
  BY IndexTableAssumption
<1> HIDE DEF rows, at
<1>4. PICK i \in rows, B \in SUBSET rows : (\A j \in rows : j \in B <=> j < i) /\ It!Cardinality(B) = at
  BY <1>1, RankInTable, Zenon
<1>5. B = {j \in rows : j < i}
  BY <1>4
<1> QED
  BY <1>1, <1>2, <1>3, <1>4, <1>5

LEMMA ClampedRows ==
  ASSUME It!TableInv
  PROVE  \A f, p : p \in Nat => It!clampPage(p, It!Cardinality(It!rowsFor(f))) \in Nat
BY RowsAreFinite, Clamped

LEMMA TableStep == ASSUME It!TableInv, It!DialogInv, [It!Next]_(It!vars) PROVE It!TableInv'
<1> USE DEF It!TableInv, It!tableVars, It!searchVars
<1>1. CASE It!Filter
  <2>1. v7' \in Nat
    <3>1. \A f : It!clampPage(0, It!Cardinality(It!rowsFor(f))) \in Nat
      BY ClampedRows
    <3> QED
      <4>1. 0 \in Nat
        OBVIOUS
      <4> QED
        BY <1>1, <3>1, <4>1, Zenon DEF It!Filter, It!redrawTable, It!TableInv
  <2> QED
    BY <1>1, <2>1 DEF It!Filter, It!SetFilter
<1>2. CASE It!GoToPage
  <2>1. v7' \in Nat
    BY <1>2, ClampedRows DEF It!GoToPage, It!redrawTable
  <2> QED
    BY <1>2, <2>1 DEF It!GoToPage
<1>3. CASE It!Tick
  <2>1. v7' \in Nat
    BY <1>3, ClampedRows DEF It!Tick, It!redrawTable
  <2>2. It!Shown \subseteq It!Index
    BY RowsAreFinite DEF It!Shown, It!pageSlice
  <2> QED
    BY <1>3, <2>1, <2>2 DEF It!Tick, It!Ticked
<1>4. CASE It!Load \/ It!Loaded \/ It!RefreshedElsewhere \/ It!render \/ It!World \/ It!afterChange
  BY <1>4 DEF It!Load, It!Loaded, It!RefreshedElsewhere, It!render, It!World, It!afterChange
<1>5. ASSUME NEW i \in It!Index, It!Act(i)
      PROVE  It!TableInv'
  <2>1. DOMAIN v2' \subseteq DOMAIN v2
    BY <1>5 DEF It!Act, It!DialogInv, It!Dialog
  <2>2. UNCHANGED <<v4, v7, v8>>
    BY <1>5, ZenonT(30) DEF It!Act, It!searchVars
  <2> QED
    BY <2>1, <2>2
<1>6. CASE It!bulkBar \/ It!Row \/ It!Confirm \/ It!indexSettingsDialog \/ It!EditSettings \/ It!ApplySettings \/ It!SettingsDone
           \/ It!Overview \/ It!ClearResult \/ UNCHANGED It!vars
  BY <1>6 DEF It!bulkBar, It!Row, It!Acts, It!Confirm, It!indexSettingsDialog, It!EditSettings, It!ApplySettings, It!SettingsDone, It!Overview, It!ClearResult, It!vars
<1>7. CASE \/ \E i \in It!Index : It!UpdateSettings(i)
           \/ \E s \in 1..2 : It!searchEverywhere(s) \/ It!SearchEnds(s) \/ \E r \in Name : It!ReadRepo(s, r)
  BY <1>7 DEF It!UpdateSettings, It!searchEverywhere, It!SearchEnds, It!ReadRepo
<1> QED
  BY <1>1, <1>2, <1>3, <1>4, <1>5, <1>6, <1>7 DEF It!Next

LEMMA DialogStep == ASSUME It!TableInv, It!DialogInv, [It!Next]_(It!vars) PROVE It!DialogInv'
<1> USE IndexTableAssumption DEF It!DialogInv, It!SettingsLeftAlone, It!Dialog, It!tableVars, It!searchVars
<1>1. CASE It!bulkBar \/ It!Row
  <2>1. PICK kind \in {"open", "close", "delete", "maintenance"}, names \in SUBSET It!Index : It!Acts(kind, names)
    <3>1. It!Shown \subseteq It!Index
      BY RowsAreFinite DEF It!Shown, It!pageSlice
    <3> QED
      BY <1>1, <3>1 DEF It!bulkBar, It!Row, It!TableInv
  <2> QED
    BY <2>1 DEF It!Acts
<1>2. CASE It!indexSettingsDialog
  <2>1. PICK names \in SUBSET It!Index, knows \in BOOLEAN, i \in It!Index :
          /\ i \in names /\ (knows => names = {i})
          /\ v10' = [kind |-> "settings", names |-> names, left |-> {}, step |-> "asks",
                     knows |-> knows, rep |-> IF knows THEN v11[i].rep ELSE None,
                     box |-> IF knows THEN v11[i].block ELSE FALSE, touched |-> FALSE]
          /\ UNCHANGED <<v11, v12>>
    BY <1>2 DEF It!indexSettingsDialog
  <2> QED
    BY <2>1
<1>3. CASE It!EditSettings
  BY <1>3 DEF It!EditSettings
<1>4. CASE It!ApplySettings
  BY <1>4 DEF It!ApplySettings
<1>5. CASE It!Confirm \/ It!SettingsDone \/ It!afterChange
  BY <1>5 DEF It!Confirm, It!SettingsDone, It!afterChange
<1>6. ASSUME NEW i \in It!Index, It!Act(i) \/ It!UpdateSettings(i)
      PROVE  It!DialogInv'
  <2>1. CASE It!Act(i)
    BY <2>1 DEF It!Act
  <2>2. CASE It!UpdateSettings(i)
    BY <2>2 DEF It!UpdateSettings, It!Sent
  <2> QED
    BY <1>6, <2>1, <2>2
<1>7. CASE It!Filter \/ It!GoToPage \/ It!Tick \/ It!Load \/ It!Loaded \/ It!RefreshedElsewhere \/ It!render \/ It!World \/ It!Overview \/ It!ClearResult \/ UNCHANGED It!vars
  BY <1>7 DEF It!Filter, It!SetFilter, It!GoToPage, It!Tick, It!Ticked, It!Load, It!Loaded, It!RefreshedElsewhere, It!render, It!World, It!Overview, It!ClearResult, It!vars
<1>8. CASE \E s \in 1..2 : It!searchEverywhere(s) \/ It!SearchEnds(s) \/ \E r \in Name : It!ReadRepo(s, r)
  BY <1>8 DEF It!searchEverywhere, It!SearchEnds, It!ReadRepo
<1> QED
  BY <1>1, <1>2, <1>3, <1>6, <1>7, <1>8, <1>4, <1>5 DEF It!Next

LEMMA FindsAre ==
  \A g : g \in It!Finds <=> \E D \in SUBSET {1, 2} : g \in [D -> SUBSET (Name \X {"SUCCESS", None})]
BY DEF It!Finds

\* What a repository adds, and that it was counted while there was room for it.
LEMMA FoundAll ==
  ASSUME NEW q \in It!Query, NEW r \in q.left, NEW h \in [Name -> [{1, 2} -> {"SUCCESS", None}]], h = v13
  PROVE  /\ It!Found(q, r) \in It!Finds
         /\ \A i \in DOMAIN q.found : i \in DOMAIN It!Found(q, r) /\ q.found[i] \subseteq It!Found(q, r)[i]
         /\ It!Cardinality(DOMAIN It!Found(q, r)) < MaxFound =>
              /\ It!Cardinality(DOMAIN q.found) < MaxFound
              /\ \A i \in q.term \cap {1, 2} :
                   h[r][i] = "SUCCESS" => i \in DOMAIN It!Found(q, r) /\ <<r, "SUCCESS">> \in It!Found(q, r)[i]
<1> DEFINE hits == {i \in q.term \cap {1, 2} : h[r][i] # None}
           full == It!Cardinality(DOMAIN q.found) >= MaxFound
           add == IF full THEN {i \in hits : \A j \in hits : i <= j} ELSE hits
           D == DOMAIN q.found \cup add
           f == [i \in D |-> (IF i \in DOMAIN q.found THEN q.found[i] ELSE {}) \cup (IF i \in add THEN {<<r, h[r][i]>>} ELSE {})]
<1>1. It!Found(q, r) = f
  BY DEF It!Found
<1>2. /\ add \subseteq {1, 2} /\ (~full => add = hits)
      /\ DOMAIN q.found \subseteq {1, 2} /\ \A i \in DOMAIN q.found : q.found[i] \subseteq Name \X {"SUCCESS", None}
  <2>1. PICK E \in SUBSET {1, 2} : q.found \in [E -> SUBSET (Name \X {"SUCCESS", None})]
    BY FindsAre DEF It!Query
  <2>2. add \subseteq {1, 2} /\ (~full => add = hits)
    OBVIOUS
  <2> HIDE DEF add, full, hits
  <2> QED
    BY <2>1, <2>2
<1>3. It!Cardinality(D) < MaxFound => ~full /\ It!Cardinality(DOMAIN q.found) < MaxFound
  <2>1. IsFiniteSet({1, 2}) /\ D \in SUBSET {1, 2} /\ DOMAIN q.found \in SUBSET D
    <3>1. IsFiniteSet({1} \cup {2})
      BY FS_Singleton, FS_AddElement
    <3> QED
      BY <1>2, <3>1
  <2>2. It!Cardinality(DOMAIN q.found) <= It!Cardinality(D) /\ It!Cardinality(DOMAIN q.found) \in Nat /\ It!Cardinality(D) \in Nat
    BY <2>1, FS_Subset, FS_CardinalityType, IndexTableCounts
  <2> QED
    BY <2>2, IndexTableAssumption
<1>4. \A i \in q.term \cap {1, 2} : h[r][i] = "SUCCESS" => i \in hits
  BY IndexTableAssumption
<1> HIDE DEF hits, full, add
<1>5. D \in SUBSET {1, 2} /\ f \in [D -> SUBSET (Name \X {"SUCCESS", None})]
  <2>1. r \in Name /\ \A i \in {1, 2} : <<r, h[r][i]>> \in Name \X {"SUCCESS", None}
    BY DEF It!Query
  <2>2. \A i \in D : i \in {1, 2} /\ f[i] \in SUBSET (Name \X {"SUCCESS", None})
    BY <1>2, <2>1
  <2> QED
    BY <2>2
<1>6. /\ \A i \in DOMAIN q.found : i \in D /\ q.found[i] \subseteq f[i]
      /\ \A i \in add : i \in D /\ <<r, h[r][i]>> \in f[i]
      /\ DOMAIN f = D
  OBVIOUS
<1> HIDE DEF D, f
<1>7. f \in It!Finds
  BY <1>5, FindsAre
<1> QED
  BY <1>1, <1>2, <1>3, <1>4, <1>6, <1>7

LEMMA SearchStep == ASSUME It!SearchInv, [It!Next]_(It!vars) PROVE It!SearchInv'
<1> USE IndexTableAssumption DEF It!SearchInv
<1>1. ASSUME NEW s \in 1..2, It!searchEverywhere(s)
      PROVE  It!SearchInv'
  <2>1. PICK t \in Texts : /\ v15' = [v15 EXCEPT ![s] = [term |-> t, asked |-> v14, left |-> v14, found |-> [i \in {} |-> {}], unverified |-> {}]]
                           /\ v16' = [v16 EXCEPT !.term = t]
    BY <1>1 DEF It!searchEverywhere
  <2>2. PICK q \in It!Query : q.term = t /\ q.asked = v14 /\ q.left = v14 /\ v15' = [v15 EXCEPT ![s] = q]
    <3>1. [i \in {} |-> {}] \in It!Finds
      <4>1. [i \in {} |-> {}] \in [{} -> SUBSET (Name \X {"SUCCESS", None})]
        OBVIOUS
      <4> QED
        BY <4>1, FindsAre
    <3> QED
      BY <2>1, <3>1 DEF It!Query
  <2>3. UNCHANGED <<v13, v14>> /\ (v17' <=> \E o \in 1..2 : v15[o] # None) /\ (s = 2 => v15[1] # None)
    BY <1>1 DEF It!searchEverywhere
  <2>4. It!Thorough(q)' /\ \A x : It!Thorough(x)' <=> It!Thorough(x)
    BY <2>2, <2>3 DEF It!Thorough
  <2>5. DOMAIN v16' = {"term", "result"} /\ v16'.term = t /\ v16'.result = v16.result
    BY <2>1
  <2> QED
    BY <2>2, <2>3, <2>4, <2>5
<1>2. ASSUME NEW s \in 1..2, NEW r \in Name, It!ReadRepo(s, r)
      PROVE  It!SearchInv'
  <2>1. PICK q \in It!Query : /\ q.term = v15[s].term /\ q.asked = v15[s].asked /\ q.left = v15[s].left \ {r}
                              /\ v15' = [v15 EXCEPT ![s] = q]
                              /\ \/ q.found = It!Found(v15[s], r) /\ q.unverified = v15[s].unverified
                                 \/ q.found = v15[s].found /\ q.unverified = v15[s].unverified \cup {r}
    BY <1>2 DEF It!ReadRepo, It!Unread, It!Query
  <2>2. UNCHANGED <<v13, v14, v16, v17>> /\ v15[s] \in It!Query /\ r \in v15[s].left /\ It!Thorough(v15[s])
    BY <1>2 DEF It!ReadRepo
  <2>3. It!Thorough(q)
    <3>1. CASE q.found = v15[s].found /\ q.unverified = v15[s].unverified \cup {r}
      BY <3>1 DEF It!Thorough
    <3>2. CASE q.found = It!Found(v15[s], r) /\ q.unverified = v15[s].unverified
      <4>1. /\ \A i \in DOMAIN v15[s].found : i \in DOMAIN q.found /\ v15[s].found[i] \subseteq q.found[i]
            /\ It!Cardinality(DOMAIN q.found) < MaxFound =>
                 /\ It!Cardinality(DOMAIN v15[s].found) < MaxFound
                 /\ \A i \in v15[s].term \cap {1, 2} :
                      v13[r][i] = "SUCCESS" => i \in DOMAIN q.found /\ <<r, "SUCCESS">> \in q.found[i]
        BY <2>2, <3>2, FoundAll
      <4> QED
        BY <2>1, <2>2, <4>1 DEF It!Thorough
    <3> QED
      BY <2>1, <3>1, <3>2
  <2>4. It!Thorough(q)' /\ \A x : It!Thorough(x)' <=> It!Thorough(x)
    BY <2>2, <2>3 DEF It!Thorough
  <2> QED
    BY <2>1, <2>2, <2>4
<1>3. ASSUME NEW s \in 1..2, It!SearchEnds(s)
      PROVE  It!SearchInv'
  BY <1>3 DEF It!SearchEnds, It!Thorough
<1>4. CASE It!ClearResult \/ It!Overview
  BY <1>4 DEF It!ClearResult, It!Overview, It!Thorough
<1>5. CASE UNCHANGED It!searchVars
  BY <1>5 DEF It!searchVars, It!Thorough
<1>6. CASE It!Filter \/ It!GoToPage \/ It!Tick \/ It!Load \/ It!Loaded \/ It!RefreshedElsewhere \/ It!render \/ It!World \/ UNCHANGED It!vars
  BY <1>5, <1>6 DEF It!Filter, It!SetFilter, It!GoToPage, It!Tick, It!Ticked, It!Load, It!Loaded, It!RefreshedElsewhere, It!render, It!World, It!vars, It!searchVars
<1>7. CASE It!bulkBar \/ It!Row \/ It!Confirm \/ It!indexSettingsDialog \/ It!EditSettings \/ It!ApplySettings \/ It!SettingsDone \/ It!afterChange
  BY <1>5, <1>7 DEF It!bulkBar, It!Row, It!Acts, It!Confirm, It!indexSettingsDialog, It!EditSettings, It!ApplySettings, It!SettingsDone, It!afterChange
<1>8. CASE \E i \in It!Index : It!Act(i) \/ It!UpdateSettings(i)
  BY <1>5, <1>8 DEF It!Act, It!UpdateSettings
<1> QED
  BY <1>1, <1>2, <1>3, <1>4, <1>6, <1>7, <1>8 DEF It!Next

LEMMA IndexTableStep ==
  ASSUME It!TableInv, It!DialogInv, It!SearchInv, [It!Next]_(It!vars)
  PROVE  It!TableInv' /\ It!DialogInv' /\ It!SearchInv'
BY TableStep, DialogStep, SearchStep

LEMMA IndexTableHolds ==
  ASSUME It!TableInv, It!DialogInv, It!SearchInv
  PROVE  It!SettingsLeftAlone /\ It!SomethingIsShown /\ It!SearchMissesNothing
<1>1. It!SearchMissesNothing
  BY DEF It!SearchMissesNothing, It!SearchInv, It!Thorough
<1> QED
  BY <1>1, IndexTableShows DEF It!TableInv, It!DialogInv
-----------------------------------------------------------------------------
(* The parts together. *)

\* Whichever part it is, its invariant is inductive, and the others say nothing.
ConsoleInv ==
  /\ part = "Session" => Se!SessionInv
  /\ part = "Navigation" => Na!NavigationInv
  /\ part = "Unlock" => Un!UnlockInv /\ Un!TaskInv
  /\ part = "Credentials" => Cr!CredentialsInv
  /\ part = "ConfigEditor" => Ed!SavedInv /\ Ed!MastersInv
  /\ part = "Routes" => Ro!RoutesInv /\ Ro!ListInv
  /\ part = "Acks" => Ac!AcksInv
  /\ part = "Alerting" => Al!UnseenIsGone
  /\ part = "Capacity" => Ca!NodesInv /\ Ca!DiskInv
  /\ part = "FanOut" => Fa!RunInv
  /\ part = "DelayView" => De!DelayViewInv
  /\ part = "LogTail" => Lo!LogTailInv
  /\ part = "Archive" => Ar!PullInv /\ Ar!MissingMeansMissing
  /\ part = "SnapshotWatch" => Sn!WatchInv
  /\ part = "Housekeeping" => Ho!HousekeepingInv
  /\ part = "Balance" => Ba!BalanceInv
  /\ part = "Shards" => Sh!ShardsInv
  /\ part = "RestConsole" => Re!RestConsoleInv
  /\ part = "SnapshotPage" => Sp!SnapshotPageInv
  /\ part = "Settings" => St!FileInv /\ St!SaveInv /\ St!ScheduleInv
  /\ part = "Volume" => Vo!VolumeInv
  /\ part = "RuleBook" => Rb!BookInv /\ Rb!BuilderInv /\ Rb!PanesInv /\ Rb!SavingInv
  /\ part = "IndexTable" => It!TableInv /\ It!DialogInv /\ It!SearchInv

LEMMA ConsoleInvInit == Init => ConsoleInv
BY SessionInit, NavigationInit, UnlockInit, CredentialsInit, ConfigEditorInit,
     RoutesInit, AcksInit, AlertingInit, CapacityInit, FanOutInit,
     DelayViewInit, LogTailInit, ArchiveInit, SnapshotWatchInit, HousekeepingInit,
     BalanceInit, ShardsInit, RestConsoleInit, SnapshotPageInit, SettingsInit,
     VolumeInit, RuleBookInit, IndexTableInit
   DEF Init, ConsoleInv

LEMMA ConsoleInvStep == ASSUME ConsoleInv, [Next]_vars PROVE ConsoleInv'
<1> USE DEF ConsoleInv, Next, vars
<1>1. CASE part = "Session"
  BY <1>1, SessionStep DEF Se!vars
<1>2. CASE part = "Navigation"
  BY <1>2, NavigationStep DEF Na!vars
<1>3. CASE part = "Unlock"
  BY <1>3, UnlockStep DEF Un!vars, Un!switch, Un!task
<1>4. CASE part = "Credentials"
  BY <1>4, CredentialsStep DEF Cr!vars
<1>5. CASE part = "ConfigEditor"
  BY <1>5, ConfigEditorStep DEF Ed!vars
<1>6. CASE part = "Routes"
  BY <1>6, RoutesStep DEF Ro!vars, Ro!routes, Ro!lists
<1>7. CASE part = "Acks"
  BY <1>7, AcksStep DEF Ac!vars
<1>8. CASE part = "Alerting"
  BY <1>8, AlertingStep DEF Al!vars
<1>9. CASE part = "Capacity"
  BY <1>9, CapacityStep DEF Ca!vars, Ca!fleet, Ca!disk
<1>10. CASE part = "FanOut"
  BY <1>10, FanOutStep DEF Fa!vars
<1>11. CASE part = "DelayView"
  BY <1>11, DelayViewStep DEF De!vars
<1>12. CASE part = "LogTail"
  BY <1>12, LogTailStep DEF Lo!vars
<1>13. CASE part = "Archive"
  BY <1>13, ArchiveStep DEF Ar!vars
<1>14. CASE part = "SnapshotWatch"
  BY <1>14, SnapshotWatchStep DEF Sn!vars
<1>15. CASE part = "Housekeeping"
  BY <1>15, HousekeepingStep DEF Ho!vars
<1>16. CASE part = "Balance"
  BY <1>16, BalanceStep DEF Ba!vars
<1>17. CASE part = "Shards"
  BY <1>17, ShardsStep DEF Sh!vars
<1>18. CASE part = "RestConsole"
  BY <1>18, RestConsoleStep DEF Re!vars
<1>19. CASE part = "SnapshotPage"
  BY <1>19, SnapshotPageStep DEF Sp!vars
<1>20. CASE part = "Settings"
  BY <1>20, SettingsStep DEF St!vars
<1>21. CASE part = "Volume"
  BY <1>21, VolumeStep DEF Vo!vars
<1>22. CASE part = "RuleBook"
  BY <1>22, RuleBookStep DEF Rb!vars
<1>23. CASE part = "IndexTable"
  BY <1>23, IndexTableStep DEF It!vars
<1> QED
  BY <1>1, <1>2, <1>3, <1>4, <1>5, <1>6, <1>7, <1>8, <1>9, <1>10, <1>11, <1>12, <1>13, <1>14, <1>15, <1>16, <1>17, <1>18, <1>19, <1>20, <1>21, <1>22, <1>23

LEMMA ConsoleInvHolds == Spec => []ConsoleInv
BY ConsoleInvInit, ConsoleInvStep, PTL DEF Spec

\* LosesNoSession (transport.js, app.js): whatever tokens the core hands out and however late its
\* answers come, the page gives up a session the core still knows only to sign out.
THEOREM NoSessionIsLost == Spec => LosesNoSession
<1>1. ConsoleInv /\ [Next]_vars => [part = "Session" => Se!DropsNoLiveSession]_vars
  BY SessionStep DEF ConsoleInv, Next, vars, Se!vars
<1> QED
  BY <1>1, ConsoleInvHolds, PTL DEF Spec, LosesNoSession

\* AnnouncesOnce (notify.js): between two lines about one alert there was something that took it
\* off the list, in a cluster of any nodes and for any grace.
THEOREM AlertsAreAnnouncedOnce == Spec => AnnouncesOnce
<1>1. ConsoleInv /\ [Next]_vars => [part = "Alerting" => Al!AnnouncesOnce]_vars
  BY AlertingStep DEF ConsoleInv, Next, vars, Al!vars
<1> QED
  BY <1>1, ConsoleInvHolds, PTL DEF Spec, AnnouncesOnce

\* NothingIsLeftOut (fleet.js, logs.js, indices.js, snapshot-verify.js): a fan-out over any list,
\* of any width, accounts for every item; a delay table over any clusters is of those it is said
\* to be of; and a search for an index over any repositories names each one it could not read.
THEOREM AnswersAreWhole == Spec => []NothingIsLeftOut
<1>1. ConsoleInv => NothingIsLeftOut
  BY FanOutAccounts, DelayViewHolds, IndexTableHolds DEF ConsoleInv, NothingIsLeftOut
<1> QED
  BY <1>1, ConsoleInvHolds, PTL

\* NoDataIsLostUnasked (automation.js, index-actions.js, snapshot-dialogs.js, ulm.js): whatever
\* the rules, and however the repository changes under a dialog, nothing is deleted that no good
\* snapshot held and no question named; what was freed can be found; no stored day is missing.
THEOREM DeletionsAreAskedFor == Spec => []NoDataIsLostUnasked
<1>1. ConsoleInv => NoDataIsLostUnasked
  BY SnapshotPageHolds DEF ConsoleInv, NoDataIsLostUnasked, Ho!HousekeepingInv
<1> QED
  BY <1>1, ConsoleInvHolds, PTL

\* WritesAreDeliberate (writes.js, tasks.js, console.js, shards.js, indices.js, index-actions.js):
\* whoever turns the switch and whatever is overtaken, a write is offered as the core would let
\* it through, goes to what was confirmed and to nothing else, and leaves alone what was.
THEOREM WritesAreMeant == Spec => []WritesAreDeliberate
<1>1. ConsoleInv => WritesAreDeliberate
  BY UnlockOffers, TaskHolds, RestConsoleHolds, IndexTableHolds
     DEF ConsoleInv, WritesAreDeliberate, Sh!ShardsInv, Sh!MovesWhatWasTicked
<1> QED
  BY <1>1, ConsoleInvHolds, PTL

\* ShownIsWhatWasChosen (app.js, indices.js, logs.js, console.js): for any fleet, table, devices
\* and history, and in whatever order the answers come.
THEOREM WhatIsShownWasChosen == Spec => []ShownIsWhatWasChosen
<1>1. ConsoleInv => ShownIsWhatWasChosen
  BY IndexTableHolds, RestConsoleHolds
     DEF ConsoleInv, ShownIsWhatWasChosen, Na!NavigationInv, Lo!LogTailInv
<1> QED
  BY <1>1, ConsoleInvHolds, PTL

\* SavedMeansSaved (config-editor.js, config.js, vault_files.rs, settings.js): whatever is edited,
\* sealed, saved and restored, by however many, and whatever fails on the way.
THEOREM WhatIsSavedIsThere == Spec => []SavedMeansSaved
<1>1. ConsoleInv => SavedMeansSaved
  BY ConfigEditorHolds, RoutesReadable, SettingsHolds DEF ConsoleInv, SavedMeansSaved
<1> QED
  BY <1>1, ConsoleInvHolds, PTL

\* IdentityIsKept (app.js, state.js, config-editor.js, config.js): for any sessions, credentials and
\* master passwords, and for any names of clusters.
THEOREM IdentitiesAreKept == Spec => []IdentityIsKept
<1>1. ConsoleInv => IdentityIsKept
  BY ConfigEditorHolds, RoutesTell
     DEF ConsoleInv, IdentityIsKept, Se!SessionInv, Se!TheAppHasItsHolder, Se!NoStaleApp, Cr!CredentialsInv
<1> QED
  BY <1>1, ConsoleInvHolds, PTL

\* AlertsHaveACause (state.js, notify.js, acks.js, disk-balance.js): for any nodes, figures, runs and
\* windows, however many readings fail, and whatever the page draws while an operator writes.
THEOREM AlertsAreJustified == Spec => []AlertsHaveACause
<1>1. ConsoleInv => AlertsHaveACause
  BY CapacityHolds, SnapshotWatchHolds, AcksHolds, BalanceHolds DEF ConsoleInv, AlertsHaveACause
<1> QED
  BY <1>1, ConsoleInvHolds, PTL

\* RulesAreAsTold (user-rules.js, rule-builder.js): for any clusters and names of rules, however
\* many saves fail and however the previews come back.
THEOREM RulesAreTold == Spec => []RulesAreAsTold
<1>1. ConsoleInv => RulesAreAsTold
  BY RuleBookHolds DEF ConsoleInv, RulesAreAsTold, Rb!RulesAreAsTold
<1> QED
  BY <1>1, ConsoleInvHolds, PTL

\* FiguresAreSafe (volume.js, field-volume.js): for any days and sizes of indices, any windows and
\* heaviest days asked for, any policies, disk and headroom, and wherever a measurement stops.
THEOREM FiguresStaySafe == Spec => []FiguresAreSafe
<1>1. ConsoleInv => FiguresAreSafe
  BY VolumeHolds DEF ConsoleInv, FiguresAreSafe
<1> QED
  BY <1>1, ConsoleInvHolds, PTL
=============================================================================
