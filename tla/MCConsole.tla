----------------------------- MODULE MCConsole ------------------------------
(***************************************************************************)
(* Console with the part its theorems are not about, and the model values  *)
(* that a .cfg cannot write down: the answers of DeviceDelay are folds and *)
(* medians of the documents it read, which the provers do not reach.       *)
(***************************************************************************)
EXTENDS Console

CONSTANTS
  t1, t2, t3,           \* sessions
  c1, c2,               \* clusters
  h1, h2,               \* jump hosts
  m1, m2,               \* master passwords
  na, nb,               \* names
  Kinds, Addresses, Limits, EventTime, MaxDocs, MaxIndices, MaxAged, MaxNewest     \* DeviceDelay

Dd == INSTANCE DeviceDelay WITH
  Address <- Addresses, Newest <- MaxNewest, indices <- v1, past <- v2,
  limits <- v3, pre <- v4

MCInit ==
  \/ Init
  \/ part = "DeviceDelay" /\ Dd!Init
     /\ v5 = None /\ v6 = None /\ v7 = None /\ v8 = None /\ v9 = None /\ v10 = None /\ v11 = None /\ v12 = None /\ v13 = None /\ v14 = None /\ v15 = None /\ v16 = None /\ v17 = None /\ v18 = None

MCNext ==
  \/ Next
  \/ part = "DeviceDelay" /\ Dd!Next
     /\ UNCHANGED <<part, v5, v6, v7, v8, v9, v10, v11, v12, v13, v14, v15, v16, v17, v18>>

MCSpec == MCInit /\ [][MCNext]_vars

\* The delay analysis says nothing that was not measured: a device is in order, or late, only if
\* a document of it said so, and none is left out unsaid; and its close-up agrees with the table
\* where both read the same documents (log-delay.js).
DelaysAreHonest ==
  /\ part = "DeviceDelay" => Dd!TableIsHonest
  /\ part = "DeviceDelay" => Dd!CloseUpAgrees

-----------------------------------------------------------------------------
MCFleets == {<<>>, <<c1>>, <<c2>>, <<c1, c2>>, <<c2, c1>>}
MCClusterList == <<c1, c2>>
MCSpelling ==
  {[slug |-> <<0>>, case |-> 1], [slug |-> <<0>>, case |-> 2],
   [slug |-> <<0, 2>>, case |-> 1], [slug |-> <<7>>, case |-> 1]}
MCLists == {<<>>, <<na>>, <<na, nb, c1, c2, h1>>}
\* A rule that notifies, one that closes, two that delete, and one that is half written.
MCRules ==
  {[complete |-> TRUE, when |-> None, action |-> "notify", scope |-> "all",
    need |-> 2, backedUp |-> "no"],
   [complete |-> TRUE, when |-> None, action |-> "close", scope |-> "oldestDay",
    need |-> 1, backedUp |-> None],
   [complete |-> TRUE, when |-> None, action |-> "delete", scope |-> "all",
    need |-> 1, backedUp |-> None],
   [complete |-> TRUE, when |-> "STOPPED", action |-> "delete", scope |-> "oldestDay",
    need |-> 1, backedUp |-> "yes"],
   [complete |-> FALSE, when |-> None, action |-> "delete", scope |-> "all",
    need |-> 1, backedUp |-> None]}
MCKinds ==
  {[device |-> na, address |-> None, field |-> "new", delay |-> 0],
   [device |-> na, address |-> nb, field |-> "new", delay |-> 60],
   [device |-> nb, address |-> nb, field |-> "new", delay |-> -45],
   [device |-> na, address |-> None, field |-> "old", delay |-> 60]}
MCLimits ==
  {[delay |-> 30, critical |-> 60, tolerance |-> 3, veryLong |-> 1440, devices |-> 1],
   [delay |-> 30, critical |-> 60, tolerance |-> 3, veryLong |-> 1440, devices |-> 2]}
MCEventTime == <<"new", "old">>
MCWindows ==
  {[windowDays |-> 2, topDays |-> 1, headroomPercent |-> 30],
   [windowDays |-> 7, topDays |-> 2, headroomPercent |-> 0]}
MCPolicies == {None, <<2, "d">>, <<36, "h">>, <<1, "w">>, <<3, "x">>}
MCBackupCapacity == <<2, "tb">>
=============================================================================
