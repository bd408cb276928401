--------------------------- MODULE Topology_proofs ---------------------------
(***************************************************************************)
(* Theorems about Topology for every set of addresses, every number of     *)
(* servers and all replies they may give.                                  *)
(***************************************************************************)
EXTENDS Topology, TLAPS

-----------------------------------------------------------------------------
(* What the operators return. *)

\* A reply is stored as a description.
LEMMA DescribedType ==
  ASSUME NEW x \in Addresses, NEW r \in Replies[x]
  PROVE  Described(r) \in Descriptions
<1>1. r \in Reply
  BY ReplyAssumption
<1>2. ServerTypeOf(r) \in ServerTypes
  BY DEF ServerTypeOf, ServerTypes
<1> QED
  BY <1>1, <1>2 DEF Described, Descriptions, Reply

LEMMA DefaultType == DefaultDescription \in Descriptions
  BY DEF DefaultDescription, Descriptions, ServerTypes

\* Overwriting the type of one server leaves descriptions.
LEMMA RetypedType ==
  ASSUME desc \in [Slots -> Descriptions], NEW s, NEW t \in ServerTypes
  PROVE  [desc EXCEPT ![s].type = t] \in [Slots -> Descriptions]
<1>1. ASSUME NEW d \in Descriptions
      PROVE  [d EXCEPT !.type = t] \in Descriptions
  BY DEF Descriptions
<1> QED
  BY <1>1

\* New servers get a slot of their own, the others stay.
LEMMA AddServersType ==
  ASSUME TypeOK, NEW map \in [Addresses -> Slots \cup {NoServer}],
         NEW new \in SUBSET Addresses, AddServers(map, new)
  PROVE  /\ servers' \in [Addresses -> Slots \cup {NoServer}]
         /\ address' \in [Slots -> Addresses \cup {None}]
<1>1. PICK f \in [new -> FreeSlots] :
        /\ servers' = [x \in Addresses |-> IF x \in new THEN f[x] ELSE map[x]]
        /\ address' = [s \in Slots |->
                         IF \E x \in new : f[x] = s THEN CHOOSE x \in new : f[x] = s
                         ELSE address[s]]
  BY DEF AddServers
<1>2. \A s \in Slots : (\E x \in new : f[x] = s) => (CHOOSE x \in new : f[x] = s) \in new
  OBVIOUS
<1>3. FreeSlots \subseteq Slots
  BY DEF FreeSlots
<1>4. servers' \in [Addresses -> Slots \cup {NoServer}]
  BY <1>1, <1>3
<1>5. address' \in [Slots -> Addresses \cup {None}]
  BY <1>1, <1>2 DEF TypeOK
<1> QED
  BY <1>4, <1>5

LEMMA ArmTypes ==
  ASSUME TypeOK, NEW s \in Slots
  PROVE  /\ Without(s) \in [Addresses -> Slots \cup {NoServer}]
         /\ desc[s] \in Descriptions
         /\ Missing(desc[s].members) \in SUBSET Addresses
         /\ Mapped \subseteq Slots
         /\ ServerValues \subseteq Slots
         /\ s \in Live => address[s] \in Addresses
  BY ZenonT(60) DEF TypeOK, Without, Missing, Mapped, Live, ServerValues, Descriptions

-----------------------------------------------------------------------------
(***************************************************************************)
(* Every step keeps the types.                                             *)
(***************************************************************************)
LEMMA TypeStep ==
  ASSUME TypeOK, [Next]_vars
  PROVE  TypeOK'
<1> USE DEF election, topology
<1>1. ASSUME NEW s \in Slots, MonitorTakesFlag(s)
      PROVE  TypeOK'
  BY <1>1 DEF MonitorTakesFlag, TypeOK
<1>2. ASSUME NEW s \in Slots, MonitorHandshake(s) \/ PoolHandshake(s)
      PROVE  TypeOK'
  <2>1. s \in Live /\ StoreReply(s)
    BY <1>2 DEF MonitorHandshake, PoolHandshake, MonitorFree, Mapped
  <2>2. desc' \in [Slots -> Descriptions]
    BY <2>1, ArmTypes, DescribedType DEF StoreReply, TypeOK
  <2>3. UNCHANGED <<topology, servers, address, update>>
        /\ flagged' \subseteq Slots /\ reporting' \subseteq Slots
    BY <1>2 DEF MonitorHandshake, PoolHandshake, TypeOK
  <2> QED
    BY <2>2, <2>3 DEF TypeOK
<1>3. ASSUME NEW s \in Slots, MonitorFails(s) \/ PoolFails(s)
      PROVE  TypeOK'
  <2>1. desc' \in [Slots -> Descriptions]
    <3>1. desc \in [Slots -> Descriptions] /\ "Unknown" \in ServerTypes
      BY DEF TypeOK, ServerTypes
    <3>2. desc' = [desc EXCEPT ![s].type = "Unknown"]
      BY <1>3 DEF MonitorFails, PoolFails, StoreFailure
    <3> QED
      BY <3>1, <3>2, RetypedType
  <2> QED
    BY <1>3, <2>1 DEF MonitorFails, PoolFails, TypeOK
<1>4. ASSUME NEW s \in Slots, MonitorEnds(s)
      PROVE  TypeOK'
  <2>1. desc' \in [Slots -> Descriptions] /\ address' \in [Slots -> Addresses \cup {None}]
    BY <1>4, DefaultType DEF MonitorEnds, TypeOK
  <2> QED
    BY <1>4, <2>1 DEF MonitorEnds, TypeOK
<1>5. ASSUME NEW s \in Slots, Begin(s)
      PROVE  /\ compatError' \in {None, "WireVersionToOld", "WireVersionToNew"}
             /\ flagged' \subseteq Slots
             /\ reporting' \subseteq Slots
  BY <1>5 DEF Begin, CheckCompatibility, TypeOK
<1>6. ASSUME NEW s \in Slots, NEW t \in TopologyTypes, Retype(s, t)
      PROVE  TypeOK'
  BY <1>5, <1>6 DEF Retype, TypeOK
<1>7. ASSUME NEW s \in Slots, NEW t \in TopologyTypes, Expel(s, t)
      PROVE  TypeOK'
  <2>1. type' \in TopologyTypes
    BY <1>7 DEF Expel, CheckPrimary, TopologyTypes
  <2> QED
    BY <1>5, <1>7, <2>1, ArmTypes DEF Expel, TypeOK
<1>8. ASSUME NEW s \in Slots,
             UpdateNothing(s) \/ UpdateKind(s) \/ UpdateCheck(s) \/ UpdateRemove(s)
      PROVE  TypeOK'
  <2>1. /\ type \in TopologyTypes
        /\ CheckPrimary(servers, type) \in TopologyTypes
        /\ "Single" \in TopologyTypes /\ "Sharded" \in TopologyTypes
    BY DEF TypeOK, CheckPrimary, TopologyTypes
  <2> QED
    BY <1>6, <1>7, <1>8, <2>1 DEF UpdateNothing, UpdateKind, UpdateCheck, UpdateRemove
<1>9. ASSUME NEW s \in Slots, PrimaryOfOtherSet(s) \/ MemberOfOtherSet(s)
      PROVE  TypeOK'
  <2>1. /\ type \in TopologyTypes
        /\ "ReplicaSetWithPrimary" \in TopologyTypes /\ "ReplicaSetNoPrimary" \in TopologyTypes
    BY DEF TypeOK, TopologyTypes
  <2> QED
    BY <1>7, <1>9, <2>1 DEF PrimaryOfOtherSet, MemberOfOtherSet
<1>10. ASSUME NEW s \in Slots, StalePrimary(s)
       PROVE  TypeOK'
  <2>1. desc' \in [Slots -> Descriptions]
    BY <1>10, DefaultType DEF StalePrimary, TypeOK
  <2>2. type' \in TopologyTypes
    BY <1>10 DEF StalePrimary, TopologyTypes
  <2>3. setName' \in STRING \cup {None}
    BY <1>10, ArmTypes DEF StalePrimary, AdoptSetName, Descriptions
  <2>4. Begin(s) /\ UNCHANGED <<maxSetVersion, maxElectionId, servers, address, update>>
    BY <1>10 DEF StalePrimary
  <2> QED
    BY <1>5, <2>1, <2>2, <2>3, <2>4 DEF TypeOK
<1>11. ASSUME NEW s \in Slots, AcceptPrimary(s)
       PROVE  TypeOK'
  <2>1. type' \in TopologyTypes /\ setName' \in STRING \cup {None}
    BY <1>11, ArmTypes DEF AcceptPrimary, AdoptSetName, Descriptions, TopologyTypes
  <2>2. maxSetVersion' \in Int \cup {None} /\ maxElectionId' \in Int \cup {None}
    BY <1>11, ArmTypes DEF AcceptPrimary, Descriptions, TypeOK
  <2>3. update' \in [server : Slots \cup {NoServer}, phase : Phases, left : SUBSET Slots,
                     target : Slots \cup {NoServer}]
    BY <1>11, ArmTypes DEF AcceptPrimary, Phases
  <2>4. Begin(s) /\ UNCHANGED <<servers, address, desc>>
    BY <1>11 DEF AcceptPrimary
  <2> QED
    BY <1>5, <2>1, <2>2, <2>3, <2>4 DEF TypeOK
<1>12. ASSUME NEW s \in Slots, FindOldPrimary(s)
       PROVE  TypeOK'
  <2>1. update' \in [server : Slots \cup {NoServer}, phase : Phases, left : SUBSET Slots,
                     target : Slots \cup {NoServer}]
    <3>1. PICK o \in update.left :
            \/ update' = [update EXCEPT !.phase = "demoting", !.target = o]
            \/ update' = [update EXCEPT !.left = @ \ {o}]
      BY <1>12 DEF FindOldPrimary
    <3>2. o \in Slots /\ "demoting" \in Phases
      BY <3>1 DEF TypeOK, Phases
    <3> QED
      BY <3>1, <3>2 DEF TypeOK
  <2> QED
    BY <1>12, <2>1 DEF FindOldPrimary, TypeOK
<1>13. ASSUME NEW s \in Slots, DemoteOldPrimary(s)
       PROVE  TypeOK'
  <2>1. update' \in [server : Slots \cup {NoServer}, phase : Phases, left : SUBSET Slots,
                     target : Slots \cup {NoServer}]
    BY <1>13 DEF DemoteOldPrimary, TypeOK, Phases
  <2>2. desc' \in [Slots -> Descriptions]
    BY <1>13, RetypedType DEF DemoteOldPrimary, TypeOK, ServerTypes
  <2> QED
    BY <1>13, <2>1, <2>2 DEF DemoteOldPrimary, TypeOK
<1>14. NoUpdate \in [server : Slots \cup {NoServer}, phase : Phases, left : SUBSET Slots,
                     target : Slots \cup {NoServer}]
  BY DEF NoUpdate, Phases
<1>15. ASSUME NEW s \in Slots, InstallMembers(s)
       PROVE  TypeOK'
  <2> DEFINE retained == [x \in Addresses |->
                            IF x \in desc[s].members THEN servers[x] ELSE NoServer]
  <2>1. retained \in [Addresses -> Slots \cup {NoServer}]
    BY DEF TypeOK
  <2>2. PICK new \in SUBSET Missing(desc[s].members) :
          /\ AddServers(retained, new)
          /\ type' = IF new = Missing(desc[s].members) THEN CheckPrimary(retained, type) ELSE type
    BY <1>15 DEF InstallMembers
  <2>3. new \in SUBSET Addresses
    BY ArmTypes
  <2> HIDE DEF retained
  <2>4. /\ servers' \in [Addresses -> Slots \cup {NoServer}]
        /\ address' \in [Slots -> Addresses \cup {None}]
    BY <2>1, <2>2, <2>3, AddServersType
  <2>5. type' \in TopologyTypes
    BY <2>2 DEF TypeOK, CheckPrimary, TopologyTypes
  <2> QED
    BY <1>14, <1>15, <2>4, <2>5 DEF InstallMembers, TypeOK
<1>16. ASSUME NEW s \in Slots, ThenMarkPrimary(s), servers' \in [Addresses -> Slots \cup {NoServer}]
       PROVE  update' \in [server : Slots \cup {NoServer}, phase : Phases, left : SUBSET Slots,
                           target : Slots \cup {NoServer}]
  <2>1. desc[s].primary # None => desc[s].primary \in Addresses
    BY ArmTypes DEF Descriptions
  <2> QED
    BY <1>16, <2>1 DEF ThenMarkPrimary, Phases
<1>17. ASSUME NEW s \in Slots, AddMembers(s)
       PROVE  TypeOK'
  <2>1. PICK new \in SUBSET Missing(desc[s].members) :
          /\ AddServers(servers, new)
          /\ ThenMarkPrimary(s) \/ UNCHANGED update
    BY <1>17 DEF AddMembers
  <2>2. /\ servers' \in [Addresses -> Slots \cup {NoServer}]
        /\ address' \in [Slots -> Addresses \cup {None}]
    BY <2>1, ArmTypes, AddServersType DEF TypeOK
  <2>3. type' \in TopologyTypes /\ setName' \in STRING \cup {None}
    BY <1>17, ArmTypes DEF AddMembers, AdoptSetName, Descriptions, TopologyTypes
  <2>4. Begin(s) /\ UNCHANGED <<maxSetVersion, maxElectionId, desc>>
    BY <1>17 DEF AddMembers
  <2> QED
    BY <1>5, <1>16, <2>1, <2>2, <2>3, <2>4 DEF TypeOK
<1>18. ASSUME NEW s \in Slots, KnownMember(s)
       PROVE  TypeOK'
  <2>1. type' \in TopologyTypes
    BY <1>18 DEF KnownMember, CheckPrimary, TypeOK, TopologyTypes
  <2>2. /\ Begin(s) /\ ThenMarkPrimary(s)
        /\ UNCHANGED <<setName, maxSetVersion, maxElectionId, servers, address, desc>>
    BY <1>18 DEF KnownMember
  <2> QED
    BY <1>5, <1>16, <2>1, <2>2 DEF TypeOK
<1>19. ASSUME NEW s \in Slots, MarkPrimary(s)
       PROVE  TypeOK'
  <2>1. desc' \in [Slots -> Descriptions]
    BY <1>19, RetypedType DEF MarkPrimary, TypeOK, ServerTypes
  <2>2. servers' \in [Addresses -> Slots \cup {NoServer}]
    BY <1>19, ArmTypes DEF MarkPrimary, TypeOK
  <2> QED
    BY <1>14, <1>19, <2>1, <2>2 DEF MarkPrimary, TypeOK
<1>20. CASE UNCHANGED vars
  BY <1>20 DEF vars, TypeOK
<1> QED
  BY <1>1, <1>2, <1>3, <1>4, <1>8, <1>9, <1>10, <1>11, <1>12, <1>13, <1>15, <1>17, <1>18, <1>19,
     <1>20
  DEF Next, Update

(***************************************************************************)
(* The variables always have values of their types.                        *)
(***************************************************************************)
THEOREM TypeCorrect == Spec => []TypeOK
<1>1. Init => TypeOK
  <2> SUFFICES ASSUME Init PROVE TypeOK
    OBVIOUS
  <2>0. PICK hosts \in HostLists : \E f \in [hosts -> Slots] :
          /\ servers = [x \in Addresses |-> IF x \in hosts THEN f[x] ELSE NoServer]
          /\ address = [s \in Slots |->
                          IF \E x \in hosts : f[x] = s THEN CHOOSE x \in hosts : f[x] = s
                          ELSE None]
    BY DEF Init
  <2>1. PICK f \in [hosts -> Slots] :
          /\ servers = [x \in Addresses |-> IF x \in hosts THEN f[x] ELSE NoServer]
          /\ address = [s \in Slots |->
                          IF \E x \in hosts : f[x] = s THEN CHOOSE x \in hosts : f[x] = s
                          ELSE None]
    BY <2>0
  <2>2. \A s \in Slots : (\E x \in hosts : f[x] = s) => (CHOOSE x \in hosts : f[x] = s) \in hosts
    OBVIOUS
  <2>3. servers \in [Addresses -> Slots \cup {NoServer}]
    BY <2>1
  <2>4. address \in [Slots -> Addresses \cup {None}]
    BY <2>1, <2>2, ServerAssumption
  <2>5. desc \in [Slots -> Descriptions]
    BY DefaultType DEF Init
  <2>6. update \in [server : Slots \cup {NoServer}, phase : Phases, left : SUBSET Slots,
                    target : Slots \cup {NoServer}]
    BY DEF Init, NoUpdate, Phases
  <2> QED
    BY <2>3, <2>4, <2>5, <2>6, InitialAssumption, ServerAssumption DEF Init, TypeOK
<1>2. TypeOK /\ [Next]_vars => TypeOK'
  BY TypeStep
<1> QED
  BY <1>1, <1>2, PTL DEF Spec

-----------------------------------------------------------------------------
(***************************************************************************)
(* The steps of an update from a primary rest on the type it has set.      *)
(***************************************************************************)
Demoting == update.phase \in {"demote", "demoting"} => type = "ReplicaSetWithPrimary"

\* Expel and Retype set the type as their arms say.
LEMMA ArmKinds ==
  ASSUME NEW s, NEW t \in TopologyTypes, Retype(s, t) \/ Expel(s, t)
  PROVE  /\ type' = t \/ (Expel(s, t) /\ t \in ReplicaSetTypes /\ type' \in ReplicaSetTypes)
         /\ UNCHANGED <<setName, election, update>>
         /\ update = NoUpdate
  BY DEF Retype, Expel, Begin, CheckPrimary, ReplicaSetTypes, election

\* Updates run one at a time: each starts with no other under way.
LEMMA DemotingStep ==
  ASSUME Demoting, [Next]_vars
  PROVE  Demoting'
<1> USE DEF Demoting
<1>1. ASSUME update' = NoUpdate \/ update'.phase = "mark"
      PROVE  Demoting'
  BY <1>1 DEF NoUpdate
<1>2. ASSUME UNCHANGED <<type, update>>
      PROVE  Demoting'
  BY <1>2
<1>3. ASSUME NEW s \in Slots,
             \/ MonitorTakesFlag(s) \/ MonitorHandshake(s) \/ MonitorFails(s) \/ MonitorEnds(s)
             \/ PoolHandshake(s) \/ PoolFails(s)
      PROVE  Demoting'
  BY <1>2, <1>3
  DEF topology, MonitorTakesFlag, MonitorHandshake, MonitorFails, MonitorEnds, PoolHandshake,
      PoolFails
<1>4. ASSUME NEW s \in Slots,
             \/ UpdateNothing(s) \/ UpdateKind(s) \/ UpdateCheck(s) \/ UpdateRemove(s)
             \/ PrimaryOfOtherSet(s) \/ MemberOfOtherSet(s) \/ StalePrimary(s)
      PROVE  Demoting'
  BY <1>1, <1>4
  DEF UpdateNothing, UpdateKind, UpdateCheck, UpdateRemove, PrimaryOfOtherSet, MemberOfOtherSet,
      StalePrimary, Retype, Expel, Begin
<1>5. ASSUME NEW s \in Slots, AcceptPrimary(s)
      PROVE  Demoting'
  BY <1>5 DEF AcceptPrimary
<1>6. ASSUME NEW s \in Slots, FindOldPrimary(s) \/ DemoteOldPrimary(s)
      PROVE  Demoting'
  BY <1>6 DEF FindOldPrimary, DemoteOldPrimary, Continue, topology
<1>7. ASSUME NEW s \in Slots, InstallMembers(s) \/ MarkPrimary(s)
      PROVE  Demoting'
  BY <1>1, <1>7 DEF InstallMembers, MarkPrimary
<1>8. ASSUME NEW s \in Slots, AddMembers(s) \/ KnownMember(s)
      PROVE  Demoting'
  BY <1>1, <1>8 DEF AddMembers, KnownMember, ThenMarkPrimary, Begin
<1>9. CASE UNCHANGED vars
  BY <1>2, <1>9 DEF vars, topology
<1> QED
  BY <1>3, <1>4, <1>5, <1>6, <1>7, <1>8, <1>9 DEF Next, Update

LEMMA DemotingAlways == Spec => []Demoting
<1>1. Init => Demoting
  BY DEF Init, NoUpdate, Demoting
<1> QED
  BY <1>1, DemotingStep, PTL DEF Spec

(***************************************************************************)
(* Every step keeps the name of the set and the kind of deployment: only   *)
(* an update of an unknown topology sets the kind, and a name is adopted   *)
(* from a server of the same set.                                          *)
(***************************************************************************)
LEMMA IdentityStep ==
  ASSUME TypeOK, Demoting, [Next]_vars
  PROVE  /\ setName # None => setName' = setName
         /\ type # "Unknown" => Kind(type') = Kind(type)
<1> DEFINE Kept == /\ setName # None => setName' = setName
                   /\ type # "Unknown" => Kind(type') = Kind(type)
<1>1. ASSUME UNCHANGED <<type, setName>>
      PROVE  Kept
  BY <1>1
<1>2. ASSUME NEW s \in Slots,
             \/ MonitorTakesFlag(s) \/ MonitorHandshake(s) \/ MonitorFails(s) \/ MonitorEnds(s)
             \/ PoolHandshake(s) \/ PoolFails(s) \/ FindOldPrimary(s) \/ DemoteOldPrimary(s)
             \/ MarkPrimary(s)
      PROVE  Kept
  BY <1>1, <1>2
  DEF topology, MonitorTakesFlag, MonitorHandshake, MonitorFails, MonitorEnds, PoolHandshake,
      PoolFails, FindOldPrimary, DemoteOldPrimary, MarkPrimary
<1>3. ASSUME NEW s \in Slots, UpdateNothing(s) \/ UpdateKind(s) \/ UpdateCheck(s) \/ UpdateRemove(s)
      PROVE  Kept
  <2>1. UNCHANGED setName
    BY <1>3 DEF UpdateNothing, UpdateKind, UpdateCheck, UpdateRemove, Retype, Expel
  <2>2. ASSUME type # "Unknown"
        PROVE  Kind(type') = Kind(type)
    BY <1>3, <2>2
    DEF UpdateNothing, UpdateKind, UpdateCheck, UpdateRemove, Retype, Expel, CheckPrimary, Kind,
        ReplicaSetTypes
  <2> QED
    BY <2>1, <2>2
<1>4. ASSUME type \in ReplicaSetTypes \cup {"Unknown"}, type' \in ReplicaSetTypes,
             setName # None => setName' = setName
      PROVE  Kept
  BY <1>4 DEF Kind
<1>5. ASSUME NEW s \in Slots, PrimaryOfOtherSet(s) \/ MemberOfOtherSet(s)
      PROVE  Kept
  BY <1>4, <1>5
  DEF PrimaryOfOtherSet, MemberOfOtherSet, FromPrimary, FromMember, Expel, CheckPrimary,
      ReplicaSetTypes
<1>6. ASSUME NEW s \in Slots, StalePrimary(s) \/ AcceptPrimary(s)
      PROVE  Kept
  BY <1>4, <1>6
  DEF StalePrimary, AcceptPrimary, FromPrimary, SameSet, AdoptSetName, ReplicaSetTypes
<1>7. ASSUME NEW s \in Slots, InstallMembers(s)
      PROVE  Kept
  <2>1. type = "ReplicaSetWithPrimary" /\ UNCHANGED setName
    BY <1>7 DEF InstallMembers, Continue, Demoting
  <2>2. type' \in ReplicaSetTypes
    BY <1>7, <2>1 DEF InstallMembers, CheckPrimary, ReplicaSetTypes
  <2> QED
    BY <1>4, <2>1, <2>2 DEF ReplicaSetTypes
<1>8. ASSUME NEW s \in Slots, AddMembers(s) \/ KnownMember(s)
      PROVE  Kept
  BY <1>4, <1>8
  DEF AddMembers, KnownMember, FromMember, SameSet, AdoptSetName, CheckPrimary, ReplicaSetTypes
<1>9. CASE UNCHANGED vars
  BY <1>1, <1>9 DEF vars, topology
<1> QED
  BY <1>2, <1>3, <1>5, <1>6, <1>7, <1>8, <1>9 DEF Next, Update

(***************************************************************************)
(* Whatever the servers answer and in whichever order, the topology does   *)
(* not change its mind about the set's name or the kind of deployment.     *)
(***************************************************************************)
THEOREM IdentityIsFixed == Spec => IdentityFixed
<1>1. TypeOK /\ Demoting /\ [Next]_vars =>
        [/\ setName # None => setName' = setName
         /\ type # "Unknown" => Kind(type') = Kind(type)]_vars
  BY IdentityStep
<1> QED
  BY <1>1, TypeCorrect, DemotingAlways, PTL DEF Spec, IdentityFixed

-----------------------------------------------------------------------------
(***************************************************************************)
(* Only AcceptPrimary writes the latest election, and only with one that   *)
(* is not older; an election of which one half is None needs care.         *)
(***************************************************************************)
LEMMA ElectionStep ==
  ASSUME TypeOK, [Next]_vars
  PROVE  ElectionLeq(maxSetVersion, maxElectionId, maxSetVersion', maxElectionId')
<1>1. ASSUME UNCHANGED election
      PROVE  ElectionLeq(maxSetVersion, maxElectionId, maxSetVersion', maxElectionId')
  BY <1>1 DEF election, ElectionLeq
<1>2. ASSUME NEW s \in Slots, AcceptPrimary(s)
      PROVE  ElectionLeq(maxSetVersion, maxElectionId, maxSetVersion', maxElectionId')
  <2>1. /\ desc[s].setVersion \in Int \cup {None} /\ desc[s].electionId \in Int \cup {None}
        /\ maxSetVersion \in Int \cup {None} /\ maxElectionId \in Int \cup {None}
    BY ArmTypes DEF Descriptions, TypeOK
  <2>2. ~Stale(desc[s])
    BY <1>2 DEF AcceptPrimary
  <2> DEFINE sv == desc[s].setVersion  ei == desc[s].electionId
  <2>3. /\ maxElectionId' = IF sv # None /\ ei # None THEN ei ELSE maxElectionId
        /\ maxSetVersion' = IF sv # None /\ (maxSetVersion # None => sv > maxSetVersion)
                              THEN sv ELSE maxSetVersion
    BY <1>2 DEF AcceptPrimary, HasElection
  <2>4. ~ /\ sv # None /\ ei # None /\ maxSetVersion # None /\ maxElectionId # None
          /\ maxSetVersion > sv \/ (maxSetVersion = sv /\ maxElectionId > ei)
    BY <2>2 DEF Stale, HasElection
  <2> HIDE DEF sv, ei
  <2>5. sv \in Int \cup {None} /\ ei \in Int \cup {None}
    BY <2>1 DEF sv, ei
  <2> QED
    BY <2>1, <2>3, <2>4, <2>5, ServerAssumption DEF ElectionLeq, Precedes
<1>3. ASSUME NEW s \in Slots,
             \/ MonitorTakesFlag(s) \/ MonitorHandshake(s) \/ MonitorFails(s) \/ MonitorEnds(s)
             \/ PoolHandshake(s) \/ PoolFails(s) \/ FindOldPrimary(s) \/ DemoteOldPrimary(s)
             \/ MarkPrimary(s) \/ InstallMembers(s)
      PROVE  UNCHANGED election
  BY <1>3
  DEF topology, MonitorTakesFlag, MonitorHandshake, MonitorFails, MonitorEnds, PoolHandshake,
      PoolFails, FindOldPrimary, DemoteOldPrimary, MarkPrimary, InstallMembers
<1>4. ASSUME NEW s \in Slots,
             \/ UpdateNothing(s) \/ UpdateKind(s) \/ UpdateCheck(s) \/ UpdateRemove(s)
             \/ PrimaryOfOtherSet(s) \/ MemberOfOtherSet(s) \/ StalePrimary(s)
             \/ AddMembers(s) \/ KnownMember(s)
      PROVE  UNCHANGED election
  BY <1>4
  DEF UpdateNothing, UpdateKind, UpdateCheck, UpdateRemove, PrimaryOfOtherSet, MemberOfOtherSet,
      StalePrimary, AddMembers, KnownMember, Retype, Expel, election
<1>5. CASE UNCHANGED vars
  BY <1>1, <1>5 DEF vars, topology
<1> QED
  BY <1>1, <1>2, <1>3, <1>4, <1>5 DEF Next, Update

(***************************************************************************)
(* The latest election the topology has seen never goes back.              *)
(***************************************************************************)
THEOREM ElectionsAdvance == Spec => ElectionMonotone
<1>1. TypeOK /\ [Next]_vars =>
        [ElectionLeq(maxSetVersion, maxElectionId, maxSetVersion', maxElectionId')]_vars
  BY ElectionStep
<1> QED
  BY <1>1, TypeCorrect, PTL DEF Spec, ElectionMonotone
-----------------------------------------------------------------------------
(***************************************************************************)
(* What the updates rest on.  The properties that the runs check are not   *)
(* inductive: that an update ends with one primary needs what it has done  *)
(* when it is half way, and what it may take for granted of its server,    *)
(* whose monitor is busy with it.                                          *)
(***************************************************************************)

\* Servers the topology has heard of.
Quiet == {s \in Mapped : ~Pending(s)}

\* A server that has a new slot is Unknown.
SlotsFresh == \A s \in Slots \ Live : desc[s] = DefaultDescription

\* The type of a member tells that its reply carried a set name.
MembersNamed == \A s \in Slots : desc[s].type \in MemberTypes => desc[s].setName # None

PossibleInSets ==
  \A s \in Slots : desc[s].type = "PossiblePrimary" => type \in ReplicaSetTypes

\* An update that is under way: nobody else writes the description it is about.
UpdateUnderWay ==
  update # NoUpdate =>
    /\ update.server \in Slots
    /\ update.phase # "none"
    /\ type \in ReplicaSetTypes
    /\ desc[update.server].setName = setName
    /\ update.phase \in {"demote", "demoting"} => desc[update.server].type = "RSPrimary"
    /\ update.phase = "demoting" =>
         update.target \in update.left /\ address[update.target] # address[update.server]
    /\ update.phase = "mark" =>
         /\ desc[update.server].type \in NonPrimaryTypes
         /\ update.target \in (Mapped \ {update.server}) \cup {NoServer}

\* Half way through the map: the servers that were looked at are not primaries,
\* unless their monitors will tell.
DemotedSoFar ==
  update.phase \in {"demote", "demoting"} =>
    \A o \in Mapped \ update.left :
      desc[o].type = "RSPrimary" /\ address[o] # address[update.server]
        => o \in flagged \cup reporting

\* What the topology makes of a server it has heard of, for all of its types.
Vetted(s) ==
  /\ type = "Unknown" => desc[s].type \in {"RSGhost", "Unknown"}
  /\ type = "Sharded" => desc[s].type \in {"Mongos", "RSGhost", "Unknown"}
  /\ type \in ReplicaSetTypes =>
       /\ desc[s].type \notin {"Standalone", "Mongos"}
       /\ desc[s].type \in MemberTypes => desc[s].setName = setName

AllVetted == \A s \in Quiet : Vetted(s)

\* The election of a primary the topology has accepted was taken note of, and is
\* not later than that of a primary which is being accepted.
ElectedSince(old) ==
  old.type = "RSPrimary" /\ HasElection(old) =>
    /\ maxSetVersion # None /\ maxElectionId # None
    /\ ElectionLeq(old.setVersion, old.electionId, maxSetVersion, maxElectionId)

Outvoted(old, new) ==
  old.type = "RSPrimary" /\ HasElection(old) /\ HasElection(new)
    => ElectionLeq(old.setVersion, old.electionId, new.setVersion, new.electionId)

ElectionsNoted ==
  type # "Single" =>
    /\ \A s \in Quiet : ElectedSince(desc[s])
    /\ update.phase \in {"demote", "demoting"} =>
         /\ ElectedSince(desc[update.server])
         /\ \A s \in Quiet : Outvoted(desc[s], desc[update.server])

UpdateInv ==
  /\ MapConsistent /\ SlotsFresh /\ MembersNamed /\ PossibleInSets
  /\ UpdateUnderWay /\ DemotedSoFar /\ AllVetted /\ OnePrimary /\ ElectionsNoted

-----------------------------------------------------------------------------
(* The map *)

LEMMA MapFacts ==
  ASSUME TypeOK, MapConsistent
  PROVE  /\ \A s \in Mapped : /\ s \in Slots /\ s \in Live /\ address[s] \in Addresses
                              /\ servers[address[s]] = s
         /\ \A x \in Addresses : servers[x] # NoServer =>
              /\ servers[x] \in Mapped /\ address[servers[x]] = x
         /\ ServerValues = Mapped
<1>1. \A s \in Mapped : /\ s \in Slots /\ s \in Live /\ address[s] \in Addresses
                        /\ servers[address[s]] = s
  BY DEF TypeOK, Mapped, Live
<1>2. \A x \in Addresses : servers[x] # NoServer =>
        /\ servers[x] \in Mapped /\ address[servers[x]] = x
  BY ServerAssumption DEF TypeOK, MapConsistent, Mapped, Live
<1>3. NoServer \notin Mapped
  BY <1>1, ServerAssumption
<1> QED
  BY <1>1, <1>2, <1>3 DEF ServerValues

\* New servers get free slots; what was there stays as it was.
LEMMA AddServersEffect ==
  ASSUME TypeOK, MapConsistent,
         NEW map \in [Addresses -> Slots \cup {NoServer}],
         \A x \in Addresses : map[x] \in {servers[x], NoServer},
         NEW new \in SUBSET Addresses, AddServers(map, new)
  PROVE  /\ \A s \in Live : s \in Live' /\ address'[s] = address[s]
         /\ Mapped' \subseteq Mapped \cup FreeSlots
         /\ \A x \in Addresses : servers'[x] # NoServer => address'[servers'[x]] = x
<1>1. PICK f \in [new -> FreeSlots] :
        /\ Injective(f)
        /\ servers' = [x \in Addresses |-> IF x \in new THEN f[x] ELSE map[x]]
        /\ address' = [s \in Slots |->
                         IF \E x \in new : f[x] = s THEN CHOOSE x \in new : f[x] = s
                         ELSE address[s]]
  BY DEF AddServers
<1>2. FreeSlots \subseteq Slots /\ FreeSlots \cap Live = {} /\ Live \subseteq Slots
  BY DEF FreeSlots, Live
<1>3. \A s \in Live : address'[s] = address[s]
  BY <1>1, <1>2
<1>4. \A s \in Live : s \in Live'
  BY <1>2, <1>3 DEF Live
<1>5. \A x \in new : address'[f[x]] = x
  <2> SUFFICES ASSUME NEW x \in new PROVE address'[f[x]] = x
    OBVIOUS
  <2>1. \A y \in new : f[y] = f[x] => y = x
    BY <1>1 DEF Injective
  <2>2. f[x] \in Slots
    BY <1>2
  <2>3. (CHOOSE y \in new : f[y] = f[x]) = x
    BY <2>1
  <2> QED
    BY <1>1, <2>2, <2>3
<1>6. ASSUME NEW x \in Addresses, servers'[x] # NoServer
      PROVE  address'[servers'[x]] = x /\ servers'[x] \in Mapped \cup FreeSlots
  <2>1. CASE x \in new
    BY <1>1, <1>5, <2>1
  <2>2. CASE x \notin new
    <3>1. servers'[x] = servers[x] /\ servers[x] # NoServer
      BY <1>1, <1>6, <2>2
    <3>2. servers[x] \in Mapped /\ servers[x] \in Live /\ address[servers[x]] = x
      BY <3>1, MapFacts
    <3> QED
      BY <1>3, <3>1, <3>2
  <2> QED
    BY <2>1, <2>2
<1>7. servers' \in [Addresses -> Slots \cup {NoServer}] /\ address' \in [Slots -> Addresses \cup {None}]
  BY AddServersType
<1>8. ASSUME NEW s \in Mapped'
      PROVE  s \in Mapped \cup FreeSlots
  <2>1. s \in Slots /\ address'[s] \in Addresses /\ servers'[address'[s]] = s
    BY <1>7, <1>8 DEF Mapped, Live
  <2> QED
    BY <1>6, <2>1, ServerAssumption
<1> QED
  BY <1>3, <1>4, <1>6, <1>8

\* Removing the server at an address leaves no other one there.
LEMMA WithoutEffect ==
  ASSUME TypeOK, MapConsistent, NEW s \in Live, servers' = Without(s), address' = address
  PROVE  /\ s \notin Mapped' /\ Mapped' \subseteq Mapped /\ Live' = Live
         /\ \A x \in Addresses : servers'[x] # NoServer => address'[servers'[x]] = x
<1>1. address[s] \in Addresses
  BY DEF TypeOK, Live
<1>2. servers' = [servers EXCEPT ![address[s]] = NoServer]
  BY DEF Without
<1>3. Live' = Live
  BY DEF Live
<1>4. \A x \in Addresses : servers'[x] = IF x = address[s] THEN NoServer ELSE servers[x]
  BY <1>2 DEF TypeOK
<1>5. \A x \in Addresses : servers'[x] # NoServer => address'[servers'[x]] = x
  BY <1>4 DEF MapConsistent
<1>6. s \notin Mapped'
  BY <1>1, <1>4, ServerAssumption DEF Mapped, Live
<1>7. Mapped' \subseteq Mapped
  BY <1>3, <1>4, ServerAssumption DEF Mapped, Live, TypeOK
<1> QED
  BY <1>3, <1>5, <1>6, <1>7

-----------------------------------------------------------------------------
(* Monitors and pool handshakes *)

\* What may become of the topology's type and set name in a step.
Advances ==
  \/ type' = type /\ setName' = setName
  \/ type = "Unknown" /\ type' \in TopologyTypes /\ setName' = setName
  \/ /\ type \in ReplicaSetTypes \cup {"Unknown"} /\ type' \in ReplicaSetTypes
     /\ setName = None \/ setName' = setName

\* A server is still what the topology knows of it.
LEMMA VettedKept ==
  ASSUME TypeOK, MembersNamed, Advances, NEW o \in Slots, Vetted(o), desc'[o] = desc[o]
  PROVE  Vetted(o)'
<1>1. type \in TopologyTypes
  BY DEF TypeOK
<1>2. CASE type' = type /\ setName' = setName
  BY <1>2 DEF Vetted
<1>3. CASE type = "Unknown"
  BY <1>3 DEF Vetted, ReplicaSetTypes, MemberTypes, NonPrimaryTypes
<1>4. CASE /\ type \in ReplicaSetTypes /\ type' \in ReplicaSetTypes
           /\ setName = None \/ setName' = setName
  BY <1>4 DEF Vetted, MembersNamed, ReplicaSetTypes
<1> QED
  BY <1>2, <1>3, <1>4 DEF Advances

\* A monitor or the pool writes the description of one server, of which the
\* topology will hear unless it says nothing.
LEMMA DescriptionWritten ==
  ASSUME TypeOK, UpdateInv, NEW s \in Live, s # update.server,
         NEW d \in Descriptions, desc' = [desc EXCEPT ![s] = d],
         UNCHANGED <<type, setName, election, servers, address, update>>,
         flagged \cup reporting \subseteq flagged' \cup reporting',
         flagged' \cup reporting' \subseteq flagged \cup reporting \cup {s},
         d.type \in MemberTypes => d.setName # None,
         d.type # "PossiblePrimary" \/ d.type = desc[s].type,
         d.type = "Unknown" \/ s \in flagged' \cup reporting'
  PROVE  UpdateInv'
<1> USE DEF UpdateInv
<1>1. /\ Live' = Live /\ Mapped' = Mapped /\ s \in Slots
      /\ \A o \in Slots : desc'[o] = IF o = s THEN d ELSE desc[o]
  BY DEF Live, Mapped, TypeOK
<1>2. \A o \in Mapped : o \in Slots
  BY DEF Mapped, Live
<1>3. \A o \in Quiet' : (o \in Quiet /\ desc'[o] = desc[o]) \/ desc'[o].type = "Unknown"
  BY <1>1, <1>2 DEF Quiet, Pending
<1>4. Advances
  BY DEF Advances
<1>5. MapConsistent'
  BY <1>1 DEF MapConsistent
<1>6. SlotsFresh' /\ MembersNamed' /\ PossibleInSets'
  BY <1>1 DEF SlotsFresh, MembersNamed, PossibleInSets
<1>7. UpdateUnderWay'
  BY <1>1 DEF UpdateUnderWay
<1>8. DemotedSoFar'
  BY <1>1, <1>2 DEF DemotedSoFar
<1>9. AllVetted'
  <2> SUFFICES ASSUME NEW o \in Quiet' PROVE Vetted(o)'
    BY DEF AllVetted
  <2>1. o \in Slots
    BY <1>1, <1>2 DEF Quiet
  <2>2. CASE o \in Quiet /\ desc'[o] = desc[o]
    BY <1>4, <2>1, <2>2, VettedKept DEF AllVetted
  <2>3. CASE desc'[o].type = "Unknown"
    BY <2>3 DEF Vetted, MemberTypes, NonPrimaryTypes
  <2> QED
    BY <1>3, <2>2, <2>3
<1>10. OnePrimary'
  BY <1>1, <1>2 DEF OnePrimary, Pending
<1>11. ElectionsNoted'
  <2>1. update.phase \in {"demote", "demoting"} => desc'[update.server] = desc[update.server]
    BY <1>1 DEF UpdateUnderWay, NoUpdate
  <2>2. UNCHANGED <<type, maxSetVersion, maxElectionId, update>>
    BY DEF election
  <2> QED
    BY <1>3, <2>1, <2>2 DEF ElectionsNoted, ElectedSince, Outvoted
<1> QED
  BY <1>5, <1>6, <1>7, <1>8, <1>9, <1>10, <1>11

LEMMA MonitorKeeps ==
  ASSUME TypeOK, UpdateInv, NEW s \in Slots,
         \/ MonitorTakesFlag(s) \/ MonitorHandshake(s) \/ MonitorFails(s)
         \/ PoolHandshake(s) \/ PoolFails(s)
  PROVE  UpdateInv'
<1>1. /\ s \in Live /\ s # update.server
      /\ UNCHANGED <<type, setName, election, servers, address, update>>
  BY ServerAssumption
  DEF MonitorTakesFlag, MonitorHandshake, MonitorFails, PoolHandshake, PoolFails, MonitorFree,
      Mapped, NoUpdate, topology
<1>2. /\ flagged \cup reporting \subseteq flagged' \cup reporting'
      /\ flagged' \cup reporting' \subseteq flagged \cup reporting \cup {s}
  BY DEF MonitorTakesFlag, MonitorHandshake, MonitorFails, PoolHandshake, PoolFails
<1>3. desc[s] \in Descriptions /\ desc \in [Slots -> Descriptions]
  BY DEF TypeOK
<1>4. CASE MonitorTakesFlag(s)
  <2>1. desc' = [desc EXCEPT ![s] = desc[s]] /\ s \in flagged' \cup reporting'
    BY <1>3, <1>4 DEF MonitorTakesFlag
  <2>2. desc[s].type \in MemberTypes => desc[s].setName # None
    BY DEF UpdateInv, MembersNamed
  <2> QED
    BY <1>1, <1>2, <1>3, <2>1, <2>2, DescriptionWritten
<1>5. CASE MonitorHandshake(s) \/ PoolHandshake(s)
  <2>1. PICK r \in Replies[address[s]] : desc' = [desc EXCEPT ![s] = Described(r)]
    BY <1>5 DEF MonitorHandshake, PoolHandshake, StoreReply
  <2>2. Described(r) \in Descriptions
    BY <1>1, DescribedType DEF TypeOK, Live
  <2>3. /\ Described(r).type \in MemberTypes => Described(r).setName # None
        /\ Described(r).type # "PossiblePrimary"
    BY DEF Described, ServerTypeOf, MemberTypes, NonPrimaryTypes
  <2>4. s \in flagged' \cup reporting'
    BY <1>5 DEF MonitorHandshake, PoolHandshake
  <2> QED
    BY <1>1, <1>2, <2>1, <2>2, <2>3, <2>4, DescriptionWritten
<1>6. CASE MonitorFails(s) \/ PoolFails(s)
  <2> DEFINE d == [desc[s] EXCEPT !.type = "Unknown"]
  <2>1. desc' = [desc EXCEPT ![s] = d]
    BY <1>6 DEF MonitorFails, PoolFails, StoreFailure
  <2>2. d \in Descriptions /\ d.type = "Unknown"
    BY <1>3 DEF Descriptions, ServerTypes
  <2> HIDE DEF d
  <2> QED
    BY <1>1, <1>2, <2>1, <2>2, DescriptionWritten DEF MemberTypes, NonPrimaryTypes
<1> QED
  BY <1>4, <1>5, <1>6

\* A monitor that ends frees a slot that the map does not hold.
LEMMA MonitorEndKeeps ==
  ASSUME TypeOK, UpdateInv, NEW s \in Slots, MonitorEnds(s)
  PROVE  UpdateInv'
<1> USE DEF UpdateInv
<1>1. /\ s \in Live /\ s \notin reporting /\ s # update.server /\ s \notin Mapped
      /\ address' = [address EXCEPT ![s] = None]
      /\ desc' = [desc EXCEPT ![s] = DefaultDescription]
      /\ flagged' = flagged \ {s}
      /\ UNCHANGED <<type, setName, maxSetVersion, maxElectionId, servers, reporting, update>>
  BY DEF MonitorEnds, MonitorFree, topology, election
<1>2. \A o \in Slots : /\ address'[o] = IF o = s THEN None ELSE address[o]
                       /\ desc'[o] = IF o = s THEN DefaultDescription ELSE desc[o]
  BY <1>1 DEF TypeOK
<1>3. Live' = Live \ {s} /\ Live \subseteq Slots
  BY <1>1, <1>2 DEF Live
<1>4. Mapped' = Mapped
  BY <1>1, <1>2, <1>3 DEF Mapped
<1>5. \A x \in Addresses : servers[x] # NoServer => servers[x] \in Slots /\ servers[x] # s
  BY <1>1, MapFacts
<1>6. MapConsistent'
  BY <1>1, <1>2, <1>3, <1>4, <1>5 DEF MapConsistent
<1>7. SlotsFresh' /\ MembersNamed' /\ PossibleInSets'
  <2>1. DefaultDescription.type = "Unknown" /\ "Unknown" \notin MemberTypes
    BY DEF DefaultDescription, MemberTypes, NonPrimaryTypes
  <2>2. SlotsFresh'
    BY <1>2, <1>3 DEF SlotsFresh
  <2>3. MembersNamed'
    BY <1>2, <2>1 DEF MembersNamed
  <2>4. PossibleInSets'
    BY <1>1, <1>2, <2>1 DEF PossibleInSets
  <2> QED
    BY <2>2, <2>3, <2>4
<1>8. \A o \in Mapped : o \in Slots /\ o # s
  BY <1>1 DEF Mapped, Live
<1>9. UpdateUnderWay'
  BY <1>1, <1>2, <1>4, <1>8 DEF UpdateUnderWay, MapConsistent
<1>10. DemotedSoFar'
  BY <1>1, <1>2, <1>4, <1>8 DEF DemotedSoFar, UpdateUnderWay, NoUpdate
<1>11. Quiet' = Quiet /\ \A o \in Quiet : o \in Slots /\ desc'[o] = desc[o]
  BY <1>1, <1>2, <1>4, <1>8 DEF Quiet, Pending
<1>12. AllVetted'
  BY <1>1, <1>11 DEF AllVetted, Vetted
<1>13. OnePrimary'
  BY <1>1, <1>2, <1>4, <1>8 DEF OnePrimary, Pending
<1>14. update.phase \in {"demote", "demoting"} => desc'[update.server] = desc[update.server]
  BY <1>1, <1>2 DEF UpdateUnderWay, NoUpdate
<1>15. ElectionsNoted'
  BY <1>1, <1>11, <1>14 DEF ElectionsNoted, ElectedSince, Outvoted
<1> QED
  BY <1>6, <1>7, <1>9, <1>10, <1>12, <1>13, <1>15

-----------------------------------------------------------------------------
(* Updates that end where they begin *)

\* The topology lets go of a server: it is not in the map, or no primary and
\* what the topology takes it for.
LEMMA ArmEnds ==
  ASSUME TypeOK, UpdateInv, Advances, NEW s \in reporting,
         update = NoUpdate, update' = NoUpdate,
         flagged' = flagged, reporting' = reporting \ {s},
         UNCHANGED <<election, address>>,
         \A o \in Slots \ {s} : desc'[o] = desc[o],
         desc'[s].type \in MemberTypes => desc'[s].setName # None,
         desc'[s].type = "PossiblePrimary" => desc[s].type = "PossiblePrimary",
         \A x \in Addresses : servers'[x] # NoServer => address'[servers'[x]] = x,
         Mapped' \subseteq Mapped,
         s \in Mapped' => Vetted(s)' /\ (type' # "Single" => desc'[s].type # "RSPrimary")
  PROVE  UpdateInv'
<1> USE DEF UpdateInv
<1>1. Live' = Live /\ s \in Live /\ \A o \in Mapped : o \in Slots
  BY DEF Live, MapConsistent, Mapped
<1>2. \A o \in Quiet' : o \in Mapped' /\ (o = s \/ (o \in Quiet /\ desc'[o] = desc[o]))
  BY <1>1, ServerAssumption DEF Quiet, Pending, NoUpdate
<1>3. NoUpdate.phase = "none" /\ NoUpdate.server = NoServer
  BY DEF NoUpdate
<1>4. MapConsistent'
  BY <1>1 DEF MapConsistent
<1>5. SlotsFresh'
  BY <1>1 DEF SlotsFresh
<1>6. MembersNamed'
  BY DEF MembersNamed
<1>7. PossibleInSets'
  BY DEF PossibleInSets, Advances, ReplicaSetTypes
<1>8. UpdateUnderWay' /\ DemotedSoFar'
  BY <1>3 DEF UpdateUnderWay, DemotedSoFar
<1>9. AllVetted'
  <2> SUFFICES ASSUME NEW o \in Quiet' PROVE Vetted(o)'
    BY DEF AllVetted
  <2>1. CASE o = s
    BY <1>2, <2>1
  <2>2. CASE o \in Quiet /\ desc'[o] = desc[o]
    BY <1>1, <1>2, <2>2, VettedKept DEF AllVetted
  <2> QED
    BY <1>2, <2>1, <2>2
<1>10. type' # "Single" => type # "Single"
  BY DEF Advances, ReplicaSetTypes
<1>11. OnePrimary'
  <2> SUFFICES ASSUME type' # "Single", NEW o \in Quiet', NEW p \in Quiet', o # p,
                      desc'[o].type = "RSPrimary", desc'[p].type = "RSPrimary"
               PROVE  FALSE
    BY DEF OnePrimary, Quiet
  <2>1. o # s /\ p # s
    BY <1>2
  <2>2. /\ o \in Mapped /\ ~Pending(o) /\ desc[o].type = "RSPrimary"
        /\ p \in Mapped /\ ~Pending(p) /\ desc[p].type = "RSPrimary"
    BY <1>2, <2>1 DEF Quiet
  <2> QED
    BY <1>10, <2>2 DEF OnePrimary
<1>12. ElectionsNoted'
  <2> SUFFICES ASSUME type' # "Single", NEW o \in Quiet' PROVE ElectedSince(desc[o])'
    BY <1>3 DEF ElectionsNoted
  <2>1. CASE o = s
    BY <1>2, <2>1 DEF ElectedSince
  <2>2. CASE o \in Quiet /\ desc'[o] = desc[o]
    BY <1>10, <2>2 DEF ElectionsNoted, ElectedSince, election
  <2> QED
    BY <1>2, <2>1, <2>2
<1> QED
  BY <1>4, <1>5, <1>6, <1>7, <1>8, <1>9, <1>11, <1>12

\* Arms that change no more than the type.
LEMMA RetypeKeeps ==
  ASSUME TypeOK, UpdateInv, NEW s \in Slots,
         UpdateNothing(s) \/ UpdateKind(s) \/ UpdateCheck(s)
  PROVE  UpdateInv'
<1>1. type \in TopologyTypes /\ desc[s] \in Descriptions
  BY DEF TypeOK
<1>2. /\ s \in reporting /\ update = NoUpdate /\ reporting' = reporting \ {s}
      /\ UNCHANGED <<setName, election, servers, address, desc, update, flagged>>
  BY DEF UpdateNothing, UpdateKind, UpdateCheck, Retype, Begin
<1>3. Mapped' = Mapped
  BY <1>2 DEF Mapped, Live
<1>4. \A x \in Addresses : servers'[x] # NoServer => address'[servers'[x]] = x
  BY <1>2 DEF UpdateInv, MapConsistent
<1>5. /\ desc'[s].type \in MemberTypes => desc'[s].setName # None
      /\ desc[s].type = "PossiblePrimary" => type \in ReplicaSetTypes
  BY <1>2 DEF UpdateInv, MembersNamed, PossibleInSets
<1>6. CASE UpdateNothing(s)
  <2>1. type' = type /\ Advances
    BY <1>2, <1>6 DEF UpdateNothing, Retype, Advances
  <2>2. Vetted(s)' /\ (type' # "Single" => desc'[s].type # "RSPrimary")
    BY <1>2, <1>5, <1>6, <2>1
    DEF UpdateNothing, Ignored, Vetted, ReplicaSetTypes, MemberTypes, NonPrimaryTypes
  <2> QED
    BY <1>2, <1>3, <1>4, <1>5, <2>1, <2>2, ArmEnds
<1>7. CASE UpdateKind(s)
  <2>1. /\ type = "Unknown" /\ Advances
        /\ \/ desc[s].type = "Standalone" /\ type' = "Single"
           \/ desc[s].type = "Mongos" /\ type' = "Sharded"
    BY <1>2, <1>7 DEF UpdateKind, Retype, Advances, TopologyTypes
  <2>2. Vetted(s)' /\ (type' # "Single" => desc'[s].type # "RSPrimary")
    BY <1>2, <2>1 DEF Vetted, ReplicaSetTypes
  <2> QED
    BY <1>2, <1>3, <1>4, <1>5, <2>1, <2>2, ArmEnds
<1>8. CASE UpdateCheck(s)
  <2>1. /\ type' \in ReplicaSetTypes /\ Advances
        /\ desc[s].type \in {"Unknown", "RSGhost"}
    BY <1>2, <1>8 DEF UpdateCheck, Retype, Advances, CheckPrimary, ReplicaSetTypes
  <2>2. Vetted(s)' /\ (type' # "Single" => desc'[s].type # "RSPrimary")
    BY <1>2, <2>1 DEF Vetted, ReplicaSetTypes, MemberTypes, NonPrimaryTypes
  <2> QED
    BY <1>2, <1>3, <1>4, <1>5, <2>1, <2>2, ArmEnds
<1> QED
  BY <1>6, <1>7, <1>8

\* Arms that remove the server.
LEMMA ExpelKeeps ==
  ASSUME TypeOK, UpdateInv, NEW s \in Slots,
         UpdateRemove(s) \/ PrimaryOfOtherSet(s) \/ MemberOfOtherSet(s)
  PROVE  UpdateInv'
<1>1. type \in TopologyTypes
  BY DEF TypeOK
<1>2. /\ s \in reporting /\ update = NoUpdate /\ reporting' = reporting \ {s}
      /\ servers' = Without(s)
      /\ UNCHANGED <<setName, election, address, desc, update, flagged>>
  BY DEF UpdateRemove, PrimaryOfOtherSet, MemberOfOtherSet, Expel, Begin
<1>3. /\ s \notin Mapped' /\ Mapped' \subseteq Mapped
      /\ \A x \in Addresses : servers'[x] # NoServer => address'[servers'[x]] = x
  BY <1>2, WithoutEffect DEF UpdateInv, MapConsistent
<1>4. /\ desc'[s].type \in MemberTypes => desc'[s].setName # None
      /\ desc'[s] = desc[s]
  BY <1>2 DEF UpdateInv, MembersNamed
<1>5. Advances
  BY <1>2
  DEF UpdateRemove, PrimaryOfOtherSet, MemberOfOtherSet, Expel, FromPrimary, FromMember,
      CheckPrimary, Advances, ReplicaSetTypes
<1> QED
  BY <1>2, <1>3, <1>4, <1>5, ArmEnds

\* A primary of an earlier election is forgotten.
LEMMA StalePrimaryKeeps ==
  ASSUME TypeOK, UpdateInv, NEW s \in Slots, StalePrimary(s)
  PROVE  UpdateInv'
<1>1. /\ s \in reporting /\ update = NoUpdate /\ reporting' = reporting \ {s}
      /\ desc' = [desc EXCEPT ![s] = DefaultDescription]
      /\ UNCHANGED <<election, servers, address, update, flagged>>
  BY DEF StalePrimary, Begin
<1>2. Mapped' = Mapped
  BY <1>1 DEF Mapped, Live
<1>3. \A x \in Addresses : servers'[x] # NoServer => address'[servers'[x]] = x
  BY <1>1 DEF UpdateInv, MapConsistent
<1>4. Advances
  BY DEF StalePrimary, FromPrimary, SameSet, AdoptSetName, Advances, ReplicaSetTypes
<1>5. \A o \in Slots : desc'[o] = IF o = s THEN DefaultDescription ELSE desc[o]
  BY <1>1 DEF TypeOK
<1>6. desc'[s].type = "Unknown"
  BY <1>5 DEF DefaultDescription
<1>7. Vetted(s)'
  BY <1>6 DEF Vetted, MemberTypes, NonPrimaryTypes
<1> QED
  BY <1>1, <1>2, <1>3, <1>4, <1>5, <1>6, <1>7, ArmEnds DEF MemberTypes, NonPrimaryTypes

-----------------------------------------------------------------------------
(* Updates from a primary *)

\* Elections are ordered.
LEMMA LeqTransitive ==
  ASSUME NEW u \in Int \cup {None}, NEW c \in Int \cup {None}, NEW v \in Int \cup {None},
         NEW d \in Int \cup {None}, NEW w \in Int \cup {None}, NEW e \in Int \cup {None},
         ElectionLeq(u, c, v, d), ElectionLeq(v, d, w, e)
  PROVE  ElectionLeq(u, c, w, e)
BY ServerAssumption DEF ElectionLeq, Precedes

\* A primary that is accepted has an election that was not outdated, and it is
\* taken note of.
LEMMA AcceptedElection ==
  ASSUME TypeOK, NEW s \in Slots, AcceptPrimary(s)
  PROVE  /\ ElectedSince(desc[s])'
         /\ maxSetVersion # None => maxSetVersion' # None
         /\ maxElectionId # None => maxElectionId' # None
         /\ HasElection(desc[s]) /\ maxSetVersion # None /\ maxElectionId # None =>
              ElectionLeq(maxSetVersion, maxElectionId, desc[s].setVersion, desc[s].electionId)
<1>1. /\ desc[s].setVersion \in Int \cup {None} /\ desc[s].electionId \in Int \cup {None}
      /\ maxSetVersion \in Int \cup {None} /\ maxElectionId \in Int \cup {None}
  BY ArmTypes DEF Descriptions, TypeOK
<1> DEFINE sv == desc[s].setVersion  ei == desc[s].electionId
<1>2. /\ maxElectionId' = IF sv # None /\ ei # None THEN ei ELSE maxElectionId
      /\ maxSetVersion' = IF sv # None /\ (maxSetVersion # None => sv > maxSetVersion)
                            THEN sv ELSE maxSetVersion
      /\ desc' = desc
  BY DEF AcceptPrimary, HasElection
<1>3. ~ /\ sv # None /\ ei # None /\ maxSetVersion # None /\ maxElectionId # None
        /\ maxSetVersion > sv \/ (maxSetVersion = sv /\ maxElectionId > ei)
  BY DEF AcceptPrimary, Stale, HasElection
<1>4. HasElection(desc[s]) <=> sv # None /\ ei # None
  BY DEF HasElection
<1> HIDE DEF sv, ei
<1>5. sv \in Int \cup {None} /\ ei \in Int \cup {None}
  BY <1>1 DEF sv, ei
<1>6. sv # None /\ ei # None => maxSetVersion' # None /\ maxElectionId' # None
                                /\ ElectionLeq(sv, ei, maxSetVersion', maxElectionId')
  BY <1>1, <1>2, <1>3, <1>5, ServerAssumption DEF ElectionLeq, Precedes
<1>7. ElectedSince(desc[s])'
  BY <1>2, <1>4, <1>6 DEF ElectedSince, HasElection, sv, ei
<1>8. maxSetVersion # None => maxSetVersion' # None
  BY <1>2
<1>9. maxElectionId # None => maxElectionId' # None
  BY <1>2
<1>10. sv # None /\ ei # None /\ maxSetVersion # None /\ maxElectionId # None
         => ElectionLeq(maxSetVersion, maxElectionId, sv, ei)
  BY <1>1, <1>3, <1>5, ServerAssumption DEF ElectionLeq, Precedes
<1> QED
  BY <1>4, <1>7, <1>8, <1>9, <1>10 DEF sv, ei

LEMMA AcceptPrimaryKeeps ==
  ASSUME TypeOK, TypeOK', UpdateInv, NEW s \in Slots, AcceptPrimary(s)
  PROVE  UpdateInv'
<1> USE DEF UpdateInv
<1>1. /\ s \in reporting /\ update = NoUpdate /\ reporting' = reporting \ {s}
      /\ type' = "ReplicaSetWithPrimary" /\ setName' = desc[s].setName
      /\ update' = [server |-> s, phase |-> "demote", left |-> ServerValues, target |-> NoServer]
      /\ UNCHANGED <<servers, address, desc, flagged>>
      /\ desc[s].type = "RSPrimary"
      /\ type \in ReplicaSetTypes \cup {"Unknown"}
      /\ setName = None \/ setName' = setName
  BY DEF AcceptPrimary, AdoptSetName, FromPrimary, SameSet, Begin
<1>2. Live' = Live /\ Mapped' = Mapped /\ ServerValues = Mapped
  BY <1>1, MapFacts DEF Live, Mapped
<1>3. s \in Live /\ \A o \in Mapped : o \in Slots
  BY <1>1, MapFacts DEF MapConsistent
<1>4. Quiet' = Quiet
  BY <1>1, <1>2, <1>3, ServerAssumption DEF Quiet, Pending, NoUpdate
<1>5. Advances /\ type' \in ReplicaSetTypes /\ type # "Single"
  BY <1>1 DEF Advances, ReplicaSetTypes
<1>6. update' # NoUpdate
  BY <1>1, ServerAssumption DEF NoUpdate
<1>7. MapConsistent'
  BY <1>1, <1>2, <1>3 DEF MapConsistent
<1>8. SlotsFresh' /\ MembersNamed' /\ PossibleInSets'
  BY <1>1, <1>2, <1>5 DEF SlotsFresh, MembersNamed, PossibleInSets
<1>9. UpdateUnderWay'
  BY <1>1, <1>5 DEF UpdateUnderWay
<1>10. DemotedSoFar'
  BY <1>1, <1>2 DEF DemotedSoFar
<1>11. AllVetted'
  <2> SUFFICES ASSUME NEW o \in Quiet PROVE Vetted(o)'
    BY <1>4 DEF AllVetted
  <2> QED
    BY <1>1, <1>3, <1>5, VettedKept DEF AllVetted, Quiet
<1>12. OnePrimary'
  BY <1>1, <1>2, <1>3, <1>4, <1>5 DEF OnePrimary, Quiet
<1>13. ElectionsNoted'
  <2>1. ElectedSince(desc[s])'
    BY AcceptedElection
  <2>2. ASSUME NEW o \in Quiet, desc[o].type = "RSPrimary", HasElection(desc[o])
        PROVE  /\ maxSetVersion # None /\ maxElectionId # None
               /\ ElectionLeq(desc[o].setVersion, desc[o].electionId, maxSetVersion, maxElectionId)
    BY <1>5, <2>2 DEF ElectionsNoted, ElectedSince
  <2>3. ASSUME NEW o \in Quiet
        PROVE  o \in Slots /\ desc[o] \in Descriptions
    BY <1>3 DEF Quiet, TypeOK
  <2>4. /\ maxSetVersion \in Int \cup {None} /\ maxElectionId \in Int \cup {None}
        /\ maxSetVersion' \in Int \cup {None} /\ maxElectionId' \in Int \cup {None}
        /\ desc[s].setVersion \in Int \cup {None} /\ desc[s].electionId \in Int \cup {None}
    BY DEF TypeOK, Descriptions
  <2>5. ASSUME NEW o \in Quiet PROVE ElectedSince(desc[o])'
    <3> SUFFICES ASSUME desc[o].type = "RSPrimary", HasElection(desc[o])
                 PROVE  /\ maxSetVersion' # None /\ maxElectionId' # None
                        /\ ElectionLeq(desc[o].setVersion, desc[o].electionId,
                                       maxSetVersion', maxElectionId')
      BY <1>1 DEF ElectedSince, HasElection
    <3>1. ElectionLeq(maxSetVersion, maxElectionId, maxSetVersion', maxElectionId')
      BY ElectionStep DEF Next, Update
    <3>2. desc[o].setVersion \in Int \cup {None} /\ desc[o].electionId \in Int \cup {None}
      BY <2>3 DEF Descriptions
    <3>3. maxSetVersion # None /\ maxElectionId # None
          /\ ElectionLeq(desc[o].setVersion, desc[o].electionId, maxSetVersion, maxElectionId)
      BY <2>2
    <3>4. maxSetVersion' # None /\ maxElectionId' # None
      BY <3>3, AcceptedElection
    <3> QED
      BY <2>4, <3>1, <3>2, <3>3, <3>4, LeqTransitive
  <2>6. ASSUME NEW o \in Quiet PROVE Outvoted(desc[o], desc[s])
    <3> SUFFICES ASSUME desc[o].type = "RSPrimary", HasElection(desc[o]), HasElection(desc[s])
                 PROVE  ElectionLeq(desc[o].setVersion, desc[o].electionId,
                                    desc[s].setVersion, desc[s].electionId)
      BY DEF Outvoted
    <3>1. desc[o].setVersion \in Int \cup {None} /\ desc[o].electionId \in Int \cup {None}
      BY <2>3 DEF Descriptions
    <3>2. ElectionLeq(desc[o].setVersion, desc[o].electionId, maxSetVersion, maxElectionId)
          /\ ElectionLeq(maxSetVersion, maxElectionId, desc[s].setVersion, desc[s].electionId)
      BY <2>2, AcceptedElection
    <3>3. /\ maxSetVersion \in Int \cup {None} /\ maxElectionId \in Int \cup {None}
          /\ desc[s].setVersion \in Int \cup {None} /\ desc[s].electionId \in Int \cup {None}
      BY <2>4
    <3> QED
      BY <3>1, <3>2, <3>3, LeqTransitive, Zenon
  <2> QED
    BY <1>1, <1>4, <2>1, <2>5, <2>6 DEF ElectionsNoted, Outvoted, HasElection
<1> QED
  BY <1>7, <1>8, <1>9, <1>10, <1>11, <1>12, <1>13

\* The map is searched: nothing changes but what is left of it.
LEMMA FindOldPrimaryKeeps ==
  ASSUME TypeOK, UpdateInv, NEW s \in Slots, FindOldPrimary(s)
  PROVE  UpdateInv'
<1> USE DEF UpdateInv
<1>1. PICK o \in update.left :
        update' =
          IF desc[o].type = "RSPrimary" /\ address[o] # address[s]
            THEN [update EXCEPT !.phase = "demoting", !.target = o]
            ELSE [update EXCEPT !.left = @ \ {o}]
  BY DEF FindOldPrimary
<1>2. /\ update.server = s /\ update.phase = "demote" /\ update # NoUpdate
      /\ UNCHANGED <<type, setName, election, servers, address, desc, flagged, reporting>>
  BY DEF FindOldPrimary, Continue, topology, NoUpdate
<1>3. /\ update'.server = s /\ update'.left \subseteq update.left
      /\ update'.phase \in {"demote", "demoting"}
      /\ update'.phase = "demoting" =>
           update'.target \in update'.left /\ address[update'.target] # address[s]
      /\ \A p \in update.left \ update'.left :
           ~(desc[p].type = "RSPrimary" /\ address[p] # address[s])
  BY <1>1, <1>2 DEF TypeOK
<1>4. Live' = Live /\ Mapped' = Mapped
  BY <1>2 DEF Live, Mapped
<1>5. Quiet' = Quiet
  BY <1>2, <1>3, <1>4 DEF Quiet, Pending
<1>6. MapConsistent'
  BY <1>2, <1>3, <1>4 DEF MapConsistent
<1>7. SlotsFresh' /\ MembersNamed' /\ PossibleInSets'
  BY <1>2, <1>4 DEF SlotsFresh, MembersNamed, PossibleInSets
<1>8. UpdateUnderWay'
  BY <1>2, <1>3 DEF UpdateUnderWay
<1>9. DemotedSoFar'
  BY <1>2, <1>3, <1>4 DEF DemotedSoFar
<1>10. AllVetted'
  BY <1>2, <1>5 DEF AllVetted, Vetted
<1>11. OnePrimary'
  BY <1>2, <1>3, <1>4 DEF OnePrimary, Pending
<1>12. ElectionsNoted'
  BY <1>2, <1>3, <1>5 DEF ElectionsNoted, ElectedSince, Outvoted, HasElection, election
<1> QED
  BY <1>6, <1>7, <1>8, <1>9, <1>10, <1>11, <1>12

\* Another primary is written down as unknown, whatever was stored meanwhile.
LEMMA DemoteOldPrimaryKeeps ==
  ASSUME TypeOK, UpdateInv, NEW s \in Slots, DemoteOldPrimary(s)
  PROVE  UpdateInv'
<1> USE DEF UpdateInv
<1> DEFINE t == update.target
<1>1. /\ update.server = s /\ update.phase = "demoting" /\ update # NoUpdate
      /\ desc' = [desc EXCEPT ![t].type = "Unknown"]
      /\ update' = [update EXCEPT !.phase = "demote", !.left = @ \ {t}, !.target = NoServer]
      /\ UNCHANGED <<type, setName, election, servers, address, flagged, reporting>>
  BY DEF DemoteOldPrimary, Continue, topology, NoUpdate
<1>2. t \in update.left /\ address[t] # address[s] /\ t # s
  BY <1>1 DEF UpdateUnderWay
<1>3. update.left \subseteq Mapped /\ t \in Mapped /\ t \in Slots /\ t \in Live
  BY <1>1, <1>2, MapFacts DEF MapConsistent
<1>4. update'.server = s /\ update'.phase = "demote" /\ update'.left = update.left \ {t}
      /\ update' # NoUpdate
  BY <1>1 DEF TypeOK, NoUpdate
<1>5. /\ \A o \in Slots \ {t} : desc'[o] = desc[o]
      /\ desc'[t].type = "Unknown"
      /\ desc'[t].setName = desc[t].setName
  BY <1>1, <1>3 DEF TypeOK, Descriptions
<1> HIDE DEF t
<1>6. Live' = Live /\ Mapped' = Mapped /\ \A o \in Mapped : o \in Slots
  BY <1>1, MapFacts DEF Live, Mapped
<1>7. Quiet' = Quiet /\ \A o \in Quiet : o \in Mapped
  BY <1>1, <1>4, <1>6 DEF Quiet, Pending
<1>8. MapConsistent'
  BY <1>1, <1>3, <1>4, <1>6 DEF MapConsistent
<1>9. SlotsFresh'
  BY <1>3, <1>5, <1>6 DEF SlotsFresh
<1>10. MembersNamed' /\ PossibleInSets'
  <2>1. \A o \in Slots : desc'[o] = desc[o] \/ desc'[o].type = "Unknown"
    BY <1>5
  <2> QED
    BY <1>1, <2>1 DEF MembersNamed, PossibleInSets, MemberTypes, NonPrimaryTypes
<1>11. UpdateUnderWay'
  BY <1>1, <1>2, <1>4, <1>5 DEF UpdateUnderWay
<1>12. DemotedSoFar'
  BY <1>1, <1>4, <1>5, <1>6 DEF DemotedSoFar
<1>13. \A o \in Mapped : desc'[o] = desc[o] \/ desc'[o].type = "Unknown"
  BY <1>5, <1>6
<1>14. AllVetted'
  <2> SUFFICES ASSUME NEW o \in Quiet PROVE Vetted(o)'
    BY <1>7 DEF AllVetted
  <2>1. CASE desc'[o].type = "Unknown"
    BY <2>1 DEF Vetted, MemberTypes, NonPrimaryTypes
  <2>2. CASE desc'[o] = desc[o]
    BY <1>1, <2>2 DEF AllVetted, Vetted
  <2> QED
    BY <1>7, <1>13, <2>1, <2>2
<1>15. OnePrimary'
  BY <1>1, <1>4, <1>6, <1>13 DEF OnePrimary, Pending
<1>16. ElectionsNoted'
  <2>1. desc'[s] = desc[s]
    BY <1>2, <1>5
  <2>2. \A o \in Quiet : desc'[o] = desc[o] \/ desc'[o].type = "Unknown"
    BY <1>7, <1>13
  <2>3. UNCHANGED <<type, maxSetVersion, maxElectionId>>
    BY <1>1 DEF election
  <2> QED
    BY <1>1, <1>4, <1>7, <2>1, <2>2, <2>3 DEF ElectionsNoted, ElectedSince, Outvoted
<1> QED
  BY <1>8, <1>9, <1>10, <1>11, <1>12, <1>14, <1>15, <1>16

\* The update ends: the members are in the map, the new ones unknown.
LEMMA InstallMembersKeeps ==
  ASSUME TypeOK, UpdateInv, NEW s \in Slots, InstallMembers(s)
  PROVE  UpdateInv'
<1> USE DEF UpdateInv
<1> DEFINE members  == desc[s].members
           retained == [x \in Addresses |-> IF x \in members THEN servers[x] ELSE NoServer]
<1>1. /\ update.server = s /\ update.phase = "demote" /\ update # NoUpdate
      /\ update.left = {} /\ update' = NoUpdate
      /\ UNCHANGED <<setName, election, desc, flagged, reporting>>
  BY DEF InstallMembers, Continue, NoUpdate
<1>2. PICK new \in SUBSET Missing(members) :
        /\ AddServers(retained, new)
        /\ type' = IF new = Missing(members) THEN CheckPrimary(retained, type) ELSE type
  BY DEF InstallMembers
<1>3. new \in SUBSET Addresses
  BY ArmTypes
<1>4. /\ retained \in [Addresses -> Slots \cup {NoServer}]
      /\ \A x \in Addresses : retained[x] \in {servers[x], NoServer}
  BY DEF TypeOK
<1>5. /\ \A o \in Live : o \in Live' /\ address'[o] = address[o]
      /\ Mapped' \subseteq Mapped \cup FreeSlots
      /\ \A x \in Addresses : servers'[x] # NoServer => address'[servers'[x]] = x
  BY <1>2, <1>3, <1>4, AddServersEffect
<1> HIDE DEF members, retained
<1>6. /\ type \in ReplicaSetTypes /\ type' \in ReplicaSetTypes /\ type # "Single"
      /\ desc[s].type = "RSPrimary" /\ desc[s].setName = setName
  BY <1>1, <1>2 DEF UpdateUnderWay, CheckPrimary, ReplicaSetTypes
<1>7. \A o \in FreeSlots : o \in Slots /\ desc[o].type = "Unknown"
  BY DEF FreeSlots, SlotsFresh, DefaultDescription
<1>8. \A o \in Mapped : o \in Slots /\ o \in Live
  BY MapFacts
<1>9. \A o \in Quiet' : \/ desc[o].type = "Unknown"
                        \/ o \in Mapped /\ o \notin flagged \cup reporting
  BY <1>1, <1>5, <1>7 DEF Quiet, Pending
<1>10. Advances
  BY <1>1, <1>6 DEF Advances
<1>11. MapConsistent'
  BY <1>1, <1>5 DEF MapConsistent
<1>12. SlotsFresh' /\ MembersNamed' /\ PossibleInSets'
  BY <1>1, <1>5, <1>6 DEF SlotsFresh, MembersNamed, PossibleInSets
<1>13. UpdateUnderWay' /\ DemotedSoFar'
  BY <1>1 DEF UpdateUnderWay, DemotedSoFar, NoUpdate
<1>14. AllVetted'
  <2> SUFFICES ASSUME NEW o \in Quiet' PROVE Vetted(o)'
    BY DEF AllVetted
  <2>1. CASE desc[o].type = "Unknown"
    BY <1>1, <2>1 DEF Vetted, MemberTypes, NonPrimaryTypes
  <2>2. CASE o = s
    BY <1>1, <1>6, <2>2 DEF Vetted, ReplicaSetTypes, MemberTypes, NonPrimaryTypes
  <2>3. CASE o \in Quiet
    BY <1>1, <1>8, <1>10, <2>3, VettedKept DEF AllVetted, Quiet
  <2> QED
    BY <1>1, <1>9, <2>1, <2>2, <2>3 DEF Quiet, Pending
<1>15. OnePrimary'
  <2> SUFFICES ASSUME NEW o \in Quiet', NEW p \in Quiet', o # p,
                      desc[o].type = "RSPrimary", desc[p].type = "RSPrimary"
               PROVE  FALSE
    BY <1>1 DEF OnePrimary, Quiet
  <2>1. o \in Mapped /\ o \notin flagged \cup reporting /\ p \in Mapped /\ p \notin flagged \cup reporting
    BY <1>9
  <2>2. address[o] = address[s] /\ address[p] = address[s]
    BY <1>1, <2>1 DEF DemotedSoFar
  <2> QED
    BY <2>1, <2>2, MapFacts
<1>16. ElectionsNoted'
  <2> SUFFICES ASSUME NEW o \in Quiet' PROVE ElectedSince(desc[o])
    BY <1>1 DEF ElectionsNoted, NoUpdate, ElectedSince, HasElection, election
  <2>1. CASE desc[o].type = "Unknown"
    BY <2>1 DEF ElectedSince
  <2>2. CASE o = s
    BY <1>1, <1>6, <2>2 DEF ElectionsNoted
  <2>3. CASE o \in Quiet
    BY <1>6, <2>3 DEF ElectionsNoted
  <2> QED
    BY <1>1, <1>9, <2>1, <2>2, <2>3 DEF Quiet, Pending
<1> QED
  BY <1>11, <1>12, <1>13, <1>14, <1>15, <1>16

-----------------------------------------------------------------------------
(* Updates from other members *)

\* What the first half of an update from a member leaves behind.
LEMMA MemberUpdateKeeps ==
  ASSUME TypeOK, UpdateInv, NEW s \in Slots, AddMembers(s) \/ KnownMember(s)
  PROVE  UpdateInv'
<1> USE DEF UpdateInv
<1>1. /\ s \in reporting /\ update = NoUpdate /\ reporting' = reporting \ {s}
      /\ UNCHANGED <<election, desc, flagged>>
      /\ desc[s].type \in NonPrimaryTypes
      /\ type' \in ReplicaSetTypes
      /\ type \in ReplicaSetTypes \cup {"Unknown"}
      /\ setName' = desc[s].setName
      /\ setName = None \/ setName' = setName
  BY DEF AddMembers, KnownMember, Begin, FromMember, SameSet, AdoptSetName, CheckPrimary,
         ReplicaSetTypes
<1>2. s \in Live
  BY <1>1 DEF MapConsistent
<1>3. /\ \A o \in Live : o \in Live' /\ address'[o] = address[o]
      /\ Mapped' \subseteq Mapped \cup FreeSlots
      /\ \A x \in Addresses : servers'[x] # NoServer => address'[servers'[x]] = x
  <2>1. CASE AddMembers(s)
    <3>1. PICK new \in SUBSET Missing(desc[s].members) : AddServers(servers, new)
      BY <2>1 DEF AddMembers
    <3>2. new \in SUBSET Addresses /\ servers \in [Addresses -> Slots \cup {NoServer}]
      BY ArmTypes DEF TypeOK
    <3>3. \A x \in Addresses : servers[x] \in {servers[x], NoServer}
      OBVIOUS
    <3> QED
      BY <3>1, <3>2, <3>3, AddServersEffect
  <2>2. CASE KnownMember(s)
    BY <2>2 DEF KnownMember, Live, Mapped, MapConsistent
  <2> QED
    BY <2>1, <2>2
<1>4. \/ update' = NoUpdate
      \/ /\ update'.server = s /\ update'.phase = "mark" /\ update'.left = {}
         /\ \/ update'.target = NoServer
            \/ update'.target \in Mapped' /\ desc[update'.target].type = "Unknown"
  <2>1. CASE ThenMarkPrimary(s)
    <3> DEFINE p == desc[s].primary
               o == IF p = None THEN NoServer ELSE servers'[p]
    <3>1. update' = [server |-> s, phase |-> "mark", left |-> {},
                     target |-> IF o # NoServer /\ desc[o].type = "Unknown" THEN o ELSE NoServer]
      BY <2>1 DEF ThenMarkPrimary
    <3>2. p \in Addresses \cup {None}
      BY DEF TypeOK, Descriptions
    <3>3. ASSUME o # NoServer PROVE o \in Mapped'
      <4>1. p \in Addresses /\ servers'[p] = o
        BY <3>2, <3>3
      <4>2. address'[o] = p
        BY <1>3, <3>3, <4>1
      <4>3. o \in Slots
        BY <3>3, <4>1, TypeStep DEF Next, Update, TypeOK
      <4> QED
        BY <4>1, <4>2, <4>3, ServerAssumption DEF Mapped, Live
    <3> HIDE DEF o
    <3> QED
      BY <3>1, <3>3
  <2>2. CASE update' = update
    BY <1>1, <2>2
  <2> QED
    BY <2>1, <2>2 DEF AddMembers, KnownMember
<1>5. \A o \in FreeSlots : o \in Slots /\ desc[o].type = "Unknown"
  BY DEF FreeSlots, SlotsFresh, DefaultDescription
<1>6. \A o \in Mapped : o \in Slots /\ o \in Live
  BY MapFacts
<1>7. \A o \in Quiet' : desc[o].type = "Unknown" \/ o = s \/ o \in Quiet
  <2> SUFFICES ASSUME NEW o \in Quiet', desc[o].type # "Unknown", o # s
               PROVE  o \in Quiet
    OBVIOUS
  <2>1. o \in Mapped' /\ o \notin flagged' \cup reporting'
    BY DEF Quiet, Pending
  <2>2. o \in Mapped
    BY <1>3, <1>5, <2>1
  <2>3. update.server = NoServer
    BY <1>1 DEF NoUpdate
  <2> QED
    BY <1>1, <1>6, <2>1, <2>2, <2>3, ServerAssumption DEF Quiet, Pending
<1>8. Advances /\ type # "Single"
  BY <1>1 DEF Advances, ReplicaSetTypes
<1>9. MapConsistent'
  BY <1>1, <1>2, <1>3, <1>4 DEF MapConsistent
<1>10. SlotsFresh' /\ MembersNamed' /\ PossibleInSets'
  BY <1>1, <1>3 DEF SlotsFresh, MembersNamed, PossibleInSets
<1>11. UpdateUnderWay' /\ DemotedSoFar'
  BY <1>1, <1>4 DEF UpdateUnderWay, DemotedSoFar, NoUpdate, NonPrimaryTypes
<1>12. AllVetted'
  <2> SUFFICES ASSUME NEW o \in Quiet' PROVE Vetted(o)'
    BY DEF AllVetted
  <2>1. CASE desc[o].type = "Unknown"
    BY <1>1, <2>1 DEF Vetted, MemberTypes, NonPrimaryTypes
  <2>2. CASE o = s
    BY <1>1, <2>2 DEF Vetted, ReplicaSetTypes, MemberTypes, NonPrimaryTypes
  <2>3. CASE o \in Quiet
    BY <1>1, <1>6, <1>8, <2>3, VettedKept DEF AllVetted, Quiet
  <2> QED
    BY <1>7, <2>1, <2>2, <2>3
<1>13. OnePrimary'
  <2> SUFFICES ASSUME NEW o \in Quiet', NEW p \in Quiet', o # p,
                      desc[o].type = "RSPrimary", desc[p].type = "RSPrimary"
               PROVE  FALSE
    BY <1>1 DEF OnePrimary, Quiet
  <2>1. o \in Quiet /\ p \in Quiet
    BY <1>1, <1>7 DEF NonPrimaryTypes
  <2> QED
    BY <1>8, <2>1 DEF OnePrimary, Quiet
<1>14. ElectionsNoted'
  <2> SUFFICES ASSUME NEW o \in Quiet' PROVE ElectedSince(desc[o])
    BY <1>1, <1>4 DEF ElectionsNoted, NoUpdate, ElectedSince, HasElection, election
  <2> QED
    BY <1>1, <1>7, <1>8 DEF ElectionsNoted, ElectedSince, NonPrimaryTypes
<1> QED
  BY <1>9, <1>10, <1>11, <1>12, <1>13, <1>14

\* The second half: the primary is marked, and the server may be removed.
LEMMA MarkPrimaryKeeps ==
  ASSUME TypeOK, UpdateInv, NEW s \in Slots, MarkPrimary(s)
  PROVE  UpdateInv'
<1> USE DEF UpdateInv
<1> DEFINE t == update.target
<1>1. /\ update.server = s /\ update.phase = "mark" /\ update # NoUpdate /\ update' = NoUpdate
      /\ desc' = IF t = NoServer THEN desc ELSE [desc EXCEPT ![t].type = "PossiblePrimary"]
      /\ servers' = IF SelfAware(s) THEN servers ELSE Without(s)
      /\ UNCHANGED <<type, setName, election, address, flagged, reporting>>
  BY DEF MarkPrimary, Continue, topology, NoUpdate
<1>2. /\ type \in ReplicaSetTypes /\ type # "Single"
      /\ desc[s].type \in NonPrimaryTypes /\ desc[s].setName = setName
      /\ t \in (Mapped \ {s}) \cup {NoServer}
  BY <1>1 DEF UpdateUnderWay, ReplicaSetTypes
<1> HIDE DEF t
<1>3. s \in Live /\ \A o \in Mapped : o \in Slots /\ o \in Live
  BY <1>1, MapFacts DEF MapConsistent
<1>4. /\ Live' = Live /\ Mapped' \subseteq Mapped
      /\ \A x \in Addresses : servers'[x] # NoServer => address'[servers'[x]] = x
  <2>1. CASE SelfAware(s)
    BY <1>1, <2>1 DEF Live, Mapped, MapConsistent
  <2>2. CASE ~SelfAware(s)
    BY <1>1, <1>3, <2>2, WithoutEffect
  <2> QED
    BY <2>1, <2>2
<1>5. \A o \in Slots : \/ desc'[o] = desc[o]
                       \/ o = t /\ o \in Live /\ desc'[o].type = "PossiblePrimary"
  BY <1>1, <1>2, <1>3 DEF TypeOK, Descriptions
<1>6. desc'[s] = desc[s]
  BY <1>2, <1>5, ServerAssumption
<1>7. \A o \in Quiet' : /\ o \in Slots
                        /\ desc'[o].type = "PossiblePrimary" \/ (desc'[o] = desc[o] /\ (o = s \/ o \in Quiet))
  BY <1>1, <1>3, <1>4, <1>5 DEF Quiet, Pending
<1>8. Advances
  BY <1>1 DEF Advances
<1>9. MapConsistent'
  BY <1>1, <1>4 DEF MapConsistent
<1>10. SlotsFresh'
  BY <1>4, <1>5 DEF SlotsFresh
<1>11. MembersNamed' /\ PossibleInSets'
  BY <1>1, <1>2, <1>5 DEF MembersNamed, PossibleInSets, MemberTypes, NonPrimaryTypes
<1>12. UpdateUnderWay' /\ DemotedSoFar'
  BY <1>1 DEF UpdateUnderWay, DemotedSoFar, NoUpdate
<1>13. AllVetted'
  <2> SUFFICES ASSUME NEW o \in Quiet' PROVE Vetted(o)'
    BY DEF AllVetted
  <2>1. CASE desc'[o].type = "PossiblePrimary"
    BY <1>1, <1>2, <2>1 DEF Vetted, ReplicaSetTypes, MemberTypes, NonPrimaryTypes
  <2>2. CASE o = s
    BY <1>1, <1>2, <1>6, <2>2 DEF Vetted, ReplicaSetTypes, MemberTypes, NonPrimaryTypes
  <2>3. CASE o \in Quiet /\ desc'[o] = desc[o]
    BY <1>7, <1>8, <2>3, VettedKept DEF AllVetted
  <2> QED
    BY <1>7, <2>1, <2>2, <2>3
<1>14. OnePrimary'
  <2> SUFFICES ASSUME NEW o \in Quiet', NEW p \in Quiet', o # p,
                      desc'[o].type = "RSPrimary", desc'[p].type = "RSPrimary"
               PROVE  FALSE
    BY DEF OnePrimary, Quiet
  <2>1. /\ o \in Quiet /\ desc[o].type = "RSPrimary"
        /\ p \in Quiet /\ desc[p].type = "RSPrimary"
    BY <1>2, <1>7 DEF NonPrimaryTypes
  <2> QED
    BY <1>2, <2>1 DEF OnePrimary, Quiet
<1>15. ElectionsNoted'
  <2> SUFFICES ASSUME NEW o \in Quiet' PROVE ElectedSince(desc'[o])
    BY <1>1 DEF ElectionsNoted, NoUpdate, ElectedSince, HasElection, election
  <2> QED
    BY <1>2, <1>7 DEF ElectionsNoted, ElectedSince, NonPrimaryTypes
<1> QED
  BY <1>9, <1>10, <1>11, <1>12, <1>13, <1>14, <1>15

-----------------------------------------------------------------------------
LEMMA InitUpdateInv == Init => UpdateInv
<1> SUFFICES ASSUME Init PROVE UpdateInv
  OBVIOUS
<1>1. PICK hosts \in HostLists : \E f \in [hosts -> Slots] :
        /\ Injective(f)
        /\ servers = [x \in Addresses |-> IF x \in hosts THEN f[x] ELSE NoServer]
        /\ address = [s \in Slots |->
                        IF \E x \in hosts : f[x] = s THEN CHOOSE x \in hosts : f[x] = s
                        ELSE None]
  BY DEF Init
<1>2. PICK f \in [hosts -> Slots] :
        /\ Injective(f)
        /\ servers = [x \in Addresses |-> IF x \in hosts THEN f[x] ELSE NoServer]
        /\ address = [s \in Slots |->
                        IF \E x \in hosts : f[x] = s THEN CHOOSE x \in hosts : f[x] = s
                        ELSE None]
  BY <1>1
<1>3. /\ update = NoUpdate /\ update.phase = "none" /\ flagged = {} /\ reporting = {}
      /\ desc = [s \in Slots |-> DefaultDescription]
      /\ update.server = NoServer
  BY DEF Init, NoUpdate
<1>4. \A s \in Slots : desc[s] = DefaultDescription /\ desc[s].type = "Unknown"
  BY <1>3 DEF DefaultDescription
<1>5. MapConsistent
  <2>1. ASSUME NEW x \in Addresses, servers[x] # NoServer
        PROVE  address[servers[x]] = x
    <3>1. x \in hosts /\ servers[x] = f[x] /\ f[x] \in Slots
      BY <1>2, <2>1
    <3>2. address[f[x]] = CHOOSE y \in hosts : f[y] = f[x]
      BY <1>2, <3>1
    <3> DEFINE c == CHOOSE y \in hosts : f[y] = f[x]
    <3>3. c \in hosts /\ f[c] = f[x]
      BY <3>1
    <3>4. DOMAIN f = hosts
      OBVIOUS
    <3>5. c = x
      BY <1>2, <3>1, <3>3, <3>4 DEF Injective
    <3> QED
      BY <3>1, <3>2, <3>5
  <2> QED
    BY <1>3, <2>1 DEF MapConsistent
<1>6. Mapped \subseteq Slots
  BY DEF Mapped, Live
<1>7. \A s \in Quiet : s \in Slots
  BY <1>6 DEF Quiet
<1>8. SlotsFresh /\ MembersNamed /\ PossibleInSets
  BY <1>4 DEF SlotsFresh, MembersNamed, PossibleInSets, MemberTypes, NonPrimaryTypes
<1>9. UpdateUnderWay /\ DemotedSoFar
  BY <1>3 DEF UpdateUnderWay, DemotedSoFar
<1>10. AllVetted
  BY <1>4, <1>7 DEF AllVetted, Vetted, MemberTypes, NonPrimaryTypes
<1>11. OnePrimary
  BY <1>4, <1>6 DEF OnePrimary
<1>12. ElectionsNoted
  BY <1>3, <1>4, <1>7 DEF ElectionsNoted, ElectedSince
<1> QED
  BY <1>5, <1>8, <1>9, <1>10, <1>11, <1>12 DEF UpdateInv

LEMMA UpdateInvStep ==
  ASSUME TypeOK, UpdateInv, [Next]_vars
  PROVE  UpdateInv'
<1>0. TypeOK'
  BY TypeStep
<1>1. CASE UNCHANGED vars
  <2>1. /\ UNCHANGED <<type, setName, maxSetVersion, maxElectionId, servers, address, desc>>
        /\ UNCHANGED <<flagged, reporting, update>>
    BY <1>1 DEF vars, topology, election
  <2>2. Live' = Live /\ Mapped' = Mapped
    BY <2>1 DEF Live, Mapped
  <2>3. Quiet' = Quiet /\ \A s : Pending(s)' = Pending(s)
    BY <2>1, <2>2 DEF Quiet, Pending
  <2>4. /\ MapConsistent' /\ SlotsFresh' /\ MembersNamed' /\ PossibleInSets'
        /\ UpdateUnderWay' /\ DemotedSoFar'
    BY <2>1, <2>2
    DEF UpdateInv, MapConsistent, SlotsFresh, MembersNamed, PossibleInSets, UpdateUnderWay,
        DemotedSoFar
  <2>5. AllVetted' /\ OnePrimary' /\ ElectionsNoted'
    BY <2>1, <2>2, <2>3
    DEF UpdateInv, AllVetted, Vetted, OnePrimary, ElectionsNoted, ElectedSince
  <2> QED
    BY <2>4, <2>5 DEF UpdateInv
<1>2. ASSUME NEW s \in Slots,
             \/ MonitorTakesFlag(s) \/ MonitorHandshake(s) \/ MonitorFails(s)
             \/ MonitorEnds(s) \/ PoolHandshake(s) \/ PoolFails(s)
      PROVE  UpdateInv'
  BY <1>2, MonitorKeeps, MonitorEndKeeps
<1>3. ASSUME NEW s \in Slots, Update(s)
      PROVE  UpdateInv'
  <2>1. ASSUME UpdateNothing(s) \/ UpdateKind(s) \/ UpdateCheck(s)
        PROVE  UpdateInv'
    BY <2>1, RetypeKeeps
  <2>2. ASSUME UpdateRemove(s) \/ PrimaryOfOtherSet(s) \/ MemberOfOtherSet(s)
        PROVE  UpdateInv'
    BY <2>2, ExpelKeeps
  <2>3. ASSUME StalePrimary(s) \/ AcceptPrimary(s) \/ FindOldPrimary(s)
        PROVE  UpdateInv'
    BY <1>0, <2>3, StalePrimaryKeeps, AcceptPrimaryKeeps, FindOldPrimaryKeeps
  <2>4. ASSUME DemoteOldPrimary(s) \/ InstallMembers(s)
        PROVE  UpdateInv'
    BY <2>4, DemoteOldPrimaryKeeps, InstallMembersKeeps
  <2>5. ASSUME AddMembers(s) \/ KnownMember(s) \/ MarkPrimary(s)
        PROVE  UpdateInv'
    BY <2>5, MemberUpdateKeeps, MarkPrimaryKeeps
  <2> QED
    BY <1>3, <2>1, <2>2, <2>3, <2>4, <2>5 DEF Update
<1> QED
  BY <1>1, <1>2, <1>3 DEF Next

LEMMA UpdateInvAlways == Spec => []UpdateInv
<1>1. TypeOK /\ UpdateInv /\ [Next]_vars => UpdateInv'
  BY UpdateInvStep
<1> QED
  BY <1>1, InitUpdateInv, TypeCorrect, PTL DEF Spec

(***************************************************************************)
(* The map and the servers agree, whichever servers are removed, replaced  *)
(* or end while an update is under way.                                    *)
(***************************************************************************)
THEOREM MapIsConsistent == Spec => []MapConsistent
<1>1. UpdateInv => MapConsistent
  BY DEF UpdateInv
<1> QED
  BY <1>1, UpdateInvAlways, PTL

(***************************************************************************)
(* Of two primaries in the map the topology has yet to hear of one.        *)
(***************************************************************************)
THEOREM PrimaryIsOne == Spec => []OnePrimary
<1>1. UpdateInv => OnePrimary
  BY DEF UpdateInv
<1> QED
  BY <1>1, UpdateInvAlways, PTL

(***************************************************************************)
(* A server the topology has heard of is of the topology's kind and set.   *)
(***************************************************************************)
THEOREM MembersAreVetted == Spec => []MembersVetted
<1>1. UpdateInv => MembersVetted
  BY DEF UpdateInv, AllVetted, Vetted, Quiet, MembersVetted
<1> QED
  BY <1>1, UpdateInvAlways, PTL

(***************************************************************************)
(* A primary the topology has accepted is not demoted for one of an        *)
(* earlier election.                                                       *)
(***************************************************************************)
THEOREM DemotionsAreLater == Spec => DemotedByLater
<1> DEFINE Later ==
      \A s \in Slots : DemoteOldPrimary(s) =>
        LET old == desc[update.target]
            new == desc[s]
        IN  ~Pending(update.target) /\ old.type = "RSPrimary"
              /\ HasElection(old) /\ HasElection(new)
              => ElectionLeq(old.setVersion, old.electionId, new.setVersion, new.electionId)
<1>1. UpdateInv /\ [Next]_vars => [Later]_vars
  <2> SUFFICES ASSUME UpdateInv, NEW s \in Slots, DemoteOldPrimary(s),
                      ~Pending(update.target), desc[update.target].type = "RSPrimary",
                      HasElection(desc[update.target]), HasElection(desc[s])
               PROVE  ElectionLeq(desc[update.target].setVersion, desc[update.target].electionId,
                                  desc[s].setVersion, desc[s].electionId)
    OBVIOUS
  <2>1. update.server = s /\ update.phase = "demoting" /\ update # NoUpdate
    BY DEF DemoteOldPrimary, Continue, NoUpdate
  <2>2. type \in ReplicaSetTypes /\ update.target \in update.left
    BY <2>1 DEF UpdateInv, UpdateUnderWay
  <2>3. update.target \in Quiet
    BY <2>1, <2>2 DEF UpdateInv, MapConsistent, Quiet
  <2>4. Outvoted(desc[update.target], desc[s])
    BY <2>1, <2>2, <2>3 DEF UpdateInv, ElectionsNoted, ReplicaSetTypes
  <2> QED
    BY <2>4 DEF Outvoted
<1> QED
  BY <1>1, UpdateInvAlways, PTL DEF Spec, DemotedByLater

=============================================================================
