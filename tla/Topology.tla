------------------------------- MODULE Topology -------------------------------
(***************************************************************************)
(* Server discovery: TopologyDescription::update, ServerDescription::update *)
(* and the handshakes that drive them (src/src/topology.rs).               *)
(*                                                                         *)
(* Every server has a monitor thread that shakes hands, stores the reply   *)
(* in the server's own description, lets go of its lock, and only then     *)
(* takes the topology lock to apply what it stored.  Handshakes of the     *)
(* connection pool store replies in the same descriptions and leave the    *)
(* rest to the monitor (update_topology_only).  An update reads and writes *)
(* the descriptions of other servers one at a time, while their monitors   *)
(* go on.  A pool handshake never meets an update: its caller holds the    *)
(* topology lock for reading.                                              *)
(***************************************************************************)
EXTENDS Integers, FiniteSets

CONSTANTS
  Addresses,    \* the "host:port" strings that occur
  Slots,        \* names for Server values; bounds how many exist at a time
  NoServer,     \* no Server
  None,         \* Option::None
  Replies,      \* Replies[a]: the handshake replies the server at a may give
  HostLists,    \* the values options.hosts may have
  InitialType,  \* options.initial_topology_type
  ReplicaSet    \* options.replica_set

(***************************************************************************)
(* What a server can say of itself.  Replies with a set name carry me: the *)
(* code unwraps it.  Set versions and election ids are ordered as numbers. *)
(***************************************************************************)
Reply ==
  [msg : {None, "isdbgrid"}, ismaster : BOOLEAN, secondary : BOOLEAN, arbiterOnly : BOOLEAN,
   isreplicaset : BOOLEAN, minWire : Int, maxWire : Int, me : Addresses \cup {None},
   members : SUBSET Addresses, setName : STRING \cup {None}, setVersion : Int \cup {None},
   electionId : Int \cup {None}, primary : Addresses \cup {None}]

ASSUME ReplyAssumption ==
  \A a \in Addresses : \A r \in Replies[a] :
    /\ r \in Reply
    /\ r.setName # None => r.me # None

ASSUME ServerAssumption ==
  /\ None \notin Addresses
  /\ None \notin Int
  /\ NoServer \notin Slots
  /\ HostLists \subseteq SUBSET Addresses
  /\ ReplicaSet \in STRING \cup {None}

VARIABLES
  type,           \* TopologyDescription.type
  setName,        \* .set_name
  maxSetVersion,  \* .max_set_version
  maxElectionId,  \* .max_election_id
  compatError,    \* .compatibility_error
  servers,        \* .servers: an address to a Server, or NoServer
  address,        \* the address of each Server, None for an unused slot
  desc,           \* ServerDescription of each Server
  flagged,        \* servers whose monitor.update_topology_only is set
  reporting,      \* servers whose monitor waits for the topology lock
  update          \* the update under way, if any

election == <<maxSetVersion, maxElectionId>>
topology == <<type, setName, election, compatError>>
vars == <<topology, servers, address, desc, flagged, reporting, update>>

MIN_WIRE_VERSION == 6
MAX_WIRE_VERSION == 8

TopologyTypes ==
  {"Single", "ReplicaSetNoPrimary", "ReplicaSetWithPrimary", "Sharded", "Unknown"}

ReplicaSetTypes == {"ReplicaSetNoPrimary", "ReplicaSetWithPrimary"}

ServerTypes ==
  {"Standalone", "Mongos", "PossiblePrimary", "RSPrimary", "RSSecondary", "RSArbiter",
   "RSOther", "RSGhost", "Unknown"}

ASSUME InitialAssumption == InitialType \in TopologyTypes

NonPrimaryTypes == {"RSSecondary", "RSArbiter", "RSOther"}

MemberTypes == NonPrimaryTypes \cup {"RSPrimary"}

(***************************************************************************)
(* A description keeps of a reply what the topology reads: members stands  *)
(* for hosts, passives and arbiters together.                              *)
(***************************************************************************)
DefaultDescription ==
  [type |-> "Unknown", minWire |-> 0, maxWire |-> 0, me |-> None, members |-> {},
   setName |-> None, setVersion |-> None, electionId |-> None, primary |-> None]

ServerTypeOf(r) ==
  IF r.msg = "isdbgrid" THEN "Mongos"
  ELSE IF r.setName # None
    THEN IF r.ismaster THEN "RSPrimary"
         ELSE IF r.secondary THEN "RSSecondary"
         ELSE IF r.arbiterOnly THEN "RSArbiter"
         ELSE "RSOther"
  ELSE IF r.isreplicaset THEN "RSGhost"
  ELSE "Standalone"

Described(r) ==
  [type |-> ServerTypeOf(r), minWire |-> r.minWire, maxWire |-> r.maxWire, me |-> r.me,
   members |-> r.members, setName |-> r.setName, setVersion |-> r.setVersion,
   electionId |-> r.electionId, primary |-> r.primary]

(***************************************************************************)
(* ServerDescription::update returns false for a reply it takes for the    *)
(* one it knows.  It compares its max_wire_version with the min_wire_      *)
(* version of the reply, so it does so only when the two are the same.     *)
(***************************************************************************)

\* Mutant: the comparison the code seems to intend.
UnchangedIntended(d, r) == d = Described(r)

Unchanged(d, r) == d = Described(r) /\ d.maxWire = r.minWire

NoUpdate == [server |-> NoServer, phase |-> "none", left |-> {}, target |-> NoServer]

-----------------------------------------------------------------------------
Live == {s \in Slots : address[s] # None}

FreeSlots == Slots \ Live

Mapped == {s \in Live : servers[address[s]] = s}

\* Mutant: the keys of the map are taken for its values.
ServerKeys == {x \in Addresses : servers[x] # NoServer}

\* servers.values()
ServerValues == {servers[x] : x \in Addresses} \ {NoServer}

\* The descriptions in map hold a primary.
HasPrimary(map) ==
  \E a \in Addresses : map[a] # NoServer /\ desc[map[a]].type = "RSPrimary"

\* check_if_has_primary
CheckPrimary(map, t) == IF HasPrimary(map) THEN t ELSE "ReplicaSetNoPrimary"

\* servers.remove(&description.address), whichever Server it holds there.
Without(s) == [servers EXCEPT ![address[s]] = NoServer]

Injective(f) == \A a, b \in DOMAIN f : f[a] = f[b] => a = b

\* Server::new for each of the addresses in new, on top of the servers in map.
AddServers(map, new) ==
  \E f \in [new -> FreeSlots] :
    /\ Injective(f)
    /\ servers' = [a \in Addresses |-> IF a \in new THEN f[a] ELSE map[a]]
    /\ address' = [s \in Slots |->
                     IF \E a \in new : f[a] = s THEN CHOOSE a \in new : f[a] = s
                     ELSE address[s]]

Missing(members) == {x \in members : servers[x] = NoServer}

Init ==
  /\ type = InitialType
  /\ setName = ReplicaSet
  /\ maxSetVersion = None
  /\ maxElectionId = None
  /\ compatError = None
  /\ \E hosts \in HostLists : \E f \in [hosts -> Slots] :
       /\ Injective(f)
       /\ servers = [a \in Addresses |-> IF a \in hosts THEN f[a] ELSE NoServer]
       /\ address = [s \in Slots |->
                       IF \E a \in hosts : f[a] = s THEN CHOOSE a \in hosts : f[a] = s
                       ELSE None]
  /\ desc = [s \in Slots |-> DefaultDescription]
  /\ flagged = {}
  /\ reporting = {}
  /\ update = NoUpdate

-----------------------------------------------------------------------------
(* Monitors and pool handshakes *)

StoreReply(s) ==
  \E r \in Replies[address[s]] :
    /\ ~Unchanged(desc[s], r)
    /\ desc' = [desc EXCEPT ![s] = Described(r)]

StoreFailure(s) == desc' = [desc EXCEPT ![s].type = "Unknown"]

\* Mutant: a monitor may end while it waits for the topology lock.
MonitorHasNoLock(s) == s \in Live /\ update.server # s

\* The monitor is neither waiting for the topology lock nor holding it.
MonitorFree(s) == s \in Live /\ s \notin reporting /\ update.server # s

\* run_inner: update_topology_only saves the handshake.
MonitorTakesFlag(s) ==
  /\ MonitorFree(s)
  /\ s \in flagged
  /\ flagged' = flagged \ {s}
  /\ reporting' = reporting \cup {s}
  /\ UNCHANGED <<topology, servers, address, desc, update>>

MonitorHandshake(s) ==
  /\ MonitorFree(s)
  /\ s \notin flagged
  /\ StoreReply(s)
  /\ reporting' = reporting \cup {s}
  /\ UNCHANGED <<topology, servers, address, flagged, update>>

\* The error ends run_inner before the topology hears of it.
MonitorFails(s) ==
  /\ MonitorFree(s)
  /\ s \notin flagged
  /\ StoreFailure(s)
  /\ UNCHANGED <<topology, servers, address, flagged, reporting, update>>

\* The last handle but the monitor's is gone: run_inner returns.
MonitorEnds(s) ==
  /\ MonitorFree(s)
  /\ s \notin Mapped
  /\ address' = [address EXCEPT ![s] = None]
  /\ desc' = [desc EXCEPT ![s] = DefaultDescription]
  /\ flagged' = flagged \ {s}
  /\ UNCHANGED <<topology, servers, reporting, update>>

\* Server::acquire_stream opens a connection.
PoolHandshake(s) ==
  /\ s \in Mapped
  /\ update = NoUpdate
  /\ StoreReply(s)
  /\ flagged' = flagged \cup {s}
  /\ UNCHANGED <<topology, servers, address, reporting, update>>

PoolFails(s) ==
  /\ s \in Mapped
  /\ update = NoUpdate
  /\ StoreFailure(s)
  /\ UNCHANGED <<topology, servers, address, flagged, reporting, update>>

-----------------------------------------------------------------------------
(* TopologyDescription::update *)

Incompatible(d) == d.minWire > MAX_WIRE_VERSION \/ d.maxWire < MIN_WIRE_VERSION

OthersCompatible(s) ==
  \A o \in Mapped : address[o] # address[s] => ~Incompatible(desc[o])

CheckCompatibility(s) ==
  compatError' =
    IF desc[s].minWire > MAX_WIRE_VERSION THEN "WireVersionToNew"
    ELSE IF desc[s].maxWire < MIN_WIRE_VERSION THEN "WireVersionToOld"
    ELSE IF type # "Single" /\ OthersCompatible(s) THEN None
    ELSE compatError

\* The monitor of s gets the topology lock; every arm starts with this.
Begin(s) ==
  /\ s \in reporting
  /\ update = NoUpdate
  /\ reporting' = reporting \ {s}
  /\ CheckCompatibility(s)
  /\ UNCHANGED flagged

\* Arms that change no more than the type.
Retype(s, t) ==
  /\ Begin(s)
  /\ type' = t
  /\ UNCHANGED <<setName, election, servers, address, desc, update>>

\* Arms that remove the server and leave the type at t, or check it again.
Expel(s, t) ==
  /\ Begin(s)
  /\ servers' = Without(s)
  /\ type' = IF t = "ReplicaSetWithPrimary" THEN CheckPrimary(Without(s), t) ELSE t
  /\ UNCHANGED <<setName, election, address, desc, update>>

Ignored ==
  {<<"Unknown", "Unknown">>, <<"Unknown", "RSGhost">>, <<"Sharded", "Unknown">>,
   <<"Sharded", "Mongos">>, <<"ReplicaSetNoPrimary", "Unknown">>,
   <<"ReplicaSetNoPrimary", "RSGhost">>}

UpdateNothing(s) ==
  /\ \/ type = "Single"
     \/ desc[s].type = "PossiblePrimary"
     \/ <<type, desc[s].type>> \in Ignored
  /\ Retype(s, type)

\* Mutant: not only an unknown topology takes its kind from a server.
UpdateKindAlways(s) ==
  /\ type # "Single"
  /\ \/ desc[s].type = "Standalone" /\ Retype(s, "Single")
     \/ desc[s].type = "Mongos" /\ Retype(s, "Sharded")

UpdateKind(s) ==
  /\ type = "Unknown"
  /\ \/ desc[s].type = "Standalone" /\ Retype(s, "Single")
     \/ desc[s].type = "Mongos" /\ Retype(s, "Sharded")

\* (ReplicaSetWithPrimary, Unknown | RSGhost)
UpdateCheck(s) ==
  /\ type = "ReplicaSetWithPrimary"
  /\ desc[s].type \in {"Unknown", "RSGhost"}
  /\ Retype(s, CheckPrimary(servers, type))

UpdateRemove(s) ==
  /\ \/ type = "Sharded" /\ desc[s].type \notin {"Unknown", "Mongos", "PossiblePrimary"}
     \/ type \in ReplicaSetTypes /\ desc[s].type \in {"Standalone", "Mongos"}
  /\ Expel(s, type)

\* Mutant: the name of the set is not compared.
AnySet(s) == TRUE

SameSet(s) == setName \in {None, desc[s].setName}

AdoptSetName(s) == setName' = desc[s].setName

(* updateRSFromPrimary *)

FromPrimary(s) == type \in ReplicaSetTypes \cup {"Unknown"} /\ desc[s].type = "RSPrimary"

PrimaryOfOtherSet(s) ==
  /\ FromPrimary(s)
  /\ ~SameSet(s)
  /\ Expel(s, "ReplicaSetWithPrimary")

HasElection(d) == d.setVersion # None /\ d.electionId # None

\* Mutant: the election ids of one set version are not compared.
StaleSetVersion(d) ==
  /\ HasElection(d)
  /\ maxSetVersion # None /\ maxElectionId # None
  /\ maxSetVersion > d.setVersion

\* The election of d is older than the latest one seen.
Stale(d) ==
  /\ HasElection(d)
  /\ maxSetVersion # None /\ maxElectionId # None
  /\ \/ maxSetVersion > d.setVersion
     \/ maxSetVersion = d.setVersion /\ maxElectionId > d.electionId

StalePrimary(s) ==
  /\ FromPrimary(s)
  /\ SameSet(s)
  /\ Stale(desc[s])
  /\ Begin(s)
  /\ AdoptSetName(s)
  /\ desc' = [desc EXCEPT ![s] = DefaultDescription]
  /\ type' = IF \E o \in Mapped \ {s} : desc[o].type = "RSPrimary"
               THEN "ReplicaSetWithPrimary" ELSE "ReplicaSetNoPrimary"
  /\ UNCHANGED <<election, servers, address, update>>

AcceptPrimary(s) ==
  /\ FromPrimary(s)
  /\ SameSet(s)
  /\ ~Stale(desc[s])
  /\ Begin(s)
  /\ AdoptSetName(s)
  /\ type' = "ReplicaSetWithPrimary"
  /\ maxElectionId' = IF HasElection(desc[s]) THEN desc[s].electionId ELSE maxElectionId
  /\ maxSetVersion' =
       IF /\ desc[s].setVersion # None
          /\ maxSetVersion # None => desc[s].setVersion > maxSetVersion
         THEN desc[s].setVersion ELSE maxSetVersion
  /\ update' = [server |-> s, phase |-> "demote", left |-> ServerValues, target |-> NoServer]
  /\ UNCHANGED <<servers, address, desc>>

Continue(s, phase) == update.server = s /\ update.phase = phase

\* Mutant: servers are skipped that still are primaries.
FindNoPrimary(s) ==
  /\ Continue(s, "demote")
  /\ \E o \in update.left : update' = [update EXCEPT !.left = @ \ {o}]
  /\ UNCHANGED <<topology, servers, address, desc, flagged, reporting>>

\* The next server is looked at: is it another primary?
FindOldPrimary(s) ==
  /\ Continue(s, "demote")
  /\ \E o \in update.left :
       update' =
         IF desc[o].type = "RSPrimary" /\ address[o] # address[s]
           THEN [update EXCEPT !.phase = "demoting", !.target = o]
           ELSE [update EXCEPT !.left = @ \ {o}]
  /\ UNCHANGED <<topology, servers, address, desc, flagged, reporting>>

\* Its description is locked a second time and written.
DemoteOldPrimary(s) ==
  /\ Continue(s, "demoting")
  /\ desc' = [desc EXCEPT ![update.target].type = "Unknown"]
  /\ update' = [update EXCEPT !.phase = "demote", !.left = @ \ {update.target},
                              !.target = NoServer]
  /\ UNCHANGED <<topology, servers, address, flagged, reporting>>

\* servers.retain(..), then Server::new for the other members: when it fails,
\* the servers added so far stay and the type is not checked.
InstallMembers(s) ==
  LET members  == desc[s].members
      retained == [x \in Addresses |-> IF x \in members THEN servers[x] ELSE NoServer]
  IN  /\ Continue(s, "demote")
      /\ update.left = {}
      /\ \E new \in SUBSET Missing(members) :
           /\ AddServers(retained, new)
           /\ type' = IF new = Missing(members) THEN CheckPrimary(retained, type) ELSE type
      /\ update' = NoUpdate
      /\ UNCHANGED <<setName, election, compatError, desc, flagged, reporting>>

(* updateRSWithoutPrimary, updateRSWithPrimaryFromMember *)

FromMember(s, types) == type \in types /\ desc[s].type \in NonPrimaryTypes

SelfAware(s) == desc[s].me = address[s]

MemberOfOtherSet(s) ==
  \/ /\ FromMember(s, {"Unknown", "ReplicaSetNoPrimary"})
     /\ ~SameSet(s)
     /\ Expel(s, "ReplicaSetNoPrimary")
  \/ /\ FromMember(s, {"ReplicaSetWithPrimary"})
     /\ setName # desc[s].setName \/ ~SelfAware(s)
     /\ Expel(s, type)

\* The update goes on with the server that primary names, if it is Unknown.
ThenMarkPrimary(s) ==
  LET p == desc[s].primary
      o == IF p = None THEN NoServer ELSE servers'[p]
  IN  update' = [server |-> s, phase |-> "mark", left |-> {},
                 target |-> IF o # NoServer /\ desc[o].type = "Unknown" THEN o ELSE NoServer]

\* When Server::new fails the update ends with the servers added so far.
AddMembers(s) ==
  LET missing == Missing(desc[s].members)
  IN  /\ FromMember(s, {"Unknown", "ReplicaSetNoPrimary"})
      /\ SameSet(s)
      /\ Begin(s)
      /\ type' = "ReplicaSetNoPrimary"
      /\ AdoptSetName(s)
      /\ \E new \in SUBSET missing :
           /\ AddServers(servers, new)
           /\ IF new = missing THEN ThenMarkPrimary(s) ELSE UNCHANGED update
      /\ UNCHANGED <<election, desc>>

KnownMember(s) ==
  /\ FromMember(s, {"ReplicaSetWithPrimary"})
  /\ setName = desc[s].setName
  /\ SelfAware(s)
  /\ Begin(s)
  /\ type' = CheckPrimary(servers, type)
  /\ UNCHANGED <<setName, election, servers, address, desc>>
  /\ ThenMarkPrimary(s)

\* Ends updates from members: the possible primary is written, and a server
\* that was reached under a name the set does not use is removed.
MarkPrimary(s) ==
  /\ Continue(s, "mark")
  /\ desc' = IF update.target = NoServer THEN desc
             ELSE [desc EXCEPT ![update.target].type = "PossiblePrimary"]
  /\ servers' = IF SelfAware(s) THEN servers ELSE Without(s)
  /\ update' = NoUpdate
  /\ UNCHANGED <<topology, address, flagged, reporting>>

-----------------------------------------------------------------------------
Update(s) ==
  \/ UpdateNothing(s) \/ UpdateRemove(s) \/ UpdateKind(s) \/ UpdateCheck(s)
  \/ PrimaryOfOtherSet(s) \/ StalePrimary(s) \/ AcceptPrimary(s)
  \/ FindOldPrimary(s) \/ DemoteOldPrimary(s) \/ InstallMembers(s)
  \/ MemberOfOtherSet(s) \/ AddMembers(s) \/ KnownMember(s) \/ MarkPrimary(s)

Next ==
  \E s \in Slots :
    \/ MonitorTakesFlag(s)
    \/ MonitorHandshake(s)
    \/ MonitorFails(s)
    \/ MonitorEnds(s)
    \/ PoolHandshake(s)
    \/ PoolFails(s)
    \/ Update(s)

Spec == Init /\ [][Next]_vars

(***************************************************************************)
(* Heartbeats go on, and a monitor that waits for the topology lock gets   *)
(* it.  Nothing is assumed of failures and of the pool.                    *)
(***************************************************************************)
Fairness ==
  \A s \in Slots :
    /\ WF_vars(MonitorHandshake(s))
    /\ WF_vars(MonitorTakesFlag(s))
    /\ WF_vars(MonitorEnds(s))
    /\ SF_vars(Update(s))

FairSpec == Spec /\ Fairness

-----------------------------------------------------------------------------
(* Properties *)

Descriptions ==
  [type : ServerTypes, minWire : Int, maxWire : Int, me : Addresses \cup {None},
   members : SUBSET Addresses, setName : STRING \cup {None}, setVersion : Int \cup {None},
   electionId : Int \cup {None}, primary : Addresses \cup {None}]

Phases == {"none", "demote", "demoting", "mark"}

TypeOK ==
  /\ type \in TopologyTypes
  /\ setName \in STRING \cup {None}
  /\ maxSetVersion \in Int \cup {None}
  /\ maxElectionId \in Int \cup {None}
  /\ compatError \in {None, "WireVersionToOld", "WireVersionToNew"}
  /\ servers \in [Addresses -> Slots \cup {NoServer}]
  /\ address \in [Slots -> Addresses \cup {None}]
  /\ desc \in [Slots -> Descriptions]
  /\ flagged \subseteq Slots
  /\ reporting \subseteq Slots
  /\ update \in [server : Slots \cup {NoServer}, phase : Phases, left : SUBSET Slots,
                 target : Slots \cup {NoServer}]

\* The topology has not yet seen all that the description of s says.
Pending(s) == s \in flagged \cup reporting \/ update.server = s

\* The map and the servers agree: a Server is in it under its own address, and
\* a Server whose update waits, or is applied, still exists.
MapConsistent ==
  /\ \A a \in Addresses : servers[a] # NoServer => address[servers[a]] = a
  /\ flagged \cup reporting \subseteq Live
  /\ update # NoUpdate => update.server \in Live /\ update.left \subseteq Mapped

\* Two servers are primaries at the same time only until the topology has
\* heard of both: an update from a primary demotes every other one, whatever
\* handshakes slip in between its reads and writes.
OnePrimary ==
  type # "Single" =>
    \A s, o \in Mapped :
      desc[s].type = "RSPrimary" /\ desc[o].type = "RSPrimary" /\ s # o
        => Pending(s) \/ Pending(o)

\* A server the topology has heard of is of the topology's kind and set.
MembersVetted ==
  \A s \in Mapped : ~Pending(s) =>
    /\ type = "Sharded" => desc[s].type \in {"Mongos", "RSGhost", "Unknown"}
    /\ type \in ReplicaSetTypes =>
         /\ desc[s].type \notin {"Standalone", "Mongos"}
         /\ desc[s].type \in MemberTypes => desc[s].setName = setName

\* Elections are ordered by set version, then election id; None comes first.
Precedes(m, n) == n # None /\ (m # None => m < n)

ElectionLeq(v, e, v2, e2) == Precedes(v, v2) \/ (v = v2 /\ (e = e2 \/ Precedes(e, e2)))

\* The latest election that was seen never goes back, whichever of set version
\* and election id a primary reports.
ElectionMonotone ==
  [][ElectionLeq(maxSetVersion, maxElectionId, maxSetVersion', maxElectionId')]_vars

\* A primary the topology accepted is demoted in favour of a primary of an
\* equal or a later election, or of one that does not say.
DemotedByLater ==
  [][\A s \in Slots : DemoteOldPrimary(s) =>
       LET old == desc[update.target]
           new == desc[s]
       IN  ~Pending(update.target) /\ old.type = "RSPrimary"
             /\ HasElection(old) /\ HasElection(new)
             => ElectionLeq(old.setVersion, old.electionId, new.setVersion, new.electionId)]_vars

\* Once known, the name of the set and the kind of deployment are for good,
\* in whichever order the servers report.
Kind(t) == IF t \in ReplicaSetTypes THEN "ReplicaSet" ELSE t

IdentityFixed ==
  [][/\ setName # None => setName' = setName
     /\ type # "Unknown" => Kind(type') = Kind(type)]_vars

\* README.md:8: with servers the driver supports there is never a compatibility
\* error.
SupportedServers == \A a \in Addresses : \A r \in Replies[a] : ~Incompatible(r)

NoSpuriousError == SupportedServers => compatError = None

\* A deployment that no longer fails is discovered: in the end the map holds the
\* servers that its members name and the topology knows the primary.
ServerNewFails(s) ==
  /\ AddMembers(s) \/ InstallMembers(s)
  /\ \E x \in desc[s].members : servers'[x] = NoServer

Fails == \E s \in Slots : MonitorFails(s) \/ PoolFails(s) \/ ServerNewFails(s)

Discovered ==
  /\ type = "ReplicaSetWithPrimary"
  /\ \E s \in Mapped :
       /\ desc[s].type = "RSPrimary"
       /\ \A a \in Addresses : servers[a] # NoServer <=> a \in desc[s].members
  /\ \A s \in Mapped : \E r \in Replies[address[s]] : desc[s] = Described(r)

Discovery == <>[][~Fails]_vars => <>[]Discovered
=============================================================================
