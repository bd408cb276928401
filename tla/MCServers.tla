------------------------------ MODULE MCServers ------------------------------
(***************************************************************************)
(* Two pools in one run: that of the configuration, and one whose idle     *)
(* streams time out and whose clock is set back, which closes streams and  *)
(* poisons the mutex; and, beside them, the discovery of a replica set by  *)
(* Topology.  A behaviour is about one of these, its focus.                *)
(***************************************************************************)
EXTENDS MCConnectionPool

CONSTANTS a, b, c, d, Addresses, Slots, NoServer, None  \* of Topology

VARIABLES
  focus,  \* "pool", "faulty pool" or "discovery"
  type, setName, maxSetVersion, maxElectionId, compatError, servers, address, desc,
  flagged, reporting, update

discovery ==
  <<type, setName, maxSetVersion, maxElectionId, compatError, servers, address, desc, flagged,
    reporting, update>>

Faulty == INSTANCE ConnectionPool WITH IdleTimeout <- TRUE, ClockSteps <- TRUE

Deployment == INSTANCE Deployments

Discovering == INSTANCE Topology WITH
  Replies <- Deployment!ReplicaSetOfThree, HostLists <- {{a}}, InitialType <- "Unknown",
  ReplicaSet <- None

\* Slots are but names: the first server has a certain one.
MCInit ==
  /\ focus \in {"pool", "faulty pool", "discovery"}
  /\ Init /\ Discovering!Init
  /\ servers[a] = CHOOSE s \in Slots : TRUE

MCNext ==
  /\ UNCHANGED focus
  /\ \/ focus = "pool" /\ Next /\ UNCHANGED discovery
     \/ focus = "faulty pool" /\ Faulty!Next /\ UNCHANGED discovery
     \/ focus = "discovery" /\ Discovering!Next /\ UNCHANGED vars

DiscoveryFairness ==
  \A s \in Slots :
    /\ WF_discovery(focus = "discovery" /\ Discovering!MonitorHandshake(s))
    /\ WF_discovery(focus = "discovery" /\ Discovering!MonitorTakesFlag(s))
    /\ WF_discovery(focus = "discovery" /\ Discovering!MonitorEnds(s))
    /\ SF_discovery(focus = "discovery" /\ Discovering!Update(s))

MCSpec == MCInit /\ [][MCNext]_<<focus, vars, discovery>> /\ Fairness /\ DiscoveryFairness

-----------------------------------------------------------------------------
\* SlotsAccounted, which holds of the pool without such faults only.
NoSlotLost == focus = "pool" => SlotsAccounted

\* WaitersMove, where no stream is lost, for one set of each size: threads are
\* interchangeable.
WaitersServed ==
  \A n \in 1 .. Cardinality(Threads) :
    LET S == CHOOSE X \in SUBSET Threads : Cardinality(X) = n
    IN  (focus = "pool" /\ Waiting = S) ~> (Waiting # S)

\* Topology's property, where it is in focus.
Discovery == focus = "discovery" => Discovering!Discovery
=============================================================================
