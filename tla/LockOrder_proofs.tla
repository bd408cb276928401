---------------------------- MODULE LockOrder_proofs ----------------------------
(***************************************************************************)
(* The locks of LockOrder are taken in an order: topology, pool,           *)
(* descriptions.  The invariant says who may be where at the same time; a  *)
(* process that waits for a lock then waits for one that is further down   *)
(* the order, or does not wait.  A thread that waits for a connection      *)
(* keeps the topology, so the invariant also says that its pool is full    *)
(* and that somebody who does not wait for the topology uses it: a pool    *)
(* counts the streams that are idle, in use, or closed for being idle.     *)
(***************************************************************************)
EXTENDS LockOrder, CommonTheorems

ThreadPlaces ==
  {"ready", "topology", "filter", "pool", "wait", "connect", "handshake", "use", "return"}

MonitorPlaces == {"describe", "check", "update", "own", "other"}

TypeOK ==
  /\ pc \in [Processes -> ThreadPlaces \cup MonitorPlaces]
  /\ server \in [Processes -> Servers \cup {NoServer}]

\* Threads and monitors keep to their places and know the server there.
AtTheirPlaces ==
  /\ \A t \in Threads :
       pc[t] \in ThreadPlaces /\ (pc[t] \notin {"ready", "topology"} => server[t] \in Servers)
  /\ \A m \in Servers :
       pc[m] \in MonitorPlaces /\ server[m] \in Servers /\ (pc[m] # "other" => server[m] = m)

\* The topology's lock: one writer, or readers.
TopologyExcludes ==
  /\ \A m, n \in TopologyWriters : m = n
  /\ TopologyWriters # {} => TopologyReaders = {}

Placed == TypeOK /\ AtTheirPlaces /\ TopologyExcludes

\* Those that may come back with a connection of the pool's present generation.
Current(s) == AtServer(Threads, s, {"use", "return"}) \ stale

Typed ==
  /\ len \in [Servers -> Nat] /\ idle \in [Servers -> Nat] /\ lost \in [Servers -> Nat]
  /\ stale \subseteq At(Threads, {"use", "return"})

\* A pool counts the connections that are idle, lost or with a thread.
Counted(s) == len[s] = lost[s] + idle[s] + Cardinality(Current(s))

\* A full pool that nobody opens connections of is in use, or all are lost.
Busy(s) ==
  /\ len[s] = MaxPoolSize
  /\ PoolHolders(s) = {}
  /\ lost[s] = MaxPoolSize \/ Users(s) # {}

Awaited(s) == AtServer(Threads, s, {"wait"}) # {} => Busy(s)

Pools == Typed /\ \A s \in Servers \ poisoned : Counted(s) /\ Awaited(s)

IInv == Placed /\ Pools

-----------------------------------------------------------------------------
LEMMA InitPlaced == ASSUME Init PROVE Placed
BY LockAssumption DEF Init, Placed, TypeOK, AtTheirPlaces, TopologyExcludes, Processes,
       ThreadPlaces, MonitorPlaces, TopologyWriters, TopologyReaders, At

\* A thread goes to another place, and the others stay where they are; it comes
\* to have the topology's lock only if it had, or if nobody writes it.
LEMMA ThreadMoves ==
  ASSUME Placed, NEW t \in Threads, NEW place \in ThreadPlaces,
         NEW s \in Servers \cup {NoServer},
         pc' = [pc EXCEPT ![t] = place], server' = [server EXCEPT ![t] = s],
         place \notin {"ready", "topology"} => s \in Servers,
         place \in {"filter", "pool", "wait", "connect", "handshake"} =>
           pc[t] \in {"filter", "pool", "wait", "connect", "handshake"} \/ TopologyWriters = {}
  PROVE  Placed'
BY LockAssumption DEF Placed, TypeOK, AtTheirPlaces, TopologyExcludes, Processes,
       ThreadPlaces, MonitorPlaces, TopologyWriters, TopologyReaders, At

\* A monitor comes to have the topology's lock only if it had, or if nobody has.
LEMMA MonitorMoves ==
  ASSUME Placed, NEW m \in Servers, NEW place \in MonitorPlaces, NEW s \in Servers,
         pc' = [pc EXCEPT ![m] = place], server' = [server EXCEPT ![m] = s],
         place # "other" => s = m,
         place \in {"own", "other"} =>
           pc[m] \in {"own", "other"} \/ (TopologyWriters = {} /\ TopologyReaders = {})
  PROVE  Placed'
BY LockAssumption DEF Placed, TypeOK, AtTheirPlaces, TopologyExcludes, Processes,
       ThreadPlaces, MonitorPlaces, TopologyWriters, TopologyReaders, At

LEMMA ThreadStep ==
  ASSUME Placed, NEW t \in Threads,
         \/ Begin(t) \/ LockTopology(t) \/ Filter(t)
         \/ LockPool(t) \/ LockPoisoned(t) \/ PopPanics(t) \/ WakesUp(t)
         \/ LockDescription(t) \/ HandshakeEnds(t) \/ HandshakeFails(t) \/ HandshakePanics(t)
         \/ UseEnds(t) \/ Return(t)
  PROVE  Placed'
<1>1. /\ pc[t] \in ThreadPlaces
      /\ server[t] \in Servers \cup {NoServer}
      /\ pc[t] \notin {"ready", "topology"} => server[t] \in Servers
      /\ server = [server EXCEPT ![t] = server[t]]
  BY DEF Placed, TypeOK, AtTheirPlaces, Processes
<1>2. CASE Begin(t)
  BY <1>1, <1>2, ThreadMoves DEF Begin, Goto, ThreadPlaces
<1>3. CASE LockTopology(t)
  <2>1. TopologyWriters = {} BY <1>3 DEF LockTopology, Free, Holders
  <2>2. PICK s \in Servers : GotoOf(t, "filter", s) BY <1>3 DEF LockTopology
  <2> QED BY <2>1, <2>2, ThreadMoves DEF GotoOf, Goto, ThreadPlaces
<1>4. CASE Filter(t)
  <2>1. pc[t] = "filter" BY <1>4 DEF Filter, Free
  <2>2. CASE GotoOf(t, "pool", server[t])
    BY <1>1, <2>1, <2>2, ThreadMoves DEF GotoOf, Goto, ThreadPlaces
  <2>3. CASE \E s \in Servers \ {server[t]} : GotoOf(t, "filter", s)
    BY <2>1, <2>3, ThreadMoves DEF GotoOf, Goto, ThreadPlaces
  <2>4. CASE GotoOf(t, "ready", NoServer)
    BY <2>4, ThreadMoves DEF GotoOf, Goto, ThreadPlaces
  <2> QED BY <1>4, <2>2, <2>3, <2>4 DEF Filter
<1>5. CASE LockPool(t)
  <2>1. pc[t] = "pool" BY <1>5 DEF LockPool, Free
  <2>2. PICK place \in {"use", "wait", "connect"} : Goto(t, place) /\ server' = server
    BY <1>5 DEF LockPool
  <2> QED BY <1>1, <2>1, <2>2, ThreadMoves DEF Goto, ThreadPlaces
<1>6. CASE LockDescription(t)
  <2>1. pc[t] = "connect" BY <1>6 DEF LockDescription, Free
  <2> QED BY <1>1, <1>6, <2>1, ThreadMoves DEF LockDescription, Goto, ThreadPlaces
<1>7. CASE HandshakeEnds(t)
  BY <1>1, <1>7, ThreadMoves DEF HandshakeEnds, Goto, ThreadPlaces
<1>8. CASE HandshakeFails(t) \/ LockPoisoned(t)
  <2>1. pc[t] \in {"handshake", "pool"} BY <1>8 DEF HandshakeFails, LockPoisoned, Free
  <2>2. CASE \E s \in Servers : GotoOf(t, "filter", s)
    BY <2>1, <2>2, ThreadMoves DEF GotoOf, Goto, ThreadPlaces
  <2>3. CASE GotoOf(t, "ready", NoServer)
    BY <2>3, ThreadMoves DEF GotoOf, Goto, ThreadPlaces
  <2> QED BY <1>8, <2>2, <2>3 DEF HandshakeFails, LockPoisoned, NoConnection
<1>9. CASE UseEnds(t)
  BY <1>1, <1>9, ThreadMoves DEF UseEnds, Goto, ThreadPlaces
<1>10. CASE Return(t)
  <2>1. server' = [server EXCEPT ![t] = NoServer] BY <1>10 DEF Return
  <2>2. CASE Goto(t, "ready")
    BY <2>1, <2>2, ThreadMoves DEF Goto, ThreadPlaces
  <2>3. CASE \E u \in AtServer(Threads, server[t], {"wait"}) :
               pc' = [pc EXCEPT ![t] = "ready", ![u] = "pool"]
    BY <2>1, <2>3, LockAssumption DEF AtServer, At, Placed, TypeOK, AtTheirPlaces, Processes,
         TopologyExcludes, TopologyWriters, TopologyReaders, ThreadPlaces, MonitorPlaces
  <2> QED BY <1>10, <2>2, <2>3 DEF Return
<1>11. CASE WakesUp(t)
  <2>1. pc[t] = "wait" BY <1>11 DEF WakesUp
  <2> QED BY <1>1, <1>11, <2>1, ThreadMoves DEF WakesUp, Goto, ThreadPlaces
<1>12. CASE PopPanics(t) \/ HandshakePanics(t)
  <2>1. GotoOf(t, "ready", NoServer) BY <1>12 DEF PopPanics, HandshakePanics, Panic
  <2> QED BY <2>1, ThreadMoves DEF GotoOf, Goto, ThreadPlaces
<1> QED
  BY <1>2, <1>3, <1>4, <1>5, <1>6, <1>7, <1>8, <1>9, <1>10, <1>11, <1>12

LEMMA MonitorStep ==
  ASSUME Placed, NEW m \in Servers,
         Describe(m) \/ CheckEnds(m) \/ LockToUpdate(m) \/ ReadOwn(m) \/ Touch(m)
  PROVE  Placed'
<1>1. /\ pc[m] # "other" => server[m] = m
      /\ server[m] \in Servers
      /\ server = [server EXCEPT ![m] = server[m]]
  BY DEF Placed, TypeOK, AtTheirPlaces, Processes
<1>2. CASE Describe(m)
  <2>1. pc[m] = "describe" BY <1>2 DEF Describe, Free
  <2> QED BY <1>1, <1>2, <2>1, MonitorMoves DEF Describe, Goto, MonitorPlaces
<1>3. CASE CheckEnds(m)
  BY <1>1, <1>3, MonitorMoves DEF CheckEnds, Goto, MonitorPlaces
<1>4. CASE LockToUpdate(m)
  <2>1. pc[m] = "update" BY <1>4 DEF LockToUpdate, Free
  <2>2. TopologyWriters = {} /\ TopologyReaders = {}
    BY <1>4, <2>1 DEF LockToUpdate, Free, Holders
  <2> QED BY <1>1, <1>4, <2>1, <2>2, MonitorMoves DEF LockToUpdate, Goto, MonitorPlaces
<1>5. CASE ReadOwn(m) \/ Touch(m)
  <2>1. pc[m] \in {"own", "other"} BY <1>5 DEF ReadOwn, Touch, Free
  <2>2. CASE \E s \in Servers : GotoOf(m, "other", s)
    BY <2>1, <2>2, MonitorMoves DEF GotoOf, Goto, MonitorPlaces
  <2>3. CASE GotoOf(m, "describe", m)
    BY <2>3, MonitorMoves DEF GotoOf, Goto, MonitorPlaces
  <2> QED BY <1>5, <2>2, <2>3 DEF ReadOwn, Touch
<1> QED BY <1>2, <1>3, <1>4, <1>5

LEMMA NextPlaced == ASSUME Placed, [Next]_vars PROVE Placed'
<1>1. CASE Next BY <1>1, ThreadStep, MonitorStep DEF Next
<1>2. CASE UNCHANGED vars
  BY <1>2 DEF vars, Placed, TypeOK, AtTheirPlaces, TopologyExcludes, TopologyWriters,
       TopologyReaders, At
<1> QED BY <1>1, <1>2

-----------------------------------------------------------------------------
\* Whoever a process waits for is at a place further down, or does not wait.
LEMMA Ranked ==
  ASSUME Placed, NEW p \in Processes, NEW q \in Blockers(p)
  PROVE  /\ q \in Processes
         /\ pc[p] = "topology" => pc[q] \in {"update", "own", "other"}
         /\ pc[p] = "update" =>
              pc[q] \in {"filter", "pool", "wait", "connect", "handshake", "own", "other"}
         /\ pc[p] \in {"pool", "return"} => pc[q] \in {"connect", "handshake"}
         /\ pc[p] \in {"filter", "own", "other"} =>
              pc[q] \in {"connect", "handshake", "describe", "check"}
         /\ pc[p] \in {"connect", "describe"} => pc[q] \in {"handshake", "check"}
         /\ pc[p] \notin {"ready", "use", "wait", "handshake", "check"}
<1> USE DEF Blockers, Holders, Writers
<1>1. pc[p] \in ThreadPlaces \cup MonitorPlaces /\ server[p] \in Servers \cup {NoServer}
  BY DEF Placed, TypeOK
<1>2. CASE pc[p] = "topology"
  BY <1>2 DEF TopologyWriters, At, Processes
<1>3. CASE pc[p] = "update"
  BY <1>3 DEF TopologyWriters, TopologyReaders, At, Processes
<1>4. CASE pc[p] \in {"pool", "return"}
  BY <1>4 DEF PoolHolders, AtServer, At, Processes
<1>5. CASE pc[p] \in {"connect", "describe"}
  <2>1. server[p] \in Servers
    BY <1>5, LockAssumption DEF Placed, AtTheirPlaces, Processes
  <2>2. DescriptionReaders(server[p]) = {}
    BY <1>5, <2>1 DEF DescriptionReaders, Placed, AtTheirPlaces, TopologyExcludes,
         TopologyWriters, TopologyReaders, At, Processes, ThreadPlaces, MonitorPlaces
  <2> QED BY <1>5, <2>1, <2>2 DEF DescriptionWriters, AtServer, At, Processes
<1>6. CASE pc[p] \in {"filter", "own", "other"}
  <2>1. server[p] \in Servers
    BY <1>6 DEF Placed, AtTheirPlaces, Processes
  <2>2. pc[p] = "other" => DescriptionReaders(server[p]) \ {p} = {}
    BY <2>1 DEF DescriptionReaders, Placed, AtTheirPlaces, TopologyExcludes, TopologyWriters,
         At, Processes, ThreadPlaces
  <2> QED BY <1>6, <2>1, <2>2 DEF DescriptionWriters, DescriptionWaiters, AtServer, At, Processes
<1>7. CASE pc[p] \in {"ready", "use", "wait", "handshake", "check"}
  BY <1>7
<1> QED BY <1>1, <1>2, <1>3, <1>4, <1>5, <1>6, <1>7 DEF ThreadPlaces, MonitorPlaces

-----------------------------------------------------------------------------
(* The connections *)

LEMMA InitPools == ASSUME Init PROVE Pools
<1>1. \A s : Current(s) = {} /\ AtServer(Threads, s, {"wait"}) = {}
  BY LockAssumption DEF Init, Current, AtServer, At, Processes
<1> QED BY <1>1, FS_EmptySet DEF Init, Pools, Typed, Counted, Awaited

LEMMA CurrentFinite ==
  ASSUME NEW s PROVE IsFiniteSet(Current(s)) /\ Cardinality(Current(s)) \in Nat
<1>1. Current(s) \subseteq Threads
  BY DEF Current, AtServer, At
<1> QED BY <1>1, LockAssumption, FS_Subset, FS_CardinalityType

\* Nothing that the pools' invariant speaks of changes.
LEMMA SamePools ==
  ASSUME IInv,
         \A t \in Threads : pc'[t] = pc[t] /\ server'[t] = server[t],
         UNCHANGED pools
  PROVE  Pools'
<1>1. /\ At(Threads, {"use", "return"})' = At(Threads, {"use", "return"})
      /\ \A s : /\ Current(s)' = Current(s) /\ PoolHolders(s)' = PoolHolders(s)
                /\ Users(s)' = Users(s)
                /\ AtServer(Threads, s, {"wait"})' = AtServer(Threads, s, {"wait"})
  BY DEF Current, PoolHolders, Users, AtServer, At, pools
<1>2. PICK f : f = [s \in Servers |-> Cardinality(Current(s))]
  OBVIOUS
<1>3. \A s \in Servers : f[s] = Cardinality(Current(s)) /\ f[s] = Cardinality(Current(s)')
  BY <1>1, <1>2
<1> QED BY <1>1, <1>3 DEF IInv, Pools, Typed, Counted, Awaited, Busy, pools

\* Monitors have to do with no connection.
LEMMA MonitorPools ==
  ASSUME IInv, NEW m \in Servers,
         Describe(m) \/ CheckEnds(m) \/ LockToUpdate(m) \/ ReadOwn(m) \/ Touch(m)
  PROVE  Pools'
<1>1. /\ \A t \in Threads : pc'[t] = pc[t] /\ server'[t] = server[t]
      /\ UNCHANGED pools
  BY LockAssumption DEF Describe, CheckEnds, LockToUpdate, ReadOwn, Touch, GotoOf, Goto, IInv,
       Placed, TypeOK, Processes
<1> QED BY <1>1, SamePools

\* What is known of a thread that is at a pool.
LEMMA AtAPool ==
  ASSUME IInv, NEW t \in Threads
  PROVE  /\ pc[t] \in {"filter", "pool", "wait", "connect", "handshake", "use", "return"} =>
              server[t] \in Servers
         /\ t \in stale => pc[t] \in {"use", "return"}
BY DEF IInv, Placed, AtTheirPlaces, Pools, Typed, At

\* Nobody waits for the pool that a thread opens a connection of.
LEMMA NobodyWaits ==
  ASSUME IInv, NEW t \in Threads, pc[t] \in {"connect", "handshake"}, server[t] \notin poisoned
  PROVE  \A u \in Threads : ~(pc[u] = "wait" /\ server[u] = server[t])
BY AtAPool DEF IInv, Pools, Awaited, Busy, PoolHolders, AtServer, At

\* What a thread does at a pool does not concern those that use or wait for another.
LEMMA OtherPools ==
  ASSUME IInv, NEW t \in Threads, NEW s \in Servers,
         pc[t] \in {"pool", "wait", "connect", "handshake", "use", "return"}, server[t] = s,
         pc'[t] \in {"wait", "connect", "handshake", "use", "return"} => server'[t] = s,
         \A u \in Threads \ {t} :
           /\ server'[u] = server[u]
           /\ pc'[u] = pc[u] \/ (server[u] = s /\ pc[u] = "wait" /\ pc'[u] = "pool")
           /\ (u \in stale' <=> u \in stale) \/ server[u] = s,
         \A r \in Servers \ {s} : len'[r] = len[r] /\ idle'[r] = idle[r] /\ lost'[r] = lost[r],
         poisoned \subseteq poisoned'
  PROVE  \A r \in Servers \ poisoned' : r # s => Counted(r)' /\ Awaited(r)'
<1> SUFFICES ASSUME NEW r \in Servers \ poisoned', r # s PROVE Counted(r)' /\ Awaited(r)'
  OBVIOUS
<1>1. Counted(r) /\ Awaited(r)
  BY DEF IInv, Pools
<1>2. Current(r)' = Current(r)
  BY DEF Current, AtServer, At
<1>3. Counted(r)'
  <2>1. PICK n : n = Cardinality(Current(r)) OBVIOUS
  <2>2. n = Cardinality(Current(r)') BY <1>2, <2>1
  <2> QED BY <1>1, <2>1, <2>2 DEF Counted
<1>4. AtServer(Threads, r, {"wait"})' \subseteq AtServer(Threads, r, {"wait"})
  BY DEF AtServer, At
<1>5. PoolHolders(r) = {} => PoolHolders(r)' = {}
  BY DEF PoolHolders, AtServer, At
<1>6. Users(r) \subseteq Users(r)'
  BY DEF Users, AtServer, At
<1> QED BY <1>1, <1>3, <1>4, <1>5, <1>6 DEF Awaited, Busy

\* A step of a thread that neither has to do with a pool before nor after.
LEMMA OutsidePools ==
  ASSUME IInv, NEW t \in Threads, NEW place \in ThreadPlaces, NEW s \in Servers \cup {NoServer},
         pc[t] \in {"ready", "topology", "filter"},
         place \in {"ready", "topology", "filter", "pool"},
         pc' = [pc EXCEPT ![t] = place], server' = [server EXCEPT ![t] = s],
         UNCHANGED pools
  PROVE  Pools'
<1>1. t \notin stale BY AtAPool
<1>2. /\ pc'[t] = place /\ server'[t] = s
      /\ \A u \in Threads \ {t} : pc'[u] = pc[u] /\ server'[u] = server[u]
  BY DEF IInv, Placed, TypeOK, Processes
<1>3. Typed'
  BY <1>1, <1>2 DEF IInv, Pools, Typed, At, pools
<1>4. ASSUME NEW r \in Servers \ poisoned' PROVE Counted(r)' /\ Awaited(r)'
  <2>1. Counted(r) /\ Awaited(r)
    BY <1>4 DEF IInv, Pools, pools
  <2>2. Current(r)' = Current(r)
    BY <1>1, <1>2 DEF Current, AtServer, At, pools
  <2>3. Counted(r)'
    <3>1. PICK n : n = Cardinality(Current(r)) OBVIOUS
    <3>2. n = Cardinality(Current(r)') BY <2>2, <3>1
    <3> QED BY <2>1, <3>1, <3>2 DEF Counted, pools
  <2>4. Awaited(r)'
    BY <1>2, <2>1 DEF Awaited, Busy, PoolHolders, Users, AtServer, At, pools
  <2> QED BY <2>3, <2>4
<1> QED BY <1>3, <1>4 DEF Pools

LEMMA LockPoolKeeps ==
  ASSUME IInv, NEW t \in Threads, LockPool(t) PROVE Pools'
<1>0. server[t] \in Servers BY AtAPool DEF LockPool, Free
<1> PICK s \in Servers : s = server[t] BY <1>0
<1>1. pc[t] = "pool" /\ PoolHolders(s) = {} /\ s \notin poisoned /\ t \notin stale
  BY AtAPool DEF LockPool, Free, Holders
<1>2. /\ Counted(s) /\ Awaited(s) /\ Typed /\ len[s] \in Nat /\ idle[s] \in Nat
      /\ lost[s] \in Nat /\ Cardinality(Current(s)) \in Nat
  BY <1>1, CurrentFinite DEF IInv, Pools, Typed
<1>3. /\ \A u \in Threads \ {t} : pc'[u] = pc[u]
      /\ server' = server /\ stale' = stale /\ len' = len /\ poisoned' = poisoned
  BY DEF LockPool, Goto, IInv, Placed, TypeOK, Processes
<1>4. PICK k \in 0 .. idle[s] :
        /\ lost' = [lost EXCEPT ![s] = @ + k]
        /\ \/ /\ idle[s] > k
              /\ idle' = [idle EXCEPT ![s] = @ - k - 1]
              /\ Goto(t, "use")
           \/ /\ idle[s] = k
              /\ idle' = [idle EXCEPT ![s] = 0]
              /\ Goto(t, IF len[s] = MaxPoolSize THEN "wait" ELSE "connect")
  BY DEF LockPool
<1>5. k \in Nat /\ lost'[s] = lost[s] + k /\ lost' \in [Servers -> Nat]
  BY <1>2, <1>4 DEF Typed
<1>6. /\ pc'[t] \in {"use", "wait", "connect"}
      /\ idle' \in [Servers -> Nat]
      /\ \A r \in Servers \ {s} : idle'[r] = idle[r] /\ lost'[r] = lost[r]
  BY <1>2, <1>4, <1>5 DEF Typed, Goto, IInv, Placed, TypeOK, Processes
<1>7. Typed'
  BY <1>1, <1>2, <1>3, <1>5, <1>6 DEF Typed, At
<1>8. \A r \in Servers \ poisoned' : r # s => Counted(r)' /\ Awaited(r)'
  BY <1>1, <1>3, <1>6, OtherPools
<1>9. CASE /\ idle[s] > k
           /\ idle' = [idle EXCEPT ![s] = @ - k - 1]
           /\ Goto(t, "use")
  <2>1. pc'[t] = "use" /\ idle'[s] = idle[s] - k - 1
    BY <1>2, <1>9 DEF Goto, IInv, Placed, TypeOK, Processes, Typed
  <2>2. Current(s)' = Current(s) \cup {t} /\ t \notin Current(s)
    BY <1>1, <1>3, <2>1 DEF Current, AtServer, At
  <2>3. Cardinality(Current(s)') = Cardinality(Current(s)) + 1
    BY <2>2, CurrentFinite, OneElement
  <2>4. Counted(s)'
    BY <1>2, <1>3, <1>5, <2>1, <2>3 DEF Counted
  <2>5. Awaited(s)'
    <3>1. t \in Users(s)'
      BY <1>1, <1>3, <2>1 DEF Users, AtServer, At
    <3>2. PoolHolders(s)' = {}
      BY <1>1, <1>3, <2>1 DEF PoolHolders, AtServer, At
    <3>3. AtServer(Threads, s, {"wait"})' \subseteq AtServer(Threads, s, {"wait"})
      BY <1>3, <2>1 DEF AtServer, At
    <3> QED BY <1>2, <1>3, <3>1, <3>2, <3>3 DEF Awaited, Busy
  <2> QED BY <1>7, <1>8, <2>4, <2>5 DEF Pools
<1>10. CASE /\ idle[s] = k
            /\ idle' = [idle EXCEPT ![s] = 0]
            /\ Goto(t, IF len[s] = MaxPoolSize THEN "wait" ELSE "connect")
  <2>1. /\ pc'[t] = IF len[s] = MaxPoolSize THEN "wait" ELSE "connect"
        /\ idle'[s] = 0
    BY <1>2, <1>10 DEF Goto, IInv, Placed, TypeOK, Processes, Typed
  <2>2. Current(s)' = Current(s)
    BY <1>1, <1>3, <2>1 DEF Current, AtServer, At
  <2>3. Cardinality(Current(s)') = Cardinality(Current(s))
    BY <2>2
  <2>4. Counted(s)'
    BY <1>2, <1>3, <1>5, <1>10, <2>1, <2>3 DEF Counted
  <2>5. CASE len[s] # MaxPoolSize
    <3>1. AtServer(Threads, s, {"wait"})' = {}
      BY <1>2, <1>3, <2>1, <2>5 DEF Awaited, Busy, AtServer, At
    <3> QED BY <1>7, <1>8, <2>4, <3>1 DEF Pools, Awaited
  <2>6. CASE len[s] = MaxPoolSize
    <3>1. PoolHolders(s)' = {}
      BY <1>1, <1>3, <2>1, <2>6 DEF PoolHolders, AtServer, At
    <3>2. lost'[s] = MaxPoolSize \/ Current(s) # {}
      <4> SUFFICES ASSUME Current(s) = {} PROVE lost'[s] = MaxPoolSize
        OBVIOUS
      <4>1. Cardinality(Current(s)) = 0
        BY FS_EmptySet
      <4> QED BY <1>2, <1>5, <1>10, <2>6, <4>1 DEF Counted
    <3>3. Current(s) \subseteq Users(s)'
      BY <1>1, <1>3 DEF Current, Users, AtServer, At
    <3> QED BY <1>3, <1>7, <1>8, <2>4, <2>6, <3>1, <3>2, <3>3 DEF Pools, Awaited, Busy
  <2> QED BY <2>5, <2>6
<1> QED BY <1>4, <1>9, <1>10

LEMMA LockDescriptionKeeps ==
  ASSUME IInv, NEW t \in Threads, LockDescription(t) \/ WakesUp(t) PROVE Pools'
<1>0. server[t] \in Servers BY AtAPool DEF LockDescription, WakesUp, Free
<1> PICK s \in Servers : s = server[t] BY <1>0
<1>1. /\ \/ pc[t] = "connect" /\ pc'[t] = "handshake"
         \/ pc[t] = "wait" /\ pc'[t] = "pool"
      /\ t \notin stale
  BY AtAPool DEF LockDescription, WakesUp, Free, Goto, IInv, Placed, TypeOK, Processes
<1>2. /\ \A u \in Threads \ {t} : pc'[u] = pc[u]
      /\ server' = server /\ UNCHANGED pools
  BY DEF LockDescription, WakesUp, Goto, IInv, Placed, TypeOK, Processes
<1>3. Typed'
  BY <1>1, <1>2 DEF IInv, Pools, Typed, At, pools
<1>4. \A r \in Servers \ poisoned' : r # s => Counted(r)' /\ Awaited(r)'
  BY <1>1, <1>2, OtherPools DEF pools
<1>5. ASSUME s \notin poisoned' PROVE Counted(s)' /\ Awaited(s)'
  <2>1. Counted(s) /\ Awaited(s)
    BY <1>2, <1>5 DEF IInv, Pools, pools
  <2>2. Current(s)' = Current(s)
    BY <1>1, <1>2 DEF Current, AtServer, At, pools
  <2>3. Counted(s)'
    <3>1. Cardinality(Current(s)') = Cardinality(Current(s)) BY <2>2
    <3> QED BY <1>2, <2>1, <3>1 DEF Counted, pools
  <2>4. Awaited(s)'
    BY <1>1, <1>2, <2>1 DEF Awaited, Busy, PoolHolders, Users, AtServer, At, pools
  <2> QED BY <2>3, <2>4
<1> QED BY <1>3, <1>4, <1>5 DEF Pools

LEMMA HandshakeKeeps ==
  ASSUME IInv, NEW t \in Threads, HandshakeEnds(t) \/ HandshakeFails(t)
  PROVE  Pools'
<1>0. server[t] \in Servers BY AtAPool DEF HandshakeEnds, HandshakeFails
<1> PICK s \in Servers : s = server[t] BY <1>0
<1>1. pc[t] = "handshake" /\ t \notin stale
  BY AtAPool DEF HandshakeEnds, HandshakeFails
<1>2. Typed /\ (s \notin poisoned => Counted(s) /\ Cardinality(Current(s)) \in Nat)
  BY CurrentFinite DEF IInv, Pools
<1>3. /\ pc'[t] \in {"use", "filter", "ready"} /\ poisoned' = poisoned
      /\ pc'[t] = "use" => server'[t] = s
      /\ \A u \in Threads \ {t} : pc'[u] = pc[u] /\ server'[u] = server[u]
  BY DEF HandshakeEnds, HandshakeFails, NoConnection, Goto, GotoOf, pools, IInv, Placed,
       TypeOK, Processes
<1>4. \A r \in Servers \ {s} : len'[r] = len[r] /\ idle'[r] = idle[r] /\ lost'[r] = lost[r]
  BY <1>2 DEF HandshakeEnds, HandshakeFails, pools, Typed
<1>5. /\ stale \subseteq stale' /\ t \notin stale'
      /\ \A u \in Threads : u \in stale' /\ u \notin stale =>
           server[u] = s /\ pc[u] \in {"use", "return"}
  BY <1>1 DEF HandshakeEnds, HandshakeFails, pools, AtServer, At
<1>6. Typed'
  <2>1. stale' \subseteq At(Threads, {"use", "return"})'
    BY <1>2, <1>3, <1>5 DEF HandshakeEnds, HandshakeFails, pools, Typed, AtServer, At
  <2>2. len' \in [Servers -> Nat] /\ idle' \in [Servers -> Nat] /\ lost' \in [Servers -> Nat]
    BY <1>2 DEF HandshakeEnds, HandshakeFails, pools, Typed
  <2> QED BY <2>1, <2>2 DEF Typed
<1>7. \A r \in Servers \ poisoned' : r # s => Counted(r)' /\ Awaited(r)'
  BY <1>1, <1>3, <1>4, <1>5, OtherPools
<1>8. ASSUME s \notin poisoned PROVE Counted(s)' /\ Awaited(s)'
  <2>1. AtServer(Threads, s, {"wait"})' = {}
    BY <1>1, <1>3, <1>8, NobodyWaits DEF AtServer, At
  <2>2. CASE HandshakeEnds(t)
    <3>1. /\ pc'[t] = "use" /\ server' = server /\ len'[s] = len[s] + 1
          /\ idle' = idle /\ lost' = lost /\ stale' = stale
      BY <1>2, <2>2 DEF HandshakeEnds, Goto, IInv, Placed, TypeOK, Processes, Typed
    <3>2. Current(s)' = Current(s) \cup {t} /\ t \notin Current(s)
      BY <1>1, <1>3, <3>1 DEF Current, AtServer, At
    <3>3. Cardinality(Current(s)') = Cardinality(Current(s)) + 1
      BY <3>2, CurrentFinite, OneElement
    <3> QED BY <1>2, <1>8, <2>1, <3>1, <3>3 DEF Counted, Awaited, Typed
  <2>3. CASE HandshakeFails(t) /\ UNCHANGED pools
    <3>1. Current(s)' = Current(s)
      BY <1>1, <1>3, <2>3 DEF HandshakeFails, NoConnection, GotoOf, Goto, IInv, Placed, TypeOK,
           Processes, Current, AtServer, At, pools
    <3>2. Cardinality(Current(s)') = Cardinality(Current(s))
      BY <3>1
    <3> QED BY <1>2, <1>8, <2>1, <2>3, <3>2 DEF Counted, Awaited, pools
  <2>4. CASE /\ HandshakeFails(t)
             /\ len' = [len EXCEPT ![s] = 0]
             /\ idle' = [idle EXCEPT ![s] = 0]
             /\ lost' = [lost EXCEPT ![s] = 0]
             /\ stale' = stale \cup AtServer(Threads, s, {"use", "return"})
    <3>1. pc'[t] \in {"filter", "ready"}
      BY <2>4 DEF HandshakeFails, NoConnection, GotoOf, Goto, IInv, Placed, TypeOK, Processes
    <3>2. Current(s)' = {}
      BY <1>3, <2>4, <3>1 DEF Current, AtServer, At
    <3>3. Cardinality(Current(s)') = 0
      BY <3>2, FS_EmptySet
    <3>4. len'[s] = 0 /\ idle'[s] = 0 /\ lost'[s] = 0
      BY <1>2, <2>4 DEF Typed
    <3> QED BY <2>1, <3>3, <3>4 DEF Counted, Awaited
  <2> QED BY <2>2, <2>3, <2>4 DEF HandshakeFails
<1> QED BY <1>3, <1>6, <1>7, <1>8 DEF Pools

\* A thread that panics, or finds a pool poisoned, leaves no sound pool behind.
LEMMA PoisonedKeeps ==
  ASSUME IInv, NEW t \in Threads, LockPoisoned(t) \/ PopPanics(t) \/ HandshakePanics(t)
  PROVE  Pools'
<1>0. server[t] \in Servers
  BY AtAPool DEF LockPoisoned, PopPanics, HandshakePanics, Free
<1> PICK s \in Servers : s = server[t] BY <1>0
<1>1. pc[t] \in {"pool", "handshake"} /\ t \notin stale /\ Typed
  BY AtAPool DEF LockPoisoned, PopPanics, HandshakePanics, Free, IInv, Pools
<1>2. /\ pc'[t] \in {"filter", "ready"}
      /\ \A u \in Threads \ {t} : pc'[u] = pc[u] /\ server'[u] = server[u]
      /\ stale' = stale /\ len' = len /\ lost' = lost
      /\ poisoned' = poisoned \cup {s}
  BY DEF LockPoisoned, PopPanics, HandshakePanics, NoConnection, Panic, GotoOf, Goto, pools, IInv,
       Placed, TypeOK, Processes
<1>3. idle' \in [Servers -> Nat] /\ \A r \in Servers \ {s} : idle'[r] = idle[r]
  BY <1>1 DEF LockPoisoned, PopPanics, HandshakePanics, Panic, pools, Typed
<1>4. Typed'
  BY <1>1, <1>2, <1>3 DEF Typed, At
<1>5. \A r \in Servers \ poisoned' : r # s => Counted(r)' /\ Awaited(r)'
  BY <1>1, <1>2, <1>3, OtherPools
<1> QED BY <1>2, <1>4, <1>5 DEF Pools

LEMMA UseEndsKeeps ==
  ASSUME IInv, NEW t \in Threads, UseEnds(t) PROVE Pools'
<1>1. pc[t] = "use" /\ pc'[t] = "return"
  BY DEF UseEnds, Goto, IInv, Placed, TypeOK, Processes
<1>2. /\ \A u \in Threads \ {t} : pc'[u] = pc[u]
      /\ server' = server /\ UNCHANGED pools
  BY DEF UseEnds, Goto, IInv, Placed, TypeOK, Processes
<1>3. Typed'
  BY <1>1, <1>2 DEF IInv, Pools, Typed, At, pools
<1>4. ASSUME NEW r \in Servers \ poisoned' PROVE Counted(r)' /\ Awaited(r)'
  <2>1. Counted(r) /\ Awaited(r)
    BY <1>2, <1>4 DEF IInv, Pools, pools
  <2>2. Current(r)' = Current(r)
    BY <1>1, <1>2 DEF Current, AtServer, At, pools
  <2>3. Cardinality(Current(r)') = Cardinality(Current(r))
    BY <2>2
  <2>4. Counted(r)'
    BY <1>2, <2>1, <2>3 DEF Counted, pools
  <2>5. Awaited(r)'
    BY <1>1, <1>2, <2>1 DEF Awaited, Busy, PoolHolders, Users, AtServer, At, pools
  <2> QED BY <2>4, <2>5
<1> QED BY <1>3, <1>4 DEF Pools

LEMMA ReturnKeeps ==
  ASSUME IInv, NEW t \in Threads, Return(t) PROVE Pools'
<1>0. server[t] \in Servers BY AtAPool DEF Return, Free
<1> PICK s \in Servers : s = server[t] BY <1>0
<1> DEFINE waiting == AtServer(Threads, s, {"wait"})
<1>1. pc[t] = "return" /\ PoolHolders(s) = {} BY DEF Return, Free, Holders
<1>2. Typed /\ (s \notin poisoned => Counted(s) /\ Awaited(s)) /\ Cardinality(Current(s)) \in Nat
  BY CurrentFinite DEF IInv, Pools
<1>3. /\ pc'[t] = "ready" /\ t \notin stale' /\ stale' \subseteq stale
      /\ UNCHANGED <<len, lost, poisoned>>
      /\ \A u \in Threads \ {t} :
           /\ server'[u] = server[u] /\ (u \in stale' <=> u \in stale)
           /\ pc'[u] = pc[u] \/ (server[u] = s /\ pc[u] = "wait" /\ pc'[u] = "pool")
  BY <1>1 DEF Return, MayReturn, Goto, IInv, Placed, TypeOK, Processes, AtServer, At
<1>4. idle' \in [Servers -> Nat] /\ \A r \in Servers \ {s} : idle'[r] = idle[r]
  BY <1>2 DEF Return, Typed
<1>5. Typed'
  BY <1>2, <1>3, <1>4 DEF Typed, At
<1>6. \A r \in Servers \ poisoned' : r # s => Counted(r)' /\ Awaited(r)'
  BY <1>1, <1>3, <1>4, OtherPools
<1>7. PoolHolders(s)' = {}
  BY <1>1, <1>3 DEF PoolHolders, AtServer, At
<1>8. CASE s \in poisoned
  BY <1>3, <1>5, <1>6, <1>8 DEF Pools
<1>9. CASE s \notin poisoned /\ t \in stale
  <2>1. idle' = idle /\ pc' = [pc EXCEPT ![t] = "ready"]
    BY <1>9 DEF Return, MayReturn, Goto
  <2>2. \A u \in Threads \ {t} : pc'[u] = pc[u]
    BY <2>1 DEF IInv, Placed, TypeOK, Processes
  <2>3. Current(s)' = Current(s)
    BY <1>3, <1>9, <2>2 DEF Current, AtServer, At
  <2>4. Counted(s)'
    <3>1. Cardinality(Current(s)') = Cardinality(Current(s)) BY <2>3
    <3> QED BY <1>2, <1>3, <1>9, <2>1, <3>1 DEF Counted
  <2>5. Users(s) \subseteq Users(s)' /\ AtServer(Threads, s, {"wait"})' \subseteq waiting
    BY <1>1, <1>3, <1>9, <2>2 DEF Users, AtServer, At
  <2>6. Awaited(s)'
    BY <1>2, <1>3, <1>7, <1>9, <2>5 DEF Awaited, Busy
  <2> QED BY <1>5, <1>6, <2>4, <2>6 DEF Pools
<1>10. CASE s \notin poisoned /\ t \notin stale
  <2>1. idle'[s] = idle[s] + 1 /\ idle[s] \in Nat
    BY <1>2, <1>10 DEF Return, MayReturn, Typed
  <2>2. Current(s)' = Current(s) \ {t} /\ t \in Current(s)
    BY <1>1, <1>3, <1>10 DEF Current, AtServer, At
  <2>3. Cardinality(Current(s)') = Cardinality(Current(s)) - 1
    BY <2>2, CurrentFinite, OneElement
  <2>4. Counted(s)'
    BY <1>2, <1>3, <1>10, <2>1, <2>3 DEF Counted, Typed
  <2>5. Awaited(s)'
    <3>1. CASE waiting = {}
      <4>1. AtServer(Threads, s, {"wait"})' = {}
        BY <1>3, <3>1 DEF AtServer, At
      <4> QED BY <4>1 DEF Awaited
    <3>2. CASE \E u \in waiting : pc' = [pc EXCEPT ![t] = "ready", ![u] = "pool"]
      <4>1. PICK u \in waiting : pc' = [pc EXCEPT ![t] = "ready", ![u] = "pool"]
        BY <3>2
      <4>2. u \in Threads /\ u # t /\ pc[u] = "wait" /\ server[u] = s
        BY <1>1 DEF AtServer, At
      <4>3. pc'[u] = "pool" /\ server'[u] = s
        BY <1>3, <4>1, <4>2 DEF IInv, Placed, TypeOK, Processes
      <4>4. u \in Users(s)'
        BY <4>2, <4>3 DEF Users, AtServer, At
      <4>5. len[s] = MaxPoolSize
        BY <1>2, <1>10, <3>2 DEF Awaited, Busy
      <4> QED BY <1>3, <1>7, <4>4, <4>5 DEF Awaited, Busy
    <3> QED BY <1>10, <3>1, <3>2 DEF Return, MayReturn
  <2> QED BY <1>5, <1>6, <2>4, <2>5 DEF Pools
<1> QED BY <1>8, <1>9, <1>10

LEMMA NextInvariant == ASSUME IInv, [Next]_vars PROVE IInv'
<1>1. Placed' BY NextPlaced DEF IInv
<1>2. ASSUME NEW t \in Threads, Begin(t) \/ LockTopology(t) \/ Filter(t)
      PROVE  Pools'
  <2>1. server[t] \in Servers \cup {NoServer} /\ server = [server EXCEPT ![t] = server[t]]
    BY DEF IInv, Placed, TypeOK, Processes
  <2>2. CASE Begin(t)
    BY <2>1, <2>2, OutsidePools DEF Begin, Goto, pools, ThreadPlaces
  <2>3. CASE LockTopology(t)
    BY <2>3, OutsidePools DEF LockTopology, Free, GotoOf, Goto, pools, ThreadPlaces
  <2>4. CASE Filter(t)
    <3>1. pc[t] = "filter" /\ server[t] \in Servers /\ UNCHANGED pools
      BY <2>4, AtAPool DEF Filter, Free
    <3>2. PICK place \in {"pool", "filter", "ready"}, s \in Servers \cup {NoServer} :
            GotoOf(t, place, s)
      BY <2>4, <3>1 DEF Filter
    <3> QED BY <3>1, <3>2, OutsidePools DEF GotoOf, Goto, ThreadPlaces
  <2> QED BY <1>2, <2>2, <2>3, <2>4
<1>3. CASE UNCHANGED vars
  <2>1. Pools'
    BY <1>3, SamePools DEF vars, pools
  <2> QED BY <1>1, <2>1 DEF IInv
<1>4. CASE Next
  <2>1. ASSUME NEW t \in Threads,
               \/ LockPool(t) \/ LockPoisoned(t) \/ PopPanics(t) \/ WakesUp(t)
               \/ LockDescription(t) \/ HandshakeEnds(t) \/ HandshakeFails(t)
               \/ HandshakePanics(t) \/ UseEnds(t) \/ Return(t)
        PROVE  Pools'
    BY <2>1, LockPoolKeeps, LockDescriptionKeeps, HandshakeKeeps, PoisonedKeeps, UseEndsKeeps,
       ReturnKeeps
  <2>2. Pools'
    BY <1>2, <1>4, <2>1, MonitorPools DEF Next
  <2> QED BY <1>1, <2>2 DEF IInv
<1> QED BY <1>1, <1>3, <1>4 DEF IInv

-----------------------------------------------------------------------------
\* Of the processes that wait for each other none is at the last place, and if
\* none is at the places after one, none is there.
LEMMA InOrder == ASSUME IInv PROVE NoDeadlock
<1> SUFFICES ASSUME NEW P \in SUBSET Processes,
                    \A p \in P :
                      IF pc[p] = "wait" THEN ~Dead(server[p]) /\ Users(server[p]) \subseteq P
                      ELSE Blockers(p) \cap P # {}
             PROVE  P = {}
  BY DEF NoDeadlock
<1>1. \A p \in P : pc[p] # "wait" => \E q \in P : q \in Blockers(p)
  OBVIOUS
<1>2. \A p \in P : pc[p] \notin {"ready", "use", "handshake", "check"}
  BY <1>1, Ranked DEF IInv
<1>3. \A p \in P : pc[p] \notin {"connect", "describe"}
  <2> SUFFICES ASSUME NEW p \in P, pc[p] \in {"connect", "describe"} PROVE FALSE
    OBVIOUS
  <2>1. PICK q \in P : q \in Blockers(p) BY <1>1
  <2> QED BY <1>2, <2>1, Ranked DEF IInv
<1>4. \A p \in P : pc[p] \notin {"filter", "own", "other", "pool", "return"}
  <2> SUFFICES ASSUME NEW p \in P, pc[p] \in {"filter", "own", "other", "pool", "return"}
               PROVE  FALSE
    OBVIOUS
  <2>1. PICK q \in P : q \in Blockers(p) BY <1>1
  <2> QED BY <1>2, <1>3, <2>1, Ranked DEF IInv
<1>5. \A p \in P : pc[p] # "wait"
  <2> SUFFICES ASSUME NEW p \in P, pc[p] = "wait" PROVE FALSE
    OBVIOUS
  <2>1. p \in Threads
    BY LockAssumption DEF Processes, IInv, Placed, AtTheirPlaces, MonitorPlaces
  <2>2. Users(server[p]) # {}
    BY <2>1, AtAPool DEF IInv, Pools, Awaited, Busy, Dead, AtServer, At
  <2>3. PICK q \in P : pc[q] \in {"pool", "connect", "handshake", "use", "return"}
    BY <2>2 DEF Users, AtServer, At
  <2> QED BY <1>2, <1>3, <1>4, <2>3
<1>6. \A p \in P : pc[p] # "update"
  <2> SUFFICES ASSUME NEW p \in P, pc[p] = "update" PROVE FALSE
    OBVIOUS
  <2>1. PICK q \in P : q \in Blockers(p) BY <1>1
  <2> QED BY <1>2, <1>3, <1>4, <1>5, <2>1, Ranked DEF IInv
<1>7. \A p \in P : pc[p] # "topology"
  <2> SUFFICES ASSUME NEW p \in P, pc[p] = "topology" PROVE FALSE
    OBVIOUS
  <2>1. PICK q \in P : q \in Blockers(p) BY <1>1
  <2> QED BY <1>4, <1>6, <2>1, Ranked DEF IInv
<1> QED
  BY <1>2, <1>3, <1>4, <1>5, <1>6, <1>7
     DEF IInv, Placed, TypeOK, Processes, ThreadPlaces, MonitorPlaces

\* No processes wait for each other only, each for a lock or for a connection of a
\* pool that is not dead, for any number of threads, servers and connections.
THEOREM LocksInOrder == Spec => []NoDeadlock
<1>1. Init => IInv BY InitPlaced, InitPools DEF IInv
<1>2. IInv /\ [Next]_vars => IInv' BY NextInvariant
<1>3. IInv => NoDeadlock BY InOrder
<1> QED BY <1>1, <1>2, <1>3, PTL DEF Spec

=============================================================================
