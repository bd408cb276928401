------------------------------- MODULE LockOrder -------------------------------
(***************************************************************************)
(* The locks of the driver and who waits for whom: the topology's, each    *)
(* server's pool mutex with its condition variable, and each description's *)
(* (src/src/topology.rs, src/src/lib.rs).  Who holds a lock follows from   *)
(* where the threads are.  A thread of the application runs one command at *)
(* a time, thus has one connection at most, events have no listeners that  *)
(* use the client, and min_pool_size is 0: filling takes the same locks in *)
(* the same order.  The locks on topology and descriptions may let a       *)
(* writer that waits go before a reader, as those of the standard library. *)
(* Nobody waits for a poisoned lock: whoever takes it has an error, which  *)
(* for those of topology and descriptions is a failure like others.        *)
(***************************************************************************)
EXTENDS Naturals, FiniteSets

CONSTANTS
  Threads,      \* of the application
  Servers,      \* also the names of their monitors
  MaxPoolSize,
  IdleTimeout,  \* pool_options.max_idle_time_ms is set
  ClockSteps,   \* the system clock may be set back
  NoServer

ASSUME LockAssumption ==
  /\ IsFiniteSet(Threads)
  /\ Threads \cap Servers = {} /\ NoServer \notin Threads \cup Servers
  /\ MaxPoolSize \in Nat \ {0}
  /\ IdleTimeout \in BOOLEAN /\ ClockSteps \in BOOLEAN

Processes == Threads \cup Servers

VARIABLES
  pc,      \* the lock a process takes next, or what it does with those it has
  server,  \* the server whose lock that is
  stale,   \* threads whose connection is older than the pool's last clearing
  len,     \* pool.len
  idle,    \* number of pool.streams
  lost,    \* number of streams that were closed for being idle, which len counts
  poisoned \* servers whose pool mutex is poisoned

vars == <<pc, server, stale, len, idle, lost, poisoned>>

Init ==
  /\ pc = [p \in Processes |-> IF p \in Threads THEN "ready" ELSE "describe"]
  /\ server = [p \in Processes |-> IF p \in Servers THEN p ELSE NoServer]
  /\ stale = {}
  /\ len = [s \in Servers |-> 0]
  /\ idle = [s \in Servers |-> 0]
  /\ lost = [s \in Servers |-> 0]
  /\ poisoned = {}

-----------------------------------------------------------------------------
(* The locks *)

At(P, places) == {p \in P : pc[p] \in places}

AtServer(P, s, places) == {p \in At(P, places) : server[p] = s}

TopologyReaders == At(Threads, {"filter", "pool", "wait", "connect", "handshake"})

TopologyWriters == At(Servers, {"own", "other"})

PoolHolders(s) == AtServer(Threads, s, {"connect", "handshake"})

DescriptionWriters(s) == AtServer(Threads, s, {"handshake"}) \cup At({s}, {"check"})

DescriptionReaders(s) == At({s}, {"other"})

\* Those that wait to write it.
DescriptionWaiters(s) == AtServer(Threads, s, {"connect"}) \cup At({s}, {"describe"})

\* The processes that have a lock p takes.  Update reads its own description
\* again among those of all servers.
Holders(p) ==
  LET s == server[p]
  IN  CASE pc[p] = "topology" -> TopologyWriters
        [] pc[p] \in {"filter", "own"} -> DescriptionWriters(s)
        [] pc[p] \in {"pool", "return"} -> PoolHolders(s)
        [] pc[p] \in {"connect", "describe", "other"} ->
             DescriptionWriters(s) \cup (DescriptionReaders(s) \ {p})
        [] pc[p] = "update" -> TopologyReaders \cup TopologyWriters
        [] pc[p] \in {"ready", "use", "wait", "handshake", "check"} -> {}

\* The writers that may go before p.
Writers(p) ==
  CASE pc[p] = "topology" -> At(Servers, {"update"})
    [] pc[p] \in {"filter", "own", "other"} -> DescriptionWaiters(server[p])
    [] OTHER -> {}

Blockers(p) == Holders(p) \cup Writers(p)

Free(p, place) == pc[p] = place /\ Holders(p) = {}

-----------------------------------------------------------------------------
(* The threads: acquire_stream, choose_server, <Connection as Drop>::drop *)

Goto(p, place) == pc' = [pc EXCEPT ![p] = place]

GotoOf(p, place, s) == Goto(p, place) /\ server' = [server EXCEPT ![p] = s]

pools == <<stale, len, idle, lost, poisoned>>

Begin(t) ==
  /\ pc[t] = "ready"
  /\ Goto(t, "topology")
  /\ UNCHANGED <<server, pools>>

LockTopology(t) ==
  /\ Free(t, "topology")
  /\ \E s \in Servers : GotoOf(t, "filter", s)
  /\ UNCHANGED pools

\* The server suits, or another is looked at, or there is none.
Filter(t) ==
  /\ Free(t, "filter")
  /\ \/ GotoOf(t, "pool", server[t])
     \/ \E s \in Servers \ {server[t]} : GotoOf(t, "filter", s)
     \/ GotoOf(t, "ready", NoServer)
  /\ UNCHANGED pools

\* The first k streams that are popped were idle for too long.
LockPool(t) ==
  /\ Free(t, "pool")
  /\ server[t] \notin poisoned
  /\ LET s == server[t]
     IN  \E k \in 0 .. idle[s] :
           /\ k > 0 => IdleTimeout
           /\ lost' = [lost EXCEPT ![s] = @ + k]
           /\ \/ /\ idle[s] > k
                 /\ idle' = [idle EXCEPT ![s] = @ - k - 1]
                 /\ Goto(t, "use")
              \/ /\ idle[s] = k
                 /\ idle' = [idle EXCEPT ![s] = 0]
                 /\ Goto(t, IF len[s] = MaxPoolSize THEN "wait" ELSE "connect")
  /\ UNCHANGED <<server, stale, len, poisoned>>

\* The iterator of choose_server goes on, with the topology locked, or the call
\* starts again.
NoConnection(t) == (\E s \in Servers : GotoOf(t, "filter", s)) \/ GotoOf(t, "ready", NoServer)

LockPoisoned(t) ==
  /\ Free(t, "pool")
  /\ server[t] \in poisoned
  /\ NoConnection(t)
  /\ UNCHANGED pools

\* The thread panics, and its locks are given back; it may start again, caught.
Panic(t) ==
  /\ ClockSteps
  /\ poisoned' = poisoned \cup {server[t]}
  /\ GotoOf(t, "ready", NoServer)
  /\ UNCHANGED <<stale, len, lost>>

\* ts.elapsed().unwrap() of a stream that was popped.
PopPanics(t) ==
  /\ Free(t, "pool")
  /\ IdleTimeout
  /\ idle[server[t]] > 0
  /\ idle' = [idle EXCEPT ![server[t]] = @ - 1]
  /\ Panic(t)

\* That of ServerDescription::update, after the handshake.
HandshakePanics(t) ==
  /\ pc[t] = "handshake"
  /\ Panic(t)
  /\ UNCHANGED idle

\* A condition variable may wake up without a notification.
WakesUp(t) ==
  /\ pc[t] = "wait"
  /\ Goto(t, "pool")
  /\ UNCHANGED <<server, pools>>

\* The pool and the topology stay locked.
LockDescription(t) ==
  /\ Free(t, "connect")
  /\ Goto(t, "handshake")
  /\ UNCHANGED <<server, pools>>

HandshakeEnds(t) ==
  /\ pc[t] = "handshake"
  /\ len' = [len EXCEPT ![server[t]] = @ + 1]
  /\ Goto(t, "use")
  /\ UNCHANGED <<server, stale, idle, lost, poisoned>>

\* Connecting fails, or the handshake, which clears the pool.
HandshakeFails(t) ==
  /\ pc[t] = "handshake"
  /\ NoConnection(t)
  /\ LET s == server[t]
     IN  \/ UNCHANGED pools
        \/ /\ len' = [len EXCEPT ![s] = 0]
           /\ idle' = [idle EXCEPT ![s] = 0]
           /\ lost' = [lost EXCEPT ![s] = 0]
           /\ stale' = stale \cup AtServer(Threads, s, {"use", "return"})
           /\ UNCHANGED poisoned

UseEnds(t) ==
  /\ pc[t] = "use"
  /\ Goto(t, "return")
  /\ UNCHANGED <<server, pools>>

MayReturn(t) == t \notin stale /\ server[t] \notin poisoned

\* Mutant: a returned connection is not announced.
ReturnSilently(t) ==
  /\ Free(t, "return")
  /\ IF MayReturn(t) THEN idle' = [idle EXCEPT ![server[t]] = @ + 1]
     ELSE UNCHANGED idle
  /\ stale' = stale \ {t}
  /\ GotoOf(t, "ready", NoServer)
  /\ UNCHANGED <<len, lost, poisoned>>

\* A connection that is stale, or of a poisoned pool, is closed.
Return(t) ==
  /\ Free(t, "return")
  /\ LET s == server[t]
         waiting == AtServer(Threads, s, {"wait"})
     IN  \/ /\ ~MayReturn(t)
            /\ stale' = stale \ {t}
            /\ Goto(t, "ready")
            /\ UNCHANGED idle
         \/ /\ MayReturn(t)
            /\ idle' = [idle EXCEPT ![s] = @ + 1]
            /\ \/ waiting = {} /\ Goto(t, "ready")
               \/ \E u \in waiting : pc' = [pc EXCEPT ![t] = "ready", ![u] = "pool"]
            /\ UNCHANGED stale
  /\ server' = [server EXCEPT ![t] = NoServer]
  /\ UNCHANGED <<len, lost, poisoned>>

-----------------------------------------------------------------------------
(* The monitors: run_inner, TopologyDescription::update *)

Describe(m) ==
  /\ Free(m, "describe")
  /\ Goto(m, "check")
  /\ UNCHANGED <<server, pools>>

\* The description's lock is given back before the topology's is taken.
CheckEnds(m) ==
  /\ pc[m] = "check"
  /\ Goto(m, "describe") \/ Goto(m, "update")
  /\ UNCHANGED <<server, pools>>

LockToUpdate(m) ==
  /\ Free(m, "update")
  /\ Goto(m, "own")
  /\ UNCHANGED <<server, pools>>

\* Its own description stays locked for reading to the end of update.
ReadOwn(m) ==
  /\ Free(m, "own")
  /\ (\E s \in Servers : GotoOf(m, "other", s)) \/ GotoOf(m, "describe", m)
  /\ UNCHANGED pools

\* One of all servers' is read or written.
Touch(m) ==
  /\ Free(m, "other")
  /\ (\E s \in Servers : GotoOf(m, "other", s)) \/ GotoOf(m, "describe", m)
  /\ UNCHANGED pools

Next ==
  \/ \E t \in Threads :
       \/ Begin(t) \/ LockTopology(t) \/ Filter(t)
       \/ LockPool(t) \/ LockPoisoned(t) \/ PopPanics(t) \/ WakesUp(t)
       \/ LockDescription(t) \/ HandshakeEnds(t) \/ HandshakeFails(t) \/ HandshakePanics(t)
       \/ UseEnds(t) \/ Return(t)
  \/ \E m \in Servers :
       Describe(m) \/ CheckEnds(m) \/ LockToUpdate(m) \/ ReadOwn(m) \/ Touch(m)

Spec == Init /\ [][Next]_vars

-----------------------------------------------------------------------------
(* Properties *)

\* Those that may come to notify one that waits for a connection to s.
Users(s) ==
  AtServer(Threads, s, {"pool", "connect", "handshake"})
  \cup (AtServer(Threads, s, {"use", "return"}) \ stale)

\* Nobody returns a stream to this pool any more, or all that it counts were
\* closed for being idle: a thread may wait for it though nobody uses it (see the
\* run pool_idle_leak).  Without idle timeouts and clock steps no pool is dead.
Dead(s) == s \in poisoned \/ lost[s] = MaxPoolSize

\* No processes wait for each other only: each for a lock that another of them
\* has, or may have before it, or for a connection while all who may come to
\* return one, or to open it, are among them; but for a connection of a dead pool.
\* Although a thread keeps the topology, a pool and a description locked during a
\* handshake, and the topology while it waits for a connection.
NoDeadlock ==
  ~\E P \in SUBSET Processes :
     /\ P # {}
     /\ \A p \in P : IF pc[p] = "wait" THEN ~Dead(server[p]) /\ Users(server[p]) \subseteq P
                     ELSE Blockers(p) \cap P # {}
=============================================================================
