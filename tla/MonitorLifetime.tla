--------------------------- MODULE MonitorLifetime ---------------------------
(***************************************************************************)
(* Who keeps whom alive: the monitor threads of src/src/topology.rs and    *)
(* the reference counts that end them.                                     *)
(*                                                                         *)
(* ClientInner owns the map of servers.  A Client is held by the           *)
(* application, by every Connection and, from time to time, by monitors,   *)
(* which keep a weak reference and upgrade it.  A Server is held by the    *)
(* map, by Connections and by its own monitor.  What servers an update     *)
(* adds and removes is the subject of Topology; here it is any choice.     *)
(***************************************************************************)
EXTENDS FiniteSets

CONSTANTS
  Servers,      \* names for Server values, each created once at most
  Initial,      \* those that Client::new creates
  Unreachable,  \* those that never accept a connection
  ClockSteps    \* the system clock may be set back

ASSUME ServerAssumption == Initial \subseteq Servers /\ Unreachable \subseteq Servers

ASSUME ClockAssumption == ClockSteps \in BOOLEAN

VARIABLES
  user,    \* the application holds a Client
  lent,    \* servers of which the application holds a Connection
  mapped,  \* the servers in topology.servers, as long as there is a ClientInner
  monitor       \* where the monitor of each server is

lifetime == <<user, lent, mapped, monitor>>

(***************************************************************************)
(* "new": there is no such Server yet.  "start": run is about to call      *)
(* run_inner.  "connect": in Stream::connect.  "top": at the loop's        *)
(* condition.  "upgrade": past it.  "beat": a heartbeat.  "sleep": in      *)
(* wait_timeout.  "ended", "panicked": the thread is gone.                 *)
(***************************************************************************)
Places == {"new", "start", "connect", "top", "upgrade", "beat", "sleep", "ended", "panicked"}

Gone == {"ended", "panicked"}

\* The temporary in the call of Stream::connect, and the client of an iteration.
HoldsClient == {"connect", "beat", "sleep"}

\* The strong count of the ClientInner is not zero; once it is, it stays so.
ClientAlive == user \/ lent # {} \/ \E m \in Servers : monitor[m] \in HoldsClient

\* Mutant: the monitor's own handle is counted.
SharedWithItself(m) == TRUE

\* Arc::strong_count(&self.0) > 1
Shared(m) == m \in lent \/ (ClientAlive /\ m \in mapped)

LifetimeInit ==
  /\ user = TRUE
  /\ lent = {}
  /\ mapped = Initial
  /\ monitor = [m \in Servers |-> IF m \in Initial THEN "start" ELSE "new"]

Goto(m, place) == monitor' = [monitor EXCEPT ![m] = place]

-----------------------------------------------------------------------------
(* The application *)

AcquireConnection(m) ==
  /\ user
  /\ m \in mapped
  /\ lent' = lent \cup {m}
  /\ UNCHANGED <<user, mapped, monitor>>

DropConnection(m) ==
  /\ m \in lent
  /\ lent' = lent \ {m}
  /\ UNCHANGED <<user, mapped, monitor>>

DropClient ==
  /\ user
  /\ user' = FALSE
  /\ UNCHANGED <<lent, mapped, monitor>>

-----------------------------------------------------------------------------
(* Server::run and run_inner *)

Connect(m) ==
  /\ monitor[m] = "start"
  /\ ClientAlive
  /\ Goto(m, "connect")
  /\ UNCHANGED <<user, lent, mapped>>

\* Mutant: the missing client is reported as an error, and run tries again.
ConnectRetries(m) ==
  /\ monitor[m] = "start"
  /\ ~ClientAlive
  /\ Goto(m, "start")
  /\ UNCHANGED <<user, lent, mapped>>

\* upgrade().unwrap()
ConnectPanics(m) ==
  /\ monitor[m] = "start"
  /\ ~ClientAlive
  /\ Goto(m, "panicked")
  /\ UNCHANGED <<user, lent, mapped>>

ConnectOk(m) ==
  /\ monitor[m] = "connect"
  /\ m \notin Unreachable
  /\ Goto(m, "top")
  /\ UNCHANGED <<user, lent, mapped>>

\* Mutant: an error ends the monitor.
FailsForGood(m) == Goto(m, "ended") /\ UNCHANGED <<user, lent, mapped>>

\* run_inner returns an error: run waits and calls it again.
Fails(m) == Goto(m, "start") /\ UNCHANGED <<user, lent, mapped>>

ConnectFails(m) == monitor[m] = "connect" /\ Fails(m)

\* The last handle but its own: run_inner returns Ok, and so does run.
NotShared(m) ==
  /\ monitor[m] = "top"
  /\ ~Shared(m)
  /\ Goto(m, "ended")
  /\ UNCHANGED <<user, lent, mapped>>

StillShared(m) ==
  /\ monitor[m] = "top"
  /\ Shared(m)
  /\ Goto(m, "upgrade")
  /\ UNCHANGED <<user, lent, mapped>>

Upgrade(m) ==
  /\ monitor[m] = "upgrade"
  /\ Goto(m, IF ClientAlive THEN "beat" ELSE "ended")
  /\ UNCHANGED <<user, lent, mapped>>

\* The heartbeat is over; when it took long the next one starts at once.
Rest(m, places) ==
  \E next \in {"sleep", "top"} : monitor' = [places EXCEPT ![m] = next]

\* Nothing new, or nothing that changes the map.
Beat(m) ==
  /\ monitor[m] = "beat"
  /\ Rest(m, monitor)
  /\ UNCHANGED <<user, lent, mapped>>

BeatFails(m) == monitor[m] = "beat" /\ Fails(m)

\* TopologyDescription::update: the servers in added are created, each with a
\* monitor of its own; an error may follow.
BeatUpdates(m) ==
  /\ monitor[m] = "beat"
  /\ \E kept \in SUBSET mapped, added \in SUBSET {n \in Servers : monitor[n] = "new"} :
       LET started == [n \in Servers |-> IF n \in added THEN "start" ELSE monitor[n]]
       IN  /\ mapped' = kept \cup added
           /\ Rest(m, started) \/ monitor' = [started EXCEPT ![m] = "start"]
  /\ UNCHANGED <<user, lent>>

\* ts.elapsed().unwrap() panics when the clock is behind ts.
BeatPanics(m) ==
  /\ monitor[m] = "beat"
  /\ ClockSteps
  /\ Goto(m, "panicked")
  /\ UNCHANGED <<user, lent, mapped>>

\* By a timeout, by Server::update or for no reason.
WakeUp(m) ==
  /\ monitor[m] = "sleep"
  /\ Goto(m, "top")
  /\ UNCHANGED <<user, lent, mapped>>

-----------------------------------------------------------------------------
Monitor(m) ==
  \/ Connect(m) \/ ConnectPanics(m) \/ ConnectOk(m) \/ ConnectFails(m)
  \/ NotShared(m) \/ StillShared(m) \/ Upgrade(m)
  \/ Beat(m) \/ BeatFails(m) \/ BeatUpdates(m) \/ BeatPanics(m)
  \/ WakeUp(m)

LifetimeNext ==
  \/ DropClient
  \/ \E m \in Servers : AcquireConnection(m) \/ DropConnection(m) \/ Monitor(m)

LifetimeSpec == LifetimeInit /\ [][LifetimeNext]_lifetime

(***************************************************************************)
(* Monitors run, network calls return, waits time out, and a reachable     *)
(* server does not refuse every connection.  Nothing is assumed of the     *)
(* application.                                                            *)
(***************************************************************************)
LifetimeFairness ==
  \A m \in Servers :
    /\ WF_lifetime(Monitor(m))
    /\ SF_lifetime(ConnectOk(m))

LifetimeFairSpec == LifetimeSpec /\ LifetimeFairness

-----------------------------------------------------------------------------
(* Properties *)

LifetimeTypeOK ==
  /\ user \in BOOLEAN
  /\ lent \subseteq Servers
  /\ mapped \subseteq Servers
  /\ monitor \in [Servers -> Places]

\* While the client lives, every server in its map is monitored, unless the
\* clock was set back: monitors survive errors, and none takes a server for
\* removed, or the client for dropped, that is not.
MappedMonitored ==
  ClientAlive => \A m \in mapped :
    /\ monitor[m] \notin {"new", "ended"}
    /\ monitor[m] = "panicked" => ClockSteps

\* The monitor of a server that was removed from the map ends, if the server
\* can be reached: run_inner connects before it looks at the count.
RemovedEnds ==
  \A m \in Servers \ Unreachable :
    (m \notin mapped \cup lent /\ monitor[m] # "new") ~> monitor[m] \in Gone

\* When the last Client is gone every monitor ends, unreachable servers included.
MonitorsStop == ~ClientAlive ~> \A m \in Servers : monitor[m] \in Gone \cup {"new"}

\* topology.rs:706: monitors end once the application has dropped its client.
ClientReleased == (~user /\ lent = {}) ~> ~ClientAlive
=============================================================================
