----------------------- MODULE MonitorLifetime_proofs -----------------------
(***************************************************************************)
(* Theorems about MonitorLifetime for any number of servers, reachable or  *)
(* not.                                                                    *)
(***************************************************************************)
EXTENDS MonitorLifetime, TLAPS

\* The servers that an update creates start with a monitor each.
LEMMA StartedType ==
  ASSUME LifetimeTypeOK, NEW added \in SUBSET Servers
  PROVE  [n \in Servers |-> IF n \in added THEN "start" ELSE monitor[n]] \in [Servers -> Places]
  BY DEF LifetimeTypeOK, Places

LEMMA TypeStep ==
  ASSUME LifetimeTypeOK, [LifetimeNext]_lifetime
  PROVE  LifetimeTypeOK'
<1>1. ASSUME NEW m \in Servers, NEW place \in Places, Goto(m, place),
             UNCHANGED <<user, lent, mapped>>
      PROVE  LifetimeTypeOK'
  BY <1>1 DEF Goto, LifetimeTypeOK
<1>2. ASSUME NEW m \in Servers,
             \/ Connect(m) \/ ConnectPanics(m) \/ ConnectOk(m) \/ ConnectFails(m)
             \/ NotShared(m) \/ StillShared(m) \/ Upgrade(m)
             \/ BeatFails(m) \/ BeatPanics(m) \/ WakeUp(m)
      PROVE  LifetimeTypeOK'
  <2>1. \E place \in Places : Goto(m, place) /\ UNCHANGED <<user, lent, mapped>>
    BY <1>2
    DEF Connect, ConnectPanics, ConnectOk, ConnectFails, NotShared, StillShared, Upgrade,
        BeatFails, BeatPanics, WakeUp, Fails, Places
  <2> QED
    BY <1>1, <2>1
<1>3. ASSUME NEW m \in Servers, Beat(m)
      PROVE  LifetimeTypeOK'
  BY <1>3 DEF Beat, Rest, LifetimeTypeOK, Places
<1>4. ASSUME NEW m \in Servers, BeatUpdates(m)
      PROVE  LifetimeTypeOK'
  <2>1. PICK kept \in SUBSET mapped, added \in SUBSET {n \in Servers : monitor[n] = "new"},
             next \in {"sleep", "top", "start"} :
          /\ mapped' = kept \cup added
          /\ monitor' = [[n \in Servers |-> IF n \in added THEN "start" ELSE monitor[n]]
                      EXCEPT ![m] = next]
          /\ UNCHANGED <<user, lent>>
    BY <1>4 DEF BeatUpdates, Rest
  <2>2. added \in SUBSET Servers /\ next \in Places
    BY DEF Places
  <2>3. monitor' \in [Servers -> Places]
    BY <2>1, <2>2, StartedType
  <2> QED
    BY <2>1, <2>2, <2>3 DEF LifetimeTypeOK
<1>5. ASSUME NEW m \in Servers, AcquireConnection(m) \/ DropConnection(m)
      PROVE  LifetimeTypeOK'
  BY <1>5 DEF AcquireConnection, DropConnection, LifetimeTypeOK
<1>6. ASSUME DropClient
      PROVE  LifetimeTypeOK'
  BY <1>6 DEF DropClient, LifetimeTypeOK
<1>7. CASE UNCHANGED lifetime
  BY <1>7 DEF lifetime, LifetimeTypeOK
<1> QED
  BY <1>2, <1>3, <1>4, <1>5, <1>6, <1>7 DEF LifetimeNext, Monitor

(***************************************************************************)
(* The variables always have values of their types.                        *)
(***************************************************************************)
THEOREM TypeCorrect == LifetimeSpec => []LifetimeTypeOK
<1>1. LifetimeInit => LifetimeTypeOK
  BY ServerAssumption DEF LifetimeInit, LifetimeTypeOK, Places
<1>2. LifetimeTypeOK /\ [LifetimeNext]_lifetime => LifetimeTypeOK'
  BY TypeStep
<1> QED
  BY <1>1, <1>2, PTL DEF LifetimeSpec

-----------------------------------------------------------------------------
(***************************************************************************)
(* A new handle is made from a handle: upgrading the weak reference of a   *)
(* dropped client fails, so no step brings the client back.                *)
(***************************************************************************)
LEMMA StaysDropped ==
  ASSUME LifetimeTypeOK, ~ClientAlive, [LifetimeNext]_lifetime
  PROVE  ~ClientAlive'
<1> USE DEF ClientAlive
<1>1. ASSUME NEW m \in Servers, NEW place \in Places \ HoldsClient, Goto(m, place),
             UNCHANGED <<user, lent>>
      PROVE  ~ClientAlive'
  BY <1>1 DEF Goto, LifetimeTypeOK
<1>2. ASSUME NEW m \in Servers, Monitor(m)
      PROVE  ~ClientAlive'
  <2>1. \E place \in Places \ HoldsClient : Goto(m, place) /\ UNCHANGED <<user, lent>>
    BY <1>2
    DEF Monitor, Connect, ConnectPanics, ConnectOk, ConnectFails, NotShared, StillShared, Upgrade,
        Beat, BeatFails, BeatUpdates, BeatPanics, WakeUp, Fails, Places, HoldsClient
  <2> QED
    BY <1>1, <2>1
<1>3. ASSUME NEW m \in Servers, AcquireConnection(m) \/ DropConnection(m)
      PROVE  ~ClientAlive'
  BY <1>3 DEF AcquireConnection, DropConnection
<1>4. ASSUME DropClient \/ UNCHANGED lifetime
      PROVE  ~ClientAlive'
  BY <1>4 DEF DropClient, lifetime
<1> QED
  BY <1>2, <1>3, <1>4 DEF LifetimeNext

\* The monitors of mapped servers are neither gone nor yet to come.
LEMMA MonitoredStep ==
  ASSUME LifetimeTypeOK, MappedMonitored, [LifetimeNext]_lifetime
  PROVE  MappedMonitored'
<1> SUFFICES ASSUME ClientAlive', NEW n \in mapped'
             PROVE  monitor'[n] \notin {"new", "ended"} /\ (monitor'[n] = "panicked" => ClockSteps)
  BY DEF MappedMonitored
<1>1. ClientAlive
  BY StaysDropped
<1>2. \A k \in mapped : monitor[k] \notin {"new", "ended"} /\ (monitor[k] = "panicked" => ClockSteps)
  BY <1>1 DEF MappedMonitored
<1>3. ASSUME UNCHANGED <<mapped, monitor>>
      PROVE  monitor'[n] \notin {"new", "ended"} /\ (monitor'[n] = "panicked" => ClockSteps)
  BY <1>2, <1>3
<1>4. ASSUME NEW m \in Servers, NEW place \in Places, Goto(m, place), UNCHANGED mapped,
             \/ place \notin {"new", "ended", "panicked"}
             \/ place = "panicked" /\ ClockSteps
             \/ m \notin mapped
      PROVE  monitor'[n] \notin {"new", "ended"} /\ (monitor'[n] = "panicked" => ClockSteps)
  BY <1>2, <1>4 DEF Goto, LifetimeTypeOK
<1>5. ASSUME NEW m \in Servers,
             \/ Connect(m) \/ ConnectPanics(m) \/ ConnectOk(m) \/ ConnectFails(m)
             \/ StillShared(m) \/ Upgrade(m)
             \/ Beat(m) \/ BeatFails(m) \/ BeatPanics(m) \/ WakeUp(m)
      PROVE  monitor'[n] \notin {"new", "ended"} /\ (monitor'[n] = "panicked" => ClockSteps)
  <2>1. \E place \in Places :
          /\ Goto(m, place) /\ UNCHANGED mapped
          /\ \/ place \notin {"new", "ended", "panicked"}
             \/ place = "panicked" /\ ClockSteps
    BY <1>1, <1>5
    DEF Connect, ConnectPanics, ConnectOk, ConnectFails, StillShared, Upgrade, Beat, Rest, Goto,
        BeatFails, BeatPanics, WakeUp, Fails, Places
  <2> QED
    BY <1>4, <2>1
<1>6. ASSUME NEW m \in Servers, NotShared(m)
      PROVE  monitor'[n] \notin {"new", "ended"} /\ (monitor'[n] = "panicked" => ClockSteps)
  <2>1. m \notin mapped
    BY <1>1, <1>6 DEF NotShared, Shared
  <2> QED
    BY <1>4, <1>6, <2>1 DEF NotShared, Places
<1>7. ASSUME NEW m \in Servers, BeatUpdates(m)
      PROVE  monitor'[n] \notin {"new", "ended"} /\ (monitor'[n] = "panicked" => ClockSteps)
  <2>1. PICK kept \in SUBSET mapped, added \in SUBSET {k \in Servers : monitor[k] = "new"},
             next \in {"sleep", "top", "start"} :
          /\ mapped' = kept \cup added
          /\ monitor' = [[k \in Servers |-> IF k \in added THEN "start" ELSE monitor[k]]
                      EXCEPT ![m] = next]
    BY <1>7 DEF BeatUpdates, Rest
  <2>2. n \in Servers
    BY <2>1 DEF LifetimeTypeOK
  <2>3. monitor'[n] = IF n = m THEN next ELSE IF n \in added THEN "start" ELSE monitor[n]
    BY <2>1, <2>2
  <2> QED
    BY <1>2, <2>1, <2>3
<1>8. ASSUME NEW m \in Servers, AcquireConnection(m) \/ DropConnection(m)
      PROVE  UNCHANGED <<mapped, monitor>>
  BY <1>8 DEF AcquireConnection, DropConnection
<1>9. ASSUME DropClient \/ UNCHANGED lifetime
      PROVE  UNCHANGED <<mapped, monitor>>
  BY <1>9 DEF DropClient, lifetime
<1> QED
  BY <1>3, <1>5, <1>6, <1>7, <1>8, <1>9 DEF LifetimeNext, Monitor

(***************************************************************************)
(* As long as there is a client, no server of its map loses its monitor to *)
(* anything but a clock that was set back, whatever errors the monitors    *)
(* meet and however their reads of the reference counts interleave with    *)
(* updates of the map.                                                     *)
(***************************************************************************)
THEOREM MappedAreMonitored == LifetimeSpec => []MappedMonitored
<1>1. LifetimeInit => MappedMonitored
  BY ServerAssumption DEF LifetimeInit, MappedMonitored
<1>2. LifetimeTypeOK /\ MappedMonitored /\ [LifetimeNext]_lifetime => MappedMonitored'
  BY MonitoredStep
<1> QED
  BY <1>1, <1>2, TypeCorrect, PTL DEF LifetimeSpec
=============================================================================
