------------------------------ MODULE Deployments ------------------------------
(***************************************************************************)
(* What the servers of a deployment may reply to a handshake, for TLC: the *)
(* values of Replies in MCTopology and MCServers.                          *)
(***************************************************************************)
EXTENDS Integers, TLC

CONSTANTS None, a, b, c, d

Server(min, max) ==
  [msg |-> None, ismaster |-> FALSE, secondary |-> FALSE, arbiterOnly |-> FALSE,
   isreplicaset |-> FALSE, minWire |-> min, maxWire |-> max, me |-> None, members |-> {},
   setName |-> None, setVersion |-> None, electionId |-> None, primary |-> None]

Standalone == [Server(0, 7) EXCEPT !.ismaster = TRUE]
Mongos     == [Server(0, 7) EXCEPT !.ismaster = TRUE, !.msg = "isdbgrid"]
Ghost      == [Server(0, 7) EXCEPT !.isreplicaset = TRUE]

Member(me, set, members, primary) ==
  [Server(0, 7) EXCEPT !.me = me, !.setName = set, !.members = members, !.primary = primary]

Secondary(me, set, members, primary) ==
  [Member(me, set, members, primary) EXCEPT !.secondary = TRUE]

Primary(me, set, members, version, id) ==
  [Member(me, set, members, me) EXCEPT !.ismaster = TRUE, !.setVersion = version,
                                       !.electionId = id]

(* Elections: a and b were elected in turns, and the set was reconfigured. *)
Failover ==
  a :> {Primary(a, "rs", {a, b}, 1, 1), Primary(a, "rs", {a, b}, 1, 3),
        Secondary(a, "rs", {a, b}, b)}
  @@ b :> {Primary(b, "rs", {a, b}, 1, 2), Primary(b, "rs", {a, b}, 2, None),
           Secondary(b, "rs", {a, b}, a)}

(* Hosts that do not belong together. *)
Mixed ==
  c :> {Standalone, Mongos, Primary(c, "rs", {c}, None, None)}
  @@ d :> {Ghost, Secondary(c, "rs", {c, d}, c), Primary(d, "other", {d}, 1, 1)}

(* A client that starts from a meets the one, one that starts from c and d *)
(* the other.                                                              *)
FailoverOrMixed == Failover @@ Mixed

(* One replica set that is seen through one of its members. *)
ReplicaSetOfThree ==
  a :> {Secondary(a, "rs", {a, b, c}, b)}
  @@ b :> {Primary(b, "rs", {a, b, c}, 1, 1)}
  @@ c :> {[Member(c, "rs", {a, b, c}, b) EXCEPT !.arbiterOnly = TRUE]}
=============================================================================
