------------------------------- MODULE Selection -------------------------------
(***************************************************************************)
(* One call of Client::acquire_stream (src/src/lib.rs) and the selection   *)
(* of a server in it (src/src/topology.rs), while the monitors go on       *)
(* describing the servers.  A pool is reduced to whether it yields a       *)
(* connection, a topology with a compatibility error to one of type        *)
(* Unknown.  Staleness never excludes a server: the code compares zero.    *)
(* The debug assertions on a preference for the primary are left out, and  *)
(* so are elections: a server keeps its role.                              *)
(***************************************************************************)
EXTENDS Naturals, Sequences, FiniteSets

CONSTANTS
  Servers,
  Requests,   \* what is asked for: the mode of the read preference or "None", the
              \* servers with one of its tag sets (no server, if it has none) and
              \* the type of the topology
  NoServer

Modes == {"None", "Primary", "PrimaryPreferred", "Secondary", "SecondaryPreferred", "Nearest"}

SelectionAssumption ==
  /\ \A r \in Requests : /\ r.mode \in Modes
                         /\ r.tagged \in SUBSET Servers
                         /\ r.type \in {"Unknown", "Single", "Sharded", "ReplicaSet"}
  /\ NoServer \notin Servers

VARIABLES
  request,
  role,     \* role[s]: what server s is
  works,    \* works[s]: it accepts connections: "yes", "no" or, recovered, "again"
  type,     \* type[s]: the type in its description
  map,      \* the servers of the topology
  late,     \* server_selection_timeout has passed
  pc,       \* "start", "look", "try", "return"
  stage,    \* which of the calls of choose_server
  left,     \* servers the iterator has still to come to
  pass,     \* the pass of cycle over them: 0 is what skip left over, 1 the
            \* next, and 2 once that has yielded one, with all that follow
  server,   \* the server that is tried
  outcome

vars == <<request, role, works, type, map, late, pc, stage, left, pass, server, outcome>>

call == <<pc, stage, left, pass, server, outcome>>

world == <<role, works, type, map, late>>

Roles == {"RSPrimary", "RSSecondary"}

Init ==
  /\ request \in Requests
  /\ role \in [Servers -> Roles]
  /\ works = [s \in Servers |-> "yes"]
  /\ type = role
  /\ map = Servers
  /\ late = FALSE
  /\ pc = "start"
  /\ stage = 1
  /\ left = {}
  /\ pass = 0
  /\ server = NoServer
  /\ outcome = "none"

-----------------------------------------------------------------------------
(* The monitors, and time *)

Works(s) == works[s] # "no"

\* A server stops accepting connections, once at most.
Fail(s) ==
  /\ works[s] = "yes"
  /\ works' = [works EXCEPT ![s] = "no"]
  /\ UNCHANGED <<request, role, type, map, late, call>>

\* It accepts them again.
Recover(s) ==
  /\ works[s] = "no"
  /\ works' = [works EXCEPT ![s] = "again"]
  /\ UNCHANGED <<request, role, type, map, late, call>>

Seen(s) == IF Works(s) THEN role[s] ELSE "Unknown"

Monitor(s) ==
  /\ type[s] # Seen(s)
  /\ type' = [type EXCEPT ![s] = Seen(s)]
  /\ UNCHANGED <<request, role, works, map, late, call>>

\* An update of the topology needs its lock, which a selection holds for reading.
Remove(s) ==
  /\ s \in map
  /\ pc \in {"start", "return"}
  /\ map' = map \ {s}
  /\ UNCHANGED <<request, role, works, type, late, call>>

Timeout ==
  /\ ~late
  /\ late' = TRUE
  /\ UNCHANGED <<request, role, works, type, map, call>>

-----------------------------------------------------------------------------
(* acquire_stream *)

Choice(t, tags) == [type |-> t, tags |-> tags]

\* The calls of choose_server, and whether they pass the preference.
Choices ==
  CASE request.mode = "None" -> <<Choice("RSPrimary", FALSE)>>
    [] request.mode = "Primary" -> <<Choice("RSPrimary", TRUE)>>
    [] request.mode = "Secondary" -> <<Choice("RSSecondary", TRUE)>>
    [] request.mode = "PrimaryPreferred" ->
         <<Choice("RSPrimary", FALSE), Choice("RSSecondary", TRUE)>>
    [] request.mode = "SecondaryPreferred" ->
         <<Choice("RSSecondary", TRUE), Choice("RSPrimary", FALSE)>>

\* These go through the servers once.
Once == request.type = "Sharded" \/ request.mode = "Nearest"

\* The present choice is for s if that has type t.
Suits(s, t) == t = Choices[stage].type /\ (Choices[stage].tags => s \in request.tagged)

Matches(s) == Once \/ Suits(s, type[s])

Goto(place) == pc' = place

End(result) == Goto("return") /\ outcome' = result

\* Mutant: the timeout is not looked at.
RefuseNever == Goto("start") /\ stage' = 1 /\ UNCHANGED outcome

\* No connection: the error is returned after the timeout, or all begins again.
Refuse ==
  IF late THEN End("error") /\ UNCHANGED stage
  ELSE Goto("start") /\ stage' = 1 /\ UNCHANGED outcome

\* What skip leaves of the first pass.  Where it finds that the filter yields
\* none it stops at once, as two passes do that nothing comes between.
Enter == left' \in (IF Once THEN {map} ELSE SUBSET map) /\ pass' = 0

Start ==
  /\ pc = "start"
  /\ CASE request.type = "Unknown" ->
            Refuse /\ UNCHANGED <<left, pass, server>>
       [] request.type = "Single" ->
            /\ IF map = {} THEN End("panic") /\ UNCHANGED server
               ELSE /\ server' \in map
                    /\ Goto("try")
                    /\ UNCHANGED outcome
            /\ UNCHANGED <<stage, left, pass>>
       [] request.type \in {"Sharded", "ReplicaSet"} ->
            /\ IF map = {} /\ ~Once THEN End("panic") /\ UNCHANGED <<left, pass>>
               ELSE /\ Goto("look")
                    /\ Enter
                    /\ UNCHANGED outcome
            /\ UNCHANGED <<stage, server>>
  /\ UNCHANGED <<request, world>>

\* The filter looks at the next server when the iterator comes to it.
Look ==
  /\ pc = "look"
  /\ \E s \in left :
       /\ left' = left \ {s}
       /\ IF Matches(s)
            THEN server' = s /\ Goto("try") /\ pass' = IF pass = 1 THEN 2 ELSE pass
            ELSE UNCHANGED <<server, pc, pass>>
  /\ UNCHANGED <<request, world, stage, outcome>>

\* cycle goes round.  It looks once, in pass 1, whether there is anything to yield.
Round ==
  /\ pc = "look"
  /\ left = {}
  /\ ~Once
  /\ pass # 1
  /\ left' = map
  /\ pass' = IF pass = 0 THEN 1 ELSE 2
  /\ UNCHANGED <<request, world, pc, stage, server, outcome>>

\* The servers yield no more: the next choice, if there is one.
NoneMatches ==
  /\ pc = "look"
  /\ left = {}
  /\ Once \/ pass = 1
  /\ IF ~Once /\ stage < Len(Choices)
       THEN stage' = stage + 1 /\ Enter /\ UNCHANGED <<pc, outcome>>
       ELSE Refuse /\ UNCHANGED <<left, pass>>
  /\ UNCHANGED <<request, world, server>>

Connects ==
  /\ pc = "try"
  /\ Works(server)
  /\ End("ok")
  /\ UNCHANGED <<request, world, stage, left, pass, server>>

CannotConnect ==
  /\ pc = "try"
  /\ ~Works(server)
  /\ IF request.type = "Single" THEN Refuse
     ELSE Goto("look") /\ UNCHANGED <<stage, outcome>>
  /\ server' = NoServer
  /\ UNCHANGED <<request, world, left, pass>>

Call == Start \/ Look \/ Round \/ NoneMatches \/ Connects \/ CannotConnect

Next ==
  \/ \E s \in Servers : Fail(s) \/ Recover(s) \/ Monitor(s) \/ Remove(s)
  \/ Timeout
  \/ Call

Spec == Init /\ [][Next]_vars

\* The caller goes on, time passes, and each monitor finds out about its server.
FairSpec ==
  /\ Spec
  /\ WF_vars(Call) /\ WF_vars(Timeout)
  /\ \A s \in Servers : WF_vars(Monitor(s))

-----------------------------------------------------------------------------
(* Properties *)

\* A server that the present choice is for accepts connections.
Fit == \E s \in map : Works(s) /\ Suits(s, role[s])

Endless == pc \in {"look", "try"} /\ pass = 2

\* acquire_stream returns, with an error once the timeout has passed; unless a
\* choice has gone round once among servers that matched and did not connect.
\* Then cycle never ends, though the timeout passes, all servers are found to be
\* Unknown and PrimaryPreferred could have a secondary, until a server that this
\* choice is for accepts connections again.
SelectionEnds == <>(pc = "return") \/ <>[](Endless /\ ~Fit)
=============================================================================
