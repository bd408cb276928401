------------------------------- MODULE MCClient -------------------------------
(***************************************************************************)
(* What the threads of a client do, in one run: Commands, MonitorLifetime  *)
(* and Selection.  A behaviour is about one of them, its focus, and the    *)
(* others stand still.                                                     *)
(***************************************************************************)
EXTENDS MCCommands, MonitorLifetime

CONSTANTS primary, secondary, NoServer  \* of Selection

VARIABLES
  focus,  \* "commands", "one connection" at most, "monitors" or "selection"
  request, role, works, type, map, late, place, stage, left, pass, server, outcome

selection == <<request, role, works, type, map, late, place, stage, left, pass, server, outcome>>
allVars == <<focus, vars, lifetime, selection>>

-----------------------------------------------------------------------------
One == INSTANCE Commands WITH MaxPoolSize <- 1

Members == {primary, secondary}

\* A preference applies to replica sets, tag sets to some of the preferences.
Requests ==
  {r \in [mode : {"None", "Primary", "PrimaryPreferred", "Secondary", "SecondaryPreferred",
                  "Nearest"},
          tagged : {{}, {secondary}}, type : {"Unknown", "Single", "Sharded", "ReplicaSet"}] :
     /\ r.type # "ReplicaSet" => r.mode = "None"
     /\ r.mode \in {"None", "Nearest"} <=> r.tagged = {}}

Sel == INSTANCE Selection WITH Servers <- Members, pc <- place

ASSUME ClientAssumption == Sel!SelectionAssumption

-----------------------------------------------------------------------------
OneRequest == CHOOSE r \in Requests : TRUE

MCInit ==
  /\ focus \in {"commands", "one connection", "monitors", "selection"}
  /\ focus # "selection" => request = OneRequest /\ role = [m \in Members |-> "RSPrimary"]
  /\ Init /\ LifetimeInit /\ Sel!Init

\* Two of the calls where the pool has room for both threads, and all of them
\* where one has to wait for the other.
MCNext ==
  /\ UNCHANGED focus
  /\ \/ /\ focus = "commands"
        /\ Next
        /\ \A t \in Threads : call'[t] # c2
        /\ UNCHANGED <<lifetime, selection>>
     \/ focus = "one connection" /\ One!Next /\ UNCHANGED <<lifetime, selection>>
     \/ focus = "monitors" /\ LifetimeNext /\ UNCHANGED <<vars, selection>>
     \/ focus = "selection" /\ Sel!Next /\ UNCHANGED <<vars, lifetime>>

MCFairness ==
  /\ \A t \in Threads :
       /\ WF_vars(focus = "commands" /\ Acquire(t))
       /\ WF_vars(focus = "one connection" /\ One!Acquire(t))
       /\ WF_vars(Step(t))
  /\ \A s \in Streams : WF_vars(Serve(s))
  /\ \A m \in Servers :
       /\ WF_lifetime(focus = "monitors" /\ Monitor(m))
       /\ m \in Unreachable \/ SF_lifetime(focus = "monitors" /\ ConnectOk(m))
  /\ WF_selection(focus = "selection" /\ Sel!Call)
  /\ WF_selection(focus = "selection" /\ Sel!Timeout)
  /\ \A m \in Members : WF_selection(focus = "selection" /\ Sel!Monitor(m))

MCSpec == MCInit /\ [][MCNext]_allVars /\ MCFairness

-----------------------------------------------------------------------------
\* Selection's property, where it is in focus.
SelectionEnds == focus = "selection" => Sel!SelectionEnds
=============================================================================
