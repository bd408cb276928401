--------------------------------- MODULE Calls ---------------------------------
(***************************************************************************)
(* The modules about single streams, conversations and calls, and the one  *)
(* about the locks (vars, Init and Next are LockOrder's), side by side: a  *)
(* behaviour is about one of them, its focus, and the others stand still.  *)
(***************************************************************************)
EXTENDS LockOrder, Sequences

CONSTANTS
  StreamCompressors, Dialects, LastRequest, BodySize,                       \* of Wire
  ClientCredentials, Peers,                                                 \* of Authentication
  CursorServers, Callers, Last, BatchSize, FaultBound, ErrorBound,          \* of Cursor
  Operations, Stored, Inserted, RetryReads, RetryWrites,                    \* of Collection
  Uris                                                                      \* of ClientOptions

VARIABLES
  focus,
  dialect, compressor, streamPhase, ids, again, header, exchange, up, requests, stream,
  credential, peer, authPhase, sent, reply, granted, verdict,
  caller, cursorPhase, cursor_id, buffer, delivered, errors, faults, cursors,
  operation, options, attempts, copies, outcome,
  uri, at, rest, parsed, result

wire == <<dialect, compressor, streamPhase, ids, again, header, exchange, up, requests, stream>>
authentication == <<credential, peer, authPhase, sent, reply, granted, verdict>>
cursor == <<caller, cursorPhase, cursor_id, buffer, delivered, errors, faults, cursors>>
collection == <<operation, options, attempts, copies, outcome>>
clientOptions == <<uri, at, rest, parsed, result>>
allVars == <<focus, wire, authentication, cursor, collection, clientOptions, vars>>

-----------------------------------------------------------------------------
(* The instances *)

Wire == INSTANCE Wire WITH
  Compressors <- StreamCompressors, phase <- streamPhase, outcome <- exchange

Auth == INSTANCE Authentication WITH
  Credentials <- ClientCredentials, Servers <- Peers, server <- peer, phase <- authPhase,
  outcome <- verdict

Cursor == INSTANCE Cursor WITH Servers <- CursorServers, phase <- cursorPhase

Coll == INSTANCE Collection

Uri == INSTANCE ClientOptions WITH options <- parsed

ASSUME CallsAssumption ==
  /\ Wire!WireAssumption /\ Auth!AuthenticationAssumption
  /\ Cursor!CursorAssumption /\ Coll!CollectionAssumption
  /\ Uri!ClientOptionsAssumption

-----------------------------------------------------------------------------
CallsInit ==
  /\ focus \in {"wire", "authentication", "cursor", "collection", "options", "locks"}
  /\ Wire!Init /\ Auth!Init /\ Cursor!Init
  /\ Coll!Init /\ Uri!Init /\ Init

CallsNext ==
  \/ /\ focus = "wire" /\ Wire!Next
     /\ UNCHANGED <<focus, authentication, cursor, collection, clientOptions, vars>>
  \/ /\ focus = "authentication" /\ Auth!Next
     /\ UNCHANGED <<focus, wire, cursor, collection, clientOptions, vars>>
  \/ /\ focus = "cursor" /\ Cursor!Next
     /\ UNCHANGED <<focus, wire, authentication, collection, clientOptions, vars>>
  \/ /\ focus = "collection" /\ Coll!Next
     /\ UNCHANGED <<focus, wire, authentication, cursor, clientOptions, vars>>
  \/ /\ focus = "options" /\ Uri!Next
     /\ UNCHANGED <<focus, wire, authentication, cursor, collection, vars>>
  \/ /\ focus = "locks" /\ Next
     /\ UNCHANGED <<focus, wire, authentication, cursor, collection, clientOptions>>

Fairness == WF_cursor(focus = "cursor" /\ (Cursor!Pop \/ Cursor!End \/ Cursor!GetMore))

CallsSpec == CallsInit /\ [][CallsNext]_allVars /\ Fairness

-----------------------------------------------------------------------------
(* The properties of the instances; each holds of an initial state, too. *)

InStep == Wire!InStep
OwnReply == Wire!OwnReply
AgreesWithServer == Auth!AgreesWithServer
ScramGoesOn == Auth!ScramGoesOn
ScramNeverProves == Auth!ScramNeverProves
NoSilentGap == Cursor!NoSilentGap
Finishes == Cursor!Finishes
OkMeansDone == Coll!OkMeansDone
GeneratedOnce == Coll!GeneratedOnce
AcceptedAsMeant == Uri!AcceptedAsMeant
TlsAsTold == Uri!TlsAsTold
=============================================================================
