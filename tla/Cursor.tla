-------------------------------- MODULE Cursor --------------------------------
(***************************************************************************)
(* One cursor: the command that opens it (DataBase::run_cursor_command,    *)
(* src/src/db.rs) and the iteration over it (src/src/cursor.rs).  A        *)
(* command is one step here, with what the network may make of it; module  *)
(* Commands has its details.  A document of the result is its position.    *)
(***************************************************************************)
EXTENDS Naturals, Sequences, FiniteSets

CONSTANTS
  Servers,
  Callers,     \* a caller: the servers the opening command may go to, those
               \* cursor.read_preference allows, and whether opening is retried
  Last,        \* number of documents of the result
  BatchSize,   \* documents in a batch at most
  FaultBound,  \* bound on commands that fail
  ErrorBound,  \* bound on getMores that are refused
  NoServer

CursorAssumption ==
  /\ \A c \in Callers : {c.openers, c.eligible} \subseteq SUBSET Servers \ {{}} /\ c.retry \in BOOLEAN
  /\ {Last, BatchSize, FaultBound, ErrorBound} \subseteq Nat
  /\ NoServer \notin Servers

VARIABLES
  caller,
  phase,      \* "opening", then "reading", until run_cursor_command or next ends
  cursor_id,  \* 0 once the server has no more
  buffer,
  delivered,  \* the documents next has returned
  errors,     \* how many errors next has returned
  faults,     \* commands that failed on the network, expired cursors
  cursors     \* cursors[id]: the server that holds the cursor, and what it sent

vars == <<caller, phase, cursor_id, buffer, delivered, errors, faults, cursors>>

Ids == 1..2

Unknown == [at |-> NoServer, sent |-> 0]

Init ==
  /\ caller \in Callers
  /\ phase = "opening"
  /\ cursor_id = 0
  /\ buffer = <<>>
  /\ delivered = <<>>
  /\ errors = 0
  /\ faults = 0
  /\ cursors = [id \in Ids |-> Unknown]

-----------------------------------------------------------------------------
(* The servers *)

\* Server s answers with the next n documents of cursor id; once there are no
\* more it may say so at once or with the next, empty batch.
Batch(s, id, n, done) ==
  /\ cursors[id].sent + n <= Last
  /\ done => cursors[id].sent + n = Last
  /\ n = 0 /\ cursors[id].sent = Last => done
  /\ cursors' = [cursors EXCEPT ![id] =
                   [at |-> IF done THEN NoServer ELSE s, sent |-> @.sent + n]]

Positions(id, n) == [i \in 1..n |-> cursors[id].sent + i]

\* A server closes a cursor: it was idle for too long, or the server restarts.
Expire ==
  /\ faults < FaultBound
  /\ faults' = faults + 1
  /\ \E id \in Ids : /\ cursors[id].at # NoServer
                     /\ cursors' = [cursors EXCEPT ![id].at = NoServer]
  /\ UNCHANGED <<caller, phase, cursor_id, buffer, delivered, errors>>

-----------------------------------------------------------------------------
(* DataBase::run_cursor_command *)

\* The id of the cursor the next attempt opens.
Attempt == IF faults = 0 THEN 1 ELSE 2

Opened ==
  /\ phase = "opening"
  /\ \E s \in caller.openers, n \in 0..BatchSize, done \in BOOLEAN :
       /\ Batch(s, Attempt, n, done)
       /\ cursor_id' = IF done THEN 0 ELSE Attempt
       /\ buffer' = Positions(Attempt, n)
  /\ phase' = "reading"
  /\ UNCHANGED <<caller, delivered, errors, faults>>

\* The request is lost or its reply, with a cursor that stays open.
OpeningFails ==
  /\ phase = "opening"
  /\ faults < FaultBound
  /\ faults' = faults + 1
  /\ \/ UNCHANGED cursors
     \/ \E s \in caller.openers, n \in 0..BatchSize, done \in BOOLEAN : Batch(s, Attempt, n, done)
  /\ phase' = IF caller.retry /\ faults = 0 THEN "opening" ELSE "ended"
  /\ errors' = IF phase' = "ended" THEN errors + 1 ELSE errors
  /\ UNCHANGED <<caller, cursor_id, buffer, delivered>>

-----------------------------------------------------------------------------
(* Cursor::next *)

Pop ==
  /\ phase = "reading"
  /\ buffer # <<>>
  /\ delivered' = Append(delivered, Head(buffer))
  /\ buffer' = Tail(buffer)
  /\ UNCHANGED <<caller, phase, cursor_id, errors, faults, cursors>>

End ==
  /\ phase = "reading"
  /\ buffer = <<>>
  /\ cursor_id = 0
  /\ phase' = "ended"
  /\ UNCHANGED <<caller, cursor_id, buffer, delivered, errors, faults, cursors>>

Asking == phase = "reading" /\ buffer = <<>> /\ cursor_id # 0

\* The selection takes any server the read preference allows.
Targets == caller.eligible

\* Mutant: the id the reply brings is not taken over.
NextIdKept(done) == cursor_id

NextId(done) == IF done THEN 0 ELSE cursor_id

\* After an empty batch next calls itself.
GetMore ==
  /\ Asking
  /\ \E s \in Targets, n \in 0..BatchSize, done \in BOOLEAN :
       /\ s = cursors[cursor_id].at
       /\ Batch(s, cursor_id, n, done)
       /\ buffer' = Positions(cursor_id, n)
       /\ cursor_id' = NextId(done)
  /\ UNCHANGED <<caller, phase, delivered, errors, faults>>

\* A server that does not hold the cursor answers with an error.
GetMoreRefused ==
  /\ Asking
  /\ \E s \in Targets : s # cursors[cursor_id].at
  /\ errors < ErrorBound
  /\ errors' = errors + 1
  /\ UNCHANGED <<caller, phase, cursor_id, buffer, delivered, faults, cursors>>

\* Mutant: retryable is true, as for the command that opens the cursor.
GetMoreFailedRetried == UNCHANGED errors

\* What is done about a getMore that fails: it is never retried.
GetMoreFailed == errors' = errors + 1

\* The request is lost, or the reply, and the server has moved on.
GetMoreFails ==
  /\ Asking
  /\ faults < FaultBound
  /\ faults' = faults + 1
  /\ \/ UNCHANGED cursors
     \/ \E s \in Targets, n \in 0..BatchSize, done \in BOOLEAN :
          s = cursors[cursor_id].at /\ Batch(s, cursor_id, n, done)
  /\ GetMoreFailed
  /\ UNCHANGED <<caller, phase, cursor_id, buffer, delivered>>

Next ==
  \/ Opened \/ OpeningFails
  \/ Pop \/ End \/ GetMore \/ GetMoreRefused \/ GetMoreFails
  \/ Expire

Spec == Init /\ [][Next]_vars

\* The caller goes on, and the server that holds the cursor answers in the end
\* if no other may be asked.
FairSpec == Spec /\ WF_vars(Pop \/ End \/ GetMore)

-----------------------------------------------------------------------------
(* Properties *)

\* The places where documents are missing.
Gaps ==
  LET read == <<0>> \o delivered \o buffer
      whole == IF phase = "ended" THEN Append(read, Last + 1) ELSE read
  IN  {i \in 2..Len(whole) : whole[i] # whole[i - 1] + 1}

\* Documents come in order, none twice, and each gap has an error of its own:
\* an iteration that shows no error and ends has shown everything, although the
\* server moves on even when its reply is lost and asking again skips a batch.
NoSilentGap ==
  /\ \A i, j \in DOMAIN delivered : i < j => delivered[i] < delivered[j]
  /\ Cardinality(Gaps) <= errors

\* No server that may be asked has the cursor: it is another one's, or expired.
OutOfReach ==
  /\ cursor_id # 0
  /\ cursors[cursor_id].at \notin caller.eligible
  /\ cursors[cursor_id].at = NoServer => faults > 0

\* An iteration ends, however many commands fail, if its cursor is within reach
\* and no other server may be asked.
Finishes ==
  (phase = "reading" /\ Cardinality(caller.eligible) = 1) ~> (phase = "ended" \/ OutOfReach)
=============================================================================
