------------------------------- MODULE Commands -------------------------------
(***************************************************************************)
(* Client::run_command (src/src/lib.rs): a call takes a connection, sends  *)
(* its request, receives a reply, and may do it all once more.  The pool   *)
(* is reduced to what a call sees of it, see ConnectionPool: idle streams  *)
(* are a stack, a returned stream is pushed whether it works or not.       *)
(*                                                                         *)
(* A stream is a socket: what is sent reaches the server in order, and the *)
(* replies the client, until the socket breaks.  Encoding is left out, and *)
(* so are the events.  The topology is of type Single: its one server is   *)
(* asked for a stream directly (for the others see Selection).  Idle       *)
(* streams do not time out, as by default.                                 *)
(***************************************************************************)
EXTENDS Naturals, Sequences, FiniteSets

CONSTANTS
  Threads,      \* threads of the application
  Calls,        \* calls of run_command, each made once at most
  Retryable,    \* calls with retryable = true
  RetryOption,  \* options.retry_reads and options.retry_writes
  RequestId,    \* the request id of a call, once truncated to 32 bits
  Streams,      \* names for sockets
  MaxPoolSize,  \* pool_options.max_pool_size
  ClearBound,   \* bound on how often the pool is cleared
  NoCall,
  NoStream

ASSUME CallAssumption ==
  /\ Retryable \subseteq Calls
  /\ RetryOption \in BOOLEAN
  /\ RequestId \in [Calls -> Nat]
  /\ NoCall \notin Calls
  /\ NoStream \notin Streams

ASSUME PoolAssumption == MaxPoolSize \in Nat \ {0} /\ ClearBound \in Nat

VARIABLES
  pc,         \* where each thread is in run_command
  call,       \* call[t]: the call thread t makes, or NoCall
  stream,     \* stream[t]: the stream of its Connection, or NoStream
  retryable,  \* retryable[t]: the variable of the same name
  idle,       \* idle streams of the pool, the last one on top
  open,       \* the streams the pool counts
  cleared,    \* how often the pool was cleared
  up,         \* streams whose socket works
  requests,   \* requests[s]: what the server has still to read from s
  replies,    \* replies[s]: what the client has still to read from s
  executed,   \* executed[c]: how often the server executed call c
  result      \* result[c]: what call c returned, "none" before it does

thread == <<pc, call, stream, retryable>>
pool == <<idle, open, cleared>>
sockets == <<up, requests, replies>>
vars == <<thread, pool, sockets, executed, result>>

Lent == {stream[t] : t \in Threads} \ {NoStream}

Closed == Streams \ (open \cup Lent)

Init ==
  /\ pc = [t \in Threads |-> "idle"]
  /\ call = [t \in Threads |-> NoCall]
  /\ stream = [t \in Threads |-> NoStream]
  /\ retryable = [t \in Threads |-> FALSE]
  /\ idle = <<>>
  /\ open = {}
  /\ cleared = 0
  /\ up = {}
  /\ requests = [s \in Streams |-> <<>>]
  /\ replies = [s \in Streams |-> <<>>]
  /\ executed = [c \in Calls |-> 0]
  /\ result = [c \in Calls |-> "none"]

-----------------------------------------------------------------------------
(* The server and the network *)

\* The server executes a request and says so; or it refuses to; or it answers
\* with one of the errors that a retry may overcome: the primary steps down, a
\* host behind mongos does not answer in time.  Those leave open what was done.
Serve(s) ==
  /\ s \in up
  /\ requests[s] # <<>>
  /\ LET c == Head(requests[s]).call
     IN  \E answer \in {"ok", "unavailable", "error"} :
           /\ \/ answer # "error" /\ executed' = [executed EXCEPT ![c] = @ + 1]
              \/ answer # "ok" /\ UNCHANGED executed
           /\ replies' = [replies EXCEPT ![s] =
                            Append(@, [to |-> Head(requests[s]).id, answer |-> answer])]
  /\ requests' = [requests EXCEPT ![s] = Tail(@)]
  /\ UNCHANGED <<thread, pool, up, result>>

\* The socket breaks; what was not read may be lost.
Break(s) ==
  /\ s \in up
  /\ up' = up \ {s}
  /\ requests' = [requests EXCEPT ![s] = <<>>]
  /\ replies' \in {replies, [replies EXCEPT ![s] = <<>>]}
  /\ UNCHANGED <<thread, pool, executed, result>>

-----------------------------------------------------------------------------
(* run_command *)

Start(t, c) ==
  /\ pc[t] = "idle"
  /\ result[c] = "none"
  /\ \A u \in Threads : call[u] # c
  /\ pc' = [pc EXCEPT ![t] = "acquire"]
  /\ call' = [call EXCEPT ![t] = c]
  /\ retryable' = [retryable EXCEPT ![t] = c \in Retryable]
  /\ UNCHANGED <<stream, pool, sockets, executed, result>>

Hold(t, s) ==
  /\ pc' = [pc EXCEPT ![t] = "send"]
  /\ stream' = [stream EXCEPT ![t] = s]
  /\ UNCHANGED <<call, retryable, cleared, requests, replies, executed, result>>

\* A stream that is returned wakes a thread that waits; one that comes by may
\* take it first.
AcquireIdle(t) ==
  /\ pc[t] \in {"acquire", "wait"}
  /\ idle # <<>>
  /\ Hold(t, idle[Len(idle)])
  /\ idle' = SubSeq(idle, 1, Len(idle) - 1)
  /\ UNCHANGED <<open, up>>

MayOpen(t) == pc[t] = "acquire" /\ idle = <<>> /\ Cardinality(open) < MaxPoolSize

AcquireNew(t) ==
  /\ MayOpen(t)
  /\ \E s \in Closed :
       /\ Hold(t, s)
       /\ open' = open \cup {s}
       /\ up' = up \cup {s}
  /\ UNCHANGED idle

\* The pool has reached its maximum size.  Condvar::wait has no timeout, and
\* nothing but a stream that is returned ends it.
Wait(t) ==
  /\ pc[t] = "acquire"
  /\ idle = <<>>
  /\ Cardinality(open) = MaxPoolSize
  /\ pc' = [pc EXCEPT ![t] = "wait"]
  /\ UNCHANGED <<call, stream, retryable, pool, sockets, executed, result>>

\* The call ends with r.
Return(t, r) ==
  /\ pc' = [pc EXCEPT ![t] = "idle"]
  /\ call' = [call EXCEPT ![t] = NoCall]
  /\ result' = [result EXCEPT ![call[t]] = r]
  /\ UNCHANGED retryable

\* The topology has an error, which is found before the pool is looked at, or
\* the server accepts no connection, until the timeout; a failed handshake also
\* clears the pool.  A thread that waits does not give up.
AcquireFails(t) ==
  /\ pc[t] = "acquire"
  /\ Return(t, "error")
  /\ \/ UNCHANGED pool
     \/ /\ MayOpen(t)
        /\ cleared < ClearBound
        /\ cleared' = cleared + 1
        /\ open' = {}
        /\ UNCHANGED idle
  /\ UNCHANGED <<stream, sockets, executed>>

\* Mutant: a connection that had an error is closed and no longer counted.
GiveBackOnlyWorking(t) ==
  /\ stream' = [stream EXCEPT ![t] = NoStream]
  /\ IF stream[t] \in open /\ stream[t] \in up
       THEN idle' = Append(idle, stream[t]) /\ UNCHANGED <<open, up>>
       ELSE open' = open \ {stream[t]} /\ up' = up \ {stream[t]} /\ UNCHANGED idle
  /\ UNCHANGED cleared

\* <Connection as Drop>::drop: has_error is never set.
GiveBack(t) ==
  /\ stream' = [stream EXCEPT ![t] = NoStream]
  /\ IF stream[t] \in open
       THEN idle' = Append(idle, stream[t]) /\ UNCHANGED up
       ELSE up' = up \ {stream[t]} /\ UNCHANGED idle
  /\ UNCHANGED <<open, cleared>>

Finish(t, r) == GiveBack(t) /\ Return(t, r)

\* Mutant: the retry does not use up retryable.
RetryAgain(t) ==
  /\ retryable[t] /\ RetryOption
  /\ GiveBack(t)
  /\ pc' = [pc EXCEPT ![t] = "acquire"]
  /\ UNCHANGED <<call, retryable, result>>

Retry(t) ==
  /\ retryable[t] /\ RetryOption
  /\ GiveBack(t)
  /\ pc' = [pc EXCEPT ![t] = "acquire"]
  /\ retryable' = [retryable EXCEPT ![t] = FALSE]
  /\ UNCHANGED <<call, result>>

\* An I/O error, or an error that a retry may overcome.
FailOrRetry(t) ==
  \/ Retry(t)
  \/ ~(retryable[t] /\ RetryOption) /\ Finish(t, "error")

RequestOf(t) == [id |-> RequestId[call[t]], call |-> call[t]]

\* Mutant: the caller does not wait for the reply of what it has sent.
SendUnacknowledged(t) ==
  /\ pc[t] = "send"
  /\ stream[t] \in up
  /\ requests' = [requests EXCEPT ![stream[t]] = Append(@, RequestOf(t))]
  /\ Finish(t, "ok")
  /\ UNCHANGED <<replies, executed>>

Send(t) ==
  /\ pc[t] = "send"
  /\ requests' = IF stream[t] \in up
                   THEN [requests EXCEPT ![stream[t]] = Append(@, RequestOf(t))]
                   ELSE requests
  /\ pc' = [pc EXCEPT ![t] = "receive"]
  /\ UNCHANGED <<call, stream, retryable, pool, up, replies, executed, result>>

\* Writing to a broken socket may fail at once.
SendFails(t) ==
  /\ pc[t] = "send"
  /\ stream[t] \notin up
  /\ FailOrRetry(t)
  /\ UNCHANGED <<requests, replies, executed>>

\* Mutant: ok is not looked at.
SucceedsAlways(answer) == TRUE

\* reply.ok == 1f64
Succeeds(answer) == answer = "ok"

Receive(t) ==
  /\ pc[t] = "receive"
  /\ replies[stream[t]] # <<>>
  /\ replies' = [replies EXCEPT ![stream[t]] = Tail(@)]
  /\ LET reply == Head(replies[stream[t]])
     IN  IF reply.to # RequestId[call[t]] THEN Finish(t, "error")
         ELSE IF Succeeds(reply.answer) THEN Finish(t, "ok")
         ELSE IF reply.answer = "unavailable" THEN FailOrRetry(t)
         ELSE Finish(t, "error")
  /\ UNCHANGED <<requests, executed>>

ReceiveFails(t) ==
  /\ pc[t] = "receive"
  /\ replies[stream[t]] = <<>>
  /\ stream[t] \notin up
  /\ FailOrRetry(t)
  /\ UNCHANGED <<requests, replies, executed>>

-----------------------------------------------------------------------------
Acquire(t) == AcquireIdle(t) \/ AcquireNew(t) \/ AcquireFails(t) \/ Wait(t)

Step(t) == Send(t) \/ SendFails(t) \/ Receive(t) \/ ReceiveFails(t)

Next ==
  \/ \E t \in Threads, c \in Calls : Start(t, c)
  \/ \E t \in Threads : Acquire(t) \/ Step(t)
  \/ \E s \in Streams : Serve(s) \/ Break(s)

Spec == Init /\ [][Next]_vars

(***************************************************************************)
(* Threads go on, connecting ends with a result, and a server that is      *)
(* connected answers.  A thread that waits goes on if a stream stays idle; *)
(* it has no other way out.  Nothing is assumed of breaks.                 *)
(***************************************************************************)
Fairness ==
  /\ \A t \in Threads : WF_vars(Acquire(t)) /\ WF_vars(Step(t))
  /\ \A s \in Streams : WF_vars(Serve(s))

FairSpec == Spec /\ Fairness

-----------------------------------------------------------------------------
(* Properties *)

Request == [id : Nat, call : Calls]

Reply == [to : Nat, answer : {"ok", "unavailable", "error"}]

TypeOK ==
  /\ pc \in [Threads -> {"idle", "acquire", "wait", "send", "receive"}]
  /\ call \in [Threads -> Calls \cup {NoCall}]
  /\ stream \in [Threads -> Streams \cup {NoStream}]
  /\ retryable \in [Threads -> BOOLEAN]
  /\ idle \in Seq(Streams)
  /\ open \subseteq Streams
  /\ cleared \in Nat
  /\ up \subseteq Streams
  /\ requests \in [Streams -> Seq(Request)]
  /\ replies \in [Streams -> Seq(Reply)]
  /\ executed \in [Calls -> Nat]
  /\ result \in [Calls -> {"none", "ok", "error"}]

\* A stream that works comes back to the pool in step: nothing that was sent on
\* it is still to be answered and no answer is left to be read.  The next call
\* would take such an answer for its own if the 32 bits of the ids agree.
StreamsInStep ==
  \A i \in DOMAIN idle : idle[i] \in up => requests[idle[i]] = <<>> /\ replies[idle[i]] = <<>>

\* What a call reports as done was done, by a request of its own and not by one
\* of another call with the same truncated request id.
SuccessExecuted == \A c \in Calls : result[c] = "ok" => executed[c] > 0

\* The server executes a call at most twice, and a call that must not be
\* retried at most once, whatever was lost.
ExecutionsBounded ==
  \A c \in Calls : executed[c] <= IF c \in Retryable /\ RetryOption THEN 2 ELSE 1

\* coll.rs:275: a call of delete_one deletes one document; so the server may
\* execute it once.
DeletesOne == \A c \in Calls : executed[c] <= 1

\* A pool at its maximum size whose streams are all broken stays so, and no call
\* succeeds any more, though the server is back: broken streams return to the
\* pool, and only opening a connection could replace or clear them.
AllBroken ==
  /\ Cardinality(open) = MaxPoolSize
  /\ up = {}
  /\ \A s \in Streams : replies[s] = <<>>

BrokenForGood == [][AllBroken => AllBroken']_vars

\* Every call returns, however often its streams break: a thread that waits in
\* the pool, which it does without a timeout, is served by the calls under way,
\* each of which returns its stream, broken or not.
CallsEnd == \A t \in Threads : pc[t] # "idle" ~> pc[t] = "idle"
=============================================================================
