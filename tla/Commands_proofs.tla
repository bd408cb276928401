--------------------------- MODULE Commands_proofs ---------------------------
(***************************************************************************)
(* Theorems about Commands for every set of threads, calls and streams,    *)
(* whatever request ids agree and whatever is lost.                        *)
(***************************************************************************)
EXTENDS Commands, CommonTheorems

Bound(c) == IF c \in Retryable /\ RetryOption THEN 2 ELSE 1

Answers == {"ok", "unavailable", "error"}

(***************************************************************************)
(* The invariant.  A thread has a call and a stream when its place says    *)
(* so; a stream is in one place; nothing is under way on a stream but the  *)
(* one request or the one reply of the thread that waits for it; and what  *)
(* was executed is covered by what this thread has sent.                   *)
(***************************************************************************)
Placed ==
  \A t \in Threads :
    /\ pc[t] = "idle" <=> call[t] = NoCall
    /\ pc[t] \in {"idle", "acquire", "wait"} <=> stream[t] = NoStream
    /\ call[t] # NoCall => result[call[t]] = "none"
    /\ \A u \in Threads : call[t] = call[u] /\ call[t] # NoCall => t = u
    /\ pc[t] # "idle" /\ retryable[t] => call[t] \in Retryable
    /\ pc[t] # "idle" /\ ~retryable[t] /\ call[t] \in Retryable => RetryOption

Exclusive ==
  /\ \A t, u \in Threads : stream[t] = stream[u] /\ stream[t] # NoStream => t = u
  /\ \A i, j \in 1 .. Len(idle) : idle[i] = idle[j] => i = j
  /\ \A i \in 1 .. Len(idle) : idle[i] \in open /\ \A t \in Threads : idle[i] # stream[t]

Quiet(s) == requests[s] = <<>> /\ replies[s] = <<>>

Asked(t) ==
  /\ requests[stream[t]] = <<RequestOf(t)>>
  /\ replies[stream[t]] = <<>>

Answered(t) ==
  /\ requests[stream[t]] = <<>>
  /\ \E answer \in Answers :
       /\ replies[stream[t]] = <<[to |-> RequestId[call[t]], answer |-> answer]>>
       /\ answer = "ok" => executed[call[t]] > 0

Waits(t, s) == pc[t] = "receive" /\ stream[t] = s /\ (Asked(t) \/ Answered(t))

InStep ==
  \A s \in Streams :
    /\ Quiet(s) \/ \E t \in Threads : Waits(t, s)
    /\ s \notin up => requests[s] = <<>>

\* Executions of the attempts before the one that is under way, and of that one.
Before(t) == IF call[t] \in Retryable /\ ~retryable[t] THEN 1 ELSE 0

Now(t) == IF pc[t] = "receive" /\ requests[stream[t]] = <<>> THEN 1 ELSE 0

Counted ==
  /\ \A c \in Calls :
       /\ result[c] = "none" /\ (\A t \in Threads : call[t] # c) => executed[c] = 0
       /\ executed[c] <= Bound(c)
       /\ result[c] = "ok" => executed[c] > 0
  /\ \A t \in Threads : call[t] # NoCall => executed[call[t]] <= Before(t) + Now(t)

CallInv == Placed /\ Exclusive /\ InStep /\ Counted

-----------------------------------------------------------------------------
(* Types and places *)

\* A thread that has sent, or is about to, has a stream and a call.
LEMMA HoldsStream ==
  ASSUME TypeOK, Placed, NEW t \in Threads, pc[t] \in {"send", "receive"}
  PROVE  stream[t] \in Streams /\ call[t] \in Calls
<1>1. pc[t] # "idle" /\ pc[t] \notin {"idle", "acquire", "wait"}
  OBVIOUS
<1> QED
  BY <1>1, CallAssumption DEF TypeOK, Placed

\* The connection is given back, the pool has the types of a pool.
LEMMA GiveBackType ==
  ASSUME TypeOK, NEW t \in Threads, stream[t] \in Streams, GiveBack(t)
  PROVE  /\ stream' \in [Threads -> Streams \cup {NoStream}]
         /\ stream'[t] = NoStream
         /\ \A u \in Threads \ {t} : stream'[u] = stream[u]
         /\ idle' \in Seq(Streams)
         /\ open' = open /\ cleared' = cleared
         /\ up' \subseteq up
<1>1. Append(idle, stream[t]) \in Seq(Streams)
  BY PushFacts DEF TypeOK
<1> QED
  BY <1>1 DEF TypeOK, GiveBack

\* What the ways out of run_command and back to its beginning have in common.
Leaves(t) == GiveBack(t) /\ (Retry(t) \/ Return(t, "error") \/ Return(t, "ok"))

LEMMA SendReceiveLeave ==
  ASSUME NEW t \in Threads, SendFails(t) \/ Receive(t) \/ ReceiveFails(t)
  PROVE  pc[t] \in {"send", "receive"} /\ Leaves(t) /\ UNCHANGED <<requests, executed>>
BY DEF SendFails, Receive, ReceiveFails, FailOrRetry, Finish, Retry, Leaves

LEMMA LeavesPlaced ==
  ASSUME TypeOK, Placed, NEW t \in Threads, pc[t] \in {"send", "receive"}, Leaves(t)
  PROVE  /\ pc' \in [Threads -> {"idle", "acquire", "wait", "send", "receive"}]
         /\ call' \in [Threads -> Calls \cup {NoCall}]
         /\ retryable' \in [Threads -> BOOLEAN]
         /\ result' \in [Calls -> {"none", "ok", "error"}]
         /\ Placed'
<1>1. stream[t] \in Streams /\ call[t] \in Calls
  BY HoldsStream
<1>2. /\ stream'[t] = NoStream
      /\ \A u \in Threads \ {t} : stream'[u] = stream[u]
  BY <1>1, GiveBackType DEF Leaves
<1>3. CASE Retry(t)
  BY <1>1, <1>2, <1>3, CallAssumption DEF TypeOK, Placed, Retry
<1>4. ASSUME NEW r \in {"ok", "error"}, Return(t, r)
      PROVE  /\ pc' \in [Threads -> {"idle", "acquire", "wait", "send", "receive"}]
             /\ call' \in [Threads -> Calls \cup {NoCall}]
             /\ retryable' \in [Threads -> BOOLEAN]
             /\ result' \in [Calls -> {"none", "ok", "error"}]
             /\ Placed'
  BY <1>1, <1>2, <1>4, CallAssumption DEF TypeOK, Placed, Return
<1> QED
  BY <1>3, <1>4 DEF Leaves

LEMMA PlacedStep ==
  ASSUME TypeOK, Placed, [Next]_vars
  PROVE  TypeOK' /\ Placed'
<1>1. ASSUME NEW t \in Threads, NEW c \in Calls, Start(t, c)
      PROVE  TypeOK' /\ Placed'
  <2>1. /\ pc' = [pc EXCEPT ![t] = "acquire"]
        /\ call' = [call EXCEPT ![t] = c]
        /\ retryable' = [retryable EXCEPT ![t] = c \in Retryable]
        /\ result[c] = "none" /\ \A u \in Threads : call[u] # c
        /\ pc[t] = "idle"
        /\ UNCHANGED <<stream, result>>
    BY <1>1 DEF Start
  <2>2. TypeOK'
    BY <1>1, <2>1 DEF Start, TypeOK, pool, sockets
  <2>3. \A u \in Threads \ {t} :
          pc'[u] = pc[u] /\ call'[u] = call[u] /\ retryable'[u] = retryable[u]
    BY <2>1 DEF TypeOK
  <2>4. pc'[t] = "acquire" /\ call'[t] = c /\ (retryable'[t] <=> c \in Retryable)
    BY <2>1 DEF TypeOK
  <2>5. Placed'
    BY <2>1, <2>3, <2>4, CallAssumption DEF TypeOK, Placed
  <2> QED
    BY <2>2, <2>5
<1>2. ASSUME NEW t \in Threads, AcquireIdle(t)
      PROVE  TypeOK' /\ Placed'
  <2>1. idle[Len(idle)] \in Streams /\ idle' \in Seq(Streams)
    BY <1>2, PopFacts DEF AcquireIdle, TypeOK
  <2> QED
    BY <1>2, <2>1, CallAssumption DEF AcquireIdle, Hold, TypeOK, Placed
<1>3. ASSUME NEW t \in Threads, AcquireNew(t)
      PROVE  TypeOK' /\ Placed'
  BY <1>3, CallAssumption DEF AcquireNew, MayOpen, Closed, Hold, TypeOK, Placed
<1>4. ASSUME NEW t \in Threads, AcquireFails(t)
      PROVE  TypeOK' /\ Placed'
  <2>1. call[t] \in Calls
    BY <1>4 DEF AcquireFails, TypeOK, Placed
  <2>2. open' \subseteq Streams /\ cleared' \in Nat /\ idle' = idle
    BY <1>4 DEF AcquireFails, TypeOK, pool
  <2> QED
    BY <1>4, <2>1, <2>2, CallAssumption DEF AcquireFails, Return, TypeOK, Placed, sockets
<1>5. ASSUME NEW t \in Threads, Wait(t)
      PROVE  TypeOK' /\ Placed'
  BY <1>5 DEF Wait, TypeOK, Placed, pool, sockets
<1>6. ASSUME NEW t \in Threads, Send(t)
      PROVE  TypeOK' /\ Placed'
  <2>1. stream[t] \in Streams /\ RequestOf(t) \in Request
    BY <1>6, HoldsStream, CallAssumption DEF Send, RequestOf, Request
  <2>2. Append(requests[stream[t]], RequestOf(t)) \in Seq(Request)
    BY <2>1, PushFacts DEF TypeOK
  <2>3. requests' \in [Streams -> Seq(Request)]
    BY <1>6, <2>1, <2>2 DEF Send, TypeOK
  <2> QED
    BY <1>6, <2>1, <2>3 DEF Send, TypeOK, Placed, pool
<1>7. ASSUME NEW t \in Threads, SendFails(t) \/ Receive(t) \/ ReceiveFails(t)
      PROVE  TypeOK' /\ Placed'
  <2>1. pc[t] \in {"send", "receive"} /\ Leaves(t) /\ UNCHANGED <<requests, executed>>
    BY <1>7, SendReceiveLeave
  <2>2. stream[t] \in Streams
    BY <2>1, HoldsStream
  <2>3. replies' \in [Streams -> Seq(Reply)]
    <3>1. CASE Receive(t)
      <4>1. Tail(replies[stream[t]]) \in Seq(Reply)
        BY <3>1, <2>2, HeadTailProperties DEF Receive, TypeOK
      <4> QED
        BY <3>1, <4>1 DEF Receive, TypeOK
    <3> QED
      BY <1>7, <3>1 DEF SendFails, ReceiveFails, TypeOK
  <2> QED
    BY <2>1, <2>2, <2>3, GiveBackType, LeavesPlaced DEF Leaves, TypeOK
<1>8. ASSUME NEW s \in Streams, Serve(s)
      PROVE  TypeOK' /\ Placed'
  <2>1. requests[s] \in Seq(Request) /\ requests[s] # <<>>
    BY <1>8 DEF Serve, TypeOK
  <2>2. Head(requests[s]) \in Request /\ Tail(requests[s]) \in Seq(Request)
    BY <2>1, HeadTailProperties
  <2>3. requests' \in [Streams -> Seq(Request)]
    BY <1>8, <2>2 DEF Serve, TypeOK
  <2>4. PICK answer \in Answers :
          /\ \/ executed' = [executed EXCEPT ![Head(requests[s]).call] = @ + 1]
             \/ executed' = executed
          /\ replies' = [replies EXCEPT ![s] =
                           Append(@, [to |-> Head(requests[s]).id, answer |-> answer])]
    BY <1>8, Zenon DEF Serve, Answers
  <2>5. [to |-> Head(requests[s]).id, answer |-> answer] \in Reply
    BY <2>2 DEF Request, Reply, Answers
  <2>6. Append(replies[s], [to |-> Head(requests[s]).id, answer |-> answer]) \in Seq(Reply)
    BY <2>5, PushFacts DEF TypeOK
  <2>7. replies' \in [Streams -> Seq(Reply)]
    BY <2>4, <2>6 DEF TypeOK
  <2>8. executed' \in [Calls -> Nat]
    BY <2>2, <2>4 DEF Request, TypeOK
  <2> QED
    BY <1>8, <2>3, <2>7, <2>8 DEF Serve, TypeOK, Placed, thread, pool
<1>9. ASSUME NEW s \in Streams, Break(s)
      PROVE  TypeOK' /\ Placed'
  <2>1. <<>> \in Seq(Request) /\ <<>> \in Seq(Reply)
    BY EmptySeq
  <2>2. requests' \in [Streams -> Seq(Request)] /\ replies' \in [Streams -> Seq(Reply)]
    BY <1>9, <2>1 DEF Break, TypeOK
  <2> QED
    BY <1>9, <2>2 DEF Break, TypeOK, Placed, thread, pool
<1>10. CASE UNCHANGED vars
  BY <1>10 DEF vars, thread, pool, sockets, TypeOK, Placed
<1> QED
  BY <1>1, <1>2, <1>3, <1>4, <1>5, <1>6, <1>7, <1>8, <1>9, <1>10 DEF Next, Acquire, Step

-----------------------------------------------------------------------------
(* A stream is in one place. *)

LEMMA GiveBackExclusive ==
  ASSUME TypeOK, Exclusive, NEW t \in Threads, stream[t] \in Streams, GiveBack(t)
  PROVE  Exclusive'
<1>1. /\ stream'[t] = NoStream
      /\ \A u \in Threads \ {t} : stream'[u] = stream[u]
      /\ open' = open
  BY GiveBackType
<1>2. CASE idle' = idle
  <2>1. \A i \in 1 .. Len(idle) : idle[i] # NoStream
    BY ElementOfSeq, CallAssumption DEF TypeOK
  <2>2. \A u \in Threads : stream'[u] \in {stream[u], NoStream}
    BY <1>1
  <2>3. \A u, v \in Threads : stream'[u] = stream'[v] /\ stream'[u] # NoStream => u = v
    BY <1>1, <2>2 DEF Exclusive
  <2> QED
    BY <1>1, <1>2, <2>1, <2>2, <2>3 DEF Exclusive
<1>3. CASE stream[t] \in open /\ idle' = Append(idle, stream[t])
  <2>1. /\ Len(idle) \in Nat
        /\ Len(idle') = Len(idle) + 1
        /\ \A i \in 1 .. Len(idle) : idle'[i] = idle[i]
        /\ idle'[Len(idle) + 1] = stream[t]
    BY <1>3, PushFacts, LenProperties DEF TypeOK
  <2>2. \A i \in 1 .. Len(idle') : i \in 1 .. Len(idle) \/ i = Len(idle) + 1
    BY <2>1
  <2>3. \A i, j \in 1 .. Len(idle') : idle'[i] = idle'[j] => i = j
    BY <2>1, <2>2 DEF Exclusive
  <2>4. \A i \in 1 .. Len(idle') :
          idle'[i] \in open' /\ \A u \in Threads : idle'[i] # stream'[u]
    <3>1. \A i \in 1 .. Len(idle') : idle'[i] \in Streams
      BY <2>1, <2>2, ElementOfSeq DEF TypeOK
    <3> QED
      BY <1>1, <1>3, <2>1, <2>2, <3>1, CallAssumption DEF Exclusive
  <2>5. \A u, v \in Threads : stream'[u] = stream'[v] /\ stream'[u] # NoStream => u = v
    BY <1>1 DEF Exclusive
  <2> QED
    BY <2>3, <2>4, <2>5 DEF Exclusive
<1> QED
  BY <1>2, <1>3 DEF GiveBack

LEMMA ExclusiveStep ==
  ASSUME TypeOK, Placed, Exclusive, [Next]_vars
  PROVE  Exclusive'
<1>1. CASE UNCHANGED <<stream, idle, open>>
  BY <1>1 DEF Exclusive
<1>2. ASSUME NEW t \in Threads, AcquireIdle(t)
      PROVE  Exclusive'
  <2>1. /\ Len(idle) \in Nat \ {0} /\ Len(idle') = Len(idle) - 1
        /\ \A i \in 1 .. Len(idle') : idle'[i] = idle[i]
        /\ idle[Len(idle)] \in Streams
    BY <1>2, PopFacts DEF AcquireIdle, TypeOK
  <2>2. /\ stream'[t] = idle[Len(idle)]
        /\ \A u \in Threads \ {t} : stream'[u] = stream[u]
        /\ open' = open
    BY <1>2 DEF AcquireIdle, Hold, TypeOK
  <2>3. \A u, v \in Threads : stream'[u] = stream'[v] /\ stream'[u] # NoStream => u = v
    BY <2>1, <2>2 DEF Exclusive
  <2>4. \A i, j \in 1 .. Len(idle') : idle'[i] = idle'[j] => i = j
    BY <2>1 DEF Exclusive
  <2>5. \A i \in 1 .. Len(idle') :
          idle'[i] \in open' /\ \A u \in Threads : idle'[i] # stream'[u]
    BY <2>1, <2>2 DEF Exclusive
  <2> QED
    BY <2>3, <2>4, <2>5 DEF Exclusive
<1>3. ASSUME NEW t \in Threads, AcquireNew(t)
      PROVE  Exclusive'
  <2>1. PICK s \in Closed : Hold(t, s) /\ open' = open \cup {s}
    BY <1>3 DEF AcquireNew
  <2>2. /\ stream'[t] = s
        /\ \A u \in Threads \ {t} : stream'[u] = stream[u] /\ stream[u] # s
        /\ idle' = <<>>
    BY <1>3, <2>1, CallAssumption DEF AcquireNew, MayOpen, Hold, Closed, Lent, TypeOK
  <2>3. Len(idle') = 0
    BY <2>2, EmptySeq
  <2> QED
    BY <2>2, <2>3 DEF Exclusive
<1>4. ASSUME NEW t \in Threads, AcquireFails(t)
      PROVE  Exclusive'
  <2>1. CASE UNCHANGED pool
    BY <1>4, <1>1, <2>1 DEF AcquireFails, pool
  <2>2. CASE idle = <<>>
    <3>1. UNCHANGED <<stream, idle>> /\ Len(idle) = 0
      BY <1>4, <2>2, EmptySeq DEF AcquireFails, pool
    <3> QED
      BY <3>1 DEF Exclusive
  <2> QED
    BY <1>4, <2>1, <2>2 DEF AcquireFails, MayOpen
<1>5. ASSUME NEW t \in Threads, SendFails(t) \/ Receive(t) \/ ReceiveFails(t)
      PROVE  Exclusive'
  BY <1>5, SendReceiveLeave, HoldsStream, GiveBackExclusive DEF Leaves
<1>6. ASSUME NEW t \in Threads, Send(t) \/ Wait(t) \/ \E c \in Calls : Start(t, c)
      PROVE  Exclusive'
  BY <1>1, <1>6 DEF Send, Wait, Start, pool
<1>7. ASSUME NEW s \in Streams, Serve(s) \/ Break(s)
      PROVE  Exclusive'
  BY <1>1, <1>7 DEF Serve, Break, thread, pool
<1>8. CASE UNCHANGED vars
  BY <1>1, <1>8 DEF vars, thread, pool
<1> QED
  BY <1>2, <1>3, <1>4, <1>5, <1>6, <1>7, <1>8 DEF Next, Acquire, Step

-----------------------------------------------------------------------------
(* What is under way on a stream *)

\* A stream goes on as it was when a step leaves it and its thread alone.
LEMMA StreamKept ==
  ASSUME TypeOK, NEW s \in Streams,
         requests'[s] = requests[s], replies'[s] = replies[s],
         \A u \in Threads : pc[u] = "receive" /\ stream[u] = s =>
           /\ pc'[u] = pc[u] /\ call'[u] = call[u] /\ stream'[u] = stream[u]
           /\ executed[call[u]] > 0 => executed'[call[u]] > 0,
         Quiet(s) \/ \E t \in Threads : Waits(t, s)
  PROVE  (Quiet(s) \/ \E t \in Threads : Waits(t, s))'
<1>1. CASE Quiet(s)
  BY <1>1 DEF Quiet
<1>2. ASSUME NEW t \in Threads, Waits(t, s)
      PROVE  Waits(t, s)'
  BY <1>2 DEF Waits, Asked, Answered, RequestOf
<1> QED
  BY <1>1, <1>2

\* The stream of a thread is its own.
LEMMA WaitsAlone ==
  ASSUME TypeOK, Exclusive, InStep, NEW t \in Threads, stream[t] \in Streams
  PROVE  Quiet(stream[t]) \/ Waits(t, stream[t])
BY CallAssumption DEF InStep, Waits, Exclusive

\* A thread that leaves, leaves its stream quiet.
LEMMA LeavesQuiet ==
  ASSUME TypeOK, Placed, Exclusive, InStep, NEW t \in Threads,
         SendFails(t) \/ Receive(t) \/ ReceiveFails(t)
  PROVE  /\ requests'[stream[t]] = <<>> /\ replies'[stream[t]] = <<>>
         /\ \A s \in Streams \ {stream[t]} : replies'[s] = replies[s]
<1>1. stream[t] \in Streams /\ (Quiet(stream[t]) \/ Waits(t, stream[t]))
  BY SendReceiveLeave, HoldsStream, WaitsAlone
<1>2. CASE SendFails(t)
  BY <1>1, <1>2 DEF SendFails, Waits, Quiet
<1>3. CASE Receive(t)
  <2>1. Answered(t)
    BY <1>1, <1>3 DEF Receive, Quiet, Waits, Asked
  <2>2. PICK answer \in Answers :
          replies[stream[t]] = <<[to |-> RequestId[call[t]], answer |-> answer]>>
    BY <2>1 DEF Answered
  <2>3. Tail(replies[stream[t]]) = <<>>
    BY <2>2
  <2> QED
    BY <1>1, <1>3, <2>1, <2>3 DEF Receive, Answered, Quiet, TypeOK
<1>4. CASE ReceiveFails(t)
  <2>1. requests[stream[t]] = <<>>
    BY <1>1, <1>4 DEF ReceiveFails, InStep
  <2> QED
    BY <1>4, <2>1 DEF ReceiveFails, Quiet
<1> QED
  BY <1>2, <1>3, <1>4

LEMMA InStepStep ==
  ASSUME TypeOK, TypeOK', Placed, Exclusive, InStep, [Next]_vars
  PROVE  InStep'
<1>1. ASSUME UNCHANGED <<requests, replies, executed>>, up \subseteq up',
             \A u \in Threads : pc[u] = "receive" =>
               pc'[u] = pc[u] /\ call'[u] = call[u] /\ stream'[u] = stream[u]
      PROVE  InStep'
  BY <1>1, StreamKept DEF InStep
<1>2. ASSUME NEW t \in Threads, (\E c \in Calls : Start(t, c)) \/ Acquire(t)
      PROVE  InStep'
  <2>1. UNCHANGED <<requests, replies, executed>> /\ up \subseteq up'
    BY <1>2 DEF Start, Acquire, AcquireIdle, AcquireNew, AcquireFails, Wait, Hold, sockets
  <2>2. pc[t] # "receive"
    BY <1>2 DEF Start, Acquire, AcquireIdle, AcquireNew, AcquireFails, Wait, MayOpen
  <2>3. \A u \in Threads \ {t} :
          pc'[u] = pc[u] /\ call'[u] = call[u] /\ stream'[u] = stream[u]
    BY <1>2 DEF Start, Acquire, AcquireIdle, AcquireNew, AcquireFails, Wait, Hold, Return, TypeOK
  <2> QED
    BY <1>1, <2>1, <2>2, <2>3
<1>3. ASSUME NEW t \in Threads, Send(t)
      PROVE  InStep'
  <2>1. pc[t] = "send" /\ stream[t] \in Streams /\ Quiet(stream[t])
    BY <1>3, HoldsStream, WaitsAlone DEF Send, Waits
  <2>2. /\ UNCHANGED <<call, stream, up, replies, executed>>
        /\ pc'[t] = "receive"
        /\ \A u \in Threads \ {t} : pc'[u] = pc[u]
        /\ \A s \in Streams \ {stream[t]} : requests'[s] = requests[s]
    BY <1>3 DEF Send, TypeOK
  <2>3. ASSUME NEW s \in Streams \ {stream[t]}
        PROVE  (Quiet(s) \/ \E u \in Threads : Waits(u, s))'
    BY <2>1, <2>2, StreamKept DEF InStep
  <2>4. CASE stream[t] \in up
    <3>1. requests'[stream[t]] = <<RequestOf(t)>>
      BY <1>3, <2>1, <2>4 DEF Send, Quiet, TypeOK
    <3>2. Waits(t, stream[t])'
      BY <2>1, <2>2, <3>1 DEF Waits, Asked, Quiet, RequestOf
    <3> QED
      BY <2>2, <2>3, <2>4, <3>2 DEF InStep
  <2>5. CASE stream[t] \notin up
    BY <1>3, <2>1, <2>2, <2>3, <2>5 DEF Send, InStep, Quiet
  <2> QED
    BY <2>4, <2>5
<1>4. ASSUME NEW t \in Threads, SendFails(t) \/ Receive(t) \/ ReceiveFails(t)
      PROVE  InStep'
  <2>1. /\ stream[t] \in Streams
        /\ UNCHANGED <<requests, executed>>
        /\ Leaves(t)
    BY <1>4, SendReceiveLeave, HoldsStream
  <2>2. \A u \in Threads \ {t} :
          pc'[u] = pc[u] /\ call'[u] = call[u] /\ stream'[u] = stream[u]
    BY <2>1 DEF Leaves, GiveBack, Retry, Return, TypeOK
  <2>3. ASSUME NEW s \in Streams \ {stream[t]}
        PROVE  (Quiet(s) \/ \E u \in Threads : Waits(u, s))'
    BY <1>4, <2>1, <2>2, LeavesQuiet, StreamKept DEF InStep
  <2>4. \A s \in Streams \ up' : s \notin up \/ s = stream[t]
    BY <2>1 DEF Leaves, GiveBack
  <2> QED
    BY <1>4, <2>1, <2>3, <2>4, LeavesQuiet DEF InStep, Quiet
<1>5. ASSUME NEW s \in Streams, Serve(s)
      PROVE  InStep'
  <2>1. PICK t \in Threads : pc[t] = "receive" /\ stream[t] = s /\ Asked(t)
    BY <1>5 DEF Serve, InStep, Quiet, Waits, Answered
  <2>2. Head(requests[s]) = RequestOf(t) /\ Tail(requests[s]) = <<>>
    BY <2>1 DEF Asked
  <2>3. call[t] \in Calls
    BY <2>1, HoldsStream
  <2>4. PICK answer \in Answers :
          /\ \/ answer # "error" /\ executed' = [executed EXCEPT ![call[t]] = @ + 1]
             \/ answer # "ok" /\ executed' = executed
          /\ replies' = [replies EXCEPT ![s] =
                           Append(@, [to |-> RequestId[call[t]], answer |-> answer])]
    <3>1. RequestOf(t).call = call[t] /\ RequestOf(t).id = RequestId[call[t]]
      BY DEF RequestOf
    <3> QED
      BY <1>5, <2>2, <3>1, Zenon DEF Serve, Answers
  <2>5. UNCHANGED <<pc, call, stream, up>>
    BY <1>5 DEF Serve, thread
  <2>6. Waits(t, s)'
    <3>1. requests'[s] = <<>>
      BY <1>5, <2>2 DEF Serve, TypeOK
    <3>2. replies'[s] = <<[to |-> RequestId[call[t]], answer |-> answer]>>
      BY <2>1, <2>4 DEF Asked, TypeOK
    <3>3. answer = "ok" => executed'[call[t]] > 0
      BY <2>3, <2>4 DEF TypeOK
    <3> QED
      BY <2>1, <2>5, <3>1, <3>2, <3>3 DEF Waits, Answered
  <2>7. \A c \in Calls : executed[c] > 0 => executed'[c] > 0
    <3>1. \A c \in Calls : executed[c] \in Nat /\ executed'[c] \in Nat
      BY DEF TypeOK
    <3>2. \A c \in Calls : executed'[c] = executed[c] \/ executed'[c] = executed[c] + 1
      BY <2>3, <2>4 DEF TypeOK
    <3> QED
      BY <3>1, <3>2
  <2>8. ASSUME NEW r \in Streams \ {s}
        PROVE  (Quiet(r) \/ \E u \in Threads : Waits(u, r))'
    <3>1. requests'[r] = requests[r] /\ replies'[r] = replies[r]
      BY <1>5, <2>4 DEF Serve, TypeOK
    <3>2. \A u \in Threads : pc[u] = "receive" => call[u] \in Calls
      BY HoldsStream
    <3> QED
      BY <2>5, <2>7, <3>1, <3>2, StreamKept DEF InStep
  <2>9. \A r \in Streams : r \notin up => requests'[r] = requests[r]
    BY <1>5 DEF Serve, TypeOK
  <2> QED
    BY <2>5, <2>6, <2>8, <2>9 DEF InStep
<1>6. ASSUME NEW s \in Streams, Break(s)
      PROVE  InStep'
  <2>1. /\ UNCHANGED <<pc, call, stream, executed>>
        /\ up' = up \ {s}
        /\ requests'[s] = <<>> /\ replies'[s] \in {replies[s], <<>>}
        /\ \A r \in Streams \ {s} : requests'[r] = requests[r] /\ replies'[r] = replies[r]
    BY <1>6 DEF Break, thread, TypeOK
  <2>2. ASSUME NEW r \in Streams \ {s}
        PROVE  (Quiet(r) \/ \E u \in Threads : Waits(u, r))'
    BY <2>1, StreamKept DEF InStep
  <2>3. CASE Quiet(s)
    BY <2>1, <2>2, <2>3 DEF InStep, Quiet
  <2>4. ASSUME NEW t \in Threads, Waits(t, s)
        PROVE  InStep'
    <3>1. CASE replies'[s] = <<>>
      BY <2>1, <2>2, <3>1 DEF InStep, Quiet
    <3>2. CASE Answered(t) /\ replies'[s] = replies[s]
      <4>1. Waits(t, s)'
        BY <2>1, <2>4, <3>2 DEF Waits, Answered
      <4> QED
        BY <2>1, <2>2, <4>1 DEF InStep
    <3> QED
      BY <2>1, <2>4, <3>1, <3>2 DEF Waits, Asked
  <2> QED
    BY <2>3, <2>4 DEF InStep
<1>7. CASE UNCHANGED vars
  BY <1>1, <1>7 DEF vars, thread, sockets
<1> QED
  BY <1>2, <1>3, <1>4, <1>5, <1>6, <1>7 DEF Next, Step

-----------------------------------------------------------------------------
(* What was executed is covered by what was sent. *)

\* A step that executes nothing and ends no call takes nothing back.
LEMMA CountedKept ==
  ASSUME TypeOK, TypeOK', Counted, UNCHANGED <<executed, result>>,
         \A u \in Threads : call[u] # NoCall =>
           /\ call'[u] = call[u] /\ retryable'[u] = retryable[u]
           /\ Now(u) = 1 => Now(u)' = 1,
         \A u \in Threads : call[u] = NoCall /\ call'[u] # NoCall =>
           executed[call'[u]] = 0
  PROVE  Counted'
<1>1. \A u \in Threads : Now(u) \in {0, 1} /\ Now(u)' \in {0, 1} /\ Before(u)' \in {0, 1}
  BY DEF Now, Before
<1>2. ASSUME NEW u \in Threads, call'[u] # NoCall
      PROVE  executed'[call'[u]] <= Before(u)' + Now(u)'
  <2>1. CASE call[u] = NoCall
    BY <1>1, <1>2, <2>1
  <2>2. CASE call[u] # NoCall
    <3>1. Before(u)' = Before(u) /\ call'[u] = call[u] /\ executed'[call[u]] \in Nat
      BY <2>2, CallAssumption DEF Before, TypeOK
    <3>2. executed[call[u]] <= Before(u) + Now(u)
      BY <2>2 DEF Counted
    <3> QED
      BY <1>1, <2>2, <3>1, <3>2
  <2> QED
    BY <2>1, <2>2
<1>3. \A c \in Calls, u \in Threads : call'[u] # c => call[u] # c
  BY CallAssumption
<1> QED
  BY <1>2, <1>3 DEF Counted

\* A thread that ends its call or tries again has used up the attempt.
LEMMA LeavesCounted ==
  ASSUME TypeOK, TypeOK', Placed, Counted, NEW t \in Threads,
         pc[t] \in {"send", "receive", "acquire"},
         UNCHANGED <<requests, executed>>,
         \A u \in Threads \ {t} : stream'[u] = stream[u],
         \/ Retry(t)
         \/ Return(t, "error")
         \/ Return(t, "ok") /\ executed[call[t]] > 0
  PROVE  Counted'
<1>1. call[t] \in Calls
  BY DEF TypeOK, Placed
<1>2. \A u \in Threads \ {t} :
        /\ call'[u] = call[u] /\ retryable'[u] = retryable[u] /\ pc'[u] = pc[u]
        /\ stream'[u] = stream[u]
  BY DEF Retry, Return, TypeOK
<1>3. ASSUME NEW u \in Threads \ {t}, call'[u] # NoCall
      PROVE  executed'[call'[u]] <= Before(u)' + Now(u)'
  BY <1>2, <1>3 DEF Counted, Before, Now
<1>4. CASE Retry(t)
  <2>1. call'[t] = call[t] /\ ~retryable'[t] /\ retryable[t] /\ result' = result
    BY <1>4 DEF Retry, TypeOK
  <2>2. call[t] \in Retryable
    BY <2>1 DEF Placed
  <2>3. Before(t) = 0 /\ Before(t)' = 1 /\ Now(t) \in {0, 1} /\ Now(t)' \in {0, 1}
    BY <2>1, <2>2 DEF Before, Now
  <2>4. executed[call[t]] <= 1 /\ executed[call[t]] \in Nat
    <3>1. executed[call[t]] <= Before(t) + Now(t)
      BY <1>1, CallAssumption DEF Counted
    <3>2. executed[call[t]] \in Nat
      BY <1>1 DEF TypeOK
    <3> QED
      BY <2>3, <3>1, <3>2
  <2>5. executed'[call'[t]] <= Before(t)' + Now(t)'
    BY <2>1, <2>3, <2>4
  <2>6. \A u \in Threads : call'[u] = call[u]
    BY <1>2, <2>1
  <2> QED
    BY <1>3, <2>1, <2>5, <2>6 DEF Counted
<1>5. ASSUME NEW r \in {"ok", "error"}, Return(t, r),
             r = "ok" => executed[call[t]] > 0
      PROVE  Counted'
  <2>1. /\ call'[t] = NoCall
        /\ result'[call[t]] = r
        /\ \A c \in Calls \ {call[t]} : result'[c] = result[c]
    BY <1>1, <1>5 DEF Return, TypeOK
  <2>2. ASSUME NEW c \in Calls \ {call[t]}, \A u \in Threads : call'[u] # c
        PROVE  \A u \in Threads : call[u] # c
    BY <1>2, <2>2
  <2>3. ASSUME NEW u \in Threads, call'[u] # NoCall
        PROVE  executed'[call'[u]] <= Before(u)' + Now(u)'
    BY <1>3, <2>1, <2>3
  <2>4. ASSUME NEW c \in Calls
        PROVE  /\ result'[c] = "none" /\ (\A u \in Threads : call'[u] # c)
                    => executed'[c] = 0
               /\ executed'[c] <= Bound(c)
               /\ result'[c] = "ok" => executed'[c] > 0
    BY <1>1, <1>5, <2>1, <2>2 DEF Counted
  <2> QED
    BY <2>3, <2>4 DEF Counted
<1> QED
  BY <1>4, <1>5

LEMMA CountedStep ==
  ASSUME TypeOK, TypeOK', Placed, Placed', Exclusive, InStep, Counted, [Next]_vars
  PROVE  Counted'
<1>1. ASSUME NEW t \in Threads, NEW c \in Calls, Start(t, c)
      PROVE  Counted'
  <2>1. executed[c] = 0
    BY <1>1 DEF Start, Counted
  <2>2. pc[t] = "idle" /\ call[t] = NoCall /\ call'[t] = c
    BY <1>1 DEF Start, TypeOK, Placed
  <2>3. \A u \in Threads \ {t} :
          pc'[u] = pc[u] /\ call'[u] = call[u] /\ retryable'[u] = retryable[u]
    BY <1>1 DEF Start, TypeOK
  <2> QED
    BY <1>1, <2>1, <2>2, <2>3, CountedKept DEF Start, sockets, Now
<1>2. ASSUME NEW t \in Threads, AcquireIdle(t) \/ AcquireNew(t) \/ Wait(t)
      PROVE  Counted'
  <2>1. /\ UNCHANGED <<call, retryable, requests, executed, result>>
        /\ pc[t] \in {"acquire", "wait"}
        /\ \A u \in Threads \ {t} : pc'[u] = pc[u] /\ stream'[u] = stream[u]
    BY <1>2 DEF AcquireIdle, AcquireNew, Wait, MayOpen, Hold, TypeOK, sockets
  <2> QED
    BY <2>1, CountedKept DEF Now
<1>3. ASSUME NEW t \in Threads, AcquireFails(t)
      PROVE  Counted'
  BY <1>3, LeavesCounted DEF AcquireFails, sockets
<1>4. ASSUME NEW t \in Threads, Send(t)
      PROVE  Counted'
  <2>1. pc[t] = "send" /\ stream[t] \in Streams
    BY <1>4, HoldsStream DEF Send
  <2>2. \A u \in Threads \ {t} : pc'[u] = pc[u]
    BY <1>4 DEF Send, TypeOK
  <2>3. ASSUME NEW u \in Threads \ {t}
        PROVE  requests'[stream[u]] = requests[stream[u]]
    <3>1. stream[u] # stream[t]
      BY <2>1, CallAssumption DEF Exclusive
    <3> QED
      BY <1>4, <3>1 DEF Send, TypeOK
  <2> QED
    BY <1>4, <2>1, <2>2, <2>3, CountedKept DEF Send, Now
<1>5. ASSUME NEW t \in Threads, SendFails(t) \/ Receive(t) \/ ReceiveFails(t)
      PROVE  Counted'
  <2>1. /\ pc[t] \in {"send", "receive"} /\ stream[t] \in Streams
        /\ UNCHANGED <<requests, executed>>
        /\ \A u \in Threads \ {t} : stream'[u] = stream[u]
    BY <1>5, SendReceiveLeave, HoldsStream, GiveBackType DEF Leaves
  <2>2. CASE Retry(t) \/ Return(t, "error")
    BY <2>1, <2>2, LeavesCounted
  <2>3. CASE Receive(t) /\ Finish(t, "ok") /\ Succeeds(Head(replies[stream[t]]).answer)
    <3>1. Answered(t)
      BY <2>1, <2>3, WaitsAlone DEF Receive, Quiet, Waits, Asked
    <3>2. PICK answer \in Answers :
            /\ replies[stream[t]] = <<[to |-> RequestId[call[t]], answer |-> answer]>>
            /\ answer = "ok" => executed[call[t]] > 0
      BY <3>1 DEF Answered
    <3>3. Head(replies[stream[t]]).answer = answer
      BY <3>2
    <3> QED
      BY <2>1, <2>3, <3>2, <3>3, LeavesCounted DEF Finish, Succeeds
  <2> QED
    BY <1>5, <2>2, <2>3 DEF SendFails, Receive, ReceiveFails, FailOrRetry, Finish
<1>6. ASSUME NEW s \in Streams, Serve(s)
      PROVE  Counted'
  <2>1. PICK t \in Threads : pc[t] = "receive" /\ stream[t] = s /\ Asked(t)
    BY <1>6 DEF Serve, InStep, Quiet, Waits, Answered
  <2>2. call[t] \in Calls /\ Head(requests[s]).call = call[t] /\ Tail(requests[s]) = <<>>
    BY <2>1, HoldsStream DEF Asked, RequestOf
  <2>3. UNCHANGED <<pc, call, stream, retryable, result>>
    BY <1>6 DEF Serve, thread
  <2>4. /\ executed'[call[t]] \in {executed[call[t]], executed[call[t]] + 1}
        /\ \A c \in Calls \ {call[t]} : executed'[c] = executed[c]
        /\ executed[call[t]] \in Nat
    BY <1>6, <2>2 DEF Serve, TypeOK
  <2>5. requests'[s] = <<>> /\ \A r \in Streams \ {s} : requests'[r] = requests[r]
    BY <1>6, <2>2 DEF Serve, TypeOK
  <2>6. Now(t) = 0 /\ Now(t)' = 1 /\ Before(t)' = Before(t)
    BY <2>1, <2>3, <2>5 DEF Now, Before, Asked
  <2>7. executed[call[t]] <= Before(t) /\ Before(t) \in {0, 1}
    BY <2>2, <2>6, CallAssumption DEF Counted, Before
  <2>8. executed'[call[t]] <= Before(t) + 1
    BY <2>4, <2>7
  <2>9. Before(t) + 1 <= Bound(call[t])
    BY <2>1, <2>2 DEF Before, Bound, Placed
  <2>10. ASSUME NEW u \in Threads \ {t}, call[u] # NoCall
         PROVE  executed'[call[u]] <= Before(u)' + Now(u)'
    <3>1. call[u] # call[t] /\ call[u] \in Calls
      BY <2>10 DEF Placed, TypeOK
    <3>2. Now(u)' = Now(u) /\ Before(u)' = Before(u)
      <4>1. stream[u] # s
        BY <2>1, CallAssumption DEF Exclusive
      <4>2. pc[u] = "receive" => stream[u] \in Streams
        BY HoldsStream
      <4> QED
        BY <2>3, <2>5, <4>1, <4>2 DEF Now, Before
    <3> QED
      BY <2>4, <2>10, <3>1, <3>2 DEF Counted
  <2>11. \A u \in Threads : call'[u] # NoCall => executed'[call'[u]] <= Before(u)' + Now(u)'
    BY <2>3, <2>6, <2>8, <2>10
  <2>12. ASSUME NEW c \in Calls
         PROVE  /\ result'[c] = "none" /\ (\A u \in Threads : call'[u] # c)
                     => executed'[c] = 0
                /\ executed'[c] <= Bound(c)
                /\ result'[c] = "ok" => executed'[c] > 0
    <3>1. CASE c = call[t]
      <4>1. executed'[c] <= Bound(c)
        BY <2>4, <2>7, <2>8, <2>9, <3>1 DEF Bound
      <4>2. result'[c] = "none"
        BY <2>2, <2>3, <3>1, CallAssumption DEF Placed
      <4> QED
        BY <2>3, <3>1, <4>1, <4>2
    <3>2. CASE c # call[t]
      BY <2>3, <2>4, <3>2 DEF Counted
    <3> QED
      BY <3>1, <3>2
  <2> QED
    BY <2>11, <2>12 DEF Counted
<1>7. ASSUME NEW s \in Streams, Break(s)
      PROVE  Counted'
  <2>1. /\ UNCHANGED <<pc, call, stream, retryable, executed, result>>
        /\ \A r \in Streams : requests[r] = <<>> => requests'[r] = <<>>
    BY <1>7 DEF Break, thread, TypeOK
  <2>2. \A u \in Threads : pc[u] = "receive" => stream[u] \in Streams
    BY HoldsStream
  <2> QED
    BY <2>1, <2>2, CountedKept DEF Now
<1>8. CASE UNCHANGED vars
  BY <1>8, CountedKept DEF vars, thread, sockets, Now
<1> QED
  BY <1>1, <1>2, <1>3, <1>4, <1>5, <1>6, <1>7, <1>8 DEF Next, Acquire, Step

-----------------------------------------------------------------------------
(* The theorems *)

LEMMA CallInvInit == Init => TypeOK /\ CallInv
<1> SUFFICES ASSUME Init
             PROVE  TypeOK /\ CallInv
  OBVIOUS
<1>1. TypeOK
  <2>1. \A S : <<>> \in Seq(S)
    BY EmptySeq
  <2> QED
    BY <2>1 DEF Init, TypeOK
<1>2. Placed
  BY CallAssumption DEF Init, Placed
<1>3. Exclusive
  <2>1. Len(idle) = 0
    BY EmptySeq DEF Init
  <2> QED
    BY <2>1 DEF Init, Exclusive
<1>4. InStep
  BY DEF Init, InStep, Quiet
<1>5. Counted
  BY DEF Init, Counted, Bound
<1> QED
  BY <1>1, <1>2, <1>3, <1>4, <1>5 DEF CallInv

LEMMA CallInvAlways == Spec => [](TypeOK /\ CallInv)
<1>1. (TypeOK /\ CallInv) /\ [Next]_vars => (TypeOK /\ CallInv)'
  <2> SUFFICES ASSUME TypeOK, CallInv, [Next]_vars
               PROVE  TypeOK' /\ CallInv'
    OBVIOUS
  <2>1. TypeOK' /\ Placed'
    BY PlacedStep DEF CallInv
  <2>2. Exclusive' /\ InStep'
    BY <2>1, ExclusiveStep, InStepStep DEF CallInv
  <2>3. Counted'
    BY <2>1, CountedStep DEF CallInv
  <2> QED
    BY <2>1, <2>2, <2>3 DEF CallInv
<1> QED
  BY <1>1, CallInvInit, PTL DEF Spec

\* The variables always have values of their types.
THEOREM TypeCorrect == Spec => []TypeOK
BY CallInvAlways, PTL

\* Streams return to the pool in step, whatever breaks and whatever is retried:
\* no call ever reads the answer to another one.
THEOREM StreamsStayInStep == Spec => []StreamsInStep
<1>1. TypeOK /\ CallInv => StreamsInStep
  <2> SUFFICES ASSUME TypeOK, CallInv, NEW i \in DOMAIN idle
               PROVE  Quiet(idle[i])
    BY DEF StreamsInStep, Quiet
  <2>1. i \in 1 .. Len(idle) /\ idle[i] \in Streams
    BY ElementOfSeq, LenProperties DEF TypeOK
  <2>2. \A t \in Threads : stream[t] # idle[i]
    BY <2>1 DEF CallInv, Exclusive
  <2> QED
    BY <2>1, <2>2 DEF CallInv, InStep, Waits
<1> QED
  BY <1>1, CallInvAlways, PTL

\* A call is executed at most as often as run_command may send it: twice, or
\* once when it is not to be retried.
THEOREM ExecutionsAreBounded == Spec => []ExecutionsBounded
<1>1. CallInv => ExecutionsBounded
  BY DEF CallInv, Counted, Bound, ExecutionsBounded
<1> QED
  BY <1>1, CallInvAlways, PTL

\* A call that reports success was executed, though other calls may have the
\* same request id in 32 bits.
THEOREM SuccessMeansExecuted == Spec => []SuccessExecuted
<1>1. CallInv => SuccessExecuted
  BY DEF CallInv, Counted, SuccessExecuted
<1> QED
  BY <1>1, CallInvAlways, PTL

\* Nothing replaces the streams of a full pool once all of them are broken.
THEOREM BrokenStaysBroken == Spec => BrokenForGood
<1>1. ASSUME AllBroken, [Next]_vars
      PROVE  AllBroken'
  <2>1. ~(Cardinality(open) < MaxPoolSize)
    BY <1>1, PoolAssumption DEF AllBroken
  <2>2. ASSUME NEW t \in Threads, Acquire(t)
        PROVE  AllBroken'
    BY <1>1, <2>1, <2>2 DEF Acquire, AcquireIdle, AcquireNew, AcquireFails, Wait, MayOpen, Hold,
                            AllBroken, sockets, pool
  <2>3. ASSUME NEW t \in Threads, Send(t) \/ \E c \in Calls : Start(t, c)
        PROVE  AllBroken'
    BY <1>1, <2>3 DEF Send, Start, AllBroken, pool, sockets
  <2>4. ASSUME NEW t \in Threads, SendFails(t) \/ Receive(t) \/ ReceiveFails(t)
        PROVE  AllBroken'
    <3>1. open' = open /\ up' \subseteq up
      BY <2>4, SendReceiveLeave DEF Leaves, GiveBack
    <3>2. CASE UNCHANGED replies
      BY <1>1, <3>1, <3>2 DEF AllBroken
    <3>3. CASE Receive(t)
      <4>1. PICK R : R = replies[stream[t]] /\ R # <<>> /\ replies' = [replies EXCEPT ![stream[t]] = Tail(R)]
        BY <3>3 DEF Receive
      <4>2. \A s \in Streams : replies'[s] = <<>>
        BY <1>1, <4>1 DEF AllBroken
      <4> QED
        BY <1>1, <3>1, <4>2 DEF AllBroken
    <3> QED
      BY <2>4, <3>2, <3>3 DEF SendFails, ReceiveFails
  <2>5. ASSUME NEW s \in Streams, Serve(s) \/ Break(s)
        PROVE  AllBroken'
    BY <1>1, <2>5 DEF Serve, Break, AllBroken
  <2>6. CASE UNCHANGED vars
    BY <1>1, <2>6 DEF vars, AllBroken, pool, sockets
  <2> QED
    BY <1>1, <2>2, <2>3, <2>4, <2>5, <2>6 DEF Next, Step
<1>2. [Next]_vars => [AllBroken => AllBroken']_vars
  BY <1>1
<1> QED
  BY <1>2, PTL DEF Spec, BrokenForGood
=============================================================================
