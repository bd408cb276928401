---------------------------- MODULE ConnectionPool ----------------------------
(***************************************************************************)
(* The connection pool of one Server: Pool, Server::acquire_stream and     *)
(* <Connection as Drop>::drop of src/src/topology.rs.                      *)
(*                                                                         *)
(* acquire_stream runs with the pool mutex held, network I/O included, and *)
(* gives it up only to wait on the condition variable wait_lock or to      *)
(* return.  A step of the model is one turn of its loop.  The server       *)
(* description that a handshake refreshes is the state of ServerMonitor;   *)
(* the pool never reads back what the handshake wrote there.  Apm events   *)
(* are left out.                                                           *)
(***************************************************************************)
EXTENDS Naturals, Sequences, FiniteSets

CONSTANTS
  Threads,       \* threads that use the client
  NoThread,      \* the pool mutex is free
  MaxPoolSize,   \* pool_options.max_pool_size, 0 for no limit
  MinPoolSize,   \* pool_options.min_pool_size
  IdleTimeout,   \* pool_options.max_idle_time_ms # 0
  ClockSteps,    \* the system clock may be set back
  LenBound,      \* bound on pool.len
  ClearBound     \* bound on how often the pool is cleared

ASSUME ThreadAssumption == NoThread \notin Threads

ASSUME OptionAssumption ==
  /\ MaxPoolSize \in Nat
  /\ MinPoolSize \in Nat
  /\ IdleTimeout \in BOOLEAN
  /\ ClockSteps \in BOOLEAN

ASSUME BoundAssumption == LenBound \in Nat /\ ClearBound \in Nat

VARIABLES
  lock,        \* the thread that holds pool, or NoThread
  poisoned,    \* a thread panicked while it held pool
  len,         \* pool.len
  streams,     \* pool.streams: a stack of idle streams
  iteration,   \* pool.iteration
  pc,          \* where each thread is
  conn         \* conn[t]: the Connection thread t owns, when pc[t] = "held"

vars == <<lock, poisoned, len, streams, iteration, pc, conn>>

(***************************************************************************)
(* A pooled stream carries its id.  born, the value of iteration when the  *)
(* stream was opened, is not stored by the code: it tells two streams with *)
(* the same id apart.                                                      *)
(***************************************************************************)
Stream == [id : Nat, born : Nat]

Connection == [id : Nat, born : Nat, iteration : Nat]

NoConnection == [id |-> 0, born |-> 0, iteration |-> 0]

(***************************************************************************)
(* "idle": not using the pool.  "lock": blocked on the pool mutex, either  *)
(* on entry to acquire_stream or on return from Condvar::wait.  "loop":    *)
(* in the loop, mutex held.  "wait": in Condvar::wait.  "held": owns a     *)
(* Connection.                                                             *)
(***************************************************************************)
Places == {"idle", "lock", "loop", "wait", "held"}

Waiting == {t \in Threads : pc[t] = "wait"}

Lent == {t \in Threads : pc[t] = "held"}

Init ==
  /\ lock = NoThread
  /\ poisoned = FALSE
  /\ len = 0
  /\ streams = <<>>
  /\ iteration = 0
  /\ pc = [t \in Threads |-> "idle"]
  /\ conn = [t \in Threads |-> NoConnection]

-----------------------------------------------------------------------------
(* acquire_stream *)

Top == streams[Len(streams)]

\* Mutant: the stream is read but stays in the pool.
PopStreamKeeps == streams' = streams

PopStream == streams' = SubSeq(streams, 1, Len(streams) - 1)

\* acquire_stream returns, or blocks, and the guard of the mutex is dropped.
LeaveTo(t, place) ==
  /\ lock' = NoThread
  /\ pc' = [pc EXCEPT ![t] = place]

ReturnConnection(t, id, born) ==
  /\ LeaveTo(t, "held")
  /\ conn' = [conn EXCEPT ![t] = [id |-> id, born |-> born, iteration |-> iteration]]

\* A thread calls acquire_stream.
CheckOut(t) ==
  /\ pc[t] = "idle"
  /\ pc' = [pc EXCEPT ![t] = "lock"]
  /\ UNCHANGED <<lock, poisoned, len, streams, iteration, conn>>

Lock(t) ==
  /\ pc[t] = "lock"
  /\ lock = NoThread
  /\ ~poisoned
  /\ lock' = t
  /\ pc' = [pc EXCEPT ![t] = "loop"]
  /\ UNCHANGED <<poisoned, len, streams, iteration, conn>>

\* lock()? and wait()? return the error of a poisoned mutex.
LockPoisoned(t) ==
  /\ pc[t] = "lock"
  /\ lock = NoThread
  /\ poisoned
  /\ pc' = [pc EXCEPT ![t] = "idle"]
  /\ UNCHANGED <<lock, poisoned, len, streams, iteration, conn>>

InLoop(t) == lock = t /\ pc[t] = "loop"

MustFill(t) == InLoop(t) /\ len < MinPoolSize

MayPop(t) == InLoop(t) /\ len >= MinPoolSize /\ streams # <<>>

Exhausted(t) == InLoop(t) /\ len >= MinPoolSize /\ streams = <<>>

\* Mutant: off by one.
AtMaxSizeOffByOne == MaxPoolSize # 0 /\ len = MaxPoolSize + 1

AtMaxSize == MaxPoolSize # 0 /\ len = MaxPoolSize

MayOpen(t) == Exhausted(t) /\ ~AtMaxSize

Fill(t) ==
  /\ MustFill(t)
  /\ len < LenBound
  /\ len' = len + 1
  /\ streams' = Append(streams, [id |-> len + 1, born |-> iteration])
  /\ UNCHANGED <<lock, poisoned, iteration, pc, conn>>

\* Connecting or the handshake fails; what was filled so far stays.
FillFails(t) ==
  /\ MustFill(t)
  /\ LeaveTo(t, "idle")
  /\ UNCHANGED <<poisoned, len, streams, iteration, conn>>

PopFresh(t) ==
  /\ MayPop(t)
  /\ PopStream
  /\ ReturnConnection(t, Top.id, Top.born)
  /\ UNCHANGED <<poisoned, len, iteration>>

\* The stream was idle for too long: it is closed, len keeps counting it.
PopIdle(t) ==
  /\ MayPop(t)
  /\ IdleTimeout
  /\ PopStream
  /\ UNCHANGED <<lock, poisoned, len, iteration, pc, conn>>

\* ts.elapsed().unwrap() panics when the clock is behind ts.
PopPanics(t) ==
  /\ MayPop(t)
  /\ IdleTimeout
  /\ ClockSteps
  /\ PopStream
  /\ poisoned' = TRUE
  /\ LeaveTo(t, "idle")
  /\ UNCHANGED <<len, iteration, conn>>

\* So does the one in ServerDescription::update, after a handshake.
HandshakePanics(t) ==
  /\ MustFill(t) \/ MayOpen(t)
  /\ ClockSteps
  /\ poisoned' = TRUE
  /\ LeaveTo(t, "idle")
  /\ UNCHANGED <<len, streams, iteration, conn>>

Wait(t) ==
  /\ Exhausted(t)
  /\ AtMaxSize
  /\ LeaveTo(t, "wait")
  /\ UNCHANGED <<poisoned, len, streams, iteration, conn>>

\* A condition variable may wake up without a notification.
SpuriousWakeup(t) ==
  /\ pc[t] = "wait"
  /\ pc' = [pc EXCEPT ![t] = "lock"]
  /\ UNCHANGED <<lock, poisoned, len, streams, iteration, conn>>

Open(t) ==
  /\ MayOpen(t)
  /\ len < LenBound
  /\ len' = len + 1
  /\ ReturnConnection(t, len + 1, iteration)
  /\ UNCHANGED <<poisoned, streams, iteration>>

\* Mutant: the connection is counted before it is opened.
OpenConnectFailsCounted(t) ==
  /\ MayOpen(t)
  /\ len < LenBound
  /\ len' = len + 1
  /\ LeaveTo(t, "idle")
  /\ UNCHANGED <<poisoned, streams, iteration, conn>>

\* Stream::connect returns an error: nothing but the mutex is touched.
OpenConnectFails(t) ==
  /\ MayOpen(t)
  /\ LeaveTo(t, "idle")
  /\ UNCHANGED <<poisoned, len, streams, iteration, conn>>

\* The handshake returns an error: the pool is cleared, nobody is notified.
OpenHandshakeFails(t) ==
  /\ MayOpen(t)
  /\ iteration < ClearBound
  /\ iteration' = iteration + 1
  /\ streams' = <<>>
  /\ len' = 0
  /\ LeaveTo(t, "idle")
  /\ UNCHANGED <<poisoned, conn>>

-----------------------------------------------------------------------------
(* <Connection as Drop>::drop.  has_error is never set by the code. *)

DropConnection(t) ==
  /\ pc[t] = "held"
  /\ lock = NoThread
  /\ conn' = [conn EXCEPT ![t] = NoConnection]
  /\ UNCHANGED <<lock, poisoned, len, iteration>>

\* Mutant: the iteration is not compared.
MayReturnStale(t) == ~poisoned

MayReturn(t) == ~poisoned /\ conn[t].iteration = iteration

\* Mutant: the waiting threads are not notified.
DoneWithoutNotify(t) == pc' = [pc EXCEPT ![t] = "idle"]

\* Condvar::notify_one wakes any one waiting thread, if there is one.
DoneAndNotifyOne(t) ==
  \/ /\ Waiting = {}
     /\ pc' = [pc EXCEPT ![t] = "idle"]
  \/ \E w \in Waiting : pc' = [pc EXCEPT ![t] = "idle", ![w] = "lock"]

CheckIn(t) ==
  /\ DropConnection(t)
  /\ MayReturn(t)
  /\ streams' = Append(streams, [id |-> conn[t].id, born |-> conn[t].born])
  /\ DoneAndNotifyOne(t)

\* Mutant: a stale connection is subtracted from len.
CloseStaleUncounted(t) ==
  /\ pc[t] = "held"
  /\ lock = NoThread
  /\ ~MayReturn(t)
  /\ conn' = [conn EXCEPT ![t] = NoConnection]
  /\ len' = len - 1
  /\ pc' = [pc EXCEPT ![t] = "idle"]
  /\ UNCHANGED <<lock, poisoned, streams, iteration>>

\* A stale connection, or one of a poisoned pool, is closed.
CloseStale(t) ==
  /\ DropConnection(t)
  /\ ~MayReturn(t)
  /\ pc' = [pc EXCEPT ![t] = "idle"]
  /\ UNCHANGED streams

-----------------------------------------------------------------------------
LoopStep(t) ==
  \/ Fill(t) \/ FillFails(t)
  \/ PopFresh(t) \/ PopIdle(t) \/ PopPanics(t)
  \/ Wait(t)
  \/ Open(t) \/ OpenConnectFails(t) \/ OpenHandshakeFails(t)
  \/ HandshakePanics(t)

Next ==
  \E t \in Threads :
    \/ CheckOut(t)
    \/ Lock(t)
    \/ LockPoisoned(t)
    \/ LoopStep(t)
    \/ SpuriousWakeup(t)
    \/ CheckIn(t)
    \/ CloseStale(t)

Spec == Init /\ [][Next]_vars

(***************************************************************************)
(* A thread that can take the mutex does so in the end, connecting and     *)
(* shaking hands end with a result, and every Connection is dropped.       *)
(* Nothing is assumed of new calls, spurious wakeups and the order in      *)
(* which threads get the mutex.                                            *)
(***************************************************************************)
Fairness ==
  \A t \in Threads :
    /\ WF_vars(Lock(t) \/ LockPoisoned(t))
    /\ WF_vars(LoopStep(t))
    /\ WF_vars(CheckIn(t) \/ CloseStale(t))

FairSpec == Spec /\ Fairness

-----------------------------------------------------------------------------
(* Properties *)

TypeOK ==
  /\ lock \in Threads \cup {NoThread}
  /\ poisoned \in BOOLEAN
  /\ len \in Nat
  /\ streams \in Seq(Stream)
  /\ iteration \in Nat
  /\ pc \in [Threads -> Places]
  /\ conn \in [Threads -> Connection]

\* The options make sense: the code accepts any two numbers.
SaneSizes == MaxPoolSize # 0 => MinPoolSize <= MaxPoolSize

\* The open connections of the current iteration.
IdleIds == {streams[i].id : i \in DOMAIN streams}

LentIds == {conn[t].id : t \in {u \in Lent : conn[u].iteration = iteration}}

\* No stream is in two places: idle twice, idle and lent, or lent twice, and
\* every id of the iteration was counted by len.  A thread that popped what
\* another one still holds would interleave two commands on one socket.
ExclusiveStreams ==
  /\ \A i, j \in DOMAIN streams : streams[i] = streams[j] => i = j
  /\ \A i \in DOMAIN streams, t \in Lent :
       streams[i] # [id |-> conn[t].id, born |-> conn[t].born]
  /\ \A t, u \in Lent :
       conn[t].id = conn[u].id /\ conn[t].born = conn[u].born => t = u

\* A stream opened before the pool was cleared is never handed out again:
\* all idle streams, and all connections that may still be checked in, were
\* opened in the iteration they claim.
NoStaleStreams ==
  /\ \A i \in DOMAIN streams : streams[i].born = iteration
  /\ \A t \in Lent : conn[t].born = conn[t].iteration

\* As long as no stream is dropped on the floor (idle timeout, poisoned mutex),
\* each of the len connections is idle or lent: no capacity is lost.
SlotsAccounted ==
  ~IdleTimeout /\ ~poisoned => 1 .. len = IdleIds \cup LentIds

\* topology.rs:617: a thread waits only when the pool has reached its maximum
\* size, that is when MaxPoolSize connections are open.
WaitOnlyWhenFull ==
  ~poisoned /\ Waiting # {} => Cardinality(IdleIds \cup LentIds) = MaxPoolSize

\* No notification is lost: while threads wait, there are at least as many
\* threads on their way to the streams as there are idle streams.
NoLostWakeup ==
  ~poisoned /\ SaneSizes /\ Waiting # {}
    => Len(streams) <= Cardinality({t \in Threads : pc[t] \in {"lock", "loop"}})

\* topology.rs:617 again: a connection is opened for a caller only below the
\* maximum size.
OpensBelowMax ==
  [][\A t \in Threads : Open(t) /\ MaxPoolSize # 0 => len < MaxPoolSize]_vars

\* A pool that reached its maximum size is full for good: it is never cleared
\* and never shrinks, so connections that broke in the meantime are lent again.
FullForGood == [][AtMaxSize /\ SaneSizes => len' = len /\ iteration' = iteration]_vars

\* Waiting threads are not forgotten: the set of waiting threads changes.
WaitersMove ==
  \A S \in (SUBSET Threads) \ {{}} : (Waiting = S) ~> (Waiting # S)

-----------------------------------------------------------------------------
(* The pool implements ConnectionLease *)

Lease == INSTANCE ConnectionLease WITH
  Borrowers  <- Threads,
  Limit      <- MaxPoolSize,
  None       <- NoThread,
  generation <- iteration,
  free       <- {[generation |-> streams[i].born, number |-> streams[i].id] :
                   i \in DOMAIN streams},
  lent       <- [t \in Threads |->
                   IF pc[t] = "held"
                     THEN [generation |-> conn[t].born, number |-> conn[t].id]
                     ELSE NoThread]

\* Every behaviour of the pool is one of the abstract lending discipline:
\* exclusive ownership, no stale connection lent, never more than MaxPoolSize.
ImplementsLease == Lease!LeaseSpec
=============================================================================
