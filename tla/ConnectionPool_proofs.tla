------------------------ MODULE ConnectionPool_proofs ------------------------
(***************************************************************************)
(* Theorems about ConnectionPool for every set of threads, every pair of   *)
(* pool sizes and every bound.  One is about the pools of MCServers.       *)
(***************************************************************************)
EXTENDS MCServers, CommonTheorems, FiniteSetTheorems

\* A new pool has values of the types, and every step of a thread keeps them.
LEMMA TypeInit == Init => TypeOK
<1>1. NoConnection \in Connection
  BY DEF NoConnection, Connection
<1>2. <<>> \in Seq(Stream)
  BY EmptySeq
<1>3. 0 \in Nat
  OBVIOUS
<1> QED
  BY <1>1, <1>2, <1>3, Zenon DEF Init, TypeOK, Places

LEMMA TypeStep ==
  ASSUME TypeOK, [Next]_vars
  PROVE  TypeOK'
<1> USE DEF TypeOK, Places
<1>1. ASSUME NEW t \in Threads, CheckOut(t)
      PROVE  TypeOK'
  BY <1>1 DEF CheckOut
<1>2. ASSUME NEW t \in Threads, Lock(t)
      PROVE  TypeOK'
  BY <1>2 DEF Lock
<1>3. ASSUME NEW t \in Threads, LockPoisoned(t)
      PROVE  TypeOK'
  BY <1>3 DEF LockPoisoned
<1>4. ASSUME NEW t \in Threads, Fill(t)
      PROVE  TypeOK'
  <2>1. [id |-> len + 1, born |-> iteration] \in Stream
    BY DEF Stream
  <2> QED
    BY <1>4, <2>1, PushFacts DEF Fill
<1>5. ASSUME NEW t \in Threads, FillFails(t) \/ OpenConnectFails(t) \/ HandshakePanics(t)
      PROVE  TypeOK'
  BY <1>5 DEF FillFails, OpenConnectFails, HandshakePanics, LeaveTo
<1>6. ASSUME NEW t \in Threads, PopFresh(t)
      PROVE  TypeOK'
  <2>1. streams # <<>>
    BY <1>6 DEF PopFresh, MayPop
  <2>2. streams' \in Seq(Stream) /\ Top \in Stream
    BY <1>6, <2>1, PopFacts DEF PopFresh, PopStream, Top
  <2>3. [id |-> Top.id, born |-> Top.born, iteration |-> iteration] \in Connection
    BY <2>2 DEF Stream, Connection
  <2> QED
    BY <1>6, <2>2, <2>3 DEF PopFresh, ReturnConnection, LeaveTo
<1>7. ASSUME NEW t \in Threads, PopIdle(t) \/ PopPanics(t)
      PROVE  TypeOK'
  <2>1. streams # <<>>
    BY <1>7 DEF PopIdle, PopPanics, MayPop
  <2>2. streams' \in Seq(Stream)
    BY <1>7, <2>1, PopFacts DEF PopIdle, PopPanics, PopStream
  <2> QED
    BY <1>7, <2>2 DEF PopIdle, PopPanics, LeaveTo
<1>8. ASSUME NEW t \in Threads, Wait(t) \/ SpuriousWakeup(t)
      PROVE  TypeOK'
  BY <1>8 DEF Wait, SpuriousWakeup, LeaveTo
<1>9. ASSUME NEW t \in Threads, Open(t)
      PROVE  TypeOK'
  <2>1. [id |-> len + 1, born |-> iteration, iteration |-> iteration] \in Connection
    BY DEF Connection
  <2> QED
    BY <1>9, <2>1 DEF Open, ReturnConnection, LeaveTo
<1>10. ASSUME NEW t \in Threads, OpenHandshakeFails(t)
       PROVE  TypeOK'
  BY <1>10 DEF OpenHandshakeFails, LeaveTo
<1>11. ASSUME NEW t \in Threads, CheckIn(t)
       PROVE  TypeOK'
  <2>1. [id |-> conn[t].id, born |-> conn[t].born] \in Stream
    BY DEF Stream, Connection
  <2>2. streams' \in Seq(Stream)
    BY <1>11, <2>1, PushFacts DEF CheckIn
  <2>3. pc' \in [Threads -> Places]
    BY <1>11 DEF CheckIn, DoneAndNotifyOne, Waiting
  <2>4. conn' \in [Threads -> Connection]
    BY <1>11 DEF CheckIn, DropConnection, NoConnection, Connection
  <2> QED
    BY <1>11, <2>2, <2>3, <2>4 DEF CheckIn, DropConnection
<1>12. ASSUME NEW t \in Threads, CloseStale(t)
       PROVE  TypeOK'
  BY <1>12 DEF CloseStale, DropConnection, NoConnection, Connection
<1>13. CASE UNCHANGED vars
  BY <1>13 DEF vars
<1> QED
  BY <1>1, <1>2, <1>3, <1>4, <1>5, <1>6, <1>7, <1>8, <1>9, <1>10, <1>11, <1>12, <1>13
  DEF Next, LoopStep

(***************************************************************************)
(* The variables always have values of their types: no counter underflows, *)
(* no thread is lost and the stack holds streams only.                     *)
(***************************************************************************)
THEOREM TypeCorrect == Spec => []TypeOK
<1>1. TypeOK /\ [Next]_vars => TypeOK'
  BY TypeStep
<1> QED
  BY <1>1, TypeInit, PTL DEF Spec

-----------------------------------------------------------------------------
(***************************************************************************)
(* ExclusiveStreams is not inductive: that a stream opened now differs     *)
(* from the others needs that len counts the ids of the current iteration, *)
(* and that what is lent from an earlier iteration is marked as such.      *)
(***************************************************************************)
IdsCounted ==
  /\ \A i \in 1 .. Len(streams) :
       streams[i].born = iteration /\ streams[i].id <= len
  /\ \A t \in Lent :
       /\ conn[t].born = conn[t].iteration
       /\ conn[t].iteration <= iteration
       /\ conn[t].iteration = iteration => conn[t].id <= len

Exclusive ==
  /\ \A i, j \in 1 .. Len(streams) :
       streams[i].id = streams[j].id => i = j
  /\ \A i \in 1 .. Len(streams), t \in Lent :
       conn[t].born = iteration => streams[i].id # conn[t].id
  /\ \A t, u \in Lent :
       conn[t].id = conn[u].id /\ conn[t].born = conn[u].born => t = u

PoolInv == IdsCounted /\ Exclusive

\* What the invariant says of the properties the runs check.
LEMMA PoolInvImplies ==
  ASSUME TypeOK, PoolInv
  PROVE  ExclusiveStreams /\ NoStaleStreams
<1>1. DOMAIN streams = 1 .. Len(streams) /\ \A i \in 1 .. Len(streams) : streams[i] \in Stream
  BY ElementOfSeq DEF TypeOK
<1>2. \A t \in Lent : conn[t] \in Connection
  BY DEF TypeOK, Lent
<1> QED
  BY <1>1, <1>2 DEF PoolInv, IdsCounted, Exclusive, ExclusiveStreams, NoStaleStreams,
                    Stream, Connection

\* A stream that is not yet counted joins the stack.
LEMMA PushKeepsPoolInv ==
  ASSUME TypeOK, TypeOK', PoolInv, NEW x \in Stream,
         streams' = Append(streams, x),
         iteration' = iteration, len' >= len,
         Lent' \subseteq Lent, \A t \in Lent' : conn'[t] = conn[t],
         x.born = iteration, x.id <= len',
         \A i \in 1 .. Len(streams) : streams[i].id # x.id,
         \A t \in Lent' : conn[t].born = iteration => conn[t].id # x.id
  PROVE  PoolInv'
<1>1. PICK n \in Nat : n = Len(streams)
  BY LenProperties DEF TypeOK
<1>2. /\ Len(streams') = n + 1
      /\ \A i \in 1 .. n : streams'[i] = streams[i]
      /\ streams'[n + 1] = x
  BY <1>1, PushFacts DEF TypeOK
<1>3. \A i \in 1 .. n : streams[i] \in Stream
  BY <1>1, ElementOfSeq DEF TypeOK
<1>4. \A t \in Lent : conn[t] \in Connection
  BY DEF TypeOK, Lent
<1>5. \A i \in 1 .. n + 1 : i \in 1 .. n \/ i = n + 1
  OBVIOUS
<1>6. \A i \in 1 .. n + 1 : streams'[i].born = iteration /\ streams'[i].id <= len'
  BY <1>1, <1>2, <1>3, <1>5 DEF PoolInv, IdsCounted, TypeOK, Stream
<1>7. IdsCounted'
  <2>1. ASSUME NEW t \in Lent'
        PROVE  /\ conn'[t].born = conn'[t].iteration
               /\ conn'[t].iteration <= iteration'
               /\ conn'[t].iteration = iteration' => conn'[t].id <= len'
    <3>1. t \in Lent /\ conn'[t] = conn[t] /\ conn[t].id \in Nat
      BY <1>4 DEF Connection
    <3>2. len \in Nat /\ len' \in Nat
      BY DEF TypeOK
    <3> QED
      BY <3>1, <3>2 DEF PoolInv, IdsCounted
  <2> QED
    BY <1>2, <1>6, <2>1 DEF IdsCounted
<1>8. \A i, j \in 1 .. n + 1 : streams'[i].id = streams'[j].id => i = j
  BY <1>1, <1>2, <1>5 DEF PoolInv, Exclusive
<1>9. \A i \in 1 .. n + 1, t \in Lent' :
        conn[t].born = iteration => streams'[i].id # conn[t].id
  BY <1>1, <1>2, <1>5 DEF PoolInv, Exclusive
<1>10. Exclusive'
  BY <1>2, <1>8, <1>9 DEF PoolInv, Exclusive
<1> QED
  BY <1>7, <1>10 DEF PoolInv

\* A pop leaves a stack of other streams.
LEMMA PopKeepsPoolInv ==
  ASSUME TypeOK, TypeOK', PoolInv, streams # <<>>, PopStream,
         UNCHANGED <<iteration, len, conn>>, Lent' = Lent
  PROVE  PoolInv'
<1>1. Len(streams) \in Nat \ {0}
      /\ Len(streams') = Len(streams) - 1
      /\ \A i \in 1 .. Len(streams) - 1 : streams'[i] = streams[i]
  BY PopFacts DEF TypeOK, PopStream
<1> QED
  BY <1>1 DEF PoolInv, IdsCounted, Exclusive

\* Nothing the invariant speaks of changes.
LEMMA StutterKeepsPoolInv ==
  ASSUME PoolInv, UNCHANGED <<streams, iteration, len, conn>>, Lent' = Lent
  PROVE  PoolInv'
  BY DEF PoolInv, IdsCounted, Exclusive

\* A step that does not lend or take back a Connection keeps Lent.
LEMMA LentKept ==
  ASSUME TypeOK, NEW t \in Threads, pc[t] # "held",
         NEW place \in Places \ {"held"}, pc' = [pc EXCEPT ![t] = place]
  PROVE  Lent' = Lent
  BY DEF Lent, TypeOK

\* A step that lends a Connection adds its thread to Lent.
LEMMA LentGrows ==
  ASSUME TypeOK, NEW t \in Threads, pc[t] # "held", NEW k,
         pc' = [pc EXCEPT ![t] = "held"], conn' = [conn EXCEPT ![t] = k]
  PROVE  /\ Lent' = Lent \cup {t} /\ t \notin Lent
         /\ conn'[t] = k
         /\ \A u \in Lent : conn'[u] = conn[u]
  BY DEF Lent, TypeOK

\* A step that drops a Connection takes its thread from Lent.
LEMMA LentShrinks ==
  ASSUME TypeOK, NEW t \in Threads, DropConnection(t),
         DoneAndNotifyOne(t) \/ pc' = [pc EXCEPT ![t] = "idle"]
  PROVE  Lent' = Lent \ {t} /\ t \in Lent /\ \A u \in Lent' : conn'[u] = conn[u]
  BY DEF Lent, TypeOK, DropConnection, DoneAndNotifyOne, Waiting

(***************************************************************************)
(* Every step of every thread keeps PoolInv.                               *)
(***************************************************************************)
LEMMA PoolInvStep ==
  ASSUME TypeOK, TypeOK', PoolInv, [Next]_vars
  PROVE  PoolInv'
<1> USE DEF InLoop
<1>1. ASSUME NEW t \in Threads, CheckOut(t) \/ Lock(t) \/ LockPoisoned(t) \/ SpuriousWakeup(t)
      PROVE  PoolInv'
  <2>1. Lent' = Lent
    BY <1>1, LentKept DEF CheckOut, Lock, LockPoisoned, SpuriousWakeup, Places
  <2> QED
    BY <1>1, <2>1, StutterKeepsPoolInv DEF CheckOut, Lock, LockPoisoned, SpuriousWakeup
<1>2. ASSUME NEW t \in Threads,
             FillFails(t) \/ OpenConnectFails(t) \/ HandshakePanics(t) \/ Wait(t)
      PROVE  PoolInv'
  <2>1. Lent' = Lent
    BY <1>2, LentKept DEF FillFails, OpenConnectFails, HandshakePanics, Wait, LeaveTo,
                          MustFill, MayOpen, Exhausted, Places
  <2> QED
    BY <1>2, <2>1, StutterKeepsPoolInv DEF FillFails, OpenConnectFails, HandshakePanics, Wait
<1>3. ASSUME NEW t \in Threads, Fill(t)
      PROVE  PoolInv'
  <2> DEFINE x == [id |-> len + 1, born |-> iteration]
  <2>1. Lent' = Lent
    BY <1>3 DEF Fill, Lent
  <2>2. /\ x \in Stream /\ x.born = iteration /\ x.id = len + 1
        /\ len' = len + 1 /\ len \in Nat
    BY <1>3 DEF Fill, Stream, TypeOK
  <2>3. \A i \in 1 .. Len(streams) : streams[i].id # x.id
    BY <2>2, ElementOfSeq DEF PoolInv, IdsCounted, TypeOK, Stream
  <2>4. \A u \in Lent' : conn[u].born = iteration => conn[u].id # x.id
    BY <2>1, <2>2 DEF PoolInv, IdsCounted, TypeOK, Connection, Lent
  <2>5. streams' = Append(streams, x) /\ iteration' = iteration /\ conn' = conn
    BY <1>3 DEF Fill
  <2> HIDE DEF x
  <2> QED
    BY <2>1, <2>2, <2>3, <2>4, <2>5, PushKeepsPoolInv
<1>4. ASSUME NEW t \in Threads, PopIdle(t) \/ PopPanics(t)
      PROVE  PoolInv'
  <2>1. Lent' = Lent
    BY <1>4, LentKept DEF PopIdle, PopPanics, MayPop, LeaveTo, Places, Lent
  <2> QED
    BY <1>4, <2>1, PopKeepsPoolInv DEF PopIdle, PopPanics, MayPop
<1>5. ASSUME NEW t \in Threads, PopFresh(t)
      PROVE  PoolInv'
  <2>1. PICK n \in Nat \ {0} : n = Len(streams)
    BY <1>5, PopFacts DEF PopFresh, MayPop, TypeOK
  <2>2. /\ Len(streams') = n - 1
        /\ \A i \in 1 .. n - 1 : streams'[i] = streams[i]
        /\ streams[n] \in Stream
    BY <1>5, <2>1, PopFacts DEF PopFresh, MayPop, PopStream, TypeOK
  <2>3. UNCHANGED <<len, iteration>> /\ pc[t] # "held"
    BY <1>5 DEF PopFresh, MayPop
  <2> DEFINE k == [id |-> streams[n].id, born |-> streams[n].born, iteration |-> iteration]
  <2>4. /\ Lent' = Lent \cup {t} /\ t \notin Lent /\ conn'[t] = k
        /\ \A u \in Lent : conn'[u] = conn[u]
    BY <1>5, <2>1, <2>3, LentGrows DEF PopFresh, ReturnConnection, LeaveTo, Top
  <2>5. /\ k.id = streams[n].id /\ k.born = streams[n].born /\ k.iteration = iteration
        /\ streams[n].born = iteration /\ streams[n].id <= len
    BY <2>1 DEF PoolInv, IdsCounted
  <2>6. \A u \in Lent : conn[u].born = iteration => conn[u].id # k.id
    BY <2>1, <2>5 DEF PoolInv, Exclusive
  <2> HIDE DEF k
  <2>7. IdsCounted'
    <3>1. \A i \in 1 .. Len(streams') : streams'[i].born = iteration /\ streams'[i].id <= len
      BY <2>1, <2>2 DEF PoolInv, IdsCounted
    <3>2. \A u \in Lent' :
            /\ conn'[u].born = conn'[u].iteration
            /\ conn'[u].iteration <= iteration
            /\ conn'[u].iteration = iteration => conn'[u].id <= len
      BY <2>4, <2>5 DEF PoolInv, IdsCounted, TypeOK
    <3> QED
      BY <2>3, <3>1, <3>2 DEF IdsCounted
  <2>8. Exclusive'
    BY <2>1, <2>2, <2>3, <2>4, <2>5, <2>6 DEF PoolInv, Exclusive
  <2> QED
    BY <2>7, <2>8 DEF PoolInv
<1>6. ASSUME NEW t \in Threads, Open(t)
      PROVE  PoolInv'
  <2> DEFINE k == [id |-> len + 1, born |-> iteration, iteration |-> iteration]
  <2>1. /\ len' = len + 1 /\ len \in Nat
        /\ UNCHANGED <<streams, iteration>>
        /\ pc[t] # "held"
    BY <1>6 DEF Open, MayOpen, Exhausted, TypeOK
  <2>2. /\ Lent' = Lent \cup {t} /\ t \notin Lent /\ conn'[t] = k
        /\ \A u \in Lent : conn'[u] = conn[u]
    BY <1>6, <2>1, LentGrows DEF Open, ReturnConnection, LeaveTo
  <2>3. k.id = len + 1 /\ k.born = iteration /\ k.iteration = iteration
    OBVIOUS
  <2>4. \A u \in Lent : conn[u].id \in Nat /\ conn[u].iteration \in Nat
    BY DEF TypeOK, Lent, Connection
  <2>5. \A i \in 1 .. Len(streams) : streams[i].id \in Nat
    <3>1. \A i \in 1 .. Len(streams) : streams[i] \in Stream
      BY ElementOfSeq DEF TypeOK
    <3> QED
      BY <3>1 DEF Stream
  <2> HIDE DEF k
  <2>6. IdsCounted'
    BY <2>1, <2>2, <2>3, <2>4, <2>5 DEF PoolInv, IdsCounted, TypeOK
  <2>7. Exclusive'
    <3>1. \A u \in Lent : conn[u].born = iteration => conn[u].id <= len
      BY <2>4 DEF PoolInv, IdsCounted
    <3>2. \A i \in 1 .. Len(streams), u \in Lent' :
            conn'[u].born = iteration => streams[i].id # conn'[u].id
      BY <2>1, <2>2, <2>3, <2>5 DEF PoolInv, IdsCounted, Exclusive
    <3>3. \A u, v \in Lent' :
            conn'[u].id = conn'[v].id /\ conn'[u].born = conn'[v].born => u = v
      BY <2>1, <2>2, <2>3, <2>4, <3>1 DEF PoolInv, Exclusive
    <3> QED
      BY <2>1, <3>2, <3>3 DEF PoolInv, Exclusive
  <2> QED
    BY <2>6, <2>7 DEF PoolInv
<1>7. ASSUME NEW t \in Threads, OpenHandshakeFails(t)
      PROVE  PoolInv'
  <2>1. Lent' = Lent
    BY <1>7, LentKept DEF OpenHandshakeFails, LeaveTo, MayOpen, Exhausted, Places
  <2>2. \A u \in Lent : conn[u].iteration \in Nat
    BY DEF TypeOK, Lent, Connection
  <2>3. Len(streams') = 0 /\ iteration' = iteration + 1 /\ conn' = conn /\ iteration \in Nat
    BY <1>7 DEF OpenHandshakeFails, TypeOK
  <2> QED
    BY <2>1, <2>2, <2>3 DEF PoolInv, IdsCounted, Exclusive
<1>8. ASSUME NEW t \in Threads, CheckIn(t)
      PROVE  PoolInv'
  <2> DEFINE x == [id |-> conn[t].id, born |-> conn[t].born]
  <2>1. Lent' = Lent \ {t} /\ t \in Lent /\ \A u \in Lent' : conn'[u] = conn[u]
    BY <1>8, LentShrinks DEF CheckIn
  <2>2. conn[t] \in Connection /\ conn[t].iteration = iteration /\ conn[t].born = iteration
    BY <1>8, <2>1 DEF CheckIn, MayReturn, TypeOK, PoolInv, IdsCounted
  <2>3. x \in Stream /\ x.born = iteration /\ x.id = conn[t].id /\ x.id <= len
    BY <2>1, <2>2 DEF Stream, Connection, PoolInv, IdsCounted
  <2>4. \A i \in 1 .. Len(streams) : streams[i].id # x.id
    BY <2>1, <2>2, <2>3 DEF PoolInv, Exclusive
  <2>5. \A u \in Lent' : conn[u].born = iteration => conn[u].id # x.id
    BY <2>1, <2>2, <2>3 DEF PoolInv, Exclusive
  <2>6. streams' = Append(streams, x) /\ iteration' = iteration /\ len' = len /\ len \in Nat
    BY <1>8 DEF CheckIn, DropConnection, TypeOK
  <2> HIDE DEF x
  <2> QED
    BY <2>1, <2>3, <2>4, <2>5, <2>6, PushKeepsPoolInv
<1>9. ASSUME NEW t \in Threads, CloseStale(t)
      PROVE  PoolInv'
  <2>1. Lent' = Lent \ {t} /\ \A u \in Lent' : conn'[u] = conn[u]
    BY <1>9, LentShrinks DEF CloseStale
  <2>2. UNCHANGED <<streams, len, iteration>>
    BY <1>9 DEF CloseStale, DropConnection
  <2> QED
    BY <2>1, <2>2 DEF PoolInv, IdsCounted, Exclusive
<1>10. CASE UNCHANGED vars
  <2>1. Lent' = Lent
    BY <1>10 DEF vars, Lent
  <2> QED
    BY <1>10, <2>1, StutterKeepsPoolInv DEF vars
<1> QED
  BY <1>1, <1>2, <1>3, <1>4, <1>5, <1>6, <1>7, <1>8, <1>9, <1>10 DEF Next, LoopStep

\* A new pool has no streams; hence the invariant holds at all times.
LEMMA PoolInvInit == Init => PoolInv
  BY EmptySeq DEF Init, PoolInv, IdsCounted, Exclusive, Lent

LEMMA PoolInvAlways == Spec => []PoolInv
<1>1. TypeOK /\ TypeOK' /\ PoolInv /\ [Next]_vars => PoolInv'
  BY PoolInvStep
<1> QED
  BY <1>1, PoolInvInit, TypeCorrect, PTL DEF Spec

(***************************************************************************)
(* No stream is ever in two hands, and no stream opened before a clear is  *)
(* ever handed out after it.                                               *)
(***************************************************************************)
THEOREM StreamsExclusive == Spec => [](ExclusiveStreams /\ NoStaleStreams)
<1>1. TypeOK /\ PoolInv => ExclusiveStreams /\ NoStaleStreams
  BY PoolInvImplies
<1> QED
  BY <1>1, PoolInvAlways, TypeCorrect, PTL

-----------------------------------------------------------------------------
(***************************************************************************)
(* A pool that has reached its maximum size is never cleared and never     *)
(* shrinks again: only a failing handshake of a new connection clears it,  *)
(* and a full pool opens none.                                             *)
(***************************************************************************)
THEOREM FullPoolStaysFull == Spec => FullForGood
<1>1. TypeOK /\ [Next]_vars =>
        [AtMaxSize /\ SaneSizes => len' = len /\ iteration' = iteration]_vars
  <2> SUFFICES ASSUME TypeOK, Next, AtMaxSize, SaneSizes
               PROVE  len' = len /\ iteration' = iteration
    OBVIOUS
  <2> USE DEF TypeOK
  <2>1. len \in Nat /\ len = MaxPoolSize /\ MinPoolSize <= len
    BY OptionAssumption DEF AtMaxSize, SaneSizes
  <2>2. ASSUME NEW t \in Threads, LoopStep(t)
        PROVE  len' = len /\ iteration' = iteration
    <3>1. ~MustFill(t) /\ ~MayOpen(t)
      BY <2>1, OptionAssumption DEF MustFill, MayOpen
    <3> QED
      BY <2>2, <3>1 DEF LoopStep, Fill, FillFails, PopFresh, PopIdle, PopPanics, Wait, Open,
                        OpenConnectFails, OpenHandshakeFails, HandshakePanics
  <2> QED
    BY <2>2 DEF Next, CheckOut, Lock, LockPoisoned, SpuriousWakeup, CheckIn, CloseStale,
                DropConnection
<1> QED
  BY <1>1, TypeCorrect, PTL DEF Spec, FullForGood

-----------------------------------------------------------------------------
(***************************************************************************)
(* With MinPoolSize <= MaxPoolSize, len never exceeds MaxPoolSize, and a   *)
(* connection is opened for a caller only below it.                        *)
(***************************************************************************)
LenWithinMax == MaxPoolSize # 0 => len <= MaxPoolSize

THEOREM MaxSizeRespected == ASSUME SaneSizes PROVE Spec => []LenWithinMax /\ OpensBelowMax
<1>1. Init => LenWithinMax
  BY OptionAssumption DEF Init, LenWithinMax
<1>2. TypeOK /\ LenWithinMax /\ [Next]_vars => LenWithinMax'
  <2> SUFFICES ASSUME TypeOK, LenWithinMax, [Next]_vars
               PROVE  LenWithinMax'
    OBVIOUS
  <2> USE OptionAssumption DEF TypeOK, LenWithinMax
  <2>1. ASSUME NEW t \in Threads, Fill(t)
        PROVE  LenWithinMax'
    BY <2>1, SaneSizes DEF Fill, MustFill, SaneSizes
  <2>2. ASSUME NEW t \in Threads, Open(t)
        PROVE  LenWithinMax'
    BY <2>2 DEF Open, MayOpen, AtMaxSize
  <2>3. ASSUME NEW t \in Threads, OpenHandshakeFails(t)
        PROVE  LenWithinMax'
    BY <2>3 DEF OpenHandshakeFails
  <2>4. ASSUME NEW t \in Threads,
               LoopStep(t), ~Fill(t), ~Open(t), ~OpenHandshakeFails(t)
        PROVE  LenWithinMax'
    BY <2>4 DEF LoopStep, FillFails, PopFresh, PopIdle, PopPanics, Wait, OpenConnectFails,
                HandshakePanics
  <2>5. ASSUME NEW t \in Threads,
               CheckOut(t) \/ Lock(t) \/ LockPoisoned(t) \/ SpuriousWakeup(t) \/ CheckIn(t)
               \/ CloseStale(t)
        PROVE  LenWithinMax'
    BY <2>5 DEF CheckOut, Lock, LockPoisoned, SpuriousWakeup, CheckIn, CloseStale, DropConnection
  <2>6. CASE UNCHANGED vars
    BY <2>6 DEF vars
  <2> QED
    BY <2>1, <2>2, <2>3, <2>4, <2>5, <2>6 DEF Next
<1>3. TypeOK /\ LenWithinMax =>
        \A t \in Threads : Open(t) /\ MaxPoolSize # 0 => len < MaxPoolSize
  BY OptionAssumption DEF TypeOK, LenWithinMax, Open, MayOpen, AtMaxSize
<1> QED
  BY <1>1, <1>2, <1>3, TypeCorrect, PTL DEF Spec, OpensBelowMax
-----------------------------------------------------------------------------
(***************************************************************************)
(* Capacity: who counts as one of the len connections.                     *)
(***************************************************************************)

\* The ids of a stack that is pushed or popped.
LEMMA IdleIdsPushed ==
  ASSUME TypeOK, NEW x \in Stream, streams' = Append(streams, x)
  PROVE  IdleIds' = IdleIds \cup {x.id}
<1>1. PICK n \in Nat : n = Len(streams)
  BY LenProperties DEF TypeOK
<1>2. /\ DOMAIN streams = 1 .. n /\ DOMAIN streams' = 1 .. n + 1
      /\ \A i \in 1 .. n : streams'[i] = streams[i]
      /\ streams'[n + 1] = x
  BY <1>1, PushFacts, LenProperties DEF TypeOK
<1> QED
  BY <1>1, <1>2 DEF IdleIds

LEMMA IdleIdsPopped ==
  ASSUME TypeOK, streams # <<>>, PopStream
  PROVE  IdleIds = IdleIds' \cup {Top.id}
<1>1. PICK n \in Nat \ {0} : n = Len(streams)
  BY PopFacts DEF TypeOK
<1>2. /\ DOMAIN streams = 1 .. n /\ DOMAIN streams' = 1 .. n - 1
      /\ \A i \in 1 .. n - 1 : streams'[i] = streams[i]
      /\ Top = streams[n]
  BY <1>1, PopFacts, LenProperties DEF TypeOK, PopStream, Top
<1> QED
  BY <1>1, <1>2 DEF IdleIds

(***************************************************************************)
(* Every step keeps SlotsAccounted, given that idle streams do not time    *)
(* out and that the mutex is not poisoned; it never recovers from that.    *)
(***************************************************************************)
LEMMA SlotsStep ==
  ASSUME TypeOK, TypeOK', PoolInv, SlotsAccounted, [Next]_vars
  PROVE  SlotsAccounted'
<1> SUFFICES ASSUME ~IdleTimeout, ~poisoned'
             PROVE  1 .. len' = IdleIds' \cup LentIds'
  BY DEF SlotsAccounted
<1> DEFINE Current(t) == t \in Lent /\ conn[t].iteration = iteration
<1>1. LentIds = {conn[u].id : u \in {v \in Lent : Current(v)}}
  BY DEF LentIds
<1>2. ~poisoned => 1 .. len = IdleIds \cup LentIds
  BY DEF SlotsAccounted
<1>3. len \in Nat /\ iteration \in Nat
  BY DEF TypeOK
<1>4. ASSUME UNCHANGED <<poisoned, len, iteration, streams, conn>>, Lent' = Lent
      PROVE  1 .. len' = IdleIds' \cup LentIds'
  BY <1>2, <1>4 DEF IdleIds, LentIds
<1>5. ASSUME NEW t \in Threads, CheckOut(t) \/ Lock(t) \/ LockPoisoned(t) \/ SpuriousWakeup(t)
      PROVE  1 .. len' = IdleIds' \cup LentIds'
  <2>1. Lent' = Lent
    BY <1>5, LentKept DEF CheckOut, Lock, LockPoisoned, SpuriousWakeup, Places
  <2> QED
    BY <1>4, <1>5, <2>1 DEF CheckOut, Lock, LockPoisoned, SpuriousWakeup
<1>6. ASSUME NEW t \in Threads, FillFails(t) \/ OpenConnectFails(t) \/ Wait(t)
      PROVE  1 .. len' = IdleIds' \cup LentIds'
  <2>1. Lent' = Lent
    BY <1>6, LentKept
    DEF FillFails, OpenConnectFails, Wait, LeaveTo, MustFill, MayOpen, Exhausted, InLoop, Places
  <2> QED
    BY <1>4, <1>6, <2>1 DEF FillFails, OpenConnectFails, Wait
<1>7. ASSUME NEW t \in Threads, Fill(t)
      PROVE  1 .. len' = IdleIds' \cup LentIds'
  <2>1. /\ ~poisoned /\ len' = len + 1 /\ LentIds' = LentIds
        /\ streams' = Append(streams, [id |-> len + 1, born |-> iteration])
    BY <1>7 DEF Fill, LentIds, Lent
  <2>2. [id |-> len + 1, born |-> iteration] \in Stream
    BY <1>3 DEF Stream
  <2>3. IdleIds' = IdleIds \cup {len + 1}
    BY <2>1, <2>2, IdleIdsPushed
  <2> QED
    BY <1>2, <1>3, <2>1, <2>3
<1>8. ASSUME NEW t \in Threads, PopFresh(t)
      PROVE  1 .. len' = IdleIds' \cup LentIds'
  <2>1. /\ ~poisoned /\ len' = len /\ iteration' = iteration /\ pc[t] # "held"
        /\ streams # <<>> /\ PopStream
        /\ ReturnConnection(t, Top.id, Top.born)
    BY <1>8 DEF PopFresh, MayPop, InLoop
  <2>2. IdleIds = IdleIds' \cup {Top.id}
    BY <2>1, IdleIdsPopped
  <2> DEFINE k == [id |-> Top.id, born |-> Top.born, iteration |-> iteration]
  <2>3. /\ Lent' = Lent \cup {t} /\ t \notin Lent /\ conn'[t] = k
        /\ \A u \in Lent : conn'[u] = conn[u]
    BY <2>1, LentGrows DEF ReturnConnection, LeaveTo
  <2>4. k.id = Top.id /\ k.iteration = iteration
    OBVIOUS
  <2> HIDE DEF k
  <2>5. LentIds' = LentIds \cup {Top.id}
    BY <2>1, <2>3, <2>4 DEF LentIds
  <2> QED
    BY <1>2, <2>1, <2>2, <2>5
<1>9. ASSUME NEW t \in Threads, Open(t)
      PROVE  1 .. len' = IdleIds' \cup LentIds'
  <2>1. /\ ~poisoned /\ len' = len + 1 /\ iteration' = iteration /\ pc[t] # "held"
        /\ IdleIds' = IdleIds
        /\ ReturnConnection(t, len + 1, iteration)
    BY <1>9 DEF Open, MayOpen, Exhausted, InLoop, IdleIds
  <2> DEFINE k == [id |-> len + 1, born |-> iteration, iteration |-> iteration]
  <2>2. /\ Lent' = Lent \cup {t} /\ t \notin Lent /\ conn'[t] = k
        /\ \A u \in Lent : conn'[u] = conn[u]
    BY <2>1, LentGrows DEF ReturnConnection, LeaveTo
  <2>3. k.id = len + 1 /\ k.iteration = iteration
    OBVIOUS
  <2> HIDE DEF k
  <2>4. LentIds' = LentIds \cup {len + 1}
    BY <2>1, <2>2, <2>3 DEF LentIds
  <2> QED
    BY <1>2, <1>3, <2>1, <2>4
<1>10. ASSUME NEW t \in Threads, OpenHandshakeFails(t)
       PROVE  1 .. len' = IdleIds' \cup LentIds'
  <2>1. len' = 0 /\ streams' = <<>> /\ iteration' = iteration + 1 /\ conn' = conn
    BY <1>10 DEF OpenHandshakeFails
  <2>2. Lent' = Lent
    BY <1>10, LentKept DEF OpenHandshakeFails, MayOpen, Exhausted, InLoop, LeaveTo, Places
  <2>3. \A u \in Lent : conn[u].iteration <= iteration /\ conn[u].iteration \in Nat
    BY DEF PoolInv, IdsCounted, TypeOK, Connection, Lent
  <2>4. LentIds' = {}
    BY <1>3, <2>1, <2>2, <2>3 DEF LentIds
  <2>5. IdleIds' = {}
    BY <2>1 DEF IdleIds
  <2> QED
    BY <2>1, <2>4, <2>5
<1>11. ASSUME NEW t \in Threads, CheckIn(t)
       PROVE  1 .. len' = IdleIds' \cup LentIds'
  <2>1. /\ ~poisoned /\ len' = len /\ iteration' = iteration
        /\ conn[t].iteration = iteration
        /\ streams' = Append(streams, [id |-> conn[t].id, born |-> conn[t].born])
    BY <1>11 DEF CheckIn, DropConnection, MayReturn
  <2>2. Lent' = Lent \ {t} /\ t \in Lent /\ \A u \in Lent' : conn'[u] = conn[u]
    BY <1>11, LentShrinks DEF CheckIn
  <2>3. [id |-> conn[t].id, born |-> conn[t].born] \in Stream
    BY DEF TypeOK, Connection, Stream
  <2>4. IdleIds' = IdleIds \cup {conn[t].id}
    BY <2>1, <2>3, IdleIdsPushed
  <2>5. LentIds = LentIds' \cup {conn[t].id}
    BY <2>1, <2>2 DEF LentIds
  <2> QED
    BY <1>2, <2>1, <2>4, <2>5
<1>12. ASSUME NEW t \in Threads, CloseStale(t)
       PROVE  1 .. len' = IdleIds' \cup LentIds'
  <2>1. /\ ~poisoned /\ UNCHANGED <<len, iteration, streams>>
        /\ conn[t].iteration # iteration
    BY <1>12 DEF CloseStale, DropConnection, MayReturn
  <2>2. Lent' = Lent \ {t} /\ \A u \in Lent' : conn'[u] = conn[u]
    BY <1>12, LentShrinks DEF CloseStale
  <2>3. LentIds' = LentIds
    BY <2>1, <2>2 DEF LentIds
  <2> QED
    BY <1>2, <2>1, <2>3 DEF IdleIds
<1>13. CASE UNCHANGED vars
  BY <1>4, <1>13 DEF vars, Lent
<1>14. \A t \in Threads : ~PopIdle(t) /\ ~PopPanics(t) /\ ~HandshakePanics(t)
  BY DEF PopIdle, PopPanics, HandshakePanics
<1> QED
  BY <1>5, <1>6, <1>7, <1>8, <1>9, <1>10, <1>11, <1>12, <1>13, <1>14 DEF Next, LoopStep

\* A new pool has no slots.
LEMMA SlotsInit == Init => SlotsAccounted
  BY DEF Init, SlotsAccounted, IdleIds, LentIds, Lent

(***************************************************************************)
(* No capacity is lost, of any pool whose streams do not time out.         *)
(***************************************************************************)
THEOREM SlotsAreAccounted == Spec => []SlotsAccounted
<1>1. TypeOK /\ TypeOK' /\ PoolInv /\ SlotsAccounted /\ [Next]_vars => SlotsAccounted'
  BY SlotsStep
<1> QED
  BY <1>1, SlotsInit, TypeCorrect, PoolInvAlways, PTL DEF Spec

(***************************************************************************)
(* The same of the pools of MCServers: the one in focus without faults     *)
(* takes the steps of this pool only.                                      *)
(***************************************************************************)
THEOREM NoSlotIsLost == MCSpec => []NoSlotLost
<1> DEFINE Sound == focus = "pool" => TypeOK /\ PoolInv /\ SlotsAccounted
<1>1. MCInit => Sound
  BY TypeInit, PoolInvInit, SlotsInit DEF MCInit
<1>2. Sound /\ [MCNext]_<<focus, vars, discovery>> => Sound'
  <2> SUFFICES ASSUME focus' = "pool", Sound, [MCNext]_<<focus, vars, discovery>>
               PROVE  TypeOK' /\ PoolInv' /\ SlotsAccounted'
    OBVIOUS
  <2>1. focus = "pool" /\ [Next]_vars
    BY DEF MCNext
  <2>2. TypeOK'
    BY <2>1, TypeStep
  <2> QED
    BY <2>1, <2>2, PoolInvStep, SlotsStep
<1>3. Sound => NoSlotLost
  BY DEF NoSlotLost
<1> QED
  BY <1>1, <1>2, <1>3, PTL DEF MCSpec

-----------------------------------------------------------------------------
(***************************************************************************)
(* Notifications.  Those on their way are the threads that will look at    *)
(* the idle streams; there are finitely many, since all began idle.        *)
(***************************************************************************)
OnTheirWay == {t \in Threads : pc[t] \in {"lock", "loop"}}

\* Threads wait for a full pool only.  A full pool stays full, so nothing but
\* a check-in adds to its streams.
WakeupInv ==
  /\ IsFiniteSet(OnTheirWay)
  /\ ~poisoned /\ SaneSizes /\ Waiting # {} =>
       /\ AtMaxSize
       /\ Len(streams) <= Cardinality(OnTheirWay)

(***************************************************************************)
(* Every step keeps WakeupInv.  One that waits finds no streams; one that  *)
(* takes a stream is on its way no more; one that checks a stream in wakes *)
(* up a waiting thread.                                                    *)
(***************************************************************************)
LEMMA WakeupStep ==
  ASSUME TypeOK, WakeupInv, [Next]_vars
  PROVE  WakeupInv'
<1> DEFINE Way == OnTheirWay
<1> USE DEF WakeupInv
<1>1. /\ Len(streams) \in Nat /\ pc \in [Threads -> Places] /\ len \in Nat
      /\ streams # <<>> => Len(SubSeq(streams, 1, Len(streams) - 1)) = Len(streams) - 1
  BY LenProperties, PopFacts DEF TypeOK
<1>2. ASSUME NEW t \in Threads, CheckOut(t) \/ SpuriousWakeup(t)
      PROVE  WakeupInv'
  <2>1. /\ Way' = Way \cup {t} /\ Waiting' \subseteq Waiting
        /\ UNCHANGED <<poisoned, len, streams>>
    BY <1>1, <1>2 DEF CheckOut, SpuriousWakeup, OnTheirWay, Waiting
  <2>2. /\ IsFiniteSet(Way \cup {t}) /\ Cardinality(Way \cup {t}) \in Nat
        /\ Cardinality(Way) \in Nat /\ Cardinality(Way) <= Cardinality(Way \cup {t})
    BY OneElement
  <2> QED
    BY <1>1, <2>1, <2>2 DEF AtMaxSize, SaneSizes
<1>3. ASSUME NEW t \in Threads, Lock(t)
      PROVE  WakeupInv'
  <2>1. Way' = Way /\ Waiting' = Waiting /\ UNCHANGED <<poisoned, len, streams>>
    BY <1>1, <1>3 DEF Lock, OnTheirWay, Waiting
  <2> QED
    BY <2>1 DEF AtMaxSize, SaneSizes
<1>4. ASSUME NEW t \in Threads, LockPoisoned(t) \/ PopPanics(t) \/ HandshakePanics(t)
      PROVE  WakeupInv'
  <2>1. poisoned' /\ Way' = Way \ {t}
    BY <1>1, <1>4
    DEF LockPoisoned, PopPanics, HandshakePanics, MayPop, MustFill, MayOpen, Exhausted, InLoop,
        LeaveTo, OnTheirWay
  <2> QED
    BY <2>1, OneElement
<1>5. ASSUME NEW t \in Threads,
             \/ Fill(t) \/ FillFails(t) \/ Open(t) \/ OpenConnectFails(t) \/ OpenHandshakeFails(t)
      PROVE  WakeupInv'
  <2>1. /\ Way' = Way \/ Way' = Way \ {t}
        /\ Waiting' = Waiting /\ poisoned' = poisoned
    BY <1>1, <1>5
    DEF Fill, FillFails, Open, OpenConnectFails, OpenHandshakeFails, MustFill, MayOpen, Exhausted,
        InLoop, ReturnConnection, LeaveTo, OnTheirWay, Waiting
  <2>2. len < MinPoolSize \/ ~AtMaxSize
    BY <1>5 DEF Fill, FillFails, Open, OpenConnectFails, OpenHandshakeFails, MustFill, MayOpen
  <2>3. ~poisoned /\ SaneSizes => Waiting = {}
    BY <1>1, <2>2, OptionAssumption DEF AtMaxSize, SaneSizes
  <2> QED
    BY <2>1, <2>3, OneElement DEF SaneSizes
<1>6. ASSUME NEW t \in Threads, PopFresh(t)
      PROVE  WakeupInv'
  <2>1. /\ t \in Way /\ Way' = Way \ {t} /\ Waiting' = Waiting
        /\ UNCHANGED <<poisoned, len>> /\ streams # <<>> /\ PopStream
    BY <1>1, <1>6
    DEF PopFresh, MayPop, InLoop, ReturnConnection, LeaveTo, OnTheirWay, Waiting
  <2>2. /\ IsFiniteSet(Way \ {t}) /\ Cardinality(Way) \in Nat
        /\ Cardinality(Way \ {t}) = Cardinality(Way) - 1
    BY <2>1, OneElement
  <2> QED
    BY <1>1, <2>1, <2>2 DEF AtMaxSize, SaneSizes, PopStream
<1>7. ASSUME NEW t \in Threads, PopIdle(t)
      PROVE  WakeupInv'
  <2>1. /\ Way' = Way /\ Waiting' = Waiting
        /\ UNCHANGED <<poisoned, len>> /\ streams # <<>> /\ PopStream
    BY <1>7 DEF PopIdle, MayPop, OnTheirWay, Waiting
  <2>2. Cardinality(Way) \in Nat
    BY OneElement
  <2> QED
    BY <1>1, <2>1, <2>2 DEF AtMaxSize, SaneSizes, PopStream
<1>8. ASSUME NEW t \in Threads, Wait(t)
      PROVE  WakeupInv'
  <2>1. /\ t \in Way /\ Way' = Way \ {t} /\ AtMaxSize'
        /\ streams' = <<>>
    BY <1>1, <1>8
    DEF Wait, Exhausted, InLoop, LeaveTo, OnTheirWay, AtMaxSize
  <2>2. IsFiniteSet(Way \ {t}) /\ Cardinality(Way \ {t}) \in Nat
    BY <2>1, OneElement, FS_CardinalityType
  <2> QED
    BY <2>1, <2>2
<1>9. ASSUME NEW t \in Threads, CheckIn(t)
      PROVE  WakeupInv'
  <2>1. /\ UNCHANGED <<poisoned, len>> /\ pc[t] = "held" /\ DoneAndNotifyOne(t)
        /\ streams' = Append(streams, [id |-> conn[t].id, born |-> conn[t].born])
    BY <1>9 DEF CheckIn, DropConnection
  <2>2. Len(streams') = Len(streams) + 1
    <3>1. [id |-> conn[t].id, born |-> conn[t].born] \in Stream
      BY DEF TypeOK, Connection, Stream
    <3> QED
      BY <2>1, <3>1, PushFacts DEF TypeOK
  <2>3. CASE Waiting = {}
    <3>1. Way' = Way /\ Waiting' = {}
      BY <1>1, <2>1, <2>3 DEF DoneAndNotifyOne, OnTheirWay, Waiting
    <3> QED
      BY <3>1
  <2>4. CASE Waiting # {}
    <3>1. PICK w \in Waiting : pc' = [pc EXCEPT ![t] = "idle", ![w] = "lock"]
      BY <2>1, <2>4 DEF DoneAndNotifyOne
    <3>2. w \notin Way /\ Way' = Way \cup {w} /\ Waiting' \subseteq Waiting
      BY <1>1, <2>1, <3>1 DEF OnTheirWay, Waiting
    <3>3. /\ IsFiniteSet(Way \cup {w}) /\ Cardinality(Way) \in Nat
          /\ Cardinality(Way \cup {w}) = Cardinality(Way) + 1
      BY <3>2, OneElement
    <3> QED
      BY <1>1, <2>1, <2>2, <2>4, <3>2, <3>3 DEF AtMaxSize, SaneSizes
  <2> QED
    BY <2>3, <2>4
<1>10. ASSUME NEW t \in Threads, CloseStale(t)
       PROVE  WakeupInv'
  <2>1. Way' = Way /\ Waiting' = Waiting /\ UNCHANGED <<poisoned, len, streams>>
    BY <1>1, <1>10 DEF CloseStale, DropConnection, OnTheirWay, Waiting
  <2> QED
    BY <2>1 DEF AtMaxSize, SaneSizes
<1>11. CASE UNCHANGED vars
  BY <1>11 DEF vars, OnTheirWay, Waiting, AtMaxSize, SaneSizes
<1> QED
  BY <1>2, <1>3, <1>4, <1>5, <1>6, <1>7, <1>8, <1>9, <1>10, <1>11 DEF Next, LoopStep

(***************************************************************************)
(* While threads wait, every idle stream has a thread on its way to it,    *)
(* with any number of threads, wakeups for no reason and streams that time *)
(* out.                                                                    *)
(***************************************************************************)
THEOREM NoWakeupIsLost == Spec => []NoLostWakeup
<1>1. Init => WakeupInv
  <2>1. ASSUME Init PROVE OnTheirWay = {} /\ Waiting = {}
    BY <2>1 DEF Init, OnTheirWay, Waiting
  <2> QED
    BY <2>1, FS_EmptySet DEF WakeupInv
<1>2. TypeOK /\ WakeupInv /\ [Next]_vars => WakeupInv'
  BY WakeupStep
<1>3. WakeupInv => NoLostWakeup
  BY DEF WakeupInv, OnTheirWay, NoLostWakeup
<1> QED
  BY <1>1, <1>2, <1>3, TypeCorrect, PTL DEF Spec

-----------------------------------------------------------------------------
(* The pool implements ConnectionLease, for every set of threads and all sizes *)
(* that make sense.                                                            *)

\* The connections of the abstract discipline.
Ticket(born, id) == [generation |-> born, number |-> id]

Free == {Ticket(streams[i].born, streams[i].id) : i \in DOMAIN streams}

Loan == [t \in Threads |-> IF pc[t] = "held" THEN Ticket(conn[t].born, conn[t].id) ELSE NoThread]

\* NoThread marks who holds nothing, so it is no ticket.
NoTicket == NoThread \notin [generation : Nat, number : Nat]

Lendings == <<iteration, Free, Loan>>

\* Ids start at 1, so that len of them are as many as len says.
IdsPositive ==
  /\ \A i \in 1 .. Len(streams) : streams[i].id >= 1
  /\ \A t \in Lent : conn[t].id >= 1

RInv == TypeOK /\ PoolInv /\ IdsPositive

-----------------------------------------------------------------------------
LEMMA IdsPositiveStep ==
  ASSUME TypeOK, IdsPositive, [Next]_vars
  PROVE  IdsPositive'
<1> USE DEF InLoop
<1>1. \A t \in Threads : conn[t] \in Connection /\ pc[t] \in Places
  BY DEF TypeOK
<1>2. ASSUME NEW t \in Threads,
             \/ CheckOut(t) \/ Lock(t) \/ LockPoisoned(t) \/ SpuriousWakeup(t) \/ FillFails(t)
             \/ OpenConnectFails(t) \/ HandshakePanics(t) \/ Wait(t)
      PROVE  IdsPositive'
  <2>1. UNCHANGED <<streams, conn>> /\ Lent' \subseteq Lent
    BY <1>2 DEF CheckOut, Lock, LockPoisoned, SpuriousWakeup, FillFails, OpenConnectFails,
         HandshakePanics, Wait, LeaveTo, Lent, TypeOK
  <2> QED BY <2>1 DEF IdsPositive
<1>3. ASSUME NEW t \in Threads, Fill(t) PROVE IdsPositive'
  <2>1. [id |-> len + 1, born |-> iteration] \in Stream
    BY DEF Stream, TypeOK
  <2>2. Len(streams') = Len(streams) + 1 /\ streams'[Len(streams) + 1].id = len + 1
        /\ \A i \in 1 .. Len(streams) : streams'[i] = streams[i]
    BY <1>3, <2>1, PushFacts DEF Fill, TypeOK
  <2>3. Len(streams) \in Nat /\ len \in Nat
    BY LenProperties DEF TypeOK
  <2>4. Lent' = Lent /\ conn' = conn
    BY <1>3 DEF Fill, Lent
  <2>5. \A i \in 1 .. Len(streams') : i \in 1 .. Len(streams) \/ i = Len(streams) + 1
    BY <2>2, <2>3
  <2> QED BY <2>2, <2>3, <2>4, <2>5 DEF IdsPositive
<1>4. ASSUME NEW t \in Threads, PopFresh(t) \/ PopIdle(t) \/ PopPanics(t) PROVE IdsPositive'
  <2>1. /\ Len(streams) \in Nat \ {0} /\ Len(streams') = Len(streams) - 1
        /\ \A i \in 1 .. Len(streams) - 1 : streams'[i] = streams[i]
    BY <1>4, PopFacts DEF PopFresh, PopIdle, PopPanics, MayPop, PopStream, TypeOK
  <2>2. \A u \in Lent' : conn'[u].id >= 1
    <3>1. CASE PopFresh(t)
      <4>1. Top.id >= 1
        BY <2>1 DEF Top, IdsPositive
      <4>2. conn' = [conn EXCEPT ![t] = [id |-> Top.id, born |-> Top.born, iteration |-> iteration]]
            /\ pc' = [pc EXCEPT ![t] = "held"]
        BY <3>1 DEF PopFresh, ReturnConnection, LeaveTo
      <4> HIDE DEF Top
      <4> QED BY <4>1, <4>2 DEF IdsPositive, Lent, TypeOK
    <3>2. CASE PopIdle(t) \/ PopPanics(t)
      BY <3>2 DEF PopIdle, PopPanics, LeaveTo, IdsPositive, Lent, TypeOK
    <3> QED BY <1>4, <3>1, <3>2
  <2> QED BY <2>1, <2>2 DEF IdsPositive
<1>5. ASSUME NEW t \in Threads, Open(t) PROVE IdsPositive'
  BY <1>5 DEF Open, ReturnConnection, LeaveTo, IdsPositive, Lent, TypeOK
<1>6. ASSUME NEW t \in Threads, OpenHandshakeFails(t) PROVE IdsPositive'
  BY <1>6 DEF OpenHandshakeFails, LeaveTo, IdsPositive, Lent, TypeOK
<1>7. ASSUME NEW t \in Threads, CheckIn(t) PROVE IdsPositive'
  <2>1. Lent' = Lent \ {t} /\ t \in Lent /\ \A u \in Lent' : conn'[u] = conn[u]
    BY <1>7, LentShrinks DEF CheckIn
  <2>2. [id |-> conn[t].id, born |-> conn[t].born] \in Stream
    BY <1>1 DEF Stream, Connection
  <2>3. Len(streams') = Len(streams) + 1 /\ streams'[Len(streams) + 1].id = conn[t].id
        /\ \A i \in 1 .. Len(streams) : streams'[i] = streams[i]
    BY <1>7, <2>2, PushFacts DEF CheckIn, TypeOK
  <2>4. Len(streams) \in Nat
    BY LenProperties DEF TypeOK
  <2>5. \A i \in 1 .. Len(streams') : i \in 1 .. Len(streams) \/ i = Len(streams) + 1
    BY <2>3, <2>4
  <2> QED BY <2>1, <2>3, <2>4, <2>5 DEF IdsPositive
<1>8. ASSUME NEW t \in Threads, CloseStale(t) PROVE IdsPositive'
  <2>1. Lent' = Lent \ {t} /\ \A u \in Lent' : conn'[u] = conn[u]
    BY <1>8, LentShrinks DEF CloseStale
  <2> QED BY <1>8, <2>1 DEF CloseStale, IdsPositive
<1>9. CASE UNCHANGED vars
  BY <1>9 DEF vars, IdsPositive, Lent
<1> QED
  BY <1>2, <1>3, <1>4, <1>5, <1>6, <1>7, <1>8, <1>9 DEF Next, LoopStep

-----------------------------------------------------------------------------
(* The tickets *)

LEMMA SameTicket ==
  ASSUME NEW g, NEW h, NEW i, NEW j
  PROVE  Ticket(g, i) = Ticket(h, j) <=> g = h /\ i = j
BY DEF Ticket

\* What an index of the stack or a borrower contributes.
LEMMA Tickets ==
  ASSUME RInv
  PROVE  /\ DOMAIN streams = 1 .. Len(streams) /\ Len(streams) \in Nat
         /\ \A i \in 1 .. Len(streams) :
              streams[i].born = iteration /\ streams[i].id \in 1 .. len
         /\ \A t \in Lent : /\ conn[t].born \in Nat /\ conn[t].id \in Nat
                            /\ conn[t].born = conn[t].iteration
                            /\ conn[t].born = iteration => conn[t].id \in 1 .. len
<1>1. /\ DOMAIN streams = 1 .. Len(streams) /\ Len(streams) \in Nat
      /\ \A i \in 1 .. Len(streams) : streams[i] \in Stream
  BY LenProperties, ElementOfSeq DEF RInv, TypeOK
<1>2. \A t \in Lent : conn[t] \in Connection
  BY DEF RInv, TypeOK, Lent
<1>3. len \in Nat BY DEF RInv, TypeOK
<1> QED
  BY <1>1, <1>2, <1>3 DEF RInv, PoolInv, IdsCounted, IdsPositive, Stream, Connection

\* At most len connections of the present generation are open.
OpenTickets == {k \in Free \cup {Loan[t] : t \in Lent} : k.generation = iteration}

LEMMA OpenWithinLen ==
  ASSUME RInv
  PROVE  IsFiniteSet(OpenTickets) /\ Cardinality(OpenTickets) <= len
<1> DEFINE number == [k \in OpenTickets |-> k.number]
<1>1. len \in Nat BY DEF RInv, TypeOK
<1>2. IsFiniteSet(1 .. len) /\ Cardinality(1 .. len) = len
  BY <1>1, FS_Interval
<1>3. \A k \in OpenTickets : \E n \in 1 .. len : k = Ticket(iteration, n)
  BY Tickets DEF OpenTickets, Free, Loan, Lent, Ticket
<1>4. number \in Injection(OpenTickets, 1 .. len)
  BY <1>3 DEF Injection, IsInjective, Ticket
<1> HIDE DEF number
<1> QED BY <1>2, <1>4, FS_Injection

-----------------------------------------------------------------------------
(* The effect of the steps on what is free and what is lent *)

LEMMA PushFrees ==
  ASSUME TypeOK, NEW s \in Stream, streams' = Append(streams, s)
  PROVE  Free' = Free \cup {Ticket(s.born, s.id)}
<1>1. /\ Len(streams) \in Nat /\ Len(streams') = Len(streams) + 1
      /\ DOMAIN streams = 1 .. Len(streams) /\ DOMAIN streams' = 1 .. Len(streams) + 1
      /\ streams'[Len(streams) + 1] = s
      /\ \A i \in 1 .. Len(streams) : streams'[i] = streams[i]
  BY PushFacts, LenProperties DEF TypeOK
<1>2. 1 .. Len(streams) + 1 = 1 .. Len(streams) \cup {Len(streams) + 1}
  BY <1>1
<1> QED BY <1>1, <1>2 DEF Free

\* The stream that is popped is at the top only, or another thread could pop it.
LEMMA PopTakes ==
  ASSUME RInv, streams # <<>>, PopStream
  PROVE  /\ Ticket(Top.born, Top.id) \in Free
         /\ Top.born = iteration
         /\ Free' = Free \ {Ticket(Top.born, Top.id)}
<1>1. /\ Len(streams) \in Nat \ {0} /\ Len(streams') = Len(streams) - 1
      /\ DOMAIN streams = 1 .. Len(streams) /\ DOMAIN streams' = 1 .. Len(streams) - 1
      /\ \A i \in 1 .. Len(streams) - 1 : streams'[i] = streams[i]
      /\ streams' \in Seq(Stream)
  BY PopFacts, LenProperties DEF RInv, TypeOK, PopStream
<1>2. \A i \in 1 .. Len(streams) - 1 :
        Ticket(streams[i].born, streams[i].id) # Ticket(Top.born, Top.id)
  <2>1. ASSUME NEW i \in 1 .. Len(streams) - 1
        PROVE  streams[i].id # Top.id
    BY <1>1 DEF RInv, PoolInv, Exclusive, Top
  <2> QED BY <2>1, SameTicket
<1>3. 1 .. Len(streams) = 1 .. Len(streams) - 1 \cup {Len(streams)}
  BY <1>1
<1>4. Free = Free' \cup {Ticket(Top.born, Top.id)}
  BY <1>1, <1>3 DEF Free, Top
<1>5. Ticket(Top.born, Top.id) \notin Free'
  BY <1>1, <1>2 DEF Free
<1>6. Top.born = iteration
  BY <1>1 DEF Top, RInv, PoolInv, IdsCounted
<1> QED BY <1>4, <1>5, <1>6

\* A new connection of the present generation has a ticket no other one has.
LEMMA NextTicketIsNew ==
  ASSUME RInv
  PROVE  Ticket(iteration, len + 1) \notin Free \cup {Loan[t] : t \in Lent}
<1>1. len \in Nat BY DEF RInv, TypeOK
<1>2. ASSUME NEW i \in DOMAIN streams
      PROVE  Ticket(iteration, len + 1) # Ticket(streams[i].born, streams[i].id)
  BY <1>1, Tickets, SameTicket
<1>3. ASSUME NEW t \in Lent
      PROVE  Ticket(iteration, len + 1) # Ticket(conn[t].born, conn[t].id)
  BY <1>1, Tickets, SameTicket
<1>4. \A t \in Lent : Loan[t] = Ticket(conn[t].born, conn[t].id)
  BY DEF Loan, Lent
<1> QED BY <1>2, <1>3, <1>4 DEF Free

\* What the abstract specification reads of the present state.
LEMMA LeaseState ==
  ASSUME RInv, NoTicket
  PROVE  /\ Lease!LentOut = {Loan[t] : t \in Lent}
         /\ Lease!Open = OpenTickets
         /\ \A t \in Threads : Loan[t] = NoThread <=> t \notin Lent
<1>1. \A t \in Lent : Loan[t] = Ticket(conn[t].born, conn[t].id) /\ Loan[t] # NoThread
  BY Tickets DEF Loan, Lent, Ticket, NoTicket
<1>2. \A t \in Threads \ Lent : Loan[t] = NoThread
  BY DEF Loan, Lent
<1>3. Lease!LentOut = {Loan[t] : t \in Threads} \ {NoThread}
  BY DEF Lease!LentOut, Loan, Ticket
<1>4. Lease!LentOut = {Loan[t] : t \in Lent}
  BY <1>1, <1>2, <1>3 DEF Lent
<1>5. Lease!Open = {k \in Free \cup Lease!LentOut : k.generation = iteration}
  BY DEF Lease!Open, Free, Ticket
<1> QED BY <1>1, <1>2, <1>4, <1>5 DEF OpenTickets, Lent

LEMMA LeaseMayOpen ==
  ASSUME RInv, NoTicket, MaxPoolSize # 0 => len < MaxPoolSize
  PROVE  Lease!MayOpen(Ticket(iteration, len + 1))
<1>1. Cardinality(OpenTickets) \in Nat /\ Cardinality(OpenTickets) <= len
  BY OpenWithinLen, FS_CardinalityType
<1>2. len \in Nat /\ MaxPoolSize \in Nat
  BY OptionAssumption DEF RInv, TypeOK
<1>3. MaxPoolSize # 0 => Cardinality(Lease!Open) < MaxPoolSize
  BY <1>1, <1>2, LeaseState
<1>4. Ticket(iteration, len + 1) \notin Free \cup Lease!LentOut
  BY NextTicketIsNew, LeaseState
<1>5. Ticket(iteration, len + 1).generation = iteration
  BY DEF Ticket
<1>6. Lease!Cardinality(Lease!Open) = Cardinality(Lease!Open)
  BY DEF Cardinality, Lease!Cardinality
<1> QED BY <1>3, <1>4, <1>5, <1>6 DEF Lease!MayOpen, Free, Ticket

-----------------------------------------------------------------------------
(* Every step of the pool is one of the abstract discipline, or a stutter. *)

\* The values of the abstract variables under the refinement mapping.
LEMMA LeaseVars ==
  /\ Lease!leaseVars = Lendings
  /\ iteration' = iteration /\ Free' = Free /\ Loan' = Loan => UNCHANGED Lease!leaseVars
BY DEF Lease!leaseVars, Lendings, Free, Loan, Ticket

\* A loan begins, or ends, and the others stay.
LEMMA LoanBegins ==
  ASSUME TypeOK, NEW t \in Threads, NEW id, NEW born, ReturnConnection(t, id, born)
  PROVE  Loan' = [Loan EXCEPT ![t] = Ticket(born, id)]
BY DEF ReturnConnection, LeaveTo, Loan, TypeOK, Ticket

LEMMA LoanEnds ==
  ASSUME TypeOK, NEW t \in Threads, DropConnection(t),
         DoneAndNotifyOne(t) \/ pc' = [pc EXCEPT ![t] = "idle"]
  PROVE  /\ Loan' = [Loan EXCEPT ![t] = NoThread]
         /\ Loan[t] = Ticket(conn[t].born, conn[t].id)
         /\ t \in Lent
<1>1. Lent' = Lent \ {t} /\ t \in Lent /\ \A u \in Lent' : conn'[u] = conn[u]
  BY LentShrinks
<1>2. \A u \in Threads : (pc'[u] = "held" <=> u \in Lent') /\ (pc[u] = "held" <=> u \in Lent)
  BY DEF Lent
<1> QED BY <1>1, <1>2 DEF Loan

LEMMA LoansStay ==
  ASSUME TypeOK, NEW t \in Threads, pc[t] # "held", conn' = conn,
         NEW place \in Places \ {"held"}, pc' = [pc EXCEPT ![t] = place]
  PROVE  Loan' = Loan
BY DEF Loan, TypeOK, Ticket

LEMMA FillRefines ==
  ASSUME RInv, SaneSizes, NoTicket, NEW t \in Threads, Fill(t)
  PROVE  Lease!Prefill
<1>1. len \in Nat /\ MaxPoolSize \in Nat /\ MinPoolSize \in Nat /\ TypeOK /\ iteration \in Nat
  BY OptionAssumption DEF RInv, TypeOK
<1>2. MaxPoolSize # 0 => len < MaxPoolSize
  BY <1>1, SaneSizes DEF Fill, MustFill, SaneSizes
<1>3. Lease!MayOpen(Ticket(iteration, len + 1))
  BY <1>2, LeaseMayOpen
<1>4. [id |-> len + 1, born |-> iteration] \in Stream
  BY <1>1 DEF Stream
<1>5. Free' = Free \cup {Ticket(iteration, len + 1)}
  BY <1>1, <1>4, PushFrees DEF Fill
<1>6. Loan' = Loan /\ iteration' = iteration
  BY DEF Fill, Loan
<1> HIDE DEF Lease!MayOpen
<1> QED BY <1>3, <1>5, <1>6 DEF Lease!Prefill, Free, Loan, Ticket

LEMMA PopRefines ==
  ASSUME RInv, NoTicket, NEW t \in Threads, PopFresh(t)
  PROVE  Lease!Borrow(t)
<1>1. /\ Ticket(Top.born, Top.id) \in Free
      /\ Top.born = iteration
      /\ Free' = Free \ {Ticket(Top.born, Top.id)}
  BY PopTakes DEF PopFresh, MayPop
<1>2. Loan' = [Loan EXCEPT ![t] = Ticket(Top.born, Top.id)]
  BY LoanBegins DEF PopFresh, RInv
<1>3. Loan[t] = NoThread /\ iteration' = iteration
  BY DEF PopFresh, MayPop, InLoop, Loan
<1>4. Ticket(Top.born, Top.id).generation = iteration
  BY <1>1 DEF Ticket
<1> HIDE DEF Top
<1> QED BY <1>1, <1>2, <1>3, <1>4 DEF Lease!Borrow, Free, Loan, Ticket

LEMMA PopAwayRefines ==
  ASSUME RInv, NoTicket, NEW t \in Threads, PopIdle(t) \/ PopPanics(t)
  PROVE  Lease!Discard
<1>1. Ticket(Top.born, Top.id) \in Free /\ Free' = Free \ {Ticket(Top.born, Top.id)}
  BY PopTakes DEF PopIdle, PopPanics, MayPop
<1>2. Loan' = Loan
  <2>1. CASE PopIdle(t)
    BY <2>1 DEF PopIdle, Loan
  <2>2. CASE PopPanics(t)
    BY <2>2, LoansStay DEF PopPanics, MayPop, InLoop, LeaveTo, RInv, Places
  <2> QED BY <2>1, <2>2
<1>3. iteration' = iteration
  BY DEF PopIdle, PopPanics
<1> HIDE DEF Top
<1> QED BY <1>1, <1>2, <1>3 DEF Lease!Discard, Free, Loan, Ticket

LEMMA OpenRefines ==
  ASSUME RInv, LenWithinMax, NoTicket, NEW t \in Threads, Open(t)
  PROVE  Lease!BorrowNew(t)
<1>1. len \in Nat /\ MaxPoolSize \in Nat /\ iteration \in Nat
  BY OptionAssumption DEF RInv, TypeOK
<1>2. MaxPoolSize # 0 => len < MaxPoolSize
  BY <1>1 DEF Open, MayOpen, AtMaxSize, LenWithinMax
<1>3. Lease!MayOpen(Ticket(iteration, len + 1))
  BY <1>2, LeaseMayOpen
<1>4. Loan' = [Loan EXCEPT ![t] = Ticket(iteration, len + 1)]
  BY LoanBegins DEF Open, RInv
<1>5. Loan[t] = NoThread /\ Loan \in [Threads -> {Loan[u] : u \in Threads}]
      /\ iteration' = iteration /\ Free' = Free
  BY DEF Open, MayOpen, Exhausted, InLoop, Loan, Free
<1>6. Ticket(iteration, len + 1) # NoThread
  BY <1>1 DEF Ticket, NoTicket
<1>7. Ticket(iteration, len + 1) \in {Loan'[u] : u \in Threads} \ {NoThread}
  BY <1>4, <1>5, <1>6
<1>8. Lease!LentOut' = {Loan'[u] : u \in Threads} \ {NoThread}
  BY DEF Lease!LentOut, Loan, Ticket
<1> HIDE DEF Lease!MayOpen, Lease!LentOut
<1> QED BY <1>3, <1>4, <1>5, <1>7, <1>8 DEF Lease!BorrowNew, Free, Loan, Ticket

LEMMA ClearRefines ==
  ASSUME RInv, NEW t \in Threads, OpenHandshakeFails(t)
  PROVE  Lease!Clear
<1>1. Loan' = Loan
  BY LoansStay DEF OpenHandshakeFails, MayOpen, Exhausted, InLoop, LeaveTo, RInv, Places
<1>2. iteration' = iteration + 1 /\ Free' = {}
  BY EmptySeq DEF OpenHandshakeFails, Free
<1> QED BY <1>1, <1>2 DEF Lease!Clear, Free, Loan, Ticket

LEMMA GiveBackRefines ==
  ASSUME RInv, NoTicket, NEW t \in Threads, CheckIn(t) \/ CloseStale(t)
  PROVE  Lease!GiveBack(t)
<1>1. /\ Loan' = [Loan EXCEPT ![t] = NoThread]
      /\ Loan[t] = Ticket(conn[t].born, conn[t].id)
      /\ t \in Lent /\ iteration' = iteration
  BY LoanEnds DEF CheckIn, CloseStale, RInv, DropConnection
<1>2. Loan[t] # NoThread
  BY <1>1, LeaseState
<1>3. \/ Loan[t].generation = iteration /\ Free' = Free \cup {Loan[t]}
      \/ Free' = Free
  <2>1. CASE CheckIn(t)
    <3>1. conn[t] \in Connection /\ conn[t].born = iteration
      BY <1>1, <2>1 DEF CheckIn, MayReturn, RInv, TypeOK, PoolInv, IdsCounted
    <3>2. [id |-> conn[t].id, born |-> conn[t].born] \in Stream
      BY <3>1 DEF Stream, Connection
    <3>3. Free' = Free \cup {Ticket(conn[t].born, conn[t].id)}
      BY <2>1, <3>2, PushFrees DEF CheckIn, RInv
    <3>4. Ticket(conn[t].born, conn[t].id).generation = iteration
      BY <3>1 DEF Ticket
    <3> QED BY <1>1, <3>3, <3>4
  <2>2. CASE CloseStale(t)
    BY <2>2 DEF CloseStale, Free
  <2> QED BY <2>1, <2>2
<1> QED BY <1>1, <1>2, <1>3 DEF Lease!GiveBack, Free, Loan, Ticket

LEMMA OthersStutter ==
  ASSUME RInv, NEW t \in Threads,
         \/ CheckOut(t) \/ Lock(t) \/ LockPoisoned(t) \/ SpuriousWakeup(t) \/ FillFails(t)
         \/ OpenConnectFails(t) \/ HandshakePanics(t) \/ Wait(t)
  PROVE  UNCHANGED Lease!leaseVars
<1>1. iteration' = iteration /\ streams' = streams /\ conn' = conn /\ TypeOK
  BY DEF CheckOut, Lock, LockPoisoned, SpuriousWakeup, FillFails, OpenConnectFails,
         HandshakePanics, Wait, RInv
<1>2. pc[t] # "held" /\ \E place \in Places \ {"held"} : pc' = [pc EXCEPT ![t] = place]
  BY DEF CheckOut, Lock, LockPoisoned, SpuriousWakeup, FillFails, OpenConnectFails,
         HandshakePanics, Wait, LeaveTo, MustFill, MayOpen, Exhausted, InLoop, Places
<1>3. Loan' = Loan
  BY <1>1, <1>2, LoansStay
<1>4. Free' = Free
  BY <1>1 DEF Free
<1> QED BY <1>1, <1>3, <1>4, LeaseVars

(***************************************************************************)
(* The pool implements ConnectionLease: for every set of threads and all   *)
(* sizes with MinPoolSize <= MaxPoolSize, what acquire_stream and drop do  *)
(* under the mutex is exclusive lending of current connections, at most    *)
(* MaxPoolSize of them.                                                    *)
(***************************************************************************)
THEOREM PoolImplementsLease == ASSUME SaneSizes, NoTicket PROVE Spec => ImplementsLease
<1>1. Init => RInv /\ Lease!LeaseInit
  <2> SUFFICES ASSUME Init PROVE RInv /\ Lease!LeaseInit
    OBVIOUS
  <2>1. TypeOK
    BY EmptySeq DEF Init, TypeOK, Places, NoConnection, Connection
  <2>2. Lent = {} /\ Len(streams) = 0 /\ DOMAIN streams = {}
    BY EmptySeq DEF Init, Lent
  <2>3. RInv
    BY <2>1, <2>2 DEF RInv, PoolInv, IdsCounted, Exclusive, IdsPositive
  <2>4. Lease!LeaseInit
    BY <2>2 DEF Init, Lease!LeaseInit
  <2> QED BY <2>3, <2>4
<1>2. TypeOK /\ TypeOK' /\ RInv /\ [Next]_vars => RInv'
  BY PoolInvStep, IdsPositiveStep DEF RInv
<1>3. RInv /\ LenWithinMax /\ [Next]_vars => [Lease!LeaseNext]_(Lease!leaseVars)
  <2> SUFFICES ASSUME RInv, LenWithinMax, [Next]_vars
               PROVE  Lease!LeaseNext \/ UNCHANGED Lease!leaseVars
    OBVIOUS
  <2>1. ASSUME NEW t \in Threads, LoopStep(t)
        PROVE  Lease!LeaseNext \/ UNCHANGED Lease!leaseVars
    BY <2>1, SaneSizes, NoTicket, FillRefines, PopRefines, PopAwayRefines, OpenRefines,
       ClearRefines, OthersStutter DEF LoopStep, Lease!LeaseNext
  <2>2. ASSUME NEW t \in Threads,
               CheckOut(t) \/ Lock(t) \/ LockPoisoned(t) \/ SpuriousWakeup(t)
        PROVE  UNCHANGED Lease!leaseVars
    BY <2>2, OthersStutter
  <2>3. ASSUME NEW t \in Threads, CheckIn(t) \/ CloseStale(t)
        PROVE  Lease!LeaseNext
    BY <2>3, NoTicket, GiveBackRefines DEF Lease!LeaseNext
  <2>4. CASE UNCHANGED vars
    <3>1. iteration' = iteration /\ Free' = Free /\ Loan' = Loan
      BY <2>4 DEF vars, Free, Loan
    <3> QED BY <3>1, LeaseVars
  <2> QED BY <2>1, <2>2, <2>3, <2>4 DEF Next
<1>4. Spec => []LenWithinMax
  BY SaneSizes, MaxSizeRespected
<1> QED
  BY <1>1, <1>2, <1>3, <1>4, TypeCorrect, PTL DEF Spec, ImplementsLease, Lease!LeaseSpec
=============================================================================
