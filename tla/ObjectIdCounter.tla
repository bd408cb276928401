--------------------------- MODULE ObjectIdCounter ---------------------------
(***************************************************************************)
(* The process-wide counter behind ObjectId::new (src/src/bson/oid.rs): a  *)
(* 32-bit word of which an id shows the lowest 24 bits.  The value is      *)
(* loaded, compared and then either reset or incremented; each access is   *)
(* atomic, the three together are not.                                     *)
(***************************************************************************)
EXTENDS Integers, Sequences

CONSTANTS
  Threads,  \* threads that create ids
  M,        \* 2^24: what an id shows is taken modulo M
  Word,     \* 2^32: the counter is kept modulo Word
  IdBound   \* bound on the ids created since the last reset

WidthAssumption ==
  /\ M \in Nat /\ M > 1
  /\ Word \in Nat /\ Word % M = 0 /\ Word >= M

BoundAssumption == IdBound \in Nat

VARIABLES
  counter,  \* COUNTER
  loaded,   \* what a thread in new has loaded, or NotLoaded
  recent    \* history: what the ids created since the last reset show

vars == <<counter, loaded, recent>>

NotLoaded == -1

\* call_once lets every thread in only after the counter has its random start.
Init ==
  /\ counter \in 0 .. M - 1
  /\ loaded = [t \in Threads |-> NotLoaded]
  /\ recent = <<>>

\* COUNTER.load
Load(t) ==
  /\ loaded[t] = NotLoaded
  /\ loaded' = [loaded EXCEPT ![t] = counter]
  /\ UNCHANGED <<counter, recent>>

Return(t) == loaded' = [loaded EXCEPT ![t] = NotLoaded]

\* COUNTER.store(0), and 0 is what the id shows.
Reset(t) ==
  /\ loaded[t] = M - 1
  /\ counter' = 0
  /\ recent' = <<0>>
  /\ Return(t)

\* Mutant: the value that was loaded is incremented and stored.
AddToLoaded(t) ==
  /\ loaded[t] \notin {NotLoaded, M - 1}
  /\ Len(recent) < IdBound
  /\ counter' = (loaded[t] + 1) % Word
  /\ recent' = Append(recent, loaded[t] % M)
  /\ Return(t)

\* COUNTER.fetch_add(1), whatever the counter is by now.
Add(t) ==
  /\ loaded[t] \notin {NotLoaded, M - 1}
  /\ Len(recent) < IdBound
  /\ counter' = (counter + 1) % Word
  /\ recent' = Append(recent, counter % M)
  /\ Return(t)

Next == \E t \in Threads : Load(t) \/ Reset(t) \/ Add(t)

Spec == Init /\ [][Next]_vars

-----------------------------------------------------------------------------
(* Properties *)

\* Of M ids created in a row without a reset between them no two show the same,
\* but for the 0 of the reset: threads that pass the comparison together push
\* the counter past it, and the ids still go on in order.
DistinctInARow ==
  \A i, j \in DOMAIN recent :
    i < j /\ j - i < M /\ recent[i] = recent[j] => i = 1 /\ recent[1] = 0
=============================================================================
