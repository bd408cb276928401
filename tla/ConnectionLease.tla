--------------------------- MODULE ConnectionLease ---------------------------
(***************************************************************************)
(* What a connection pool promises, without locks, waiting or counters:    *)
(* every connection is in the hands of at most one thread, a connection    *)
(* is lent again only while its generation is the current one, and at most *)
(* Limit connections of the current generation are open at any time.       *)
(* ConnectionPool (the code) is shown to implement this specification.     *)
(***************************************************************************)
EXTENDS Naturals, FiniteSets

CONSTANTS
  Borrowers,   \* who may hold a connection
  Limit,       \* most open connections of one generation, 0 for no limit
  None         \* "holds no connection"

VARIABLES
  generation,  \* the current generation
  free,        \* connections in the pool
  lent         \* lent[b]: the connection b holds, or None

leaseVars == <<generation, free, lent>>

\* A connection is a record whose field generation is the one it was opened in.
LentOut == {lent[b] : b \in Borrowers} \ {None}

Open == {c \in free \cup LentOut : c.generation = generation}

MayOpen(c) ==
  /\ c \notin free \cup LentOut
  /\ c.generation = generation
  /\ Limit # 0 => Cardinality(Open) < Limit

LeaseInit ==
  /\ generation = 0
  /\ free = {}
  /\ lent = [b \in Borrowers |-> None]

\* A connection is opened ahead of demand.
Prefill ==
  \E c \in free' :
    /\ MayOpen(c)
    /\ free' = free \cup {c}
    /\ UNCHANGED <<generation, lent>>

\* A borrower gets a connection of the pool.
Borrow(b) ==
  \E c \in free :
    /\ lent[b] = None
    /\ c.generation = generation
    /\ free' = free \ {c}
    /\ lent' = [lent EXCEPT ![b] = c]
    /\ UNCHANGED generation

\* A borrower gets a connection that is opened for it.
BorrowNew(b) ==
  \E c \in LentOut' :
    /\ lent[b] = None
    /\ MayOpen(c)
    /\ lent' = [lent EXCEPT ![b] = c]
    /\ UNCHANGED <<generation, free>>

\* A borrower is done: a current connection may go back, a stale one never.
GiveBack(b) ==
  /\ lent[b] # None
  /\ lent' = [lent EXCEPT ![b] = None]
  /\ \/ /\ lent[b].generation = generation
        /\ free' = free \cup {lent[b]}
     \/ UNCHANGED free
  /\ UNCHANGED generation

\* A pooled connection is closed.
Discard ==
  \E c \in free :
    /\ free' = free \ {c}
    /\ UNCHANGED <<generation, lent>>

\* All pooled connections are closed and the lent ones become stale.
Clear ==
  /\ generation' = generation + 1
  /\ free' = {}
  /\ UNCHANGED lent

LeaseNext ==
  \/ Prefill
  \/ Discard
  \/ Clear
  \/ \E b \in Borrowers : Borrow(b) \/ BorrowNew(b) \/ GiveBack(b)

LeaseSpec == LeaseInit /\ [][LeaseNext]_leaseVars
=============================================================================
