---------------------------- MODULE CommonTheorems ----------------------------
(***************************************************************************)
(* What the proofs of several components need: facts about finite sets,    *)
(* about sequences that are used as stacks, the last element on top, and   *)
(* induction.                                                              *)
(***************************************************************************)
EXTENDS Naturals, Sequences, FiniteSetTheorems, SequenceTheorems, TLAPS

-----------------------------------------------------------------------------
(* Finite sets, such as those of the threads at a place. *)

\* How many there are with another, or without one.
LEMMA OneElement ==
  ASSUME NEW S, IsFiniteSet(S), NEW t
  PROVE  /\ IsFiniteSet(S \cup {t}) /\ IsFiniteSet(S \ {t})
         /\ Cardinality(S) \in Nat
         /\ t \notin S => Cardinality(S \cup {t}) = Cardinality(S) + 1
         /\ t \in S => Cardinality(S \ {t}) = Cardinality(S) - 1
         /\ Cardinality(S) <= Cardinality(S \cup {t})
<1>1. IsFiniteSet(S \cup {t}) /\ Cardinality(S) \in Nat
  BY FS_AddElement, FS_CardinalityType
<1>2. t \notin S => Cardinality(S \cup {t}) = Cardinality(S) + 1
  BY FS_AddElement
<1>3. /\ IsFiniteSet(S \ {t})
      /\ t \in S => Cardinality(S \ {t}) = Cardinality(S) - 1
  BY FS_RemoveElement
<1>4. CASE t \in S
  <2>1. S \cup {t} = S
    BY <1>4
  <2> QED
    BY <1>1, <1>3, <1>4, <2>1
<1>5. CASE t \notin S
  BY <1>1, <1>2, <1>3, <1>5
<1> QED
  BY <1>4, <1>5

-----------------------------------------------------------------------------
(* Stacks, such as the idle streams of a pool. *)

\* What is left of a stack after a pop is a stack of the same streams.
LEMMA PopFacts ==
  ASSUME NEW S, NEW s \in Seq(S), s # <<>>
  PROVE  /\ Len(s) \in Nat \ {0}
         /\ s[Len(s)] \in S
         /\ SubSeq(s, 1, Len(s) - 1) \in Seq(S)
         /\ Len(SubSeq(s, 1, Len(s) - 1)) = Len(s) - 1
         /\ \A i \in 1 .. Len(s) - 1 : SubSeq(s, 1, Len(s) - 1)[i] = s[i]
  <1>1. Len(s) \in Nat \ {0}
    BY EmptySeq
  <1>2. \A i \in 1 .. Len(s) : s[i] \in S
    BY ElementOfSeq
  <1>3. \A i \in 1 .. Len(s) - 1 : s[i] \in S
    BY <1>1, <1>2
  <1>4. PICK n \in Nat : n = Len(s) - 1
    BY <1>1
  <1>5. \A i \in 1 .. n : s[i] \in S
    BY <1>3, <1>4
  <1>6. /\ SubSeq(s, 1, n) \in Seq(S)
        /\ Len(SubSeq(s, 1, n)) = IF 1 <= n THEN n - 1 + 1 ELSE 0
        /\ \A i \in 1 .. n - 1 + 1 : SubSeq(s, 1, n)[i] = s[1 + i - 1]
    BY <1>5, SubSeqProperties
  <1> QED
    BY <1>1, <1>2, <1>4, <1>6

\* What a push adds is the last stream; the others stay where they are.
LEMMA PushFacts ==
  ASSUME NEW S, NEW s \in Seq(S), NEW x \in S
  PROVE  /\ Append(s, x) \in Seq(S)
         /\ Len(Append(s, x)) = Len(s) + 1
         /\ \A i \in 1 .. Len(s) : Append(s, x)[i] = s[i]
         /\ Append(s, x)[Len(s) + 1] = x
  OBVIOUS

-----------------------------------------------------------------------------
(* Induction.  The theorems of the library that state it have the property as  *)
(* a parameter; here it is a set of numbers.                                   *)

LEMMA Induction ==
  ASSUME NEW U \in SUBSET Nat, 0 \in U, \A k \in U : k + 1 \in U
  PROVE  U = Nat
<1> SUFFICES ASSUME NEW n \in Nat, n \notin U PROVE FALSE
  OBVIOUS
<1> DEFINE V == {k \in U : k <= n}
           f == [k \in V |-> k + 1]
<1>1. IsFiniteSet(V)
  <2>1. V \in SUBSET Nat /\ \A k \in V : k <= n
    OBVIOUS
  <2> HIDE DEF V
  <2> QED BY <2>1, FS_BoundedSetOfNaturals
<1>2. f \in Injection(V, V)
  <2>1. \A k \in V : k + 1 \in V
    OBVIOUS
  <2>2. f \in [V -> V]
    BY <2>1
  <2>3. \A i, j \in V : f[i] = f[j] => i = j
    OBVIOUS
  <2> QED BY <2>2, <2>3 DEF Injection, IsInjective
<1>3. f \in Surjection(V, V)
  <2> HIDE DEF f, V
  <2> QED BY <1>1, <1>2, FS_Injection
<1>4. 0 \in V
  OBVIOUS
<1>5. PICK k \in V : f[k] = 0
  BY <1>3, <1>4 DEF Surjection
<1> QED BY <1>5

\* A set of numbers has a least one.
LEMMA Least ==
  ASSUME NEW S \in SUBSET Nat, S # {}
  PROVE  \E m \in S : \A n \in S : m <= n
<1> SUFFICES ASSUME \A m \in S : \E n \in S : n < m PROVE FALSE
  OBVIOUS
<1> DEFINE U == {k \in Nat : \A n \in S : k < n}
<1>1. \A n \in S : 0 < n
  OBVIOUS
<1>2. ASSUME NEW k \in U PROVE k + 1 \in U
  <2>1. \A n \in S : k + 1 <= n
    OBVIOUS
  <2>2. k + 1 \notin S
    BY <2>1
  <2> QED BY <2>1, <2>2
<1>3. U = Nat
  <2>1. U \in SUBSET Nat /\ 0 \in U
    BY <1>1
  <2> HIDE DEF U
  <2> QED BY <1>2, <2>1, Induction
<1>4. PICK n \in S : n \in U
  BY <1>3
<1> QED BY <1>4
=============================================================================
