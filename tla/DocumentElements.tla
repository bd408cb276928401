--------------------------- MODULE DocumentElements ---------------------------
(***************************************************************************)
(* What a Document promises: a list of elements, of which the first one    *)
(* with a key is the one that is found under it.                           *)
(***************************************************************************)
EXTENDS Naturals, Sequences

CONSTANTS
  Keys,
  Contents  \* the types and values elements have

VARIABLES
  elements,  \* the list: records with a key, an id and a value
  damaged    \* nothing is promised any more

vars == <<elements, damaged>>

Content(i) == [id |-> elements[i].id, value |-> elements[i].value]

Under(key, c) == [key |-> key, id |-> c.id, value |-> c.value]

\* The place of the first element with this key, 0 if there is none.
First(key) ==
  LET at == {i \in DOMAIN elements : elements[i].key = key}
  IN  IF at = {} THEN 0 ELSE CHOOSE i \in at : \A j \in at : i <= j

Init == elements \in Seq([key : Keys, id : Nat, value : Seq(Nat)]) /\ ~damaged

\* A second element under a key is not found by it.
Add(key, c) == elements' = Append(elements, Under(key, c))

Put(key, c) ==
  IF First(key) = 0 THEN Add(key, c)
  ELSE elements' = [elements EXCEPT ![First(key)] = Under(key, c)]

Remove(key) ==
  /\ First(key) # 0
  /\ elements' = SubSeq(elements, 1, First(key) - 1)
                   \o SubSeq(elements, First(key) + 1, Len(elements))

Copy(from, to) == First(from) # 0 /\ Add(to, Content(First(from)))

Damage == damaged'

Next ==
  \/ /\ UNCHANGED damaged
     /\ \/ \E k \in Keys, c \in Contents : Add(k, c) \/ Put(k, c)
        \/ \E k \in Keys : Remove(k)
        \/ \E k, l \in Keys : Copy(k, l)
  \/ Damage

Spec == Init /\ [][Next]_vars
=============================================================================
