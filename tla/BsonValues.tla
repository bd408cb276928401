----------------------------- MODULE BsonValues -----------------------------
(***************************************************************************)
(* BSON values and documents as the crate writes and reads them            *)
(* (src/src/bson/mod.rs, the readers of src/src/bson/doc.rs).              *)
(*                                                                         *)
(* A buffer is a sequence of cells.  A length prefix is one cell (its four *)
(* bytes hold one number), and so is any other group of bytes that nobody  *)
(* looks into; the NUL that ends keys, regular expressions and documents   *)
(* is the cell 0.  A key is one cell.  A value is its type id together     *)
(* with the cells write_bson writes for it.                                *)
(***************************************************************************)
EXTENDS Naturals, Sequences

NUL == 0

F64 == 1
Str == 2
Doc == 3
Array == 4
Binary == 5
ObjectId == 7
Bool == 8
DateTime == 9
Null == 10
Regex == 11
JavaScript == 13
JavaScriptWithScope == 15
I32 == 16
Timestamp == 17
I64 == 18
F128 == 19

\* Ids whose values all have one size, in cells.
FixedSize == [id \in {F64, ObjectId, Bool, DateTime, Null, I32, Timestamp, I64, F128} |->
                IF id = Null THEN 0 ELSE 1]

-----------------------------------------------------------------------------
(* write_bson *)

FixedValue(id, n) == [id |-> id, cells |-> IF id = Null THEN <<>> ELSE <<n>>]

StrValue(s) == [id |-> Str, cells |-> <<Len(s) + 1>> \o s \o <<NUL>>]

BinaryValue(subtype, s) == [id |-> Binary, cells |-> <<Len(s), subtype>> \o s]

RegexValue(pattern, options) ==
  [id |-> Regex, cells |-> pattern \o <<NUL>> \o options \o <<NUL>>]

\* A document whose cells after the length are given, the terminator included.
DocValue(id, body) == [id |-> id, cells |-> <<Len(body) + 1>> \o body]

Element(key, v) == <<v.id, key, NUL>> \o v.cells

\* Bson::id: that of a Unit is not the one that <()>::ID writes.
IdOf(v) == IF v.id = Null THEN 0 ELSE v.id

\* <&[Bson] as BsonValue>::write_bson
ArrayValue(items) ==
  LET body[i \in 0 .. Len(items)] ==
        IF i = 0 THEN <<>>
        ELSE body[i - 1] \o Element(i, [items[i] EXCEPT !.id = IdOf(items[i])])
  IN  DocValue(Array, body[Len(items)] \o <<NUL>>)

-----------------------------------------------------------------------------
(* Reading *)

\* The first NUL at or after i, as read_str_nt looks for it; 0 if it runs off the end.
NulFrom(cells, i) ==
  LET at == {j \in i .. Len(cells) : cells[j] = NUL}
  IN  IF at = {} THEN 0 ELSE CHOOSE j \in at : \A k \in at : j <= k

\* get_value_size of a value that starts at i.  The second NUL of a regular
\* expression is not counted.
ValueSize(id, cells, i) ==
  CASE id \in DOMAIN FixedSize -> FixedSize[id]
    [] id = Binary -> 2 + cells[i]
    [] id = Regex -> NulFrom(cells, NulFrom(cells, i) + 1) - i
    [] id \in {Str, JavaScript} -> 1 + cells[i]
    [] id \in {Doc, Array, JavaScriptWithScope} -> cells[i]

Readable(id, cells, i) ==
  /\ id \in DOMAIN FixedSize \cup {Str, Doc, Array, Binary, Regex, JavaScript, JavaScriptWithScope}
  /\ id # Null => i <= Len(cells)
  /\ id = Regex => NulFrom(cells, i) # 0 /\ NulFrom(cells, NulFrom(cells, i) + 1) # 0
  /\ i + ValueSize(id, cells, i) - 1 <= Len(cells)

\* The cells of a value are as many as get_value_size says.
IsWhole(v) ==
  /\ v.cells \in Seq(Nat)
  /\ Readable(v.id, v.cells, 1)
  /\ ValueSize(v.id, v.cells, 1) = Len(v.cells)

Panic == [ok |-> FALSE, elements |-> <<>>, stop |-> 0]

\* DocRefIter over the cells from start on: the elements it yields, and where it
\* found the terminator.  It panics on what is not an element.
Iterate(cells, start) ==
  LET walk[i \in start .. Len(cells) + 1] ==
        IF i > Len(cells) THEN Panic
        ELSE IF cells[i] = NUL THEN [ok |-> TRUE, elements |-> <<>>, stop |-> i]
        ELSE LET key == NulFrom(cells, i + 1)
                 size == ValueSize(cells[i], cells, key + 1)
             IN  IF key # i + 2 \/ ~Readable(cells[i], cells, key + 1) THEN Panic
                 ELSE LET rest == walk[key + 1 + size]
                      IN  [rest EXCEPT !.elements =
                             <<[key |-> cells[i + 1], id |-> cells[i],
                                cells |-> SubSeq(cells, key + 1, key + size)]>> \o @]
  IN  walk[start]

\* What a value means: of a nested document what its own iterator comes to see.
MeantBy(v) == IF v.id \in {Doc, Array} THEN SubSeq(v.cells, 2, Iterate(v.cells, 2).stop) ELSE v.cells

Meaning(e) == [key |-> e.key, id |-> e.id, value |-> MeantBy(e)]

Elements(cells) ==
  LET read == Iterate(cells, 2).elements IN [i \in DOMAIN read |-> Meaning(read[i])]
-----------------------------------------------------------------------------
(* Documents within documents *)

\* Where a value that starts at i ends, the second NUL of a regular expression included.
ValueEnd(id, cells, i) == i + ValueSize(id, cells, i) + IF id = Regex THEN 1 ELSE 0

\* All values in a document at any depth, with the start of the document around each.
Parts(cells) ==
  LET parts[i \in 1 .. Len(cells) + 1, within \in 1 .. Len(cells)] ==
        IF i + 3 > Len(cells) + 1 \/ cells[i] = NUL \/ ~Readable(cells[i], cells, i + 3) THEN {}
        ELSE LET to == ValueEnd(cells[i], cells, i + 3)
             IN  {[from |-> i + 3, to |-> to, within |-> within]}
                   \cup parts[to, within]
                   \cup IF cells[i] \in {Doc, Array} THEN parts[i + 4, i + 3] ELSE {}
  IN  parts[2, 1]

\* A key in front of a value that starts at i.
HasKey(cells, i) == cells[i - 3] # NUL /\ cells[i - 2] # NUL /\ cells[i - 1] = NUL

\* A value from i up to to.
HasValue(cells, i, to) ==
  LET id == cells[i - 3]
  IN  /\ Readable(id, cells, i)
      /\ to = ValueEnd(id, cells, i)
      /\ id # Null => i < to
      /\ id = Regex => cells[to - 1] = NUL

\* In the document at start there is an element at i.
Continues(cells, parts, start, i) ==
  cells[i] # NUL /\ \E t \in parts : t.from = i + 3 /\ t.within = start

\* From the start of a document its elements lead to the terminator.
FollowEachOther(cells, parts, start, terminator) ==
  \A i \in {start + 1} \cup {t.to : t \in {u \in parts : u.within = start}} :
    Continues(cells, parts, start, i) \/ (cells[i] = NUL /\ i = terminator)

\* The parts are values, one at a place, in documents that end behind them.
IsNested(cells, parts) ==
  /\ parts \subseteq [from : Nat, to : Nat, within : Nat \ {0}]
  /\ \A t \in parts : /\ t.within + 4 <= t.from /\ t.to <= cells[1]
                      /\ HasKey(cells, t.from) /\ HasValue(cells, t.from, t.to)
  /\ \A t, u \in parts : /\ t.from = u.from => t = u
                         /\ t.within = u.from => t.to < u.to
  /\ \A t \in parts : cells[t.from - 3] \in {Doc, Array} =>
                        FollowEachOther(cells, parts, t.from, t.to - 1)
=============================================================================
