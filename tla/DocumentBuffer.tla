---------------------------- MODULE DocumentBuffer ----------------------------
(***************************************************************************)
(* Document, DocMut and the entries of a document (src/src/bson/doc.rs):   *)
(* one buffer that is edited in place.  Its first cell is the length that  *)
(* the document claims to have, its elements follow, and a NUL.            *)
(*                                                                         *)
(* DocMut.out is None and DocMut.off is 0 wherever the crate makes one, so *)
(* there is no enclosing document whose length has to follow.              *)
(***************************************************************************)
EXTENDS BsonValues

CONSTANTS
  Keys,         \* keys of one cell
  Values,       \* values the program writes
  BufferBound   \* bound on the cells of the buffer

KeyAssumption == NUL \notin Keys /\ Keys \subseteq Nat

\* What write_bson writes is read whole, but for regular expressions, and a nested
\* document up to a terminator.
ValueAssumption ==
  \A v \in Values :
    /\ v.id = Regex \/ IsWhole(v)
    /\ v.id \in {Doc, Array} => Iterate(v.cells, 2).ok

BoundAssumption == BufferBound \in Nat

VARIABLES
  buf,     \* Document.0
  damaged  \* an edit left bytes that cannot be read as elements, or panicked

vars == <<buf, damaged>>

NotFound == [key_off |-> 0, val_off |-> 0]

size == buf[1]

\* DocBuilder::append for each element, and finish.
Built(elements) ==
  LET body[i \in 0 .. Len(elements)] ==
        IF i = 0 THEN <<>> ELSE body[i - 1] \o Element(elements[i].key, elements[i].v)
      cells == body[Len(elements)] \o <<NUL>>
  IN  <<Len(cells) + 1>> \o cells

\* Document::new, or a builder's document.
Init ==
  /\ \E n \in 0 .. 1 : \E es \in [1 .. n -> [key : Keys, v : Values]] : buf = Built(es)
  /\ damaged = FALSE

\* Mutant: the search goes on to the last element with this key.
FindLast(key) ==
  LET search[off \in 2 .. Len(buf) + 1] ==
        IF off > Len(buf) \/ buf[off] = NUL THEN NotFound
        ELSE LET val_off == NulFrom(buf, off) + 1
                 later == search[val_off + ValueSize(buf[off], buf, val_off)]
             IN  IF val_off < off \/ ~Readable(buf[off], buf, val_off) THEN NotFound
                 ELSE IF SubSeq(buf, off + 1, val_off - 2) = <<key>> /\ later = NotFound
                   THEN [key_off |-> off, val_off |-> val_off]
                 ELSE later
  IN  search[2]

\* DocMut::find: the first element with this key.  Unlike the iterator, it looks
\* at the whole vector and not only at the cells that the length covers.  Beyond
\* what is no element it finds nothing; most often it panics there.
Find(key) ==
  LET search[off \in 2 .. Len(buf) + 1] ==
        IF off > Len(buf) \/ buf[off] = NUL THEN NotFound
        ELSE LET val_off == NulFrom(buf, off) + 1
             IN  IF SubSeq(buf, off + 1, val_off - 2) = <<key>>
                   THEN [key_off |-> off, val_off |-> val_off]
                 ELSE IF val_off < off \/ ~Readable(buf[off], buf, val_off) THEN NotFound
                 ELSE search[val_off + ValueSize(buf[off], buf, val_off)]
  IN  search[2]

Found(key) == Find(key) # NotFound

ValSize(e) == ValueSize(buf[e.key_off], buf, e.val_off)

From(i) == SubSeq(buf, i, Len(buf))

SetLen(len, cells) == [cells EXCEPT ![1] = len]

-----------------------------------------------------------------------------
\* <UtcDateTime as BsonValue>::write_bson copies into all that is left of the
\* buffer; more than its own cells are left here, always, and it panics.
WriteFits(v) == v.id # DateTime

\* Mutant: the length does not count the NUL of the key.
AppendedShort(key, v) ==
  SetLen(size + 2 + Len(v.cells),
         SubSeq(buf, 1, size - 1) \o Element(key, v) \o From(size))

\* DocMut::append before the terminator; whatever follows that moves along.
Appended(key, v) ==
  SetLen(size + 3 + Len(v.cells),
         SubSeq(buf, 1, size - 1) \o Element(key, v) \o From(size))

AppendElement(key, v) ==
  /\ buf' = Appended(key, v)
  /\ damaged' = ~WriteFits(v)

\* OccupiedEntry::insert.  When the value shrinks the vector keeps its length:
\* truncate is called with more than it has.  The cells it would have cut off
\* stay behind the terminator.
Overwritten(e, v) ==
  LET old == ValSize(e)
      new == Len(v.cells)
      before == [SubSeq(buf, 1, e.val_off - 1) EXCEPT ![e.key_off] = v.id]
      left == IF new < old THEN From(Len(buf) - (old - new) + 1) ELSE <<>>
  IN  SetLen((size + new) - old, before \o v.cells \o From(e.val_off + old) \o left)

Overwrite(e, v) ==
  /\ buf' = Overwritten(e, v)
  /\ damaged' = ~WriteFits(v)

\* DocMut::insert, and Entry: a vacant one appends.
Insert(key, v) == IF Found(key) THEN Overwrite(Find(key), v) ELSE AppendElement(key, v)

\* Mutant: the NUL between key and value is left.
RemovedShort(e) ==
  SetLen((size + e.key_off) - (e.val_off - 1 + ValSize(e)),
         SubSeq(buf, 1, e.key_off - 1) \o From(e.val_off - 1 + ValSize(e)))

\* OccupiedEntry::remove
Removed(e) ==
  SetLen((size + e.key_off) - (e.val_off + ValSize(e)),
         SubSeq(buf, 1, e.key_off - 1) \o From(e.val_off + ValSize(e)))

Remove(key) ==
  /\ Found(key)
  /\ buf' = Removed(Find(key))
  /\ UNCHANGED damaged

\* Document::get_any and append.  Bson::read gives a nested document all that is
\* left of the buffer, and that is what is written, under a length to match.
ReadAny(e) ==
  LET id == buf[e.key_off]
  IN  IF id \in {Doc, Array} THEN DocValue(id, From(e.val_off + 1))
      ELSE [id |-> id, cells |-> SubSeq(buf, e.val_off, e.val_off + ValSize(e) - 1)]

Copy(from, to) ==
  /\ Found(from)
  /\ AppendElement(to, ReadAny(Find(from)))

\* DocMut::clear keeps five bytes and claims so; the last of them is the first
\* byte after the length, which is a terminator only if there was no element.
Clear ==
  /\ buf' = SetLen(2, SubSeq(buf, 1, 2))
  /\ damaged' = (buf[2] # NUL)

\* The entry that VacantEntry::insert returns has the offsets of the length; its
\* key underflows, and what is inserted through it overwrites the length.
ChainVacant(key) ==
  /\ ~Found(key)
  /\ damaged' = TRUE
  /\ UNCHANGED buf

\* What is done with a damaged document is not followed.
Next ==
  /\ ~damaged
  /\ \/ \E k \in Keys, v \in Values : AppendElement(k, v) \/ Insert(k, v)
     \/ \E k \in Keys : Remove(k) \/ ChainVacant(k)
     \/ \E k, l \in Keys : Copy(k, l)
     \/ Clear
  /\ Len(buf') <= BufferBound

Spec == Init /\ [][Next]_vars

-----------------------------------------------------------------------------
(* Properties *)

\* While elements are appended, overwritten with more or fewer bytes, removed and
\* copied, the length stays that of the elements: the iterator, which is cut off at
\* the length, meets its terminator exactly there, and what shrunk values left behind
\* the terminator is never counted in.  It says nothing once one of these was done,
\* which leave no document behind: clear of one that has elements (doc.rs:584 keeps
\* the first byte of an element where the structure of doc.rs:95-100 has the
\* terminator), insert through the entry that VacantEntry::insert returns
\* (doc.rs:631), and writing a UtcDateTime, which panics (mod.rs:646-651).
LengthIsExact == ~damaged => Iterate(buf, 2).ok /\ Iterate(buf, 2).stop = size

\* The two walks over a document agree: find stops at the element that the
\* iterator yields first under this key, and at nothing behind the terminator.
FindAgrees ==
  ~damaged =>
    LET elements == Iterate(buf, 2).elements
        Yielded(k) == {i \in DOMAIN elements : elements[i].key = k}
    IN  \A k \in Keys :
          /\ Found(k) <=> Yielded(k) # {}
          /\ Found(k) => \E i \in Yielded(k) :
               /\ \A j \in Yielded(k) : i <= j
               /\ elements[i].id = buf[Find(k).key_off]
               /\ elements[i].cells = SubSeq(buf, Find(k).val_off, Find(k).val_off + ValSize(Find(k)) - 1)

\* Edits of the bytes are edits of the list of elements.
Contents == {[id |-> v.id, value |-> MeantBy(v)] : v \in Values}

Abstract == INSTANCE DocumentElements WITH elements <- Elements(buf)

AbstractInit == Abstract!Init

AbstractStep == [Abstract!Next]_(Abstract!vars)

ImplementsElements == AbstractInit /\ [][AbstractStep]_vars

\* mod.rs:239: get_value_size "returns the size of the bson type": so no edit of
\* one element makes the iterator miss another one.
SizesAgree == ~damaged => Iterate(buf, 2).ok /\ Iterate(buf, 2).stop = size
=============================================================================
