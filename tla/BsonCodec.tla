------------------------------ MODULE BsonCodec ------------------------------
(***************************************************************************)
(* The serializer (src/src/bson/se.rs) and the deserializer                *)
(* (src/src/bson/de.rs): a program's types write a document value by       *)
(* value, and types of its choice read it.  The reader keeps no record of  *)
(* where values end; it relies on every visitor leaving it exactly behind  *)
(* the value, wherever the types differ from those that wrote it.          *)
(***************************************************************************)
EXTENDS BsonValues, FiniteSets

CONSTANTS
  Scalars,    \* values written by one call of the serializer
  Specials,   \* values written as structures with a special key
  Documents,  \* buffers of Documents that are written as values
  Requests,   \* how types ask for a value: any, ignored, bytes, tuple, enum
  ValueBound, \* bound on the values written
  DepthBound  \* bound on the nesting

BoundAssumption == ValueBound \in Nat /\ DepthBound \in Nat

\* Numbers, texts and the like: neither documents nor regular expressions.
ScalarAssumption == \A v \in Scalars : IsWhole(v) /\ v.id \notin {Doc, Array, Regex}

SpecialAssumption == Specials \subseteq {"oid", "date", "regularExpression", "timestamp"}

\* A Document that is written is well-formed, and so are those in it, whose lengths
\* are exact.  Its own buffer may go on behind the terminator.
DocumentsAssumption ==
  \A d \in Documents :
    /\ d \in Seq(Nat)
    /\ d[1] \in 2 .. Len(d)
    /\ IsNested(d, Parts(d))
    /\ FollowEachOther(d, Parts(d), 1, d[1])

VARIABLES
  out,      \* Serializer.0, and later what the reader reads
  writers,  \* stack of DocSerializers
  values,   \* history: <<from, to>> for every value written
  loose,    \* history: starts of values that a reader or the iterator takes otherwise
            \* than they were written
  reading,  \* the document is complete and is being read
  pos,      \* where Deserializer.buf starts in out
  next,     \* Deserializer.next, or NoValue between values
  readers,  \* stack of the visits that are under way
  last,     \* history: the value that was read last
  slipped,  \* history: a read that is known not to end where the value does
  failed    \* an error was returned, or the reader panicked

writer == <<out, writers, values, loose>>
reader == <<pos, next, readers, last, slipped, failed>>
vars == <<writer, reading, reader>>

NoValue == 0

Top(stack) == stack[Len(stack)]

Pop(stack) == SubSeq(stack, 1, Len(stack) - 1)

-----------------------------------------------------------------------------
(* Serializer *)

\* DocSerializer::new: the length comes first and is not known yet.  at is the
\* place of the id, which the caller fills in when the value is written.
NewWriter(at, offset, type) == [at |-> at, offset |-> offset, index |-> 0, type |-> type]

Init ==
  /\ out = <<0>>
  /\ writers = <<NewWriter(0, 1, Doc)>>
  /\ values = {}
  /\ loose = {}
  /\ reading = FALSE
  /\ pos = 1
  /\ next = NoValue
  /\ readers = <<>>
  /\ last = <<0, 0>>
  /\ slipped = FALSE
  /\ failed = FALSE

\* serialize_element: the key is the index of the element.
Header == <<0, Top(writers).index + 1, NUL>>

Counted == [writers EXCEPT ![Len(writers)].index = @ + 1]

MayWrite == ~reading /\ writers # <<>> /\ Cardinality(values) + Len(writers) <= ValueBound

\* serialize_entry of a value that is complete with this.  odd are the cells of it
\* where a value starts that is loose: 1 is the value itself.
WriteUnder(key, v, odd) ==
  /\ MayWrite
  /\ out' = out \o <<v.id, key, NUL>> \o v.cells
  /\ values' = values \cup {<<Len(out) + 4, Len(out') + 1>>}
  /\ loose' = loose \cup {Len(out) + 3 + i : i \in odd}
  /\ writers' = Counted
  /\ UNCHANGED <<reading, reader>>

Write(v, odd) == WriteUnder(Top(writers).index + 1, v, odd)

WriteScalar == \E v \in Scalars : Write(v, {})

\* What the SpecialSerializers of ObjectId, UtcDateTime, Regex and Timestamp write.
Special ==
  [oid |-> FixedValue(ObjectId, 7), date |-> FixedValue(DateTime, 7),
   regularExpression |-> RegexValue(<<9>>, <<>>), timestamp |-> FixedValue(Timestamp, 7)]

\* SpecialSerializer::new: the structure is no document, its length goes again.
TakeLengthBack(cells) == Pop(cells)

WriteSpecial ==
  /\ MayWrite
  /\ \E kind \in Specials :
       LET opened == out \o [Header EXCEPT ![1] = Special[kind].id] \o <<0>>
       IN  /\ out' = TakeLengthBack(opened) \o Special[kind].cells
           /\ values' = values \cup {<<Len(out) + 4, Len(out) + 4 + Len(Special[kind].cells)>>}
           /\ loose' = IF Special[kind].id = Regex THEN loose \cup {Len(out) + 4} ELSE loose
  /\ writers' = Counted
  /\ UNCHANGED <<reading, reader>>

\* SpecialSerializer<BinaryData>: the length goes over the end of the key, and the
\* data and then five bytes for the subtype follow.  A key of fewer than four
\* letters, as an element of an array has it, is not modelled: there the length also
\* goes over what is in front of the element.
WriteBinary ==
  LET data == <<9>>
  IN  /\ MayWrite
      /\ Top(writers).type = Doc
      /\ WriteUnder(Len(data), [id |-> Binary, cells |-> data \o <<0, 0>>], {1})

\* SpecialSerializer<Document>: the content without its last byte, for which the
\* end of the serializer writes a terminator and the length.
Embedded(d) == DocValue(Doc, SubSeq(d, 2, Len(d) - 1) \o <<NUL>>)

HasJunk(d) == Len(d) # d[1]

Regexes(d) == {t.from : t \in {u \in Parts(d) : d[u.from - 3] = Regex}}

WriteDocument ==
  \E d \in Documents : Write(Embedded(d), Regexes(d) \cup IF HasJunk(d) THEN {1} ELSE {})

\* "$code": the length of the document is left in front, and the code follows twice.
\* "$scope" adds a document to it.
WriteJavaScript ==
  LET code == <<9>>
      written == <<0>> \o StrValue(code).cells \o code \o <<NUL>>
      scope == DocValue(Doc, <<NUL>>).cells
  IN  \/ Write([id |-> JavaScript, cells |-> written], {1})
      \/ Write([id |-> JavaScriptWithScope, cells |-> written \o scope], {1})

\* serialize_map, serialize_seq and the like
OpenNested ==
  /\ MayWrite
  /\ Len(writers) < DepthBound
  /\ out' = out \o Header \o <<0>>
  /\ \E type \in {Doc, Array} :
       writers' = Append(Counted, NewWriter(Len(out) + 1, Len(out) + 4, type))
  /\ UNCHANGED <<values, loose, reading, reader>>

\* Mutant: the length does not count itself.
EndShort ==
  /\ ~reading
  /\ writers # <<>>
  /\ LET w == Top(writers)
         ended == Append(out, NUL)
     IN  /\ out' = [i \in DOMAIN ended |->
                      IF i = w.offset THEN Len(ended) - w.offset
                      ELSE IF i = w.at THEN w.type
                      ELSE ended[i]]
         /\ values' = values \cup {<<w.offset, Len(ended) + 1>>}
  /\ writers' = Pop(writers)
  /\ reading' = (Len(writers) = 1)
  /\ UNCHANGED <<loose, reader>>

\* SerializeMap::end, then the id at the caller's, who has waited for it.
End ==
  /\ ~reading
  /\ writers # <<>>
  /\ LET w == Top(writers)
         ended == Append(out, NUL)
     IN  /\ out' = [i \in DOMAIN ended |->
                      IF i = w.offset THEN Len(ended) + 1 - w.offset
                      ELSE IF i = w.at THEN w.type
                      ELSE ended[i]]
         /\ values' = values \cup {<<w.offset, Len(ended) + 1>>}
  /\ writers' = Pop(writers)
  /\ reading' = (Len(writers) = 1)
  /\ UNCHANGED <<loose, reader>>

-----------------------------------------------------------------------------
(* Deserializer *)

MayRead == reading /\ ~slipped /\ ~failed

Fail == failed' = TRUE /\ UNCHANGED <<pos, next, readers, last, slipped>>

\* A value was read from where the reader stood up to to.
Done(from, to) ==
  /\ pos' = to
  /\ next' = NoValue
  /\ last' = <<from, to>>
  /\ UNCHANGED failed

\* Deserializer::new starts in front of a document.
Begin ==
  /\ MayRead
  /\ readers = <<>>
  /\ last = <<0, 0>>
  /\ readers' = <<[from |-> 1, ask |-> "map"]>>
  /\ pos' = 2
  /\ UNCHANGED <<writer, reading, next, last, slipped, failed>>

AtKey == MayRead /\ readers # <<>> /\ next = NoValue

\* next_key_seed and next_element_seed: an id and a key.
NextKey ==
  /\ AtKey
  /\ out[pos] # NUL
  /\ Top(readers).ask # "enum"
  /\ next' = out[pos]
  /\ pos' = NulFrom(out, pos + 1) + 1
  /\ UNCHANGED <<writer, reading, readers, last, slipped, failed>>

\* The terminator ends a map or a sequence.
NextIsEnd ==
  /\ AtKey
  /\ out[pos] = NUL
  /\ Top(readers).ask = "map"
  /\ Done(Top(readers).from, pos + 1)
  /\ readers' = Pop(readers)
  /\ slipped' = (Top(readers).from \in loose)
  /\ UNCHANGED <<writer, reading>>

\* The visitor of a tuple asks for no more elements than it has, and that of an
\* enum for one variant: the terminator is left to whoever reads next.
LeaveWithoutEnd ==
  /\ AtKey
  /\ \/ Top(readers).ask = "enum"
     \/ Top(readers).ask = "tuple" /\ out[pos] = NUL
  /\ Done(Top(readers).from, pos)
  /\ readers' = Pop(readers)
  /\ slipped' = TRUE
  /\ UNCHANGED <<writer, reading>>

AtValue(request) == MayRead /\ next # NoValue /\ request \in Requests

Enter(ask) ==
  /\ readers' = Append(readers, [from |-> pos, ask |-> ask])
  /\ pos' = pos + 1
  /\ next' = NoValue
  /\ UNCHANGED <<last, slipped, failed>>

\* Mutant: the NUL of a string is not skipped.
StringEndShort(i) == i + out[i]

\* 5 + str.len()
StringEnd(i) == i + 1 + out[i]

\* What follows the value in place is where the reader goes.
Skip(cells) == Done(pos, pos + cells) /\ UNCHANGED <<readers, slipped>>

\* Maps of one entry, "$oid", "$date" and "$timestamp"; at state 0 they are over.
ReadSpecial == next \in {ObjectId, DateTime, Timestamp} /\ Skip(1)

\* visit_map while its cell is borrowed: it panics.
ReadBinary == next = Binary /\ Fail

\* The state 4, between the key and its value, has no case.
ReadRegex == next = Regex /\ Fail

\* The NUL behind the code is not read.  A length of zero, as the serializer leaves
\* it, is a slice that ends before it starts.
ReadJavaScript ==
  /\ next \in {JavaScript, JavaScriptWithScope}
  /\ IF out[pos] = 0 THEN Fail
     ELSE Done(pos, pos + out[pos]) /\ slipped' = TRUE /\ UNCHANGED readers

\* deserialize_any
ReadAny ==
  /\ AtValue("any")
  /\ \/ next \in {Doc, Array} /\ Enter("map")
     \/ next \in {F64, Bool, I32, I64, Null} /\ Skip(FixedSize[next])
     \/ next = Str /\ Done(pos, StringEnd(pos)) /\ UNCHANGED <<readers, slipped>>
     \/ ReadSpecial \/ ReadBinary \/ ReadRegex \/ ReadJavaScript
  /\ UNCHANGED <<writer, reading>>

Skipped == pos + ValueSize(next, out, pos)

\* What the serializer writes of these does not start with its size.
Sizeless == next \in {Binary, JavaScript, JavaScriptWithScope} /\ pos \in loose

\* deserialize_ignored_any
ReadIgnored ==
  /\ AtValue("ignored")
  /\ Done(pos, Skipped)
  /\ slipped' = (next = Regex \/ Sizeless)
  /\ UNCHANGED <<writer, reading, readers>>

\* deserialize_bytes: binary data, or a whole document.
ReadBytes ==
  /\ AtValue("bytes")
  /\ next \in {Binary, Doc}
  /\ Done(pos, Skipped)
  /\ slipped' = Sizeless
  /\ UNCHANGED <<writer, reading, readers>>

\* A type with a fixed number of elements: visit_seq of a tuple or an array.
ReadTuple == AtValue("tuple") /\ next = Array /\ Enter("tuple") /\ UNCHANGED <<writer, reading>>

\* deserialize_enum and variant_seed: a document of one element, whose key is
\* the variant.  Only documents are enums, a unit variant is written as null.
ReadEnum ==
  /\ AtValue("enum")
  /\ IF next = Doc /\ out[pos + 1] # NUL
       THEN /\ readers' = Append(readers, [from |-> pos, ask |-> "enum"])
            /\ next' = out[pos + 1]
            /\ pos' = NulFrom(out, pos + 2) + 1
            /\ UNCHANGED <<last, slipped, failed>>
       ELSE Fail
  /\ UNCHANGED <<writer, reading>>

Read == Begin \/ NextKey \/ NextIsEnd \/ LeaveWithoutEnd \/ ReadAny \/ ReadIgnored
        \/ ReadBytes \/ ReadTuple \/ ReadEnum

Next == WriteScalar \/ WriteSpecial \/ WriteBinary \/ WriteDocument \/ WriteJavaScript
        \/ OpenNested \/ End \/ Read

Spec == Init /\ [][Next]_vars

-----------------------------------------------------------------------------
(* Properties *)

Starts == {v[1] : v \in values}

\* Whatever the types of the reader skip, take as bytes or walk through, at any
\* depth, each value ends for the reader where it ended for the writer.  Excepted are
\* the reads that are known to slip: tuples and enums, ignored regular expressions,
\* JavaScript with and without a scope, binary data written as BinaryData ("$binary",
\* not as bytes), and Documents with bytes behind their terminator.
ReaderInStep == last[1] \in Starts => last \in values \/ slipped

\* Every nested length, filled in when the value ends and not before, spans the
\* value.  If none of these was written - a regular expression, JavaScript, BinaryData,
\* a Document with bytes behind its terminator - the iterator of DocRef also stops at
\* the terminator that the length says.
LengthsNest ==
  reading => \A v \in values :
    v[1] = 1 \/ out[v[1] - 3] \in {Doc, Array} =>
      /\ out[v[1]] = v[2] - v[1]
      /\ loose = {} => LET read == Iterate(SubSeq(out, v[1], v[2] - 1), 2)
                      IN  read.ok /\ read.stop = v[2] - v[1]
=============================================================================
