--------------------------------- MODULE Bson ---------------------------------
(***************************************************************************)
(* The parts of the crate that make documents: object ids, the in-place    *)
(* buffer, serializer and deserializer.  They share no state, so a         *)
(* behaviour follows one of them, its focus, while the others rest.        *)
(***************************************************************************)
EXTENDS BsonValues, FiniteSets

CONSTANTS
  Threads, M, Word, IdBound,                                       \* of ObjectIdCounter
  Keys, Values, BufferBound,                                       \* of DocumentBuffer
  Scalars, Specials, Documents, Requests, ValueBound, DepthBound   \* of BsonCodec

VARIABLES focus

VARIABLES counter, loaded, recent  \* ObjectIdCounter

VARIABLES buf, damaged  \* DocumentBuffer

VARIABLES out, writers, values, loose, reading, pos, next, readers, last, slipped, failed  \* BsonCodec

ids == <<counter, loaded, recent>>
buffer == <<buf, damaged>>
codec == <<out, writers, values, loose, reading, pos, next, readers, last, slipped, failed>>
vars == <<focus, ids, buffer, codec>>

Ids == INSTANCE ObjectIdCounter

Buffer == INSTANCE DocumentBuffer

Codec == INSTANCE BsonCodec

ASSUME BsonAssumption ==
  /\ Ids!WidthAssumption /\ Ids!BoundAssumption
  /\ Buffer!KeyAssumption /\ Buffer!ValueAssumption /\ Buffer!BoundAssumption
  /\ Codec!BoundAssumption /\ Codec!ScalarAssumption /\ Codec!SpecialAssumption
  /\ Codec!DocumentsAssumption

-----------------------------------------------------------------------------
Init ==
  /\ focus \in {"ids", "buffer", "codec"}
  /\ Ids!Init /\ Buffer!Init /\ Codec!Init

Next ==
  /\ UNCHANGED focus
  /\ \/ focus = "ids" /\ Ids!Next /\ UNCHANGED <<buffer, codec>>
     \/ focus = "buffer" /\ Buffer!Next /\ UNCHANGED <<ids, codec>>
     \/ focus = "codec" /\ Codec!Next /\ UNCHANGED <<ids, buffer>>

Spec == Init /\ [][Next]_vars

-----------------------------------------------------------------------------
(* The properties of the instances; each holds of an initial state, too. *)

DistinctInARow == Ids!DistinctInARow
LengthIsExact == Buffer!LengthIsExact
FindAgrees == Buffer!FindAgrees
SizesAgree == Buffer!SizesAgree
ReaderInStep == Codec!ReaderInStep
LengthsNest == Codec!LengthsNest

\* Buffer!ImplementsElements, spelled out for the steps of the buffer.
ImplementsElements ==
  Buffer!AbstractInit /\ [][focus = "buffer" => Buffer!AbstractStep]_buffer
=============================================================================
