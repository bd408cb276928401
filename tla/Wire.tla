-------------------------------- MODULE Wire --------------------------------
(***************************************************************************)
(* One stream, byte for byte (src/src/wire.rs): the handshake, then one    *)
(* request and one reply at a time.  A reply is a header, for a compressed *)
(* one a second header, and a body; the driver reads each by the size it   *)
(* expects, so that a reader that stops early, or has a size wrong, starts *)
(* its next read in the middle of a message.  Run_command gives a stream   *)
(* back to the pool after an error, too, so that it is read again, and a    *)
(* retry, which has the id of the first attempt, may get the same stream.  *)
(*                                                                         *)
(* Bytes that are not a header are taken never to spell one.  Sequences of *)
(* documents are left out: no caller sends any.                            *)
(***************************************************************************)
EXTENDS Naturals, Sequences, Functions

CONSTANTS
  Compressors,  \* those the stream may have been opened with, "none" for None
  Dialects,     \* the kinds of replies a server may give, see Message
  LastRequest,  \* bound on request ids
  BodySize      \* bytes of a body: flag bits, payload type and document

WireAssumption ==
  /\ Compressors \subseteq {"none", "Noop", "Snappy", "Zlib", "Zstd"}
  /\ Dialects \subseteq SUBSET {"plain", "refusal", "typed", "foreign", "stub", "undersized",
                               "noop", "nested", "zstd", "snappy"}
  /\ LastRequest \in Nat /\ BodySize \in Nat /\ BodySize > 4

VARIABLES
  dialect,     \* the kinds of replies of this server
  compressor,  \* the compressor in Stream
  phase,       \* what the driver does on the stream, "dropped" once it is closed
  ids,         \* the ids of all requests, in the order they were sent
  again,       \* ids that a retry may send once more
  header,      \* the reply whose header was read last
  outcome,     \* how the last exchange ended
  up,          \* the server has not closed the connection
  requests,    \* what the server has still to read
  stream       \* the bytes the driver has still to read

vars == <<dialect, compressor, phase, ids, again, header, outcome, up, requests, stream>>

HeaderSize == 16

\* size_of::<CompressionData>() bytes are written, of an encoding of nine.
CompressionWritten == 12
CompressionRead == 16

\* A reply tells which of the requests it is to, of which it has the id.
NoReply == [to |-> 0, kind |-> "none"]

Init ==
  /\ dialect \in Dialects
  /\ compressor \in Compressors
  /\ phase = "connected"
  /\ ids = <<>>
  /\ again = {}
  /\ header = NoReply
  /\ outcome = "none"
  /\ up = TRUE
  /\ requests = <<>>
  /\ stream = <<>>

-----------------------------------------------------------------------------
(* The server *)

CompressionSize == 9

Compressed == {"noop", "nested", "zstd", "snappy"}

\* The bytes of a body that its header announces.
BodyOf(kind) ==
  CASE kind = "undersized" -> 0
    [] kind = "stub" -> 4
    [] OTHER -> BodySize

SizeOf(kind) ==
  HeaderSize + (IF kind \in Compressed THEN CompressionSize ELSE 0) + BodyOf(kind)

\* The bytes of a message know their places in it.
Message(reply) == [i \in 1..SizeOf(reply.kind) |-> [reply |-> reply, place |-> i]]

\* It answers the next request; one it cannot read makes it hang up.
Serve ==
  /\ up
  /\ requests # <<>>
  /\ requests' = Tail(requests)
  /\ IF Head(requests).readable
       THEN /\ \E kind \in dialect :
                 stream' = stream \o Message([to |-> Head(requests).number, kind |-> kind])
            /\ UNCHANGED up
       ELSE up' = FALSE /\ UNCHANGED stream
  /\ UNCHANGED <<dialect, compressor, phase, ids, again, header, outcome>>

\* The connection is closed; what was not read may be lost.
Close ==
  /\ up
  /\ up' = FALSE
  /\ requests' = <<>>
  /\ stream' \in {stream, <<>>}
  /\ UNCHANGED <<dialect, compressor, phase, ids, again, header, outcome>>

-----------------------------------------------------------------------------
(* Sending *)

Attempts(i) == {n \in DOMAIN ids : ids[n] = i}

\* What became of the request sent last, the n-th, with id i: a stream whose
\* handshake, the first, fails is not kept.  Not every call may be retried, but
\* one whose first attempt fails in certain ways.
Finish(n, i, result) ==
  /\ outcome' = result
  /\ phase' = IF n = 1 /\ result # "ok" THEN "dropped" ELSE "idle"
  /\ again' = IF result \in {"io", "refused"} /\ Attempts(i) \subseteq {n}
              THEN again \cup {i} ELSE again \ {i}

Written(n, comp) ==
  [number |-> n, readable |-> comp = "none" \/ CompressionWritten = CompressionSize]

\* A closed connection may take the bytes nevertheless.
Send(i, comp) ==
  LET n == Len(ids) + 1
  IN  /\ ids' = Append(ids, i)
      /\ \/ /\ comp \in {"Snappy", "Zlib"}
            /\ Finish(n, i, "panic")
            /\ UNCHANGED requests
         \/ /\ comp \notin {"Snappy", "Zlib"}
            /\ ~up
            /\ Finish(n, i, "io")
            /\ UNCHANGED requests
         \/ /\ comp \notin {"Snappy", "Zlib"}
            /\ phase' = "header"
            /\ requests' = IF up THEN Append(requests, Written(n, comp)) ELSE requests
            /\ outcome' = "none"
            /\ again' = again \ {i}
      /\ UNCHANGED <<dialect, compressor, header, up, stream>>

Handshake == phase = "connected" /\ Send(0, "none")

\* Calls have different ids, but those of several threads come in any order.
Command ==
  /\ phase = "idle"
  /\ \E i \in ((1 .. LastRequest) \ Range(ids)) \cup again : Send(i, compressor)

-----------------------------------------------------------------------------
(* Receiving *)

\* The request sent last.
id == ids[Len(ids)]

Complete(result) == Finish(Len(ids), id, result)

\* read_exact: n bytes are taken once they are there.
Take(n) == Len(stream) >= n /\ stream' = SubSeq(stream, n + 1, Len(stream))

AtMessage == Head(stream).place = 1

\* Header::read and Header::copy_from_slice.  A length below 16 underflows: a
\* panic, or four GiB are waited for that never come.
ReadHeader ==
  /\ phase = "header"
  /\ Take(HeaderSize)
  /\ IF ~AtMessage \/ Head(stream).reply.kind = "foreign"
       THEN Complete("io") /\ UNCHANGED header
       ELSE /\ header' = Head(stream).reply
            /\ \/ header'.kind = "undersized" /\ Complete("panic")
               \/ /\ phase' = IF header'.kind \in Compressed THEN "compression"
                              ELSE IF header'.kind = "undersized" THEN "starved" ELSE "body"
                  /\ UNCHANGED <<outcome, again>>
  /\ UNCHANGED <<dialect, compressor, ids, up, requests>>

\* CompressionData::read.  The decoder of zstd buffers what has arrived and
\* starts in the middle of a frame.
ReadCompression ==
  /\ phase = "compression"
  /\ Len(stream) >= CompressionRead
  /\ \/ /\ header.kind \in {"noop", "nested"}
        /\ Take(CompressionRead)
        /\ phase' = "body"
        /\ UNCHANGED <<outcome, again>>
     \/ /\ header.kind = "zstd"
        /\ stream' = <<>>
        /\ Complete("io")
     \/ /\ header.kind = "snappy"
        /\ Take(CompressionRead)
        /\ Complete("Compression")
  /\ UNCHANGED <<dialect, compressor, ids, header, up, requests>>

\* Mutant: the request a reply answers is not looked at.
AnswersAny(r) == TRUE

Answers(r) == ids[r.to] = id

\* The checks of recv, and the one for ok in handshake and run_command.  A body
\* read out of step may be taken for any.
Verdicts(r) ==
  CASE r.kind = "stub" -> {"panic"}
    [] r.kind = "nested" -> {"OpCode"}
    [] r.kind \notin {"stub", "nested"} /\ ~Answers(r) -> {"ResponseTo"}
    [] r.kind = "typed" /\ Answers(r) -> {"PayloadType"}
    [] r.kind = "noop" /\ Answers(r) -> {"PayloadType", "garbled"}
    [] r.kind = "refusal" /\ Answers(r) -> {"refused"}
    [] r.kind = "plain" /\ Answers(r) -> {"ok"}

\* Mutant: the checks of the header come first and return before the body is
\* read.
ReadBodyLate ==
  /\ phase = "body"
  /\ IF Verdicts(header) \cap {"PayloadType", "ResponseTo"} # {}
       THEN UNCHANGED stream ELSE Take(BodyOf(header.kind))
  /\ \E result \in Verdicts(header) : Complete(result)
  /\ UNCHANGED <<dialect, compressor, ids, header, up, requests>>

ReadBody ==
  /\ phase = "body"
  /\ Take(BodyOf(header.kind))
  /\ \E result \in Verdicts(header) : Complete(result)
  /\ UNCHANGED <<dialect, compressor, ids, header, up, requests>>

\* The end of the stream is reached before the bytes that are read for.
ReadFails ==
  /\ ~up
  /\ \/ phase = "header" /\ Len(stream) < HeaderSize
     \/ phase = "compression" /\ Len(stream) < CompressionRead
     \/ phase = "body" /\ Len(stream) < BodyOf(header.kind)
     \/ phase = "starved"
  /\ Complete("io")
  /\ stream' = <<>>
  /\ UNCHANGED <<dialect, compressor, ids, header, up, requests>>

Next ==
  \/ Serve \/ Close
  \/ Handshake \/ Command
  \/ ReadHeader \/ ReadCompression \/ ReadBody \/ ReadFails

Spec == Init /\ [][Next]_vars

-----------------------------------------------------------------------------
(* Properties *)

\* A call succeeds only with a reply that the server gave to a request of its own.
\* If that is the request sent last, nothing else is on the way; or else it is the
\* first attempt of a call that was retried, and the reply to the retry is left.
OwnReply ==
  [][outcome # "ok" /\ outcome' = "ok" =>
       /\ header.to \in Attempts(id)
       /\ header.to = Len(ids) => stream' = <<>> /\ requests' = <<>>]_vars

\* Between calls the stream is at the start of a message, whichever errors there
\* were, unless the server answers with another op code or compressed, whose
\* bodies are left unread.
InStep ==
  /\ phase = "idle"
  /\ dialect \cap ({"foreign"} \cup Compressed) = {}
  => stream = <<>> \/ AtMessage
=============================================================================
